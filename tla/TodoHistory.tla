----------------------------- MODULE TodoHistory -----------------------------
(***************************************************************************)
(* TodoService with the moments of the table remembered, and what it         *)
(* implements.  past and window are history: no step of TodoService reads    *)
(* them.                                                                    *)
(***************************************************************************)
EXTENDS TodoService

\* What a client sees of a response.
ASSUME ReplyAssumption == Nil \notin [status: Nat, rows: SUBSET Item]

VARIABLES past, window

historyOfTable == <<past, window>>

Moment == [t |-> todos, n |-> now]

HInit ==
  /\ Init
  /\ past = {Moment}
  /\ window = [r \in Request |-> {Moment}]

HNext ==
  /\ Next
  /\ past' = past \cup {Moment'}
  /\ window' = [r \in Request |-> IF call[r] = Nil THEN {Moment'}
                                  ELSE IF answer[r] = Nil THEN window[r] \cup {Moment'}
                                  ELSE window[r]]

HSpec == HInit /\ [][HNext]_<<vars, historyOfTable>>

Acted == [r \in Request |-> wrote[r] # 0]

Result == [r \in Request |-> IF wrote[r] = 0 THEN {} ELSE found[r].rows]

Told == [r \in Request |-> IF answer[r] = Nil THEN Nil
                           ELSE [status |-> answer[r].status, rows |-> answer[r].rows]]

\* The requests told of an error while Postgres still has their statement.
Unsettled == {r \in inflight : answer[r] # Nil}

Store == INSTANCE TodoStore WITH table <- todos, clock <- now, asked <- call, acted <- Acted,
                            result <- Result, reply <- Told, unsettled <- Unsettled

\* The service with its cache, its flights, its two-step update and its lost
\* replies is a table on which every write takes effect at most once and not
\* before it arrived, an update over the row as it was at one moment between its
\* arrival and its answer.  A success is only answered after the effect; after a
\* 404, or a 204 for a row that was not there, no effect ever comes; an error
\* leaves open whether it came, will come or never does.  Every list is what the
\* database would have answered at one moment of the past, never a mix of two.
ImplementsStore == Store!Spec
=============================================================================
