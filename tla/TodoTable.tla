------------------------------ MODULE TodoTable ------------------------------
(***************************************************************************)
(* The todos table and the SQL statements PGTodoRepo runs against it, as    *)
(* pure operators.  Rows are never removed, deletion only stamps            *)
(* deleted_at, so the table is a sequence and the BIGSERIAL id of a row is  *)
(* its position.  `text' stands for the pair title and description,         *)
(* `deleted' for deleted_at IS NOT NULL; created_at and updated_at, which   *)
(* only order and decorate the answers, are left out.                       *)
(***************************************************************************)
EXTENDS Integers, Sequences

CONSTANTS
  Users,      \* ids of the users that own todos
  Texts,      \* what a client may send as a title or description
  EmptyText,  \* the text ""
  Queries,    \* what a client may send as a search query
  TrimQuery,  \* [Queries -> Queries]: strings.TrimSpace
  LowerCase,  \* [Queries -> Queries]: strings.ToLower
  Contains,   \* <<text, folded query>> pairs such that the text contains the query
  Nil         \* a Go nil pointer, an SQL NULL, an absent JSON field

ASSUME TableAssumption ==
  /\ Users \subseteq Nat \ {0}
  /\ EmptyText \in Texts
  /\ TrimQuery \in [Queries -> Queries] /\ LowerCase \in [Queries -> Queries]
  /\ \A q \in Queries : /\ TrimQuery[TrimQuery[q]] = TrimQuery[q]
                        /\ LowerCase[LowerCase[q]] = LowerCase[q]
                        /\ TrimQuery[LowerCase[TrimQuery[q]]] = LowerCase[TrimQuery[q]]
  /\ Contains \subseteq Texts \X Queries
  /\ Nil \notin Nat /\ Nil \notin Texts /\ Nil \notin Queries /\ Nil \notin BOOLEAN

Row == [owner: Users, text: Texts, done: BOOLEAN, due: Nat \cup {Nil}, deleted: BOOLEAN]

\* A row as an answer carries it.
Item == [id: Nat, row: Row]

(***************************************************************************)
(* Statements on one row.  All of them select it by                         *)
(* WHERE id = $1 AND user_id = $2 AND deleted_at IS NULL.                   *)
(***************************************************************************)

\* Mutants of Hits: the statement forgets one conjunct of its WHERE clause.
HitsDeleted(t, u, id) == id \in DOMAIN t /\ t[id].owner = u
HitsForeign(t, u, id) == id \in DOMAIN t /\ ~t[id].deleted

Hits(t, u, id) ==
  /\ id \in DOMAIN t
  /\ t[id].owner = u
  /\ ~t[id].deleted

InsertRow(t, u, text, due) ==
  Append(t, [owner |-> u, text |-> text, done |-> FALSE, due |-> due, deleted |-> FALSE])

\* Every column the service can patch is written, changed or not.
UpdateRow(t, id, patch) ==
  [t EXCEPT ![id] = [@ EXCEPT !.text = patch.text, !.due = patch.due, !.done = patch.done]]

MarkDone(t, id) == [t EXCEPT ![id] = [@ EXCEPT !.done = TRUE]]

SoftDelete(t, id) == [t EXCEPT ![id] = [@ EXCEPT !.deleted = TRUE]]

(***************************************************************************)
(* Queries that return many rows.  Search trims its query, and ILIKE ignores *)
(* case: what it matches is decided by the query folded so.                 *)
(***************************************************************************)

Fold(q) == LowerCase[TrimQuery[q]]

ILike(text, q) == <<text, Fold(q)>> \in Contains

\* The part of the WHERE clause that distinguishes the three queries.
Selects(view, q, row, n) ==
  \/ view = "list"
  \/ view = "search" /\ ILike(row.text, q)
  \/ view = "overdue" /\ ~row.done /\ row.due # Nil /\ row.due < n

Rows(t, n, view, u, q) ==
  {[id |-> i, row |-> t[i]] : i \in {j \in DOMAIN t : /\ Hits(t, u, j)
                                                      /\ Selects(view, q, t[j], n)}}
=============================================================================
