----------------------------- MODULE MCLifecycle -----------------------------
(***************************************************************************)
(* The processes TLC checks, with the three migrations of migrations/, of    *)
(* which the third cannot run twice.                                         *)
(***************************************************************************)
EXTENDS Lifecycle

OneShotMigrations == {3}
=============================================================================
