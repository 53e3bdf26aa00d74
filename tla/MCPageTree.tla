------------------------------ MODULE MCPageTree ------------------------------
(* PageTree with a small fan-out and few levels.                             *)
EXTENDS PageTree
=============================================================================
