------------------------------ MODULE MCDrawQueue ------------------------------
(***************************************************************************)
(* An instance of DrawQueue with a queue for two states.                   *)
(***************************************************************************)
EXTENDS DrawQueue
================================================================================
