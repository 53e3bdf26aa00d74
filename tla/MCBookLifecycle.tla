--------------------------- MODULE MCBookLifecycle ---------------------------
(* BookLifecycle for a few activity instances and passwords.                 *)
EXTENDS BookLifecycle
=============================================================================
