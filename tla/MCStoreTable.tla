--------------------------- MODULE MCStoreTable -----------------------------
(***************************************************************************)
(* An instance of StoreTable: two objects that two threads decode for the  *)
(* same key, one for another, and one whose key is not hashed.  The slots  *)
(* of the hashed keys collide at the end of the array, or are neighbours   *)
(* across it.                                                              *)
(***************************************************************************)
EXTENDS StoreTable, TLC

CONSTANTS a1, a2, b, c, ka, kb, kc, t1, t2

MCKeyOf == a1 :> ka @@ a2 :> ka @@ b :> kb @@ c :> kc
MCSize == a1 :> 1 @@ a2 :> 1 @@ b :> 1 @@ c :> 2
MCCodes == {ka :> 7 @@ kb :> 15, ka :> 7 @@ kb :> 0}
Symmetry == Permutations({t1, t2})
MCHashed == {ka, kb}
================================================================================
