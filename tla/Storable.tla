-------------------------------- MODULE Storable --------------------------------
(***************************************************************************)
(* What reference counting promises the clients of stored objects: an      *)
(* object that a client holds is not freed, an object is freed at most     *)
(* once, and a client can get hold of an object only while it is alive.    *)
(* The cache, its lists and its eviction do not show.                      *)
(***************************************************************************)
EXTENDS Naturals

CONSTANTS Vals          \* the objects

VARIABLES
    status,     \* per object "none", "live" or "freed"
    held        \* per object the references its clients have

vars == <<status, held>>

Init ==
    /\ status = [v \in Vals |-> "none"]
    /\ held = [v \in Vals |-> 0]

Create(v) ==
    /\ status[v] = "none"
    /\ status' = [status EXCEPT ![v] = "live"]
    /\ held' = [held EXCEPT ![v] = 1]

Take(v) ==
    /\ status[v] = "live"
    /\ held' = [held EXCEPT ![v] = @ + 1]
    /\ UNCHANGED status

Drop(v) ==
    /\ held[v] > 0
    /\ held' = [held EXCEPT ![v] = @ - 1]
    /\ UNCHANGED status

Free(v) ==
    /\ status[v] = "live" /\ held[v] = 0
    /\ status' = [status EXCEPT ![v] = "freed"]
    /\ UNCHANGED held

Next == \E v \in Vals : Create(v) \/ Take(v) \/ Drop(v) \/ Free(v)

Spec == Init /\ [][Next]_vars
=================================================================================
