--------------------------------- MODULE Screen ---------------------------------
(***************************************************************************)
(* What the drawing of view states promises: the screen is blank or shows  *)
(* a state that was asked for, and never goes back to an older one, not    *)
(* even after it was blank.  States are numbered in the order in which     *)
(* redrawView is called for them.                                          *)
(***************************************************************************)
EXTENDS Naturals

VARIABLES
    wanted,     \* the newest state asked for
    best,       \* the newest state shown so far
    blank       \* nothing is on the screen

vars == <<wanted, best, blank>>

Init == wanted = 0 /\ best = 0 /\ blank = TRUE

Want ==
    /\ wanted' = wanted + 1
    /\ UNCHANGED <<best, blank>>

Show ==
    /\ best' \in best .. wanted
    /\ blank' = FALSE
    /\ UNCHANGED wanted

Blank ==
    /\ blank' = TRUE
    /\ UNCHANGED <<wanted, best>>

Next == Want \/ Show \/ Blank

Spec == Init /\ [][Next]_vars
=================================================================================
