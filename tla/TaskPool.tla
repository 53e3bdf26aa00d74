------------------------------- MODULE TaskPool -------------------------------
(***************************************************************************)
(* What the executor of the decode service promises, without its list of   *)
(* slots, its map, its flags and its thread: a pool of tasks of which one  *)
(* at a time is executed.  A node has at most one request in the pool, the *)
(* latest; no request enters the pool twice; a search goes before every    *)
(* request, the shutdown before every search; and nothing is executed      *)
(* after the shutdown.                                                     *)
(***************************************************************************)
EXTENDS Integers

CONSTANTS Nodes,   \* who requests an image
          Zooms,   \* at which zoom
          Pages,   \* the pages a search may ask about
          NoTask   \* nothing is executed

Shutdown == [kind |-> "shutdown"]

VARIABLES waiting,    \* the tasks in the pool
          executing,  \* the task that is executed
          nextId,     \* the id of the next request
          open        \* the shutdown task has not been executed

vars == <<waiting, executing, nextId, open>>

Init == /\ waiting = {}
        /\ executing = NoTask
        /\ nextId = 1
        /\ open = TRUE

\* A new request replaces the one of the same node that waits.
Submit == \E n \in Nodes, z \in Zooms :
    /\ waiting' = {t \in waiting : t.kind = "decode" => t.node # n}
                     \cup {[kind |-> "decode", id |-> nextId, node |-> n, zoom |-> z]}
    /\ nextId' = nextId + 1
    /\ UNCHANGED <<executing, open>>

\* A request that repeats the one of its node is not entered.
SkipRequest == nextId' = nextId + 1 /\ UNCHANGED <<waiting, executing, open>>

\* Requests may be given up, searches and the shutdown may not.
Withdraw == /\ waiting' \in SUBSET waiting
            /\ \A t \in waiting \ waiting' : t.kind = "decode"
            /\ UNCHANGED <<executing, nextId, open>>

Ask == \E p \in Pages :
    /\ waiting' = waiting \cup {[kind |-> "search", page |-> p]}
    /\ UNCHANGED <<executing, nextId, open>>

\* Closing gives up every request and enters the shutdown task.
Close == /\ waiting' = {t \in waiting : t.kind # "decode"} \cup {Shutdown}
         /\ UNCHANGED <<executing, nextId, open>>

Rank(t) == CASE t.kind = "shutdown" -> 0
             [] t.kind = "search"   -> 1
             [] t.kind = "decode"   -> 2

Take == /\ open
        /\ executing = NoTask
        /\ \E t \in waiting :
              /\ \A u \in waiting : Rank(t) <= Rank(u)
              /\ executing' = t
              /\ waiting' = waiting \ {t}
        /\ UNCHANGED <<nextId, open>>

Done == /\ executing # NoTask
        /\ executing' = NoTask
        /\ open' = (executing # Shutdown)
        /\ UNCHANGED <<waiting, nextId>>

Next == Submit \/ SkipRequest \/ Withdraw \/ Ask \/ Close \/ Take \/ Done

Spec == Init /\ [][Next]_vars

\* A task that waits in an open pool is not passed over for ever, and a task
\* under way ends.
FairSpec == Spec /\ WF_vars(Take) /\ WF_vars(Done)
=============================================================================
