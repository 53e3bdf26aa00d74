------------------------------- MODULE PageTree -------------------------------
(***************************************************************************)
(* The tree of slices a page is drawn from: an array in which the children *)
(* of node n follow those of node n - 1, and maxNodeId, which bounds every *)
(* scan of the array.  The UI thread creates the nodes of a zoom level and *)
(* recycles nodes; drawing walks a level and creates what is missing, on   *)
(* the UI thread (BaseView) or on a thread of its own (SurfaceView).       *)
(*                                                                         *)
(* Each access to the array or to maxNodeId that the other thread can come *)
(* between is an action; the children of one parent are created, and given *)
(* up, in one.  maxNodeId is volatile, but maxNodeId++, maxNodeId-- and    *)
(* Math.max(maxNodeId, childId) each read it and then write it.            *)
(***************************************************************************)
EXTENDS Integers, Sequences

CONSTANTS
    Fanout,      \* PageTree.splitMasks.length
    Levels       \* PageTreeLevel.LEVELS.length

ASSUME FanoutAssumption == Fanout \in Nat \ {0, 1}
ASSUME LevelsAssumption == Levels \in Nat \ {0}

VARIABLES
    surfaceView, \* the view type of the settings: drawing has a thread of its own
    present,    \* the indices at which treeNodes is not null
    maxNodeId,  \* PageTree.maxNodeId
    pc,         \* where each thread is
    index,      \* its loop variable
    end,        \* the end of its loop
    path,       \* the nodes whose parents createChildren is to be called for
    seen        \* what it read from maxNodeId

vars == <<surfaceView, present, maxNodeId, pc, index, end, path, seen>>
Threads == {"ui", "draw"}

-----------------------------------------------------------------------------
(* Index arithmetic.                                                        *)

\* A level has Fanout times the nodes of the one before it and begins where that one ends.
Width[l \in 0 .. Levels] == IF l = 0 THEN 1 ELSE Fanout * Width[l - 1]
Start[l \in 0 .. Levels] == IF l = 0 THEN 0 ELSE Start[l - 1] + Width[l - 1]
End(l) == Start[l + 1]
NODES == Start[Levels]
Nodes == 0 .. NODES - 1
Parent(n) == (n - 1) \div Fanout
FirstChild(n) == n * Fanout + 1
ChildrenEnd(n) == FirstChild(n) + Fanout
Children(n) == FirstChild(n) .. ChildrenEnd(n) - 1

\* The end of the children in the array: Math.min(nodes.length, ...).
ArrayEnd(n) == IF ChildrenEnd(n) < NODES THEN ChildrenEnd(n) ELSE NODES

-----------------------------------------------------------------------------
Init ==
    /\ surfaceView \in BOOLEAN
    /\ present = {0}
    /\ maxNodeId = 1
    /\ pc = [t \in Threads |-> "idle"]
    /\ index = [t \in Threads |-> 0]
    /\ end = [t \in Threads |-> 0]
    /\ path = [t \in Threads |-> <<>>]
    /\ seen = [t \in Threads |-> 0]

Goto(t, from, to) == pc[t] = from /\ pc' = [pc EXCEPT ![t] = to]

\* The operation is over and its local variables are gone.
Return(t, from) ==
    /\ Goto(t, from, "idle")
    /\ index' = [index EXCEPT ![t] = 0]
    /\ end' = [end EXCEPT ![t] = 0]
    /\ path' = [path EXCEPT ![t] = <<>>]
    /\ seen' = [seen EXCEPT ![t] = 0]

\* The thread begins an operation; with a BaseView drawing is a handler of
\* the UI thread, and the two take turns.
Begin(t, to) ==
    /\ Goto(t, "idle", to)
    /\ surfaceView \/ \A u \in Threads : pc[u] = "idle"

-----------------------------------------------------------------------------
(* PageTree.process: visit the nodes of a level, create those that miss.    *)

\* The UI thread creates what misses, drawing does not begin below maxNodeId.
Process(t, l) ==
    /\ Begin(t, "scan")
    /\ t = "draw" => Start[l] < maxNodeId
    /\ index' = [index EXCEPT ![t] = Start[l]]
    /\ end' = [end EXCEPT ![t] = End(l)]
    /\ UNCHANGED <<present, maxNodeId, path, seen>>

\* An event looks at the node: the array is read again.
Visit(t) ==
    /\ pc[t] = "visit"
    /\ IF index[t] \in present
       THEN /\ Goto(t, "visit", "scan")
            /\ index' = [index EXCEPT ![t] = @ + 1]
       ELSE /\ Goto(t, "visit", "null")
            /\ UNCHANGED index
    /\ UNCHANGED <<present, maxNodeId, end, path, seen>>

Scan(t) ==
    /\ index[t] < end[t]
    /\ IF index[t] \in present
       THEN Goto(t, "scan", "visit") /\ UNCHANGED path
       ELSE Goto(t, "scan", "climb") /\ path' = [path EXCEPT ![t] = <<index[t]>>]
    /\ UNCHANGED <<present, maxNodeId, index, end, seen>>

EndScan(t) ==
    /\ index[t] = end[t]
    /\ Return(t, "scan")
    /\ UNCHANGED <<present, maxNodeId>>

\* getParent(n, true): a parent that misses has to be created first.
Climb(t) ==
    /\ pc[t] = "climb"
    /\ LET parent == Parent(Head(path[t]))
       IN  IF parent \in present
           THEN Goto(t, "climb", "create") /\ UNCHANGED path
           ELSE Goto(t, "climb", "climb") /\ path' = [path EXCEPT ![t] = <<parent>> \o @]
    /\ UNCHANGED <<present, maxNodeId, index, end, seen>>

\* getParent reads the parent from the array, once more; createChildren fails on null.
FindParent(t) ==
    /\ Goto(t, "create", IF Parent(Head(path[t])) \in present THEN "make" ELSE "nullParent")
    /\ UNCHANGED <<present, maxNodeId, index, end, path, seen>>

CreateChildren(t) ==
    /\ Goto(t, "make", "readMax")
    /\ present' = present \cup Children(Parent(Head(path[t])))
    /\ UNCHANGED <<maxNodeId, index, end, path, seen>>

\* An expression reads maxNodeId, for an access or a write that comes after.
ReadMax(t, from, to) ==
    /\ Goto(t, from, to)
    /\ seen' = [seen EXCEPT ![t] = maxNodeId]
    /\ UNCHANGED <<present, maxNodeId, index, end, path>>

\* maxNodeId = Math.max(maxNodeId, childId)
WriteMax(t) ==
    /\ pc[t] = "writeMax"
    /\ LET childId == ChildrenEnd(Parent(Head(path[t])))
       IN  maxNodeId' = IF seen[t] < childId THEN childId ELSE seen[t]
    /\ path' = [path EXCEPT ![t] = Tail(@)]
    /\ Goto(t, "writeMax", IF Tail(path[t]) = <<>> THEN "visit" ELSE "create")
    /\ seen' = [seen EXCEPT ![t] = 0]
    /\ UNCHANGED <<present, index, end>>

\* The NullPointerException of the drawing thread is caught and the frame
\* given up.
DropFrame ==
    /\ Return("draw", "null") \/ Return("draw", "nullParent")
    /\ UNCHANGED <<present, maxNodeId>>

-----------------------------------------------------------------------------
(* Recycling, on the UI thread.                                             *)

\* recycleAll and recycleNodes(level) give up the nodes from the first one on, as far as
\* maxNodeId; to is their loop.
RecycleFrom(first, to) ==
    /\ Begin("ui", to)
    /\ index' = [index EXCEPT !["ui"] = first]
    /\ end' = [end EXCEPT !["ui"] = first]
    /\ UNCHANGED <<present, maxNodeId, path, seen>>

RecycleAll == RecycleFrom(1, "recycleAll")
RecycleNodes(l) == l > 0 /\ Start[l] < maxNodeId /\ RecycleFrom(Start[l], "recycleNodes")

Loops == {"recycleAll", "recycleNodes"}
Body == [recycleAll |-> "clearAll", recycleNodes |-> "clearNodes"]
Last == [recycleAll |-> "endAll", recycleNodes |-> "endNodes"]

\* Each turn reads maxNodeId again.
RecycleMore(loop) ==
    /\ Goto("ui", loop, IF index["ui"] < maxNodeId THEN Body[loop] ELSE Last[loop])
    /\ UNCHANGED <<present, maxNodeId, index, end, path, seen>>

RecycleNode(loop) ==
    /\ IF index["ui"] = NODES
       THEN Goto("ui", Body[loop], "outOfBounds") /\ UNCHANGED <<present, index>>
       ELSE /\ Goto("ui", Body[loop], loop)
            /\ present' = present \ {index["ui"]}
            /\ index' = [index EXCEPT !["ui"] = @ + 1]
    /\ UNCHANGED <<maxNodeId, end, path, seen>>

EndRecycleAll ==
    /\ Return("ui", "endAll")
    /\ maxNodeId' = 1
    /\ UNCHANGED present

EndRecycleNodes ==
    /\ Goto("ui", "endNodes", "trim")
    /\ maxNodeId' = end["ui"]
    /\ UNCHANGED <<present, index, end, path, seen>>

RecycleChildren(n) ==
    /\ FirstChild(n) < maxNodeId
    /\ Begin("ui", "clearChildren")
    /\ index' = [index EXCEPT !["ui"] = FirstChild(n)]
    /\ end' = [end EXCEPT !["ui"] = ArrayEnd(n)]
    /\ UNCHANGED <<present, maxNodeId, path, seen>>

\* Their own children stay.
ClearChildren ==
    /\ Goto("ui", "clearChildren", "lower")
    /\ present' = present \ (index["ui"] .. end["ui"] - 1)
    /\ index' = [index EXCEPT !["ui"] = end["ui"]]
    /\ UNCHANGED <<maxNodeId, end, path, seen>>

\* Mutant: maxNodeId is not corrected.
LowerNever ==
    /\ Return("ui", "lower")
    /\ UNCHANGED <<present, maxNodeId>>

\* Mutant: the end of the array is not looked at.
LowerUnclamped ==
    /\ IF index["ui"] < maxNodeId
       THEN Return("ui", "lower")
       ELSE Goto("ui", "lower", "trim") /\ UNCHANGED <<index, end, path, seen>>
    /\ UNCHANGED <<present, maxNodeId>>

\* maxNodeId is corrected only if the children were the last nodes.
Lower ==
    /\ IF index["ui"] < maxNodeId
       THEN Return("ui", "lower")
       ELSE /\ Goto("ui", "lower", IF index["ui"] >= NODES THEN "clamp" ELSE "trim")
            /\ UNCHANGED <<index, end, path, seen>>
    /\ UNCHANGED <<present, maxNodeId>>

Clamp ==
    /\ Goto("ui", "clamp", "trim")
    /\ maxNodeId' = NODES - 1
    /\ UNCHANGED <<present, index, end, path, seen>>

\* while (maxNodeId > 0 && nodes[maxNodeId] == null) maxNodeId--;  The comparison, the index and
\* the decrement each read maxNodeId for themselves.
Trim ==
    /\ Goto("ui", "trim", IF maxNodeId > 0 THEN "trimRead" ELSE "raiseRead")
    /\ UNCHANGED <<present, maxNodeId, index, end, path, seen>>

TrimLook ==
    /\ Goto("ui", "trimLook", IF seen["ui"] >= NODES THEN "outOfBounds"
                              ELSE IF seen["ui"] \in present THEN "raiseRead" ELSE "lowerRead")
    /\ seen' = [seen EXCEPT !["ui"] = 0]
    /\ UNCHANGED <<present, maxNodeId, index, end, path>>

TrimLower ==
    /\ Goto("ui", "lowerWrite", "trim")
    /\ maxNodeId' = seen["ui"] - 1
    /\ seen' = [seen EXCEPT !["ui"] = 0]
    /\ UNCHANGED <<present, index, end, path>>

\* maxNodeId++ after the loop.
EndTrim ==
    /\ Return("ui", "raiseWrite")
    /\ maxNodeId' = seen["ui"] + 1
    /\ UNCHANGED present

-----------------------------------------------------------------------------
Step(t) == \/ Scan(t) \/ EndScan(t) \/ Visit(t)
           \/ Climb(t) \/ FindParent(t) \/ CreateChildren(t)
           \/ ReadMax(t, "readMax", "writeMax") \/ WriteMax(t)

Recycling == \/ RecycleAll \/ (\E l \in 0 .. Levels - 1 : RecycleNodes(l))
             \/ (\E loop \in Loops : RecycleMore(loop) \/ RecycleNode(loop))
             \/ EndRecycleAll \/ EndRecycleNodes
             \/ (\E n \in Nodes : RecycleChildren(n))
             \/ ClearChildren \/ Lower \/ Clamp

Trimming == \/ Trim \/ TrimLook \/ TrimLower \/ EndTrim
            \/ ReadMax("ui", "trimRead", "trimLook")
            \/ ReadMax("ui", "lowerRead", "lowerWrite")
            \/ ReadMax("ui", "raiseRead", "raiseWrite")

Next == /\ \/ \E t \in Threads : Step(t) \/ \E l \in 0 .. Levels - 1 : Process(t, l)
           \/ Recycling \/ Trimming
           \/ DropFrame
        /\ UNCHANGED surfaceView

Spec == Init /\ [][Next]_vars
-----------------------------------------------------------------------------
(* Properties.                                                              *)

Places == {"idle", "scan", "visit", "climb", "create", "make", "readMax", "writeMax",
           "null", "nullParent", "outOfBounds",
           "recycleAll", "clearAll", "endAll", "recycleNodes", "clearNodes", "endNodes",
           "clearChildren", "lower", "clamp",
           "trim", "trimRead", "trimLook", "lowerRead", "lowerWrite", "raiseRead", "raiseWrite"}

TypeOK ==
    /\ surfaceView \in BOOLEAN
    /\ present \subseteq Nodes
    /\ maxNodeId \in 0 .. NODES + 1
    /\ pc \in [Threads -> Places]
    /\ index \in [Threads -> 0 .. NODES]
    /\ end \in [Threads -> 0 .. NODES]
    /\ path \in [Threads -> Seq(Nodes)]
    /\ seen \in [Threads -> 0 .. NODES + 1]

\* A BaseView is drawn between two events.
AtRest == ~surfaceView /\ \A t \in Threads : pc[t] = "idle"

\* With a BaseView every node is below maxNodeId between two operations: drawing, recycling and
\* the check of the children reach it, and none keeps its bitmap for ever.  Nor is maxNodeId larger
\* than it has to be: drawing does not create the nodes of a level that has none.
MaxIsExact ==
    AtRest => maxNodeId - 1 \in present /\ \A n \in present : n < maxNodeId

\* With a BaseView no access to the array goes wrong, and maxNodeId never exceeds its length.  With
\* a SurfaceView one can: drawing may raise maxNodeId between the test and the increment of the trim
\* loop, so that it becomes one more than the length; never more than one, though lost updates can
\* put that value back, and only recycling on the UI thread then reads past the array.  Drawing
\* itself can only meet a node that is gone, which costs a frame, and the UI thread never does:
\* drawing gives up no node.
NoBadAccess ==
    /\ TypeOK
    /\ ~surfaceView => /\ maxNodeId <= NODES
                       /\ \A t \in Threads : pc[t] \notin {"null", "nullParent", "outOfBounds"}
    /\ pc["ui"] \notin {"null", "nullParent"}
    /\ pc["draw"] # "outOfBounds"
=============================================================================
