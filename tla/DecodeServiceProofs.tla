------------------------- MODULE DecodeServiceProofs -------------------------
(***************************************************************************)
(* Proofs about DecodeService, for every set of nodes and zooms and every  *)
(* number of tasks and searches.                                           *)
(***************************************************************************)
EXTENDS DecodeService, FiniteSetTheorems, SequenceTheorems, WellFoundedInduction, TLAPS

-----------------------------------------------------------------------------
(* The list of slots.                                                       *)

\* A non-empty set of naturals has a least element: the first hole of the
\* list exists when the list has a hole.
LEMMA LeastNat ==
  ASSUME NEW T \in SUBSET Nat, T # {}
  PROVE  \E x \in T : \A y \in T : x <= y
<1> DEFINE R == OpToRel(<, Nat)
<1>1. \A x, y \in Nat : x < y => <<x, y>> \in R
  BY DEF OpToRel
<1>2. IsWellFoundedOn(R, Nat)
  BY NatLessThanWellFounded
<1> HIDE DEF R
<1>3. PICK x \in T : \A y \in T : ~(<<y, x>> \in R)
  BY <1>2, WFMin
<1>4. \A y \in T : ~(y < x)
  BY <1>1, <1>3
<1>5. \A y \in T : x <= y
  BY <1>4
<1> QED BY <1>5

\* Blanking keeps the list and its length and empties the slots asked for.
LEMMA BlankFacts ==
  ASSUME NEW q \in Seq(Task \cup {NoTask}), NEW S
  PROVE  /\ Blank(q, S) \in Seq(Task \cup {NoTask})
         /\ DOMAIN Blank(q, S) = DOMAIN q
         /\ \A i \in DOMAIN q : Blank(q, S)[i] = IF q[i] \in S THEN NoTask ELSE q[i]
<1>1. /\ Len(q) \in Nat
      /\ DOMAIN q = 1 .. Len(q)
      /\ \A i \in DOMAIN q : q[i] \in Task \cup {NoTask}
  BY LenProperties, ElementOfSeq
<1>2. Blank(q, S) \in [1 .. Len(q) -> Task \cup {NoTask}]
  BY <1>1 DEF Blank
<1>3. Blank(q, S) \in Seq(Task \cup {NoTask})
  BY <1>1, <1>2, SeqDef
<1> QED BY <1>3 DEF Blank

\* Putting a task fills one slot, a hole or a new one, and moves nothing else.
LEMMA PutFacts ==
  ASSUME NEW q \in Seq(Task \cup {NoTask}), NEW t \in Task
  PROVE  /\ Put(q, t) \in Seq(Task \cup {NoTask})
         /\ \E k \in Nat \ {0} :
              /\ DOMAIN Put(q, t) = DOMAIN q \cup {k}
              /\ Put(q, t)[k] = t
              /\ k \in DOMAIN q => q[k] = NoTask
              /\ \A i \in DOMAIN q \ {k} : Put(q, t)[i] = q[i]
<1>1. Len(q) \in Nat /\ DOMAIN q = 1 .. Len(q)
  BY LenProperties
<1>2. CASE Holes(q) = {}
  <2>1. Put(q, t) = Append(q, t)
    BY <1>2 DEF Put
  <2>2. /\ Append(q, t) \in Seq(Task \cup {NoTask})
        /\ Len(Append(q, t)) = Len(q) + 1
        /\ \A i \in 1 .. Len(q) : Append(q, t)[i] = q[i]
        /\ Append(q, t)[Len(q) + 1] = t
    BY AppendProperties, t \in Task \cup {NoTask}
  <2>3. DOMAIN Append(q, t) = 1 .. Len(q) + 1
    BY <2>2, LenProperties
  <2>4. DOMAIN Put(q, t) = DOMAIN q \cup {Len(q) + 1}
    BY <1>1, <2>1, <2>3
  <2> QED BY <1>1, <2>1, <2>2, <2>4
<1>3. CASE Holes(q) # {}
  <2> DEFINE k == CHOOSE i \in Holes(q) : \A j \in Holes(q) : i <= j
  <2>1. \E i \in Holes(q) : \A j \in Holes(q) : i <= j
    <3>1. Holes(q) \in SUBSET Nat
      BY <1>1 DEF Holes
    <3> QED BY <1>3, <3>1, LeastNat
  <2>2. k \in Holes(q)
    BY <2>1
  <2>3. Put(q, t) = [q EXCEPT ![k] = t]
    BY <1>3 DEF Put
  <2> HIDE DEF k
  <2>4. k \in 1 .. Len(q) /\ q[k] = NoTask
    BY <1>1, <2>2 DEF Holes
  <2>5. Put(q, t) \in Seq(Task \cup {NoTask})
    BY <2>3, <2>4, ExceptSeq, t \in Task \cup {NoTask}
  <2> QED BY <1>1, <2>3, <2>4, <2>5
<1> QED BY <1>2, <1>3

-----------------------------------------------------------------------------
(* Type correctness.                                                        *)

\* The kind of a task tells which task it is.
LEMMA TaskKinds ==
  ASSUME NEW t \in Task
  PROVE  /\ t.kind = "decode" <=> t \in DecodeTask
         /\ t.kind = "search" <=> t \in SearchTask
         /\ t.kind = "shutdown" <=> t = Shutdown
         /\ t.kind \in {"decode", "search", "shutdown"}
BY DEF Task, DecodeTask, SearchTask, Shutdown

\* The critical section of stopDecoding keeps the types.
LEMMA StopDecodingType ==
  ASSUME TypeOK, NEW S \in SUBSET Nodes, StopDecoding(S)
  PROVE  /\ tasks' \in Seq(Task \cup {NoTask})
         /\ decodingTasks' \in [Nodes -> DecodeTask \cup {NoTask}]
         /\ cancelled' \in SUBSET DecodeTask
<1>1. \A R : Blank(tasks, R) \in Seq(Task \cup {NoTask})
  BY BlankFacts DEF TypeOK
<1>2. tasks' \in Seq(Task \cup {NoTask})
  BY <1>1 DEF StopDecoding
<1> QED BY <1>2 DEF TypeOK, StopDecoding

\* What an event does to the nodes keeps the types.
LEMMA ApplyEventType ==
  ASSUME TypeOK, NEW recycled \in SUBSET Nodes, NEW restarted \in SUBSET Nodes,
         NEW wanted \in SUBSET Nodes, NEW z \in Zooms,
         ApplyEvent(recycled, restarted, wanted, z),
         UNCHANGED <<nextId, isRecycled, run, pc, current, posted, model, searcher>>
  PROVE  TypeOK'
<1> DEFINE stopped == Stopped(recycled \cup restarted)
           started == Started(wanted, stopped)
<1>1. stopped \in SUBSET Nodes /\ started \in SUBSET Nodes
  BY DEF Stopped, Started
<1>2. Cardinality(stopped) \in Nat /\ Cardinality(started) \in Nat
  BY <1>1, NodesFinite, FS_Subset, FS_CardinalityType
<1>3. /\ StopDecoding(stopped)
      /\ decodingNow' = [n \in Nodes |-> n \in started \/ (decodingNow[n] /\ n \notin stopped)]
      /\ bitmapZoom' = [n \in Nodes |-> IF n \in started THEN z ELSE bitmapZoom[n]]
      /\ holder' = [n \in Nodes |-> IF n \in recycled THEN NoTask ELSE holder[n]]
      /\ progress' = progress - Cardinality(stopped) + Cardinality(started)
      /\ nodesToDecode' = started
      /\ viewZoom' = z
  BY DEF ApplyEvent
<1> HIDE DEF stopped, started
<1>4. /\ tasks' \in Seq(Task \cup {NoTask})
      /\ decodingTasks' \in [Nodes -> DecodeTask \cup {NoTask}]
      /\ cancelled' \in SUBSET DecodeTask
  BY <1>1, <1>3, StopDecodingType
<1>5. decodingNow' \in [Nodes -> BOOLEAN]
  BY <1>3
<1>6. progress' \in Int
  BY <1>2, <1>3 DEF TypeOK
<1> QED BY <1>1, <1>3, <1>4, <1>5, <1>6 DEF TypeOK

\* Every variable keeps its type, and the worker holds a decode task while it
\* decodes, whatever the three threads do.
LEMMA TypeStep ==
  ASSUME TypeOK, [Next]_vars
  PROVE  TypeOK'
<1> USE DEF TypeOK
<1>1. CASE Scroll
  BY <1>1, ApplyEventType DEF Scroll, Blanks
<1>2. CASE ZoomIn
  <2>1. PICK z \in Zooms \ {viewZoom}, kept \in SUBSET Nodes :
          LET outdated == {n \in kept : bitmapZoom[n] # z}
          IN  ApplyEvent(Nodes \ kept, outdated, outdated \cup Blanks(kept), z)
    BY <1>2 DEF ZoomIn
  <2> DEFINE outdated == {n \in kept : bitmapZoom[n] # z}
  <2>2. outdated \in SUBSET Nodes /\ outdated \cup Blanks(kept) \in SUBSET Nodes
    BY DEF Blanks
  <2>3. ApplyEvent(Nodes \ kept, outdated, outdated \cup Blanks(kept), z)
    BY <2>1
  <2> HIDE DEF outdated
  <2> QED BY <1>2, <2>2, <2>3, ApplyEventType DEF ZoomIn
<1>3. CASE ZoomOut
  BY <1>3, ApplyEventType DEF ZoomOut
<1>4. CASE Reset
  BY <1>4, ApplyEventType DEF Reset
<1>5. ASSUME NEW n \in Nodes, DecodePage(n)
      PROVE  TypeOK'
  <2> DEFINE t == [kind |-> "decode", id |-> nextId, node |-> n, zoom |-> viewZoom]
  <2>1. t \in DecodeTask
    BY DEF DecodeTask
  <2>2. CASE isRecycled
    BY <1>5, <2>2 DEF DecodePage
  <2>3. CASE ~isRecycled
    <3>1. AddDecodeTask(t) /\ nextId' = nextId + 1
      BY <1>5, <2>3 DEF DecodePage
    <3>2. t.node = n
      OBVIOUS
    <3> HIDE DEF t
    <3>3. t \in Task
      BY <2>1 DEF Task
    <3>4. Put(tasks, t) \in Seq(Task \cup {NoTask})
      BY <3>3, PutFacts
    <3>5. tasks' \in Seq(Task \cup {NoTask})
      <4>1. \A R : Blank(Put(tasks, t), R) \in Seq(Task \cup {NoTask})
        BY <3>4, BlankFacts
      <4> QED BY <3>1, <4>1 DEF AddDecodeTask
    <3>6. decodingTasks' \in [Nodes -> DecodeTask \cup {NoTask}]
      BY <2>1, <3>1, <3>2 DEF AddDecodeTask
    <3>7. cancelled' \in SUBSET DecodeTask
      BY <3>1, <3>2 DEF AddDecodeTask
    <3>8. /\ pc' \in WorkerPcs
          /\ pc' \in DecodingPcs => current \in DecodeTask
      <4>1. pc' = pc \/ pc' = "loop"
        BY <3>1 DEF AddDecodeTask, Notified
      <4> QED BY <4>1 DEF WorkerPcs, DecodingPcs
    <3> QED BY <1>5, <3>1, <3>5, <3>6, <3>7, <3>8 DEF DecodePage
  <2> QED BY <2>2, <2>3
<1>6. CASE RunPosted
  <2> DEFINE r == Head(posted)
  <2>1. r \in Posted /\ posted' \in Seq(Posted)
    BY <1>6, HeadTailProperties DEF RunPosted
  <2>2. r.task \in DecodeTask /\ r.task.node \in Nodes
    BY <2>1 DEF Posted, DecodeTask
  <2>3. PICK covered \in SUBSET Nodes :
          LET ended == Stopped(covered \cup {r.task.node})
          IN  /\ StopDecoding(ended \ {r.task.node})
              /\ decodingNow' = [m \in Nodes |-> decodingNow[m] /\ m \notin ended]
              /\ progress' = progress - Cardinality(ended)
              /\ holder' = [m \in Nodes |->
                              IF m \in covered THEN NoTask
                              ELSE IF m = r.task.node /\ r.image THEN r.task ELSE holder[m]]
    BY <1>6 DEF RunPosted
  <2> DEFINE ended == Stopped(covered \cup {r.task.node})
  <2>4. /\ StopDecoding(ended \ {r.task.node})
        /\ decodingNow' = [m \in Nodes |-> decodingNow[m] /\ m \notin ended]
        /\ progress' = progress - Cardinality(ended)
        /\ holder' = [m \in Nodes |->
                        IF m \in covered THEN NoTask
                        ELSE IF m = r.task.node /\ r.image THEN r.task ELSE holder[m]]
    BY <2>3
  <2>5. ended \in SUBSET Nodes
    BY <2>2 DEF Stopped
  <2> HIDE DEF r, ended
  <2>6. Cardinality(ended) \in Nat
    BY <2>5, NodesFinite, FS_Subset, FS_CardinalityType
  <2>7. /\ tasks' \in Seq(Task \cup {NoTask})
        /\ decodingTasks' \in [Nodes -> DecodeTask \cup {NoTask}]
        /\ cancelled' \in SUBSET DecodeTask
    BY <2>4, <2>5, StopDecodingType
  <2>8. decodingNow' \in [Nodes -> BOOLEAN]
    BY <2>4
  <2> QED BY <1>6, <2>1, <2>2, <2>4, <2>6, <2>7, <2>8 DEF RunPosted
<1>7. CASE Recycle
  <2> DEFINE all == {decodingTasks[n] : n \in Nodes} \ {NoTask}
  <2>1. cancelled' = cancelled \cup all /\ tasks' = Append(Blank(tasks, all), Shutdown)
    BY <1>7 DEF Recycle
  <2>2. all \in SUBSET DecodeTask
    OBVIOUS
  <2> HIDE DEF all
  <2>3. Blank(tasks, all) \in Seq(Task \cup {NoTask})
    BY BlankFacts
  <2>4. tasks' \in Seq(Task \cup {NoTask})
    BY <2>1, <2>3, AppendProperties, Shutdown \in Task \cup {NoTask} DEF Task
  <2>5. pc' = pc \/ pc' = "loop"
    BY <1>7 DEF Recycle, Notified
  <2> QED BY <1>7, <2>1, <2>2, <2>4, <2>5 DEF Recycle, WorkerPcs, DecodingPcs
<1>8. CASE RecyclePages
  <2>1. Stopped(Nodes) \in SUBSET Nodes
    BY DEF Stopped
  <2>2. Cardinality(Stopped(Nodes)) \in Nat
    BY <2>1, NodesFinite, FS_Subset, FS_CardinalityType
  <2>3. /\ tasks' \in Seq(Task \cup {NoTask})
        /\ decodingTasks' \in [Nodes -> DecodeTask \cup {NoTask}]
        /\ cancelled' \in SUBSET DecodeTask
    BY <1>8, <2>1, StopDecodingType DEF RecyclePages
  <2> QED BY <1>8, <2>2, <2>3 DEF RecyclePages
<1>9. CASE TakeTask
  <2>1. PICK i \in Candidates(tasks) :
          /\ current' = tasks[i]
          /\ tasks' = [tasks EXCEPT ![i] = NoTask]
          /\ pc' = CASE tasks[i].kind = "decode"   -> "getPage"
                     [] tasks[i].kind = "search"   -> "search"
                     [] tasks[i].kind = "shutdown" -> "shutdown"
    BY <1>9 DEF TakeTask
  <2>2. i \in 1 .. Len(tasks) /\ tasks[i] # NoTask
    BY LenProperties DEF Candidates, Filled
  <2>3. tasks[i] \in Task
    BY <2>2, ElementOfSeq
  <2>4. tasks' \in Seq(Task \cup {NoTask})
    BY <2>1, <2>2, ExceptSeq
  <2>5. /\ pc' \in {"getPage", "search", "shutdown"}
        /\ pc' = "getPage" => current' \in DecodeTask
    BY <2>1, <2>3, TaskKinds
  <2> QED BY <1>9, <2>1, <2>3, <2>4, <2>5 DEF TakeTask, WorkerPcs, DecodingPcs
<1>10. CASE ClearTasks
  BY <1>10, EmptySeq DEF ClearTasks
<1>11. CASE FindEmpty \/ Park \/ Timeout \/ Exit \/ DecodeCompleteFails
  BY <1>11 DEF FindEmpty, Park, Timeout, Exit, DecodeCompleteFails, WorkerStep,
               WorkerPcs, DecodingPcs
<1>12. CASE DropDead
  BY <1>12 DEF DropDead, WorkerStep, WorkerPcs, DecodingPcs, Stages
<1>13. CASE NextStage
  BY <1>13 DEF NextStage, WorkerStep, WorkerPcs, DecodingPcs, Stages, After
<1>14. CASE FinishDecoding
  <2>1. current \in DecodeTask /\ current.node \in Nodes
    BY <1>14 DEF FinishDecoding, DecodingPcs, DecodeTask
  <2>2. {current.node} \in SUBSET Nodes
    BY <2>1
  <2>3. /\ tasks' \in Seq(Task \cup {NoTask})
        /\ decodingTasks' \in [Nodes -> DecodeTask \cup {NoTask}]
        /\ cancelled' \in SUBSET DecodeTask
    BY <1>14, <2>2, StopDecodingType DEF FinishDecoding
  <2>4. pc' \in WorkerPcs
    BY <1>14 DEF FinishDecoding, WorkerPcs, DecodingPcs
  <2> QED BY <1>14, <2>1, <2>3, <2>4 DEF FinishDecoding
<1>15. CASE DecodeComplete
  <2>1. PICK image \in BOOLEAN : posted' = Append(posted, [task |-> current, image |-> image])
    BY <1>15 DEF DecodeComplete
  <2>2. [task |-> current, image |-> image] \in Posted
    BY <1>15 DEF DecodeComplete, WorkerStep, DecodingPcs, Posted
  <2>3. posted' \in Seq(Posted)
    BY <2>1, <2>2, AppendProperties
  <2> QED BY <1>15, <2>3 DEF DecodeComplete, WorkerStep, WorkerPcs, DecodingPcs
<1>16. CASE RunSearch
  BY <1>16 DEF RunSearch, WorkerStep, WorkerPcs, DecodingPcs
<1>17. CASE RunShutdown
  BY <1>17 DEF RunShutdown, WorkerPcs, DecodingPcs
<1>18. CASE SearchText
  BY <1>18 DEF SearchText
<1>19. CASE AddSearchTask
  <2>1. [kind |-> "search", page |-> searcher.page] \in Task
    BY DEF Task, SearchTask
  <2>2. tasks' \in Seq(Task \cup {NoTask})
    BY <1>19, <2>1, PutFacts DEF AddSearchTask
  <2>3. pc' = pc \/ pc' = "loop"
    BY <1>19 DEF AddSearchTask, Notified
  <2> QED BY <1>19, <2>2, <2>3 DEF AddSearchTask, WorkerPcs, DecodingPcs
<1>20. CASE SearchNextPage
  <2>1. searcher.page + 1 \in Nat
    OBVIOUS
  <2>2. searcher' = [searcher EXCEPT !.pc = "idle", !.page = searcher.page + 1]
    BY <1>20 DEF SearchNextPage
  <2>3. searcher' \in [pc : {"idle", "adding", "waiting"}, page : Nat, answered : BOOLEAN]
    BY <2>1, <2>2
  <2> QED BY <1>20, <2>3 DEF SearchNextPage
<1>21. CASE UNCHANGED vars
  BY <1>21 DEF vars
<1> QED
  BY <1>1, <1>2, <1>3, <1>4, <1>5, <1>6, <1>7, <1>8, <1>9, <1>10, <1>11, <1>12, <1>13,
     <1>14, <1>15, <1>16, <1>17, <1>18, <1>19, <1>20, <1>21
     DEF Next, Ui, Event, Worker, Searcher

\* The initial state is of the types.
LEMMA TypeInit == Init => TypeOK
<1> SUFFICES ASSUME Init PROVE TypeOK
  OBVIOUS
<1>1. tasks \in Seq(Task \cup {NoTask}) /\ posted \in Seq(Posted)
  BY EmptySeq DEF Init
<1>2. pc \in WorkerPcs /\ pc \notin DecodingPcs
  BY DEF Init, WorkerPcs, DecodingPcs
<1>3. bitmapZoom \in [Nodes -> Zooms]
  BY DEF Init
<1>4. searcher \in [pc : {"idle", "adding", "waiting"}, page : Nat, answered : BOOLEAN]
  BY DEF Init
<1>5. /\ decodingTasks \in [Nodes -> DecodeTask \cup {NoTask}]
      /\ holder \in [Nodes -> DecodeTask \cup {NoTask}]
      /\ decodingNow \in [Nodes -> BOOLEAN]
  BY DEF Init
<1>6. nextId \in Nat /\ progress \in Int
  BY DEF Init
<1>7. /\ isRecycled \in BOOLEAN /\ run \in BOOLEAN
      /\ cancelled \in SUBSET DecodeTask
      /\ current \in Task \cup {NoTask}
      /\ viewZoom \in Zooms
      /\ nodesToDecode \in SUBSET Nodes
      /\ model \in {"open", "closing", "closed"}
  BY DEF Init
<1> QED BY <1>1, <1>2, <1>3, <1>4, <1>5, <1>6, <1>7 DEF TypeOK

\* TypeOK holds in every state of every behaviour of the decode pipeline.
THEOREM TypeCorrect == Spec => []TypeOK
BY TypeInit, TypeStep, PTL DEF Spec
-----------------------------------------------------------------------------
(* No node is forgotten.                                                    *)

\* Stopping the nodes of S leaves the requests of the other nodes alive.
LEMMA StopDecodingOthers ==
  ASSUME TypeOK, MapIsByNode, IdsAreUsed, NEW S \in SUBSET Nodes, StopDecoding(S),
         nextId' = nextId
  PROVE  /\ MapIsByNode'
         /\ IdsAreUsed'
         /\ \A n \in Nodes \ S : Live(decodingTasks[n]) => Live(decodingTasks[n])'
<1>1. /\ decodingTasks' = [n \in Nodes |-> IF n \in S THEN NoTask ELSE decodingTasks[n]]
      /\ cancelled' = cancelled \cup ({decodingTasks[n] : n \in S} \ {NoTask})
  BY DEF StopDecoding
<1>2. MapIsByNode'
  BY <1>1 DEF MapIsByNode
<1>3. IdsAreUsed'
  BY <1>1 DEF IdsAreUsed
<1>4. ASSUME NEW n \in Nodes \ S, Live(decodingTasks[n])
      PROVE  Live(decodingTasks[n])'
  <2>1. decodingTasks'[n] = decodingTasks[n] /\ decodingTasks[n].node = n
    BY <1>1, <1>4 DEF MapIsByNode, Live
  <2>2. \A m \in S : decodingTasks[m] # NoTask => decodingTasks[m].node = m
    BY DEF MapIsByNode
  <2>3. decodingTasks[n] \notin {decodingTasks[m] : m \in S} \ {NoTask}
    BY <2>1, <2>2
  <2> QED BY <1>1, <1>4, <2>1, <2>3 DEF Live
<1> QED BY <1>2, <1>3, <1>4

\* An event forgets no node: those it starts are in nodesToDecode, those it
\* stops no longer wait, and it does not touch the requests of the others.
LEMMA ApplyEventRequests ==
  ASSUME TypeOK, RequestInv, UiIdle, model = "open",
         NEW recycled \in SUBSET Nodes, NEW restarted \in SUBSET Nodes,
         NEW wanted \in SUBSET Nodes, NEW z \in Zooms,
         ApplyEvent(recycled, restarted, wanted, z),
         UNCHANGED <<nextId, isRecycled, run, pc, current, posted, model, searcher>>
  PROVE  RequestInv'
<1> DEFINE stopped == Stopped(recycled \cup restarted)
           started == Started(wanted, stopped)
<1>1. stopped \in SUBSET Nodes /\ started \in SUBSET Nodes
  BY DEF Stopped, Started
<1>2. /\ StopDecoding(stopped)
      /\ decodingNow' = [n \in Nodes |-> n \in started \/ (decodingNow[n] /\ n \notin stopped)]
      /\ nodesToDecode' = started
  BY DEF ApplyEvent
<1> HIDE DEF stopped, started
<1>3. /\ MapIsByNode'
      /\ IdsAreUsed'
      /\ \A n \in Nodes \ stopped : Live(decodingTasks[n]) => Live(decodingTasks[n])'
  BY <1>1, <1>2, StopDecodingOthers DEF RequestInv
<1>4. ClosingIsOrdered'
  BY DEF RequestInv, ClosingIsOrdered
<1>5. ASSUME NEW n \in Nodes, decodingNow'[n]
      PROVE  \/ n \in nodesToDecode'
             \/ Live(decodingTasks[n])'
             \/ pc' \in {"abort", "post", "postFailure"} /\ current'.node = n
             \/ \E i \in DOMAIN posted' : posted'[i].task.node = n
             \/ model' = "closing"
  <2>1. CASE n \in started
    BY <1>2, <2>1
  <2>2. CASE n \notin started
    <3>1. decodingNow[n] /\ n \notin stopped
      BY <1>2, <1>5, <2>2
    <3>2. n \notin nodesToDecode
      BY DEF UiIdle
    <3> QED BY <1>3, <3>1, <3>2 DEF RequestInv, NoNodeForgotten
  <2> QED BY <2>1, <2>2
<1>6. NoNodeForgotten'
  BY <1>5 DEF NoNodeForgotten
<1> QED BY <1>3, <1>4, <1>6 DEF RequestInv

\* The request invariant is kept by the threads that do not touch the map.
LEMMA RequestsUntouched ==
  ASSUME RequestInv,
         UNCHANGED <<decodingTasks, cancelled, nextId, isRecycled, decodingNow,
                     nodesToDecode, model>>,
         \A n \in Nodes : pc \in {"abort", "post", "postFailure"} /\ current.node = n =>
            \/ pc' \in {"abort", "post", "postFailure"} /\ current'.node = n
            \/ \E i \in DOMAIN posted' : posted'[i].task.node = n,
         \A i \in DOMAIN posted : i \in DOMAIN posted' /\ posted'[i] = posted[i]
  PROVE  RequestInv'
<1>1. MapIsByNode' /\ IdsAreUsed' /\ ClosingIsOrdered'
  BY DEF RequestInv, MapIsByNode, IdsAreUsed, ClosingIsOrdered
<1>2. \A n \in Nodes : Live(decodingTasks[n]) => Live(decodingTasks[n])'
  BY DEF Live
<1>3. NoNodeForgotten'
  BY <1>2 DEF RequestInv, NoNodeForgotten
<1> QED BY <1>1, <1>3 DEF RequestInv

\* Each step of the three threads keeps the request invariant.
LEMMA RequestStep ==
  ASSUME TypeOK, RequestInv, [Next]_vars
  PROVE  RequestInv'
<1>1. CASE Scroll
  BY <1>1, ApplyEventRequests DEF Scroll, Blanks, TypeOK
<1>2. CASE ZoomIn
  <2>1. PICK z \in Zooms \ {viewZoom}, kept \in SUBSET Nodes :
          LET outdated == {n \in kept : bitmapZoom[n] # z}
          IN  ApplyEvent(Nodes \ kept, outdated, outdated \cup Blanks(kept), z)
    BY <1>2 DEF ZoomIn
  <2> DEFINE outdated == {n \in kept : bitmapZoom[n] # z}
  <2>2. outdated \in SUBSET Nodes /\ outdated \cup Blanks(kept) \in SUBSET Nodes
    BY DEF Blanks
  <2>3. ApplyEvent(Nodes \ kept, outdated, outdated \cup Blanks(kept), z)
    BY <2>1
  <2> HIDE DEF outdated
  <2> QED BY <1>2, <2>2, <2>3, ApplyEventRequests DEF ZoomIn
<1>3. CASE ZoomOut
  BY <1>3, ApplyEventRequests DEF ZoomOut
<1>4. CASE Reset
  BY <1>4, ApplyEventRequests DEF Reset, TypeOK
<1>5. ASSUME NEW n \in Nodes, DecodePage(n)
      PROVE  RequestInv'
  <2> DEFINE t == [kind |-> "decode", id |-> nextId, node |-> n, zoom |-> viewZoom]
             running == decodingTasks[n]
  <2>1. ~isRecycled /\ model = "open"
    BY <1>5 DEF DecodePage, RequestInv, ClosingIsOrdered
  <2>2. /\ AddDecodeTask(t)
        /\ nextId' = nextId + 1
        /\ nodesToDecode' = nodesToDecode \ {n}
        /\ UNCHANGED <<isRecycled, current, decodingNow, posted, model>>
    BY <1>5, <2>1 DEF DecodePage
  <2>3. ClosingIsOrdered'
    BY <2>1, <2>2 DEF RequestInv, ClosingIsOrdered
  <2>4. t \in DecodeTask /\ t.node = n /\ t.id = nextId /\ t.zoom = viewZoom /\ nextId \in Nat
    BY DEF DecodeTask, TypeOK
  <2>5. pc' = pc \/ (pc = "waiting" /\ pc' = "loop")
    BY <2>2 DEF AddDecodeTask, Notified
  <2> HIDE DEF t
  <2>6. CASE Live(running) /\ running.zoom = t.zoom
    <3>1. UNCHANGED <<decodingTasks, cancelled>>
      BY <2>2, <2>4, <2>6 DEF AddDecodeTask
    <3>2. MapIsByNode'
      BY <3>1 DEF RequestInv, MapIsByNode
    <3>3. IdsAreUsed'
      BY <2>2, <2>4, <3>1 DEF RequestInv, IdsAreUsed, TypeOK, DecodeTask
    <3>4. \A m \in Nodes : Live(decodingTasks[m]) => Live(decodingTasks[m])'
      BY <3>1 DEF Live
    <3>5. NoNodeForgotten'
      BY <2>2, <2>5, <2>6, <3>4 DEF RequestInv, NoNodeForgotten
    <3> QED BY <2>3, <3>2, <3>3, <3>5 DEF RequestInv
  <2>7. CASE ~(Live(running) /\ running.zoom = t.zoom)
    <3>1. /\ decodingTasks' = [decodingTasks EXCEPT ![n] = t]
          /\ cancelled' = cancelled \cup ({running} \ {NoTask})
      BY <2>2, <2>4, <2>7 DEF AddDecodeTask
    <3>2. t # NoTask
      BY <2>4, NoTaskAssumption DEF Task
    <3>3. decodingTasks'[n] = t /\ \A m \in Nodes \ {n} : decodingTasks'[m] = decodingTasks[m]
      BY <3>1 DEF TypeOK
    <3>4. MapIsByNode'
      BY <2>4, <3>3 DEF RequestInv, MapIsByNode
    <3>5. IdsAreUsed'
      <4>1. \A m \in Nodes : decodingTasks[m] # NoTask => decodingTasks[m].id < nextId + 1
        BY <2>4 DEF RequestInv, IdsAreUsed, TypeOK, DecodeTask
      <4>2. \A u \in cancelled : u.id < nextId + 1
        BY <2>4 DEF RequestInv, IdsAreUsed, TypeOK, DecodeTask
      <4>3. t.id < nextId + 1
        BY <2>4
      <4> QED BY <2>2, <3>1, <3>3, <4>1, <4>2, <4>3 DEF IdsAreUsed
    <3>6. Live(decodingTasks[n])'
      <4>1. t \notin cancelled
        BY <2>4 DEF RequestInv, IdsAreUsed
      <4>2. t # running
        BY <2>4, <3>2 DEF RequestInv, IdsAreUsed
      <4> QED BY <3>1, <3>2, <3>3, <4>1, <4>2 DEF Live
    <3>7. \A m \in Nodes \ {n} : Live(decodingTasks[m]) => Live(decodingTasks[m])'
      <4>1. \A m \in Nodes \ {n} : decodingTasks[m] # NoTask => decodingTasks[m] # running
        BY DEF RequestInv, MapIsByNode
      <4> QED BY <3>1, <3>3, <4>1 DEF Live
    <3>8. NoNodeForgotten'
      BY <2>2, <2>5, <3>6, <3>7 DEF RequestInv, NoNodeForgotten
    <3> QED BY <2>3, <3>4, <3>5, <3>8 DEF RequestInv
  <2> QED BY <2>6, <2>7
<1>6. CASE RunPosted
  <2> DEFINE r == Head(posted)
  <2>1. /\ r \in Posted
        /\ posted \in Seq(Posted) /\ posted # <<>>
        /\ posted' = Tail(posted)
    BY <1>6, HeadTailProperties DEF RunPosted, TypeOK
  <2>2. r.task.node \in Nodes
    BY <2>1 DEF Posted, DecodeTask
  <2>3. PICK covered \in SUBSET Nodes :
          LET ended == Stopped(covered \cup {r.task.node})
          IN  /\ StopDecoding(ended \ {r.task.node})
              /\ decodingNow' = [m \in Nodes |-> decodingNow[m] /\ m \notin ended]
    BY <1>6 DEF RunPosted
  <2> DEFINE ended == Stopped(covered \cup {r.task.node})
  <2>4. /\ StopDecoding(ended \ {r.task.node})
        /\ decodingNow' = [m \in Nodes |-> decodingNow[m] /\ m \notin ended]
    BY <2>3
  <2>5. /\ ended \in SUBSET Nodes
        /\ decodingNow[r.task.node] => r.task.node \in ended
    BY <2>2 DEF Stopped
  <2> HIDE DEF ended
  <2>6. UNCHANGED <<nextId, isRecycled, pc, current, nodesToDecode, model>>
    BY <1>6 DEF RunPosted
  <2>7. /\ MapIsByNode'
        /\ IdsAreUsed'
        /\ \A n \in Nodes \ ended : Live(decodingTasks[n]) => Live(decodingTasks[n])'
    BY <2>4, <2>5, <2>6, StopDecodingOthers DEF RequestInv
  <2>8. ClosingIsOrdered'
    BY <2>6 DEF RequestInv, ClosingIsOrdered
  <2>9. ASSUME NEW n \in Nodes, decodingNow'[n],
               NEW i \in DOMAIN posted, posted[i].task.node = n
        PROVE  \E j \in DOMAIN posted' : posted'[j].task.node = n
    <3>0. decodingNow[n] /\ n \notin ended
      BY <2>4, <2>9
    <3>1. n # r.task.node /\ posted[1] = r
      <4>1. n # r.task.node
        BY <2>5, <3>0
      <4> QED BY <2>1, <4>1
    <3>2. i \in 1 .. Len(posted) /\ i # 1
      BY <2>1, <2>9, <3>1, LenProperties
    <3>3. /\ Len(Tail(posted)) = Len(posted) - 1
          /\ \A k \in 1 .. Len(Tail(posted)) : Tail(posted)[k] = posted[k + 1]
          /\ DOMAIN Tail(posted) = 1 .. Len(Tail(posted))
      BY <2>1, HeadTailProperties, LenProperties
    <3>4. Len(posted) \in Nat
      BY <2>1, LenProperties
    <3>5. i - 1 \in 1 .. Len(Tail(posted)) /\ Tail(posted)[i - 1] = posted[i]
      BY <3>2, <3>3, <3>4
    <3> QED BY <2>1, <2>9, <3>3, <3>5
  <2>10. NoNodeForgotten'
    <3> SUFFICES ASSUME NEW n \in Nodes, decodingNow'[n]
                 PROVE  \/ n \in nodesToDecode'
                        \/ Live(decodingTasks[n])'
                        \/ pc' \in {"abort", "post", "postFailure"} /\ current'.node = n
                        \/ \E j \in DOMAIN posted' : posted'[j].task.node = n
                        \/ model' = "closing"
      BY DEF NoNodeForgotten
    <3>1. decodingNow[n] /\ n \notin ended
      BY <2>4
    <3> QED BY <2>6, <2>7, <2>9, <3>1 DEF RequestInv, NoNodeForgotten
  <2> QED BY <2>7, <2>8, <2>10 DEF RequestInv
<1>7. CASE Recycle
  <2>1. /\ UNCHANGED <<decodingTasks, nextId, nodesToDecode>>
        /\ isRecycled' = TRUE /\ model' = "closing"
        /\ cancelled' = cancelled \cup ({decodingTasks[n] : n \in Nodes} \ {NoTask})
        /\ nodesToDecode = {}
    BY <1>7 DEF Recycle, UiIdle
  <2>2. MapIsByNode' /\ IdsAreUsed'
    BY <2>1 DEF RequestInv, MapIsByNode, IdsAreUsed
  <2>3. ClosingIsOrdered' /\ NoNodeForgotten'
    BY <2>1 DEF ClosingIsOrdered, NoNodeForgotten
  <2> QED BY <2>2, <2>3 DEF RequestInv
<1>8. CASE RecyclePages
  <2>1. /\ StopDecoding(Stopped(Nodes))
        /\ decodingNow' = [n \in Nodes |-> FALSE]
        /\ model = "closing" /\ model' = "closed"
        /\ UNCHANGED <<nextId, isRecycled, nodesToDecode>>
    BY <1>8 DEF RecyclePages
  <2>2. Stopped(Nodes) \in SUBSET Nodes
    BY DEF Stopped
  <2>3. MapIsByNode' /\ IdsAreUsed'
    BY <2>1, <2>2, StopDecodingOthers DEF RequestInv
  <2>4. ClosingIsOrdered' /\ NoNodeForgotten'
    BY <2>1 DEF RequestInv, ClosingIsOrdered, NoNodeForgotten
  <2> QED BY <2>3, <2>4 DEF RequestInv
<1>9. CASE TakeTask
  <2>1. pc = "loop"
    BY <1>9 DEF TakeTask
  <2> QED BY <1>9, <2>1, RequestsUntouched DEF TakeTask
<1>10. CASE ClearTasks \/ RunShutdown
  <2>1. pc \in {"loop", "shutdown"}
    BY <1>10 DEF ClearTasks, RunShutdown
  <2> QED BY <1>10, <2>1, RequestsUntouched DEF ClearTasks, RunShutdown
<1>11. CASE FindEmpty \/ Park \/ Timeout \/ Exit \/ RunSearch
  BY <1>11, RequestsUntouched DEF FindEmpty, Park, Timeout, Exit, RunSearch, WorkerStep
<1>12. CASE DropDead \/ NextStage
  BY <1>12, RequestsUntouched DEF DropDead, NextStage, WorkerStep, Stages
<1>13. CASE DecodeCompleteFails
  BY <1>13, RequestsUntouched DEF DecodeCompleteFails, WorkerStep
<1>14. CASE FinishDecoding
  <2>1. /\ pc \in {"finish", "abort"} /\ pc' \in {"post", "postFailure"}
        /\ StopDecoding({current.node})
        /\ UNCHANGED <<nextId, isRecycled, current, decodingNow, nodesToDecode, posted, model>>
    BY <1>14 DEF FinishDecoding
  <2>2. current.node \in Nodes
    BY <2>1 DEF TypeOK, DecodingPcs, DecodeTask
  <2>3. /\ MapIsByNode'
        /\ IdsAreUsed'
        /\ \A n \in Nodes \ {current.node} : Live(decodingTasks[n]) => Live(decodingTasks[n])'
    BY <2>1, <2>2, StopDecodingOthers DEF RequestInv
  <2>4. ClosingIsOrdered'
    BY <2>1 DEF RequestInv, ClosingIsOrdered
  <2>5. NoNodeForgotten'
    BY <2>1, <2>3 DEF RequestInv, NoNodeForgotten
  <2> QED BY <2>3, <2>4, <2>5 DEF RequestInv
<1>15. CASE DecodeComplete
  <2>1. PICK image \in BOOLEAN : posted' = Append(posted, [task |-> current, image |-> image])
    BY <1>15 DEF DecodeComplete
  <2> DEFINE e == [task |-> current, image |-> image]
  <2>2. e \in Posted /\ e.task = current /\ posted \in Seq(Posted)
    BY <1>15 DEF DecodeComplete, WorkerStep, DecodingPcs, Posted, TypeOK
  <2> HIDE DEF e
  <2>3. /\ \A i \in 1 .. Len(posted) : posted'[i] = posted[i]
        /\ posted'[Len(posted) + 1] = e
        /\ DOMAIN posted = 1 .. Len(posted)
        /\ DOMAIN posted' = 1 .. Len(posted) + 1
        /\ Len(posted) \in Nat
    <3>1. posted' = Append(posted, e)
      BY <2>1 DEF e
    <3> QED BY <2>2, <3>1, AppendProperties, LenProperties
  <2>4. \E i \in DOMAIN posted' : posted'[i].task.node = current.node
    BY <2>2, <2>3
  <2>5. \A i \in DOMAIN posted : i \in DOMAIN posted' /\ posted'[i] = posted[i]
    BY <2>3
  <2>6. UNCHANGED <<decodingTasks, cancelled, nextId, isRecycled, decodingNow,
                    nodesToDecode, model>>
    BY <1>15 DEF DecodeComplete, WorkerStep
  <2> QED BY <2>4, <2>5, <2>6, RequestsUntouched
<1>16. CASE SearchText \/ SearchNextPage
  BY <1>16, RequestsUntouched DEF SearchText, SearchNextPage
<1>17. CASE AddSearchTask
  BY <1>17, RequestsUntouched DEF AddSearchTask, Notified
<1>18. CASE UNCHANGED vars
  BY <1>18, RequestsUntouched DEF vars
<1> QED
  BY <1>1, <1>2, <1>3, <1>4, <1>5, <1>6, <1>7, <1>8, <1>9, <1>10, <1>11, <1>12, <1>13,
     <1>14, <1>15, <1>16, <1>17, <1>18
     DEF Next, Ui, Event, Worker, Searcher

\* Initially no node waits.
LEMMA RequestInit == Init => RequestInv
BY DEF Init, RequestInv, MapIsByNode, IdsAreUsed, ClosingIsOrdered, NoNodeForgotten

\* NoNodeForgotten holds in every reachable state: whatever the order in which
\* requests are superseded, withdrawn and answered, a waiting node has somebody
\* who will end its waiting.
THEOREM NoNodeIsForgotten == Spec => []NoNodeForgotten
<1>1. Spec => [](TypeOK /\ RequestInv)
  BY TypeInit, TypeStep, RequestInit, RequestStep, PTL DEF Spec
<1>2. RequestInv => NoNodeForgotten
  BY DEF RequestInv
<1> QED BY <1>1, <1>2, PTL

-----------------------------------------------------------------------------
(* The progress is exact.                                                   *)

\* The nodes that wait for an image.
Waiting == {n \in Nodes : decodingNow[n]}

\* Sets of nodes have a cardinality, and it adds up.
LEMMA NodesCount ==
  ASSUME NEW S \in SUBSET Nodes, NEW T \in SUBSET Nodes
  PROVE  /\ Cardinality(S) \in Nat
         /\ T \subseteq S => Cardinality(S \ T) = Cardinality(S) - Cardinality(T)
         /\ S \cap T = {} => Cardinality(S \cup T) = Cardinality(S) + Cardinality(T)
<1>1. IsFiniteSet(S) /\ IsFiniteSet(T)
  BY NodesFinite, FS_Subset
<1>2. Cardinality(S) \in Nat /\ Cardinality(T) \in Nat
  BY <1>1, FS_CardinalityType
<1>3. ASSUME T \subseteq S
      PROVE  Cardinality(S \ T) = Cardinality(S) - Cardinality(T)
  <2>1. S \cap T = T
    BY <1>3
  <2> QED BY <1>1, <2>1, FS_Difference
<1>4. ASSUME S \cap T = {}
      PROVE  Cardinality(S \cup T) = Cardinality(S) + Cardinality(T)
  <2>1. Cardinality(S \cup T) = Cardinality(S) + Cardinality(T) - Cardinality(S \cap T)
    BY <1>1, FS_Union
  <2>2. Cardinality(S \cap T) = 0
    BY <1>4, FS_EmptySet
  <2> QED BY <1>2, <2>1, <2>2
<1> QED BY <1>2, <1>3, <1>4

\* The oldest runnable is about a node.
LEMMA HeadIsPosted ==
  ASSUME TypeOK, posted # <<>>
  PROVE  Head(posted) \in Posted /\ Head(posted).task.node \in Nodes
<1>1. Head(posted) \in Posted
  BY HeadTailProperties DEF TypeOK
<1> QED BY <1>1 DEF Posted, DecodeTask

\* An event starts nodes that do not wait once the stopped ones are gone.
LEMMA ApplyEventProgress ==
  ASSUME TypeOK, ProgressIsExact,
         NEW recycled \in SUBSET Nodes, NEW restarted \in SUBSET Nodes,
         NEW wanted \in SUBSET Nodes, NEW z \in Zooms,
         ApplyEvent(recycled, restarted, wanted, z)
  PROVE  ProgressIsExact'
<1> DEFINE stopped == Stopped(recycled \cup restarted)
           started == Started(wanted, stopped)
<1>1. /\ decodingNow' = [n \in Nodes |-> n \in started \/ (decodingNow[n] /\ n \notin stopped)]
      /\ progress' = progress - Cardinality(stopped) + Cardinality(started)
  BY DEF ApplyEvent
<1>2. /\ stopped \subseteq Waiting
      /\ started \cap (Waiting \ stopped) = {}
      /\ started \in SUBSET Nodes /\ stopped \in SUBSET Nodes /\ Waiting \in SUBSET Nodes
  BY DEF Stopped, Started, Waiting
<1> HIDE DEF stopped, started
<1>3. Waiting' = (Waiting \ stopped) \cup started
  BY <1>1, <1>2 DEF Waiting
<1>4. Cardinality(Waiting \ stopped) = Cardinality(Waiting) - Cardinality(stopped)
  BY <1>2, NodesCount
<1>5. Cardinality(Waiting') = Cardinality(Waiting \ stopped) + Cardinality(started)
  BY <1>2, <1>3, NodesCount, Waiting \ stopped \in SUBSET Nodes
<1> QED BY <1>1, <1>4, <1>5 DEF ProgressIsExact, Waiting

\* Ending requests takes as many off the progress as nodes stop to wait.
LEMMA EndProgress ==
  ASSUME ProgressIsExact, NEW ended, ended \subseteq Waiting,
         decodingNow' = [m \in Nodes |-> decodingNow[m] /\ m \notin ended],
         progress' = progress - Cardinality(ended)
  PROVE  ProgressIsExact'
<1>1. Waiting' = Waiting \ ended /\ Waiting \in SUBSET Nodes /\ ended \in SUBSET Nodes
  BY DEF Waiting
<1>2. Cardinality(Waiting') = Cardinality(Waiting) - Cardinality(ended)
  BY <1>1, NodesCount
<1> QED BY <1>2 DEF ProgressIsExact, Waiting

\* Each step changes the progress with the flags of the nodes.
LEMMA ProgressStep ==
  ASSUME TypeOK, ProgressIsExact, [Next]_vars
  PROVE  ProgressIsExact'
<1>1. CASE Scroll
  BY <1>1, ApplyEventProgress DEF Scroll, Blanks, TypeOK
<1>2. CASE ZoomIn
  <2>1. PICK z \in Zooms \ {viewZoom}, kept \in SUBSET Nodes :
          LET outdated == {n \in kept : bitmapZoom[n] # z}
          IN  ApplyEvent(Nodes \ kept, outdated, outdated \cup Blanks(kept), z)
    BY <1>2 DEF ZoomIn
  <2> DEFINE outdated == {n \in kept : bitmapZoom[n] # z}
  <2>2. outdated \in SUBSET Nodes /\ outdated \cup Blanks(kept) \in SUBSET Nodes
    BY DEF Blanks
  <2>3. ApplyEvent(Nodes \ kept, outdated, outdated \cup Blanks(kept), z)
    BY <2>1
  <2> HIDE DEF outdated
  <2> QED BY <2>2, <2>3, ApplyEventProgress
<1>3. CASE ZoomOut
  BY <1>3, ApplyEventProgress DEF ZoomOut
<1>4. CASE Reset
  BY <1>4, ApplyEventProgress DEF Reset, TypeOK
<1>5. CASE RunPosted
  <2>1. PICK covered \in SUBSET Nodes :
          LET ended == Stopped(covered \cup {Head(posted).task.node})
          IN  /\ decodingNow' = [m \in Nodes |-> decodingNow[m] /\ m \notin ended]
              /\ progress' = progress - Cardinality(ended)
    BY <1>5 DEF RunPosted
  <2>2. Head(posted).task.node \in Nodes
    BY <1>5, HeadIsPosted DEF RunPosted
  <2> DEFINE ended == Stopped(covered \cup {Head(posted).task.node})
  <2>3. ended \subseteq Waiting
    BY <2>2 DEF Stopped, Waiting
  <2>4. /\ decodingNow' = [m \in Nodes |-> decodingNow[m] /\ m \notin ended]
        /\ progress' = progress - Cardinality(ended)
    BY <2>1
  <2> HIDE DEF ended
  <2> QED BY <2>3, <2>4, EndProgress
<1>6. CASE RecyclePages
  <2>1. Stopped(Nodes) = Waiting
    BY DEF Stopped, Waiting
  <2>2. decodingNow' = [m \in Nodes |-> decodingNow[m] /\ m \notin Waiting]
    BY <1>6 DEF RecyclePages, Waiting
  <2>3. progress' = progress - Cardinality(Waiting)
    BY <1>6, <2>1 DEF RecyclePages
  <2> QED BY <2>2, <2>3, EndProgress
<1>7. CASE UNCHANGED <<decodingNow, progress>>
  BY <1>7 DEF ProgressIsExact
<1>8. CASE (\E n \in Nodes : DecodePage(n)) \/ Recycle \/ Worker \/ Searcher \/ UNCHANGED vars
  BY <1>7, <1>8
     DEF DecodePage, Recycle, Worker, Searcher, vars, TakeTask, ClearTasks, FindEmpty, Park,
         Timeout, Exit, DropDead, NextStage, FinishDecoding, DecodeComplete, DecodeCompleteFails,
         RunSearch, RunShutdown, WorkerStep, SearchText, AddSearchTask, SearchNextPage
<1> QED
  BY <1>1, <1>2, <1>3, <1>4, <1>5, <1>6, <1>8 DEF Next, Ui, Event

\* ProgressIsExact holds in every reachable state: each request that a node
\* begins and each that ends moves the number the listeners see by one, also when
\* a stop, a restart and an answer of the same node meet.
THEOREM ProgressCountsWaitingNodes == Spec => []ProgressIsExact
<1>1. Init => ProgressIsExact
  <2>1. ASSUME Init PROVE Waiting = {} /\ progress = 0
    BY <2>1 DEF Init, Waiting
  <2> QED BY <2>1, FS_EmptySet DEF ProgressIsExact, Waiting
<1>2. TypeOK /\ ProgressIsExact /\ [Next]_vars => ProgressIsExact'
  BY ProgressStep
<1> QED BY <1>1, <1>2, TypeCorrect, PTL DEF Spec

-----------------------------------------------------------------------------
(* The list and the map agree.                                              *)

\* The worker holds the task its place in the loop says, and none while it
\* looks for one.
WorkerHolds ==
    /\ pc = "search" => current \in SearchTask
    /\ pc = "shutdown" => current = Shutdown
    /\ pc \in {"loop", "parking", "waiting", "done"} => current = NoTask

\* u comes after t, or there is no u.
Younger(t, u) == u = NoTask \/ t.id < u.id

\* The task under way is one the UI has submitted, and what its node has in the
\* map is that task or a younger one; once it is concluded it has left the map.
CurrentIsOlder ==
    /\ pc \in DecodingPcs =>
         /\ current.id < nextId
         /\ \/ decodingTasks[current.node] = current
            \/ Younger(current, decodingTasks[current.node])
    /\ pc \in {"post", "postFailure"} => decodingTasks[current.node] # current

QueueInv == WorkerHolds /\ CurrentIsOlder /\ QueueMatchesMap

\* The tasks of different kinds differ, and none is the empty slot.
LEMMA KindsDiffer ==
  /\ \A t \in DecodeTask : t \notin SearchTask /\ t # Shutdown /\ t # NoTask
  /\ \A t \in SearchTask : t # Shutdown /\ t # NoTask
  /\ Shutdown # NoTask
<1>1. \A t \in DecodeTask : t.kind = "decode" /\ t \in Task
  BY DEF DecodeTask, Task
<1>2. \A t \in SearchTask : t.kind = "search" /\ t \in Task
  BY DEF SearchTask, Task
<1>3. Shutdown.kind = "shutdown" /\ Shutdown \in Task
  BY DEF Shutdown, Task
<1> QED BY <1>1, <1>2, <1>3, NoTaskAssumption

\* What is in a slot is a task or nothing, and the queued tasks are those in the
\* slots that are filled.
LEMMA Slots ==
  ASSUME TypeOK
  PROVE  /\ \A i \in DOMAIN tasks : i \in Nat /\ tasks[i] \in Task \cup {NoTask}
         /\ \A i : i \in Filled(tasks) <=> i \in DOMAIN tasks /\ tasks[i] # NoTask
         /\ \A t : t \in Queued <=> \E i \in DOMAIN tasks : tasks[i] = t /\ t # NoTask
         /\ Queued \subseteq Task
<1>1. /\ Len(tasks) \in Nat
      /\ DOMAIN tasks = 1 .. Len(tasks)
      /\ \A i \in DOMAIN tasks : tasks[i] \in Task \cup {NoTask}
  BY LenProperties, ElementOfSeq DEF TypeOK
<1>2. \A i : i \in Filled(tasks) <=> i \in DOMAIN tasks /\ tasks[i] # NoTask
  BY DEF Filled
<1>3. \A t : t \in Queued <=> \E i \in DOMAIN tasks : tasks[i] = t /\ t # NoTask
  BY <1>2 DEF Queued
<1> QED BY <1>1, <1>2, <1>3

\* Blanking the tasks of S leaves the other filled slots as they are.
LEMMA BlankedSlots ==
  ASSUME TypeOK, NEW S, NoTask \notin S, tasks' = Blank(tasks, S)
  PROVE  /\ \A i : i \in Filled(tasks') <=> i \in Filled(tasks) /\ tasks[i] \notin S
         /\ \A i \in Filled(tasks') : tasks'[i] = tasks[i]
<1>1. tasks \in Seq(Task \cup {NoTask})
  BY DEF TypeOK
<1>2. /\ DOMAIN Blank(tasks, S) = DOMAIN tasks
      /\ \A i \in DOMAIN tasks : Blank(tasks, S)[i] = IF tasks[i] \in S THEN NoTask ELSE tasks[i]
  BY <1>1, BlankFacts
<1> QED BY <1>2 DEF Filled

\* A submitted task takes a slot that was not filled, and the tasks it replaces
\* leave theirs.
LEMMA SubmittedSlots ==
  ASSUME TypeOK, NEW t \in Task, NEW S, NoTask \notin S, t \notin S,
         tasks' = Blank(Put(tasks, t), S)
  PROVE  \E k \in Nat \ {0} :
           /\ k \notin Filled(tasks) /\ k \in Filled(tasks') /\ tasks'[k] = t
           /\ \A i : i # k => (i \in Filled(tasks') <=> i \in Filled(tasks) /\ tasks[i] \notin S)
           /\ \A i \in Filled(tasks') : i # k => tasks'[i] = tasks[i]
<1>1. tasks \in Seq(Task \cup {NoTask}) /\ t # NoTask
  BY NoTaskAssumption DEF TypeOK
<1>2. PICK k \in Nat \ {0} :
          /\ DOMAIN Put(tasks, t) = DOMAIN tasks \cup {k}
          /\ Put(tasks, t)[k] = t
          /\ k \in DOMAIN tasks => tasks[k] = NoTask
          /\ \A i \in DOMAIN tasks \ {k} : Put(tasks, t)[i] = tasks[i]
  BY <1>1, PutFacts
<1>3. Put(tasks, t) \in Seq(Task \cup {NoTask})
  BY <1>1, PutFacts
<1>4. /\ DOMAIN tasks' = DOMAIN Put(tasks, t)
      /\ \A i \in DOMAIN Put(tasks, t) :
            tasks'[i] = IF Put(tasks, t)[i] \in S THEN NoTask ELSE Put(tasks, t)[i]
  <2>1. /\ DOMAIN Blank(Put(tasks, t), S) = DOMAIN Put(tasks, t)
        /\ \A i \in DOMAIN Put(tasks, t) : Blank(Put(tasks, t), S)[i] =
                IF Put(tasks, t)[i] \in S THEN NoTask ELSE Put(tasks, t)[i]
    BY <1>3, BlankFacts
  <2> QED BY <2>1
<1>5. k \notin Filled(tasks) /\ k \in Filled(tasks') /\ tasks'[k] = t
  BY <1>1, <1>2, <1>4 DEF Filled
<1>6. \A i : i # k => (i \in Filled(tasks') <=> i \in Filled(tasks) /\ tasks[i] \notin S)
  BY <1>2, <1>4 DEF Filled
<1>7. \A i \in Filled(tasks') : i # k => tasks'[i] = tasks[i]
  BY <1>2, <1>4 DEF Filled
<1> QED BY <1>5, <1>6, <1>7

\* Giving up the requests of the nodes of S takes their tasks, and no others,
\* out of the slots.
LEMMA StopDecodingQueue ==
  ASSUME TypeOK, MapIsByNode, QueueMatchesMap, NEW S \in SUBSET Nodes, StopDecoding(S),
         current' = current
  PROVE  /\ QueueMatchesMap'
         /\ \A n \in Nodes : decodingTasks'[n] \in {NoTask, decodingTasks[n]}
         /\ \A n \in S : decodingTasks'[n] = NoTask
<1> DEFINE removed == {decodingTasks[n] : n \in S} \ {NoTask}
<1>1. /\ decodingTasks' = [n \in Nodes |-> IF n \in S THEN NoTask ELSE decodingTasks[n]]
      /\ cancelled' = cancelled \cup removed
      /\ tasks' = Blank(tasks, removed)
  BY DEF StopDecoding
<1>2. removed \subseteq DecodeTask /\ \A t \in removed : t.node \in S /\ decodingTasks[t.node] = t
  BY DEF TypeOK, MapIsByNode
<1>2a. \A n \in S : decodingTasks[n] # NoTask => decodingTasks[n] \in removed
  OBVIOUS
<1> HIDE DEF removed
<1>4. /\ \A i : i \in Filled(tasks') <=> i \in Filled(tasks) /\ tasks[i] \notin removed
      /\ \A i \in Filled(tasks') : tasks'[i] = tasks[i]
  BY <1>1, <1>2, KindsDiffer, BlankedSlots
<1>5. \A i \in Filled(tasks') : tasks'[i] = tasks[i]
  BY <1>4
<1>6. \A n \in Nodes \ S : decodingTasks'[n] = decodingTasks[n]
  BY <1>1
<1>7. \A n \in S : decodingTasks'[n] = NoTask
  BY <1>1
<1>8. ASSUME NEW i \in Filled(tasks'), tasks'[i] \in DecodeTask
      PROVE  /\ decodingTasks'[tasks'[i].node] = tasks'[i]
             /\ tasks'[i] \notin cancelled'
             /\ \A j \in Filled(tasks') : tasks'[j] = tasks'[i] => j = i
  <2>1. /\ i \in Filled(tasks) /\ tasks[i] \in DecodeTask /\ tasks[i] \notin removed
        /\ tasks'[i] = tasks[i]
    BY <1>4, <1>5, <1>8
  <2>2. /\ decodingTasks[tasks[i].node] = tasks[i] /\ tasks[i].node \in Nodes
        /\ tasks[i] # NoTask /\ tasks[i] \notin cancelled
    BY <2>1 DEF QueueMatchesMap, Live, DecodeTask
  <2>3. tasks[i].node \notin S
    BY <1>2a, <2>1, <2>2
  <2>4. decodingTasks'[tasks[i].node] = tasks[i] /\ tasks[i] \notin cancelled'
    BY <1>1, <1>6, <2>1, <2>2, <2>3
  <2>5. \A j \in Filled(tasks') : tasks'[j] = tasks'[i] => j = i
    BY <1>4, <1>5, <2>1 DEF QueueMatchesMap
  <2> QED BY <2>1, <2>2, <2>4, <2>5 DEF Live
<1>9. ASSUME NEW n \in Nodes, decodingTasks'[n] # NoTask,
             decodingTasks'[n] \notin cancelled'
      PROVE  decodingTasks'[n] \in Queued' \cup {current'}
  <2>1. /\ n \notin S /\ decodingTasks'[n] = decodingTasks[n] /\ Live(decodingTasks[n])
        /\ decodingTasks[n] \notin removed
    BY <1>1, <1>6, <1>7, <1>9 DEF Live
  <2>2. CASE decodingTasks[n] = current
    BY <2>1, <2>2
  <2>3. CASE decodingTasks[n] # current
    <3>1. decodingTasks[n] \in Queued
      BY <2>1, <2>3 DEF QueueMatchesMap
    <3>2. PICK i \in Filled(tasks) : tasks[i] = decodingTasks[n]
      BY <3>1 DEF Queued
    <3>3. i \in Filled(tasks') /\ tasks'[i] = decodingTasks'[n]
      BY <1>4, <1>5, <2>1, <3>2
    <3> QED BY <3>3 DEF Queued
  <2> QED BY <2>2, <2>3
<1>10. QueueMatchesMap'
  BY <1>8, <1>9 DEF QueueMatchesMap, Live, Filled
<1> QED BY <1>1, <1>7, <1>10

\* The queue and the worker after a step that stops the nodes of S and leaves
\* the worker alone.
LEMMA StopDecodingKeeps ==
  ASSUME TypeOK, MapIsByNode, QueueInv, NEW S \in SUBSET Nodes, StopDecoding(S),
         UNCHANGED <<nextId, pc, current>>
  PROVE  QueueInv'
<1>1. /\ QueueMatchesMap'
      /\ \A n \in Nodes : decodingTasks'[n] \in {NoTask, decodingTasks[n]}
  BY StopDecodingQueue DEF QueueInv
<1>2. pc \in DecodingPcs => current.node \in Nodes
  BY DEF TypeOK, DecodeTask
<1>2a. pc \in DecodingPcs => current # NoTask
  BY KindsDiffer DEF TypeOK
<1>3. CurrentIsOlder'
  BY <1>1, <1>2, <1>2a DEF QueueInv, CurrentIsOlder, Younger, DecodingPcs
<1>4. WorkerHolds'
  BY DEF QueueInv, WorkerHolds
<1> QED BY <1>1, <1>3, <1>4 DEF QueueInv

\* A step of the worker or the search that leaves slots, map and flags alone
\* and lets go of no live request.
LEMMA QueueUntouched ==
  ASSUME TypeOK, QueueInv,
         UNCHANGED <<tasks, decodingTasks, cancelled, nextId>>,
         current' = current \/ \A n \in Nodes : Live(decodingTasks[n]) => decodingTasks[n] # current
  PROVE  QueueMatchesMap'
BY DEF QueueInv, QueueMatchesMap, Live, Queued, Filled

\* A submitted task is younger than all others; its slot is one that was empty,
\* and the task it replaces is gone from the slots.
LEMMA AddDecodeTaskQueue ==
  ASSUME TypeOK, MapIsByNode, IdsAreUsed, QueueInv, NEW t \in DecodeTask, t.id = nextId,
         AddDecodeTask(t), nextId' = nextId + 1, current' = current
  PROVE  QueueInv'
<1> DEFINE n == t.node
           running == decodingTasks[n]
           old == {running} \ {NoTask}
<1>1. n \in Nodes /\ t \in Task /\ t # NoTask
  BY KindsDiffer DEF DecodeTask, Task
<1>2. /\ \A m \in Nodes : decodingTasks[m] # t
      /\ t \notin cancelled
      /\ pc \in DecodingPcs => current # t
  BY <1>1, t.id = nextId DEF IdsAreUsed, QueueInv, CurrentIsOlder, TypeOK
<1>3. nextId \in Nat
  BY DEF TypeOK
<1>4. /\ pc' = pc \/ (pc = "waiting" /\ pc' = "loop")
      /\ WorkerHolds'
  BY DEF AddDecodeTask, Notified, QueueInv, WorkerHolds
<1>5. CASE Live(running) /\ running.zoom = t.zoom
  <2>1. UNCHANGED <<tasks, decodingTasks, cancelled, pc>>
    BY <1>5 DEF AddDecodeTask
  <2>2. QueueMatchesMap'
    BY <2>1 DEF QueueInv, QueueMatchesMap, Live, Queued, Filled
  <2>3. pc \in DecodingPcs => current.id \in Nat
    BY DEF TypeOK, DecodeTask
  <2>4. CurrentIsOlder'
    BY <1>3, <2>1, <2>3 DEF QueueInv, CurrentIsOlder, Younger, DecodingPcs
  <2> QED BY <1>4, <2>2, <2>4 DEF QueueInv
<1>6. CASE ~(Live(running) /\ running.zoom = t.zoom)
  <2>1. /\ decodingTasks' = [decodingTasks EXCEPT ![n] = t]
        /\ tasks' = Blank(Put(tasks, t), old)
        /\ cancelled' = cancelled \cup old
    BY <1>6 DEF AddDecodeTask
  <2>2. t \notin old
    BY <1>1, <1>2
  <2>5. old \subseteq {running} /\ NoTask \notin old /\ (running # NoTask => running \in old)
    OBVIOUS
  <2> HIDE DEF old
  <2>3. PICK k \in Nat \ {0} :
           /\ k \notin Filled(tasks) /\ k \in Filled(tasks') /\ tasks'[k] = t
           /\ \A i : i # k => (i \in Filled(tasks') <=> i \in Filled(tasks) /\ tasks[i] \notin old)
           /\ \A i \in Filled(tasks') : i # k => tasks'[i] = tasks[i]
    BY <1>1, <2>1, <2>2, <2>5, SubmittedSlots
  <2>6. k \in Filled(tasks') /\ tasks'[k] = t /\ k \notin Filled(tasks)
    BY <2>3
  <2>7. \A i : i # k => (i \in Filled(tasks') <=> i \in Filled(tasks) /\ tasks[i] \notin old)
    BY <2>3
  <2>8. \A i \in Filled(tasks') : i # k => tasks'[i] = tasks[i]
    BY <2>3
  <2>9. decodingTasks'[n] = t /\ \A m \in Nodes \ {n} : decodingTasks'[m] = decodingTasks[m]
    BY <1>1, <2>1 DEF TypeOK
  <2>9a. \A i \in Filled(tasks) : tasks[i] # t
    BY <1>1, <1>2 DEF QueueInv, QueueMatchesMap
  <2>10. ASSUME NEW i \in Filled(tasks'), tasks'[i] \in DecodeTask
         PROVE  /\ decodingTasks'[tasks'[i].node] = tasks'[i]
                /\ tasks'[i] \notin cancelled'
                /\ \A j \in Filled(tasks') : tasks'[j] = tasks'[i] => j = i
    <3>1. CASE i = k
      <4>1. t \notin cancelled'
        BY <1>2, <2>1, <2>2
      <4> QED BY <1>1, <2>6, <2>7, <2>8, <2>9, <2>9a, <3>1, <4>1 DEF Live
    <3>2. CASE i # k
      <4>1. /\ i \in Filled(tasks) /\ tasks[i] \in DecodeTask /\ tasks[i] \notin old
            /\ tasks'[i] = tasks[i]
        BY <2>7, <2>8, <2>10, <3>2
      <4>2. /\ decodingTasks[tasks[i].node] = tasks[i] /\ tasks[i].node \in Nodes
            /\ tasks[i] # NoTask /\ tasks[i] \notin cancelled
        BY <4>1 DEF QueueInv, QueueMatchesMap, Live, DecodeTask
      <4>3. tasks[i].node # n
        BY <2>5, <4>1, <4>2
      <4>4. decodingTasks'[tasks[i].node] = tasks[i] /\ tasks[i] \notin cancelled'
        BY <2>1, <2>9, <4>1, <4>2, <4>3
      <4>5. \A j \in Filled(tasks') : tasks'[j] = tasks'[i] => j = i
        BY <2>6, <2>7, <2>8, <2>9a, <4>1 DEF QueueInv, QueueMatchesMap
      <4> QED BY <4>1, <4>2, <4>4, <4>5 DEF Live
    <3> QED BY <3>1, <3>2
  <2>11. ASSUME NEW m \in Nodes, decodingTasks'[m] # NoTask,
                decodingTasks'[m] \notin cancelled'
         PROVE  decodingTasks'[m] \in Queued' \cup {current'}
    <3>1. CASE m = n
      BY <2>6, <2>9, <3>1 DEF Queued
    <3>2. CASE m # n
      <4>1. /\ decodingTasks'[m] = decodingTasks[m] /\ Live(decodingTasks[m])
            /\ decodingTasks[m] \notin old
        BY <2>1, <2>9, <2>11, <3>2 DEF Live
      <4>2. CASE decodingTasks[m] = current
        BY <4>1, <4>2
      <4>3. CASE decodingTasks[m] # current
        <5>1. PICK i \in Filled(tasks) : tasks[i] = decodingTasks[m]
          BY <4>1, <4>3 DEF QueueInv, QueueMatchesMap, Queued
        <5>2. i \in Filled(tasks') /\ tasks'[i] = decodingTasks'[m]
          BY <2>6, <2>7, <2>8, <4>1, <5>1
        <5> QED BY <5>2 DEF Queued
      <4> QED BY <4>2, <4>3
    <3> QED BY <3>1, <3>2
  <2>12. QueueMatchesMap'
    BY <2>10, <2>11 DEF QueueMatchesMap, Live, Filled
  <2>13. pc \in DecodingPcs => current.id \in Nat /\ current.node \in Nodes
    BY DEF TypeOK, DecodeTask
  <2>14. pc' \in DecodingPcs => pc \in DecodingPcs /\ pc' = pc
    BY <1>4 DEF DecodingPcs
  <2>15. CurrentIsOlder'
    <3>1. ASSUME pc' \in DecodingPcs
          PROVE  current.id < nextId + 1
      BY <1>3, <2>13, <2>14, <3>1 DEF QueueInv, CurrentIsOlder
    <3>2. ASSUME pc' \in DecodingPcs, current.node = n
          PROVE  Younger(current, decodingTasks'[n]) /\ decodingTasks'[n] # current
      BY <1>2, <2>9, <2>14, <3>2 DEF QueueInv, CurrentIsOlder, Younger
    <3>3. ASSUME pc' \in DecodingPcs, current.node # n
          PROVE  decodingTasks'[current.node] = decodingTasks[current.node]
      BY <2>9, <2>13, <2>14, <3>3
    <3>4. pc' \in {"post", "postFailure"} => pc' \in DecodingPcs /\ pc \in {"post", "postFailure"}
      BY <1>4 DEF DecodingPcs
    <3> QED BY <2>14, <3>1, <3>2, <3>3, <3>4 DEF QueueInv, CurrentIsOlder, Younger
  <2> QED BY <1>4, <2>12, <2>15 DEF QueueInv
<1> QED BY <1>5, <1>6

\* Each step of the three threads keeps the list, the map and the task under
\* way in agreement.
LEMMA QueueStep ==
  ASSUME TypeOK, RequestInv, QueueInv, [Next]_vars
  PROVE  QueueInv'
<1>1. ASSUME NEW recycled \in SUBSET Nodes, NEW restarted \in SUBSET Nodes,
             NEW wanted \in SUBSET Nodes, NEW z \in Zooms,
             ApplyEvent(recycled, restarted, wanted, z),
             UNCHANGED <<nextId, pc, current>>
      PROVE  QueueInv'
  <2>1. Stopped(recycled \cup restarted) \in SUBSET Nodes
    BY DEF Stopped
  <2> QED BY <1>1, <2>1, StopDecodingKeeps DEF ApplyEvent, RequestInv
<1>2. CASE Event
  <2>1. viewZoom \in Zooms
    BY DEF TypeOK
  <2>2. CASE Scroll
    BY <1>1, <2>1, <2>2 DEF Scroll, Blanks
  <2>3. CASE ZoomIn
    <3>1. PICK z \in Zooms \ {viewZoom}, kept \in SUBSET Nodes :
            LET outdated == {n \in kept : bitmapZoom[n] # z}
            IN  ApplyEvent(Nodes \ kept, outdated, outdated \cup Blanks(kept), z)
      BY <2>3 DEF ZoomIn
    <3> DEFINE outdated == {n \in kept : bitmapZoom[n] # z}
    <3>2. outdated \in SUBSET Nodes /\ outdated \cup Blanks(kept) \in SUBSET Nodes
      BY DEF Blanks
    <3>3. ApplyEvent(Nodes \ kept, outdated, outdated \cup Blanks(kept), z)
      BY <3>1
    <3> HIDE DEF outdated
    <3> QED BY <1>1, <2>3, <3>2, <3>3 DEF ZoomIn
  <2>4. CASE ZoomOut
    BY <1>1, <2>4 DEF ZoomOut
  <2>5. CASE Reset
    BY <1>1, <2>1, <2>5 DEF Reset
  <2> QED BY <1>2, <2>2, <2>3, <2>4, <2>5 DEF Event
<1>3. ASSUME NEW n \in Nodes, DecodePage(n)
      PROVE  QueueInv'
  <2> DEFINE t == [kind |-> "decode", id |-> nextId, node |-> n, zoom |-> viewZoom]
  <2>1. t \in DecodeTask /\ t.id = nextId
    BY DEF DecodeTask, TypeOK
  <2>2. ~isRecycled /\ current' = current
    BY <1>3 DEF DecodePage, RequestInv, ClosingIsOrdered
  <2>3. AddDecodeTask(t) /\ nextId' = nextId + 1
    BY <1>3, <2>2 DEF DecodePage
  <2> HIDE DEF t
  <2> QED BY <2>1, <2>2, <2>3, AddDecodeTaskQueue DEF RequestInv
<1>4. CASE RunPosted
  <2>1. PICK covered \in SUBSET Nodes :
          LET ended == Stopped(covered \cup {Head(posted).task.node})
          IN  StopDecoding(ended \ {Head(posted).task.node})
    BY <1>4 DEF RunPosted
  <2>2. Head(posted).task.node \in Nodes
    BY <1>4, HeadIsPosted DEF RunPosted
  <2>3. Stopped(covered \cup {Head(posted).task.node}) \in SUBSET Nodes
    BY <2>2 DEF Stopped
  <2>4. UNCHANGED <<nextId, pc, current>>
    BY <1>4 DEF RunPosted
  <2> QED BY <2>1, <2>3, <2>4, StopDecodingKeeps DEF RequestInv
<1>5. CASE Recycle
  <2> DEFINE all == {decodingTasks[n] : n \in Nodes} \ {NoTask}
  <2>1. /\ cancelled' = cancelled \cup all
        /\ tasks' = Append(Blank(tasks, all), Shutdown)
        /\ pc' = pc \/ (pc = "waiting" /\ pc' = "loop")
        /\ UNCHANGED <<decodingTasks, nextId, current>>
    BY <1>5 DEF Recycle, Notified
  <2>2. \A n \in Nodes : decodingTasks[n] # NoTask => decodingTasks[n] \in cancelled'
    BY <2>1
  <2>2a. \A n \in Nodes : decodingTasks[n] # NoTask => decodingTasks[n] \in all
    OBVIOUS
  <2> HIDE DEF all
  <2>3. /\ Blank(tasks, all) \in Seq(Task \cup {NoTask})
        /\ DOMAIN Blank(tasks, all) = DOMAIN tasks
        /\ \A i \in DOMAIN tasks : Blank(tasks, all)[i] = IF tasks[i] \in all THEN NoTask ELSE tasks[i]
    BY BlankFacts DEF TypeOK
  <2>4. /\ DOMAIN tasks' = DOMAIN tasks \cup {Len(tasks) + 1}
        /\ tasks'[Len(tasks) + 1] = Shutdown
        /\ \A i \in DOMAIN tasks : tasks'[i] = IF tasks[i] \in all THEN NoTask ELSE tasks[i]
    <3>1. Shutdown \in Task \cup {NoTask}
      BY DEF Task
    <3>2. /\ Len(Blank(tasks, all)) = Len(tasks) /\ Len(tasks) \in Nat
          /\ DOMAIN tasks = 1 .. Len(tasks)
      BY <2>3, LenProperties DEF TypeOK
    <3> QED BY <2>1, <2>3, <3>1, <3>2, AppendProperties, LenProperties
  <2>5. \A i \in Filled(tasks') : tasks'[i] \notin DecodeTask
    <3> SUFFICES ASSUME NEW i \in Filled(tasks'), tasks'[i] \in DecodeTask
                 PROVE  FALSE
      OBVIOUS
    <3>1. i \in DOMAIN tasks /\ tasks'[i] = tasks[i] /\ tasks[i] \notin all /\ tasks[i] # NoTask
      BY <2>4, KindsDiffer DEF Filled
    <3>2. decodingTasks[tasks[i].node] = tasks[i] /\ tasks[i].node \in Nodes
      BY <3>1 DEF QueueInv, QueueMatchesMap, Filled, DecodeTask
    <3> QED BY <2>2a, <3>1, <3>2
  <2>6. QueueMatchesMap'
    BY <2>1, <2>2, <2>5 DEF QueueMatchesMap, Live
  <2>7. WorkerHolds' /\ CurrentIsOlder'
    BY <2>1 DEF QueueInv, WorkerHolds, CurrentIsOlder, DecodingPcs
  <2> QED BY <2>6, <2>7 DEF QueueInv
<1>6. CASE RecyclePages
  <2>1. Stopped(Nodes) \in SUBSET Nodes
    BY DEF Stopped
  <2> QED BY <1>6, <2>1, StopDecodingKeeps DEF RecyclePages, RequestInv
<1>7. CASE TakeTask
  <2>1. PICK i \in Candidates(tasks) :
          /\ current' = tasks[i]
          /\ tasks' = [tasks EXCEPT ![i] = NoTask]
          /\ pc' = CASE tasks[i].kind = "decode"   -> "getPage"
                     [] tasks[i].kind = "search"   -> "search"
                     [] tasks[i].kind = "shutdown" -> "shutdown"
    BY <1>7 DEF TakeTask
  <2>2. /\ i \in Filled(tasks) /\ tasks[i] \in Task /\ i \in DOMAIN tasks
        /\ \A j : j \in Filled(tasks') <=> j \in Filled(tasks) /\ j # i
        /\ \A j \in Filled(tasks') : tasks'[j] = tasks[j]
    BY <2>1, Slots DEF Candidates, Filled
  <2>3. /\ UNCHANGED <<decodingTasks, cancelled, nextId>>
        /\ current = NoTask
    BY <1>7 DEF TakeTask, QueueInv, WorkerHolds
  <2>5. \A j \in Filled(tasks') : tasks'[j] \in DecodeTask =>
          /\ decodingTasks'[tasks'[j].node] = tasks'[j]
          /\ tasks'[j] \notin cancelled'
          /\ \A k \in Filled(tasks') : tasks'[k] = tasks'[j] => k = j
    BY <2>2, <2>3 DEF QueueInv, QueueMatchesMap, Live
  <2>6. ASSUME NEW n \in Nodes, decodingTasks'[n] # NoTask,
               decodingTasks'[n] \notin cancelled'
        PROVE  decodingTasks'[n] \in Queued' \cup {current'}
    <3>1. PICK j \in Filled(tasks) : tasks[j] = decodingTasks[n]
      BY <2>3, <2>6 DEF QueueInv, QueueMatchesMap, Queued, Live
    <3>2. CASE j = i
      BY <2>1, <2>3, <3>1, <3>2
    <3>3. CASE j # i
      BY <2>2, <2>3, <3>1, <3>3 DEF Queued
    <3> QED BY <3>2, <3>3
  <2>7. QueueMatchesMap'
    BY <2>5, <2>6 DEF QueueMatchesMap, Live, Filled
  <2>8. /\ pc' \in {"getPage", "search", "shutdown"}
        /\ pc' = "getPage" => current' \in DecodeTask
        /\ pc' = "search" => current' \in SearchTask
        /\ pc' = "shutdown" => current' = Shutdown
    BY <2>1, <2>2, TaskKinds
  <2>9. WorkerHolds'
    BY <2>8 DEF WorkerHolds
  <2>10. ASSUME current' \in DecodeTask
         PROVE  current'.id < nextId /\ decodingTasks[current'.node] = current'
    <3>1. decodingTasks[tasks[i].node] = tasks[i] /\ tasks[i].node \in Nodes /\ tasks[i] # NoTask
      BY <2>1, <2>2, <2>10, KindsDiffer DEF QueueInv, QueueMatchesMap, DecodeTask
    <3> QED BY <2>1, <3>1 DEF RequestInv, IdsAreUsed
  <2>11. CurrentIsOlder'
    BY <2>3, <2>8, <2>10 DEF CurrentIsOlder, DecodingPcs
  <2> QED BY <2>7, <2>9, <2>11 DEF QueueInv
<1>8. CASE ClearTasks
  <2>1. /\ tasks' = <<>> /\ Queued = {}
        /\ UNCHANGED <<decodingTasks, cancelled, nextId, pc, current>>
    BY <1>8 DEF ClearTasks, Queued
  <2>2. Filled(tasks') = {}
    BY <2>1 DEF Filled
  <2>3. QueueMatchesMap'
    BY <2>1, <2>2 DEF QueueInv, QueueMatchesMap, Live, Queued
  <2> QED BY <2>1, <2>3 DEF QueueInv, WorkerHolds, CurrentIsOlder
<1>9. CASE FindEmpty \/ Park \/ Timeout \/ Exit
  <2>1. /\ UNCHANGED <<tasks, decodingTasks, cancelled, nextId, current>>
        /\ pc \in {"loop", "parking", "waiting"}
        /\ pc' \in {"loop", "parking", "waiting", "done"}
    BY <1>9 DEF FindEmpty, Park, Timeout, Exit, WorkerStep
  <2>2. WorkerHolds' /\ CurrentIsOlder'
    BY <2>1 DEF QueueInv, WorkerHolds, CurrentIsOlder, DecodingPcs
  <2> QED BY <2>1, <2>2, QueueUntouched DEF QueueInv
<1>10. CASE DropDead
  <2>1. /\ UNCHANGED <<tasks, decodingTasks, cancelled, nextId>>
        /\ pc' = "loop" /\ current' = NoTask /\ current \in cancelled
    BY <1>10 DEF DropDead, WorkerStep
  <2>2. \A n \in Nodes : Live(decodingTasks[n]) => decodingTasks[n] # current
    BY <2>1 DEF Live
  <2>3. WorkerHolds' /\ CurrentIsOlder'
    BY <2>1 DEF WorkerHolds, CurrentIsOlder, DecodingPcs
  <2> QED BY <2>1, <2>2, <2>3, QueueUntouched DEF QueueInv
<1>11. CASE NextStage \/ DecodeCompleteFails
  <2>1. /\ UNCHANGED <<tasks, decodingTasks, cancelled, nextId, current>>
        /\ pc \in DecodingPcs
        /\ pc' \in {"crop", "render", "deliver", "finish", "abort"}
    BY <1>11 DEF NextStage, DecodeCompleteFails, WorkerStep, Stages, After, DecodingPcs
  <2>2. WorkerHolds' /\ CurrentIsOlder'
    BY <2>1 DEF QueueInv, WorkerHolds, CurrentIsOlder, DecodingPcs
  <2> QED BY <2>1, <2>2, QueueUntouched DEF QueueInv
<1>12. CASE FinishDecoding
  <2>1. /\ pc \in DecodingPcs /\ pc' \in {"post", "postFailure"}
        /\ StopDecoding({current.node})
        /\ UNCHANGED <<nextId, current>>
    BY <1>12 DEF FinishDecoding, DecodingPcs
  <2>2. current \in DecodeTask /\ current # NoTask /\ current.node \in Nodes
    BY <2>1, KindsDiffer DEF TypeOK, DecodeTask
  <2>3. QueueMatchesMap' /\ decodingTasks'[current.node] = NoTask
    BY <2>1, <2>2, StopDecodingQueue DEF QueueInv, RequestInv
  <2>4. CurrentIsOlder'
    BY <2>1, <2>2, <2>3 DEF QueueInv, CurrentIsOlder, Younger
  <2>5. WorkerHolds'
    BY <2>1 DEF WorkerHolds
  <2> QED BY <2>3, <2>4, <2>5 DEF QueueInv
<1>13. CASE DecodeComplete
  <2>1. /\ UNCHANGED <<tasks, decodingTasks, cancelled, nextId>>
        /\ pc \in {"post", "postFailure"} /\ pc' = "loop" /\ current' = NoTask
    BY <1>13 DEF DecodeComplete, WorkerStep
  <2>2. \A n \in Nodes : Live(decodingTasks[n]) => decodingTasks[n] # current
    BY <2>1 DEF QueueInv, CurrentIsOlder, RequestInv, MapIsByNode, Live
  <2>3. WorkerHolds' /\ CurrentIsOlder'
    BY <2>1 DEF WorkerHolds, CurrentIsOlder, DecodingPcs
  <2> QED BY <2>1, <2>2, <2>3, QueueUntouched DEF QueueInv
<1>14. CASE RunSearch \/ RunShutdown
  <2>1. /\ UNCHANGED <<tasks, decodingTasks, cancelled, nextId>>
        /\ pc \in {"search", "shutdown"} /\ pc' = "loop" /\ current' = NoTask
    BY <1>14 DEF RunSearch, RunShutdown, WorkerStep
  <2>2. \A n \in Nodes : Live(decodingTasks[n]) => decodingTasks[n] # current
    BY <2>1, KindsDiffer DEF QueueInv, WorkerHolds, Live, TypeOK
  <2>3. WorkerHolds' /\ CurrentIsOlder'
    BY <2>1 DEF WorkerHolds, CurrentIsOlder, DecodingPcs
  <2> QED BY <2>1, <2>2, <2>3, QueueUntouched DEF QueueInv
<1>15. CASE AddSearchTask
  <2> DEFINE t == [kind |-> "search", page |-> searcher.page]
  <2>1. t \in SearchTask /\ t \in Task
    BY DEF SearchTask, Task, TypeOK
  <2>2. /\ tasks' = Put(tasks, t)
        /\ pc' = pc \/ (pc = "waiting" /\ pc' = "loop")
        /\ UNCHANGED <<decodingTasks, cancelled, nextId, current>>
    BY <1>15 DEF AddSearchTask, Notified
  <2> HIDE DEF t
  <2>3. PICK k \in Nat \ {0} :
          /\ DOMAIN tasks' = DOMAIN tasks \cup {k}
          /\ tasks'[k] = t
          /\ k \in DOMAIN tasks => tasks[k] = NoTask
          /\ \A i \in DOMAIN tasks \ {k} : tasks'[i] = tasks[i]
    <3>1. tasks \in Seq(Task \cup {NoTask})
      BY DEF TypeOK
    <3>2. \E k \in Nat \ {0} :
            /\ DOMAIN Put(tasks, t) = DOMAIN tasks \cup {k}
            /\ Put(tasks, t)[k] = t
            /\ k \in DOMAIN tasks => tasks[k] = NoTask
            /\ \A i \in DOMAIN tasks \ {k} : Put(tasks, t)[i] = tasks[i]
      BY <2>1, <3>1, PutFacts, SMTT(30)
    <3> QED BY <2>2, <3>2
  <2>4. /\ Filled(tasks') = Filled(tasks) \cup {k}
        /\ \A i \in Filled(tasks) : i # k /\ tasks'[i] = tasks[i]
        /\ tasks'[k] \notin DecodeTask
    BY <2>1, <2>3, KindsDiffer DEF Filled
  <2>6. \A i \in Filled(tasks') : tasks'[i] \in DecodeTask =>
          /\ decodingTasks'[tasks'[i].node] = tasks'[i]
          /\ tasks'[i] \notin cancelled'
          /\ \A j \in Filled(tasks') : tasks'[j] = tasks'[i] => j = i
    BY <2>2, <2>4 DEF QueueInv, QueueMatchesMap, Live
  <2>7. Queued \subseteq Queued'
    BY <2>4 DEF Queued
  <2>8. QueueMatchesMap'
    BY <2>2, <2>6, <2>7 DEF QueueInv, QueueMatchesMap, Live, Filled
  <2>9. WorkerHolds' /\ CurrentIsOlder'
    BY <2>2 DEF QueueInv, WorkerHolds, CurrentIsOlder, DecodingPcs
  <2> QED BY <2>8, <2>9 DEF QueueInv
<1>16. CASE SearchText \/ SearchNextPage \/ UNCHANGED vars
  <2>1. UNCHANGED <<tasks, decodingTasks, cancelled, nextId, pc, current>>
    BY <1>16 DEF SearchText, SearchNextPage, vars
  <2>2. WorkerHolds' /\ CurrentIsOlder'
    BY <2>1 DEF QueueInv, WorkerHolds, CurrentIsOlder
  <2> QED BY <2>1, <2>2, QueueUntouched DEF QueueInv
<1> QED
  BY <1>2, <1>3, <1>4, <1>5, <1>6, <1>7, <1>8, <1>9, <1>10, <1>11, <1>12, <1>13, <1>14,
     <1>15, <1>16
     DEF Next, Ui, Worker, Searcher

\* Initially the list and the map are empty.
LEMMA QueueInit == Init => QueueInv
BY DEF Init, QueueInv, WorkerHolds, CurrentIsOlder, DecodingPcs, QueueMatchesMap, Filled, Live

\* QueueMatchesMap holds in every reachable state: however submissions, stops
\* and the worker interleave, no superseded task is ever picked up, no node waits
\* twice, and no live request is lost.
THEOREM QueueAndMapAgree == Spec => []QueueMatchesMap
<1>1. Spec => [](TypeOK /\ RequestInv /\ QueueInv)
  BY TypeInit, TypeStep, RequestInit, RequestStep, QueueInit, QueueStep, PTL DEF Spec
<1>2. QueueInv => QueueMatchesMap
  BY DEF QueueInv
<1> QED BY <1>1, <1>2, PTL

-----------------------------------------------------------------------------
(* The images of a node arrive in order.                                    *)

\* An image that is posted or shown is of a task that was submitted before the
\* one its node has in the map, and what is shown before the one under way.
ImagesAreOlder ==
    /\ \A i \in DOMAIN posted : LET t == posted[i].task IN
         /\ t.id < nextId
         /\ Younger(t, decodingTasks[t.node])
    /\ \A n \in Nodes : holder[n] # NoTask =>
         /\ holder[n].id < nextId
         /\ Younger(holder[n], decodingTasks[n])
         /\ pc \in DecodingPcs /\ current.node = n => holder[n].id < current.id

OrderInv == ImagesAreOlder /\ ImagesInOrder

\* The ids of the tasks are numbers, and the tasks are those of nodes.
LEMMA TasksAreTyped ==
  ASSUME TypeOK
  PROVE  /\ \A t \in DecodeTask : t.id \in Nat /\ t.node \in Nodes /\ t # NoTask
         /\ \A i \in DOMAIN posted : /\ posted[i] \in Posted /\ posted[i].task \in DecodeTask
                                     /\ posted[i].task.node \in Nodes
                                     /\ posted[i].task.id \in Nat
         /\ \A n \in Nodes : /\ decodingTasks[n] \in DecodeTask \cup {NoTask}
                             /\ holder[n] \in DecodeTask \cup {NoTask}
         /\ pc \in DecodingPcs => current \in DecodeTask
         /\ nextId \in Nat
<1>1. \A t \in DecodeTask : t.id \in Nat /\ t.node \in Nodes /\ t # NoTask
  BY KindsDiffer DEF DecodeTask
<1>2. \A i \in DOMAIN posted : posted[i] \in Posted
  BY ElementOfSeq, LenProperties DEF TypeOK
<1>3. \A i \in DOMAIN posted : posted[i].task \in DecodeTask
  BY <1>2 DEF Posted
<1>4. \A i \in DOMAIN posted : posted[i].task.node \in Nodes /\ posted[i].task.id \in Nat
  BY <1>1, <1>3
<1> QED BY <1>1, <1>2, <1>3, <1>4 DEF TypeOK

\* The order is kept by a step that posts nothing and submits nothing: requests
\* and images only disappear.
LEMMA OrderUntouched ==
  ASSUME OrderInv, TypeOK, UNCHANGED <<posted, nextId>>,
         pc' \in DecodingPcs => pc \in DecodingPcs /\ current' = current,
         \A n \in Nodes : /\ decodingTasks'[n] \in {NoTask, decodingTasks[n]}
                          /\ holder'[n] \in {NoTask, holder[n]}
  PROVE  OrderInv'
<1>1. ImagesAreOlder'
  BY TasksAreTyped DEF OrderInv, ImagesAreOlder, Younger
<1>2. ImagesInOrder'
  <2>1. \A i, j \in DOMAIN posted' :
          i < j /\ posted'[i].task.node = posted'[j].task.node
             => posted'[i].task.id < posted'[j].task.id
    BY DEF OrderInv, ImagesInOrder
  <2>2. ASSUME NEW i \in DOMAIN posted'
        PROVE  /\ holder'[posted'[i].task.node] # NoTask
                     => holder'[posted'[i].task.node].id < posted'[i].task.id
               /\ pc' \in DecodingPcs /\ current'.node = posted'[i].task.node
                     => posted'[i].task.id < current'.id
    <3>1. posted'[i] = posted[i] /\ i \in DOMAIN posted /\ posted[i].task.node \in Nodes
      BY <2>2, TasksAreTyped
    <3>2. holder'[posted[i].task.node] \in {NoTask, holder[posted[i].task.node]}
      BY <3>1
    <3> QED BY <3>1, <3>2 DEF OrderInv, ImagesInOrder
  <2> QED BY <2>1, <2>2 DEF ImagesInOrder
<1> QED BY <1>1, <1>2 DEF OrderInv

\* Each step of the three threads keeps the images of a node in order.
LEMMA OrderStep ==
  ASSUME TypeOK, RequestInv, QueueInv, OrderInv, [Next]_vars
  PROVE  OrderInv'
<1>1. ASSUME NEW recycled \in SUBSET Nodes, NEW restarted \in SUBSET Nodes,
             NEW wanted \in SUBSET Nodes, NEW z \in Zooms,
             ApplyEvent(recycled, restarted, wanted, z),
             UNCHANGED <<nextId, pc, current, posted>>
      PROVE  OrderInv'
  <2>1. /\ \A n \in Nodes : decodingTasks'[n] \in {NoTask, decodingTasks[n]}
        /\ \A n \in Nodes : holder'[n] \in {NoTask, holder[n]}
    BY <1>1 DEF ApplyEvent, StopDecoding
  <2> QED BY <1>1, <2>1, OrderUntouched
<1>2. CASE Event
  <2>1. viewZoom \in Zooms
    BY DEF TypeOK
  <2>2. CASE Scroll
    BY <1>1, <2>1, <2>2 DEF Scroll, Blanks
  <2>3. CASE ZoomIn
    <3>1. PICK z \in Zooms \ {viewZoom}, kept \in SUBSET Nodes :
            LET outdated == {n \in kept : bitmapZoom[n] # z}
            IN  ApplyEvent(Nodes \ kept, outdated, outdated \cup Blanks(kept), z)
      BY <2>3 DEF ZoomIn
    <3> DEFINE outdated == {n \in kept : bitmapZoom[n] # z}
    <3>2. outdated \in SUBSET Nodes /\ outdated \cup Blanks(kept) \in SUBSET Nodes
      BY DEF Blanks
    <3>3. ApplyEvent(Nodes \ kept, outdated, outdated \cup Blanks(kept), z)
      BY <3>1
    <3> HIDE DEF outdated
    <3> QED BY <1>1, <2>3, <3>2, <3>3 DEF ZoomIn
  <2>4. CASE ZoomOut
    BY <1>1, <2>4 DEF ZoomOut
  <2>5. CASE Reset
    BY <1>1, <2>1, <2>5 DEF Reset
  <2> QED BY <1>2, <2>2, <2>3, <2>4, <2>5 DEF Event
<1>3. ASSUME NEW n \in Nodes, DecodePage(n)
      PROVE  OrderInv'
  <2> DEFINE t == [kind |-> "decode", id |-> nextId, node |-> n, zoom |-> viewZoom]
  <2>1. t.id = nextId /\ t.node = n /\ nextId \in Nat
    BY TasksAreTyped
  <2>2. ~isRecycled
    BY <1>3 DEF DecodePage, RequestInv, ClosingIsOrdered
  <2>3. /\ AddDecodeTask(t) /\ nextId' = nextId + 1
        /\ UNCHANGED <<posted, holder, current>>
    BY <1>3, <2>2 DEF DecodePage
  <2> HIDE DEF t
  <2>4. /\ pc' = pc \/ (pc = "waiting" /\ pc' = "loop")
        /\ decodingTasks' = decodingTasks \/ decodingTasks' = [decodingTasks EXCEPT ![n] = t]
    BY <2>1, <2>3 DEF AddDecodeTask, Notified
  <2>5. \A m \in Nodes : decodingTasks'[m] = decodingTasks[m] \/ decodingTasks'[m] = t
    BY <2>4 DEF TypeOK
  <2>6. pc' \in DecodingPcs => pc \in DecodingPcs
    BY <2>4 DEF DecodingPcs
  <2>7. \A u \in DecodeTask : u.id < nextId => u.id < nextId'
    BY <2>1, <2>3, TasksAreTyped
  <2>8. \A u : u.id < nextId => u.id < t.id
    BY <2>1
  <2>9. \A i \in DOMAIN posted' : LET u == posted'[i].task IN
           u.id < nextId' /\ Younger(u, decodingTasks'[u.node])
    BY <2>3, <2>5, <2>7, <2>8, TasksAreTyped DEF OrderInv, ImagesAreOlder, Younger
  <2>10. \A m \in Nodes : holder'[m] # NoTask =>
           /\ holder'[m].id < nextId'
           /\ Younger(holder'[m], decodingTasks'[m])
           /\ pc' \in DecodingPcs /\ current'.node = m => holder'[m].id < current'.id
    <3> SUFFICES ASSUME NEW m \in Nodes, holder[m] # NoTask
                 PROVE  /\ holder[m].id < nextId'
                        /\ Younger(holder[m], decodingTasks'[m])
                        /\ pc' \in DecodingPcs /\ current.node = m => holder[m].id < current.id
      BY <2>3
    <3>1. holder[m] \in DecodeTask
      BY TasksAreTyped
    <3>2. /\ holder[m].id < nextId
          /\ Younger(holder[m], decodingTasks[m])
          /\ pc \in DecodingPcs /\ current.node = m => holder[m].id < current.id
      BY DEF OrderInv, ImagesAreOlder
    <3> QED BY <2>5, <2>6, <2>7, <2>8, <3>1, <3>2 DEF Younger
  <2>11. ImagesAreOlder'
    BY <2>9, <2>10 DEF ImagesAreOlder
  <2>12. ImagesInOrder'
    BY <2>3, <2>6 DEF OrderInv, ImagesInOrder
  <2> QED BY <2>11, <2>12 DEF OrderInv
<1>4. CASE RunPosted
  <2> DEFINE r == Head(posted)
             n == r.task.node
  <2>1. /\ r \in Posted /\ posted \in Seq(Posted) /\ posted # <<>>
        /\ posted' = Tail(posted) /\ r = posted[1]
    BY <1>4, HeadTailProperties DEF RunPosted, TypeOK
  <2>2. r.task \in DecodeTask /\ n \in Nodes
    BY <2>1 DEF Posted, DecodeTask
  <2>3. PICK covered \in SUBSET Nodes :
          LET ended == Stopped(covered \cup {n})
          IN  /\ StopDecoding(ended \ {n})
              /\ holder' = [m \in Nodes |->
                              IF m \in covered THEN NoTask
                              ELSE IF m = n /\ r.image THEN r.task ELSE holder[m]]
    BY <1>4 DEF RunPosted
  <2>4. UNCHANGED <<nextId, pc, current>>
    BY <1>4 DEF RunPosted
  <2> HIDE DEF r
  <2>5. /\ DOMAIN posted = 1 .. Len(posted) /\ Len(posted) \in Nat
        /\ Len(posted) > 0
        /\ DOMAIN posted' = 1 .. Len(posted) - 1
        /\ \A i \in DOMAIN posted' : posted'[i] = posted[i + 1]
    BY <2>1, HeadTailProperties, LenProperties, EmptySeq
  <2>6. \A i \in DOMAIN posted' : i + 1 \in DOMAIN posted /\ 1 < i + 1 /\ i \in Nat
    BY <2>5
  <2>7. \A m \in Nodes : decodingTasks'[m] \in {NoTask, decodingTasks[m]}
    BY <2>3 DEF StopDecoding
  <2>8. \A m \in Nodes : holder'[m] \in {NoTask, holder[m]} \/ (m = n /\ holder'[m] = r.task)
    BY <2>3
  <2>9. 1 \in DOMAIN posted
    BY <2>5
  <2>10. /\ r.task.id < nextId
         /\ Younger(r.task, decodingTasks[n])
         /\ pc \in DecodingPcs /\ current.node = n => r.task.id < current.id
    BY <2>1, <2>9 DEF OrderInv, ImagesAreOlder, ImagesInOrder
  <2>11. \A i \in DOMAIN posted' : LET u == posted'[i].task IN
            u.id < nextId' /\ Younger(u, decodingTasks'[u.node])
    <3> SUFFICES ASSUME NEW i \in DOMAIN posted'
                 PROVE  /\ posted[i + 1].task.id < nextId
                        /\ Younger(posted[i + 1].task, decodingTasks'[posted[i + 1].task.node])
      BY <2>4, <2>5
    <3>1. i + 1 \in DOMAIN posted /\ posted[i + 1].task.node \in Nodes
      BY <2>6, TasksAreTyped
    <3> QED BY <2>7, <3>1 DEF OrderInv, ImagesAreOlder, Younger
  <2>12. \A m \in Nodes : holder'[m] # NoTask =>
           /\ holder'[m].id < nextId'
           /\ Younger(holder'[m], decodingTasks'[m])
           /\ pc' \in DecodingPcs /\ current'.node = m => holder'[m].id < current'.id
    <3> SUFFICES ASSUME NEW m \in Nodes, holder'[m] # NoTask
                 PROVE  /\ holder'[m].id < nextId
                        /\ Younger(holder'[m], decodingTasks'[m])
                        /\ pc \in DecodingPcs /\ current.node = m => holder'[m].id < current.id
      BY <2>4
    <3>1. CASE holder'[m] = holder[m]
      BY <2>7, <3>1 DEF OrderInv, ImagesAreOlder, Younger
    <3>2. CASE m = n /\ holder'[m] = r.task
      BY <2>7, <2>10, <3>2 DEF Younger
    <3> QED BY <2>8, <3>1, <3>2
  <2>13. ImagesAreOlder'
    BY <2>11, <2>12 DEF ImagesAreOlder
  <2>14. \A i, j \in DOMAIN posted' :
          i < j /\ posted'[i].task.node = posted'[j].task.node
             => posted'[i].task.id < posted'[j].task.id
    <3> SUFFICES ASSUME NEW i \in DOMAIN posted', NEW j \in DOMAIN posted', i < j,
                        posted[i + 1].task.node = posted[j + 1].task.node
                 PROVE  posted[i + 1].task.id < posted[j + 1].task.id
      BY <2>5
    <3>1. i + 1 \in DOMAIN posted /\ j + 1 \in DOMAIN posted /\ i + 1 < j + 1
      BY <2>6
    <3> QED BY <3>1 DEF OrderInv, ImagesInOrder
  <2>15. ASSUME NEW i \in DOMAIN posted'
         PROVE  /\ holder'[posted'[i].task.node] # NoTask
                     => holder'[posted'[i].task.node].id < posted'[i].task.id
                /\ pc' \in DecodingPcs /\ current'.node = posted'[i].task.node
                     => posted'[i].task.id < current'.id
    <3> DEFINE u == posted[i + 1].task
    <3>1. i + 1 \in DOMAIN posted /\ 1 < i + 1 /\ u.node \in Nodes /\ posted'[i].task = u
      BY <2>5, <2>6, TasksAreTyped
    <3>2. /\ holder[u.node] # NoTask => holder[u.node].id < u.id
          /\ pc \in DecodingPcs /\ current.node = u.node => u.id < current.id
      BY <3>1 DEF OrderInv, ImagesInOrder
    <3>3. u.node = n => r.task.id < u.id
      BY <2>1, <2>9, <3>1 DEF OrderInv, ImagesInOrder
    <3> HIDE DEF u
    <3> QED BY <2>4, <2>8, <3>1, <3>2, <3>3
  <2>16. ImagesInOrder'
    BY <2>14, <2>15 DEF ImagesInOrder
  <2> QED BY <2>13, <2>16 DEF OrderInv
<1>5. CASE Recycle
  <2>1. /\ UNCHANGED <<decodingTasks, nextId, current, holder, posted>>
        /\ pc' = pc \/ (pc = "waiting" /\ pc' = "loop")
    BY <1>5 DEF Recycle, Notified
  <2>2. pc' \in DecodingPcs => pc \in DecodingPcs
    BY <2>1 DEF DecodingPcs
  <2> QED BY <2>1, <2>2, OrderUntouched
<1>6. CASE RecyclePages
  <2>1. /\ UNCHANGED <<nextId, current, posted, pc>>
        /\ \A n \in Nodes : decodingTasks'[n] \in {NoTask, decodingTasks[n]}
        /\ \A n \in Nodes : holder'[n] \in {NoTask, holder[n]}
    BY <1>6 DEF RecyclePages, StopDecoding
  <2> QED BY <2>1, OrderUntouched
<1>7. CASE TakeTask
  <2>1. PICK i \in Candidates(tasks) :
          /\ current' = tasks[i]
          /\ pc' = CASE tasks[i].kind = "decode"   -> "getPage"
                     [] tasks[i].kind = "search"   -> "search"
                     [] tasks[i].kind = "shutdown" -> "shutdown"
    BY <1>7 DEF TakeTask
  <2>2. i \in Filled(tasks) /\ tasks[i] \in Task
    BY Slots DEF Candidates, Filled
  <2>3. UNCHANGED <<decodingTasks, nextId, holder, posted>>
    BY <1>7 DEF TakeTask
  <2>4. pc' \in DecodingPcs => /\ current' \in DecodeTask
                               /\ decodingTasks[current'.node] = current' /\ current' # NoTask
    <3>1. pc' \in DecodingPcs => current' \in DecodeTask
      BY <2>1, <2>2, TaskKinds DEF DecodingPcs
    <3>2. tasks[i] \in DecodeTask => decodingTasks[tasks[i].node] = tasks[i] /\ tasks[i] # NoTask
      BY <2>2, KindsDiffer DEF QueueInv, QueueMatchesMap
    <3> QED BY <2>1, <3>1, <3>2
  <2>5. ImagesAreOlder'
    BY <2>3, <2>4 DEF OrderInv, ImagesAreOlder, Younger
  <2>6. ASSUME NEW j \in DOMAIN posted', pc' \in DecodingPcs,
               current'.node = posted'[j].task.node
        PROVE  posted'[j].task.id < current'.id
    BY <2>3, <2>4, <2>6 DEF OrderInv, ImagesAreOlder, Younger
  <2>7. ImagesInOrder'
    BY <2>3, <2>6 DEF OrderInv, ImagesInOrder
  <2> QED BY <2>5, <2>7 DEF OrderInv
<1>8. CASE ClearTasks \/ FindEmpty \/ Park \/ Timeout \/ Exit \/ DropDead \/ NextStage
             \/ DecodeCompleteFails \/ RunSearch \/ RunShutdown
  <2>1. /\ UNCHANGED <<decodingTasks, nextId, holder, posted>>
        /\ pc' \in DecodingPcs => pc \in DecodingPcs /\ current' = current
    BY <1>8 DEF ClearTasks, FindEmpty, Park, Timeout, Exit, DropDead, NextStage,
                DecodeCompleteFails, RunSearch, RunShutdown, WorkerStep, DecodingPcs, Stages
  <2> QED BY <2>1, OrderUntouched
<1>9. CASE FinishDecoding
  <2>1. /\ UNCHANGED <<nextId, current, posted, holder>>
        /\ pc \in DecodingPcs
        /\ \A n \in Nodes : decodingTasks'[n] \in {NoTask, decodingTasks[n]}
    BY <1>9 DEF FinishDecoding, StopDecoding, DecodingPcs
  <2> QED BY <2>1, OrderUntouched
<1>10. CASE DecodeComplete
  <2>1. PICK image \in BOOLEAN : posted' = Append(posted, [task |-> current, image |-> image])
    BY <1>10 DEF DecodeComplete
  <2> DEFINE e == [task |-> current, image |-> image]
  <2>2. /\ UNCHANGED <<decodingTasks, nextId, holder>>
        /\ pc \in {"post", "postFailure"} /\ pc \in DecodingPcs /\ pc' \notin DecodingPcs
    BY <1>10 DEF DecodeComplete, WorkerStep, DecodingPcs
  <2>3. current \in DecodeTask /\ e \in Posted /\ e.task = current /\ posted \in Seq(Posted)
    BY <2>2 DEF TypeOK, Posted
  <2> HIDE DEF e
  <2>4. /\ Len(posted) \in Nat
        /\ DOMAIN posted = 1 .. Len(posted)
        /\ DOMAIN posted' = 1 .. Len(posted) + 1
        /\ \A i \in DOMAIN posted : posted'[i] = posted[i]
        /\ posted'[Len(posted) + 1] = e
    <3>1. posted' = Append(posted, e)
      BY <2>1 DEF e
    <3> QED BY <2>3, <3>1, AppendProperties, LenProperties
  <2>5. \A i \in DOMAIN posted' : i \in DOMAIN posted \/ i = Len(posted) + 1
    BY <2>4
  <2>6. current.id < nextId /\ Younger(current, decodingTasks[current.node])
    BY <2>2 DEF QueueInv, CurrentIsOlder
  <2>7. \A i \in DOMAIN posted' : LET u == posted'[i].task IN
           u.id < nextId' /\ Younger(u, decodingTasks'[u.node])
    BY <2>2, <2>3, <2>4, <2>5, <2>6 DEF OrderInv, ImagesAreOlder
  <2>8. ImagesAreOlder'
    BY <2>2, <2>7 DEF OrderInv, ImagesAreOlder
  <2>9. ASSUME NEW i \in DOMAIN posted', NEW j \in DOMAIN posted', i < j,
               posted'[i].task.node = posted'[j].task.node
        PROVE  posted'[i].task.id < posted'[j].task.id
    <3>1. i \in DOMAIN posted
      BY <2>4, <2>9
    <3>2. CASE j \in DOMAIN posted
      BY <2>4, <2>9, <3>1, <3>2 DEF OrderInv, ImagesInOrder
    <3>3. CASE j = Len(posted) + 1
      BY <2>2, <2>3, <2>4, <2>9, <3>1, <3>3 DEF OrderInv, ImagesInOrder
    <3> QED BY <2>5, <3>2, <3>3
  <2>10. ASSUME NEW i \in DOMAIN posted', holder'[posted'[i].task.node] # NoTask
         PROVE  holder'[posted'[i].task.node].id < posted'[i].task.id
    <3>1. CASE i \in DOMAIN posted
      BY <2>2, <2>4, <2>10, <3>1 DEF OrderInv, ImagesInOrder
    <3>2. CASE i = Len(posted) + 1
      <4>1. current.node \in Nodes
        BY <2>3, TasksAreTyped
      <4> QED BY <2>2, <2>3, <2>4, <2>10, <3>2, <4>1 DEF OrderInv, ImagesAreOlder
    <3> QED BY <2>5, <3>1, <3>2
  <2>11. ImagesInOrder'
    BY <2>2, <2>9, <2>10 DEF ImagesInOrder
  <2> QED BY <2>8, <2>11 DEF OrderInv
<1>11. CASE AddSearchTask
  <2>1. /\ UNCHANGED <<decodingTasks, nextId, current, holder, posted>>
        /\ pc' = pc \/ (pc = "waiting" /\ pc' = "loop")
    BY <1>11 DEF AddSearchTask, Notified
  <2>2. pc' \in DecodingPcs => pc \in DecodingPcs
    BY <2>1 DEF DecodingPcs
  <2> QED BY <2>1, <2>2, OrderUntouched
<1>12. CASE SearchText \/ SearchNextPage \/ UNCHANGED vars
  <2>1. UNCHANGED <<decodingTasks, nextId, current, holder, posted, pc>>
    BY <1>12 DEF SearchText, SearchNextPage, vars
  <2> QED BY <2>1, OrderUntouched
<1> QED
  BY <1>2, <1>3, <1>4, <1>5, <1>6, <1>7, <1>8, <1>9, <1>10, <1>11, <1>12
     DEF Next, Ui, Worker, Searcher

\* Initially nothing is shown or posted.
LEMMA OrderInit == Init => OrderInv
<1> SUFFICES ASSUME Init PROVE OrderInv
  OBVIOUS
<1>1. DOMAIN posted = {} /\ \A n \in Nodes : holder[n] = NoTask
  BY EmptySeq DEF Init
<1> QED BY <1>1 DEF OrderInv, ImagesAreOlder, ImagesInOrder

\* ImagesInOrder holds in every reachable state: the runnables of one node reach
\* the UI thread in the order of its requests, so an image never overwrites a
\* younger one.
THEOREM ImagesArriveInOrder == Spec => []ImagesInOrder
<1>1. Spec => [](TypeOK /\ RequestInv /\ QueueInv /\ OrderInv)
  BY TypeInit, TypeStep, RequestInit, RequestStep, QueueInit, QueueStep, OrderInit, OrderStep,
     PTL DEF Spec
<1>2. OrderInv => ImagesInOrder
  BY DEF OrderInv
<1> QED BY <1>1, <1>2, PTL

-----------------------------------------------------------------------------
(* The executor implements the pool of tasks.                               *)

\* The search thread puts each page into the list once, after the one before.
SearchesAreOnce ==
    /\ searcher.page >= 1
    /\ searcher.pc = "adding" => searcher.page <= MaxSearches
    /\ \A i \in Filled(tasks) : tasks[i] \in SearchTask =>
         /\ \/ tasks[i].page < searcher.page
            \/ tasks[i].page = searcher.page /\ searcher.pc = "waiting"
         /\ \A j \in Filled(tasks) : tasks[j] = tasks[i] => j = i

\* The shutdown enters the list once, when the document closes, and the loop
\* ends with it.
ShutdownIsOnce ==
    /\ \A i \in Filled(tasks) : tasks[i] = Shutdown =>
         /\ isRecycled
         /\ \A j \in Filled(tasks) : tasks[j] = tasks[i] => j = i
    /\ ~run => pc \in {"loop", "done"}

OnceInv == SearchesAreOnce /\ ShutdownIsOnce

\* The tasks of a step that only empties slots still are in the list once.
LEMMA OnceInFewerSlots ==
  ASSUME OnceInv,
         \A i \in Filled(tasks') : i \in Filled(tasks) /\ tasks'[i] = tasks[i],
         isRecycled => isRecycled', searcher' = searcher, run' = run,
         run \/ pc' = pc \/ pc' = "done"
  PROVE  OnceInv'
BY DEF OnceInv, SearchesAreOnce, ShutdownIsOnce

\* A critical section of stopDecoding only empties slots, of decode tasks.
LEMMA StoppedSlots ==
  ASSUME TypeOK, NEW S \in SUBSET Nodes, StopDecoding(S)
  PROVE  /\ \A i \in Filled(tasks') : i \in Filled(tasks) /\ tasks'[i] = tasks[i]
         /\ \A i \in Filled(tasks) : i \in Filled(tasks') \/ tasks[i] \in DecodeTask
<1> DEFINE removed == {decodingTasks[n] : n \in S} \ {NoTask}
<1>1. tasks' = Blank(tasks, removed)
  BY DEF StopDecoding
<1>2. removed \subseteq DecodeTask /\ NoTask \notin removed
  BY DEF TypeOK
<1> HIDE DEF removed
<1> QED BY <1>1, <1>2, BlankedSlots

\* The abstract state changes by a withdrawal, or not at all, when slots are
\* emptied of decode tasks only.
LEMMA EmptiedSlotsWithdraw ==
  ASSUME TypeOK, UNCHANGED <<current, nextId, run>>,
         \A i \in Filled(tasks') : i \in Filled(tasks) /\ tasks'[i] = tasks[i],
         \A i \in Filled(tasks) : i \in Filled(tasks') \/ tasks[i] \in DecodeTask
  PROVE  Pool!Withdraw
<1>1. Queued' \subseteq Queued
  BY DEF Queued
<1>2. \A u \in Queued \ Queued' : u \in DecodeTask
  BY DEF Queued
<1>3. \A u \in Queued \ Queued' : u.kind = "decode"
  BY <1>2 DEF DecodeTask
<1> QED BY <1>1, <1>3 DEF Pool!Withdraw

\* The end of a task is one in the pool.
LEMMA DoneStep ==
  ASSUME UNCHANGED <<tasks, nextId>>, current # NoTask, current' = NoTask,
         run' = (current # Shutdown)
  PROVE  Pool!Done
<1>1. Queued' = Queued
  BY DEF Queued, Filled
<1>2. Pool!Shutdown = Shutdown
  BY DEF Pool!Shutdown, Shutdown
<1> QED BY <1>1, <1>2 DEF Pool!Done

\* A submitted request replaces the one of its node in the pool, or is skipped.
LEMMA SubmitStep ==
  ASSUME TypeOK, MapIsByNode, IdsAreUsed, QueueInv, OnceInv, NEW n \in Nodes,
         NEW z \in Zooms, NEW t, t = [kind |-> "decode", id |-> nextId, node |-> n, zoom |-> z],
         AddDecodeTask(t), nextId' = nextId + 1,
         UNCHANGED <<current, run, isRecycled, searcher>>
  PROVE  OnceInv' /\ (Pool!Submit \/ Pool!SkipRequest)
<1> DEFINE running == decodingTasks[n]
           old == {running} \ {NoTask}
<1>1. t \in DecodeTask /\ t \in Task /\ t.node = n /\ t.id = nextId /\ t # NoTask
  BY KindsDiffer DEF DecodeTask, Task, TypeOK
<1>2. \A m \in Nodes : decodingTasks[m] # t
  BY <1>1 DEF IdsAreUsed, TypeOK
<1>3. run \/ pc' = pc
  BY DEF AddDecodeTask, Notified, OnceInv, ShutdownIsOnce
<1>4. CASE Live(running) /\ running.zoom = t.zoom
  <2>1. UNCHANGED <<tasks, pc>>
    BY <1>1, <1>4 DEF AddDecodeTask
  <2>2. Queued' = Queued
    BY <2>1 DEF Queued, Filled
  <2>3. OnceInv'
    BY <2>1, OnceInFewerSlots DEF Filled
  <2> QED BY <2>2, <2>3 DEF Pool!SkipRequest
<1>5. CASE ~(Live(running) /\ running.zoom = t.zoom)
  <2>1. tasks' = Blank(Put(tasks, t), old)
    BY <1>1, <1>5 DEF AddDecodeTask
  <2>2. t \notin old /\ NoTask \notin old /\ old \subseteq DecodeTask
    BY <1>2 DEF TypeOK
  <2>3. running # NoTask => running \in old
    OBVIOUS
  <2>4. \A u \in old : u = running /\ u.node = n
    BY DEF MapIsByNode
  <2> HIDE DEF old
  <2>5. PICK k \in Nat \ {0} :
           /\ k \notin Filled(tasks) /\ k \in Filled(tasks') /\ tasks'[k] = t
           /\ \A i : i # k => (i \in Filled(tasks') <=> i \in Filled(tasks) /\ tasks[i] \notin old)
           /\ \A i \in Filled(tasks') : i # k => tasks'[i] = tasks[i]
    BY <1>1, <2>1, <2>2, SubmittedSlots
  <2>6. OnceInv'
    <3>1. t \notin SearchTask /\ t # Shutdown
      BY <1>1, KindsDiffer
    <3>2. \A i \in Filled(tasks') : \/ tasks'[i] = t
                                    \/ i \in Filled(tasks) /\ tasks'[i] = tasks[i]
      <4> TAKE i \in Filled(tasks')
      <4>1. CASE i = k
        BY <2>5, <4>1
      <4>2. CASE i # k
        BY <2>5, <4>2
      <4> QED BY <4>1, <4>2
    <3>3. SearchesAreOnce'
      BY <3>1, <3>2 DEF OnceInv, SearchesAreOnce
    <3>4. ShutdownIsOnce'
      BY <1>3, <3>1, <3>2 DEF OnceInv, ShutdownIsOnce
    <3> QED BY <3>3, <3>4 DEF OnceInv
  <2>7. Queued' = {u \in Queued : u.kind = "decode" => u.node # n} \cup {t}
    <3>1. ASSUME NEW u \in Queued'
          PROVE  u = t \/ (u \in Queued /\ (u.kind = "decode" => u.node # n))
      <4>1. PICK i \in Filled(tasks') : tasks'[i] = u
        BY <3>1 DEF Queued
      <4>2. CASE i = k
        BY <2>5, <4>1, <4>2
      <4>3. CASE i # k
        <5>1. i \in Filled(tasks) /\ tasks[i] = u /\ u \notin old /\ u # NoTask
          BY <2>5, <4>1, <4>3 DEF Filled
        <5>2. u \in Queued /\ u \in Task
          BY <5>1, Slots DEF Queued
        <5>3. u.kind = "decode" => u \in DecodeTask /\ decodingTasks[u.node] = u
          BY <5>1, <5>2, TaskKinds DEF QueueInv, QueueMatchesMap
        <5> QED BY <2>3, <5>1, <5>2, <5>3
      <4> QED BY <4>2, <4>3
    <3>2. t \in Queued'
      BY <2>5 DEF Queued
    <3>3. ASSUME NEW u \in Queued, u.kind = "decode" => u.node # n
          PROVE  u \in Queued'
      <4>1. PICK i \in Filled(tasks) : tasks[i] = u
        BY <3>3 DEF Queued
      <4>2. u \notin old
        BY <2>2, <2>4, <3>3 DEF DecodeTask
      <4>3. i # k /\ i \in Filled(tasks') /\ tasks'[i] = u
        BY <2>5, <4>1, <4>2
      <4> QED BY <4>3 DEF Queued
    <3> QED BY <3>1, <3>2, <3>3
  <2> QED BY <2>6, <2>7 DEF Pool!Submit
<1> QED BY <1>4, <1>5

\* Closing takes all requests out of the pool and puts the shutdown in.
LEMMA CloseStep ==
  ASSUME TypeOK, RequestInv, QueueInv, OnceInv, Recycle
  PROVE  OnceInv' /\ Pool!Close
<1> DEFINE all == {decodingTasks[n] : n \in Nodes} \ {NoTask}
<1>1. /\ tasks' = Append(Blank(tasks, all), Shutdown)
      /\ UNCHANGED <<nextId, current, run, searcher>>
      /\ isRecycled' = TRUE /\ ~isRecycled
      /\ run \/ pc' = pc
  BY DEF Recycle, Notified, RequestInv, ClosingIsOrdered, OnceInv, ShutdownIsOnce
<1>2. /\ \A n \in Nodes : decodingTasks[n] # NoTask => decodingTasks[n] \in all
      /\ all \subseteq DecodeTask
  BY DEF TypeOK
<1> HIDE DEF all
<1>3. tasks \in Seq(Task \cup {NoTask})
  BY DEF TypeOK
<1>4. /\ Blank(tasks, all) \in Seq(Task \cup {NoTask})
      /\ DOMAIN Blank(tasks, all) = DOMAIN tasks
      /\ \A i \in DOMAIN tasks : Blank(tasks, all)[i] = IF tasks[i] \in all THEN NoTask ELSE tasks[i]
  BY <1>3, BlankFacts
<1>5. /\ Len(tasks) \in Nat /\ DOMAIN tasks = 1 .. Len(tasks)
      /\ Len(Blank(tasks, all)) = Len(tasks)
  BY <1>3, <1>4, LenProperties
<1> DEFINE k == Len(tasks) + 1
<1>6. /\ k \notin DOMAIN tasks
      /\ DOMAIN tasks' = DOMAIN tasks \cup {k}
      /\ tasks'[k] = Shutdown
      /\ \A i \in DOMAIN tasks : tasks'[i] = IF tasks[i] \in all THEN NoTask ELSE tasks[i]
  <2>1. Shutdown \in Task \cup {NoTask}
    BY DEF Task
  <2> QED BY <1>1, <1>4, <1>5, <2>1, AppendProperties, LenProperties
<1> HIDE DEF k
<1>7. /\ k \in Filled(tasks') /\ k \notin Filled(tasks)
      /\ \A i : i # k => (i \in Filled(tasks') <=> i \in Filled(tasks) /\ tasks[i] \notin all)
      /\ \A i \in Filled(tasks') : i # k => tasks'[i] = tasks[i]
  BY <1>2, <1>6, KindsDiffer DEF Filled
<1>8. OnceInv'
  <2>1. \A i \in Filled(tasks) : tasks[i] # Shutdown
    BY <1>1 DEF OnceInv, ShutdownIsOnce
  <2>2. Shutdown \notin SearchTask
    BY KindsDiffer
  <2>3. \A i \in Filled(tasks') : \/ i = k
                                  \/ i \in Filled(tasks) /\ tasks'[i] = tasks[i]
    <3> TAKE i \in Filled(tasks')
    <3>1. CASE i # k
      BY <1>7, <3>1
    <3> QED BY <3>1
  <2>4. SearchesAreOnce'
    <3>1. \A i \in Filled(tasks') : tasks'[i] \in SearchTask =>
             i \in Filled(tasks) /\ tasks'[i] = tasks[i]
      BY <1>6, <2>2, <2>3
    <3>2. searcher' = searcher
      BY <1>1
    <3> QED BY <3>1, <3>2 DEF OnceInv, SearchesAreOnce
  <2>5. ShutdownIsOnce'
    BY <1>1, <1>6, <2>1, <2>3 DEF OnceInv, ShutdownIsOnce
  <2> QED BY <2>4, <2>5 DEF OnceInv
<1>9. ASSUME NEW i \in Filled(tasks)
      PROVE  tasks[i] \in all <=> tasks[i].kind = "decode"
  <2>1. tasks[i] \in Task /\ tasks[i] # NoTask
    BY <1>9, Slots
  <2>2. tasks[i] \in DecodeTask => decodingTasks[tasks[i].node] = tasks[i]
    BY DEF QueueInv, QueueMatchesMap
  <2>3. tasks[i] \in DecodeTask => tasks[i] \in all
    BY <1>2, <2>1, <2>2 DEF DecodeTask
  <2> QED BY <1>2, <2>1, <2>3, TaskKinds
<1>10. Queued' = {u \in Queued : u.kind # "decode"} \cup {Shutdown}
  <2>1. ASSUME NEW u \in Queued'
        PROVE  u = Shutdown \/ (u \in Queued /\ u.kind # "decode")
    <3>1. PICK i \in Filled(tasks') : tasks'[i] = u
      BY <2>1 DEF Queued
    <3> QED BY <1>6, <1>7, <1>9, <3>1 DEF Queued
  <2>2. Shutdown \in Queued'
    BY <1>6, <1>7 DEF Queued
  <2>3. ASSUME NEW u \in Queued, u.kind # "decode"
        PROVE  u \in Queued'
    <3>1. PICK i \in Filled(tasks) : tasks[i] = u
      BY <2>3 DEF Queued
    <3>2. i # k /\ i \in Filled(tasks') /\ tasks'[i] = u
      BY <1>7, <1>9, <2>3, <3>1
    <3> QED BY <3>2 DEF Queued
  <2> QED BY <2>1, <2>2, <2>3
<1>11. Pool!Shutdown = Shutdown
  BY DEF Pool!Shutdown, Shutdown
<1> QED BY <1>1, <1>8, <1>10, <1>11 DEF Pool!Close

\* The worker takes a task of the highest rank, and it is gone from the pool:
\* no other slot holds it.
LEMMA TakeStep ==
  ASSUME TypeOK, QueueInv, OnceInv, TakeTask
  PROVE  OnceInv' /\ Pool!Take
<1>1. PICK i \in Candidates(tasks) :
        /\ current' = tasks[i]
        /\ tasks' = [tasks EXCEPT ![i] = NoTask]
  BY DEF TakeTask
<1>2. /\ UNCHANGED <<nextId, run, isRecycled, searcher>>
      /\ run /\ current = NoTask
  BY DEF TakeTask, QueueInv, WorkerHolds
<1>3. /\ i \in Filled(tasks) /\ i \in DOMAIN tasks /\ tasks[i] \in Task /\ tasks[i] # NoTask
      /\ \A j \in Filled(tasks) : Priority(tasks[i]) <= Priority(tasks[j])
  BY Slots DEF Candidates
<1>4. /\ \A j : j \in Filled(tasks') <=> j \in Filled(tasks) /\ j # i
      /\ \A j \in Filled(tasks') : tasks'[j] = tasks[j]
  BY <1>1, <1>3 DEF Filled
<1>5. OnceInv'
  BY <1>2, <1>4, OnceInFewerSlots
<1>6. \A u \in Queued : Pool!Rank(tasks[i]) <= Pool!Rank(u)
  <2> SUFFICES ASSUME NEW j \in Filled(tasks)
               PROVE  Pool!Rank(tasks[i]) <= Pool!Rank(tasks[j])
    BY DEF Queued
  <2>1. tasks[j] \in Task /\ Priority(tasks[i]) <= Priority(tasks[j])
    BY <1>3, Slots
  <2> QED BY <1>3, <2>1, TaskKinds DEF Priority, Pool!Rank
<1>7. ASSUME NEW j \in Filled(tasks), tasks[j] = tasks[i]
      PROVE  j = i
  <2>1. CASE tasks[i] \in DecodeTask
    BY <1>3, <1>7, <2>1 DEF QueueInv, QueueMatchesMap
  <2>2. CASE tasks[i] \in SearchTask
    BY <1>3, <1>7, <2>2 DEF OnceInv, SearchesAreOnce
  <2>3. CASE tasks[i] = Shutdown
    BY <1>3, <1>7, <2>3 DEF OnceInv, ShutdownIsOnce
  <2> QED BY <1>3, <2>1, <2>2, <2>3 DEF Task
<1>8. Queued' = Queued \ {tasks[i]}
  BY <1>4, <1>7 DEF Queued
<1>9. tasks[i] \in Queued
  BY <1>3 DEF Queued
<1> QED BY <1>1, <1>2, <1>5, <1>6, <1>8, <1>9 DEF Pool!Take

\* The search puts its page into the pool.
LEMMA AskStep ==
  ASSUME TypeOK, OnceInv, AddSearchTask
  PROVE  OnceInv' /\ Pool!Ask
<1> DEFINE t == [kind |-> "search", page |-> searcher.page]
<1>1. t \in SearchTask /\ t \in Task /\ t.page = searcher.page
  BY DEF SearchTask, Task, TypeOK
<1>2. searcher.page \in 1 .. MaxSearches /\ searcher.pc = "adding"
  BY MaxSearchesAssumption DEF AddSearchTask, OnceInv, SearchesAreOnce, TypeOK
<1>3. /\ tasks' = Put(tasks, t)
      /\ searcher'.pc = "waiting" /\ searcher'.page = searcher.page
      /\ run \/ pc' = pc
      /\ UNCHANGED <<nextId, current, run, isRecycled>>
  BY DEF AddSearchTask, Notified, OnceInv, ShutdownIsOnce, TypeOK
<1>4. t \notin DecodeTask /\ t # Shutdown /\ t # NoTask
  BY <1>1, KindsDiffer
<1> HIDE DEF t
<1>5. tasks \in Seq(Task \cup {NoTask})
  BY DEF TypeOK
<1>6. PICK k \in Nat \ {0} :
          /\ DOMAIN Put(tasks, t) = DOMAIN tasks \cup {k}
          /\ Put(tasks, t)[k] = t
          /\ k \in DOMAIN tasks => tasks[k] = NoTask
          /\ \A i \in DOMAIN tasks \ {k} : Put(tasks, t)[i] = tasks[i]
  BY <1>1, <1>5, PutFacts
<1>7. /\ Filled(tasks') = Filled(tasks) \cup {k}
      /\ k \notin Filled(tasks)
      /\ tasks'[k] = t
      /\ \A i \in Filled(tasks) : i # k /\ tasks'[i] = tasks[i]
  BY <1>3, <1>4, <1>6 DEF Filled
<1>8. \A i \in Filled(tasks) : tasks[i] \in SearchTask => tasks[i].page < searcher.page
  BY <1>2 DEF OnceInv, SearchesAreOnce
<1>9. SearchesAreOnce'
  <2>1. \A i \in Filled(tasks) : tasks[i] # t
    <3>1. ~(searcher.page < searcher.page)
      BY <1>2
    <3> QED BY <1>1, <1>8, <3>1
  <2>2. searcher'.page >= 1
    BY <1>2, <1>3
  <2> QED BY <1>1, <1>3, <1>7, <1>8, <2>1, <2>2 DEF OnceInv, SearchesAreOnce
<1>10. ShutdownIsOnce'
  BY <1>3, <1>4, <1>7 DEF OnceInv, ShutdownIsOnce
<1>11. Queued' = Queued \cup {t}
  BY <1>7 DEF Queued
<1> QED BY <1>2, <1>3, <1>9, <1>10, <1>11 DEF Pool!Ask, OnceInv, t

\* Each step of the three threads is a step of the pool or leaves it as it is.
LEMMA PoolStep ==
  ASSUME TypeOK, RequestInv, QueueInv, OnceInv, [Next]_vars
  PROVE  OnceInv' /\ [Pool!Next]_(Pool!vars)
<1>1. ASSUME NEW S \in SUBSET Nodes, StopDecoding(S),
             UNCHANGED <<nextId, isRecycled, run, pc, current, searcher>>
      PROVE  OnceInv' /\ Pool!Withdraw
  <2>1. /\ \A i \in Filled(tasks') : i \in Filled(tasks) /\ tasks'[i] = tasks[i]
        /\ \A i \in Filled(tasks) : i \in Filled(tasks') \/ tasks[i] \in DecodeTask
    BY <1>1, StoppedSlots
  <2> QED BY <1>1, <2>1, OnceInFewerSlots, EmptiedSlotsWithdraw
<1>2. CASE Event
  <2>1. PICK recycled \in SUBSET Nodes, restarted \in SUBSET Nodes,
             wanted \in SUBSET Nodes, z \in Zooms :
           ApplyEvent(recycled, restarted, wanted, z)
    <3>1. viewZoom \in Zooms
      BY DEF TypeOK
    <3>2. CASE Scroll
      BY <3>1, <3>2 DEF Scroll, Blanks
    <3>3. CASE ZoomIn
      <4>1. PICK z \in Zooms \ {viewZoom}, kept \in SUBSET Nodes :
              LET outdated == {n \in kept : bitmapZoom[n] # z}
              IN  ApplyEvent(Nodes \ kept, outdated, outdated \cup Blanks(kept), z)
        BY <3>3 DEF ZoomIn
      <4> DEFINE outdated == {n \in kept : bitmapZoom[n] # z}
      <4>2. outdated \in SUBSET Nodes /\ outdated \cup Blanks(kept) \in SUBSET Nodes
        BY DEF Blanks
      <4>3. ApplyEvent(Nodes \ kept, outdated, outdated \cup Blanks(kept), z)
        BY <4>1
      <4> HIDE DEF outdated
      <4> QED BY <4>2, <4>3
    <3>4. CASE ZoomOut
      BY <3>4 DEF ZoomOut
    <3>5. CASE Reset
      BY <3>1, <3>5 DEF Reset
    <3> QED BY <1>2, <3>2, <3>3, <3>4, <3>5 DEF Event
  <2>2. Stopped(recycled \cup restarted) \in SUBSET Nodes
    BY DEF Stopped
  <2>3. UNCHANGED <<nextId, isRecycled, run, pc, current, searcher>>
    BY <1>2 DEF Event, Scroll, ZoomIn, ZoomOut, Reset
  <2> QED BY <1>1, <2>1, <2>2, <2>3 DEF ApplyEvent, Pool!Next
<1>3. ASSUME NEW n \in Nodes, DecodePage(n)
      PROVE  OnceInv' /\ [Pool!Next]_(Pool!vars)
  <2> DEFINE t == [kind |-> "decode", id |-> nextId, node |-> n, zoom |-> viewZoom]
  <2>1. ~isRecycled /\ viewZoom \in Zooms
    BY <1>3 DEF DecodePage, RequestInv, ClosingIsOrdered, TypeOK
  <2>2. /\ AddDecodeTask(t) /\ nextId' = nextId + 1
        /\ UNCHANGED <<current, run, isRecycled, searcher>>
    BY <1>3, <2>1 DEF DecodePage
  <2>3. OnceInv' /\ (Pool!Submit \/ Pool!SkipRequest)
    BY <2>1, <2>2, SubmitStep DEF RequestInv
  <2> QED BY <2>3 DEF Pool!Next
<1>4. CASE RunPosted
  <2>1. PICK covered \in SUBSET Nodes :
          LET ended == Stopped(covered \cup {Head(posted).task.node})
          IN  StopDecoding(ended \ {Head(posted).task.node})
    BY <1>4 DEF RunPosted
  <2>2. Head(posted).task.node \in Nodes
    BY <1>4, HeadIsPosted DEF RunPosted
  <2>3. Stopped(covered \cup {Head(posted).task.node}) \in SUBSET Nodes
    BY <2>2 DEF Stopped
  <2>4. UNCHANGED <<nextId, isRecycled, run, pc, current, searcher>>
    BY <1>4 DEF RunPosted
  <2> QED BY <1>1, <2>1, <2>3, <2>4 DEF Pool!Next
<1>5. CASE Recycle
  BY <1>5, CloseStep DEF Pool!Next
<1>6. CASE RecyclePages
  <2>1. Stopped(Nodes) \in SUBSET Nodes
    BY DEF Stopped
  <2> QED BY <1>1, <1>6, <2>1 DEF RecyclePages, Pool!Next
<1>7. CASE TakeTask
  BY <1>7, TakeStep DEF Pool!Next
<1>8. CASE ClearTasks
  <2>1. /\ Filled(tasks) = {} /\ Filled(tasks') = {}
        /\ UNCHANGED <<nextId, isRecycled, run, pc, current, searcher>>
    BY <1>8 DEF ClearTasks, Filled
  <2>2. Pool!Withdraw
    BY <2>1, EmptiedSlotsWithdraw
  <2>3. OnceInv'
    BY <2>1, OnceInFewerSlots
  <2> QED BY <2>2, <2>3 DEF Pool!Next
<1>9. CASE FindEmpty \/ Park \/ Timeout \/ Exit \/ NextStage \/ DecodeCompleteFails
  <2>1. /\ UNCHANGED <<tasks, nextId, isRecycled, run, current, searcher>>
        /\ run \/ pc' = "done"
    BY <1>9 DEF FindEmpty, Park, Timeout, Exit, NextStage, DecodeCompleteFails, WorkerStep, Stages,
                OnceInv, ShutdownIsOnce
  <2>2. OnceInv'
    BY <2>1, OnceInFewerSlots DEF Filled
  <2>3. Queued' = Queued
    BY <2>1 DEF Queued, Filled
  <2> QED BY <2>1, <2>2, <2>3 DEF Pool!vars
<1>10. CASE DropDead \/ DecodeComplete \/ RunSearch
  <2>1. /\ UNCHANGED <<tasks, nextId, isRecycled, run>>
        /\ current' = NoTask
        /\ searcher'.pc = searcher.pc /\ searcher'.page = searcher.page
        /\ pc \in DecodingPcs \cup {"search"}
    BY <1>10 DEF DropDead, DecodeComplete, RunSearch, WorkerStep, Stages, DecodingPcs, TypeOK
  <2>2. run = TRUE
    BY <2>1 DEF OnceInv, ShutdownIsOnce, DecodingPcs, TypeOK
  <2>3. current # NoTask /\ current # Shutdown
    BY <2>1, KindsDiffer DEF TypeOK, QueueInv, WorkerHolds
  <2>4. Pool!Done
    BY <2>1, <2>2, <2>3, DoneStep
  <2>5. OnceInv'
    BY <2>1, <2>2 DEF OnceInv, SearchesAreOnce, ShutdownIsOnce, Filled
  <2> QED BY <2>4, <2>5 DEF Pool!Next
<1>11. CASE RunShutdown
  <2>1. /\ UNCHANGED <<tasks, nextId, isRecycled, searcher>>
        /\ current = Shutdown /\ current' = NoTask
        /\ run' = FALSE /\ pc' = "loop"
    BY <1>11 DEF RunShutdown, QueueInv, WorkerHolds
  <2>2. Pool!Done
    BY <2>1, KindsDiffer, DoneStep
  <2>3. OnceInv'
    BY <2>1 DEF OnceInv, SearchesAreOnce, ShutdownIsOnce, Filled
  <2> QED BY <2>2, <2>3 DEF Pool!Next
<1>12. CASE FinishDecoding
  <2>1. /\ pc \in DecodingPcs /\ pc \notin {"loop", "done"}
        /\ StopDecoding({current.node})
        /\ UNCHANGED <<nextId, isRecycled, run, current, searcher>>
    BY <1>12 DEF FinishDecoding, DecodingPcs
  <2>2. current.node \in Nodes
    BY <2>1 DEF TypeOK, DecodeTask
  <2>3. /\ \A i \in Filled(tasks') : i \in Filled(tasks) /\ tasks'[i] = tasks[i]
        /\ \A i \in Filled(tasks) : i \in Filled(tasks') \/ tasks[i] \in DecodeTask
    BY <2>1, <2>2, StoppedSlots
  <2>4. run
    BY <2>1 DEF OnceInv, ShutdownIsOnce
  <2> QED BY <2>1, <2>3, <2>4, OnceInFewerSlots, EmptiedSlotsWithdraw DEF Pool!Next
<1>13. CASE AddSearchTask
  BY <1>13, AskStep DEF Pool!Next
<1>14. CASE SearchText \/ SearchNextPage
  <2>1. UNCHANGED <<tasks, nextId, isRecycled, run, pc, current>>
    BY <1>14 DEF SearchText, SearchNextPage
  <2>2. /\ searcher.page \in Nat /\ searcher'.page \in {searcher.page, searcher.page + 1}
        /\ \/ searcher.pc = "idle" /\ searcher'.page = searcher.page
              /\ searcher.page <= MaxSearches
           \/ searcher'.page = searcher.page + 1 /\ searcher'.pc = "idle"
    BY <1>14 DEF SearchText, SearchNextPage, TypeOK
  <2>3. \A i \in Filled(tasks) : tasks[i] \in SearchTask => tasks[i].page \in Nat
    BY DEF SearchTask
  <2>4. SearchesAreOnce'
    BY <2>1, <2>2, <2>3, MaxSearchesAssumption DEF OnceInv, SearchesAreOnce, Filled
  <2>5. ShutdownIsOnce'
    BY <2>1 DEF OnceInv, ShutdownIsOnce, Filled
  <2>6. Queued' = Queued
    BY <2>1 DEF Queued, Filled
  <2> QED BY <2>1, <2>4, <2>5, <2>6 DEF Pool!vars, OnceInv
<1>15. CASE UNCHANGED vars
  <2>1. OnceInv'
    BY <1>15, OnceInFewerSlots DEF vars, Filled
  <2>2. Queued' = Queued
    BY <1>15 DEF vars, Queued, Filled
  <2> QED BY <1>15, <2>1, <2>2 DEF vars, Pool!vars
<1> QED
  BY <1>2, <1>3, <1>4, <1>5, <1>6, <1>7, <1>8, <1>9, <1>10, <1>11, <1>12, <1>13, <1>14, <1>15
     DEF Next, Ui, Worker, Searcher

\* The empty list is the empty pool.
LEMMA PoolInit == Init => OnceInv /\ Pool!Init
<1> SUFFICES ASSUME Init PROVE OnceInv /\ Pool!Init
  OBVIOUS
<1>1. Filled(tasks) = {}
  BY DEF Init, Filled
<1>2. OnceInv
  BY <1>1 DEF Init, OnceInv, SearchesAreOnce, ShutdownIsOnce
<1>3. Queued = {}
  BY <1>1 DEF Queued
<1> QED BY <1>2, <1>3 DEF Init, Pool!Init

\* The list of slots with its holes, the map and the flags implement the pool of
\* tasks, step by step: no request is executed twice or after a younger one has
\* replaced it, and nothing is executed after the shutdown.
THEOREM ExecutorImplementsPool == Spec => Pool!Spec
<1>1. Init => TypeOK /\ RequestInv /\ QueueInv /\ OnceInv /\ Pool!Init
  BY TypeInit, RequestInit, QueueInit, PoolInit
<1>2. TypeOK /\ RequestInv /\ QueueInv /\ OnceInv /\ [Next]_vars
        => TypeOK' /\ RequestInv' /\ QueueInv' /\ OnceInv' /\ [Pool!Next]_(Pool!vars)
  BY TypeStep, RequestStep, QueueStep, PoolStep
<1> QED BY <1>1, <1>2, PTL DEF Spec, Pool!Spec
=============================================================================
