--------------------------- MODULE BitmapPoolProofs ---------------------------
(***************************************************************************)
(* Theorems about the bitmap manager and its users.                        *)
(*                                                                         *)
(* Types need to know that only bitmaps that were created are about        *)
(* (OnlyCreated) and what a thread gets a bitmap for (WantTells).  That a  *)
(* bitmap has one owner is stated owner by owner (Exclusive): the places   *)
(* it can be in exclude each other, and a thread that is about to take a   *)
(* bitmap out of the pool finds it nowhere else (PickedIsFree).            *)
(*                                                                         *)
(* That no bitmap slips out of the manager or is forgotten in its map      *)
(* holds on any number of threads.  The counters, the limit and the life   *)
(* of what is in use rest on the worker being alone with the pool          *)
(* (AloneInv): between picking a bitmap and taking it out nothing happens. *)
(***************************************************************************)
EXTENDS BitmapPool, FiniteSetTheorems, SequenceTheorems, TLAPS

Phases == {"age", "ageAll", "remove", "drain", "shrink", "shrinkAll"}
Runnable == [node : Nodes, texture : Textures]
Known == created \cup {NoRef}

BagTypes == pool \in [Refs -> Nat] /\ releasing \in [Refs \cup Textures -> Nat]

CountTypes ==
    /\ memoryUsed \in Int /\ memoryPooled \in Int
    /\ age \in [Refs -> 0 .. Threshold + 1]

TodoTypes == todo \in [Threads -> Seq(Phases)]

\* A thread iterates over the pool and a thread has a use for what it gets.
ThreadTypes ==
    /\ picked \in [Threads -> Refs \cup {NoRef}]
    /\ want \in [Threads -> {"none", "page", "part", "image"}]

\* The UI thread gets bitmaps for animations only, the worker for the page and
\* for the texture in hand, and nobody while he releases.
WantTells ==
    /\ want["ui"] \in {"none", "image"}
    /\ want["worker"] \in {"none", "page", "part"}
    /\ want["worker"] = "page" => stage = "rendered"
    /\ want["worker"] = "part" => stage \in {"new", "reuse"}
    /\ \A t \in Threads : todo[t] # <<>> => want[t] = "none"

StageTypes ==
    /\ holder \in [Nodes -> Textures \cup {NoTexture}]
    /\ posted \in Seq(Runnable)
    /\ stage \in {"idle", "render", "rendered", "new", "reuse", "clearing"}
    /\ node \in Nodes \cup {NoNode}
    /\ texture \in Textures \cup {NoTexture}
    /\ stage = "idle" <=> node = NoNode
    /\ stage \in {"idle", "render"} => texture = NoTexture
    /\ stage \in {"new", "reuse"} => texture \in Textures

RefTypes ==
    /\ used \subseteq created /\ live \subseteq created /\ created \subseteq Refs
    /\ parts \in [Textures -> Known]
    /\ page \in Known /\ image \in Known
    /\ stage \in {"idle", "render"} => page = NoRef
    /\ stage = "rendered" /\ want["worker"] = "none" => page # NoRef
    /\ leaked \subseteq Refs

\* What is pooled, queued or picked was created.
OnlyCreated ==
    /\ \A r \in Refs : pool[r] > 0 \/ releasing[r] > 0 => r \in created
    /\ \A t \in Threads : picked[t] \in Known

PoolInv ==
    /\ BagTypes /\ CountTypes /\ TodoTypes /\ ThreadTypes
    /\ WantTells /\ StageTypes /\ RefTypes /\ OnlyCreated

\* The pool, the queue, the worker's page and the textures exclude each other.
Exclusive ==
    /\ \A r \in Refs :
          /\ pool[r] <= 1 /\ releasing[r] <= 1
          /\ pool[r] > 0 => releasing[r] = 0
          /\ page = r => pool[r] = 0 /\ releasing[r] = 0
    /\ \A x \in Textures : parts[x] # NoRef =>
          /\ pool[parts[x]] = 0 /\ releasing[parts[x]] = 0
          /\ page # parts[x]
          /\ \A y \in Textures : parts[y] = parts[x] => y = x

\* The bitmap the worker is about to take is in the pool or has been recycled,
\* and so nowhere else.
PickedIsFree ==
    Getting("worker") /\ picked["worker"] # NoRef =>
        /\ releasing[picked["worker"]] = 0
        /\ page # picked["worker"]
        /\ \A x \in Textures : parts[x] # picked["worker"]

\* Without page animations the UI thread gets no bitmap.
NoImage == image = NoRef /\ want["ui"] = "none"

OwnerInv == Exclusive /\ PickedIsFree /\ NoImage

-----------------------------------------------------------------------------
(* Types.                                                                   *)

\* One more or one less in a bag.
LEMMA BagChange ==
  ASSUME BagTypes
  PROVE  /\ \A r \in Refs : Plus(pool, r) \in [Refs -> Nat] /\ Minus(pool, r) \in [Refs -> Nat]
         /\ \A e \in Refs \cup Textures :
               /\ Plus(releasing, e) \in [Refs \cup Textures -> Nat]
               /\ Minus(releasing, e) \in [Refs \cup Textures -> Nat]
BY DEF BagTypes, Plus, Minus

\* The queue stays a bag when every node gives up its texture.
LEMMA RecycledBag ==
  ASSUME BagTypes, RecyclePages
  PROVE  releasing' \in [Refs \cup Textures -> Nat]
<1>1. releasing \in [Refs \cup Textures -> Nat] /\ DOMAIN releasing = Refs \cup Textures
  BY DEF BagTypes
<1>2. releasing' = [e \in Refs \cup Textures |->
                       releasing[e] + Cardinality({n \in Nodes : holder[n] = e})]
  BY <1>1 DEF RecyclePages
<1>3. ASSUME NEW e \in Refs \cup Textures
      PROVE  releasing[e] + Cardinality({n \in Nodes : holder[n] = e}) \in Nat
  <2>1. Cardinality({n \in Nodes : holder[n] = e}) \in Nat
    BY NodesAssumption, FS_Subset, FS_CardinalityType
  <2> QED BY <1>1, <2>1
<1> QED BY <1>2, <1>3

\* The bags stay bags.
LEMMA BagStep == PoolInv /\ [Next]_vars => BagTypes'
<1> USE RefsAssumption, TexturesAssumption, NodesAssumption, BoundsAssumption
    DEF PoolInv, Threads, BagTypes, RefTypes, ThreadTypes, StageTypes, Runnable, Known,
        manager, threads, worker
<1> SUFFICES ASSUME PoolInv, [Next]_vars PROVE BagTypes'
  OBVIOUS
<1>1. ASSUME NEW t \in Threads, Pick(t) PROVE BagTypes'
  BY <1>1, BagChange DEF Pick, Getting, Pooled
<1>2. ASSUME NEW t \in Threads, Take(t) PROVE BagTypes'
  BY <1>2, BagChange DEF Take, Getting, Deliver, Minus
<1>3. ASSUME NEW t \in Threads, Create(t) PROVE BagTypes'
  BY <1>3, BagChange DEF Create, Getting, Deliver
<1>4. ASSUME NEW t \in Threads, Age(t) PROVE BagTypes'
  BY <1>4, BagChange DEF Age, At, NextPhase
<1>5. ASSUME NEW t \in Threads, PickOld(t) PROVE BagTypes'
  BY <1>5, BagChange DEF PickOld, At, Pooled
<1>6. ASSUME NEW t \in Threads, DropOld(t) PROVE BagTypes'
  BY <1>6, BagChange DEF DropOld, At, Minus
<1>7. ASSUME NEW t \in Threads, EndRemove(t) PROVE BagTypes'
  BY <1>7, BagChange DEF EndRemove, At, NextPhase
<1>8. ASSUME NEW t \in Threads, DrainRef(t) PROVE BagTypes'
  <2> PICK r \in Refs : releasing' = Minus(releasing, r) /\ pool' = Plus(pool, r)
    BY <1>8 DEF DrainRef, ReleaseImpl
  <2> QED BY BagChange
<1>9. ASSUME NEW t \in Threads, DrainTexture(t) PROVE BagTypes'
  <2> PICK x \in Textures :
          /\ releasing' = Minus(releasing, x)
          /\ pool' = pool \/ (parts[x] # NoRef /\ pool' = Plus(pool, parts[x]))
    BY <1>9 DEF DrainTexture, ReleaseImpl
  <2>1. parts[x] # NoRef => parts[x] \in Refs
    OBVIOUS
  <2>2. pool' \in [Refs -> Nat]
    BY <2>1, BagChange
  <2>3. releasing' \in [Refs \cup Textures -> Nat]
    BY BagChange
  <2> QED BY <2>2, <2>3
<1>10. ASSUME NEW t \in Threads, EndDrain(t) PROVE BagTypes'
  BY <1>10, BagChange DEF EndDrain, At, NextPhase
<1>11. ASSUME NEW t \in Threads, Shrink(t) PROVE BagTypes'
  <2>1. releasing' = releasing /\ (pool' = pool \/ \E r \in Refs : pool' = Minus(pool, r))
    BY <1>11 DEF Shrink, ShrinkTo, Pooled
  <2>2. CASE pool' = pool
    BY <2>1, <2>2
  <2>3. ASSUME NEW r \in Refs, pool' = Minus(pool, r) PROVE pool' \in [Refs -> Nat]
    BY <2>3, BagChange
  <2> QED BY <2>1, <2>2, <2>3
<1>12. ASSUME NEW n \in Nodes, TakeTask(n) PROVE BagTypes'
  BY <1>12, BagChange DEF TakeTask, WorkerAt, Free
<1>13. ASSUME Render PROVE BagTypes'
  BY <1>13, BagChange DEF Render, WorkerAt, Free
<1>14. ASSUME Abort PROVE BagTypes'
  BY <1>14, BagChange DEF Abort, WorkerAt, Free, EndWith, Queued, Plus
<1>15. ASSUME Fail PROVE BagTypes'
  BY <1>15, BagChange DEF Fail, WorkerAt, Free, EndWith
<1>16. ASSUME NewTexture PROVE BagTypes'
  BY <1>16, BagChange DEF NewTexture, WorkerAt, Free
<1>17. ASSUME ReuseTexture PROVE BagTypes'
  <2> DEFINE old == parts[holder[node]]
  <2>1. holder[node] \in Textures
    BY <1>17 DEF ReuseTexture, WorkerAt
  <2>2. pool' = pool
    BY <1>17 DEF ReuseTexture
  <2>3. releasing' = releasing \/ (old # NoRef /\ releasing' = Plus(releasing, old))
    BY <1>17 DEF ReuseTexture, Queued
  <2>4. old # NoRef => old \in Refs \cup Textures
    BY <2>1
  <2>5. releasing' \in [Refs \cup Textures -> Nat]
    <3>1. CASE releasing' = releasing
      BY <3>1
    <3>2. CASE old # NoRef /\ releasing' = Plus(releasing, old)
      BY <2>4, <3>2, BagChange
    <3> QED BY <2>3, <3>1, <3>2
  <2> QED BY <2>2, <2>5
<1>18. ASSUME Finish PROVE BagTypes'
  BY <1>18, BagChange DEF Finish, Free, EndWith, Queued, Plus
<1>19. ASSUME OutOfMemory PROVE BagTypes'
  BY <1>19, BagChange DEF OutOfMemory, Getting
<1>20. ASSUME EndClear PROVE BagTypes'
  BY <1>20, BagChange DEF EndClear, WorkerAt, Free, EndWith, Queued, Plus
<1>21. ASSUME RunPosted PROVE BagTypes'
  <2>1. Head(posted) \in Runnable
    BY <1>21, HeadTailProperties DEF RunPosted
  <2>2. holder[Head(posted).node] \in Textures \cup {NoTexture}
    BY <2>1
  <2>3. pool' = pool
    BY <1>21 DEF RunPosted
  <2>4. releasing' = releasing \/ \E x \in Textures : releasing' = Plus(releasing, x)
    BY <1>21, <2>2 DEF RunPosted, QueuedTexture
  <2>5. releasing' \in [Refs \cup Textures -> Nat]
    <3>1. CASE releasing' = releasing
      BY <3>1
    <3>2. CASE \E x \in Textures : releasing' = Plus(releasing, x)
      <4> PICK x \in Textures : releasing' = Plus(releasing, x)
        BY <3>2
      <4>1. Plus(releasing, x) \in [Refs \cup Textures -> Nat]
        BY BagChange
      <4> QED BY <4>1
    <3> QED BY <2>4, <3>1, <3>2
  <2> QED BY <2>3, <2>5
<1>22. ASSUME NEW n \in Nodes, RecycleNode(n) PROVE BagTypes'
  <2>1. pool' = pool /\ releasing' = Plus(releasing, holder[n]) /\ holder[n] \in Textures
    BY <1>22 DEF RecycleNode
  <2> QED BY <2>1, BagChange
<1>23. ASSUME RecyclePages PROVE BagTypes'
  <2>1. pool' = pool
    BY <1>23 DEF RecyclePages
  <2>2. releasing' \in [Refs \cup Textures -> Nat]
    BY <1>23, RecycledBag
  <2> QED BY <2>1, <2>2
<1>24. ASSUME DrawImage PROVE BagTypes'
  BY <1>24, BagChange DEF DrawImage, Free, Queued, Plus
<1>25. ASSUME DropImage PROVE BagTypes'
  BY <1>25, BagChange DEF DropImage, Free, Queued, Plus
<1>26. ASSUME NEW x \in Textures, FinalizeTexture(x) PROVE BagTypes'
  BY <1>26, BagChange DEF FinalizeTexture, Queued, Plus
<1>27. ASSUME UNCHANGED vars PROVE BagTypes'
  BY <1>27, BagChange DEF vars
<1> QED
  BY <1>1, <1>2, <1>3, <1>4, <1>5, <1>6, <1>7, <1>8, <1>9,
     <1>10, <1>11, <1>12, <1>13, <1>14, <1>15, <1>16, <1>17, <1>18,
     <1>19, <1>20, <1>21, <1>22, <1>23, <1>24, <1>25, <1>26, <1>27
  DEF Next, GetBitmap, Release

\* The counters and ages keep their types.
LEMMA CountStep == PoolInv /\ [Next]_vars => CountTypes'
<1> USE RefsAssumption, TexturesAssumption, NodesAssumption, BoundsAssumption
    DEF PoolInv, Threads, CountTypes, RefTypes, ThreadTypes, Known, manager, threads,
        worker
<1> SUFFICES ASSUME PoolInv, [Next]_vars PROVE CountTypes'
  OBVIOUS
<1>1. ASSUME NEW t \in Threads, Pick(t) PROVE CountTypes'
  BY <1>1 DEF Pick, Getting, Pooled
<1>2. ASSUME NEW t \in Threads, Take(t) PROVE CountTypes'
  BY <1>2 DEF Take, Getting, Deliver, Minus
<1>3. ASSUME NEW t \in Threads, Create(t) PROVE CountTypes'
  BY <1>3 DEF Create, Getting, Deliver
<1>4. ASSUME NEW t \in Threads, Age(t) PROVE CountTypes'
  BY <1>4 DEF Age, At, NextPhase
<1>5. ASSUME NEW t \in Threads, PickOld(t) PROVE CountTypes'
  BY <1>5 DEF PickOld, At, Pooled
<1>6. ASSUME NEW t \in Threads, DropOld(t) PROVE CountTypes'
  BY <1>6 DEF DropOld, At, Minus
<1>7. ASSUME NEW t \in Threads, EndRemove(t) PROVE CountTypes'
  BY <1>7 DEF EndRemove, At, NextPhase
<1>8. ASSUME NEW t \in Threads, DrainRef(t) PROVE CountTypes'
  BY <1>8 DEF DrainRef, At, ReleaseImpl, Plus, Minus
<1>9. ASSUME NEW t \in Threads, DrainTexture(t) PROVE CountTypes'
  BY <1>9 DEF DrainTexture, At, ReleaseImpl, Plus, Minus
<1>10. ASSUME NEW t \in Threads, EndDrain(t) PROVE CountTypes'
  BY <1>10 DEF EndDrain, At, NextPhase
<1>11. ASSUME NEW t \in Threads, Shrink(t) PROVE CountTypes'
  BY <1>11, SMTT(30) DEF Shrink, At, ShrinkTo, TooMuch, NextPhase, Pooled, Minus
<1>12. ASSUME NEW n \in Nodes, TakeTask(n) PROVE CountTypes'
  BY <1>12 DEF TakeTask, WorkerAt, Free
<1>13. ASSUME Render PROVE CountTypes'
  BY <1>13 DEF Render, WorkerAt, Free
<1>14. ASSUME Abort PROVE CountTypes'
  BY <1>14 DEF Abort, WorkerAt, Free, EndWith, Queued, Plus
<1>15. ASSUME Fail PROVE CountTypes'
  BY <1>15 DEF Fail, WorkerAt, Free, EndWith
<1>16. ASSUME NewTexture PROVE CountTypes'
  BY <1>16 DEF NewTexture, WorkerAt, Free
<1>17. ASSUME ReuseTexture PROVE CountTypes'
  BY <1>17 DEF ReuseTexture, WorkerAt, Free, Queued, Plus
<1>18. ASSUME Finish PROVE CountTypes'
  BY <1>18 DEF Finish, Free, EndWith, Queued, Plus
<1>19. ASSUME OutOfMemory PROVE CountTypes'
  BY <1>19 DEF OutOfMemory, Getting
<1>20. ASSUME EndClear PROVE CountTypes'
  BY <1>20 DEF EndClear, WorkerAt, Free, EndWith, Queued, Plus
<1>21. ASSUME RunPosted PROVE CountTypes'
  BY <1>21 DEF RunPosted, Free, QueuedTexture, Plus
<1>22. ASSUME NEW n \in Nodes, RecycleNode(n) PROVE CountTypes'
  BY <1>22 DEF RecycleNode, Free, Plus
<1>23. ASSUME RecyclePages PROVE CountTypes'
  BY <1>23 DEF RecyclePages, Free
<1>24. ASSUME DrawImage PROVE CountTypes'
  BY <1>24 DEF DrawImage, Free, Queued, Plus
<1>25. ASSUME DropImage PROVE CountTypes'
  BY <1>25 DEF DropImage, Free, Queued, Plus
<1>26. ASSUME NEW x \in Textures, FinalizeTexture(x) PROVE CountTypes'
  BY <1>26 DEF FinalizeTexture, Queued, Plus
<1>27. ASSUME UNCHANGED vars PROVE CountTypes'
  BY <1>27 DEF vars
<1> QED
  BY <1>1, <1>2, <1>3, <1>4, <1>5, <1>6, <1>7, <1>8, <1>9,
     <1>10, <1>11, <1>12, <1>13, <1>14, <1>15, <1>16, <1>17, <1>18,
     <1>19, <1>20, <1>21, <1>22, <1>23, <1>24, <1>25, <1>26, <1>27
  DEF Next, GetBitmap, Release

\* What is left of release() and clear() is a list of phases.
LEMMA TodoStep == PoolInv /\ [Next]_vars => TodoTypes'
<1> USE RefsAssumption, TexturesAssumption, NodesAssumption, BoundsAssumption
    DEF PoolInv, Threads, TodoTypes, Phases, ReleasePhases, ClearPhases, manager,
        threads, worker
<1> SUFFICES ASSUME PoolInv, [Next]_vars PROVE TodoTypes'
  OBVIOUS
<1>1. ASSUME NEW t \in Threads, Pick(t) PROVE TodoTypes'
  BY <1>1 DEF Pick, Getting, Pooled
<1>2. ASSUME NEW t \in Threads, Take(t) PROVE TodoTypes'
  BY <1>2 DEF Take, Getting, Deliver, Minus
<1>3. ASSUME NEW t \in Threads, Create(t) PROVE TodoTypes'
  BY <1>3 DEF Create, Getting, Deliver
<1>4. ASSUME NEW t \in Threads, Age(t) PROVE TodoTypes'
  BY <1>4 DEF Age, At, NextPhase
<1>5. ASSUME NEW t \in Threads, PickOld(t) PROVE TodoTypes'
  BY <1>5 DEF PickOld, At, Pooled
<1>6. ASSUME NEW t \in Threads, DropOld(t) PROVE TodoTypes'
  BY <1>6 DEF DropOld, At, Minus
<1>7. ASSUME NEW t \in Threads, EndRemove(t) PROVE TodoTypes'
  BY <1>7 DEF EndRemove, At, NextPhase
<1>8. ASSUME NEW t \in Threads, DrainRef(t) PROVE TodoTypes'
  BY <1>8 DEF DrainRef, At, ReleaseImpl, Plus, Minus
<1>9. ASSUME NEW t \in Threads, DrainTexture(t) PROVE TodoTypes'
  BY <1>9 DEF DrainTexture, At, ReleaseImpl, Plus, Minus
<1>10. ASSUME NEW t \in Threads, EndDrain(t) PROVE TodoTypes'
  BY <1>10 DEF EndDrain, At, NextPhase
<1>11. ASSUME NEW t \in Threads, Shrink(t) PROVE TodoTypes'
  <2>1. CASE todo[t] # <<>> /\ NextPhase(t)
    BY <2>1 DEF NextPhase
  <2>2. CASE UNCHANGED todo
    BY <2>2
  <2> QED BY <1>11, <2>1, <2>2 DEF Shrink, ShrinkTo, At
<1>12. ASSUME NEW n \in Nodes, TakeTask(n) PROVE TodoTypes'
  BY <1>12 DEF TakeTask, WorkerAt, Free
<1>13. ASSUME Render PROVE TodoTypes'
  BY <1>13 DEF Render, WorkerAt, Free
<1>14. ASSUME Abort PROVE TodoTypes'
  BY <1>14 DEF Abort, WorkerAt, Free, EndWith, Queued, Plus
<1>15. ASSUME Fail PROVE TodoTypes'
  BY <1>15 DEF Fail, WorkerAt, Free, EndWith
<1>16. ASSUME NewTexture PROVE TodoTypes'
  BY <1>16 DEF NewTexture, WorkerAt, Free
<1>17. ASSUME ReuseTexture PROVE TodoTypes'
  BY <1>17 DEF ReuseTexture, WorkerAt, Free, Queued, Plus
<1>18. ASSUME Finish PROVE TodoTypes'
  BY <1>18 DEF Finish, Free, EndWith, Queued, Plus
<1>19. ASSUME OutOfMemory PROVE TodoTypes'
  BY <1>19 DEF OutOfMemory, Getting
<1>20. ASSUME EndClear PROVE TodoTypes'
  BY <1>20 DEF EndClear, WorkerAt, Free, EndWith, Queued, Plus
<1>21. ASSUME RunPosted PROVE TodoTypes'
  BY <1>21 DEF RunPosted, Free, QueuedTexture, Plus
<1>22. ASSUME NEW n \in Nodes, RecycleNode(n) PROVE TodoTypes'
  BY <1>22 DEF RecycleNode, Free, Plus
<1>23. ASSUME RecyclePages PROVE TodoTypes'
  BY <1>23 DEF RecyclePages, Free
<1>24. ASSUME DrawImage PROVE TodoTypes'
  BY <1>24 DEF DrawImage, Free, Queued, Plus
<1>25. ASSUME DropImage PROVE TodoTypes'
  BY <1>25 DEF DropImage, Free, Queued, Plus
<1>26. ASSUME NEW x \in Textures, FinalizeTexture(x) PROVE TodoTypes'
  BY <1>26 DEF FinalizeTexture, Queued, Plus
<1>27. ASSUME UNCHANGED vars PROVE TodoTypes'
  BY <1>27 DEF vars
<1> QED
  BY <1>1, <1>2, <1>3, <1>4, <1>5, <1>6, <1>7, <1>8, <1>9,
     <1>10, <1>11, <1>12, <1>13, <1>14, <1>15, <1>16, <1>17, <1>18,
     <1>19, <1>20, <1>21, <1>22, <1>23, <1>24, <1>25, <1>26, <1>27
  DEF Next, GetBitmap, Release

\* Iterators and uses keep their types.
LEMMA ThreadStep == PoolInv /\ [Next]_vars => ThreadTypes'
<1> USE RefsAssumption, TexturesAssumption, NodesAssumption, BoundsAssumption
    DEF PoolInv, Threads, ThreadTypes, BagTypes, manager, threads, worker
<1> SUFFICES ASSUME PoolInv, [Next]_vars PROVE ThreadTypes'
  OBVIOUS
<1>1. ASSUME NEW t \in Threads, Pick(t) PROVE ThreadTypes'
  BY <1>1 DEF Pick, Getting, Pooled
<1>2. ASSUME NEW t \in Threads, Take(t) PROVE ThreadTypes'
  BY <1>2 DEF Take, Getting, Deliver, Minus
<1>3. ASSUME NEW t \in Threads, Create(t) PROVE ThreadTypes'
  BY <1>3 DEF Create, Getting, Deliver
<1>4. ASSUME NEW t \in Threads, Age(t) PROVE ThreadTypes'
  BY <1>4 DEF Age, At, NextPhase
<1>5. ASSUME NEW t \in Threads, PickOld(t) PROVE ThreadTypes'
  BY <1>5 DEF PickOld, At, Pooled
<1>6. ASSUME NEW t \in Threads, DropOld(t) PROVE ThreadTypes'
  BY <1>6 DEF DropOld, At, Minus
<1>7. ASSUME NEW t \in Threads, EndRemove(t) PROVE ThreadTypes'
  BY <1>7 DEF EndRemove, At, NextPhase
<1>8. ASSUME NEW t \in Threads, DrainRef(t) PROVE ThreadTypes'
  BY <1>8 DEF DrainRef, At, ReleaseImpl, Plus, Minus
<1>9. ASSUME NEW t \in Threads, DrainTexture(t) PROVE ThreadTypes'
  BY <1>9 DEF DrainTexture, At, ReleaseImpl, Plus, Minus
<1>10. ASSUME NEW t \in Threads, EndDrain(t) PROVE ThreadTypes'
  BY <1>10 DEF EndDrain, At, NextPhase
<1>11. ASSUME NEW t \in Threads, Shrink(t) PROVE ThreadTypes'
  BY <1>11 DEF Shrink, At, ShrinkTo, TooMuch, NextPhase, Pooled, Minus
<1>12. ASSUME NEW n \in Nodes, TakeTask(n) PROVE ThreadTypes'
  BY <1>12 DEF TakeTask, WorkerAt, Free
<1>13. ASSUME Render PROVE ThreadTypes'
  BY <1>13 DEF Render, WorkerAt, Free
<1>14. ASSUME Abort PROVE ThreadTypes'
  BY <1>14 DEF Abort, WorkerAt, Free, EndWith, Queued, Plus
<1>15. ASSUME Fail PROVE ThreadTypes'
  BY <1>15 DEF Fail, WorkerAt, Free, EndWith
<1>16. ASSUME NewTexture PROVE ThreadTypes'
  BY <1>16 DEF NewTexture, WorkerAt, Free
<1>17. ASSUME ReuseTexture PROVE ThreadTypes'
  BY <1>17 DEF ReuseTexture, WorkerAt, Free, Queued, Plus
<1>18. ASSUME Finish PROVE ThreadTypes'
  BY <1>18 DEF Finish, Free, EndWith, Queued, Plus
<1>19. ASSUME OutOfMemory PROVE ThreadTypes'
  BY <1>19 DEF OutOfMemory, Getting
<1>20. ASSUME EndClear PROVE ThreadTypes'
  BY <1>20 DEF EndClear, WorkerAt, Free, EndWith, Queued, Plus
<1>21. ASSUME RunPosted PROVE ThreadTypes'
  BY <1>21 DEF RunPosted, Free, QueuedTexture, Plus
<1>22. ASSUME NEW n \in Nodes, RecycleNode(n) PROVE ThreadTypes'
  BY <1>22 DEF RecycleNode, Free, Plus
<1>23. ASSUME RecyclePages PROVE ThreadTypes'
  BY <1>23 DEF RecyclePages, Free
<1>24. ASSUME DrawImage PROVE ThreadTypes'
  BY <1>24 DEF DrawImage, Free, Queued, Plus
<1>25. ASSUME DropImage PROVE ThreadTypes'
  BY <1>25 DEF DropImage, Free, Queued, Plus
<1>26. ASSUME NEW x \in Textures, FinalizeTexture(x) PROVE ThreadTypes'
  BY <1>26 DEF FinalizeTexture, Queued, Plus
<1>27. ASSUME UNCHANGED vars PROVE ThreadTypes'
  BY <1>27 DEF vars
<1> QED
  BY <1>1, <1>2, <1>3, <1>4, <1>5, <1>6, <1>7, <1>8, <1>9,
     <1>10, <1>11, <1>12, <1>13, <1>14, <1>15, <1>16, <1>17, <1>18,
     <1>19, <1>20, <1>21, <1>22, <1>23, <1>24, <1>25, <1>26, <1>27
  DEF Next, GetBitmap, Release

\* A thread knows what it gets a bitmap for.
LEMMA WantStep == PoolInv /\ [Next]_vars => WantTells'
<1> USE RefsAssumption, TexturesAssumption, NodesAssumption, BoundsAssumption
    DEF PoolInv, Threads, WantTells, ThreadTypes, TodoTypes, StageTypes, manager,
        threads, worker
<1> SUFFICES ASSUME PoolInv, [Next]_vars PROVE WantTells'
  OBVIOUS
<1>1. ASSUME NEW t \in Threads, Pick(t) PROVE WantTells'
  BY <1>1 DEF Pick, Getting, Pooled
<1>2. ASSUME NEW t \in Threads, Take(t) PROVE WantTells'
  BY <1>2 DEF Take, Getting, Deliver, Minus
<1>3. ASSUME NEW t \in Threads, Create(t) PROVE WantTells'
  BY <1>3 DEF Create, Getting, Deliver
<1>4. ASSUME NEW t \in Threads, Age(t) PROVE WantTells'
  BY <1>4 DEF Age, At, NextPhase
<1>5. ASSUME NEW t \in Threads, PickOld(t) PROVE WantTells'
  BY <1>5 DEF PickOld, At, Pooled
<1>6. ASSUME NEW t \in Threads, DropOld(t) PROVE WantTells'
  BY <1>6 DEF DropOld, At, Minus
<1>7. ASSUME NEW t \in Threads, EndRemove(t) PROVE WantTells'
  BY <1>7 DEF EndRemove, At, NextPhase
<1>8. ASSUME NEW t \in Threads, DrainRef(t) PROVE WantTells'
  BY <1>8 DEF DrainRef, At, ReleaseImpl, Plus, Minus
<1>9. ASSUME NEW t \in Threads, DrainTexture(t) PROVE WantTells'
  BY <1>9 DEF DrainTexture, At, ReleaseImpl, Plus, Minus
<1>10. ASSUME NEW t \in Threads, EndDrain(t) PROVE WantTells'
  BY <1>10 DEF EndDrain, At, NextPhase
<1>11. ASSUME NEW t \in Threads, Shrink(t) PROVE WantTells'
  BY <1>11 DEF Shrink, At, ShrinkTo, TooMuch, NextPhase, Pooled, Minus
<1>12. ASSUME NEW n \in Nodes, TakeTask(n) PROVE WantTells'
  BY <1>12 DEF TakeTask, WorkerAt, Free
<1>13. ASSUME Render PROVE WantTells'
  BY <1>13 DEF Render, WorkerAt, Free
<1>14. ASSUME Abort PROVE WantTells'
  BY <1>14 DEF Abort, WorkerAt, Free, EndWith, Queued, Plus
<1>15. ASSUME Fail PROVE WantTells'
  BY <1>15 DEF Fail, WorkerAt, Free, EndWith
<1>16. ASSUME NewTexture PROVE WantTells'
  BY <1>16 DEF NewTexture, WorkerAt, Free
<1>17. ASSUME ReuseTexture PROVE WantTells'
  BY <1>17 DEF ReuseTexture, WorkerAt, Free, Queued, Plus
<1>18. ASSUME Finish PROVE WantTells'
  BY <1>18 DEF Finish, Free, EndWith, Queued, Plus
<1>19. ASSUME OutOfMemory PROVE WantTells'
  BY <1>19 DEF OutOfMemory, Getting
<1>20. ASSUME EndClear PROVE WantTells'
  BY <1>20 DEF EndClear, WorkerAt, Free, EndWith, Queued, Plus
<1>21. ASSUME RunPosted PROVE WantTells'
  BY <1>21 DEF RunPosted, Free, QueuedTexture, Plus
<1>22. ASSUME NEW n \in Nodes, RecycleNode(n) PROVE WantTells'
  BY <1>22 DEF RecycleNode, Free, Plus
<1>23. ASSUME RecyclePages PROVE WantTells'
  BY <1>23 DEF RecyclePages, Free
<1>24. ASSUME DrawImage PROVE WantTells'
  BY <1>24 DEF DrawImage, Free, Queued, Plus
<1>25. ASSUME DropImage PROVE WantTells'
  BY <1>25 DEF DropImage, Free, Queued, Plus
<1>26. ASSUME NEW x \in Textures, FinalizeTexture(x) PROVE WantTells'
  BY <1>26 DEF FinalizeTexture, Queued, Plus
<1>27. ASSUME UNCHANGED vars PROVE WantTells'
  BY <1>27 DEF vars
<1> QED
  BY <1>1, <1>2, <1>3, <1>4, <1>5, <1>6, <1>7, <1>8, <1>9,
     <1>10, <1>11, <1>12, <1>13, <1>14, <1>15, <1>16, <1>17, <1>18,
     <1>19, <1>20, <1>21, <1>22, <1>23, <1>24, <1>25, <1>26, <1>27
  DEF Next, GetBitmap, Release

\* The worker and the nodes have what their stages say.
LEMMA StageStep == PoolInv /\ [Next]_vars => StageTypes'
<1> USE RefsAssumption, TexturesAssumption, NodesAssumption, BoundsAssumption
    DEF PoolInv, Threads, StageTypes, WantTells, ThreadTypes, Runnable, manager,
        threads, worker
<1> SUFFICES ASSUME PoolInv, [Next]_vars PROVE StageTypes'
  OBVIOUS
<1>1. ASSUME NEW t \in Threads, Pick(t) PROVE StageTypes'
  BY <1>1 DEF Pick, Getting, Pooled
<1>2. ASSUME NEW t \in Threads, Take(t) PROVE StageTypes'
  BY <1>2 DEF Take, Getting, Deliver, Minus
<1>3. ASSUME NEW t \in Threads, Create(t) PROVE StageTypes'
  BY <1>3 DEF Create, Getting, Deliver
<1>4. ASSUME NEW t \in Threads, Age(t) PROVE StageTypes'
  BY <1>4 DEF Age, At, NextPhase
<1>5. ASSUME NEW t \in Threads, PickOld(t) PROVE StageTypes'
  BY <1>5 DEF PickOld, At, Pooled
<1>6. ASSUME NEW t \in Threads, DropOld(t) PROVE StageTypes'
  BY <1>6 DEF DropOld, At, Minus
<1>7. ASSUME NEW t \in Threads, EndRemove(t) PROVE StageTypes'
  BY <1>7 DEF EndRemove, At, NextPhase
<1>8. ASSUME NEW t \in Threads, DrainRef(t) PROVE StageTypes'
  BY <1>8 DEF DrainRef, At, ReleaseImpl, Plus, Minus
<1>9. ASSUME NEW t \in Threads, DrainTexture(t) PROVE StageTypes'
  BY <1>9 DEF DrainTexture, At, ReleaseImpl, Plus, Minus
<1>10. ASSUME NEW t \in Threads, EndDrain(t) PROVE StageTypes'
  BY <1>10 DEF EndDrain, At, NextPhase
<1>11. ASSUME NEW t \in Threads, Shrink(t) PROVE StageTypes'
  BY <1>11 DEF Shrink, At, ShrinkTo, TooMuch, NextPhase, Pooled, Minus
<1>12. ASSUME NEW n \in Nodes, TakeTask(n) PROVE StageTypes'
  BY <1>12 DEF TakeTask, WorkerAt, Free
<1>13. ASSUME Render PROVE StageTypes'
  BY <1>13 DEF Render, WorkerAt, Free
<1>14. ASSUME Abort PROVE StageTypes'
  BY <1>14 DEF Abort, WorkerAt, Free, EndWith, Queued, Plus
<1>15. ASSUME Fail PROVE StageTypes'
  BY <1>15 DEF Fail, WorkerAt, Free, EndWith
<1>16. ASSUME NewTexture PROVE StageTypes'
  BY <1>16 DEF NewTexture, WorkerAt, Free
<1>17. ASSUME ReuseTexture PROVE StageTypes'
  BY <1>17 DEF ReuseTexture, WorkerAt, Free, Queued, Plus
<1>18. ASSUME Finish PROVE StageTypes'
  <2>1. node \in Nodes /\ texture \in Textures
    BY <1>18 DEF Finish
  <2> DEFINE runnable == [node |-> node, texture |-> texture]
  <2>2. Append(posted, runnable) \in Seq(Runnable)
    BY <2>1, AppendProperties
  <2>3. posted' = posted \/ posted' = Append(posted, runnable)
    BY <1>18 DEF Finish
  <2> QED BY <1>18, <2>2, <2>3 DEF Finish, EndWith
<1>19. ASSUME OutOfMemory PROVE StageTypes'
  BY <1>19 DEF OutOfMemory, Getting
<1>20. ASSUME EndClear PROVE StageTypes'
  BY <1>20 DEF EndClear, WorkerAt, Free, EndWith, Queued, Plus
<1>21. ASSUME RunPosted PROVE StageTypes'
  <2>1. Head(posted) \in Runnable /\ Tail(posted) \in Seq(Runnable)
    BY <1>21, HeadTailProperties DEF RunPosted
  <2> QED BY <1>21, <2>1 DEF RunPosted
<1>22. ASSUME NEW n \in Nodes, RecycleNode(n) PROVE StageTypes'
  BY <1>22 DEF RecycleNode, Free, Plus
<1>23. ASSUME RecyclePages PROVE StageTypes'
  BY <1>23 DEF RecyclePages, Free
<1>24. ASSUME DrawImage PROVE StageTypes'
  BY <1>24 DEF DrawImage, Free, Queued, Plus
<1>25. ASSUME DropImage PROVE StageTypes'
  BY <1>25 DEF DropImage, Free, Queued, Plus
<1>26. ASSUME NEW x \in Textures, FinalizeTexture(x) PROVE StageTypes'
  BY <1>26 DEF FinalizeTexture, Queued, Plus
<1>27. ASSUME UNCHANGED vars PROVE StageTypes'
  BY <1>27 DEF vars
<1> QED
  BY <1>1, <1>2, <1>3, <1>4, <1>5, <1>6, <1>7, <1>8, <1>9,
     <1>10, <1>11, <1>12, <1>13, <1>14, <1>15, <1>16, <1>17, <1>18,
     <1>19, <1>20, <1>21, <1>22, <1>23, <1>24, <1>25, <1>26, <1>27
  DEF Next, GetBitmap, Release

\* Every reference leads to a bitmap that was created.
LEMMA RefStep == PoolInv /\ [Next]_vars => RefTypes'
<1> USE RefsAssumption, TexturesAssumption, NodesAssumption, BoundsAssumption
    DEF PoolInv, Threads, RefTypes, OnlyCreated, WantTells, ThreadTypes, BagTypes,
        StageTypes, Known, manager, threads, worker
<1> SUFFICES ASSUME PoolInv, [Next]_vars PROVE RefTypes'
  OBVIOUS
<1>1. ASSUME NEW t \in Threads, Pick(t) PROVE RefTypes'
  BY <1>1 DEF Pick, Getting, Pooled
<1>2. ASSUME NEW t \in Threads, Take(t) PROVE RefTypes'
  BY <1>2 DEF Take, Getting, Deliver, Minus
<1>3. ASSUME NEW t \in Threads, Create(t) PROVE RefTypes'
  BY <1>3 DEF Create, Getting, Deliver
<1>4. ASSUME NEW t \in Threads, Age(t) PROVE RefTypes'
  BY <1>4 DEF Age, At, NextPhase
<1>5. ASSUME NEW t \in Threads, PickOld(t) PROVE RefTypes'
  BY <1>5 DEF PickOld, At, Pooled
<1>6. ASSUME NEW t \in Threads, DropOld(t) PROVE RefTypes'
  BY <1>6 DEF DropOld, At, Minus
<1>7. ASSUME NEW t \in Threads, EndRemove(t) PROVE RefTypes'
  BY <1>7 DEF EndRemove, At, NextPhase
<1>8. ASSUME NEW t \in Threads, DrainRef(t) PROVE RefTypes'
  BY <1>8 DEF DrainRef, At, ReleaseImpl, Plus, Minus
<1>9. ASSUME NEW t \in Threads, DrainTexture(t) PROVE RefTypes'
  BY <1>9 DEF DrainTexture, At, ReleaseImpl, Plus, Minus
<1>10. ASSUME NEW t \in Threads, EndDrain(t) PROVE RefTypes'
  BY <1>10 DEF EndDrain, At, NextPhase
<1>11. ASSUME NEW t \in Threads, Shrink(t) PROVE RefTypes'
  BY <1>11 DEF Shrink, At, ShrinkTo, TooMuch, NextPhase, Pooled, Minus
<1>12. ASSUME NEW n \in Nodes, TakeTask(n) PROVE RefTypes'
  BY <1>12 DEF TakeTask, WorkerAt, Free
<1>13. ASSUME Render PROVE RefTypes'
  BY <1>13 DEF Render, WorkerAt, Free
<1>14. ASSUME Abort PROVE RefTypes'
  BY <1>14 DEF Abort, WorkerAt, Free, EndWith, Queued, Plus
<1>15. ASSUME Fail PROVE RefTypes'
  BY <1>15 DEF Fail, WorkerAt, Free, EndWith
<1>16. ASSUME NewTexture PROVE RefTypes'
  BY <1>16 DEF NewTexture, WorkerAt, Free
<1>17. ASSUME ReuseTexture PROVE RefTypes'
  BY <1>17 DEF ReuseTexture, WorkerAt, Free, Queued, Plus
<1>18. ASSUME Finish PROVE RefTypes'
  BY <1>18 DEF Finish, Free, EndWith, Queued, Plus
<1>19. ASSUME OutOfMemory PROVE RefTypes'
  BY <1>19 DEF OutOfMemory, Getting
<1>20. ASSUME EndClear PROVE RefTypes'
  BY <1>20 DEF EndClear, WorkerAt, Free, EndWith, Queued, Plus
<1>21. ASSUME RunPosted PROVE RefTypes'
  BY <1>21 DEF RunPosted, Free, QueuedTexture, Plus
<1>22. ASSUME NEW n \in Nodes, RecycleNode(n) PROVE RefTypes'
  BY <1>22 DEF RecycleNode, Free, Plus
<1>23. ASSUME RecyclePages PROVE RefTypes'
  BY <1>23 DEF RecyclePages, Free
<1>24. ASSUME DrawImage PROVE RefTypes'
  BY <1>24 DEF DrawImage, Free, Queued, Plus
<1>25. ASSUME DropImage PROVE RefTypes'
  BY <1>25 DEF DropImage, Free, Queued, Plus
<1>26. ASSUME NEW x \in Textures, FinalizeTexture(x) PROVE RefTypes'
  BY <1>26 DEF FinalizeTexture, Queued, Plus
<1>27. ASSUME UNCHANGED vars PROVE RefTypes'
  BY <1>27 DEF vars
<1> QED
  BY <1>1, <1>2, <1>3, <1>4, <1>5, <1>6, <1>7, <1>8, <1>9,
     <1>10, <1>11, <1>12, <1>13, <1>14, <1>15, <1>16, <1>17, <1>18,
     <1>19, <1>20, <1>21, <1>22, <1>23, <1>24, <1>25, <1>26, <1>27
  DEF Next, GetBitmap, Release

\* Nothing is pooled or queued before it was created.
LEMMA CreatedStep == PoolInv /\ [Next]_vars => OnlyCreated'
<1> USE RefsAssumption, TexturesAssumption, NodesAssumption, BoundsAssumption
    DEF PoolInv, Threads, OnlyCreated, BagTypes, RefTypes, ThreadTypes, StageTypes,
        WantTells, Runnable, Known, manager, threads, worker
<1> SUFFICES ASSUME PoolInv, [Next]_vars PROVE OnlyCreated'
  OBVIOUS
<1>1. ASSUME NEW t \in Threads, Pick(t) PROVE OnlyCreated'
  BY <1>1 DEF Pick, Getting, Pooled
<1>2. ASSUME NEW t \in Threads, Take(t) PROVE OnlyCreated'
  BY <1>2 DEF Take, Getting, Deliver, Minus
<1>3. ASSUME NEW t \in Threads, Create(t) PROVE OnlyCreated'
  BY <1>3 DEF Create, Getting, Deliver
<1>4. ASSUME NEW t \in Threads, Age(t) PROVE OnlyCreated'
  BY <1>4 DEF Age, At, NextPhase
<1>5. ASSUME NEW t \in Threads, PickOld(t) PROVE OnlyCreated'
  BY <1>5 DEF PickOld, At, Pooled
<1>6. ASSUME NEW t \in Threads, DropOld(t) PROVE OnlyCreated'
  BY <1>6 DEF DropOld, At, Minus
<1>7. ASSUME NEW t \in Threads, EndRemove(t) PROVE OnlyCreated'
  BY <1>7 DEF EndRemove, At, NextPhase
<1>8. ASSUME NEW t \in Threads, DrainRef(t) PROVE OnlyCreated'
  BY <1>8 DEF DrainRef, At, ReleaseImpl, Plus, Minus
<1>9. ASSUME NEW t \in Threads, DrainTexture(t) PROVE OnlyCreated'
  <2> PICK x \in Textures :
          /\ releasing' = Minus(releasing, x)
          /\ parts[x] # NoRef => ReleaseImpl(parts[x])
          /\ parts[x] = NoRef => UNCHANGED manager
    BY <1>9 DEF DrainTexture
  <2>1. UNCHANGED <<picked, created>>
    BY <1>9 DEF DrainTexture, ReleaseImpl
  <2>2. \A r \in Refs : releasing'[r] = releasing[r]
    BY DEF Minus
  <2>3. \A r \in Refs : pool'[r] > 0 => r \in created
    <3>1. CASE parts[x] = NoRef
      BY <3>1
    <3>2. CASE parts[x] # NoRef
      <4>1. parts[x] \in created /\ pool' = [pool EXCEPT ![parts[x]] = @ + 1]
        BY <3>2 DEF ReleaseImpl, Plus
      <4> QED BY <4>1
    <3> QED BY <3>1, <3>2
  <2> QED BY <2>1, <2>2, <2>3
<1>10. ASSUME NEW t \in Threads, EndDrain(t) PROVE OnlyCreated'
  BY <1>10 DEF EndDrain, At, NextPhase
<1>11. ASSUME NEW t \in Threads, Shrink(t) PROVE OnlyCreated'
  BY <1>11 DEF Shrink, At, ShrinkTo, TooMuch, NextPhase, Pooled, Minus
<1>12. ASSUME NEW n \in Nodes, TakeTask(n) PROVE OnlyCreated'
  BY <1>12 DEF TakeTask, WorkerAt, Free
<1>13. ASSUME Render PROVE OnlyCreated'
  BY <1>13 DEF Render, WorkerAt, Free
<1>14. ASSUME Abort PROVE OnlyCreated'
  BY <1>14 DEF Abort, WorkerAt, Free, EndWith, Queued, Plus
<1>15. ASSUME Fail PROVE OnlyCreated'
  BY <1>15 DEF Fail, WorkerAt, Free, EndWith
<1>16. ASSUME NewTexture PROVE OnlyCreated'
  BY <1>16 DEF NewTexture, WorkerAt, Free
<1>17. ASSUME ReuseTexture PROVE OnlyCreated'
  <2>1. holder[node] \in Textures
    BY <1>17 DEF ReuseTexture, WorkerAt
  <2>2. \A r \in Refs : releasing'[r] > 0 => r \in created
    <3> DEFINE old == parts[holder[node]]
    <3>1. old \in Known
      BY <2>1
    <3>2. releasing' = releasing \/ (old # NoRef /\ releasing' = Plus(releasing, old))
      BY <1>17 DEF ReuseTexture, Queued
    <3> QED BY <3>1, <3>2 DEF Plus
  <2> QED BY <1>17, <2>2 DEF ReuseTexture
<1>18. ASSUME Finish PROVE OnlyCreated'
  BY <1>18 DEF Finish, Free, EndWith, Queued, Plus
<1>19. ASSUME OutOfMemory PROVE OnlyCreated'
  BY <1>19 DEF OutOfMemory, Getting
<1>20. ASSUME EndClear PROVE OnlyCreated'
  BY <1>20 DEF EndClear, WorkerAt, Free, EndWith, Queued, Plus
<1>21. ASSUME RunPosted PROVE OnlyCreated'
  <2>1. Head(posted) \in Runnable
    BY <1>21, HeadTailProperties DEF RunPosted
  <2>2. \A r \in Refs : releasing'[r] = releasing[r]
    BY <1>21, <2>1 DEF RunPosted, QueuedTexture, Plus
  <2> QED BY <1>21, <2>2 DEF RunPosted
<1>22. ASSUME NEW n \in Nodes, RecycleNode(n) PROVE OnlyCreated'
  <2>1. \A r \in Refs : releasing'[r] = releasing[r]
    BY <1>22 DEF RecycleNode, Plus
  <2> QED BY <1>22, <2>1 DEF RecycleNode
<1>23. ASSUME RecyclePages PROVE OnlyCreated'
  <2>1. \A r \in Refs : releasing'[r] = releasing[r]
    <3> SUFFICES ASSUME NEW r \in Refs PROVE releasing'[r] = releasing[r]
      OBVIOUS
    <3>1. {n \in Nodes : holder[n] = r} = {}
      OBVIOUS
    <3>2. releasing'[r] = releasing[r] + Cardinality({n \in Nodes : holder[n] = r})
      BY <1>23 DEF RecyclePages
    <3>3. Cardinality({n \in Nodes : holder[n] = r}) = 0
      BY <3>1, FS_EmptySet
    <3> HIDE DEF BagTypes
    <3>4. releasing[r] \in Nat
      BY DEF BagTypes
    <3> QED BY <3>2, <3>3, <3>4
  <2> QED BY <1>23, <2>1 DEF RecyclePages
<1>24. ASSUME DrawImage PROVE OnlyCreated'
  BY <1>24 DEF DrawImage, Free, Queued, Plus
<1>25. ASSUME DropImage PROVE OnlyCreated'
  BY <1>25 DEF DropImage, Free, Queued, Plus
<1>26. ASSUME NEW x \in Textures, FinalizeTexture(x) PROVE OnlyCreated'
  BY <1>26 DEF FinalizeTexture, Queued, Plus
<1>27. ASSUME UNCHANGED vars PROVE OnlyCreated'
  BY <1>27 DEF vars
<1> QED
  BY <1>1, <1>2, <1>3, <1>4, <1>5, <1>6, <1>7, <1>8, <1>9,
     <1>10, <1>11, <1>12, <1>13, <1>14, <1>15, <1>16, <1>17, <1>18,
     <1>19, <1>20, <1>21, <1>22, <1>23, <1>24, <1>25, <1>26, <1>27
  DEF Next, GetBitmap, Release

\* Types and what goes with them hold in the beginning.
LEMMA PoolInit == Init => PoolInv
BY RefsAssumption, TexturesAssumption, NodesAssumption, BoundsAssumption
   DEF Init, PoolInv, BagTypes, CountTypes, TodoTypes, ThreadTypes, WantTells, StageTypes,
       RefTypes, OnlyCreated, Known, Threads, Runnable, Phases

\* Every step keeps them.
LEMMA PoolStep == PoolInv /\ [Next]_vars => PoolInv'
<1> SUFFICES ASSUME PoolInv, [Next]_vars PROVE PoolInv'
  OBVIOUS
<1> QED
  BY BagStep, CountStep, TodoStep, ThreadStep, WantStep, StageStep, RefStep, CreatedStep
  DEF PoolInv

\* The maps, queues, iterators, nodes and textures keep their types.
THEOREM TypeCorrect == Spec => []TypeOK
<1>1. PoolInv => TypeOK
  BY DEF PoolInv, BagTypes, CountTypes, TodoTypes, ThreadTypes, WantTells, StageTypes, RefTypes,
         Known, Runnable, Phases, TypeOK
<1> QED BY <1>1, PoolInit, PoolStep, PTL DEF Spec

-----------------------------------------------------------------------------
(* One owner.                                                               *)

\* In the beginning there is no bitmap.
LEMMA OwnerInit == Init => OwnerInv
BY DEF Init, OwnerInv, Exclusive, PickedIsFree, NoImage, Threads, Getting

\* Every step of a reader without page animations keeps the owners apart.
LEMMA OwnerStep ==
  ASSUME ~UiGets
  PROVE  PoolInv /\ OwnerInv /\ [Next]_vars => OwnerInv'
<1> USE RefsAssumption, TexturesAssumption
    DEF PoolInv, BagTypes, ThreadTypes, RefTypes, OnlyCreated, StageTypes, WantTells, Known,
        Threads, OwnerInv, Exclusive, PickedIsFree, NoImage, Getting, manager, threads, worker
<1> SUFFICES ASSUME PoolInv, OwnerInv, [Next]_vars PROVE OwnerInv'
  OBVIOUS
<1>1. ASSUME NEW t \in Threads, Pick(t) PROVE OwnerInv'
  BY <1>1 DEF Pick, Getting, Pooled
<1>2. ASSUME NEW t \in Threads, Take(t) PROVE OwnerInv'
  BY <1>2 DEF Take, Getting, Deliver, Minus
<1>3. ASSUME NEW t \in Threads, Create(t) PROVE OwnerInv'
  BY <1>3 DEF Create, Getting, Deliver
<1>4. ASSUME NEW t \in Threads, Age(t) PROVE OwnerInv'
  BY <1>4 DEF Age, At, NextPhase
<1>5. ASSUME NEW t \in Threads, PickOld(t) PROVE OwnerInv'
  BY <1>5 DEF PickOld, At, Pooled
<1>6. ASSUME NEW t \in Threads, DropOld(t) PROVE OwnerInv'
  BY <1>6 DEF DropOld, At, Minus
<1>7. ASSUME NEW t \in Threads, EndRemove(t) PROVE OwnerInv'
  BY <1>7 DEF EndRemove, At, NextPhase
<1>8. ASSUME NEW t \in Threads, DrainRef(t) PROVE OwnerInv'
  BY <1>8 DEF DrainRef, At, ReleaseImpl, Plus, Minus
<1>9. ASSUME NEW t \in Threads, DrainTexture(t) PROVE OwnerInv'
  <2> PICK x \in Textures :
          /\ releasing[x] > 0
          /\ releasing' = Minus(releasing, x)
          /\ parts' = [parts EXCEPT ![x] = NoRef]
          /\ parts[x] # NoRef => ReleaseImpl(parts[x])
          /\ parts[x] = NoRef => UNCHANGED manager
    BY <1>9 DEF DrainTexture
  <2>1. UNCHANGED <<todo, picked, want, page, image>>
    BY <1>9 DEF DrainTexture
  <2>2. \A r \in Refs : releasing'[r] = releasing[r]
    BY DEF Minus
  <2>3. \A y \in Textures : parts'[y] = IF y = x THEN NoRef ELSE parts[y]
    OBVIOUS
  <2>4. PickedIsFree' /\ NoImage'
    BY <2>1, <2>2, <2>3
  <2>5. CASE parts[x] = NoRef
    BY <2>1, <2>2, <2>3, <2>4, <2>5
  <2>6. CASE parts[x] # NoRef
    <3>1. parts[x] \in Refs /\ pool' = [pool EXCEPT ![parts[x]] = @ + 1]
      BY <2>6 DEF ReleaseImpl, Plus
    <3>2. pool'[parts[x]] = 1 /\ \A r \in Refs \ {parts[x]} : pool'[r] = pool[r]
      BY <2>6, <3>1
    <3>3. \A y \in Textures : parts'[y] # NoRef => parts'[y] # parts[x] /\ parts'[y] = parts[y]
      BY <2>3, <2>6
    <3>4. \A r \in Refs :
             /\ pool'[r] <= 1 /\ releasing'[r] <= 1
             /\ pool'[r] > 0 => releasing'[r] = 0
             /\ page' = r => pool'[r] = 0 /\ releasing'[r] = 0
      BY <2>1, <2>2, <2>6, <3>1, <3>2
    <3>5. \A y \in Textures : parts'[y] # NoRef =>
             /\ pool'[parts'[y]] = 0 /\ releasing'[parts'[y]] = 0
             /\ page' # parts'[y]
             /\ \A z \in Textures : parts'[z] = parts'[y] => z = y
      BY <2>1, <2>2, <3>1, <3>2, <3>3
    <3> QED BY <2>4, <3>4, <3>5
  <2> QED BY <2>5, <2>6
<1>10. ASSUME NEW t \in Threads, EndDrain(t) PROVE OwnerInv'
  BY <1>10 DEF EndDrain, At, NextPhase
<1>11. ASSUME NEW t \in Threads, Shrink(t) PROVE OwnerInv'
  <2>1. UNCHANGED <<picked, want, releasing, parts, page, image>>
    BY <1>11 DEF Shrink
  <2>2. \A r \in Refs : pool'[r] \in Nat /\ pool'[r] <= pool[r]
    <3>1. pool' = pool \/ \E r \in Refs : pool' = Minus(pool, r)
      BY <1>11 DEF Shrink, ShrinkTo, Pooled
    <3> HIDE DEF Exclusive, PickedIsFree
    <3> QED BY <3>1 DEF Minus
  <2>3. todo["worker"] # <<>> => want["worker"] = "none"
    OBVIOUS
  <2>4. Exclusive'
    BY <2>1, <2>2
  <2>5. todo["worker"] = <<>> => todo'["worker"] = <<>>
    <3>1. CASE t = "worker"
      BY <1>11, <3>1 DEF Shrink, ShrinkTo, At
    <3>2. CASE t # "worker"
      BY <1>11, <3>2 DEF Shrink, ShrinkTo, NextPhase, TodoTypes
    <3> QED BY <3>1, <3>2
  <2>6. PickedIsFree' /\ NoImage'
    BY <2>1, <2>3, <2>5
  <2> QED BY <2>4, <2>6
<1>12. ASSUME NEW n \in Nodes, TakeTask(n) PROVE OwnerInv'
  BY <1>12 DEF TakeTask, WorkerAt, Free
<1>13. ASSUME Render PROVE OwnerInv'
  BY <1>13 DEF Render, WorkerAt, Free
<1>14. ASSUME Abort PROVE OwnerInv'
  BY <1>14 DEF Abort, WorkerAt, Free, EndWith, Queued, Plus
<1>15. ASSUME Fail PROVE OwnerInv'
  BY <1>15 DEF Fail, WorkerAt, Free, EndWith
<1>16. ASSUME NewTexture PROVE OwnerInv'
  BY <1>16 DEF NewTexture, WorkerAt, Free
<1>17. ASSUME ReuseTexture PROVE OwnerInv'
  BY <1>17 DEF ReuseTexture, WorkerAt, Free, Queued, Plus
<1>18. ASSUME Finish PROVE OwnerInv'
  BY <1>18 DEF Finish, Free, EndWith, Queued, Plus
<1>19. ASSUME OutOfMemory PROVE OwnerInv'
  BY <1>19 DEF OutOfMemory, Getting
<1>20. ASSUME EndClear PROVE OwnerInv'
  BY <1>20 DEF EndClear, WorkerAt, Free, EndWith, Queued, Plus
<1>21. ASSUME RunPosted PROVE OwnerInv'
  <2>1. Head(posted) \in Runnable
    BY <1>21, HeadTailProperties DEF RunPosted
  <2>2. \A r \in Refs : releasing'[r] = releasing[r]
    BY <1>21, <2>1 DEF RunPosted, QueuedTexture, Plus, Runnable
  <2>3. UNCHANGED <<pool, todo, picked, want, parts, page, image>>
    BY <1>21 DEF RunPosted
  <2> QED BY <2>2, <2>3
<1>22. ASSUME NEW n \in Nodes, RecycleNode(n) PROVE OwnerInv'
  BY <1>22 DEF RecycleNode, Free, Plus
<1>23. ASSUME RecyclePages PROVE OwnerInv'
  <2>1. \A r \in Refs : releasing'[r] = releasing[r]
    <3> SUFFICES ASSUME NEW r \in Refs PROVE releasing'[r] = releasing[r]
      OBVIOUS
    <3>1. {n \in Nodes : holder[n] = r} = {}
      OBVIOUS
    <3>2. releasing'[r] = releasing[r] + Cardinality({n \in Nodes : holder[n] = r})
      BY <1>23 DEF RecyclePages
    <3>3. Cardinality({n \in Nodes : holder[n] = r}) = 0
      BY <3>1, FS_EmptySet
    <3> HIDE DEF BagTypes
    <3>4. releasing[r] \in Nat
      BY DEF BagTypes
    <3> QED BY <3>2, <3>3, <3>4
  <2>2. UNCHANGED <<pool, picked, want, parts, page, image>> /\ todo'["worker"] = todo["worker"]
    BY <1>23 DEF RecyclePages, TodoTypes
  <2> QED BY <2>1, <2>2
<1>24. ASSUME DrawImage PROVE OwnerInv'
  BY <1>24 DEF DrawImage, Free, Queued, Plus
<1>25. ASSUME DropImage PROVE OwnerInv'
  BY <1>25 DEF DropImage, Free, Queued, Plus
<1>26. ASSUME NEW x \in Textures, FinalizeTexture(x) PROVE OwnerInv'
  BY <1>26 DEF FinalizeTexture, Queued, Plus
<1>27. ASSUME UNCHANGED vars PROVE OwnerInv'
  BY <1>27 DEF vars
<1> QED
  BY <1>1, <1>2, <1>3, <1>4, <1>5, <1>6, <1>7, <1>8, <1>9,
     <1>10, <1>11, <1>12, <1>13, <1>14, <1>15, <1>16, <1>17, <1>18,
     <1>19, <1>20, <1>21, <1>22, <1>23, <1>24, <1>25, <1>26, <1>27
  DEF Next, GetBitmap, Release

\* What excludes each other is counted once.
LEMMA OwnersAreOne == PoolInv /\ OwnerInv => OneOwner
<1> SUFFICES ASSUME PoolInv, OwnerInv, NEW r \in Refs PROVE Owners(r) <= 1
  BY DEF OneOwner
<1> USE RefsAssumption
    DEF PoolInv, BagTypes, RefTypes, Known, OwnerInv, Exclusive, NoImage, Owners
<1> DEFINE shown == {x \in Textures : parts[x] = r}
<1>1. CASE shown = {}
  <2>1. Cardinality(shown) = 0
    BY <1>1, FS_EmptySet
  <2> QED BY <2>1
<1>2. CASE shown # {}
  <2> PICK x \in Textures : parts[x] = r
    BY <1>2
  <2>1. shown = {x}
    OBVIOUS
  <2>2. Cardinality(shown) = 1
    BY <2>1, FS_Singleton
  <2> QED BY <2>2
<1> QED BY <1>1, <1>2

\* In a reader without page animations no bitmap ever has two owners: whatever is
\* recycled, reused, finalized and released twice, and on whichever thread, it is in
\* the pool, in the queue, with the worker or in one texture (BitmapManager.getBitmap,
\* release; Bitmaps.reuse, finalize).
THEOREM NoBitmapIsShared ==
  ASSUME ~UiGets
  PROVE  Spec => []OneOwner
<1>1. PoolInv /\ OwnerInv /\ [Next]_vars => OwnerInv'
  BY OwnerStep
<1> QED BY <1>1, PoolInit, PoolStep, OwnerInit, OwnersAreOne, PTL DEF Spec

-----------------------------------------------------------------------------
(* The map and the pool.                                                    *)

\* Only these steps change the map, the pool and their counters.
LEMMA ManagerSteps ==
  ASSUME Next
  PROVE  \/ UNCHANGED manager
         \/ \E t \in Threads : \/ Take(t) \/ Create(t) \/ Age(t) \/ DropOld(t)
                               \/ DrainRef(t) \/ DrainTexture(t) \/ Shrink(t)
BY DEF Next, GetBitmap, Release, Pick, PickOld, EndRemove, EndDrain, TakeTask, Render, Abort,
       Fail, NewTexture, ReuseTexture, Finish, OutOfMemory, EndClear, RunPosted, RecycleNode,
       RecyclePages, DrawImage, DropImage, FinalizeTexture

\* A bitmap that is given back is pooled, one that is taken or dropped may be.
LEMMA PoolChange ==
  ASSUME PoolInv, NEW r \in Refs
  PROVE  /\ pool' = Plus(pool, r) => Pooled' = Pooled \cup {r}
         /\ pool' = Minus(pool, r) => Pooled \ {r} \subseteq Pooled' /\ Pooled' \subseteq Pooled
         /\ pool' = Minus(pool, r) /\ pool[r] <= 1 => Pooled' = Pooled \ {r}
<1> USE DEF PoolInv, BagTypes, Pooled
<1>1. ASSUME pool' = Plus(pool, r) PROVE Pooled' = Pooled \cup {r}
  BY <1>1 DEF Plus
<1>2. ASSUME pool' = Minus(pool, r)
      PROVE  Pooled \ {r} \subseteq Pooled' /\ Pooled' \subseteq Pooled
  BY <1>2 DEF Minus
<1>3. ASSUME pool' = Minus(pool, r), pool[r] <= 1 PROVE Pooled' = Pooled \ {r}
  BY <1>3 DEF Minus
<1> QED BY <1>1, <1>2, <1>3

\* What a texture gives back is a bitmap.
LEMMA DrainedTexture ==
  ASSUME PoolInv, NEW t \in Threads, DrainTexture(t)
  PROVE  \/ UNCHANGED manager
         \/ \E r \in Refs : ReleaseImpl(r) /\ \E x \in Textures : parts[x] = r
BY DEF DrainTexture, PoolInv, RefTypes, Known

\* Whatever threads take, drop and release at once: a bitmap whose memory is not
\* freed is in use or in the pool.
LEMMA RecordStep == PoolInv /\ LiveIsRecorded /\ [Next]_vars => LiveIsRecorded'
<1> SUFFICES ASSUME PoolInv, LiveIsRecorded, [Next]_vars PROVE LiveIsRecorded'
  OBVIOUS
<1> USE DEF LiveIsRecorded
<1>1. ASSUME UNCHANGED manager PROVE LiveIsRecorded'
  BY <1>1 DEF manager, Pooled
<1>2. ASSUME NEW r \in Refs, ReleaseImpl(r) PROVE LiveIsRecorded'
  BY <1>2, PoolChange DEF ReleaseImpl
<1>3. ASSUME NEW t \in Threads, Take(t) PROVE LiveIsRecorded'
  <2>1. picked[t] \in Refs /\ pool' = Minus(pool, picked[t]) /\ used' = used \cup {picked[t]}
        /\ live' = live
    BY <1>3 DEF Take, PoolInv, ThreadTypes
  <2> QED BY <2>1, PoolChange
<1>4. ASSUME NEW t \in Threads, Create(t) PROVE LiveIsRecorded'
  BY <1>4 DEF Create, Pooled
<1>5. ASSUME NEW t \in Threads, Age(t) PROVE LiveIsRecorded'
  BY <1>5 DEF Age, Pooled
<1>6. ASSUME NEW t \in Threads, DropOld(t) PROVE LiveIsRecorded'
  <2>1. picked[t] \in Refs /\ pool' = Minus(pool, picked[t]) /\ used' = used
        /\ live' = live \ {picked[t]}
    BY <1>6 DEF DropOld, PoolInv, ThreadTypes
  <2> QED BY <2>1, PoolChange
<1>7. ASSUME NEW t \in Threads, DrainRef(t) PROVE LiveIsRecorded'
  BY <1>2, <1>7 DEF DrainRef
<1>8. ASSUME NEW t \in Threads, DrainTexture(t) PROVE LiveIsRecorded'
  BY <1>1, <1>2, <1>8, DrainedTexture
<1>9. ASSUME NEW t \in Threads, Shrink(t) PROVE LiveIsRecorded'
  <2>1. CASE UNCHANGED manager
    BY <1>1, <2>1
  <2>2. CASE \E r \in Refs : pool' = Minus(pool, r) /\ live' = live \ {r} /\ used' = used
    BY <2>2, PoolChange
  <2> QED BY <1>9, <2>1, <2>2 DEF Shrink, ShrinkTo, Pooled
<1>10. ASSUME UNCHANGED vars PROVE LiveIsRecorded'
  BY <1>1, <1>10 DEF vars, manager
<1> QED
  BY <1>1, <1>3, <1>4, <1>5, <1>6, <1>7, <1>8, <1>9, <1>10, ManagerSteps

\* Whatever the threads of the reader get, age, drop, shrink and release at once, no
\* bitmap slips out of BitmapManager with its memory: it is freed, in use or in the
\* pool (getBitmap, removeOldRefs, shrinkPool, releaseImpl).
THEOREM NoBitmapSlipsOut == Spec => []LiveIsRecorded
<1>1. Init => LiveIsRecorded
  BY DEF Init, LiveIsRecorded
<1> QED BY <1>1, PoolInit, PoolStep, RecordStep, PTL DEF Spec

-----------------------------------------------------------------------------
(* Nothing is lost in the map.                                              *)

\* The bitmap r is queued, shown or in hand.
Held(r) ==
    releasing[r] > 0 \/ page = r \/ image = r \/ \E x \in Textures : parts[x] = r

\* What is recorded as used is held by somebody, who will give it back; being in
\* the pool does not count.
UsedIsHeld == \A r \in used \ leaked : Held(r)

\* A thread gets a bitmap for a place that is empty.
PlaceIsEmpty ==
    /\ want["worker"] = "page" => page = NoRef
    /\ want["worker"] = "part" => texture \in Textures /\ parts[texture] = NoRef
    /\ want["ui"] = "image" => image = NoRef

\* A thread gets a bitmap for a place that is empty, and nobody else fills it.
LEMMA PlaceStep == PoolInv /\ PlaceIsEmpty /\ [Next]_vars => PlaceIsEmpty'
<1> SUFFICES ASSUME PoolInv, PlaceIsEmpty, [Next]_vars PROVE PlaceIsEmpty'
  OBVIOUS
<1> USE RefsAssumption, TexturesAssumption
    DEF PoolInv, Threads, PlaceIsEmpty, ThreadTypes, RefTypes, StageTypes, WantTells,
        manager, threads, worker
<1>1. ASSUME NEW t \in Threads, Pick(t) PROVE PlaceIsEmpty'
  BY <1>1 DEF Pick, Getting, Pooled
<1>2. ASSUME NEW t \in Threads, Take(t) PROVE PlaceIsEmpty'
  BY <1>2 DEF Take, Getting, Deliver, Minus
<1>3. ASSUME NEW t \in Threads, Create(t) PROVE PlaceIsEmpty'
  BY <1>3 DEF Create, Getting, Deliver
<1>4. ASSUME NEW t \in Threads, Age(t) PROVE PlaceIsEmpty'
  BY <1>4 DEF Age, At, NextPhase
<1>5. ASSUME NEW t \in Threads, PickOld(t) PROVE PlaceIsEmpty'
  BY <1>5 DEF PickOld, At, Pooled
<1>6. ASSUME NEW t \in Threads, DropOld(t) PROVE PlaceIsEmpty'
  BY <1>6 DEF DropOld, At, Minus
<1>7. ASSUME NEW t \in Threads, EndRemove(t) PROVE PlaceIsEmpty'
  BY <1>7 DEF EndRemove, At, NextPhase
<1>8. ASSUME NEW t \in Threads, DrainRef(t) PROVE PlaceIsEmpty'
  BY <1>8 DEF DrainRef, At, ReleaseImpl, Plus, Minus
<1>9. ASSUME NEW t \in Threads, DrainTexture(t) PROVE PlaceIsEmpty'
  BY <1>9 DEF DrainTexture, At, ReleaseImpl, Plus, Minus
<1>10. ASSUME NEW t \in Threads, EndDrain(t) PROVE PlaceIsEmpty'
  BY <1>10 DEF EndDrain, At, NextPhase
<1>11. ASSUME NEW t \in Threads, Shrink(t) PROVE PlaceIsEmpty'
  BY <1>11 DEF Shrink, At, ShrinkTo, TooMuch, NextPhase, Pooled, Minus
<1>12. ASSUME NEW n \in Nodes, TakeTask(n) PROVE PlaceIsEmpty'
  BY <1>12 DEF TakeTask, WorkerAt, Free
<1>13. ASSUME Render PROVE PlaceIsEmpty'
  BY <1>13 DEF Render, WorkerAt, Free
<1>14. ASSUME Abort PROVE PlaceIsEmpty'
  BY <1>14 DEF Abort, WorkerAt, Free, EndWith, Queued, Plus
<1>15. ASSUME Fail PROVE PlaceIsEmpty'
  BY <1>15 DEF Fail, WorkerAt, Free, EndWith
<1>16. ASSUME NewTexture PROVE PlaceIsEmpty'
  BY <1>16 DEF NewTexture, WorkerAt, Free
<1>17. ASSUME ReuseTexture PROVE PlaceIsEmpty'
  BY <1>17 DEF ReuseTexture, WorkerAt, Free, Queued, Plus
<1>18. ASSUME Finish PROVE PlaceIsEmpty'
  BY <1>18 DEF Finish, Free, EndWith, Queued, Plus
<1>19. ASSUME OutOfMemory PROVE PlaceIsEmpty'
  BY <1>19 DEF OutOfMemory, Getting
<1>20. ASSUME EndClear PROVE PlaceIsEmpty'
  BY <1>20 DEF EndClear, WorkerAt, Free, EndWith, Queued, Plus
<1>21. ASSUME RunPosted PROVE PlaceIsEmpty'
  BY <1>21 DEF RunPosted, Free, QueuedTexture, Plus
<1>22. ASSUME NEW n \in Nodes, RecycleNode(n) PROVE PlaceIsEmpty'
  BY <1>22 DEF RecycleNode, Free, Plus
<1>23. ASSUME RecyclePages PROVE PlaceIsEmpty'
  BY <1>23 DEF RecyclePages, Free
<1>24. ASSUME DrawImage PROVE PlaceIsEmpty'
  BY <1>24 DEF DrawImage, Free, Queued, Plus
<1>25. ASSUME DropImage PROVE PlaceIsEmpty'
  BY <1>25 DEF DropImage, Free, Queued, Plus
<1>26. ASSUME NEW x \in Textures, FinalizeTexture(x) PROVE PlaceIsEmpty'
  BY <1>26 DEF FinalizeTexture, Queued, Plus
<1>27. ASSUME UNCHANGED vars PROVE PlaceIsEmpty'
  BY <1>27 DEF vars
<1> QED
  BY <1>1, <1>2, <1>3, <1>4, <1>5, <1>6, <1>7, <1>8, <1>9,
     <1>10, <1>11, <1>12, <1>13, <1>14, <1>15, <1>16, <1>17, <1>18,
     <1>19, <1>20, <1>21, <1>22, <1>23, <1>24, <1>25, <1>26, <1>27
  DEF Next, GetBitmap, Release

\* Only textures are queued by events.
LEMMA EventsQueueTextures ==
  ASSUME PoolInv, RunPosted \/ RecyclePages \/ \E n \in Nodes : RecycleNode(n)
  PROVE  \A r \in Refs : releasing'[r] = releasing[r]
<1> USE RefsAssumption DEF PoolInv, BagTypes, StageTypes
<1>1. CASE RunPosted
  <2>1. Head(posted) \in Runnable
    BY <1>1, HeadTailProperties DEF RunPosted
  <2> QED BY <1>1, <2>1 DEF RunPosted, QueuedTexture, Plus, Runnable
<1>2. CASE \E n \in Nodes : RecycleNode(n)
  BY <1>2 DEF RecycleNode, Plus
<1>3. CASE RecyclePages
  <2> SUFFICES ASSUME NEW r \in Refs PROVE releasing'[r] = releasing[r]
    OBVIOUS
  <2>1. {n \in Nodes : holder[n] = r} = {}
    BY TexturesAssumption
  <2>2. releasing'[r] = releasing[r] + Cardinality({n \in Nodes : holder[n] = r})
    BY <1>3 DEF RecyclePages
  <2>3. Cardinality({n \in Nodes : holder[n] = r}) = 0
    BY <2>1, FS_EmptySet
  <2> HIDE DEF PoolInv
  <2>4. releasing[r] \in Nat
    BY DEF PoolInv, BagTypes
  <2> QED BY <2>2, <2>3, <2>4
<1> QED BY <1>1, <1>2, <1>3

\* What is used stays with its holder, goes to the queue or back to the pool.
LEMMA HeldStep == PoolInv /\ PlaceIsEmpty /\ UsedIsHeld /\ [Next]_vars => UsedIsHeld'
<1> SUFFICES ASSUME PoolInv, PlaceIsEmpty, UsedIsHeld, [Next]_vars PROVE UsedIsHeld'
  OBVIOUS
<1> USE RefsAssumption
    DEF PoolInv, Threads, PlaceIsEmpty, ThreadTypes, BagTypes, RefTypes, StageTypes,
        WantTells, Known, UsedIsHeld, Held, manager, threads, worker
<1>1. ASSUME NEW t \in Threads, Pick(t) PROVE UsedIsHeld'
  BY <1>1 DEF Pick, Getting, Pooled
<1>2. ASSUME NEW t \in Threads, Take(t) PROVE UsedIsHeld'
  BY <1>2 DEF Take, Getting, Deliver, Minus
<1>3. ASSUME NEW t \in Threads, Create(t) PROVE UsedIsHeld'
  BY <1>3 DEF Create, Getting, Deliver
<1>4. ASSUME NEW t \in Threads, Age(t) PROVE UsedIsHeld'
  BY <1>4 DEF Age, At, NextPhase
<1>5. ASSUME NEW t \in Threads, PickOld(t) PROVE UsedIsHeld'
  BY <1>5 DEF PickOld, At, Pooled
<1>6. ASSUME NEW t \in Threads, DropOld(t) PROVE UsedIsHeld'
  BY <1>6 DEF DropOld, At, Minus
<1>7. ASSUME NEW t \in Threads, EndRemove(t) PROVE UsedIsHeld'
  BY <1>7 DEF EndRemove, At, NextPhase
<1>8. ASSUME NEW t \in Threads, DrainRef(t) PROVE UsedIsHeld'
  BY <1>8 DEF DrainRef, At, ReleaseImpl, Plus, Minus
<1>9. ASSUME NEW t \in Threads, DrainTexture(t) PROVE UsedIsHeld'
  <2>1. PICK x \in Textures :
          /\ releasing' = Minus(releasing, x)
          /\ parts' = [parts EXCEPT ![x] = NoRef]
          /\ used' = IF parts[x] = NoRef THEN used ELSE used \ {parts[x]}
          /\ UNCHANGED <<page, image, leaked>>
    BY <1>9 DEF DrainTexture, ReleaseImpl
  <2>2. \A r \in Refs : releasing'[r] = releasing[r]
    BY <2>1 DEF Minus
  <2> QED BY <2>1, <2>2
<1>10. ASSUME NEW t \in Threads, EndDrain(t) PROVE UsedIsHeld'
  BY <1>10 DEF EndDrain, At, NextPhase
<1>11. ASSUME NEW t \in Threads, Shrink(t) PROVE UsedIsHeld'
  BY <1>11 DEF Shrink, At, ShrinkTo, TooMuch, NextPhase, Pooled, Minus
<1>12. ASSUME NEW n \in Nodes, TakeTask(n) PROVE UsedIsHeld'
  BY <1>12 DEF TakeTask, WorkerAt, Free
<1>13. ASSUME Render PROVE UsedIsHeld'
  BY <1>13 DEF Render, WorkerAt, Free
<1>14. ASSUME Abort PROVE UsedIsHeld'
  BY <1>14 DEF Abort, WorkerAt, Free, EndWith, Queued, Plus
<1>15. ASSUME Fail PROVE UsedIsHeld'
  BY <1>15 DEF Fail, WorkerAt, Free, EndWith
<1>16. ASSUME NewTexture PROVE UsedIsHeld'
  BY <1>16 DEF NewTexture, WorkerAt, Free
<1>17. ASSUME ReuseTexture PROVE UsedIsHeld'
  <2> DEFINE x == holder[node]
  <2>1. x \in Textures /\ UNCHANGED <<used, page, image, leaked>>
    BY <1>17 DEF ReuseTexture, WorkerAt
  <2>2. CASE UNCHANGED <<releasing, parts>>
    BY <2>1, <2>2
  <2>3. CASE releasing' = Queued(parts[x]) /\ parts' = [parts EXCEPT ![x] = NoRef]
    <3>1. \A r \in Refs : releasing[r] > 0 => releasing'[r] > 0
      BY <2>1, <2>3 DEF Queued, Plus
    <3>2. parts[x] # NoRef => releasing'[parts[x]] > 0
      BY <2>1, <2>3 DEF Queued, Plus
    <3> QED BY <2>1, <2>3, <3>1, <3>2
  <2> QED BY <1>17, <2>2, <2>3 DEF ReuseTexture
<1>18. ASSUME Finish PROVE UsedIsHeld'
  BY <1>18 DEF Finish, Free, EndWith, Queued, Plus
<1>19. ASSUME OutOfMemory PROVE UsedIsHeld'
  BY <1>19 DEF OutOfMemory, Getting
<1>20. ASSUME EndClear PROVE UsedIsHeld'
  BY <1>20 DEF EndClear, WorkerAt, Free, EndWith, Queued, Plus
<1>21. ASSUME RunPosted PROVE UsedIsHeld'
  BY <1>21, EventsQueueTextures DEF RunPosted
<1>22. ASSUME NEW n \in Nodes, RecycleNode(n) PROVE UsedIsHeld'
  BY <1>22, EventsQueueTextures DEF RecycleNode
<1>23. ASSUME RecyclePages PROVE UsedIsHeld'
  BY <1>23, EventsQueueTextures DEF RecyclePages
<1>24. ASSUME DrawImage PROVE UsedIsHeld'
  BY <1>24 DEF DrawImage, Free, Queued, Plus
<1>25. ASSUME DropImage PROVE UsedIsHeld'
  BY <1>25 DEF DropImage, Free, Queued, Plus
<1>26. ASSUME NEW x \in Textures, FinalizeTexture(x) PROVE UsedIsHeld'
  BY <1>26 DEF FinalizeTexture, Queued, Plus
<1>27. ASSUME UNCHANGED vars PROVE UsedIsHeld'
  BY <1>27 DEF vars
<1> QED
  BY <1>1, <1>2, <1>3, <1>4, <1>5, <1>6, <1>7, <1>8, <1>9,
     <1>10, <1>11, <1>12, <1>13, <1>14, <1>15, <1>16, <1>17, <1>18,
     <1>19, <1>20, <1>21, <1>22, <1>23, <1>24, <1>25, <1>26, <1>27
  DEF Next, GetBitmap, Release

\* Who holds a bitmap is counted as its owner.
LEMMA HeldIsOwned == PoolInv /\ UsedIsHeld => UsedIsOwned
<1> SUFFICES ASSUME PoolInv, UsedIsHeld, NEW r \in used \ leaked PROVE Owners(r) > 0
  BY DEF UsedIsOwned
<1> DEFINE shown == {x \in Textures : parts[x] = r}
<1>1. r \in Refs /\ pool[r] \in Nat /\ releasing[r] \in Nat
  BY DEF PoolInv, BagTypes, RefTypes
<1>2. IsFiniteSet(shown) /\ Cardinality(shown) \in Nat
  BY TexturesAssumption, FS_Subset, FS_CardinalityType
<1>3. shown # {} => Cardinality(shown) > 0
  BY <1>2, FS_EmptySet
<1>4. releasing[r] > 0 \/ page = r \/ image = r \/ shown # {}
  BY DEF UsedIsHeld, Held
<1> HIDE DEF shown
<1>5. Owners(r) = pool[r] + releasing[r] + Cardinality(shown)
                    + (IF page = r THEN 1 ELSE 0) + (IF image = r THEN 1 ELSE 0)
  BY DEF Owners, shown
<1> QED BY <1>1, <1>2, <1>3, <1>4, <1>5

\* No bitmap is forgotten in the map of used ones, on however many threads bitmaps are
\* got and released: it is queued, shown or in hand, so that it will come back, unless
\* the task that held it has failed (DecodeServiceBase.performDecode).
THEOREM NoBitmapIsForgotten == Spec => []UsedIsOwned
<1>1. Init => PlaceIsEmpty /\ UsedIsHeld
  BY DEF Init, PlaceIsEmpty, UsedIsHeld, Threads
<1>2. PoolInv /\ PlaceIsEmpty /\ UsedIsHeld /\ [Next]_vars => (PlaceIsEmpty /\ UsedIsHeld)'
  BY PlaceStep, HeldStep
<1> QED BY <1>1, <1>2, PoolInit, PoolStep, HeldIsOwned, PTL DEF Spec

-----------------------------------------------------------------------------
(* Counters, limit and liveness, where only the worker gets and releases    *)
(* bitmaps.                                                                 *)

\* The UI thread is never in getBitmap or release().
UiIsFree == Free("ui")

\* The bitmap the worker's iterator is at is in the pool, and the worker is in one of the two
\* loops over the pool.
PickedIsPooled ==
    picked["worker"] # NoRef =>
        /\ pool[picked["worker"]] > 0
        /\ \/ Getting("worker")
           \/ At("worker", "remove")

\* Alone, the worker is never disturbed between picking a bitmap and taking it.
LEMMA UiStep ==
  ASSUME ~UiGets, ~UiReleases
  PROVE  PoolInv /\ UiIsFree /\ [Next]_vars => UiIsFree'
<1> SUFFICES ASSUME PoolInv, UiIsFree, [Next]_vars PROVE UiIsFree'
  OBVIOUS
<1> USE DEF PoolInv, TodoTypes, ThreadTypes, Threads, UiIsFree, Free, manager, threads
<1>1. ASSUME NEW t \in Threads, Pick(t) PROVE UiIsFree'
  BY <1>1 DEF Pick, Getting, Pooled
<1>2. ASSUME NEW t \in Threads, Take(t) PROVE UiIsFree'
  BY <1>2 DEF Take, Getting, Deliver, Minus
<1>3. ASSUME NEW t \in Threads, Create(t) PROVE UiIsFree'
  BY <1>3 DEF Create, Getting, Deliver
<1>4. ASSUME NEW t \in Threads, Age(t) PROVE UiIsFree'
  BY <1>4 DEF Age, At, NextPhase
<1>5. ASSUME NEW t \in Threads, PickOld(t) PROVE UiIsFree'
  BY <1>5 DEF PickOld, At, Pooled
<1>6. ASSUME NEW t \in Threads, DropOld(t) PROVE UiIsFree'
  BY <1>6 DEF DropOld, At, Minus
<1>7. ASSUME NEW t \in Threads, EndRemove(t) PROVE UiIsFree'
  BY <1>7 DEF EndRemove, At, NextPhase
<1>8. ASSUME NEW t \in Threads, DrainRef(t) PROVE UiIsFree'
  BY <1>8 DEF DrainRef, At, ReleaseImpl, Plus, Minus
<1>9. ASSUME NEW t \in Threads, DrainTexture(t) PROVE UiIsFree'
  BY <1>9 DEF DrainTexture, At, ReleaseImpl, Plus, Minus
<1>10. ASSUME NEW t \in Threads, EndDrain(t) PROVE UiIsFree'
  BY <1>10 DEF EndDrain, At, NextPhase
<1>11. ASSUME NEW t \in Threads, Shrink(t) PROVE UiIsFree'
  <2>1. t = "worker" /\ picked' = picked /\ want' = want
    BY <1>11 DEF Shrink, At
  <2>2. todo'["ui"] = todo["ui"]
    BY <1>11, <2>1 DEF Shrink, ShrinkTo, NextPhase
  <2> QED BY <2>1, <2>2
<1>12. ASSUME NEW n \in Nodes, TakeTask(n) PROVE UiIsFree'
  BY <1>12 DEF TakeTask, WorkerAt, Free
<1>13. ASSUME Render PROVE UiIsFree'
  BY <1>13 DEF Render, WorkerAt, Free
<1>14. ASSUME Abort PROVE UiIsFree'
  BY <1>14 DEF Abort, WorkerAt, Free, EndWith, Queued, Plus
<1>15. ASSUME Fail PROVE UiIsFree'
  BY <1>15 DEF Fail, WorkerAt, Free, EndWith
<1>16. ASSUME NewTexture PROVE UiIsFree'
  BY <1>16 DEF NewTexture, WorkerAt, Free
<1>17. ASSUME ReuseTexture PROVE UiIsFree'
  BY <1>17 DEF ReuseTexture, WorkerAt, Free, Queued, Plus
<1>18. ASSUME Finish PROVE UiIsFree'
  BY <1>18 DEF Finish, Free, EndWith, Queued, Plus
<1>19. ASSUME OutOfMemory PROVE UiIsFree'
  BY <1>19 DEF OutOfMemory, Getting
<1>20. ASSUME EndClear PROVE UiIsFree'
  BY <1>20 DEF EndClear, WorkerAt, Free, EndWith, Queued, Plus
<1>21. ASSUME RunPosted PROVE UiIsFree'
  BY <1>21 DEF RunPosted, Free, QueuedTexture, Plus
<1>22. ASSUME NEW n \in Nodes, RecycleNode(n) PROVE UiIsFree'
  BY <1>22 DEF RecycleNode, Free, Plus
<1>23. ASSUME RecyclePages PROVE UiIsFree'
  BY <1>23 DEF RecyclePages, Free
<1>24. ASSUME DrawImage PROVE UiIsFree'
  BY <1>24 DEF DrawImage, Free, Queued, Plus
<1>25. ASSUME DropImage PROVE UiIsFree'
  BY <1>25 DEF DropImage, Free, Queued, Plus
<1>26. ASSUME NEW x \in Textures, FinalizeTexture(x) PROVE UiIsFree'
  BY <1>26 DEF FinalizeTexture, Queued, Plus
<1>27. ASSUME UNCHANGED vars PROVE UiIsFree'
  BY <1>27 DEF vars
<1> QED
  BY <1>1, <1>2, <1>3, <1>4, <1>5, <1>6, <1>7, <1>8, <1>9,
     <1>10, <1>11, <1>12, <1>13, <1>14, <1>15, <1>16, <1>17, <1>18,
     <1>19, <1>20, <1>21, <1>22, <1>23, <1>24, <1>25, <1>26, <1>27
  DEF Next, GetBitmap, Release

\* What the worker has picked stays in the pool until it takes it out.
LEMMA PickedStep ==
  ASSUME ~UiGets, ~UiReleases
  PROVE  PoolInv /\ OwnerInv /\ UiIsFree /\ PickedIsPooled /\ [Next]_vars => PickedIsPooled'
<1> SUFFICES ASSUME PoolInv, OwnerInv, UiIsFree, PickedIsPooled, [Next]_vars PROVE PickedIsPooled'
  OBVIOUS
<1> USE RefsAssumption
    DEF PoolInv, BagTypes, TodoTypes, ThreadTypes, RefTypes, Known, WantTells, Threads,
        PickedIsPooled, Getting, At, UiIsFree, manager, threads
<1>1. ASSUME NEW t \in Threads, Pick(t) PROVE PickedIsPooled'
  BY <1>1 DEF Pick, Free, NextPhase, Minus, Deliver, Pooled
<1>2. ASSUME NEW t \in Threads, Take(t) PROVE PickedIsPooled'
  BY <1>2 DEF Take, Free, NextPhase, Minus, Deliver, Pooled
<1>3. ASSUME NEW t \in Threads, Create(t) PROVE PickedIsPooled'
  BY <1>3 DEF Create, Free, NextPhase, Minus, Deliver, Pooled
<1>4. ASSUME NEW t \in Threads, Age(t) PROVE PickedIsPooled'
  BY <1>4 DEF Age, Free, NextPhase, Minus, Deliver, Pooled
<1>5. ASSUME NEW t \in Threads, PickOld(t) PROVE PickedIsPooled'
  BY <1>5 DEF PickOld, Free, NextPhase, Minus, Deliver, Pooled
<1>6. ASSUME NEW t \in Threads, DropOld(t) PROVE PickedIsPooled'
  BY <1>6 DEF DropOld, Free, NextPhase, Minus, Deliver, Pooled
<1>7. ASSUME NEW t \in Threads, EndRemove(t) PROVE PickedIsPooled'
  BY <1>7 DEF EndRemove, Free, NextPhase, Minus, Deliver, Pooled
<1>8. ASSUME NEW t \in Threads, DrainRef(t) PROVE PickedIsPooled'
  <2>1. t = "worker" /\ picked[t] = NoRef /\ picked' = picked
    BY <1>8 DEF DrainRef, Free
  <2> QED BY <2>1
<1>9. ASSUME NEW t \in Threads, DrainTexture(t) PROVE PickedIsPooled'
  <2>1. t = "worker" /\ picked[t] = NoRef /\ picked' = picked
    BY <1>9 DEF DrainTexture, Free
  <2> QED BY <2>1
<1>10. ASSUME NEW t \in Threads, EndDrain(t) PROVE PickedIsPooled'
  BY <1>10 DEF EndDrain, Free, NextPhase, Minus, Deliver, Pooled
<1>11. ASSUME NEW t \in Threads, Shrink(t) PROVE PickedIsPooled'
  <2>1. t = "worker" /\ picked[t] = NoRef /\ picked' = picked
    BY <1>11 DEF Shrink, Free
  <2> QED BY <2>1
<1>12. ASSUME NEW n \in Nodes, TakeTask(n) PROVE PickedIsPooled'
  BY <1>12 DEF TakeTask, WorkerAt, Free
<1>13. ASSUME Render PROVE PickedIsPooled'
  BY <1>13 DEF Render, WorkerAt, Free
<1>14. ASSUME Abort PROVE PickedIsPooled'
  BY <1>14 DEF Abort, WorkerAt, Free, EndWith, Queued, Plus
<1>15. ASSUME Fail PROVE PickedIsPooled'
  BY <1>15 DEF Fail, WorkerAt, Free, EndWith
<1>16. ASSUME NewTexture PROVE PickedIsPooled'
  BY <1>16 DEF NewTexture, WorkerAt, Free
<1>17. ASSUME ReuseTexture PROVE PickedIsPooled'
  BY <1>17 DEF ReuseTexture, WorkerAt, Free, Queued, Plus
<1>18. ASSUME Finish PROVE PickedIsPooled'
  BY <1>18 DEF Finish, Free, EndWith, Queued, Plus
<1>19. ASSUME OutOfMemory PROVE PickedIsPooled'
  BY <1>19 DEF OutOfMemory, Getting
<1>20. ASSUME EndClear PROVE PickedIsPooled'
  BY <1>20 DEF EndClear, WorkerAt, Free, EndWith, Queued, Plus
<1>21. ASSUME RunPosted PROVE PickedIsPooled'
  BY <1>21 DEF RunPosted, Free, QueuedTexture, Plus
<1>22. ASSUME NEW n \in Nodes, RecycleNode(n) PROVE PickedIsPooled'
  BY <1>22 DEF RecycleNode, Free, Plus
<1>23. ASSUME RecyclePages PROVE PickedIsPooled'
  BY <1>23 DEF RecyclePages, Free
<1>24. ASSUME DrawImage PROVE PickedIsPooled'
  BY <1>24 DEF DrawImage, Free, Queued, Plus
<1>25. ASSUME DropImage PROVE PickedIsPooled'
  BY <1>25 DEF DropImage, Free, Queued, Plus
<1>26. ASSUME NEW x \in Textures, FinalizeTexture(x) PROVE PickedIsPooled'
  BY <1>26 DEF FinalizeTexture, Queued, Plus
<1>27. ASSUME UNCHANGED vars PROVE PickedIsPooled'
  BY <1>27 DEF vars
<1> QED
  BY <1>1, <1>2, <1>3, <1>4, <1>5, <1>6, <1>7, <1>8, <1>9,
     <1>10, <1>11, <1>12, <1>13, <1>14, <1>15, <1>16, <1>17, <1>18,
     <1>19, <1>20, <1>21, <1>22, <1>23, <1>24, <1>25, <1>26, <1>27
  DEF Next, GetBitmap, Release

\* The counters are exact: what is in the map is not in the pool, and no bitmap is in
\* the pool twice.
CountInv ==
    /\ used \cap Pooled = {}
    /\ IsFiniteSet(used) /\ IsFiniteSet(Pooled)
    /\ CountersExact

\* A bitmap leaves the map for the pool.
LEMMA ReleaseCounts ==
  ASSUME PoolInv, CountInv, NEW r \in Refs, pool[r] = 0, ReleaseImpl(r)
  PROVE  CountInv'
<1> USE DEF CountInv, CountersExact
<1>1. /\ Pooled' = Pooled \cup {r} /\ used' = used \ {r} /\ r \notin Pooled
      /\ memoryUsed' = IF r \in used THEN memoryUsed - 1 ELSE memoryUsed
      /\ memoryPooled' = memoryPooled + 1
  BY PoolChange DEF ReleaseImpl, Pooled
<1>2. IsFiniteSet(Pooled') /\ Cardinality(Pooled') = Cardinality(Pooled) + 1
  BY <1>1, FS_AddElement
<1>3. /\ IsFiniteSet(used')
      /\ Cardinality(used') = IF r \in used THEN Cardinality(used) - 1 ELSE Cardinality(used)
  BY <1>1, FS_RemoveElement
<1> QED BY <1>1, <1>2, <1>3

\* A bitmap leaves the pool, and enters the map or not.
LEMMA TakeCounts ==
  ASSUME PoolInv, CountInv, NEW r \in Pooled, pool[r] <= 1, pool' = Minus(pool, r),
         memoryPooled' = memoryPooled - 1,
         \/ used' = used \cup {r} /\ memoryUsed' = memoryUsed + 1
         \/ UNCHANGED <<used, memoryUsed>>
  PROVE  CountInv'
<1> USE DEF CountInv, CountersExact
<1>1. r \in Refs /\ Pooled' = Pooled \ {r} /\ r \notin used
  BY PoolChange DEF Pooled
<1>2. IsFiniteSet(Pooled') /\ Cardinality(Pooled') = Cardinality(Pooled) - 1
  BY <1>1, FS_RemoveElement
<1>3. IsFiniteSet(used \cup {r}) /\ Cardinality(used \cup {r}) = Cardinality(used) + 1
  BY <1>1, FS_AddElement
<1> QED BY <1>1, <1>2, <1>3

\* Every step of a reader whose UI thread does not use the pool keeps the counters exact.
LEMMA CountsStep ==
  ASSUME ~UiGets, ~UiReleases
  PROVE  PoolInv /\ OwnerInv /\ UiIsFree /\ PickedIsPooled /\ CountInv /\ [Next]_vars => CountInv'
<1> SUFFICES ASSUME PoolInv, OwnerInv, UiIsFree, PickedIsPooled, CountInv, [Next]_vars PROVE CountInv'
  OBVIOUS
<1>1. ASSUME UNCHANGED <<pool, used, memoryUsed, memoryPooled>> PROVE CountInv'
  BY <1>1 DEF CountInv, CountersExact, Pooled
<1>2. \A r \in Refs : pool[r] <= 1
  BY DEF OwnerInv, Exclusive
<1>3. ASSUME NEW t \in Threads, picked[t] # NoRef
      PROVE  picked[t] \in Pooled
  BY <1>3 DEF UiIsFree, Free, PickedIsPooled, Threads, Pooled, PoolInv, ThreadTypes
<1>4. ASSUME NEW t \in Threads, Take(t) PROVE CountInv'
  BY <1>2, <1>3, <1>4, TakeCounts DEF Take, Pooled
<1>5. ASSUME NEW t \in Threads, Create(t) PROVE CountInv'
  <2>1. PICK r \in Refs \ created :
          /\ used' = used \cup {r} /\ memoryUsed' = memoryUsed + 1
          /\ UNCHANGED <<pool, memoryPooled>>
    BY <1>5 DEF Create
  <2>2. r \notin used /\ r \notin Pooled /\ Pooled' = Pooled
    BY <2>1 DEF PoolInv, RefTypes, OnlyCreated, Pooled
  <2>3. IsFiniteSet(used') /\ Cardinality(used') = Cardinality(used) + 1
    BY <2>1, <2>2, FS_AddElement DEF CountInv
  <2> QED BY <2>1, <2>2, <2>3 DEF CountInv, CountersExact
<1>6. ASSUME NEW t \in Threads, Age(t) PROVE CountInv'
  BY <1>1, <1>6 DEF Age
<1>7. ASSUME NEW t \in Threads, DropOld(t) PROVE CountInv'
  BY <1>2, <1>3, <1>7, TakeCounts DEF DropOld, Pooled
<1>8. ASSUME NEW t \in Threads, DrainRef(t) PROVE CountInv'
  <2>1. PICK r \in Refs : releasing[r] > 0 /\ ReleaseImpl(r)
    BY <1>8 DEF DrainRef
  <2>2. pool[r] = 0
    BY <2>1 DEF OwnerInv, Exclusive, PoolInv, BagTypes
  <2> QED BY <2>1, <2>2, ReleaseCounts
<1>9. ASSUME NEW t \in Threads, DrainTexture(t) PROVE CountInv'
  <2>1. CASE UNCHANGED manager
    BY <1>1, <2>1 DEF manager
  <2>2. CASE \E r \in Refs : ReleaseImpl(r) /\ \E x \in Textures : parts[x] = r
    <3>1. PICK r \in Refs : ReleaseImpl(r) /\ \E x \in Textures : parts[x] = r
      BY <2>2
    <3>2. pool[r] = 0
      BY <3>1, RefsAssumption DEF OwnerInv, Exclusive
    <3> QED BY <3>1, <3>2, ReleaseCounts
  <2> QED BY <1>9, <2>1, <2>2, DrainedTexture
<1>10. ASSUME NEW t \in Threads, Shrink(t) PROVE CountInv'
  <2>1. CASE UNCHANGED manager
    BY <1>1, <2>1 DEF manager
  <2>2. CASE \E r \in Pooled : /\ pool' = Minus(pool, r) /\ memoryPooled' = memoryPooled - 1
                               /\ UNCHANGED <<used, memoryUsed>>
    <3>1. PICK r \in Pooled : /\ pool' = Minus(pool, r) /\ memoryPooled' = memoryPooled - 1
                              /\ UNCHANGED <<used, memoryUsed>>
      BY <2>2
    <3>2. pool[r] <= 1
      BY <1>2 DEF Pooled
    <3> QED BY <3>1, <3>2, TakeCounts
  <2> QED BY <1>10, <2>1, <2>2 DEF Shrink, ShrinkTo
<1>11. ASSUME UNCHANGED vars PROVE CountInv'
  BY <1>1, <1>11 DEF vars
<1> QED
  BY <1>1, <1>4, <1>5, <1>6, <1>7, <1>8, <1>9, <1>10, <1>11, ManagerSteps DEF manager

\* What the worker relies on while the UI thread does not use the pool.
AloneInv == PoolInv /\ OwnerInv /\ UiIsFree /\ PickedIsPooled

\* It can always rely on it.
LEMMA AloneAlways ==
  ASSUME ~UiGets, ~UiReleases
  PROVE  Spec => []AloneInv
<1>1. Init => AloneInv
  BY PoolInit, OwnerInit DEF Init, AloneInv, UiIsFree, Free, PickedIsPooled, Threads
<1>2. AloneInv /\ [Next]_vars => AloneInv'
  BY PoolStep, OwnerStep, UiStep, PickedStep DEF AloneInv
<1> QED BY <1>1, <1>2, PTL DEF Spec

\* The counters are always exact.
LEMMA CountsAlways ==
  ASSUME ~UiGets, ~UiReleases
  PROVE  Spec => []CountInv
<1>1. Init => CountInv
  <2> SUFFICES ASSUME Init PROVE CountInv
    OBVIOUS
  <2>1. used = {} /\ Pooled = {} /\ memoryUsed = 0 /\ memoryPooled = 0
    BY DEF Init, Pooled
  <2> QED BY <2>1, FS_EmptySet DEF CountInv, CountersExact
<1>2. AloneInv /\ CountInv /\ [Next]_vars => CountInv'
  BY CountsStep DEF AloneInv
<1> QED BY <1>1, <1>2, AloneAlways, PTL DEF Spec

\* While only the worker gets and releases bitmaps, memoryUsed and memoryPooled say
\* what the map and the pool hold, whatever is aged, dropped, shrunk and released
\* twice (BitmapManager.getBitmap, release, shrinkPool).
THEOREM CountersAreExact ==
  ASSUME ~UiGets, ~UiReleases
  PROVE  Spec => []CountersExact
<1>1. CountInv => CountersExact
  BY DEF CountInv
<1> QED BY <1>1, CountsAlways, PTL

-----------------------------------------------------------------------------
(* The limit.                                                               *)

\* release() and clear() end with a shrinking of the pool, and so does every creation;
\* in between the sum does not grow.
LimitInv ==
    /\ todo["worker"] # <<>> => todo["worker"][Len(todo["worker"])] \in {"shrink", "shrinkAll"}
    /\ todo["worker"] = <<>> /\ Pooled # {} => memoryPooled + memoryUsed <= Limit

\* The last element of a sequence is that of its tail.
LEMMA TailKeepsLast ==
  ASSUME NEW S, NEW s \in Seq(S), Len(s) > 1
  PROVE  Tail(s) # <<>> /\ Tail(s)[Len(Tail(s))] = s[Len(s)]
<1>1. s # <<>> /\ Len(s) \in Nat
  OBVIOUS
<1>2. Tail(s) \in Seq(S) /\ Len(Tail(s)) = Len(s) - 1
      /\ \A i \in 1 .. Len(Tail(s)) : Tail(s)[i] = s[i + 1]
  BY <1>1, HeadTailProperties
<1>3. PICK n \in Nat : n = Len(s) - 1
  BY <1>1
<1>4. n \in 1 .. n /\ n + 1 = Len(s)
  BY <1>1, <1>3
<1>5. Len(Tail(s)) = n
  BY <1>2, <1>3
<1>6. Tail(s) # <<>>
  <2>1. Len(<<>>) = 0 /\ n # 0
    BY <1>4
  <2> QED BY <1>5, <2>1
<1>7. Tail(s)[n] = s[n + 1]
  BY <1>2, <1>4, <1>5
<1> QED BY <1>4, <1>5, <1>6, <1>7

\* A phase that is not the last one leaves the last one to be done.
LEMMA NextPhaseLeavesShrink ==
  ASSUME PoolInv, LimitInv, NextPhase("worker"),
         \E phase \in {"age", "ageAll", "remove", "drain"} : At("worker", phase)
  PROVE  LimitInv'
<1> DEFINE s == todo["worker"]
<1>1. /\ s \in Seq(Phases) /\ s # <<>>
      /\ s[1] \notin {"shrink", "shrinkAll"} /\ s[Len(s)] \in {"shrink", "shrinkAll"}
  BY DEF At, LimitInv, PoolInv, TodoTypes, Threads
<1>2. todo'["worker"] = Tail(s)
  BY DEF NextPhase, PoolInv, TodoTypes, Threads
<1>3. Len(s) # 1 /\ Len(s) \in Nat /\ Len(s) > 0
  BY <1>1
<1>4. Tail(s) # <<>> /\ Tail(s)[Len(Tail(s))] = s[Len(s)]
  <2> HIDE DEF s
  <2> QED BY <1>1, <1>3, TailKeepsLast
<1> QED BY <1>1, <1>2, <1>4 DEF LimitInv, s

\* No step exceeds the limit without a shrinking to come.
LEMMA LimitStep ==
  ASSUME ~UiGets, ~UiReleases
  PROVE  AloneInv /\ LimitInv /\ [Next]_vars => LimitInv'
<1> SUFFICES ASSUME AloneInv, LimitInv, [Next]_vars PROVE LimitInv'
  OBVIOUS
<1> USE BoundsAssumption
    DEF AloneInv, PoolInv, TodoTypes, CountTypes, Threads, UiIsFree, manager, threads
<1>1. ASSUME NEW t \in Threads, Pick(t) PROVE LimitInv'
  BY <1>1 DEF Pick, LimitInv, At, Free, Getting, Pooled
<1>2. ASSUME NEW t \in Threads, Take(t) PROVE LimitInv'
  <2>1. /\ t = "worker" /\ todo'[t] = <<>> /\ todo[t] = <<>>
        /\ memoryPooled' + memoryUsed' = memoryPooled + memoryUsed
    BY <1>2 DEF Take, Getting, Free
  <2>2. Pooled' # {} => Pooled # {}
    <3>1. picked[t] \in Refs /\ pool' = Minus(pool, picked[t])
      BY <1>2 DEF Take, ThreadTypes
    <3> QED BY <3>1, PoolChange DEF AloneInv
  <2> QED BY <2>1, <2>2 DEF LimitInv
<1>3. ASSUME NEW t \in Threads, Create(t) PROVE LimitInv'
  <2>1. t = "worker" /\ todo'[t] = <<"shrink">>
    BY <1>3 DEF Create, Getting, Free
  <2> QED BY <2>1 DEF LimitInv
<1>4. ASSUME NEW t \in Threads, Age(t) PROVE LimitInv'
  <2>1. t = "worker"
    BY <1>4 DEF Age, At, Free
  <2> QED BY <1>4, <2>1, NextPhaseLeavesShrink DEF Age
<1>5. ASSUME NEW t \in Threads, PickOld(t) PROVE LimitInv'
  BY <1>5 DEF PickOld, LimitInv, At, Free, Getting, Pooled
<1>6. ASSUME NEW t \in Threads, DropOld(t) PROVE LimitInv'
  BY <1>6 DEF DropOld, LimitInv, At, Free, Getting, Pooled
<1>7. ASSUME NEW t \in Threads, EndRemove(t) PROVE LimitInv'
  <2>1. t = "worker"
    BY <1>7 DEF EndRemove, At, Free
  <2> QED BY <1>7, <2>1, NextPhaseLeavesShrink DEF EndRemove
<1>8. ASSUME NEW t \in Threads, DrainRef(t) PROVE LimitInv'
  BY <1>8 DEF DrainRef, LimitInv, At, Free, Getting, Pooled
<1>9. ASSUME NEW t \in Threads, DrainTexture(t) PROVE LimitInv'
  BY <1>9 DEF DrainTexture, LimitInv, At, Free, Getting, Pooled
<1>10. ASSUME NEW t \in Threads, EndDrain(t) PROVE LimitInv'
  <2>1. t = "worker"
    BY <1>10 DEF EndDrain, At, Free
  <2> QED BY <1>10, <2>1, NextPhaseLeavesShrink DEF EndDrain
<1>11. ASSUME NEW t \in Threads, Shrink(t) PROVE LimitInv'
  <2>1. t = "worker" /\ todo[t] # <<>>
    BY <1>11 DEF Shrink, At, Free
  <2>2. CASE UNCHANGED todo
    BY <2>1, <2>2 DEF LimitInv
  <2>3. CASE NextPhase(t) /\ UNCHANGED manager /\ (~TooMuch(Limit) \/ ~TooMuch(0))
    <3> DEFINE s == todo[t]
    <3>1. todo'[t] = Tail(s) /\ s \in Seq(Phases) /\ s[Len(s)] \in {"shrink", "shrinkAll"}
      BY <2>1, <2>3 DEF NextPhase, LimitInv
    <3>2. Tail(s) # <<>> => Tail(s)[Len(Tail(s))] = s[Len(s)]
      BY <2>1, <3>1
    <3>3. Pooled' = Pooled /\ (Pooled # {} => memoryPooled + memoryUsed <= Limit)
      BY <2>3 DEF TooMuch, Pooled
    <3> QED BY <2>1, <2>3, <3>1, <3>2, <3>3 DEF LimitInv
  <2> QED BY <1>11, <2>2, <2>3 DEF Shrink, ShrinkTo
<1>12. ASSUME NEW n \in Nodes, TakeTask(n) PROVE LimitInv'
  BY <1>12 DEF TakeTask, LimitInv, Pooled, WorkerAt, Free, ReleasePhases
<1>13. ASSUME Render PROVE LimitInv'
  BY <1>13 DEF Render, LimitInv, Pooled, WorkerAt
<1>14. ASSUME Abort PROVE LimitInv'
  BY <1>14 DEF Abort, LimitInv, Pooled
<1>15. ASSUME Fail PROVE LimitInv'
  BY <1>15 DEF Fail, LimitInv, Pooled
<1>16. ASSUME NewTexture PROVE LimitInv'
  BY <1>16 DEF NewTexture, LimitInv, Pooled
<1>17. ASSUME ReuseTexture PROVE LimitInv'
  BY <1>17 DEF ReuseTexture, LimitInv, Pooled
<1>18. ASSUME Finish PROVE LimitInv'
  BY <1>18 DEF Finish, LimitInv, Pooled
<1>19. ASSUME OutOfMemory PROVE LimitInv'
  BY <1>19 DEF OutOfMemory, LimitInv, Pooled, Getting, ReleasePhases, ClearPhases
<1>20. ASSUME EndClear PROVE LimitInv'
  BY <1>20 DEF EndClear, LimitInv, Pooled
<1>21. ASSUME RunPosted PROVE LimitInv'
  BY <1>21 DEF RunPosted, LimitInv, Pooled
<1>22. ASSUME NEW n \in Nodes, RecycleNode(n) PROVE LimitInv'
  BY <1>22 DEF RecycleNode, LimitInv, Pooled
<1>23. ASSUME RecyclePages PROVE LimitInv'
  BY <1>23 DEF RecyclePages, LimitInv, Pooled
<1>24. ASSUME DrawImage PROVE LimitInv'
  BY <1>24 DEF DrawImage, LimitInv, Pooled
<1>25. ASSUME DropImage PROVE LimitInv'
  BY <1>25 DEF DropImage, LimitInv, Pooled
<1>26. ASSUME NEW x \in Textures, FinalizeTexture(x) PROVE LimitInv'
  BY <1>26 DEF FinalizeTexture, LimitInv, Pooled
<1>27. ASSUME UNCHANGED vars PROVE LimitInv'
  BY <1>27 DEF vars, LimitInv, Pooled
<1> QED
  BY <1>1, <1>2, <1>3, <1>4, <1>5, <1>6, <1>7, <1>8, <1>9,
     <1>10, <1>11, <1>12, <1>13, <1>14, <1>15, <1>16, <1>17, <1>18,
     <1>19, <1>20, <1>21, <1>22, <1>23, <1>24, <1>25, <1>26, <1>27
  DEF Next, GetBitmap, Release

\* Between two calls of release(), clear() and createBitmap the bitmaps that wait in the pool
\* for their reuse, and those in use, keep within the limit (BITMAP_MEMORY_LIMIT): a
\* creation and every release ends with shrinkPool, and no other step adds to the sum.
THEOREM PoolStaysBounded ==
  ASSUME ~UiGets, ~UiReleases
  PROVE  Spec => []PoolIsBounded
<1>1. Init => LimitInv
  BY DEF Init, LimitInv, Pooled, Threads
<1>2. AloneInv /\ LimitInv /\ [Next]_vars => LimitInv'
  BY LimitStep
<1>3. CountInv /\ LimitInv => PoolIsBounded
  <2> SUFFICES ASSUME CountInv, LimitInv, \A t \in Threads : todo[t] = <<>>, Pooled # {}
               PROVE  Cardinality(used \cup Pooled) <= Limit
    BY DEF PoolIsBounded
  <2>1. memoryPooled + memoryUsed <= Limit
    BY DEF LimitInv, Threads
  <2>2. Cardinality(used \cup Pooled)
          = Cardinality(used) + Cardinality(Pooled) - Cardinality(used \cap Pooled)
    BY FS_Union DEF CountInv
  <2>3. Cardinality(used \cap Pooled) = 0
    BY FS_EmptySet DEF CountInv
  <2>4. Cardinality(used) \in Nat /\ Cardinality(Pooled) \in Nat
    BY FS_CardinalityType DEF CountInv
  <2> QED BY <2>1, <2>2, <2>3, <2>4 DEF CountInv, CountersExact
<1> QED BY <1>1, <1>2, <1>3, CountsAlways, AloneAlways, PTL DEF Spec


-----------------------------------------------------------------------------
(* What is drawn into or shown.                                             *)

\* The worker's bitmap, those of the textures and the one about to be taken from the pool are not
\* recycled.
LiveInv ==
    /\ page # NoRef => page \in live
    /\ \A x \in Textures : parts[x] # NoRef => parts[x] \in live
    /\ picked["worker"] # NoRef /\ want["worker"] # "none" => picked["worker"] \in live

\* What is dropped or polled from the pool is in no other hands.
LEMMA LiveStep ==
  ASSUME ~UiGets, ~UiReleases
  PROVE  AloneInv /\ LiveInv /\ [Next]_vars => LiveInv'
<1> SUFFICES ASSUME AloneInv, LiveInv, [Next]_vars PROVE LiveInv'
  OBVIOUS
<1> USE RefsAssumption
    DEF AloneInv, PoolInv, BagTypes, ThreadTypes, RefTypes, StageTypes, Known, WantTells, Threads,
        UiIsFree, LiveInv, manager, threads, worker
<1>1. ASSUME NEW t \in Threads, Pick(t) PROVE LiveInv'
  BY <1>1 DEF Pick, Getting, Pooled
<1>2. ASSUME NEW t \in Threads, Take(t) PROVE LiveInv'
  BY <1>2 DEF Take, Getting, Deliver, Minus
<1>3. ASSUME NEW t \in Threads, Create(t) PROVE LiveInv'
  BY <1>3 DEF Create, Getting, Deliver
<1>4. ASSUME NEW t \in Threads, Age(t) PROVE LiveInv'
  BY <1>4 DEF Age, At, NextPhase
<1>5. ASSUME NEW t \in Threads, PickOld(t) PROVE LiveInv'
  BY <1>5 DEF PickOld, At, Pooled
<1>6. ASSUME NEW t \in Threads, DropOld(t) PROVE LiveInv'
  <2>1. t = "worker" /\ pool[picked[t]] > 0 /\ picked[t] \in Refs /\ live' = live \ {picked[t]}
    BY <1>6 DEF DropOld, Free, PickedIsPooled
  <2>2. page # picked[t] /\ \A x \in Textures : parts[x] # picked[t]
    BY <2>1 DEF OwnerInv, Exclusive
  <2> QED BY <1>6, <2>1, <2>2 DEF DropOld
<1>7. ASSUME NEW t \in Threads, EndRemove(t) PROVE LiveInv'
  BY <1>7 DEF EndRemove, At, NextPhase
<1>8. ASSUME NEW t \in Threads, DrainRef(t) PROVE LiveInv'
  BY <1>8 DEF DrainRef, At, ReleaseImpl, Plus, Minus
<1>9. ASSUME NEW t \in Threads, DrainTexture(t) PROVE LiveInv'
  BY <1>9 DEF DrainTexture, At, ReleaseImpl, Plus, Minus
<1>10. ASSUME NEW t \in Threads, EndDrain(t) PROVE LiveInv'
  BY <1>10 DEF EndDrain, At, NextPhase
<1>11. ASSUME NEW t \in Threads, Shrink(t) PROVE LiveInv'
  <2>1. t = "worker" /\ UNCHANGED <<picked, want, parts, page>> /\ want[t] = "none"
    BY <1>11 DEF Shrink, At, Free
  <2>2. CASE \E r \in Pooled : live' = live \ {r}
    <3>1. PICK r \in Pooled : live' = live \ {r}
      BY <2>2
    <3>2. page # r /\ \A x \in Textures : parts[x] # r
      BY <3>1 DEF OwnerInv, Exclusive, Pooled
    <3> QED BY <2>1, <3>1, <3>2
  <2>3. CASE live' = live
    BY <2>1, <2>3
  <2> QED BY <1>11, <2>2, <2>3 DEF Shrink, ShrinkTo
<1>12. ASSUME NEW n \in Nodes, TakeTask(n) PROVE LiveInv'
  BY <1>12 DEF TakeTask, WorkerAt, Free
<1>13. ASSUME Render PROVE LiveInv'
  BY <1>13 DEF Render, WorkerAt, Free
<1>14. ASSUME Abort PROVE LiveInv'
  BY <1>14 DEF Abort, WorkerAt, Free, EndWith, Queued, Plus
<1>15. ASSUME Fail PROVE LiveInv'
  BY <1>15 DEF Fail, WorkerAt, Free, EndWith
<1>16. ASSUME NewTexture PROVE LiveInv'
  BY <1>16 DEF NewTexture, WorkerAt, Free
<1>17. ASSUME ReuseTexture PROVE LiveInv'
  BY <1>17 DEF ReuseTexture, WorkerAt, Free, Queued, Plus
<1>18. ASSUME Finish PROVE LiveInv'
  BY <1>18 DEF Finish, Free, EndWith, Queued, Plus
<1>19. ASSUME OutOfMemory PROVE LiveInv'
  BY <1>19 DEF OutOfMemory, Getting
<1>20. ASSUME EndClear PROVE LiveInv'
  BY <1>20 DEF EndClear, WorkerAt, Free, EndWith, Queued, Plus
<1>21. ASSUME RunPosted PROVE LiveInv'
  BY <1>21 DEF RunPosted, Free, QueuedTexture, Plus
<1>22. ASSUME NEW n \in Nodes, RecycleNode(n) PROVE LiveInv'
  BY <1>22 DEF RecycleNode, Free, Plus
<1>23. ASSUME RecyclePages PROVE LiveInv'
  BY <1>23 DEF RecyclePages, Free
<1>24. ASSUME DrawImage PROVE LiveInv'
  BY <1>24 DEF DrawImage, Free, Queued, Plus
<1>25. ASSUME DropImage PROVE LiveInv'
  BY <1>25 DEF DropImage, Free, Queued, Plus
<1>26. ASSUME NEW x \in Textures, FinalizeTexture(x) PROVE LiveInv'
  BY <1>26 DEF FinalizeTexture, Queued, Plus
<1>27. ASSUME UNCHANGED vars PROVE LiveInv'
  BY <1>27 DEF vars
<1> QED
  BY <1>1, <1>2, <1>3, <1>4, <1>5, <1>6, <1>7, <1>8, <1>9,
     <1>10, <1>11, <1>12, <1>13, <1>14, <1>15, <1>16, <1>17, <1>18,
     <1>19, <1>20, <1>21, <1>22, <1>23, <1>24, <1>25, <1>26, <1>27
  DEF Next, GetBitmap, Release

\* No bitmap that is rendered into, shown or drawn from is recycled under its user: neither
\* the ageing of the pool nor its shrinking reaches it (removeOldRefs, shrinkPool), and what is
\* taken from the pool is checked and still whole when it is used.
THEOREM UsedBitmapsAreLive ==
  ASSUME ~UiGets, ~UiReleases
  PROVE  Spec => []InUseIsLive
<1>1. Init => LiveInv
  BY DEF Init, LiveInv, Threads
<1>2. AloneInv /\ LiveInv /\ [Next]_vars => LiveInv'
  BY LiveStep
<1>3. AloneInv /\ LiveInv => InUseIsLive
  BY TexturesAssumption DEF AloneInv, PoolInv, OwnerInv, NoImage, StageTypes, LiveInv, InUseIsLive
<1> QED BY <1>1, <1>2, <1>3, AloneAlways, PTL DEF Spec
=============================================================================
