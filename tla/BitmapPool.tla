------------------------------- MODULE BitmapPool -------------------------------
(***************************************************************************)
(* BitmapManager, the pool of reusable bitmaps, with its users: the worker *)
(* thread that renders a page into one bitmap and copies it into the       *)
(* texture (class Bitmaps) of a node; the UI thread that puts textures     *)
(* into nodes, gives them up and draws page animations into a bitmap of    *)
(* its own; and the collector, which finalizes textures.                   *)
(*                                                                         *)
(* The maps, queues and counters of BitmapManager are concurrent and       *)
(* atomic one by one; what lies between two accesses is a step boundary    *)
(* here wherever the other thread could tell.  A texture has one part and  *)
(* every bitmap has size 1.  The queues are bags: their order is left out, *)
(* and with it which pooled bitmap fits, is eldest or is released first.   *)
(***************************************************************************)
EXTENDS Integers, Sequences, FiniteSets

CONSTANTS
    Refs,           \* bitmaps (BitmapRef) that may be created in a behaviour
    Textures,       \* textures (Bitmaps) that may exist at a time
    Nodes,          \* tree nodes of the visible pages
    NoRef, NoTexture, NoNode,
    Limit,          \* BITMAP_MEMORY_LIMIT
    Threshold,      \* GENERATION_THRESHOLD
    MaxPosted,      \* bound on the runnables in the queue of the UI thread
    MaxMemory,      \* bound on memoryUsed, which may drift when two threads get bitmaps
    TasksFail,      \* a decode task may throw or run out of memory
    UiReleases,     \* documents are closed: DocumentModel.recycle on the UI thread
    UiGets          \* page animations get bitmaps on the UI thread

ASSUME RefsAssumption == {NoRef, NoTexture} \cap Refs = {} /\ Refs \cap Textures = {}
ASSUME TexturesAssumption == NoTexture \notin Textures /\ IsFiniteSet(Textures)
ASSUME NodesAssumption == NoNode \notin Nodes /\ IsFiniteSet(Nodes)
ASSUME BoundsAssumption == {Limit, Threshold, MaxPosted, MaxMemory} \subseteq Nat
ASSUME SwitchesAssumption == {TasksFail, UiReleases, UiGets} \subseteq BOOLEAN

Threads == {"worker", "ui"}

VARIABLES
    pool, used,         \* BitmapManager.pool: occurrences of each ref, and .used
    releasing,          \* BitmapManager.releasing: occurrences of refs and textures
    memoryUsed, memoryPooled,
    created, live,      \* refs that were created; of them those with ref.bitmap # null
    age,                \* generation - ref.gen, up to Threshold + 1
    todo,               \* what is left of a thread's release() or clear()
    picked,             \* the ref a thread's pool iterator is at
    want,               \* what a thread gets a bitmap for
    parts,              \* Bitmaps.bitmaps
    holder, posted,     \* BitmapHolder.ref of a node; runnables of decodeComplete
    stage, node, page, texture,     \* the worker, its node, bitmap and texture
    image,              \* the bitmap of the page animation
    leaked              \* history: bitmaps of pages whose task has failed

manager == <<pool, used, memoryUsed, memoryPooled, created, live, age>>
threads == <<todo, picked, want>>
worker == <<stage, node, page, texture>>
vars == <<pool, used, releasing, memoryUsed, memoryPooled, created, live, age, todo,
          picked, want, parts, holder, posted, stage, node, page, texture, image, leaked>>

-----------------------------------------------------------------------------
Pooled == {r \in Refs : pool[r] > 0}

\* release() and clear(), phase by phase.
ReleasePhases == <<"age", "remove", "drain", "shrink">>
ClearPhases == <<"ageAll", "remove">> \o ReleasePhases \o <<"shrinkAll">>

\* Occurrences after one more, or one less if there is one.
Plus(bag, x) == [bag EXCEPT ![x] = @ + 1]
Minus(bag, x) == IF bag[x] = 0 THEN bag ELSE [bag EXCEPT ![x] = @ - 1]

\* release(ref) of a ref that may be null: the queue.
Queued(r) == IF r = NoRef THEN releasing ELSE Plus(releasing, r)

\* The write lock of a texture that the worker reuses.
Locked(x) == stage = "reuse" /\ texture = x

\* A thread that is neither in getBitmap nor in release() or clear().
Free(t) == todo[t] = <<>> /\ want[t] = "none" /\ picked[t] = NoRef

\* The worker at one of its own steps.
WorkerAt(s) == stage = s /\ Free("worker")

Init ==
    /\ pool = [r \in Refs |-> 0]
    /\ used = {}
    /\ releasing = [e \in Refs \cup Textures |-> 0]
    /\ memoryUsed = 0 /\ memoryPooled = 0
    /\ created = {} /\ live = {}
    /\ age = [r \in Refs |-> 0]
    /\ todo = [t \in Threads |-> <<>>]
    /\ picked = [t \in Threads |-> NoRef]
    /\ want = [t \in Threads |-> "none"]
    /\ parts = [x \in Textures |-> NoRef]
    /\ holder = [n \in Nodes |-> NoTexture]
    /\ posted = <<>>
    /\ stage = "idle" /\ node = NoNode /\ page = NoRef /\ texture = NoTexture
    /\ image = NoRef
    /\ leaked = {}

-----------------------------------------------------------------------------
(* getBitmap of thread t.                                                   *)

\* The bitmap is handed to the caller.
Deliver(t, r) ==
    /\ want' = [want EXCEPT ![t] = "none"]
    /\ page' = IF want[t] = "page" THEN r ELSE page
    /\ parts' = IF want[t] = "part" THEN [parts EXCEPT ![texture] = r] ELSE parts
    /\ image' = IF want[t] = "image" THEN r ELSE image
    /\ UNCHANGED <<releasing, holder, posted, stage, node, texture, leaked>>

Getting(t) == want[t] # "none" /\ todo[t] = <<>>

\* The iterator meets a bitmap that fits.
Pick(t) ==
    /\ Getting(t) /\ picked[t] = NoRef
    /\ \E r \in Pooled \cap live : picked' = [picked EXCEPT ![t] = r]
    /\ UNCHANGED <<manager, todo, want, releasing, parts, holder, posted, worker,
                   image, leaked>>

\* Mutant: the bitmap is given out and stays in the pool.
TakeKeepsPooled(t) ==
    /\ Getting(t) /\ picked[t] # NoRef
    /\ memoryUsed < MaxMemory
    /\ LET r == picked[t]
       IN  /\ used' = used \cup {r}
           /\ age' = [age EXCEPT ![r] = 0]
           /\ Deliver(t, r)
    /\ memoryPooled' = memoryPooled - 1
    /\ memoryUsed' = memoryUsed + 1
    /\ picked' = [picked EXCEPT ![t] = NoRef]
    /\ UNCHANGED <<pool, created, live, todo>>

\* It is removed from the pool, if it is still there, and is in use.
Take(t) ==
    /\ Getting(t) /\ picked[t] # NoRef
    /\ memoryUsed < MaxMemory
    /\ LET r == picked[t]
       IN  /\ pool' = Minus(pool, r)
           /\ used' = used \cup {r}
           /\ age' = [age EXCEPT ![r] = 0]
           /\ Deliver(t, r)
    /\ memoryPooled' = memoryPooled - 1
    /\ memoryUsed' = memoryUsed + 1
    /\ picked' = [picked EXCEPT ![t] = NoRef]
    /\ UNCHANGED <<created, live, todo>>

\* Mutant: the pool is not shrunk when a bitmap is created.
CreateOnly(t) ==
    /\ Getting(t) /\ picked[t] = NoRef
    /\ \E r \in Refs \ created :
          /\ created' = created \cup {r}
          /\ live' = live \cup {r}
          /\ used' = used \cup {r}
          /\ age' = [age EXCEPT ![r] = 0]
          /\ Deliver(t, r)
    /\ memoryUsed' = memoryUsed + 1
    /\ UNCHANGED <<pool, memoryPooled, picked, todo>>

\* Nothing fits: a bitmap is created, then the pool is shrunk.
Create(t) ==
    /\ Getting(t) /\ picked[t] = NoRef
    /\ \E r \in Refs \ created :
          /\ created' = created \cup {r}
          /\ live' = live \cup {r}
          /\ used' = used \cup {r}
          /\ age' = [age EXCEPT ![r] = 0]
          /\ Deliver(t, r)
    /\ memoryUsed' = memoryUsed + 1
    /\ todo' = [todo EXCEPT ![t] = <<"shrink">>]
    /\ UNCHANGED <<pool, memoryPooled, picked>>

GetBitmap(t) == Pick(t) \/ Take(t) \/ Create(t)

-----------------------------------------------------------------------------
(* release() and clear() of thread t, one phase after the other.            *)

At(t, phase) == todo[t] # <<>> /\ Head(todo[t]) = phase

NextPhase(t) == todo' = [todo EXCEPT ![t] = Tail(@)]

\* The generation advances, by one or far enough to outdate the whole pool.
Age(t) ==
    /\ \/ /\ At(t, "age")
          /\ age' = [r \in Refs |-> IF age[r] > Threshold THEN age[r] ELSE age[r] + 1]
       \/ /\ At(t, "ageAll")
          /\ age' = [r \in Refs |-> Threshold + 1]
    /\ NextPhase(t)
    /\ UNCHANGED <<pool, used, memoryUsed, memoryPooled, created, live, picked, want,
                   releasing, parts, holder, posted, worker, image, leaked>>

\* removeOldRefs: the iterator meets an old bitmap.
PickOld(t) ==
    /\ At(t, "remove") /\ picked[t] = NoRef
    /\ \E r \in Pooled : age[r] > Threshold /\ picked' = [picked EXCEPT ![t] = r]
    /\ UNCHANGED <<manager, todo, want, releasing, parts, holder, posted, worker,
                   image, leaked>>

\* Mutant: the memory of the bitmap is still counted as pooled.
DropOldUncounted(t) ==
    /\ At(t, "remove") /\ picked[t] # NoRef
    /\ pool' = Minus(pool, picked[t])
    /\ live' = live \ {picked[t]}
    /\ picked' = [picked EXCEPT ![t] = NoRef]
    /\ UNCHANGED <<used, memoryUsed, memoryPooled, created, age, todo, want, releasing,
                   parts, holder, posted, worker, image, leaked>>

\* Mutant: the old bitmap is removed and not recycled.
DropOldAlive(t) ==
    /\ At(t, "remove") /\ picked[t] # NoRef
    /\ pool' = Minus(pool, picked[t])
    /\ memoryPooled' = memoryPooled - 1
    /\ picked' = [picked EXCEPT ![t] = NoRef]
    /\ UNCHANGED <<used, live, memoryUsed, created, age, todo, want, releasing, parts,
                   holder, posted, worker, image, leaked>>

\* The old bitmap is removed and recycled.
DropOld(t) ==
    /\ At(t, "remove") /\ picked[t] # NoRef
    /\ pool' = Minus(pool, picked[t])
    /\ live' = live \ {picked[t]}
    /\ memoryPooled' = memoryPooled - 1
    /\ picked' = [picked EXCEPT ![t] = NoRef]
    /\ UNCHANGED <<used, memoryUsed, created, age, todo, want, releasing, parts, holder,
                   posted, worker, image, leaked>>

EndRemove(t) ==
    /\ At(t, "remove") /\ picked[t] = NoRef
    /\ \A r \in Pooled : age[r] <= Threshold
    /\ NextPhase(t)
    /\ UNCHANGED <<manager, picked, want, releasing, parts, holder, posted, worker,
                   image, leaked>>

\* releaseImpl
ReleaseImpl(r) ==
    /\ pool' = Plus(pool, r)
    /\ used' = used \ {r}
    /\ memoryUsed' = IF r \in used THEN memoryUsed - 1 ELSE memoryUsed
    /\ memoryPooled' = memoryPooled + 1
    /\ UNCHANGED <<created, live, age>>

DrainRef(t) ==
    /\ At(t, "drain")
    /\ \E r \in Refs :
          /\ releasing[r] > 0
          /\ releasing' = Minus(releasing, r)
          /\ ReleaseImpl(r)
    /\ UNCHANGED <<threads, parts, holder, posted, worker, image, leaked>>

\* Mutant: the texture keeps its bitmap.
DrainTextureKeepsParts(t) ==
    /\ At(t, "drain")
    /\ \E x \in Textures :
          /\ releasing[x] > 0 /\ ~Locked(x)
          /\ releasing' = Minus(releasing, x)
          /\ IF parts[x] = NoRef THEN UNCHANGED manager ELSE ReleaseImpl(parts[x])
    /\ UNCHANGED <<threads, parts, holder, posted, worker, image, leaked>>

\* A texture loses its bitmap under its write lock.
DrainTexture(t) ==
    /\ At(t, "drain")
    /\ \E x \in Textures :
          /\ releasing[x] > 0 /\ ~Locked(x)
          /\ releasing' = Minus(releasing, x)
          /\ parts' = [parts EXCEPT ![x] = NoRef]
          /\ IF parts[x] = NoRef THEN UNCHANGED manager ELSE ReleaseImpl(parts[x])
    /\ UNCHANGED <<threads, holder, posted, worker, image, leaked>>

EndDrain(t) ==
    /\ At(t, "drain")
    /\ \A e \in DOMAIN releasing : releasing[e] = 0
    /\ NextPhase(t)
    /\ UNCHANGED <<manager, picked, want, releasing, parts, holder, posted, worker,
                   image, leaked>>

TooMuch(limit) == memoryPooled + memoryUsed > limit /\ Pooled # {}

\* shrinkPool: one bitmap is polled and recycled, or it is done.
ShrinkTo(t, limit) ==
    \/ /\ TooMuch(limit)
       /\ \E r \in Pooled : pool' = Minus(pool, r) /\ live' = live \ {r}
       /\ memoryPooled' = memoryPooled - 1
       /\ UNCHANGED <<used, memoryUsed, created, age, todo>>
    \/ /\ ~TooMuch(limit)
       /\ NextPhase(t)
       /\ UNCHANGED manager

Shrink(t) ==
    /\ \/ At(t, "shrink") /\ ShrinkTo(t, Limit)
       \/ At(t, "shrinkAll") /\ ShrinkTo(t, 0)
    /\ UNCHANGED <<picked, want, releasing, parts, holder, posted, worker, image, leaked>>

Release(t) ==
    \/ Age(t) \/ PickOld(t) \/ DropOld(t) \/ EndRemove(t)
    \/ DrainRef(t) \/ DrainTexture(t) \/ EndDrain(t) \/ Shrink(t)

-----------------------------------------------------------------------------
(* The worker: a decode task for a node.                                    *)

\* Executor.run: release(), then the task.
TakeTask(n) ==
    /\ WorkerAt("idle")
    /\ stage' = "render" /\ node' = n
    /\ todo' = [todo EXCEPT !["worker"] = ReleasePhases]
    /\ UNCHANGED <<manager, picked, want, releasing, parts, holder, posted, page,
                   texture, image, leaked>>

\* renderBitmap gets a bitmap for the page.
Render ==
    /\ WorkerAt("render")
    /\ stage' = "rendered"
    /\ want' = [want EXCEPT !["worker"] = "page"]
    /\ UNCHANGED <<manager, todo, picked, releasing, parts, holder, posted, node, page,
                   texture, image, leaked>>

\* The end of a task: its bitmap is released.
EndWith(queue) ==
    /\ releasing' = queue
    /\ stage' = "idle" /\ node' = NoNode /\ page' = NoRef /\ texture' = NoTexture

\* The task is dead, or the node gets no texture.
Abort ==
    /\ WorkerAt("rendered")
    /\ EndWith(Queued(page))
    /\ UNCHANGED <<manager, threads, parts, holder, posted, image, leaked>>

\* An exception between renderBitmap and finishDecoding, by what it renders into
\* or by getPageLinks: the task is aborted without its bitmap.
Fail ==
    /\ WorkerAt("rendered")
    /\ TasksFail \/ page \notin live
    /\ leaked' = leaked \cup {page}
    /\ EndWith(releasing)
    /\ UNCHANGED <<manager, threads, parts, holder, posted, image>>

\* A texture that nobody has.
Unreachable(x) ==
    /\ releasing[x] = 0 /\ texture # x
    /\ \A n \in Nodes : holder[n] # x
    /\ \A i \in DOMAIN posted : posted[i].texture # x

\* BitmapHolder.reuse: a new texture, with a bitmap for its part.  The user may
\* have switched reuse off or changed the size of the parts at any time.
NewTexture ==
    /\ WorkerAt("rendered") /\ page \in live
    /\ \E x \in Textures : Unreachable(x) /\ parts[x] = NoRef /\ texture' = x
    /\ stage' = "new"
    /\ want' = [want EXCEPT !["worker"] = "part"]
    /\ UNCHANGED <<manager, todo, picked, releasing, parts, holder, posted, node,
                   page, image, leaked>>

\* Bitmaps.reuse: the texture of the node, its bitmap replaced if it has none
\* or a recycled one.
ReuseTexture ==
    /\ WorkerAt("rendered") /\ page \in live
    /\ holder[node] # NoTexture
    /\ LET x == holder[node]
           old == parts[x]
       IN  /\ texture' = x
           /\ IF old \in live
              THEN UNCHANGED <<releasing, parts, want>>
              ELSE /\ releasing' = Queued(old)
                   /\ parts' = [parts EXCEPT ![x] = NoRef]
                   /\ want' = [want EXCEPT !["worker"] = "part"]
    /\ stage' = "reuse"
    /\ UNCHANGED <<manager, todo, picked, holder, posted, node, page, image, leaked>>

\* Mutant: the bitmap of the page is not released.
FinishKeepsPage ==
    /\ stage \in {"new", "reuse"} /\ Free("worker")
    /\ Len(posted) < MaxPosted
    /\ parts[texture] \in live
    /\ posted' = Append(posted, [node |-> node, texture |-> texture])
    /\ EndWith(releasing)
    /\ UNCHANGED <<manager, threads, parts, holder, image, leaked>>

\* The page is copied into the texture, which is posted to the UI thread; an
\* exception ends the task without that.  The bitmap of the page is released.
Finish ==
    /\ stage \in {"new", "reuse"} /\ Free("worker")
    /\ \/ /\ parts[texture] \in live
          /\ Len(posted) < MaxPosted
          /\ posted' = Append(posted, [node |-> node, texture |-> texture])
       \/ /\ TasksFail \/ parts[texture] \notin live
          /\ UNCHANGED posted
    /\ EndWith(Queued(page))
    /\ UNCHANGED <<manager, threads, parts, holder, image, leaked>>

\* createBitmap runs out of memory: clear(), then the task ends.
OutOfMemory ==
    /\ TasksFail
    /\ Getting("worker") /\ picked["worker"] = NoRef
    /\ want' = [want EXCEPT !["worker"] = "none"]
    /\ todo' = [todo EXCEPT !["worker"] = ClearPhases]
    /\ stage' = "clearing"
    /\ UNCHANGED <<manager, picked, releasing, parts, holder, posted, node, page,
                   texture, image, leaked>>

EndClear ==
    /\ WorkerAt("clearing")
    /\ EndWith(Queued(page))
    /\ UNCHANGED <<manager, threads, parts, holder, posted, image, leaked>>

-----------------------------------------------------------------------------
(* The UI thread.                                                           *)

\* A list with a texture is queued.
QueuedTexture(x) == IF x = NoTexture THEN releasing ELSE Plus(releasing, x)

\* The runnable of decodeComplete: BitmapHolder.setBitmap.
RunPosted ==
    /\ Free("ui") /\ posted # <<>>
    /\ LET n == Head(posted).node
           x == Head(posted).texture
       IN  /\ holder' = [holder EXCEPT ![n] = x]
           /\ releasing' = QueuedTexture(IF holder[n] = x THEN NoTexture ELSE holder[n])
    /\ posted' = Tail(posted)
    /\ UNCHANGED <<manager, threads, parts, worker, image, leaked>>

\* An event gives up the image of a node.
RecycleNode(n) ==
    /\ Free("ui") /\ holder[n] # NoTexture
    /\ releasing' = Plus(releasing, holder[n])
    /\ holder' = [holder EXCEPT ![n] = NoTexture]
    /\ UNCHANGED <<manager, threads, parts, posted, worker, image, leaked>>

\* A document is closed: its nodes give up their images, then release().
RecyclePages ==
    /\ UiReleases
    /\ Free("ui")
    /\ releasing' = [e \in DOMAIN releasing |->
                        releasing[e] + Cardinality({n \in Nodes : holder[n] = e})]
    /\ holder' = [n \in Nodes |-> NoTexture]
    /\ todo' = [todo EXCEPT !["ui"] = ReleasePhases]
    /\ UNCHANGED <<manager, picked, want, parts, posted, worker, image, leaked>>

\* A page animation is drawn into a bitmap that has the size of the view.
DrawImage ==
    /\ UiGets
    /\ Free("ui")
    /\ releasing' = Queued(image)
    /\ image' = NoRef
    /\ want' = [want EXCEPT !["ui"] = "image"]
    /\ UNCHANGED <<manager, todo, picked, parts, holder, posted, worker, leaked>>

\* A zoomed view is not animated.
DropImage ==
    /\ Free("ui") /\ image # NoRef
    /\ releasing' = Queued(image)
    /\ image' = NoRef
    /\ UNCHANGED <<manager, threads, parts, holder, posted, worker, leaked>>

\* Bitmaps.finalize
FinalizeTexture(x) ==
    /\ Unreachable(x) /\ parts[x] # NoRef
    /\ releasing' = Queued(parts[x])
    /\ parts' = [parts EXCEPT ![x] = NoRef]
    /\ UNCHANGED <<manager, threads, holder, posted, worker, image, leaked>>

-----------------------------------------------------------------------------
Next ==
    \/ \E t \in Threads : GetBitmap(t) \/ Release(t)
    \/ \E n \in Nodes : TakeTask(n)
    \/ Render \/ Abort \/ Fail \/ NewTexture \/ ReuseTexture \/ Finish
    \/ OutOfMemory \/ EndClear
    \/ RunPosted \/ (\E n \in Nodes : RecycleNode(n)) \/ RecyclePages
    \/ DrawImage \/ DropImage
    \/ \E x \in Textures : FinalizeTexture(x)

Spec == Init /\ [][Next]_vars
-----------------------------------------------------------------------------
(* Properties.                                                              *)

TypeOK ==
    /\ pool \in [Refs -> Nat]
    /\ used \subseteq created /\ live \subseteq created /\ created \subseteq Refs
    /\ releasing \in [Refs \cup Textures -> Nat]
    /\ memoryUsed \in Int /\ memoryPooled \in Int
    /\ age \in [Refs -> 0 .. Threshold + 1]
    /\ todo \in [Threads -> Seq({"age", "ageAll", "remove", "drain", "shrink", "shrinkAll"})]
    /\ picked \in [Threads -> Refs \cup {NoRef}]
    /\ want \in [Threads -> {"none", "page", "part", "image"}]
    /\ parts \in [Textures -> Refs \cup {NoRef}]
    /\ holder \in [Nodes -> Textures \cup {NoTexture}]
    /\ posted \in Seq([node : Nodes, texture : Textures])
    /\ stage \in {"idle", "render", "rendered", "new", "reuse", "clearing"}
    /\ node \in Nodes \cup {NoNode}
    /\ page \in Refs \cup {NoRef}
    /\ texture \in Textures \cup {NoTexture}
    /\ image \in Refs \cup {NoRef}
    /\ leaked \subseteq Refs
    /\ stage = "idle" => node = NoNode
    /\ stage \in {"idle", "render"} => page = NoRef /\ texture = NoTexture

\* Those who may draw on or give back the bitmap r: the pool and the queue, as
\* often as it is in them, the textures, the worker and the page animation.
Owners(r) ==
    pool[r] + releasing[r] + Cardinality({x \in Textures : parts[x] = r})
        + (IF page = r THEN 1 ELSE 0) + (IF image = r THEN 1 ELSE 0)

\* No bitmap shows the images of two: it never has two owners, although a
\* texture may be queued twice, queued and shown, or queued and finalized.
OneOwner == \A r \in Refs : Owners(r) <= 1

\* A bitmap that is drawn into or shown is not recycled.
InUseIsLive ==
    /\ page # NoRef => page \in live
    /\ image # NoRef => image \in live
    /\ \A n \in Nodes : holder[n] # NoTexture /\ parts[holder[n]] # NoRef
                            => parts[holder[n]] \in live

\* The counters of memory say what the map and the pool hold.
CountersExact ==
    /\ memoryUsed = Cardinality(used)
    /\ memoryPooled = Cardinality(Pooled)

\* No bitmap is lost in the map: one that is in use will be given back,
\* unless its task has failed.
UsedIsOwned == \A r \in used \ leaked : Owners(r) > 0

\* Whatever two threads take, drop and release at once, the memory of a bitmap
\* is freed or the bitmap is in the map or in the pool.
LiveIsRecorded == live \subseteq used \cup Pooled

\* While no thread is at work on the pool, bitmaps wait in it for their reuse
\* only within the limit.
PoolIsBounded ==
    (\A t \in Threads : todo[t] = <<>>) /\ Pooled # {} =>
        Cardinality(used \cup Pooled) <= Limit

=============================================================================
