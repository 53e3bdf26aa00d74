---------------------------- MODULE DecodeService ----------------------------
(***************************************************************************)
(* The decode pipeline of the document viewer: the single worker thread    *)
(* DecodeServiceBase.Executor, its queue of tasks, the page-tree nodes     *)
(* that request images, the UI thread that scrolls, zooms and closes the   *)
(* document and runs what the worker posts to it, and the thread of a text *)
(* search.                                                                 *)
(*                                                                         *)
(* A critical section under Executor.lock is one action.  A handler of the *)
(* UI thread is split where it releases the lock in a way the worker can   *)
(* see: first the event is applied to the nodes, then decodePage is called *)
(* for one node after the other.                                           *)
(***************************************************************************)
EXTENDS Integers, Sequences, FiniteSets

CONSTANTS
    Nodes,        \* page-tree nodes (PageTreeNode objects) of the document
    Zooms,        \* views a node can be decoded for: a zoom and a view width
    MaxTasks,     \* bound on the decode tasks of a behaviour
    MaxSearches,  \* bound on the pages a text search asks about
    NoTask,       \* an empty slot of the queue, an absent map entry
    NoZoom        \* "no bitmap": the image of a failed decoding

ASSUME MaxTasksAssumption == MaxTasks \in Nat
ASSUME MaxSearchesAssumption == MaxSearches \in Nat
ASSUME NodesFinite == IsFiniteSet(Nodes)

DecodeTask == [kind : {"decode"}, id : Nat, node : Nodes, zoom : Zooms]
SearchTask == [kind : {"search"}, page : Nat]
Shutdown   == [kind |-> "shutdown"]
Task       == DecodeTask \cup SearchTask \cup {Shutdown}

ASSUME NoTaskAssumption == NoTask \notin Task
ASSUME NoZoomAssumption == NoZoom \notin Zooms

VARIABLES
    tasks,          \* Executor.tasks: an ArrayList whose slots may be null
    decodingTasks,  \* Executor.decodingTasks: the task of each node
    cancelled,      \* the decode tasks whose "cancelled" flag is set
    nextId,         \* the next task id (TASK_ID_SEQ)
    isRecycled,     \* DecodeServiceBase.isRecycled
    run,            \* Executor.run
    pc,             \* where the worker thread is
    current,        \* the task it executes
    decodingNow,    \* PageTreeNode.decodingNow
    bitmapZoom,     \* PageTreeNode.bitmapZoom
    holder,         \* PageTreeNode.holder: the task whose image is shown
    progress,       \* DecodingProgressModel.currentlyDecoding
    viewZoom,       \* the zoom of the current view state
    nodesToDecode,  \* AbstractEvent.nodesToDecode still to be submitted
    posted,         \* runnables handed to runOnUiThread, oldest first
    model,          \* the document model: open, being closed, closed
    searcher        \* the search thread: [pc, page, answered]

vars == <<tasks, decodingTasks, cancelled, nextId, isRecycled, run, pc, current,
          decodingNow, bitmapZoom, holder, progress, viewZoom, nodesToDecode,
          posted, model, searcher>>

-----------------------------------------------------------------------------
(* The list of tasks with its holes.                                        *)

Holes(q)  == {i \in DOMAIN q : q[i] = NoTask}
Filled(q) == {i \in DOMAIN q : q[i] # NoTask}
Queued    == {tasks[i] : i \in Filled(tasks)}

\* The first empty slot takes the task; without one it goes to the end.
Put(q, t) ==
    IF Holes(q) = {} THEN Append(q, t)
    ELSE [q EXCEPT ![CHOOSE i \in Holes(q) : \A j \in Holes(q) : i <= j] = t]

\* The slots that hold a task of S are set to null.
Blank(q, S) == [i \in DOMAIN q |-> IF q[i] \in S THEN NoTask ELSE q[i]]

\* Mutant: the shutdown task queues behind everything else.
PriorityShutdownLast(t) == CASE t.kind = "shutdown" -> 512
                             [] t.kind = "search"   -> 1
                             [] t.kind = "decode"   -> 256

Priority(t) == CASE t.kind = "shutdown" -> 0
                 [] t.kind = "search"   -> 1
                 [] t.kind = "decode"   -> 256

\* What TaskComparator may pick.  The order of two decode tasks depends on
\* the geometry of the view (PageTreeNodeComparator): any of them.
Candidates(q) == {i \in Filled(q) :
                    \A j \in Filled(q) : Priority(q[i]) <= Priority(q[j])}

-----------------------------------------------------------------------------
(* Critical sections of the executor.                                       *)

\* notifyAll on run: it reaches the worker only if it already waits there.
Notified == IF pc = "waiting" THEN "loop" ELSE pc

\* Mutant: the entry leaves the map, the task itself goes on.
StopDecodingMapOnly(S) ==
    /\ decodingTasks' = [n \in Nodes |-> IF n \in S THEN NoTask ELSE decodingTasks[n]]
    /\ UNCHANGED <<tasks, cancelled>>

\* stopDecoding(null, node, reason) for each node of S.
StopDecoding(S) ==
    LET removed == {decodingTasks[n] : n \in S} \ {NoTask}
    IN  /\ decodingTasks' = [n \in Nodes |-> IF n \in S THEN NoTask ELSE decodingTasks[n]]
        /\ cancelled' = cancelled \cup removed
        /\ tasks' = Blank(tasks, removed)

Live(t) == t # NoTask /\ t \notin cancelled

\* Mutant: the task that is replaced is not cancelled.
AddDecodeTaskKeepsOld(t) ==
    /\ decodingTasks' = [decodingTasks EXCEPT ![t.node] = t]
    /\ tasks' = Put(tasks, t)
    /\ pc' = Notified
    /\ UNCHANGED cancelled

\* add(DecodeTask): a live task for the same node and view makes the new one
\* superfluous; any other task of the node is cancelled by the new one.
AddDecodeTask(t) ==
    LET running == decodingTasks[t.node]
        similar == Live(running) /\ running.zoom = t.zoom
        old     == {running} \ {NoTask}
    IN  IF similar
        THEN UNCHANGED <<tasks, decodingTasks, cancelled, pc>>
        ELSE /\ decodingTasks' = [decodingTasks EXCEPT ![t.node] = t]
             /\ tasks' = Blank(Put(tasks, t), old)
             /\ cancelled' = cancelled \cup old
             /\ pc' = Notified

-----------------------------------------------------------------------------
Init ==
    /\ tasks = <<>>
    /\ decodingTasks = [n \in Nodes |-> NoTask]
    /\ cancelled = {}
    /\ nextId = 1
    /\ isRecycled = FALSE
    /\ run = TRUE
    /\ pc = "loop"
    /\ current = NoTask
    /\ decodingNow = [n \in Nodes |-> FALSE]
    /\ \E one \in Zooms : bitmapZoom = [n \in Nodes |-> one]
    /\ holder = [n \in Nodes |-> NoTask]
    /\ progress = 0
    /\ viewZoom \in Zooms
    /\ nodesToDecode = {}
    /\ posted = <<>>
    /\ model = "open"
    /\ searcher = [pc |-> "idle", page |-> 1, answered |-> FALSE]

-----------------------------------------------------------------------------
(* The UI thread.                                                           *)

\* The UI thread is between two handlers.
UiIdle == nodesToDecode = {} /\ model # "closing"

\* stopDecodingThisNode has an effect on the nodes that are being decoded,
\* decodePageTreeNode on those that are not: both compare-and-set decodingNow.
Stopped(S) == {n \in S : decodingNow[n]}
Started(S, stopped) == {n \in S : n \in stopped \/ ~decodingNow[n]}

\* BitmapHolder.hasBitmaps fails.
Blanks(S) == {n \in S : holder[n] = NoTask}

\* The effect on the nodes of one event: every node of "recycled" is
\* recycled, every node of "restarted" gives up its request, and then every
\* node of "wanted" that is not being decoded asks for an image at zoom z.
ApplyEvent(recycled, restarted, wanted, z) ==
    LET stopped == Stopped(recycled \cup restarted)
        started == Started(wanted, stopped)
    IN  /\ nextId + Cardinality(started) <= MaxTasks + 1
        /\ StopDecoding(stopped)
        /\ decodingNow' = [n \in Nodes |-> n \in started \/ (decodingNow[n] /\ n \notin stopped)]
        /\ bitmapZoom' = [n \in Nodes |-> IF n \in started THEN z ELSE bitmapZoom[n]]
        /\ holder' = [n \in Nodes |-> IF n \in recycled THEN NoTask ELSE holder[n]]
        /\ progress' = progress - Cardinality(stopped) + Cardinality(started)
        /\ nodesToDecode' = started
        /\ viewZoom' = z

\* AbstractEventScroll: nodes that leave the memory window are recycled,
\* kept ones without a bitmap are decoded.
Scroll ==
    /\ UiIdle /\ model = "open"
    /\ \E kept \in SUBSET Nodes :
          ApplyEvent(Nodes \ kept, {}, Blanks(kept), viewZoom)
    /\ UNCHANGED <<nextId, isRecycled, run, pc, current, posted, model, searcher>>

\* A committed EventZoomIn: a kept node decoded for another zoom is stopped
\* and decoded again.
ZoomIn ==
    /\ UiIdle /\ model = "open"
    /\ \E z \in Zooms \ {viewZoom}, kept \in SUBSET Nodes :
          LET outdated == {n \in kept : bitmapZoom[n] # z}
          IN  ApplyEvent(Nodes \ kept, outdated, outdated \cup Blanks(kept), z)
    /\ UNCHANGED <<nextId, isRecycled, run, pc, current, posted, model, searcher>>

\* A committed EventZoomOut: every visible node is decoded again, but a
\* request under way is not stopped.
ZoomOut ==
    /\ UiIdle /\ model = "open"
    /\ \E z \in Zooms \ {viewZoom}, kept \in SUBSET Nodes :
          \E visible \in SUBSET kept :
             ApplyEvent(Nodes \ kept, {}, visible, z)
    /\ UNCHANGED <<nextId, isRecycled, run, pc, current, posted, model, searcher>>

\* EventReset with clearPages: all nodes are recycled, then the kept ones
\* are decoded.  (Without clearPages it acts as Scroll.)
Reset ==
    /\ UiIdle /\ model = "open"
    /\ \E kept \in SUBSET Nodes : ApplyEvent(Nodes, {}, kept, viewZoom)
    /\ UNCHANGED <<nextId, isRecycled, run, pc, current, posted, model, searcher>>

\* decodePage for one of the nodes the event has collected.
DecodePage(n) ==
    /\ n \in nodesToDecode
    /\ nodesToDecode' = nodesToDecode \ {n}
    /\ IF isRecycled
       THEN UNCHANGED <<tasks, decodingTasks, cancelled, pc, nextId>>
       ELSE /\ AddDecodeTask([kind |-> "decode", id |-> nextId, node |-> n, zoom |-> viewZoom])
            /\ nextId' = nextId + 1
    /\ UNCHANGED <<isRecycled, run, current, decodingNow, bitmapZoom, holder,
                   progress, viewZoom, posted, model, searcher>>

\* Mutant: the runnable decreases the progress without looking at decodingNow.
RunPostedAlwaysDecreases ==
    /\ UiIdle
    /\ posted # <<>>
    /\ LET r == Head(posted)
       IN  /\ decodingNow' = [decodingNow EXCEPT ![r.task.node] = FALSE]
           /\ progress' = progress - 1
           /\ holder' = IF r.image THEN [holder EXCEPT ![r.task.node] = r.task] ELSE holder
    /\ posted' = Tail(posted)
    /\ UNCHANGED <<tasks, decodingTasks, cancelled, nextId, isRecycled, run, pc, current,
                   bitmapZoom, viewZoom, nodesToDecode, model, searcher>>

\* The runnable of decodeComplete: show the image, end the node's request and
\* recycle the nodes that EventChildLoaded finds covered by it.
RunPosted ==
    /\ UiIdle
    /\ posted # <<>>
    /\ LET r == Head(posted)
           n == r.task.node
       IN  \E covered \in IF r.image THEN SUBSET (Nodes \ {n}) ELSE {{}} :
             LET ended == Stopped(covered \cup {n})
             IN  /\ StopDecoding(ended \ {n})
                 /\ decodingNow' = [m \in Nodes |-> decodingNow[m] /\ m \notin ended]
                 /\ progress' = progress - Cardinality(ended)
                 /\ holder' = [m \in Nodes |->
                                 IF m \in covered THEN NoTask
                                 ELSE IF m = n /\ r.image THEN r.task ELSE holder[m]]
    /\ posted' = Tail(posted)
    /\ UNCHANGED <<nextId, isRecycled, run, pc, current, bitmapZoom, viewZoom,
                   nodesToDecode, model, searcher>>

\* DocumentModel.recycle, first half: DecodeServiceBase.recycle.
Recycle ==
    /\ UiIdle /\ model = "open"
    /\ isRecycled' = TRUE
    /\ LET all == {decodingTasks[n] : n \in Nodes} \ {NoTask}
       IN  /\ cancelled' = cancelled \cup all
           /\ tasks' = Append(Blank(tasks, all), Shutdown)
    /\ pc' = Notified
    /\ model' = "closing"
    /\ UNCHANGED <<decodingTasks, nextId, run, current, decodingNow, bitmapZoom, holder,
                   progress, viewZoom, nodesToDecode, posted, searcher>>

\* DocumentModel.recycle, second half: every node of every page is recycled.
RecyclePages ==
    /\ model = "closing"
    /\ model' = "closed"
    /\ StopDecoding(Stopped(Nodes))
    /\ progress' = progress - Cardinality(Stopped(Nodes))
    /\ decodingNow' = [n \in Nodes |-> FALSE]
    /\ holder' = [n \in Nodes |-> NoTask]
    /\ UNCHANGED <<nextId, isRecycled, run, pc, current, bitmapZoom, viewZoom,
                   nodesToDecode, posted, searcher>>

-----------------------------------------------------------------------------
(* The worker thread.                                                       *)

\* nextTask with a task in the list: the best one leaves a hole behind.
TakeTask ==
    /\ pc = "loop" /\ run
    /\ \E i \in Candidates(tasks) :
          /\ current' = tasks[i]
          /\ tasks' = [tasks EXCEPT ![i] = NoTask]
          /\ pc' = CASE tasks[i].kind = "decode"   -> "getPage"
                     [] tasks[i].kind = "search"   -> "search"
                     [] tasks[i].kind = "shutdown" -> "shutdown"
    /\ UNCHANGED <<decodingTasks, cancelled, nextId, isRecycled, run, decodingNow,
                   bitmapZoom, holder, progress, viewZoom, nodesToDecode, posted,
                   model, searcher>>

\* nextTask with nothing but holes in the list.
ClearTasks ==
    /\ pc = "loop" /\ run
    /\ tasks # <<>> /\ Filled(tasks) = {}
    /\ tasks' = <<>>
    /\ UNCHANGED <<decodingTasks, cancelled, nextId, isRecycled, run, pc, current,
                   decodingNow, bitmapZoom, holder, progress, viewZoom, nodesToDecode,
                   posted, model, searcher>>

WorkerStep(from, to) ==
    /\ pc = from
    /\ pc' = to
    /\ UNCHANGED <<tasks, decodingTasks, cancelled, nextId, isRecycled, run,
                   decodingNow, bitmapZoom, holder, progress, viewZoom,
                   nodesToDecode, model>>

\* nextTask with an empty list: the lock is released, then the thread waits.
\* What is added between the two does not wake it.
FindEmpty == run /\ tasks = <<>> /\ WorkerStep("loop", "parking")
                 /\ UNCHANGED <<current, posted, searcher>>
Park      == WorkerStep("parking", "waiting") /\ UNCHANGED <<current, posted, searcher>>
\* Mutant: an untimed wait.
TimeoutNever == FALSE
\* The wait ends by itself after 60 seconds.
Timeout   == WorkerStep("waiting", "loop") /\ UNCHANGED <<current, posted, searcher>>
Exit      == ~run /\ WorkerStep("loop", "done") /\ UNCHANGED <<current, posted, searcher>>

\* performDecode up to its last check of isTaskDead: before each of getPage,
\* checkCropping, renderBitmap and finishDecoding a dead task is dropped;
\* each of them may throw, which aborts the task.
Stages == {"getPage", "crop", "render", "deliver"}
After(s) == CASE s = "getPage" -> "crop"
              [] s = "crop"    -> "render"
              [] s = "render"  -> "deliver"
              [] s = "deliver" -> "finish"

DropDead ==
    /\ current \in cancelled
    /\ \E s \in Stages : WorkerStep(s, "loop")
    /\ current' = NoTask
    /\ UNCHANGED <<posted, searcher>>

NextStage ==
    /\ current \notin cancelled
    /\ \E s \in Stages : \E to \in {After(s), "abort"} : WorkerStep(s, to)
    /\ UNCHANGED <<current, posted, searcher>>

\* finishDecoding and abortDecoding: the node's entry leaves the map - whose
\* task may by now be a younger one - and the task it held is cancelled.
FinishDecoding ==
    /\ pc \in {"finish", "abort"}
    /\ pc' = IF pc = "finish" THEN "post" ELSE "postFailure"
    /\ StopDecoding({current.node})
    /\ UNCHANGED <<nextId, isRecycled, run, current, decodingNow, bitmapZoom, holder,
                   progress, viewZoom, nodesToDecode, posted, model, searcher>>

\* Mutant: nothing is posted when there is no image.
DecodeCompleteOnlyImages ==
    /\ WorkerStep("post", "loop") \/ WorkerStep("postFailure", "loop")
    /\ posted' = IF pc = "post" THEN Append(posted, [task |-> current, image |-> TRUE])
                 ELSE posted
    /\ current' = NoTask
    /\ UNCHANGED searcher

\* PageTreeNode.decodeComplete: the runnable goes to the UI thread; without
\* an image when the task failed or memory ran out.
DecodeComplete ==
    /\ WorkerStep("post", "loop") \/ WorkerStep("postFailure", "loop")
    /\ \E image \in {FALSE, pc = "post"} :
          posted' = Append(posted, [task |-> current, image |-> image])
    /\ current' = NoTask
    /\ UNCHANGED searcher

\* decodeComplete throws: performDecode catches it and aborts the task.
DecodeCompleteFails ==
    WorkerStep("post", "abort") /\ UNCHANGED <<current, posted, searcher>>

\* Mutant: no callback when the search throws.
RunSearchSilent ==
    /\ WorkerStep("search", "loop")
    /\ searcher' \in {searcher, [searcher EXCEPT !.answered = TRUE]}
    /\ current' = NoTask
    /\ UNCHANGED posted

\* SearchTask.run: the callback is called whatever the search throws.
RunSearch ==
    /\ WorkerStep("search", "loop")
    /\ searcher' = [searcher EXCEPT !.answered = TRUE]
    /\ current' = NoTask
    /\ UNCHANGED posted

\* ShutdownTask.run: the codec is freed and the loop ends.
RunShutdown ==
    /\ pc = "shutdown"
    /\ pc' = "loop"
    /\ run' = FALSE
    /\ current' = NoTask
    /\ UNCHANGED <<tasks, decodingTasks, cancelled, nextId, isRecycled, decodingNow,
                   bitmapZoom, holder, progress, viewZoom, nodesToDecode, posted,
                   model, searcher>>

-----------------------------------------------------------------------------
(* The thread of a text search asks about one page after the other.         *)

\* searchText reads isRecycled; on a recycled service it returns without a
\* callback, and the search waits all the same.
SearchText ==
    /\ searcher.pc = "idle" /\ searcher.page <= MaxSearches
    /\ searcher' = [searcher EXCEPT !.pc = IF isRecycled THEN "waiting" ELSE "adding",
                                    !.answered = FALSE]
    /\ UNCHANGED <<tasks, decodingTasks, cancelled, nextId, isRecycled, run, pc, current,
                   decodingNow, bitmapZoom, holder, progress, viewZoom, nodesToDecode,
                   posted, model>>

AddSearchTask ==
    /\ searcher.pc = "adding"
    /\ searcher' = [searcher EXCEPT !.pc = "waiting"]
    /\ tasks' = Put(tasks, [kind |-> "search", page |-> searcher.page])
    /\ pc' = Notified
    /\ UNCHANGED <<decodingTasks, cancelled, nextId, isRecycled, run, current,
                   decodingNow, bitmapZoom, holder, progress, viewZoom, nodesToDecode,
                   posted, model>>

\* The latch is open: on to the next page.
SearchNextPage ==
    /\ searcher.pc = "waiting" /\ searcher.answered
    /\ searcher' = [searcher EXCEPT !.pc = "idle", !.page = @ + 1]
    /\ UNCHANGED <<tasks, decodingTasks, cancelled, nextId, isRecycled, run, pc, current,
                   decodingNow, bitmapZoom, holder, progress, viewZoom, nodesToDecode,
                   posted, model>>

-----------------------------------------------------------------------------
Event == Scroll \/ ZoomIn \/ ZoomOut \/ Reset

Ui == Event \/ (\E n \in Nodes : DecodePage(n)) \/ RunPosted \/ Recycle \/ RecyclePages

Worker == \/ TakeTask \/ ClearTasks \/ FindEmpty \/ Park \/ Timeout \/ Exit
          \/ DropDead \/ NextStage \/ FinishDecoding \/ DecodeComplete
          \/ DecodeCompleteFails \/ RunSearch \/ RunShutdown

Searcher == SearchText \/ AddSearchTask \/ SearchNextPage

Next == Ui \/ Worker \/ Searcher

Spec == Init /\ [][Next]_vars

\* The worker and the search are threads of their own; the UI thread goes on
\* with a handler it has begun and with what is posted to it.
Fairness ==
    /\ WF_vars(Worker)
    /\ WF_vars(RunPosted)
    /\ WF_vars(\E n \in Nodes : DecodePage(n))
    /\ WF_vars(RecyclePages)
    /\ WF_vars(Searcher)

FairSpec == Spec /\ Fairness
-----------------------------------------------------------------------------
(* Properties.                                                              *)

DecodingPcs == {"getPage", "crop", "render", "deliver", "finish", "abort", "post", "postFailure"}

WorkerPcs == {"loop", "parking", "waiting", "search", "shutdown", "done"} \cup DecodingPcs

Posted == [task : DecodeTask, image : BOOLEAN]

\* Every variable has the type its field has in the code, and the worker has
\* a task of the right kind exactly while it executes one.
TypeOK ==
    /\ tasks \in Seq(Task \cup {NoTask})
    /\ decodingTasks \in [Nodes -> DecodeTask \cup {NoTask}]
    /\ cancelled \in SUBSET DecodeTask
    /\ nextId \in Nat
    /\ isRecycled \in BOOLEAN
    /\ run \in BOOLEAN
    /\ pc \in WorkerPcs
    /\ current \in Task \cup {NoTask}
    /\ pc \in DecodingPcs => current \in DecodeTask
    /\ decodingNow \in [Nodes -> BOOLEAN]
    /\ bitmapZoom \in [Nodes -> Zooms]
    /\ holder \in [Nodes -> DecodeTask \cup {NoTask}]
    /\ progress \in Int
    /\ viewZoom \in Zooms
    /\ nodesToDecode \in SUBSET Nodes
    /\ posted \in Seq(Posted)
    /\ model \in {"open", "closing", "closed"}
    /\ searcher \in [pc : {"idle", "adding", "waiting"}, page : Nat, answered : BOOLEAN]

\* The list and the map agree: a decode task that waits in a slot is the one
\* its node has in the map, and it is not cancelled (so the worker never picks
\* up a superseded request, and no node waits twice); and a task in the map that
\* nobody cancelled is not lost: it waits in a slot or the worker is executing it.
QueueMatchesMap ==
    /\ \A i \in Filled(tasks) : tasks[i] \in DecodeTask =>
          /\ decodingTasks[tasks[i].node] = tasks[i]
          /\ Live(tasks[i])
          /\ \A j \in Filled(tasks) : tasks[j] = tasks[i] => j = i
    /\ \A n \in Nodes : Live(decodingTasks[n]) =>
          decodingTasks[n] \in Queued \cup {current}

\* A node whose decodingNow flag is set will be told the outcome: its request
\* is about to be submitted, is live, is being concluded by the worker, or its
\* runnable is on the way to the UI thread.  A node for which this fails shows
\* a spinner for ever and is never decoded again.
NoNodeForgotten ==
    \A n \in Nodes : decodingNow[n] =>
        \/ n \in nodesToDecode
        \/ Live(decodingTasks[n])
        \/ pc \in {"abort", "post", "postFailure"} /\ current.node = n
        \/ \E i \in DOMAIN posted : posted[i].task.node = n
        \/ model = "closing"

\* What makes NoNodeForgotten inductive: the map files a task under its own
\* node, ids are handed out once, and the UI submits nothing once it closes.
MapIsByNode == \A n \in Nodes : decodingTasks[n] # NoTask => decodingTasks[n].node = n

IdsAreUsed ==
    /\ \A n \in Nodes : decodingTasks[n] # NoTask => decodingTasks[n].id < nextId
    /\ \A t \in cancelled : t.id < nextId

ClosingIsOrdered ==
    /\ nodesToDecode # {} => model = "open"
    /\ isRecycled <=> model # "open"

RequestInv == MapIsByNode /\ IdsAreUsed /\ ClosingIsOrdered /\ NoNodeForgotten

\* The number the progress listeners show is the number of nodes that wait
\* for an image, whatever order stops, restarts and answers come in.
ProgressIsExact == progress = Cardinality({n \in Nodes : decodingNow[n]})

\* The images of a node arrive in the order of its requests: what is shown,
\* what is posted, what the worker holds and what waits are ever younger.
ImagesInOrder ==
    /\ \A i, j \in DOMAIN posted :
          i < j /\ posted[i].task.node = posted[j].task.node
             => posted[i].task.id < posted[j].task.id
    /\ \A i \in DOMAIN posted : LET t == posted[i].task IN
          /\ holder[t.node] # NoTask => holder[t.node].id < t.id
          /\ pc \in DecodingPcs /\ current.node = t.node => t.id < current.id

\* Every request of a node is concluded: no spinner turns for ever.
SpinnerStops == \A n \in Nodes : decodingNow[n] ~> ~decodingNow[n]

\* A page asked about is answered, or the service has been recycled.
SearchAnswered ==
    searcher.pc = "waiting" ~> searcher.pc # "waiting" \/ isRecycled

\* A recycled service frees its codec and its thread ends.
WorkerEnds == isRecycled ~> pc = "done"

\* The list of slots, the map and the flags implement the pool of tasks: the
\* holes lose nothing, a replaced request never comes up, no task runs twice, the
\* shutdown is the next task once it is there, and the last.  The worker serves the
\* pool fairly, its waiting with a lost wake-up included.
Pool == INSTANCE TaskPool WITH
    Pages <- 1 .. MaxSearches,
    waiting <- Queued, executing <- current, nextId <- nextId, open <- run

ImplementsPool == Pool!FairSpec

=============================================================================
