------------------------------- MODULE DrawQueue -------------------------------
(***************************************************************************)
(* The queue of view states between the UI thread and the screen.          *)
(*                                                                         *)
(* A SurfaceView has a DrawThread for each surface, which takes states     *)
(* from a bounded queue and draws them; a BaseView has one DrawThread that *)
(* is never started, and takes the states in onDraw, on the UI thread.     *)
(* Either way redrawView offers a state and goes on if the queue is full.  *)
(***************************************************************************)
EXTENDS Naturals, Sequences

CONSTANTS
    Capacity,       \* capacity of the queue (16 in the code)
    MaxStates,      \* bound on the calls of redrawView
    MaxSurfaces     \* bound on the surfaces in a behaviour

ASSUME CapacityAssumption == Capacity \in Nat \ {0}
ASSUME BoundsAssumption == {MaxStates, MaxSurfaces} \subseteq Nat

VARIABLES
    view,           \* the view type of the settings, "surface" or "base"
    latest,         \* number of the newest view state, which the decode service has too
    queue,          \* DrawThread.queue of the current drawThread
    drawThread,     \* drawThread # null
    stop,           \* DrawThread.stop
    pc, task,       \* where DrawThread.run is, and its viewState
    ui,             \* "free", or "join" while DrawThread.finish waits
    surface,        \* the surface exists for the application
    changed,        \* surfaceChanged has been called since surfaceCreated
    surfaces,       \* surfaces there have been
    invalid,        \* the BaseView is to be drawn (postInvalidate)
    blank, best,    \* what is on the screen: nothing, or the state best
    lost            \* history: states that will not be drawn, and why is known

threadVars == <<pc, task>>
surfaceVars == <<ui, surface, changed, surfaces>>
screen == <<blank, best>>
vars == <<view, latest, queue, drawThread, stop, pc, task, ui, surface, changed,
          surfaces, invalid, blank, best, lost>>

NoTask == 0
States == 1 .. MaxStates
Elements(s) == {s[i] : i \in DOMAIN s}

\* The states that have been asked for so far.
Asked == 1 .. latest

TypeOK ==
    /\ view \in {"surface", "base"}
    /\ latest \in 0 .. MaxStates
    /\ queue \in Seq(Asked)
    /\ {drawThread, stop, surface, changed, invalid, blank} \subseteq BOOLEAN
    /\ pc \in {"none", "top", "poll", "lock", "draw", "post", "broken", "ended"}
    /\ task \in Asked \cup {NoTask}
    /\ ui \in {"free", "join"}
    /\ surfaces \in 0 .. MaxSurfaces
    /\ best \in 0 .. latest
    /\ lost \subseteq Asked

Init ==
    /\ view \in {"surface", "base"}
    /\ drawThread = (view = "base")
    /\ latest = 0 /\ queue = <<>> /\ stop = FALSE
    /\ pc = "none" /\ task = NoTask
    /\ ui = "free" /\ surface = FALSE /\ changed = FALSE /\ surfaces = 0
    /\ invalid = FALSE
    /\ blank = TRUE /\ best = 0 /\ lost = {}

-----------------------------------------------------------------------------
(***************************************************************************)
(* The UI thread.                                                          *)
(***************************************************************************)
Full == Len(queue) >= Capacity

\* Nobody takes from the queue any more: the thread has been told to stop, or there is none.
Abandoned == view = "surface" /\ (~drawThread \/ stop)

\* redrawView: DrawThread.draw offers the state, which a full queue refuses.
Redraw ==
    /\ ui = "free"
    /\ latest < MaxStates
    /\ latest' = latest + 1
    /\ queue' = IF drawThread /\ ~Full THEN Append(queue, latest + 1) ELSE queue
    /\ lost' = IF Abandoned \/ Full THEN lost \cup {latest + 1} ELSE lost
    /\ invalid' = (view = "base" \/ invalid)
    /\ UNCHANGED <<view, drawThread, stop, pc, task, ui, surface, surfaces, screen>>

Ask ==
    /\ Redraw
    /\ UNCHANGED changed

SurfaceCreated ==
    /\ view = "surface" /\ ui = "free" /\ ~surface
    /\ surfaces < MaxSurfaces
    /\ surface' = TRUE /\ changed' = FALSE /\ surfaces' = surfaces + 1
    /\ drawThread' = TRUE /\ stop' = FALSE /\ queue' = <<>>
    /\ pc' = "top" /\ task' = NoTask
    /\ UNCHANGED <<view, latest, ui, invalid, screen, lost>>

SurfaceChanged ==
    /\ surface
    /\ Redraw
    /\ changed' = TRUE

\* Mutant: finish does not set the flag.
SurfaceDestroyed_NoStop ==
    /\ surface /\ changed /\ ui = "free"
    /\ ui' = "join"
    /\ lost' = lost \cup Elements(queue)
    /\ UNCHANGED <<view, latest, queue, drawThread, stop, pc, task, surface, changed,
                   surfaces, invalid, screen>>

\* The framework calls surfaceChanged at least once before it destroys a surface.
SurfaceDestroyed ==
    /\ surface /\ changed /\ ui = "free"
    /\ stop' = TRUE
    /\ ui' = "join"
    /\ lost' = lost \cup Elements(queue)
    /\ UNCHANGED <<view, latest, queue, drawThread, pc, task, surface, changed, surfaces,
                   invalid, screen>>

\* Mutant: finish does not wait for the thread.
JoinReturns_Early ==
    /\ ui = "join"
    /\ ui' = "free" /\ surface' = FALSE /\ blank' = TRUE
    /\ UNCHANGED <<view, latest, queue, drawThread, stop, pc, task, changed, surfaces,
                   invalid, best, lost>>

\* join() returns, surfaceDestroyed returns, and the surface is gone.
JoinReturns ==
    /\ ui = "join" /\ pc = "ended"
    /\ ui' = "free" /\ surface' = FALSE /\ blank' = TRUE
    /\ UNCHANGED <<view, latest, queue, drawThread, stop, pc, task, changed, surfaces,
                   invalid, best, lost>>

\* Mutant: the first of the drained states is taken.
LastState_First == IF queue = <<>> THEN latest ELSE Head(queue)

\* BaseView.onDraw: takeTask with useLastState, and a new ViewState if there is none.
LastState == IF queue = <<>> THEN latest ELSE queue[Len(queue)]

OnDraw ==
    /\ invalid
    /\ invalid' = FALSE
    /\ queue' = <<>>
    /\ blank' = FALSE /\ best' = LastState
    /\ UNCHANGED <<view, latest, drawThread, stop, pc, task, ui, surface, changed,
                   surfaces, lost>>

-----------------------------------------------------------------------------
(***************************************************************************)
(* DrawThread.run.                                                         *)
(***************************************************************************)
At(p) == pc = p

Go(p) ==
    /\ pc' = p
    /\ UNCHANGED <<view, latest, drawThread, stop, ui, surface, changed, surfaces, invalid>>

TestStop ==
    /\ At("top")
    /\ Go(IF stop THEN "ended" ELSE "poll")
    /\ UNCHANGED <<queue, task, screen, lost>>

\* Mutant: the thread takes the newest state and leaves the older ones.
Poll_Newest ==
    /\ At("poll") /\ queue # <<>>
    /\ Go("lock")
    /\ task' = queue[Len(queue)] /\ queue' = SubSeq(queue, 1, Len(queue) - 1)
    /\ UNCHANGED <<screen, lost>>

Poll ==
    /\ At("poll") /\ queue # <<>>
    /\ Go("lock")
    /\ task' = Head(queue) /\ queue' = Tail(queue)
    /\ UNCHANGED <<screen, lost>>

PollTimesOut ==
    /\ At("poll") /\ queue = <<>>
    /\ Go("top")
    /\ UNCHANGED <<queue, task, screen, lost>>

LockCanvas ==
    /\ At("lock")
    /\ Go("draw")
    /\ UNCHANGED <<queue, task, screen, lost>>

\* lockCanvas throws or returns null, which EventDraw.process throws at: nothing to unlock.
LockFails ==
    /\ At("lock")
    /\ Go("top")
    /\ lost' = lost \cup {task} /\ task' = NoTask
    /\ UNCHANGED <<queue, screen>>

Process ==
    /\ At("draw")
    /\ Go("post")
    /\ UNCHANGED <<queue, task, screen, lost>>

\* EventDraw.process throws: what it has drawn so far is posted.
ProcessFails ==
    /\ At("draw")
    /\ Go("broken")
    /\ lost' = lost \cup {task}
    /\ UNCHANGED <<queue, task, screen>>

UnlockAndPost ==
    /\ pc \in {"post", "broken"}
    /\ Go("top")
    /\ blank' = FALSE /\ best' = task /\ task' = NoTask
    /\ UNCHANGED <<queue, lost>>

Thread ==
    \/ TestStop \/ Poll \/ PollTimesOut
    \/ LockCanvas \/ LockFails
    \/ Process \/ ProcessFails
    \/ UnlockAndPost

-----------------------------------------------------------------------------
Next ==
    \/ Ask \/ SurfaceCreated \/ SurfaceChanged \/ SurfaceDestroyed \/ JoinReturns
    \/ OnDraw
    \/ Thread

Spec == Init /\ [][Next]_vars

\* The thread runs, the UI thread comes back from join, and the framework calls
\* surfaceChanged for a new surface and draws an invalid view.
Fairness ==
    /\ WF_vars(Thread)
    /\ WF_vars(JoinReturns)
    /\ WF_vars(surface /\ ~changed /\ SurfaceChanged)
    /\ WF_vars(OnDraw)

FairSpec == Spec /\ Fairness

-----------------------------------------------------------------------------
\* No canvas is locked, drawn on or posted when surfaceDestroyed has returned: the surface the
\* thread was made for exists while the thread is at work (DrawThread.finish joins it).
DrawsOnSurface ==
    pc \notin {"none", "ended"} => surface

\* The screen never goes back to an older view state, whatever is dropped on the way and however
\* often the surface goes away: redrawView to unlockCanvasAndPost keep the order.
ScreenImpl == INSTANCE Screen WITH wanted <- latest
ImplementsScreen == ScreenImpl!Spec

\* A view state that is asked for gets on the screen, or a newer one does, unless the queue was
\* full, drawing it failed or its surface went away (DrawThread.draw, DrawThread.finish).
EachIsDrawn ==
    \A n \in States : latest >= n ~> best >= n \/ n \in lost

\* surfaceDestroyed returns: the UI thread does not wait for ever for the drawing thread.
JoinEnds == ui = "join" ~> ui = "free"
================================================================================
