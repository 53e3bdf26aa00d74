---------------------------- MODULE DrawQueueProofs ----------------------------
(***************************************************************************)
(* The drawing of view states implements Screen, and draws only while the  *)
(* surface exists, for every capacity and every bound.                     *)
(***************************************************************************)
EXTENDS DrawQueue, TLAPS

Busy == {"lock", "draw", "post", "broken"}

\* The states that wait are in the order of the calls, and none is older than the screen.
QueueInOrder ==
    /\ \A i \in 1 .. Len(queue) : queue[i] \in best .. latest
    /\ \A i, j \in 1 .. Len(queue) : i <= j => queue[i] <= queue[j]

\* The state in hand is between the screen and the states that wait.
TaskInOrder ==
    pc \in Busy =>
        /\ task \in best .. latest
        /\ \A i \in 1 .. Len(queue) : task <= queue[i]

Types ==
    /\ latest \in Nat /\ best \in Nat /\ task \in Nat
    /\ best <= latest
    /\ queue \in Seq(Nat)

\* A BaseView has no thread that draws, and only a BaseView is invalidated.
OneDrawer ==
    /\ view = "base" => pc = "none"
    /\ invalid => view = "base"

IInv == Types /\ QueueInOrder /\ TaskInOrder

-----------------------------------------------------------------------------
\* A BaseView never gets a thread.
LEMMA StepKeepsDrawer ==
    ASSUME OneDrawer, [Next]_vars
    PROVE  OneDrawer'
  <1> USE DEF OneDrawer
  <1>1. CASE Ask \/ SurfaceChanged
    <2>1. UNCHANGED <<view, pc>> /\ (invalid' <=> (view = "base" \/ invalid))
      BY <1>1 DEF Ask, SurfaceChanged, Redraw
    <2> QED  BY <2>1
  <1>2. CASE SurfaceCreated \/ SurfaceDestroyed \/ JoinReturns
    BY <1>2 DEF SurfaceCreated, SurfaceDestroyed, JoinReturns
  <1>3. CASE OnDraw
    BY <1>3 DEF OnDraw
  <1>4. CASE Thread
    <2>1. pc # "none" /\ UNCHANGED <<view, invalid>>
      BY <1>4 DEF Thread, TestStop, Poll, PollTimesOut, LockCanvas, LockFails, Process,
                  ProcessFails, UnlockAndPost, At, Go
    <2> QED  BY <2>1
  <1>5. CASE UNCHANGED vars
    BY <1>5 DEF vars
  <1> QED  BY <1>1, <1>2, <1>3, <1>4, <1>5 DEF Next

\* What Append does to the elements: they stay, and the new one is the last.
LEMMA Appended ==
    ASSUME NEW s \in Seq(Nat), NEW x \in Nat
    PROVE  /\ Append(s, x) \in Seq(Nat)
           /\ Len(Append(s, x)) = Len(s) + 1
           /\ \A i \in 1 .. Len(s) + 1 :
                  Append(s, x)[i] = IF i = Len(s) + 1 THEN x ELSE s[i]
  OBVIOUS

\* What Tail does to the elements: they move down by one.
LEMMA Shortened ==
    ASSUME NEW s \in Seq(Nat), s # <<>>
    PROVE  /\ Tail(s) \in Seq(Nat)
           /\ Len(Tail(s)) = Len(s) - 1
           /\ Len(s) \in Nat \ {0}
           /\ Head(s) = s[1]
           /\ \A i \in 1 .. Len(s) - 1 : Tail(s)[i] = s[i + 1]
  OBVIOUS

\* redrawView keeps the order: the state it offers is newer than all others.
LEMMA RedrawKeepsOrder ==
    ASSUME IInv, Redraw
    PROVE  IInv'
  <1>1. latest' = latest + 1 /\ UNCHANGED <<pc, task, best>>
    BY DEF Redraw, screen
  <1>2. Types /\ QueueInOrder /\ TaskInOrder
    BY DEF IInv
  <1>3. CASE queue' = queue
    BY <1>1, <1>2, <1>3 DEF IInv, Types, QueueInOrder, TaskInOrder
  <1>4. CASE queue' = Append(queue, latest + 1)
    <2>1. /\ queue' \in Seq(Nat)
          /\ Len(queue') = Len(queue) + 1
          /\ \A i \in 1 .. Len(queue) + 1 :
                 queue'[i] = IF i = Len(queue) + 1 THEN latest + 1 ELSE queue[i]
      BY <1>2, <1>4, Appended DEF Types
    <2>2. Len(queue) \in Nat
      BY <1>2 DEF Types
    <2>3. Types'
      BY <1>1, <1>2, <2>1 DEF Types
    <2> HIDE <1>4
    <2>3a. \A i \in 1 .. Len(queue) : queue[i] \in best .. latest /\ queue'[i] = queue[i]
      BY <1>2, <2>1, <2>2 DEF QueueInOrder
    <2>3b. queue'[Len(queue) + 1] = latest + 1 /\ best <= latest /\ latest \in Nat /\ best \in Nat
      BY <1>2, <2>1, <2>2 DEF Types
    <2>3c. \A i \in 1 .. Len(queue') : i \in 1 .. Len(queue) \/ i = Len(queue) + 1
      BY <2>1, <2>2
    <2>4. QueueInOrder'
      <3>1. \A i \in 1 .. Len(queue') : queue'[i] \in best' .. latest'
        BY <1>1, <2>3a, <2>3b, <2>3c
      <3>2. ASSUME NEW i \in 1 .. Len(queue'), NEW j \in 1 .. Len(queue'), i <= j
            PROVE  queue'[i] <= queue'[j]
        <4>1. CASE j \in 1 .. Len(queue)
          BY <3>2, <4>1, <2>2, <2>3a, <2>3c, <1>2 DEF QueueInOrder
        <4>2. CASE j = Len(queue) + 1
          BY <4>2, <2>3a, <2>3b, <2>3c
        <4> QED  BY <4>1, <4>2, <2>3c
      <3> QED  BY <3>1, <3>2 DEF QueueInOrder
    <2>5. TaskInOrder'
      <3> SUFFICES ASSUME pc \in Busy
                   PROVE  /\ task \in best .. latest + 1
                          /\ \A i \in 1 .. Len(queue') : task <= queue'[i]
        BY <1>1 DEF TaskInOrder
      <3>1. task \in best .. latest /\ \A i \in 1 .. Len(queue) : task <= queue[i]
        BY <1>2 DEF TaskInOrder
      <3> QED  BY <3>1, <2>3a, <2>3b, <2>3c
    <2> QED  BY <2>3, <2>4, <2>5 DEF IInv
  <1> QED  BY <1>3, <1>4 DEF Redraw

\* Every step keeps the order.
LEMMA StepKeepsOrder ==
    ASSUME IInv, OneDrawer, [Next]_vars
    PROVE  IInv'
  <1> USE DEF IInv
  <1>1. CASE Ask \/ SurfaceChanged
    BY <1>1, RedrawKeepsOrder DEF Ask, SurfaceChanged
  <1>2. CASE SurfaceCreated
    BY <1>2 DEF SurfaceCreated, Types, QueueInOrder, TaskInOrder, Busy, NoTask, screen
  <1>3. CASE SurfaceDestroyed
    BY <1>3 DEF SurfaceDestroyed, Types, QueueInOrder, TaskInOrder, screen
  <1>4. CASE JoinReturns
    BY <1>4 DEF JoinReturns, Types, QueueInOrder, TaskInOrder, screen
  <1>5. CASE Poll
    <2>1. /\ queue # <<>> /\ queue' = Tail(queue) /\ task' = Head(queue)
          /\ UNCHANGED <<latest, best>>
      BY <1>5 DEF Poll, Go, screen
    <2>2. queue \in Seq(Nat)
      BY DEF Types
    <2>3. /\ queue' \in Seq(Nat)
          /\ Len(queue) \in Nat \ {0}
          /\ Len(queue') = Len(queue) - 1
          /\ task' = queue[1]
          /\ \A i \in 1 .. Len(queue) - 1 : queue'[i] = queue[i + 1]
      BY <2>1, <2>2, Shortened
    <2>4. Types'
      BY <2>1, <2>3 DEF Types, QueueInOrder
    <2>5. QueueInOrder'
      BY <2>1, <2>3 DEF Types, QueueInOrder
    <2>6. TaskInOrder'
      BY <2>1, <2>3 DEF Types, QueueInOrder, TaskInOrder
    <2> QED  BY <2>4, <2>5, <2>6
  <1>6. CASE TestStop \/ PollTimesOut \/ LockCanvas \/ LockFails \/ Process \/ ProcessFails
    BY <1>6 DEF TestStop, PollTimesOut, LockCanvas, LockFails, Process, ProcessFails, At, Go,
                Types, QueueInOrder, TaskInOrder, Busy, NoTask, screen
  <1>7. CASE UnlockAndPost
    BY <1>7 DEF UnlockAndPost, Go, Types, QueueInOrder, TaskInOrder, Busy, NoTask
  <1>8. CASE UNCHANGED vars
    BY <1>8 DEF vars, screen, Types, QueueInOrder, TaskInOrder
  <1>9. CASE OnDraw
    <2>1. pc = "none" /\ pc' = "none" /\ queue' = <<>> /\ best' = LastState
          /\ UNCHANGED <<latest, task>>
      BY <1>9 DEF OnDraw, OneDrawer
    <2>2. LastState \in best .. latest
      BY DEF LastState, Types, QueueInOrder
    <2> QED  BY <2>1, <2>2 DEF Types, QueueInOrder, TaskInOrder, Busy
  <1> QED  BY <1>1, <1>2, <1>3, <1>4, <1>5, <1>6, <1>7, <1>8, <1>9 DEF Next, Thread

-----------------------------------------------------------------------------
\* No canvas is drawn on after surfaceDestroyed has returned: finish joins the thread first.
THEOREM DrawingNeedsSurface == Spec => []DrawsOnSurface
  <1>1. Init => DrawsOnSurface
    BY DEF Init, DrawsOnSurface
  <1>2. DrawsOnSurface /\ [Next]_vars => DrawsOnSurface'
    BY DEF DrawsOnSurface, Next, Ask, SurfaceChanged, Redraw, SurfaceCreated, SurfaceDestroyed,
           JoinReturns, OnDraw, Thread, TestStop, Poll, PollTimesOut, LockCanvas, LockFails,
           Process, ProcessFails, UnlockAndPost, At, Go, vars
  <1> QED  BY <1>1, <1>2, PTL DEF Spec

\* The order holds in every reachable state.
LEMMA OrderHolds == Spec => [](IInv /\ OneDrawer)
  <1>1. Init => IInv /\ OneDrawer
    <2> SUFFICES ASSUME Init
                 PROVE  IInv /\ OneDrawer
      OBVIOUS
    <2>1. latest = 0 /\ best = 0 /\ task = 0 /\ queue = <<>> /\ pc = "none" /\ ~invalid
      BY DEF Init, NoTask
    <2> QED  BY <2>1 DEF IInv, OneDrawer, Types, QueueInOrder, TaskInOrder, Busy
  <1>2. (IInv /\ OneDrawer) /\ [Next]_vars => (IInv /\ OneDrawer)'
    BY StepKeepsOrder, StepKeepsDrawer
  <1> QED  BY <1>1, <1>2, PTL DEF Spec

\* A step of the drawing is a step of Screen or changes nothing of it.
LEMMA StepIsScreen ==
    ASSUME IInv, IInv', [Next]_vars
    PROVE  [ScreenImpl!Next]_(ScreenImpl!vars)
  <1> USE DEF ScreenImpl!Next, ScreenImpl!vars
  <1>1. CASE Ask \/ SurfaceChanged
    BY <1>1 DEF Ask, SurfaceChanged, Redraw, screen, ScreenImpl!Want
  <1>2. CASE SurfaceCreated \/ SurfaceDestroyed
    BY <1>2 DEF SurfaceCreated, SurfaceDestroyed, screen
  <1>3. CASE JoinReturns
    BY <1>3 DEF JoinReturns, ScreenImpl!Blank
  <1>4. CASE OnDraw
    <2>1. LastState \in best .. latest
      BY DEF LastState, IInv, Types, QueueInOrder
    <2> QED  BY <1>4, <2>1 DEF OnDraw, ScreenImpl!Show
  <1>5. CASE TestStop \/ Poll \/ PollTimesOut \/ LockCanvas \/ LockFails \/ Process \/ ProcessFails
    BY <1>5 DEF TestStop, Poll, PollTimesOut, LockCanvas, LockFails, Process, ProcessFails, Go, screen
  <1>6. CASE UnlockAndPost
    BY <1>6 DEF UnlockAndPost, Go, IInv, TaskInOrder, Busy, ScreenImpl!Show
  <1>7. CASE UNCHANGED vars
    BY <1>7 DEF vars, screen
  <1> QED  BY <1>1, <1>2, <1>3, <1>4, <1>5, <1>6, <1>7 DEF Next, Thread

\* The queue, the thread and the surface callbacks implement Screen: the screen never goes back.
THEOREM ScreenIsImplemented == Spec => ImplementsScreen
  <1>1. Init => ScreenImpl!Init
    BY DEF Init, ScreenImpl!Init
  <1>2. (IInv /\ OneDrawer) /\ (IInv /\ OneDrawer)' /\ [Next]_vars
            => [ScreenImpl!Next]_(ScreenImpl!vars)
    BY StepIsScreen
  <1> QED  BY <1>1, <1>2, OrderHolds, PTL DEF Spec, ImplementsScreen, ScreenImpl!Spec

-----------------------------------------------------------------------------
\* A state that waits, is in hand or is lost is one that was asked for.
AskedFor ==
    /\ \A i \in 1 .. Len(queue) : queue[i] \in Asked
    /\ pc \in Busy => task \in Asked
    /\ task \in Asked \cup {NoTask}
    /\ lost \subseteq Asked

\* The flags of the two threads.
Flags ==
    /\ drawThread \in BOOLEAN /\ stop \in BOOLEAN /\ surface \in BOOLEAN
    /\ changed \in BOOLEAN /\ invalid \in BOOLEAN /\ blank \in BOOLEAN

\* What the variables other than the flags and the states hold.
Places ==
    /\ view \in {"surface", "base"}
    /\ pc \in {"none", "top", "poll", "lock", "draw", "post", "broken", "ended"}
    /\ ui \in {"free", "join"}
    /\ surfaces \in 0 .. MaxSurfaces

\* There are no more states than the bound allows.
StatesInBounds == latest \in 0 .. MaxStates

\* The flags stay flags.
LEMMA StepKeepsFlags ==
    ASSUME Flags, [Next]_vars
    PROVE  Flags'
  <1> USE DEF Flags
  <1>1. CASE Ask \/ SurfaceChanged
    <2>1. /\ UNCHANGED <<drawThread, stop, surface, blank>>
          /\ invalid' = (view = "base" \/ invalid)
          /\ changed' = changed \/ changed' = TRUE
      BY <1>1 DEF Ask, SurfaceChanged, Redraw, screen
    <2> QED  BY <2>1
  <1>2. CASE SurfaceCreated \/ SurfaceDestroyed \/ JoinReturns
    BY <1>2 DEF SurfaceCreated, SurfaceDestroyed, JoinReturns, screen
  <1>3. CASE OnDraw
    BY <1>3 DEF OnDraw
  <1>4. CASE Thread
    <2>1. UNCHANGED <<drawThread, stop, surface, changed, invalid>>
      BY <1>4 DEF Thread, TestStop, Poll, PollTimesOut, LockCanvas, LockFails, Process,
                  ProcessFails, UnlockAndPost, Go
    <2>2. blank' = blank \/ blank' = FALSE
      BY <1>4 DEF Thread, TestStop, Poll, PollTimesOut, LockCanvas, LockFails, Process,
                  ProcessFails, UnlockAndPost, screen
    <2> QED  BY <2>1, <2>2
  <1>5. CASE UNCHANGED vars
    BY <1>5 DEF vars, screen
  <1> QED  BY <1>1, <1>2, <1>3, <1>4, <1>5 DEF Next

\* The threads stay where they can be.
LEMMA StepKeepsPlaces ==
    ASSUME Places, [Next]_vars
    PROVE  Places'
  BY BoundsAssumption
     DEF Places, Next, Ask, SurfaceChanged, Redraw, SurfaceCreated, SurfaceDestroyed, JoinReturns,
         OnDraw, Thread, TestStop, Poll, PollTimesOut, LockCanvas, LockFails, Process,
         ProcessFails, UnlockAndPost, At, Go, vars

\* The states stay in the bound.
LEMMA StepKeepsBounds ==
    ASSUME Types, AskedFor, StatesInBounds, [Next]_vars
    PROVE  AskedFor' /\ StatesInBounds'
  <1> USE DEF StatesInBounds
  <1>1. CASE Ask \/ SurfaceChanged
    <2>1. /\ latest < MaxStates /\ latest' = latest + 1 /\ UNCHANGED <<pc, task>>
          /\ lost' = lost \/ lost' = lost \cup {latest + 1}
          /\ queue' = queue \/ queue' = Append(queue, latest + 1)
      BY <1>1 DEF Ask, SurfaceChanged, Redraw
    <2>2. latest' \in 0 .. MaxStates /\ Asked \subseteq Asked' /\ latest + 1 \in Asked'
      BY <2>1, BoundsAssumption DEF Asked
    <2>2a. lost' \subseteq Asked'
      BY <2>1, <2>2 DEF AskedFor
    <2>3. \A i \in 1 .. Len(queue') : queue'[i] \in Asked'
      <3>1. CASE queue' = queue
        BY <2>2, <3>1 DEF AskedFor
      <3>2. CASE queue' = Append(queue, latest + 1)
        <4>1. queue \in Seq(Nat) /\ latest + 1 \in Nat /\ Len(queue) \in Nat
          BY DEF Types
        <4>2. /\ Len(queue') = Len(queue) + 1
              /\ \A i \in 1 .. Len(queue) + 1 :
                     queue'[i] = IF i = Len(queue) + 1 THEN latest + 1 ELSE queue[i]
          BY <3>2, <4>1, Appended
        <4>3. \A i \in 1 .. Len(queue) : queue[i] \in Asked'
          BY <2>2 DEF AskedFor
        <4> HIDE <3>2
        <4> QED  BY <4>1, <4>2, <4>3, <2>2
      <3> QED  BY <2>1, <3>1, <3>2
    <2>4. (pc' \in Busy => task' \in Asked') /\ task' \in Asked' \cup {NoTask}
      BY <2>1, <2>2 DEF AskedFor
    <2> QED  BY <2>2, <2>2a, <2>3, <2>4 DEF AskedFor
  <1>2. CASE Poll
    <2>1. /\ queue # <<>> /\ queue' = Tail(queue) /\ task' = Head(queue)
          /\ UNCHANGED <<latest, lost>>
      BY <1>2 DEF Poll, Go
    <2>2. /\ Len(queue) \in Nat \ {0}
          /\ Len(queue') = Len(queue) - 1
          /\ task' = queue[1]
          /\ \A i \in 1 .. Len(queue) - 1 : queue'[i] = queue[i + 1]
      BY <2>1, Shortened DEF Types
    <2> QED  BY <2>1, <2>2 DEF AskedFor, Asked
  <1>3. CASE SurfaceDestroyed
    <2>1. Elements(queue) \subseteq Asked
      BY DEF Elements, AskedFor, Types
    <2> QED  BY <1>3, <2>1 DEF SurfaceDestroyed, AskedFor, Asked
  <1>4. CASE SurfaceCreated \/ JoinReturns \/ OnDraw
    <2>1. CASE SurfaceCreated
      BY <2>1 DEF SurfaceCreated, AskedFor, Asked, Busy
    <2>2. CASE JoinReturns
      BY <2>2 DEF JoinReturns, AskedFor, Asked
    <2>3. CASE OnDraw
      BY <2>3 DEF OnDraw, AskedFor, Asked
    <2> QED  BY <1>4, <2>1, <2>2, <2>3
  <1>5. CASE TestStop \/ PollTimesOut \/ LockCanvas \/ Process \/ UnlockAndPost
    BY <1>5 DEF TestStop, PollTimesOut, LockCanvas, Process, UnlockAndPost, At, Go, AskedFor, Asked,
                Busy
  <1>6. CASE LockFails \/ ProcessFails
    BY <1>6 DEF LockFails, ProcessFails, At, Go, AskedFor, Asked, Busy
  <1>7. CASE UNCHANGED vars
    BY <1>7 DEF vars, AskedFor, Asked
  <1> QED  BY <1>1, <1>2, <1>3, <1>4, <1>5, <1>6, <1>7 DEF Next, Thread

\* The variables have their types: only states that redrawView has asked for so far wait in the
\* queue, are in hand, on the screen or lost.
THEOREM TypeCorrect == Spec => []TypeOK
  <1> DEFINE T == Flags /\ Places /\ AskedFor /\ StatesInBounds
  <1>1. Init => T
    <2> SUFFICES ASSUME Init PROVE T
      OBVIOUS
    <2>1. Flags
      BY DEF Init, Flags
    <2>2. Places /\ AskedFor /\ StatesInBounds
      BY BoundsAssumption DEF Init, Places, AskedFor, StatesInBounds, Busy
    <2> QED  BY <2>1, <2>2
  <1>2. (IInv /\ OneDrawer) /\ T /\ [Next]_vars => T'
    BY StepKeepsFlags, StepKeepsPlaces, StepKeepsBounds DEF IInv
  <1>3. (IInv /\ OneDrawer) /\ T => TypeOK
    <2> SUFFICES ASSUME IInv, T
                 PROVE  TypeOK
      OBVIOUS
    <2>1. queue \in Seq(Asked)
      BY DEF IInv, Types, AskedFor
    <2> QED  BY <2>1 DEF TypeOK, IInv, Types, Flags, Places, StatesInBounds, AskedFor
  <1> QED  BY <1>1, <1>2, <1>3, OrderHolds, PTL DEF Spec
================================================================================
