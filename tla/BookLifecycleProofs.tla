------------------------- MODULE BookLifecycleProofs -------------------------
(***************************************************************************)
(* Theorems about the opening and closing of books.                        *)
(*                                                                         *)
(* How often document and context are freed follows from the phase of the  *)
(* worker (FreeOrder).  That nothing is freed under a load follows from    *)
(* what the two flags of the controller mean (FlagsTell), isRunning being  *)
(* set exactly while a task is loading and isNeedRecycle remembering a     *)
(* closing that met one, and from the order in which posting, starting and *)
(* closing come (LoadFirst).                                               *)
(***************************************************************************)
EXTENDS BookLifecycle, TLAPS

\* The worker frees the context once and then, once, the document, if the
\* service has been recycled; the handle tells that nothing has been freed.
FreeOrder ==
    /\ ~isRecycled => worker = "running"
    /\ worker \in {"running", "shutdown", "freeContext"} =>
           handle /\ ctxFrees = 0 /\ docFrees = 0
    /\ worker = "clearHandle" => ctxFrees = 1 /\ docFrees = 0
    /\ worker = "freeDocument" => ~handle /\ ctxFrees = 1 /\ docFrees = 0
    /\ worker = "ended" => ~handle /\ ctxFrees = 1 /\ docFrees <= 1

FreeInv == TypeOK /\ FreeOrder

\* What isRunning, isNeedRecycle and isRecycled say of the task that loads and
\* of the activity.
FlagsTell ==
    /\ isRunning <=> load # "idle"
    /\ activity = "open" => ~isRecycled /\ ~isNeedRecycle
    /\ activity # "open" => isRecycled \/ isNeedRecycle
    /\ ClosedIsRecycled

\* A task that has not started late finds a service that is not recycled, and
\* keeps it so.
LoadFirst ==
    ~late => /\ isRunning => ~isRecycled
             /\ activity # "open" => ~TaskIsDue

FlagsInv == FlagsTell /\ LoadFirst /\ PagesAreGivenUp

-----------------------------------------------------------------------------
(* Types and frees.                                                         *)

\* The Boolean variables are Boolean.
LEMMA BooleansStep == BooleansOK /\ [Next]_vars => BooleansOK'
<1> USE DEF BooleansOK, ui, task, native, service, djvu
<1> SUFFICES ASSUME BooleansOK, [Next]_vars PROVE BooleansOK'
  OBVIOUS
<1>1. CASE Traverse
  BY <1>1 DEF Traverse, OnUiThread
<1>2. CASE Recreate
  BY <1>2 DEF Recreate, OnUiThread
<1>3. CASE CreateView
  BY <1>3 DEF CreateView, OnUiThread
<1>4. CASE CloseActivity
  BY <1>4 DEF CloseActivity, OnUiThread, TaskIsDue, RecycleOrDefer, RecycleModel
<1>5. CASE BeforeDestroy
  BY <1>5 DEF BeforeDestroy, OnUiThread, TaskIsDue, RecycleOrDefer, RecycleModel
<1>6. CASE PreExecute
  BY <1>6 DEF PreExecute, OnUiThread, TaskIsDue
<1>7. CASE PostExecute
  BY <1>7 DEF PostExecute, OnUiThread, RecycleModel
<1>8. CASE Redecode
  BY <1>8 DEF Redecode, OnUiThread
<1>9. CASE GetView
  BY <1>9 DEF GetView, End
<1>10. CASE WaitForInitialization
  BY <1>10 DEF WaitForInitialization
<1>11. CASE Open
  <2>1. UNCHANGED <<late, dialog, isRunning, isNeedRecycle, pages, isRecycled, handle, found,
                    docInfo, finalized>>
    BY <1>11 DEF Open
  <2>2. opened' \in BOOLEAN /\ document' \in BOOLEAN
    BY <1>11 DEF Open, End
  <2> QED BY <2>1, <2>2
<1>12. CASE Acquire
  BY <1>12 DEF Acquire
<1>13. CASE InitPages
  <2>1. UNCHANGED <<late, dialog, isRunning, isNeedRecycle, isRecycled, document, opened, handle,
                    found, docInfo, finalized>>
    BY <1>13 DEF InitPages
  <2>2. pages' \in BOOLEAN
    BY <1>13 DEF InitPages
  <2> QED BY <2>1, <2>2
<1>14. CASE StartShutdown
  BY <1>14 DEF StartShutdown
<1>15. CASE FreeContext
  BY <1>15 DEF FreeContext
<1>16. CASE ClearHandle
  BY <1>16 DEF ClearHandle
<1>17. CASE FreeDocument
  BY <1>17 DEF FreeDocument
<1>18. CASE CheckRecycled
  BY <1>18 DEF CheckRecycled
<1>19. CASE HandleMessage
  BY <1>19 DEF HandleMessage
<1>20. CASE Finalize
  BY <1>20 DEF Finalize
<1>21. CASE UNCHANGED vars
  BY <1>21 DEF vars, ui, task, native, service, djvu
<1>22. QED
  BY <1>1, <1>2, <1>3, <1>4, <1>5, <1>6, <1>7, <1>8, <1>9, <1>10, <1>11,
     <1>12, <1>13, <1>14, <1>15, <1>16, <1>17, <1>18, <1>19, <1>20, <1>21
  DEF Next, UiStep, LoadStep, WorkerStep, MessengerStep

\* They hold in the beginning.
LEMMA FreeInit == Init => FreeInv
<1>1. Init => BooleansOK
  BY DEF Init, BooleansOK
<1>2. Init => FreeInv
  BY <1>1, MaxViewsAssumption, MaxLoadsAssumption
     DEF Init, FreeInv, FreeOrder, TypeOK, Views, NoView
<1> QED BY <1>2

\* Every step keeps them.
LEMMA FreeStep == FreeInv /\ [Next]_vars => FreeInv'
<1> USE MaxViewsAssumption, MaxLoadsAssumption
    DEF FreeInv, FreeOrder, TypeOK, Views, NoView, ui, task, native, service, djvu
<1> SUFFICES ASSUME FreeInv, [Next]_vars PROVE FreeInv'
  OBVIOUS
<1>a. BooleansOK'
  BY BooleansStep
<1>1. CASE Traverse
  BY <1>1, <1>a DEF Traverse, OnUiThread
<1>2. CASE Recreate
  BY <1>2, <1>a DEF Recreate, OnUiThread
<1>3. CASE CreateView
  BY <1>3, <1>a DEF CreateView, OnUiThread
<1>4. CASE CloseActivity
  BY <1>4, <1>a DEF CloseActivity, OnUiThread, TaskIsDue, RecycleOrDefer, RecycleModel
<1>5. CASE BeforeDestroy
  BY <1>5, <1>a DEF BeforeDestroy, OnUiThread, TaskIsDue, RecycleOrDefer, RecycleModel
<1>6. CASE PreExecute
  BY <1>6, <1>a DEF PreExecute, OnUiThread, TaskIsDue
<1>7. CASE PostExecute
  BY <1>7, <1>a DEF PostExecute, OnUiThread, RecycleModel
<1>8. CASE Redecode
  BY <1>8, <1>a DEF Redecode, OnUiThread
<1>9. CASE GetView
  BY <1>9, <1>a DEF GetView, End
<1>10. CASE WaitForInitialization
  BY <1>10, <1>a DEF WaitForInitialization
<1>11. CASE Open
  BY <1>11, <1>a DEF Open, End
<1>12. CASE Acquire
  BY <1>12, <1>a DEF Acquire
<1>13. CASE InitPages
  BY <1>13, <1>a DEF InitPages, End
<1>14. CASE StartShutdown
  BY <1>14, <1>a DEF StartShutdown
<1>15. CASE FreeContext
  BY <1>15, <1>a DEF FreeContext
<1>16. CASE ClearHandle
  BY <1>16, <1>a DEF ClearHandle
<1>17. CASE FreeDocument
  BY <1>17, <1>a DEF FreeDocument
<1>18. CASE CheckRecycled
  BY <1>18, <1>a DEF CheckRecycled
<1>19. CASE HandleMessage
  BY <1>19, <1>a DEF HandleMessage
<1>20. CASE Finalize
  BY <1>20, <1>a DEF Finalize
<1>21. CASE UNCHANGED vars
  BY <1>21, <1>a DEF vars, ui, task, native, service, djvu
<1>22. QED
  BY <1>1, <1>2, <1>3, <1>4, <1>5, <1>6, <1>7, <1>8, <1>9, <1>10, <1>11,
     <1>12, <1>13, <1>14, <1>15, <1>16, <1>17, <1>18, <1>19, <1>20, <1>21
  DEF Next, UiStep, LoadStep, WorkerStep, MessengerStep

\* The variables keep their types.  That nothing is freed twice is the next
\* theorem.
THEOREM TypeCorrect == Spec => []TypeOK
<1>1. FreeInv => TypeOK
  BY DEF FreeInv
<1> QED BY <1>1, FreeInit, FreeStep, PTL DEF Spec

\* However closing, loading, shutdown and finalizers interleave, the native
\* context and the native document are freed at most once
\* (AbstractCodecContext.recycle, AbstractCodecDocument.recycle).
THEOREM FreedAtMostOnce == Spec => []FreedOnce
<1>1. FreeInv => FreedOnce
  BY DEF FreeInv, FreeOrder, TypeOK, FreedOnce
<1> QED BY <1>1, FreeInit, FreeStep, PTL DEF Spec

-----------------------------------------------------------------------------
(* The flags of the controller.                                             *)

\* They tell the truth in the beginning.
LEMMA FlagsInit == Init => FlagsInv
BY DEF Init, FlagsInv, FlagsTell, LoadFirst, TaskIsDue, ClosedIsRecycled, PagesAreGivenUp

\* Every step keeps them truthful.
LEMMA FlagsStep == TypeOK /\ FlagsInv /\ [Next]_vars => FlagsInv'
<1> USE DEF FlagsInv, FlagsTell, LoadFirst, TypeOK, TaskIsDue, ClosedIsRecycled,
            PagesAreGivenUp, ui, task, native, service, djvu
<1> SUFFICES ASSUME TypeOK, FlagsInv, [Next]_vars PROVE FlagsInv'
  OBVIOUS
<1>1. CASE Traverse
  BY <1>1 DEF Traverse, OnUiThread
<1>2. CASE Recreate
  BY <1>2 DEF Recreate, OnUiThread
<1>3. CASE CreateView
  BY <1>3 DEF CreateView, OnUiThread
<1>4. CASE CloseActivity
  BY <1>4 DEF CloseActivity, OnUiThread, RecycleOrDefer, RecycleModel
<1>5. CASE BeforeDestroy
  BY <1>5 DEF BeforeDestroy, OnUiThread, RecycleOrDefer, RecycleModel
<1>6. CASE PreExecute
  BY <1>6 DEF PreExecute, OnUiThread
<1>7. CASE PostExecute
  BY <1>7 DEF PostExecute, OnUiThread, RecycleModel
<1>8. CASE Redecode
  BY <1>8 DEF Redecode, OnUiThread
<1>9. CASE GetView
  BY <1>9 DEF GetView, End
<1>10. CASE WaitForInitialization
  BY <1>10 DEF WaitForInitialization
<1>11. CASE Open
  BY <1>11 DEF Open, End
<1>12. CASE Acquire
  BY <1>12 DEF Acquire
<1>13. CASE InitPages
  BY <1>13 DEF InitPages, End
<1>14. CASE StartShutdown
  BY <1>14 DEF StartShutdown
<1>15. CASE FreeContext
  BY <1>15 DEF FreeContext
<1>16. CASE ClearHandle
  BY <1>16 DEF ClearHandle
<1>17. CASE FreeDocument
  BY <1>17 DEF FreeDocument
<1>18. CASE CheckRecycled
  BY <1>18 DEF CheckRecycled
<1>19. CASE HandleMessage
  BY <1>19 DEF HandleMessage
<1>20. CASE Finalize
  BY <1>20 DEF Finalize
<1>21. CASE UNCHANGED vars
  BY <1>21 DEF vars, ui, task, native, service, djvu
<1>22. QED
  BY <1>1, <1>2, <1>3, <1>4, <1>5, <1>6, <1>7, <1>8, <1>9, <1>10, <1>11,
     <1>12, <1>13, <1>14, <1>15, <1>16, <1>17, <1>18, <1>19, <1>20, <1>21
  DEF Next, UiStep, LoadStep, WorkerStep, MessengerStep

\* Both invariants hold together.
LEMMA BookInv == Spec => [](FreeInv /\ FlagsInv)
<1>1. FreeInv /\ FlagsInv /\ [Next]_vars => FlagsInv'
  BY FlagsStep DEF FreeInv
<1> QED BY <1>1, FreeInit, FreeStep, FlagsInit, PTL DEF Spec

\* While a BookLoadTask opens the document and reads its pages, neither document
\* nor context is freed (isRunning and isNeedRecycle of the controller), unless a
\* user has closed the book between the posting of a task and its start.
THEOREM NothingIsFreedUnderALoad == Spec => []LoadUsesLive
<1>1. FreeInv /\ FlagsInv => LoadUsesLive
  BY DEF FreeInv, FreeOrder, FlagsInv, FlagsTell, LoadFirst, LoadUsesLive
<1> QED BY <1>1, BookInv, PTL

\* A book whose activity goes away is recycled as soon as no task loads it:
\* onPostExecute makes up for the recycling that closeActivity or beforeDestroy
\* has deferred.
THEOREM ClosingIsNotForgotten == Spec => []ClosedIsRecycled
<1>1. FlagsInv => ClosedIsRecycled
  BY DEF FlagsInv, FlagsTell
<1> QED BY <1>1, BookInv, PTL

\* No task fills the pages of a recycled model (DocumentModel.recyclePages), unless
\* it started late.
THEOREM RecycledHasNoPages == Spec => []PagesAreGivenUp
<1>1. FlagsInv => PagesAreGivenUp
  BY DEF FlagsInv
<1> QED BY <1>1, BookInv, PTL
=============================================================================
