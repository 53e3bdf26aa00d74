---------------------------- MODULE BookLifecycle ----------------------------
(***************************************************************************)
(* Opening and closing a book: ViewerActivityController with its           *)
(* BookLoadTask, the Executor of DecodeServiceBase that frees the native   *)
(* document and context, and the message thread of DjvuContext.            *)
(*                                                                         *)
(* Four threads act.  The UI thread runs the callbacks of the activity and *)
(* both ends of a BookLoadTask, a background thread runs its middle, the   *)
(* worker runs the ShutdownTask, and the message thread passes native      *)
(* messages on.  Activity instances are numbered: a configuration change   *)
(* replaces the activity and its view and keeps the controller.            *)
(***************************************************************************)
EXTENDS Naturals

CONSTANTS
    MaxViews,       \* bound on the activity instances
    MaxLoads,       \* bound on the BookLoadTasks
    Djvu            \* the book is read with a DjvuContext

ASSUME MaxViewsAssumption == MaxViews \in Nat \ {0}
ASSUME MaxLoadsAssumption == MaxLoads \in Nat \ {0}
ASSUME DjvuAssumption == Djvu \in BOOLEAN

VARIABLES
    activity,       \* "open", "finishing" after finish(), "destroyed"
    views,          \* the activity instances there have been
    view,           \* ViewerActivity.view of the managed one, NoView before it is set
    attached,       \* views with a window: they run what is posted to them
    layoutFlag,     \* views whose layoutFlag is set
    posted,         \* the view a BookLoadTask is posted to
    loads,          \* the BookLoadTasks there have been
    dialog,         \* askPassword shows its dialog
    isRunning,      \* ViewerActivityController.isRunning
    isNeedRecycle,  \* ViewerActivityController.isNeedRecycle
    load,           \* where the BookLoadTask is
    waited,         \* the view it waits for
    result,         \* what it will hand to onPostExecute
    pages,          \* DocumentModel.pages is not empty
    isRecycled,     \* DecodeServiceBase.isRecycled
    document,       \* DecodeServiceBase.document is not null
    opened,         \* a native document has been opened
    docFrees,       \* how often freeDocument has been called for it
    handle,         \* AbstractCodecContext.contextHandle is not 0
    ctxFrees,       \* how often freeContext has been called
    worker,         \* where the worker is
    found,          \* shutdown has found a document
    messenger,      \* where DjvuContext.run is
    docInfo,        \* DjvuContext.docSemaphore has a permit
    finalized,      \* the collector has finalized document and context
    late            \* history: a book was closed while a BookLoadTask was posted
                    \* that starts after the closing

ui == <<activity, views, view, attached, layoutFlag, dialog>>
task == <<posted, loads, isRunning, isNeedRecycle, load, waited, result>>
native == <<opened, docFrees, handle, ctxFrees, finalized>>
service == <<pages, isRecycled, document, worker, found>>
djvu == <<messenger, docInfo>>
vars == <<ui, task, native, service, djvu, late>>

NoView == 0
Views == 1 .. MaxViews

\* After onPostCreate of the first activity instance, whose startDecoding has
\* posted a task, with a service and a context of their own.
Init ==
    /\ activity = "open" /\ views = 1 /\ view = 1
    /\ attached = {} /\ layoutFlag = {} /\ dialog = FALSE
    /\ posted = 1 /\ loads = 1
    /\ isRunning = FALSE /\ isNeedRecycle = FALSE
    /\ load = "idle" /\ waited = NoView /\ result = "ok"
    /\ opened = FALSE /\ docFrees = 0 /\ handle = TRUE /\ ctxFrees = 0
    /\ finalized = FALSE
    /\ pages = FALSE /\ isRecycled = FALSE /\ document = FALSE
    /\ worker = "running" /\ found = FALSE
    /\ messenger = (IF Djvu THEN "check" ELSE "ended") /\ docInfo = FALSE
    /\ late = FALSE

-----------------------------------------------------------------------------
(* The activity and its views.  The UI thread replaces the activity in two  *)
(* steps that only other threads can tell apart.                            *)

OnUiThread == view # NoView

\* A posted task is among the messages of the UI thread.
TaskIsDue == posted \in attached

\* The first traversal of a window: the view is attached and laid out.
Traverse ==
    /\ OnUiThread /\ activity = "open" /\ view \notin attached
    /\ attached' = attached \union {view}
    /\ layoutFlag' = layoutFlag \union {view}
    /\ UNCHANGED <<activity, views, view, dialog, task, native, service, djvu, late>>

\* A configuration change: onDestroy of an activity that is not finishing
\* leaves its view alone, and beforeCreate manages the new activity.
Recreate ==
    /\ OnUiThread /\ activity = "open" /\ views < MaxViews
    /\ views' = views + 1
    /\ view' = NoView
    /\ dialog' = FALSE
    /\ UNCHANGED <<activity, attached, layoutFlag, task, native, service, djvu, late>>

\* onCreate goes on.  A second afterPostCreate starts no decoding.
CreateView ==
    /\ ~OnUiThread
    /\ view' = views
    /\ UNCHANGED <<activity, views, attached, layoutFlag, dialog, task, native,
                   service, djvu, late>>

\* Mutant: the service is told every time.
RecycleModelAgain ==
    /\ isRecycled' = TRUE
    /\ worker' = "shutdown"
    /\ pages' = FALSE
    /\ UNCHANGED <<document, found>>

\* DocumentModel.recycle: the service is told once, the pages go.
RecycleModel ==
    /\ isRecycled' = TRUE
    /\ worker' = IF isRecycled THEN worker ELSE "shutdown"
    /\ pages' = FALSE
    /\ UNCHANGED <<document, found>>

\* Mutant: the task that is loading is not asked about.
RecycleAtOnce == RecycleModel /\ UNCHANGED isNeedRecycle

\* What closeActivity and beforeDestroy do with the model.
RecycleOrDefer ==
    IF isRunning THEN isNeedRecycle' = TRUE /\ UNCHANGED service
                 ELSE RecycleModel /\ UNCHANGED isNeedRecycle

\* The user closes a book he sees.
CloseActivity ==
    /\ OnUiThread /\ activity = "open" /\ view \in attached
    /\ late' = (late \/ TaskIsDue)
    /\ activity' = "finishing"
    /\ RecycleOrDefer
    /\ UNCHANGED <<views, view, attached, layoutFlag, dialog, posted, loads, isRunning,
                   load, waited, result, native, djvu>>

\* Mutant: the view is not told.
BeforeDestroyKeepsWaiting ==
    /\ OnUiThread /\ activity # "destroyed"
    /\ late' = (late \/ TaskIsDue)
    /\ activity' = "destroyed"
    /\ RecycleOrDefer
    /\ UNCHANGED <<views, view, attached, layoutFlag, dialog, posted, loads, isRunning,
                   load, waited, result, native, djvu>>

\* The end of an activity that is finishing, by the user or by the system.
BeforeDestroy ==
    /\ OnUiThread /\ activity # "destroyed"
    /\ late' = (late \/ TaskIsDue)
    /\ activity' = "destroyed"
    /\ layoutFlag' = layoutFlag \union {view}
    /\ RecycleOrDefer
    /\ UNCHANGED <<views, view, attached, dialog, posted, loads, isRunning, load, waited,
                   result, native, djvu>>

-----------------------------------------------------------------------------
(* BookLoadTask.                                                            *)

\* run and onPreExecute
PreExecute ==
    /\ OnUiThread /\ TaskIsDue /\ load = "idle"
    /\ posted' = NoView
    /\ isRunning' = TRUE
    /\ load' = "getView"
    /\ UNCHANGED <<ui, loads, isNeedRecycle, waited, result, native, service, djvu, late>>

End(r) == load' = "done" /\ result' = r

\* getView, which an activity in the middle of onCreate answers with null.
GetView ==
    /\ load = "getView"
    /\ IF view = NoView
       THEN End("error") /\ UNCHANGED waited
       ELSE waited' = view /\ load' = "wait" /\ UNCHANGED result
    /\ UNCHANGED <<ui, posted, loads, isRunning, isNeedRecycle, native, service, djvu, late>>

\* waitForInitialization ends.
WaitForInitialization ==
    /\ load = "wait" /\ waited \in layoutFlag
    /\ load' = "open"
    /\ UNCHANGED <<ui, posted, loads, isRunning, isNeedRecycle, waited, result, native,
                   service, djvu, late>>

\* DecodeServiceBase.open.  A native document is opened, and kept in the
\* service when openDocument has returned it, or it needs a password or fails.
Open ==
    /\ load = "open"
    /\ \/ /\ opened' = TRUE
          /\ IF Djvu
             THEN load' = "acquire" /\ UNCHANGED document
             ELSE load' = "init" /\ document' = TRUE
          /\ UNCHANGED result
       \/ /\ \E r \in {"password", "error"} : End(r)
          /\ UNCHANGED <<opened, document>>
    /\ UNCHANGED <<ui, posted, loads, isRunning, isNeedRecycle, waited, docFrees, handle,
                   ctxFrees, finalized, pages, isRecycled, worker, found, djvu, late>>

\* DjvuContext.openDocument has waited for the message about the document.
Acquire ==
    /\ load = "acquire" /\ docInfo
    /\ docInfo' = FALSE
    /\ document' = TRUE
    /\ load' = "init"
    /\ UNCHANGED <<ui, posted, loads, isRunning, isNeedRecycle, waited, result, native, pages,
                   isRecycled, worker, found, messenger, late>>

\* initPages reads the sizes of the pages, and may fail before or after it
\* has set them.
InitPages ==
    /\ load = "init"
    /\ \/ End("ok") /\ pages' = TRUE
       \/ End("error") /\ pages' \in BOOLEAN
    /\ UNCHANGED <<ui, posted, loads, isRunning, isNeedRecycle, waited, native, isRecycled,
                   document, worker, found, djvu, late>>

\* Mutant: what was deferred is forgotten.
PostExecuteForgets ==
    /\ OnUiThread /\ load = "done"
    /\ load' = "idle"
    /\ dialog' = (result = "password" /\ activity # "destroyed")
    /\ isRunning' = FALSE
    /\ UNCHANGED <<activity, views, view, attached, layoutFlag, posted, loads, waited,
                   isNeedRecycle, result, native, service, djvu, late>>

\* onPostExecute.  A dialog needs a window.
PostExecute ==
    /\ OnUiThread /\ load = "done"
    /\ load' = "idle"
    /\ dialog' = (result = "password" /\ activity # "destroyed")
    /\ isRunning' = FALSE
    /\ IF isNeedRecycle THEN RecycleModel ELSE UNCHANGED service
    /\ UNCHANGED <<activity, views, view, attached, layoutFlag, posted, loads, waited,
                   isNeedRecycle, result, native, djvu, late>>

\* redecodingWithPassword
Redecode ==
    /\ OnUiThread /\ dialog /\ loads < MaxLoads
    /\ late' = (late \/ activity # "open")
    /\ dialog' = FALSE
    /\ posted' = view
    /\ loads' = loads + 1
    /\ UNCHANGED <<activity, views, view, attached, layoutFlag, isRunning, isNeedRecycle, load,
                   waited, result, native, service, djvu>>

-----------------------------------------------------------------------------
(* The end of the service, and what the collector finds after it.           *)

\* Mutant: the context is recycled before the document is looked at.
StartShutdownOfContext ==
    /\ worker = "shutdown"
    /\ found' = FALSE
    /\ worker' = IF handle THEN "freeContext" ELSE "ended"
    /\ UNCHANGED <<ui, task, native, pages, isRecycled, document, djvu, late>>

\* Executor.shutdown.  AbstractCodecDocument.recycle frees the context first
\* and the document after it; without a document codecContext.recycle does it.
StartShutdown ==
    /\ worker = "shutdown"
    /\ found' = document
    /\ worker' = IF handle THEN "freeContext" ELSE "ended"
    /\ UNCHANGED <<ui, task, native, pages, isRecycled, document, djvu, late>>

FreeContext ==
    /\ worker = "freeContext"
    /\ ctxFrees' = ctxFrees + 1
    /\ worker' = "clearHandle"
    /\ UNCHANGED <<ui, task, opened, docFrees, handle, finalized, pages, isRecycled,
                   document, found, djvu, late>>

ClearHandle ==
    /\ worker = "clearHandle"
    /\ handle' = FALSE
    /\ worker' = IF found THEN "freeDocument" ELSE "ended"
    /\ UNCHANGED <<ui, task, opened, docFrees, ctxFrees, finalized, pages, isRecycled,
                   document, found, djvu, late>>

\* ... after which codecContext.recycle finds nothing to do.
FreeDocument ==
    /\ worker = "freeDocument"
    /\ docFrees' = docFrees + 1
    /\ worker' = "ended"
    /\ UNCHANGED <<ui, task, opened, handle, ctxFrees, finalized, pages, isRecycled,
                   document, found, djvu, late>>

\* Nothing refers to document and context any more: their finalizers recycle
\* them, which does something only while the handle is there.
Finalize ==
    /\ worker = "ended" /\ messenger = "ended" /\ load = "idle" /\ posted = NoView
    /\ activity = "destroyed" /\ ~finalized
    /\ finalized' = TRUE
    /\ ctxFrees' = IF handle THEN ctxFrees + 1 ELSE ctxFrees
    /\ docFrees' = IF handle /\ opened THEN docFrees + 1 ELSE docFrees
    /\ handle' = FALSE
    /\ UNCHANGED <<ui, task, opened, service, djvu, late>>

-----------------------------------------------------------------------------
(* DjvuContext.run.                                                         *)

\* isRecycled is asked, and getContextHandle answers with the handle.
CheckRecycled ==
    /\ messenger = "check"
    /\ messenger' = IF handle THEN "handle" ELSE "ended"
    /\ UNCHANGED <<ui, task, native, service, docInfo, late>>

\* handleMessage, which calls handleDocInfo when a document has been opened.
HandleMessage ==
    /\ messenger = "handle"
    /\ messenger' = "check"
    /\ docInfo' = (docInfo \/ load = "acquire")
    /\ UNCHANGED <<ui, task, native, service, late>>

-----------------------------------------------------------------------------
UiStep == Traverse \/ Recreate \/ CreateView \/ CloseActivity \/ BeforeDestroy
          \/ PreExecute \/ PostExecute \/ Redecode
LoadStep == GetView \/ WaitForInitialization \/ Open \/ Acquire \/ InitPages
WorkerStep == StartShutdown \/ FreeContext \/ ClearHandle \/ FreeDocument
MessengerStep == CheckRecycled \/ HandleMessage

Next == UiStep \/ LoadStep \/ WorkerStep \/ MessengerStep \/ Finalize

Spec == Init /\ [][Next]_vars

\* Every thread goes on, posted messages are run, a window is laid out, and an
\* activity that is finishing is destroyed.  No user has to do anything.
Fairness ==
    /\ WF_vars(Traverse) /\ WF_vars(CreateView)
    /\ WF_vars(PreExecute) /\ WF_vars(PostExecute)
    /\ WF_vars(activity = "finishing" /\ BeforeDestroy)
    /\ WF_vars(LoadStep) /\ WF_vars(WorkerStep) /\ WF_vars(MessengerStep)

FairSpec == Spec /\ Fairness

-----------------------------------------------------------------------------
\* The Boolean part of the type invariant.
BooleansOK ==
    /\ late \in BOOLEAN
    /\ dialog \in BOOLEAN /\ isRunning \in BOOLEAN /\ isNeedRecycle \in BOOLEAN
    /\ pages \in BOOLEAN /\ isRecycled \in BOOLEAN /\ document \in BOOLEAN
    /\ opened \in BOOLEAN /\ handle \in BOOLEAN /\ found \in BOOLEAN
    /\ docInfo \in BOOLEAN /\ finalized \in BOOLEAN

\* Every variable keeps its type.
TypeOK ==
    /\ BooleansOK
    /\ activity \in {"open", "finishing", "destroyed"}
    /\ views \in Views /\ view \in Views \union {NoView}
    /\ attached \subseteq Views /\ layoutFlag \subseteq Views
    /\ posted \in Views \union {NoView} /\ loads \in 1 .. MaxLoads
    /\ load \in {"idle", "getView", "wait", "open", "acquire", "init", "done"}
    /\ waited \in Views \union {NoView}
    /\ result \in {"ok", "password", "error"}
    /\ docFrees \in 0 .. 2 /\ ctxFrees \in 0 .. 2
    /\ worker \in {"running", "shutdown", "freeContext", "clearHandle", "freeDocument",
                   "ended"}
    /\ messenger \in {"check", "handle", "ended"}

\* Whatever the closing of the activity, the shutdown and the finalizers do, and
\* however late a task starts, the native context and the native document are
\* freed once (AbstractCodecContext.recycle, AbstractCodecDocument.recycle).
FreedOnce == docFrees <= 1 /\ ctxFrees <= 1

\* While a BookLoadTask opens the document and reads its pages, on its own
\* thread, nobody frees document or context: the closing waits for it
\* (isRunning and isNeedRecycle).  A task that starts late is not waited for.
LoadUsesLive ==
    load \in {"open", "acquire", "init"} /\ ~late => docFrees = 0 /\ ctxFrees = 0

\* A book whose activity is going away has been recycled as soon as no task is
\* loading it: the deferred recycling of isNeedRecycle is never lost.
ClosedIsRecycled == activity # "open" /\ ~isRunning => isRecycled

\* A recycled model has no pages: no task fills them in after recyclePages, when
\* nobody would give their bitmaps up any more, unless the task started late.
PagesAreGivenUp == isRecycled /\ ~late => ~pages

\* The view a BookLoadTask waits for belongs to an activity that has been
\* replaced before its first layout: its layoutFlag will never be set.
LostView == load = "wait" /\ waited # view /\ waited \notin layoutFlag

\* A BookLoadTask ends, also when its activity is replaced or destroyed while it
\* waits for the layout, unless it is left with a lost view, or starts after the
\* message thread of its context has ended.
LoadEnds == isRunning ~> ~isRunning \/ LostView \/ late

\* A book that is closed is freed in the end, with everything that was opened,
\* and its worker thread ends, however the closing meets the loading, unless a
\* task starts late and opens a document after that.
ClosedIsFreed ==
    activity # "open" ~>
        \/ worker = "ended" /\ ctxFrees = 1 /\ (opened => docFrees = 1)
        \/ LostView \/ late
=============================================================================
