# TLA+ models of the reader

This directory is a verification development for the Android e-book reader in this repository. It
holds TLA+ modules translated from the Java and C sources, TLC configurations that check them on small
instances, and proofs checked by TLAPS. `PROJECT.json` lists the runs, the mutants that show each
property can fail, the source lines each definition stands for, the hazards, and the theorems.

Paths below are relative to `app/src/main/java` unless they say otherwise.

## 1. Inventory of the system

| Part | State it keeps | Operations | What is hard about it | What makes it correct |
|---|---|---|---|---|
| Decode pipeline, `org/ebookdroid/core` (`DecodeServiceBase`, `PageTreeNode`, events) | task list with holes, map node → task, `cancelled` flags, `run`, `isRecycled`; per node `decodingNow`, `bitmapZoom`, bitmap holder; progress counter | scroll, zoom, reset, decode, stop, search, recycle | UI thread, worker thread, search thread and posted runnables interleave; a request can be superseded at any point of its execution; the wake-up of the worker can be lost | no request is lost or executed after it was superseded, no node waits for ever, counters balance, nothing runs after the shutdown |
| Codec page cache (`DecodeServiceBase.getPage`) | insertion-ordered map of soft references to native pages | get, evict, recycle | used from the worker and from the UI thread (thumbnails) without a lock; capacity 0; eviction frees native memory | a page is not freed while it is used, every opened page is freed once |
| Bitmap manager, `org/ebookdroid/common/bitmaps` | used map, pool, queue of bitmaps to release, memory counters, generation | get, release, clear, ageing | several threads, no lock over the whole; double release | a bitmap has one owner, the counters match the contents |
| Page tree (`PageTree`, `PageTreeLevel`) | array of nodes, `maxNodeId` | create, process a level, recycle parents, children, levels | index arithmetic, `maxNodeId` as a bound of later scans | a node with a bitmap is found again by the recycling scans |
| Book opening and closing (`ViewerActivityController`, `DocumentModel`, codec documents) | `isRunning`, `isNeedRecycle`, handles of document and context | start decoding, load, close, destroy | load runs in the background while the activity is closed | document and context are freed exactly once, in a legal order |
| Settings and databases (`common/settings`) | current book settings, listeners, schema versions | load, store, edit, migrate | edits nested in callbacks, migrations over six versions | no edit is lost, a migration keeps the books |
| Touch, keys and view controllers | gesture state, scroll position | touch events, key events, page changes | event order, multi-touch | a gesture ends in one action |
| Draw queue and views (`ui/viewer/viewers`: `DrawThread`, `SurfaceView`, `BaseView`) | bounded queue of view states, `stop`, the surface | redraw, draw, create, change and destroy the surface | the drawing thread against surface destruction; a full queue drops the newest state; canvases that cannot be locked | no drawing after the surface is gone, the screen never goes back to an older state, the last state is shown |
| Page curl animators (`core/curl`) | animation state | start, step, settle | timers against touches | an animation ends on a page |
| Utilities, `org/emdev` | listeners, scanner queue | add, fire, scan | reentrant listeners | every listener is told once |
| Library application, `com/greenlemonmobile` | book database, web reader, parsers, thread pool | import, open, paginate | background parsing, cancelled tasks | a task runs once |
| Book store, `com/kuaxue` | downloads, cache of records | start, pause, resume, finish | service against activity, network failures | a download ends in one state |
| HTTP helpers, `com/common`, `com/loopj` | requests | send, cancel | vendored | not looked at |
| Text reader library, `hwtxtreaderlib` | paragraph data, page cache, bitmaps | load, next page, previous page | next and previous page must be inverse | no character is skipped or shown twice |
| PDF module, `pdf` | annotations, search tasks | draw, undo, search | cancelled asynchronous tasks | an annotation is saved once |
| EPUB library, `folioreader` | media overlay state, highlights | play, pause, highlight | callbacks of a player | play and pause alternate |
| Resource store of MuPDF, `app/src/main/jni/mupdf/mupdf/fitz` (`res_store.c`, `base_hash.c`) | list of items with reference counts and sizes, hash table with open addressing | load and store, find, keep, drop, remove, evict, scavenge, empty | the lock is given up to free an object and to grow the table, and the state is used again after it | references are exact, nothing dangles, list and table agree, eviction ends |
| Text search of MuPDF, `jni/readium/mupdfdroidbridge.c`, `fitz/dev_text.c` | span, line and blocks of the text device; what `search` has allocated | extract, match, free | an exception at any step; text that is still in the device | a search finds what the page reads as, ends, and frees everything |
| Other native code, `app/src/main/jni` | codec memory | decode | C code | vendored |

## 2. Plan

Done, in this order: the decode pipeline and the pool of tasks it implements (`DecodeService`,
`TaskPool`), the cache of native pages (`CodecPageCache`), the page tree (`PageTree`), the bitmap
manager with its users (`BitmapPool`), the life of a book (`BookLifecycle`), the queue of view states
and the screen it implements (`DrawQueue`, `Screen`), the resource store under all codecs of MuPDF
with its hash table and the reference counting it implements (`ResourceStore`, `StoreTable`,
`Storable`), the text search of a page (`PageSearch`), and proofs about all of them.

Next, most important first:

1. `BookLifecycle` with the switch of the view mode (`ViewerActivityController.java:672-688`),
   whose `init` runs on the UI thread while a load may be running.
2. `SettingsStore`: current book settings, edits nested in callbacks, storing on pause, and the
   migration over six schema versions; the files of the page and thumbnail caches with a process
   that ends while one is written.
3. `TextPages`: next and previous page of the text reader as functions over paragraphs and
   characters, checked to be inverse to each other on all small books.
4. `Downloads`: the download service against its activities and the network.
5. `WorkPool`: the pooled threads of the library application (wait, assign, stop). The question to
   ask first: `getIdleThread` looks at the threads before `waitForIdleThread` resets
   `hasIdleThread`, so that a thread that becomes idle in between has notified in vain.
6. `Annotations`: saving, undoing and cancelling in the PDF module. Listeners, media overlay.

Each safety property that a passing run checks is proved (section 6). A module of this list is to come
with its proofs, for which the lemmas about folds, sequences and counting in `PageSearchProofs`, about
recursive functions in `CodecPageCacheProofs` and about rings of slots in the store's proofs are the
place to start from.

Composition: `DecodeService` takes the page in hand as given, `CodecPageCache` is what its step
`getPage` does, `BitmapPool` what its steps `render` and `deliver` do with bitmaps, `BookLifecycle`
what its `Recycle` and `RunShutdown` look like from the activity. They meet at the worker, which
executes one task at a time; each module has that worker with the steps that matter to it, so that
the state space is a sum and not a product. `StoreTable` composes `ResourceStore` with the array of
its hash table: `TNext` is a step of the store together with the calls of the table that belong to
it. There are three abstract specifications. `DecodeService`, `DrawQueue` and `ResourceStore` are
checked and proved to implement `TaskPool`, `Screen` and `Storable`.

## 3. The modules and the code

### `DecodeService` (`DecodeServiceBase.Executor`, `PageTreeNode`, `core/events`, `TextSearch`)

Actors: the UI thread (`Event`, `DecodePage`, `RunPosted`, `Recycle`, `RecyclePages`), the worker
thread (`Worker`) and the thread of a text search (`Searcher`).

| State | Code |
|---|---|
| `tasks`, `decodingTasks` | `Executor.tasks`, an `ArrayList` with null slots, and the map from nodes to tasks |
| `cancelled` | `DecodeTask.cancelled` of every task there has been |
| `isRecycled`, `run`, `pc`, `current` | the flags of the service and of the executor, and where `Executor.run` is |
| `decodingNow`, `bitmapZoom`, `holder` | the fields of `PageTreeNode`; `holder` names the task whose image is shown |
| `progress` | `DecodingProgressModel.currentlyDecoding` |
| `nodesToDecode` | what an event has collected and not handed to `decodePage` yet |
| `posted` | runnables on their way to the UI thread |

A critical section under `Executor.lock` is one action. Where the code gives the lock up there is a
step boundary: between `nextTask` finding nothing (`FindEmpty`) and its `wait` (`Park`), between the
stages of `performDecode` (each of which asks `isTaskDead` again), and between `finishDecoding` and
`decodeComplete`. An event is one step that changes the nodes (`ApplyEvent`), followed by one
`DecodePage` per collected node. `Candidates` is the task comparator: the shutdown, then searches,
then decode tasks in any order. The order of decode tasks and the sets of kept, visible and covered
nodes come from geometry; the model lets them be any, which includes what the code does.

Left out: `stopSearch`, what `checkCropping` does to page sizes, thumbnails, zoom events that are
not committed. Nodes are never garbage: a node given up by the tree and created again is the same
node. Two stops of one node in one event are one. The model stays with the code in that an image of
an earlier zoom may be delivered after a later request and stays until the next event.

### `TaskPool` (the promise of the executor)

A set of waiting tasks, one that is executed, the next id, and whether the pool is open. A request
replaces the one its node has waiting; the shutdown goes first and ends the pool. It has no slots,
map, flags, lock or thread; `DecodeService` maps `waiting` to the filled slots and `executing` to
`current`.

### `CodecPageCache` (`DecodeServiceBase.getPage` and its `LinkedHashMap`)

State: the entries of the map, eldest first; for every page object its index and whether its native
page is freed; the view's window; the setting `pagesInMemory`; the step the worker is at. Actions
follow `getPage`: purge the entries whose reference is cleared, look up, `put(index, null)` to make
room, open, `put` again, use. `OutOfMemory` is the loop that floods the map with keys to make it
evict (`overflow`), and `clear()`; what a crowded map still holds then is `Mislaid`: open, and out of
reach of everybody but the collector. `Shutdown` is the recycling of the pages. Between the steps the collector may clear and
finalize a page (`Collect`), the user may scroll (`UpdateViewState`) and change the setting.
`EvictAfterInsert` tells the two libraries apart: Android 7 and later ask `removeEldestEntry` after
the insertion, earlier ones before it; the minimum API level of the build covers both.

Left out: `createThumbnail`, which uses the same map from the loading thread (a hazard). Clearing
and finalizing a page are one step, which is the worst the collector can do.

### `PageTree` (`PageTree`, `PageTreeLevel`, `PageTreeNode.getParent`)

State: the indices that hold a node, `maxNodeId`, and for the UI thread and the drawing thread the
program counter and local variables of the operation in progress, `seen` being what an expression has
read from `maxNodeId`. `Process` visits a level and creates what is missing, going up to the first
existing ancestor (`Climb`, `FindParent`, `CreateChildren`, `WriteMax`). `RecycleAll`,
`RecycleNodes` and `RecycleChildren` give nodes up; the loops of the first two read `maxNodeId` at
every turn (`RecycleMore`). `Trim`, `TrimLook` and `TrimLower` are the loop that lowers `maxNodeId`,
`EndTrim` is the increment after it.

`surfaceView` is the view type of the settings, which a behaviour starts with: with a `BaseView` an
operation begins only when no other is in progress; with a `SurfaceView` drawing runs on its own
thread and the two interleave at every access that the other could tell apart. `maxNodeId` is
volatile, but `maxNodeId++`, `maxNodeId--` and `Math.max(maxNodeId, childId)` are a read (`ReadMax`)
and a later write, and the test of the trim loop reads it twice. The children of one parent are
created, and given up, in one step. `Width` and `Start` build the levels one after the other as the
constructor of `PageTreeLevel` does.

`MaxIsExact` is about a `BaseView`. `NoBadAccess` says for a `BaseView` that no access goes wrong, and
for a `SurfaceView` how far it can: the drawing thread finds a parent, the UI thread recycles it, and
the assertion in the constructor of the child fails; or the drawing thread raises `maxNodeId` to
`nodes.length` while the UI thread trims, which then reads past the array, or increments once more,
so that the next recycling reads past it. `maxNodeId` never becomes larger than that, drawing never
reads past the array, and the UI thread never meets a null node.

### `BitmapPool` (`BitmapManager`, `Bitmaps`, `BitmapHolder`)

State: the pool and the queue as bags of bitmaps, the map of used bitmaps, the two memory counters,
which bitmaps exist and are alive, their age, and for each thread what is left of its `release()` or
`clear()` (`todo`) and where its iteration over the pool is (`picked`). The worker gets a bitmap for
the page, renders, gets or reuses the texture of the node, copies, releases the bitmap and posts the
texture; the UI thread puts it into the node and queues the one that was there. `getBitmap` is
split into choosing (`Pick`), taking (`Take`) and creating (`Create`), and the removal of old
bitmaps into choosing and recycling, because the collections are concurrent one by one only. Three
constants say what else happens: `TasksFail`, `UiReleases` (a document is closed on the UI thread
while the worker is at the pool) and `UiGets` (page animations). `leaked` is a history variable: the
page bitmaps of tasks that failed between rendering and `decodeComplete`, which the code releases
nowhere and `UsedIsOwned` excepts.

Left out: sizes (every bitmap has size 1 and a texture one part), `addBitmap` for thumbnails, the
bitmap of cropping, bitmaps of other codecs. The textures reused are held under their write lock.

### `BookLifecycle` (`ViewerActivityController`, `DocumentModel`, codec context and document)

State: the activity and its instances, the view each instance has, which views are attached and laid
out; the `BookLoadTask` (posted, where it is, its result), `isRunning` and `isNeedRecycle`; pages of
the model, `isRecycled`, the document of the service; how often the native document and context
were freed; the worker's shutdown; the message thread of `DjvuContext`; the finalizers. The
behaviour starts after `onPostCreate` of the first instance, which has posted the first load.

`RecycleOrDefer` is the decision that `closeActivity` and `beforeDestroy` share: recycle now, or set
`isNeedRecycle` and let `PostExecute` do it. `Recreate` and `CreateView` are the two visible halves
of a configuration change, which keeps the controller. `StartShutdown` to `FreeDocument` follow
`Executor.shutdown` through `AbstractCodecDocument.recycle` and `AbstractCodecContext.recycle`.

Two gaps of the code are kept in the model and named:

- Late starts. A load is posted first and sets `isRunning` when it starts. If the user closes the
  book in between, the book is recycled at once and the load then opens a document nobody frees,
  works on a recycled service, or waits for an answer of the DjVu message thread, which has ended.
  The history variable `late` marks the behaviours in which that happens; `LoadUsesLive`,
  `PagesAreGivenUp`, `LoadEnds` and `ClosedIsFreed` except them, `FreedOnce` and `ClosedIsRecycled`
  hold in them too.
- `LostView`. A load waits for the layout of the view it saw first. If a second configuration
  change replaces that view before its first layout, the load waits for ever, with `isRunning` set,
  and the book is never freed. The two liveness properties except exactly this state.

Left out: the switch of the view mode in an open book (planned); a failing open creates no native
document. The worker's other tasks are in `DecodeService`.

### `DrawQueue` (`DrawThread`, `SurfaceView`, `BaseView`) and `Screen`

State: the numbered view states (`latest`, as many as calls of `redrawView`), the queue of the
current `DrawThread`, its `stop` flag, where `run` is and which state it has, whether the UI thread
waits in `finish`, the surface and its callbacks, and for a `BaseView` whether a draw is pending.
`Redraw` is `redrawView`: the state is offered, and a full queue refuses it. `TestStop` to
`UnlockAndPost` are the steps of the drawing thread, with a canvas that cannot be locked
(`LockFails`) and a drawing that throws (`ProcessFails`: what was drawn is posted nevertheless).
`SurfaceDestroyed` sets the flag and waits; `JoinReturns` ends the wait. With a `BaseView` the thread
is never started and `OnDraw` empties the queue and draws the last state.

`lost` is a history variable: the states that are known not to be drawn, because the queue was full,
the surface went away or drawing failed. `EachIsDrawn` excepts them and only them; a full queue
drops the *newest* state, so that after a burst of scrolling the screen may stay behind until the
next event. `Screen` is the promise: blank, or a state that was asked for, and never an older one
than before, not even after a surface was lost and another was made.

### `ResourceStore` (`res_store.c`, `base_hash.c`, the scavenger of `base_memory.c`) and `Storable`

State: per object its reference count, whether it is live or freed, and how many references the
clients of the store hold; the list, the hash as a function from keys to objects, the size and the
table's size; per thread the operation it is in, the object whose last reference it dropped
(`victim`), and the locals of `fz_store_item` and `ensure_space` (`cur`, `prev`, `need`, `count`).

An action is a critical section of `FZ_LOCK_ALLOC`. `evict` gives it up to call the `free` function
of the object, so that eviction is `Evict` followed by `FreeVictim`, and `EnsureSpace` goes on at the
item it pinned before it; `fz_hash_insert` gives it up to allocate a larger array, so that filing an
item is `Insert`, `Resize`, `LinkResized`. `LastUnused` is the walk from the tail to the next item
only the store refers to. Where the code has undefined behaviour (`ResizeFails`: a thread gives up a
lock it does not hold; `RemoveItem` frees an item another thread has pinned) the flag `undefined`
ends the behaviour; the invariants say what holds up to there. `StoreFits` compares what is stored or
on its way in (`Filing`: counted, but not filed while the lock is given up) with `store->size`.

`Storable` is what a client sees: create, take, drop, free; an object is not freed while a client
holds it, and at most once. The list, the table, the eviction and the pins do not show.

Left out: static objects (negative counts), debugging, the allocators themselves. Each object is
loaded once; a key may have two objects, loaded by two threads at a time. Sizes are at least 1.

### `StoreTable` (`base_hash.c`)

The array of the hash table beside the store: `Stops` is where the probing for a key ends,
`Inserted`, `Removed` and `Resized` are the three functions that change the array. `Removed` is the
deletion without markers: `MayFill` is the condition under which an entry behind a hole moves into
it, with its two cases for holes across the end of the array. `Lookup` must agree with the function
that `ResourceStore` takes the table for (`TableIsHash`). `RoomAssumption` says of the table's size,
its load factor and the number of threads that a blank slot is left when every thread files one item
more; the code's 4096 slots and eight tenths leave room for 1600 threads.

### `PageSearch` (`MuPdfPage_search` of the bridge, `dev_text.c`)

State: the text device (`span`, `line`, `lastchar`), the text page (`blocks`), which of the things
`search` allocates are alive, which local variables point to them, and where `search` is. There are
four things and three variables: the sheet, the page, the device, and the `user` part of the device,
which only the device points to. The arrays of spans, lines and blocks belong to page and device.

`Glyph` is `fz_text_extract` for one glyph: whether it lies next to the last one, after a gap or on
another line is geometry and therefore any of the three, as is the block a line goes to. `TextCharAt`
and `MatchChar` are `textcharat` and `match` as folds over lines, spans and the pattern; a result of
`Forever` is the loop over blanks that never ends.

`Throw` is an exception at any step of the `fz_try` block; between `NewUser` and `NewDevice` it leaves
the first allocation of `fz_new_text_device` to nobody. The variables of `search` are changed after
`setjmp` and not given to `fz_var`, so that after the `longjmp` each may have its old value: `Jump`
sets any subset of them back (`hidden`). `FreeTexts` and `FreeDeviceLast` are the `fz_always` block.
The device comes last: what it still holds (`Pending`) goes to the page, by way of a style of the
sheet, and both may be freed by then (`Gone`). That flush may throw as well (`FlushThrows`), and since
the frame of `fz_try` is popped only by `fz_catch`, the `longjmp` leads to the beginning of
`fz_always`, which runs again on the same variables, any number of times. `undefined` records that
freed memory was used or freed; the behaviour goes on, to tell what is left at the end.

Left out: the boxes that are returned. Only whether there is one matters, and every real character is
taken to have one: a match whose characters all have an empty box when rounded is passed over at
`mupdfdroidbridge.c:758`. Also case folding, the early returns before `fz_try`, which allocate
nothing native but the string, and the other functions of the bridge.

## 4. Runs

Every property of a passing run has a mutant in `PROJECT.json`: a plausible change of one definition
(a dropped guard, an off-by-one, a missing reset) with which TLC finds the property violated under
the same configuration. Mutated forms stand before the definition they replace, marked `Mutant`.

Deadlock is not checked anywhere because each system really stops: the worker ends after the
shutdown, a closed book and a finished search are over, an idle tree has nothing to do, an emptied
store stays empty, and the bounds on tasks, openings, bitmaps and view states end the behaviours
that would go on.

| Run | Configuration | Instance | Question |
|---|---|---|---|
| decode_safety | `MCDecodeService.cfg` | 2 nodes, 2 zooms, 3 decode tasks | Do slots, map, flags and counter agree in every interleaving of UI thread and worker, and is every live task held by both? `QueueMatchesMap`, `NoNodeForgotten`, `ProgressIsExact`, `ImagesInOrder` |
| decode_pool | `MCDecodeServicePool.cfg` | 2 nodes, 1 zoom, 2 decode tasks, 2 searches, with fairness | Does the executor implement `TaskPool` with its fairness (`ImplementsPool`)? Does every request end (`SpinnerStops`), are searches answered (`SearchAnswered`), does a recycled service stop (`WorkerEnds`), with a wake-up that may be lost? |
| page_cache | `MCCodecPageCache.cfg` | 4 pages, 1 to 3 in view, setting 1 or 2, 5 openings, eviction after insertion | Is the page in use open (`UsedPageIsOpen`), does nothing but an overflow of a crowded map drop an open page (`NoPageMislaid`), and are no more at hand than there is room for (`OpenPagesBounded`)? |
| page_cache_default | `MCCodecPageCacheDefault.cfg` | setting 0, eviction after insertion | Violation of `UsedPageIsOpen` |
| page_tree | `MCPageTree.cfg` | fan-out 2, 3 levels, both view types | Is every node below `maxNodeId` and is it no larger than needed (`MaxIsExact`)? Does no access go wrong with a `BaseView`, and which can with a `SurfaceView` (`NoBadAccess`)? |
| bitmaps | `MCBitmapPool.cfg` | 4 bitmaps, 3 textures, 2 nodes, limit 3, failing tasks | With one thread at the pool: has a bitmap one owner, is nothing in use recycled, are the counters exact, is the pool bounded, is what is recorded as used owned? |
| bitmaps_threads | `MCBitmapPoolThreads.cfg` | 3 bitmaps, 2 textures, 1 node, limit 2, `UiReleases`, `UiGets` | With two threads at the pool: is what is alive in the map or in the pool (`LiveIsRecorded`)? |
| book | `MCBookLifecycle.cfg` | 3 activity instances, 3 loads, DjVu, with fairness | Is nothing freed under a load and everything freed at most once, is a closing never forgotten, do the load and the closing end? |
| draw | `MCDrawQueue.cfg` | queue of 2, 6 states, 3 surfaces, both view types, with fairness | Is nothing drawn without a surface, does the screen never go back (`ImplementsScreen`), is each state or a newer one drawn (`EachIsDrawn`), does `surfaceDestroyed` return (`JoinEnds`)? |
| store | `MCStoreTable.cfg` | 2 threads, 4 objects, 3 keys, 2 of them hashed, room for 3, table of 2 | Are references exact and is what is referred to alive (`RefsKeepAlive`), do list, hash and array agree (`HashIsTheList`, `TableIsHash`), is a pinned item found again, does the store stay within its maximum (`StoreFits`), do clients see reference counting? |
| store_full | `MCStoreTableFull.cfg` | the same with 1 thread | Violation of `GivesUpWithoutSpace` |
| search | `MCPageSearch.cfg` | pages of 3 glyphs, 2 letters, 2 styles, 8 patterns | Is the text complete, are the hits the places where the page reads as the pattern, when does `match` hang (`HangsOnlyAtTheEnd`), what outlives the search (`EverythingFreed`), when is freed memory used (`HarmOnlyAfterThrow`)? |

Why the bounds are enough:

- Decode tasks. Every conflict in the code is between two tasks of one node (replacing, a late
  answer) or between two nodes (slots, stops of one while the other runs). Three tasks over two
  nodes give one that runs, one that replaces it and a third in a hole. Two zooms are an old and a
  new one. For the pool and for liveness a second request of a node and a request of another are
  enough: a lost wake-up does not depend on what was submitted.
- Pages. With a setting of one or two, four pages and five openings fill the map, evict, open an
  evicted page again and run out of memory in between; windows above, at and below the setting
  exercise each branch of the capacity. A window of three with a setting of one is a map that the
  two keys of `OutOfMemory` do not empty.
- Tree. Three levels of fan-out two are enough for a level with ancestors missing, for
  `recycleChildren` to leave grandchildren and for the trim to pass over a level. The code's fan-out
  is four; the index arithmetic is parameterised by it.
- Bitmaps. Three bitmaps are one in use, one pooled and one more to go over the limit; four with two
  nodes let one texture be reused while another waits in the queue. `MaxMemory` bounds the counter
  in the run in which it can drift, `MaxPosted` the queue of the UI thread.
- Draw queue. A queue of two is empty, half full and full; six states fill it, with one in hand and
  others refused, on each of three surfaces, the last made while states of the first are lost.
- Store. Two objects of one key are what two threads decode at a time; one of size two needs two
  evictions of the others; a key that is not hashed is found in the list only. With room for three, a
  stored object lets two threads file another each at the same time. The table of two
  must grow, its keys collide in the last slot or are neighbours across the end. Two threads are all
  the code has (the worker and the UI thread).
- Search. Three glyphs are enough for three spans, three lines, two in one block, and a run of blanks
  before, between and after letters; the patterns have blanks at the start, in the middle, at the
  end and in a row.
- Book. Three instances are needed for a view that is replaced while a load waits for it and a
  second replacement; three loads are two wrong passwords and a right one.

Symmetry is used for nodes, zooms, page indices, bitmaps, textures and threads in runs without
liveness: the code neither orders nor tells them apart beyond equality.

## 5. Fairness

Nothing is assumed of a user, of the system's wish to change a configuration or of the collector.

- `DecodeService`: the worker thread is scheduled and comes back from native code and from its timed
  wait (`Worker`; `Timeout` is part of it: `run.wait(60000)` ends by itself); the UI thread works
  through its messages (`RunPosted`) and ends the handler it is in (`DecodePage`, `RecyclePages`);
  the searching thread is scheduled (`Searcher`). Weak fairness suffices since none of these steps
  is disabled for good by another actor before it is taken, and which decode task is taken does not
  matter as long as the finite supply of tasks runs out.
- `TaskPool`: weak fairness of taking and of finishing a task; `ImplementsPool` includes it.
- `DrawQueue`: the drawing thread is scheduled and its `poll` times out (`Thread`), `join` returns
  when the thread has ended (`JoinReturns`), and the framework keeps its word: `surfaceChanged` is
  called for a new surface, and an invalidated view is drawn (`OnDraw`). Weak fairness of `Thread`
  suffices, since it is one thread whose next step stays enabled until it is taken.
- `BookLifecycle`: the UI thread runs its messages and finishes what it has begun (`Traverse`,
  `CreateView`, `PreExecute`, `PostExecute`, and `BeforeDestroy` of an activity that is finishing);
  the load, the worker and the message thread are scheduled. Closing, passwords and configuration
  changes are never forced.

`CodecPageCache`, `PageTree`, `BitmapPool`, `ResourceStore` and `PageSearch` state safety only.

## 6. Proofs

TLAPS checks these for every value of the constants that satisfies the named assumptions of the
module; no bound of a configuration is used. The type invariants (`TypeOK`) are proved and not run,
but for that of `PageTree`, which is part of `NoBadAccess`.

**`DecodeServiceProofs`.** `TypeCorrect` (`Spec => []TypeOK`) rests on lemmas about the list with
holes: what `Put` and `Blank` return is a list of tasks, and a slot that `Put` fills is a hole or a
new last one. `NoNodeIsForgotten` proves `Spec => []NoNodeForgotten`. By itself it is not inductive:
when a new task replaces an older one one must know that the map files a task under its own node,
that the id of the new task is not among the cancelled ones, and that nothing is submitted once the
document is being closed. `RequestInv` adds `MapIsByNode`, `IdsAreUsed` and `ClosingIsOrdered`. The
delicate step is `FinishDecoding`, which removes the node's entry from the map although it may by
then be that of a younger task: the node stays cared for because the worker goes on to `deliver` or
`abort` for the same node.

`ProgressCountsWaitingNodes` (`ProgressIsExact`) is inductive with the types; its lemmas count the
nodes an event sets and ends. `QueueAndMapAgree` proves `QueueMatchesMap` with `QueueInv`, which
adds that a task in the worker's hands is in no slot (`WorkerHolds`) and older than what its node
has in the map (`CurrentIsOlder`). `ImagesArriveInOrder` adds to `ImagesInOrder` that what is posted
and what is shown of a node is older than what it waits for (`ImagesAreOlder`).
`ExecutorImplementsPool` is the refinement step by step, `Spec => Pool!Spec`: a submission that blanks
one slot and fills another replaces the node's task, taking a slot takes a task, `stopDecoding` and
`clear` withdraw, everything else stutters. It needs that a search and the shutdown are in the list
once (`OnceInv`), so that emptying a slot removes exactly one task of the pool. The property
`ImplementsPool` also has the fairness of the pool, which stays with TLC.

**`CodecPageCacheProofs`.** `TypeCorrect`, and `UsedPageStaysOpen`, which proves `UsedPageIsOpen`
under the assumption that the library evicts before insertion or that no setting is 0. The invariant
`UsedPageInv` adds to the types that the page in hand is open from the moment it is opened or found
(`HandIsOpen`) and that its key is in the map when it is filed (`KeyIsThere`), so that the second
`put` does not insert and cannot evict. The assumption is needed: run page_cache_default violates
the property without it.

`PagesAreNotMislaid` and `OpenPagesFit` hold for both libraries and all settings. The first proves the
action property `NoPageMislaid` from `FiledInv`: a page is filed under the index it was opened for,
and the page in use is filed or freed already. That running out of memory frees everything unless
the map is crowded is an induction over the insertions (`Overflowing`: after n of them the last n
entries have no page, and the keys from -1 to -n are taken and no others). An earlier form of the
property, that no page is ever dropped, was checked with settings of two and three and passed; the
attempt to prove it showed why it is false, and settings of one and two show it to TLC. The second
proves `OpenPagesBounded` from `RoomInv` (the map has grown only within its room, and it has an entry
for the page to come unless it is empty) by mapping each page at hand to a position in the map.

The library's induction theorems take a predicate as a parameter, which the provers cannot
instantiate; `SetInduction` says the same of a set of numbers, from the well-foundedness of `<`, and
`RecursionExists` that a function which is defined by its first value and its steps exists. Both are
proved here, and `overflow` is the recursive function they are used for.

**`BookLifecycleProofs`.** `FreeInv` ties the number of frees to the phase of the worker and to the
handle; `FreedAtMostOnce` follows from it. `FlagsTell` says what the flags mean: `isRunning` exactly
while a load is on its way, an open activity has neither flag set, and a book that is no longer open
is recycled or will be. `LoadFirst` adds, for behaviours without a late start, that a running load
excludes a recycled service and that a closed book has no load posted. `NothingIsFreedUnderALoad`,
`ClosingIsNotForgotten` and `RecycledHasNoPages` follow from these together.

**`PageTreeProofs`.** For every fan-out and number of levels, `BoundIsExact` (`MaxIsExact`) and
`AccessesAreGood` (`NoBadAccess`, with the types). `IInv` says for each place of an operation what
holds there: a node the walk has found or is to create under is there (`There`, for the UI thread
with both views, since drawing takes no node away); the path holds the ancestors that miss, each the
parent of the next, down to the node the walk stands at (`Chain`); recycling starts behind the root
and inside the array (`Ahead`); and how far `maxNodeId` is from being exact (`Bound`): between the
creation of children and the write of `maxNodeId` it may be too small by those children, while nodes
are recycled too large, and when the search downwards begins no node is above it and it is inside
the array, which is what the clamp in `recycleChildren` is for. For a `SurfaceView`, where none of
this holds, `Overshoot` says how far `maxNodeId` can go: it is at most the length of the array while
the UI thread is lowering it, and so is every value the trim reads, so that the increment after the
trim makes it at most one more; and a thread that has read that larger value finds it unchanged, or
puts it back. `Composed` says once what a step of
one thread leaves to the other. The indices rest on `NextLevel`: the children of the nodes of a level
are exactly the next level, so that the array ends with the children of a node (`ParentIs`).

**`BitmapPoolProofs`.** `TypeCorrect` needs to know that only bitmaps that were created are about
(`OnlyCreated`) and what a thread gets a bitmap for (`WantTells`). `NoBitmapIsShared` proves
`OneOwner` under the assumption that there are no page animations, but with closings on the UI
thread and failing tasks. A sum of occurrences is a bad inductive invariant; `Exclusive` says owner
by owner which places exclude each other, and `PickedIsFree` that the bitmap the worker is about to
take out of the pool is in no other place, even if the UI thread recycles it in between.
`OwnersAreOne` counts at the end. The assumption is needed: with `UiGets` TLC finds a pool in which
the UI thread and the worker take the same bitmap.

Two theorems need no assumption on the threads: `NoBitmapSlipsOut` (`LiveIsRecorded`) and
`NoBitmapIsForgotten` (`UsedIsOwned`, with the leak of failing tasks excepted). `CountersAreExact`,
`PoolStaysBounded` and `UsedBitmapsAreLive` assume that only the worker is at the pool (neither
`UiGets` nor `UiReleases`), as in the run bitmaps: the code counts and removes in two steps, and with
two threads the counters do drift. `AloneInv` gives what being alone means: the UI thread has nothing
left to do at the pool, and the bitmap the worker has chosen is still in it. `CountInv` adds that map
and pool are finite and disjoint, `LimitInv` that what a thread has left to do ends with shrinking
the pool, `LiveInv` that the page, the textures and the chosen bitmap are alive. There are finitely
many textures (`TexturesAssumption`), so that those which hold a bitmap can be counted.

**`DrawQueueProofs`.** `DrawingNeedsSurface` is inductive by itself. `ScreenIsImplemented` needs the
order of the queue (`QueueInOrder`: what waits ascends from `best` to `latest`), the place of the
state in hand (`TaskInOrder`), and that a `BaseView` has no thread that draws (`OneDrawer`), so that
`OnDraw`, which empties the queue, never competes with a state in hand. `TypeCorrect` adds that
what waits, is in hand, is shown or is lost was asked for by then (`AskedFor`).

**`ResourceStoreProofs`.** For any number of threads, objects, keys and sizes: `ReferencesKeepAlive`
(exact counts, and live exactly when referred to or about to be freed by one thread),
`HashAgrees`, `PinnedStaysStored`, `StoreIsBounded` (`StoreFits`) and `StorableIsImplemented`. The invariant
joins them, because each needs the others: that an item whose count is 1 is not held by a client
needs the exact counts, which need that the list has no object twice, which needs that an object
being stored is not in the list; a pin that is still in the list needs that eviction passes over
items with a count above 1. `Cardinality` of the threads that have pinned an object is the one place
where finiteness of `Threads` is used.

`StoreIsBounded` adds up sizes. A step changes `size` and the objects that are stored or being filed
in one of three ways (`SizeChange`): the size stays and no object is added, a size that fits is added
with one object, or an object goes and the size is lowered by its own. `Total` is a fold
of the library, which takes the objects one after the other in whatever order `CHOOSE` gives;
`TotalIs`, `TotalGrows` and `TotalOfMore` show, by induction over the number of objects, that the
order does not matter and that more objects have no smaller total.

The second part of the module is about `StoreTable`, and only that part uses its assumptions.
`ArrayIsTheHash` proves `TSpec => []TableIsHash` for every hash function and
any number of threads, keys and resizings; `ArrayIsHidden` (`TSpec => Spec`) carries what is proved of
`ResourceStore` over to the specification the run checks. The slots are a ring on which `Far` is the
distance from one to another. `Table` is what makes an array a table for a map: one entry per key, no
blank slot on the way from an entry's home to the entry, and the entries are the map. `InsertedIs`,
`RemovedIs` and `ResizedIs` say that the three functions take a table for one map to a table for the
next. The hard one is `RemovedIs`, an induction over the slots behind the removed entry: `FillInv` is
`Table` with one exception, the hole, which may be on the way to entries that have not been looked at
yet. Three facts about the ring carry it: `MayFill` is being on the way (`MayFillIs`), a way that
passes two of three slots passes the third between them (`RingOrder`), and the blank slot that ends
the loop is on no way at all (`FilledIs`). That probing ends needs a blank slot: `BlanksLeft` counts
the entries and the threads that have made the table larger and not filed their item yet
(`NextChange` sorts the steps of the store by what they do to the table). The loops of the code are
recursive functions; `Recursion` shows that they exist and `SetInduction` reasons about them.

**`PageSearchProofs`.** `AllIsFreed` (`EverythingFreed`) and `NoHarmWithoutThrow` (`HarmOnlyAfterThrow`)
follow from an invariant with one part per phase. In the `fz_try` block each thing that is allocated
has its variable, and the `user` part is there exactly while there is a device or one is being made
(`TryPart`). When `fz_always` is reached, also when it is reached again from its own end, a thing is
alive when its variable is hidden, or when it has its variable and has not been freed yet; no
variable is both; and freed memory has been used only if the flush of the device was
tried with page or sheet gone (`AlwaysPart`).
`TypeCorrect` shows that spans, lines and blocks hold characters, whatever is drawn.
`NothingDrawnIsLost` proves `NothingIsLost` for any number of glyphs. Its invariant `TextInv` says
that while the page runs the last line that is drawn is what the device holds (its line and then its
span), and that the text page shows all lines before that (`Shows`: as many lines that read as a text
as were drawn, for each text but the empty one). No span of the line is empty (`NoEmptySpan`), so
that a line is left out exactly when its text is empty. `OneMoreLine` counts: a line goes into any of
the blocks, old or new, and the flattened text page has one more line with that text and none less.
What `FlattenSeq` does to one more element is `FlattenAppend`, proved from its definition; sets of
sequences closed under `Append` (`SeqInduction`) take the place of an induction theorem with an
operator parameter.

`HitsAreExact` and `HangsAreExplained` prove `HitsAreMatches` and `HangsOnlyAtTheEnd`: for every page
and pattern, the loops of `match`, `textcharat` and `textlen` over the nested text page come to what
one long text, `Text`, reads as. The argument has four layers.

1. Each loop is a fold of the library, which is defined by `CHOOSE` over sets of places. `FoldSteps`
   shows that such a fold exists, and one lemma for each loop (`LineHasTurns`, `TextHasTurns`,
   `SqueezeHasTurns`, `MatchHasTurns`) turns it into its turns, one after the other.
2. `TextLenIs` and `CharAtIs` say that `textlen` is the length of `Text` and that `textcharat` gives
   its characters, and a blank past its end. What the loops have found after a part of the text is
   `Found`; `SpanFound` is the turn for one span, with the three ways in which a position can lie
   before, at and behind its end. It is needed that the text page has no line without spans
   (`HasLines`), because the end of a line is counted with its last span; `ShownHasLines` gets this
   from `TextInv`, the invariant of `NothingDrawnIsLost`.
3. What the text from a position on reads as, up to each position behind it, is `Readings`. Readings
   grow (`ReadingsGrow`), a character is added by one step only (`ReadingMade`), and the blanks behind
   a blank read as nothing (`BlanksMerge`).
4. `Matched` is the loop invariant of `match`: the part of the pattern so far is what has been read, it
   is not read up to any position further on, and behind a blank of the pattern there is a character
   which is none. The second conjunct makes the greedy loop complete, the third keeps one blank of the
   text from being taken for two of the pattern. `MatchStep` is one turn, `MatchEndIs` the loop:
   `match` hangs exactly when the text ends in a blank of the pattern. That `Reported` passes over no
   match (`MatchIsReported`) takes a detour: a match without a box consists of ends of lines, so that
   the pattern is one blank, and for that pattern `match` hangs at the end of the text.

The invariant over the steps is `Outcome`; TLC has checked it on the instance of the run as well. The
proof needs two assumptions on constants, that patterns are made of the characters of pages
(`PatternsAssumption`: `Letters` is any set, so that this only keeps markers out of patterns) and that
the marker `None` is no character (`NoneAssumption`).

Only model-checked: everything under fairness (`SpinnerStops`, `SearchAnswered`, `WorkerEnds`,
`LoadEnds`, `ClosedIsFreed`, `EachIsDrawn`, `JoinEnds`), which the prover cannot treat because of
`ENABLED`, and with them the fairness of `ImplementsPool`.

## 7. Findings

Two runs show the code doing other than what it says; `PROJECT.json` quotes the lines.

1. page_cache_default: with the default setting 0 on Android 7 and later `getPage` opens a page,
   inserts its key again (the first insertion was evicted by itself), has the page recycled by that
   insertion, and returns it.
2. store_full: `fz_store_item` compares a size that nothing changes in its loop, so that once the
   store is full it evicts everything unused and then does not store the item, although
   `ensure_space` is only to evict if it *can* free enough to store it.

Weaknesses met while modelling that no passing property covers or that a property excepts; the
hazards of `PROJECT.json` give more of most of them:

- Page cache. Before Android 7 the `put` that is to make room does not recycle a page when the cache
  is exactly full, so that one more page is open for a moment. When the memory runs out while the
  view shows more than `pagesInMemory` + 1 pages, `clear()` drops open pages that no key pushed out;
  their native memory, which is what is short, is freed by the collector only.
- Page tree with a `SurfaceView`. The drawing thread may find a parent that is recycled before the
  child is made; an update of `maxNodeId` may be lost; and since the trim reads it several times,
  the trim may read beyond the array, or leave `maxNodeId` one more than its length, so that the next
  recycling does. `NoBadAccess` states these outcomes instead of excluding them.
- Bitmaps. `getBitmap` ignores whether it removed the bitmap from the pool, so that with page
  animations two threads take the same one and release it twice; the counters drift when two threads
  are at the pool; a failing task keeps its page bitmap for ever; a texture that waits in the release
  queue may be reused and cleared after it was drawn; the runnable of `decodeComplete` may set a
  bitmap on a node that was recycled since.
- Book. The two gaps named in section 3; and the message thread of `DjvuContext` asks `isRecycled`
  under a lock that `recycle()` does not take, and may use the freed context.
- Draw queue. The newest state is the one that a full queue drops.
- Store. Removing an item does not lower the size (`res_store.c:398`), so that the room shrinks with
  every removal; the hash key of an image has padding bytes (`res_store.c:364`); an allocation that
  fails, or a second thread that grows the table, makes `fz_resize_hash` return without the lock;
  removing an item that another thread has pinned frees it under that thread.
- Bridge. A pattern that matches the end of a page up to one of its blanks (one with a trailing
  blank, say) keeps the worker until an `int` overflows; after an exception the text page and
  the style sheet are freed before the device, which still writes to the one and reads a style of the
  other; if the device throws there, `fz_always` runs again and frees both once more; what an
  exception sets back, and the first allocation of `fz_new_text_device` when its second fails
  (`dev_text.c:538`), is leaked; `dev` is read uninitialised at
  `mupdfdroidbridge.c:389` and what `renderPage` has allocated leaks at `:484` after an exception;
  one exception stack serves two threads (`base_error.c:46`).

## 8. Not modelled

View controllers, touch and page curls are floating-point geometry; their results are inputs of the
models. Of the native code the store and the text search are modelled, where threads and exceptions
of the application reach them; the interpreters, fonts and filters of MuPDF, DjVu, JPEG and FreeType
are third-party code that a call enters and leaves. They are most of the repository's lines, and
nothing of them outlives a call but what the store keeps. The HTTP client is vendored. Book parsers
and the user interface of library and store have no concurrency of their own. What is planned is in
section 2; the components of `PROJECT.json` give the reason for each part.

## 9. How to run

    tlc -workers 2 -config MCBookLifecycle.cfg MCBookLifecycle
    tlapm BookLifecycleProofs.tla

Each configuration belongs to the MC module whose name it begins with. The longest run takes about
two minutes with two workers; the proofs of all eight modules take several minutes.
