---------------------------- MODULE CodecPageCache ----------------------------
(***************************************************************************)
(* The cache of native codec pages of DecodeServiceBase: an insertion-     *)
(* ordered map from page indices to soft references, filled and emptied by *)
(* the worker thread that executes decode and search tasks, one at a time, *)
(* while the user scrolls and changes the settings and the garbage         *)
(* collector clears references and finalizes pages.                        *)
(*                                                                         *)
(* A page object is the number of its opening.  Each step of getPage is an *)
(* action, since the collector and the user act between them.              *)
(***************************************************************************)
EXTENDS Integers, Sequences, FiniteSets

CONSTANTS
    Indices,            \* page indices of the document; the keys of OutOfMemory
                        \* (Integer.MAX_VALUE and below) are not among them
    Windows,            \* numbers of pages the view may show at once
    Sizes,              \* values the setting pagesInMemory may take
    EvictAfterInsert,   \* java.util.LinkedHashMap: see Put
    MaxOpens            \* bound on the pages opened in a behaviour

ASSUME IndicesAssumption == \A i \in Indices : i \notin Int
ASSUME WindowsAssumption == Windows \subseteq Nat \ {0}
ASSUME SizesAssumption == Sizes \subseteq Nat
ASSUME LargestAssumption ==
    \E n \in Windows \cup Sizes : \A m \in Windows \cup Sizes : m <= n
ASSUME EvictAfterInsertAssumption == EvictAfterInsert \in BOOLEAN
ASSUME MaxOpensAssumption == MaxOpens \in Nat

VARIABLES
    pages,          \* DecodeServiceBase.pages: its entries, eldest first
    opened,         \* the index of every page object there has been
    recycled,       \* the page objects whose native page is freed
    window,         \* viewState.pages: lastVisible - firstVisible + 1
    pagesInMemory,  \* AppSettings.pagesInMemory
    pc,             \* where the worker is
    index,          \* the page it wants
    page            \* the page object it has in hand

vars == <<pages, opened, recycled, window, pagesInMemory, pc, index, page>>

NoPage == 0
Objects == 1 .. Len(opened)

-----------------------------------------------------------------------------
(* The map.                                                                 *)

\* The reference leads to a native page that can be used.
Usable(p) == p # NoPage /\ p \notin recycled

\* getCacheSize
Capacity == IF pagesInMemory = 0 THEN 0
            ELSE IF window > pagesInMemory THEN window ELSE pagesInMemory

HasKey(c, k) == \E i \in DOMAIN c : c[i].key = k

\* removeEldestEntry asks for the eldest entry of c to go.
Full(c) == Len(c) > Capacity

\* Mutant: the youngest entry goes.
PutDropsYoungest(c, k, p) ==
    LET entry == [key |-> k, page |-> p]
    IN  IF HasKey(c, k)
        THEN [i \in DOMAIN c |-> IF c[i].key = k THEN entry ELSE c[i]]
        ELSE IF Full(Append(c, entry)) THEN c ELSE Append(c, entry)

\* LinkedHashMap.put.  A key that is there keeps its place.  For a new key
\* removeEldestEntry is asked once: after the insertion by the library of
\* Android 7 and later, before it by that of earlier releases.
Put(c, k, p) ==
    LET entry == [key |-> k, page |-> p]
        longer == Append(c, entry)
    IN  IF HasKey(c, k)
        THEN [i \in DOMAIN c |-> IF c[i].key = k THEN entry ELSE c[i]]
        ELSE IF EvictAfterInsert
        THEN IF Full(longer) THEN Tail(longer) ELSE longer
        ELSE IF c # <<>> /\ Full(c) THEN Append(Tail(c), entry) ELSE longer

PagesOf(c) == {c[i].page : i \in DOMAIN c} \ {NoPage}

\* An entry is evicted: its page is recycled.
Evict(from, to) == recycled \cup (PagesOf(from) \ PagesOf(to))

-----------------------------------------------------------------------------
Init ==
    /\ pages = <<>>
    /\ opened = <<>>
    /\ recycled = {}
    /\ window \in Windows
    /\ pagesInMemory \in Sizes
    /\ pc = "idle"
    /\ index \in Indices
    /\ page = NoPage

-----------------------------------------------------------------------------
(* The worker: getPage for a task, and what the task does with the page.    *)

StartTask(i) ==
    /\ pc = "idle"
    /\ pc' = "purge"
    /\ index' = i
    /\ UNCHANGED <<pages, opened, recycled, window, pagesInMemory, page>>

\* The iterator removes an entry whose page is gone.
PurgeEntry ==
    /\ pc = "purge"
    /\ \E i \in DOMAIN pages :
          /\ ~Usable(pages[i].page)
          /\ pages' = SubSeq(pages, 1, i - 1) \o SubSeq(pages, i + 1, Len(pages))
    /\ UNCHANGED <<opened, recycled, window, pagesInMemory, pc, index, page>>

EndPurge ==
    /\ pc = "purge"
    /\ \A i \in DOMAIN pages : Usable(pages[i].page)
    /\ pc' = "lookup"
    /\ UNCHANGED <<pages, opened, recycled, window, pagesInMemory, index, page>>

\* The cached page, if the collector has not cleared it since.
Hit == \E i \in DOMAIN pages :
    /\ pages[i].key = index
    /\ Usable(pages[i].page)
    /\ page' = pages[i].page
    /\ pc' = "file"

Miss ==
    /\ \A i \in DOMAIN pages : pages[i].key = index => ~Usable(pages[i].page)
    /\ pc' = "reserve"
    /\ UNCHANGED page

Lookup ==
    /\ pc = "lookup"
    /\ Hit \/ Miss
    /\ UNCHANGED <<pages, opened, recycled, window, pagesInMemory, index>>

\* Mutant: the new page is opened before room is made for it.
ReserveNothing ==
    /\ pc = "reserve"
    /\ pc' = "open"
    /\ UNCHANGED <<pages, opened, recycled, window, pagesInMemory, index, page>>

\* An entry without a page is put, so that an old page makes room.
Reserve ==
    /\ pc = "reserve"
    /\ pc' = "open"
    /\ pages' = Put(pages, index, NoPage)
    /\ recycled' = Evict(pages, pages')
    /\ UNCHANGED <<opened, window, pagesInMemory, index, page>>

\* document.getPage opens the native page, or throws.
Open ==
    /\ pc = "open"
    /\ \/ /\ Len(opened) < MaxOpens
          /\ opened' = Append(opened, index)
          /\ page' = Len(opened) + 1
          /\ pc' = "file"
       \/ /\ pc' = "idle"
          /\ UNCHANGED <<opened, page>>
    /\ UNCHANGED <<pages, recycled, window, pagesInMemory, index>>

File ==
    /\ pc = "file"
    /\ pc' = "use"
    /\ pages' = Put(pages, index, page)
    /\ recycled' = Evict(Append(pages, [key |-> index, page |-> page]), pages')
    /\ UNCHANGED <<opened, window, pagesInMemory, index, page>>

\* The task has cropped, rendered or searched the page, is found dead or fails.
EndTask ==
    /\ pc = "use"
    /\ pc' = "idle"
    /\ page' = NoPage
    /\ UNCHANGED <<pages, opened, recycled, window, pagesInMemory, index>>

\* Keys that are in no document are put without a page: the map after n of them.
overflow[n \in Nat] == IF n = 0 THEN pages ELSE Put(overflow[n - 1], -n, NoPage)

\* Mutant: one placeholder too few.
OutOfMemoryOneLess ==
    /\ pc \in {"open", "use"}
    /\ recycled' = Evict(pages, overflow[pagesInMemory]) \cup ({page} \ {NoPage})
    /\ pages' = <<>>
    /\ page' = NoPage
    /\ pc' = "idle"
    /\ UNCHANGED <<opened, window, pagesInMemory, index>>

\* A decode task runs out of memory: pagesInMemory + 1 entries without a page
\* push out what is cached, the map is cleared, the page in hand recycled.
OutOfMemory ==
    /\ pc \in {"open", "use"}
    /\ recycled' = Evict(pages, overflow[pagesInMemory + 1]) \cup ({page} \ {NoPage})
    /\ pages' = <<>>
    /\ page' = NoPage
    /\ pc' = "idle"
    /\ UNCHANGED <<opened, window, pagesInMemory, index>>

\* Executor.shutdown, then the loop ends.
Shutdown ==
    /\ pc = "idle"
    /\ pc' = "done"
    /\ recycled' = recycled \cup PagesOf(pages)
    /\ pages' = <<>>
    /\ UNCHANGED <<opened, window, pagesInMemory, index, page>>

-----------------------------------------------------------------------------
(* The others.                                                              *)

\* The UI thread publishes a new view state with a decode request.
UpdateViewState ==
    /\ pc # "done"
    /\ window' \in Windows \ {window}
    /\ UNCHANGED <<pages, opened, recycled, pagesInMemory, pc, index, page>>

ChangeSettings ==
    /\ pc # "done"
    /\ pagesInMemory' \in Sizes \ {pagesInMemory}
    /\ UNCHANGED <<pages, opened, recycled, window, pc, index, page>>

\* A page nobody holds strongly may be collected: its soft references are
\* cleared and its finalizer recycles it.  (Between the two it is out of
\* everybody's reach.)
Collect(p) ==
    /\ p # page /\ p \notin recycled
    /\ recycled' = recycled \cup {p}
    /\ pages' = [i \in DOMAIN pages |-> IF pages[i].page = p
                                        THEN [pages[i] EXCEPT !.page = NoPage] ELSE pages[i]]
    /\ UNCHANGED <<opened, window, pagesInMemory, pc, index, page>>

-----------------------------------------------------------------------------
GetPage == PurgeEntry \/ EndPurge \/ Lookup \/ Reserve \/ Open \/ File

Next ==
    \/ \E i \in Indices : StartTask(i)
    \/ GetPage \/ EndTask \/ OutOfMemory \/ Shutdown
    \/ UpdateViewState \/ ChangeSettings
    \/ \E p \in Objects : Collect(p)

Spec == Init /\ [][Next]_vars
-----------------------------------------------------------------------------
(* Properties.                                                              *)

TypeOK ==
    /\ pages \in Seq([key : Indices, page : {NoPage} \cup Objects])
    /\ opened \in Seq(Indices)
    /\ recycled \subseteq Objects
    /\ window \in Windows
    /\ pagesInMemory \in Sizes
    /\ pc \in {"idle", "purge", "lookup", "reserve", "open", "file", "use", "done"}
    /\ index \in Indices
    /\ page \in {NoPage} \cup Objects
    /\ page # NoPage <=> pc \in {"file", "use"}

\* The page getPage returns can be used until the task is through with it:
\* neither making room for it nor filing it frees it.
UsedPageIsOpen == pc = "use" => Usable(page)

\* A page is at hand: the worker has it, or it is filed under its index.
Held(p) ==
    p = page \/ \E i \in DOMAIN pages : pages[i] = [key |-> opened[p], page |-> p]

\* The open pages nobody can recycle any more but the collector.
Mislaid == {p \in Objects \ recycled : ~Held(p)}

\* The most entries that insertions leave in the map.
Room == IF EvictAfterInsert THEN Capacity ELSE Capacity + 1

\* The map has, or takes, more entries than OutOfMemory puts.
Crowded == Len(pages) > pagesInMemory + 1 \/ Room > pagesInMemory + 1

\* No open page is dropped without being freed, but when the memory runs out
\* while the view is wider than the setting: then clear() may drop some.
NoPageMislaid == [][Mislaid' \subseteq Mislaid \/ (OutOfMemory /\ Crowded)]_vars

\* The most room the view and the settings allow.
MaxRoom ==
    (CHOOSE n \in Windows \cup Sizes : \A m \in Windows \cup Sizes : m <= n)
        + (IF EvictAfterInsert THEN 0 ELSE 1)

\* The cache makes room before it opens a page: never are more native pages
\* open than it has room for, the new one included and what clear() has
\* dropped left out.
OpenPagesBounded ==
    Cardinality(Objects \ (recycled \cup Mislaid)) <= MaxRoom
=============================================================================
