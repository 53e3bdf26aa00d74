------------------------- MODULE CodecPageCacheProofs -------------------------
(***************************************************************************)
(* Proofs about CodecPageCache, for every set of pages, of view sizes and  *)
(* of settings, and every number of openings.                              *)
(***************************************************************************)
EXTENDS CodecPageCache, FiniteSetTheorems, SequenceTheorems, WellFoundedInduction, TLAPS

Entry == [key : Indices, page : {NoPage} \cup Objects]

-----------------------------------------------------------------------------
(* The map.                                                                 *)

\* The capacity of the cache is a natural number, 0 only with the setting 0.
LEMMA CapacityFacts ==
  ASSUME TypeOK
  PROVE  Capacity \in Nat /\ (pagesInMemory # 0 => Capacity # 0)
BY WindowsAssumption, SizesAssumption DEF TypeOK, Capacity

\* Replacing an element of a list keeps its type and its length.
LEMMA MapFacts ==
  ASSUME NEW T, NEW c \in Seq(T), NEW d, DOMAIN d = DOMAIN c,
         d = [i \in DOMAIN c |-> d[i]], \A i \in DOMAIN c : d[i] \in T
  PROVE  d \in Seq(T)
<1>1. Len(c) \in Nat /\ DOMAIN c = 1 .. Len(c)
  BY LenProperties
<1>2. d \in [1 .. Len(c) -> T]
  BY <1>1
<1> QED BY <1>1, <1>2, SeqDef

\* The tail of a longer list is the list without its first element, then the
\* last one.
LEMMA TailOfAppend ==
  ASSUME NEW T, NEW c \in Seq(T), NEW e \in T
  PROVE  /\ Tail(Append(c, e)) \in Seq(T)
         /\ c # <<>> => \E i \in DOMAIN Tail(Append(c, e)) : Tail(Append(c, e))[i] = e
<1> DEFINE longer == Append(c, e)
<1>1. /\ longer \in Seq(T)
      /\ Len(longer) = Len(c) + 1
      /\ longer[Len(c) + 1] = e
      /\ Len(c) \in Nat
  BY AppendProperties, LenProperties
<1> HIDE DEF longer
<1>2. longer # <<>>
  BY <1>1, EmptySeq
<1>3. /\ Tail(longer) \in Seq(T)
      /\ Len(Tail(longer)) = Len(longer) - 1
      /\ \A i \in 1 .. Len(Tail(longer)) : Tail(longer)[i] = longer[i + 1]
  BY <1>1, <1>2, HeadTailProperties
<1>4. ASSUME c # <<>>
      PROVE  \E i \in DOMAIN Tail(longer) : Tail(longer)[i] = e
  <2>1. Len(c) # 0
    BY <1>4, EmptySeq
  <2>2. DOMAIN Tail(longer) = 1 .. Len(c)
    BY <1>1, <1>3, LenProperties
  <2>3. Len(c) \in DOMAIN Tail(longer) /\ Tail(longer)[Len(c)] = e
    BY <1>1, <1>3, <2>1, <2>2
  <2> QED BY <2>3
<1>5. /\ Tail(Append(c, e)) \in Seq(T)
      /\ c # <<>> => \E i \in DOMAIN Tail(Append(c, e)) : Tail(Append(c, e))[i] = e
  BY <1>3, <1>4 DEF longer
<1> QED BY <1>5

\* What is put into the map has the type of its entries.
LEMMA PutType ==
  ASSUME NEW T, NEW c \in Seq(T), NEW k, NEW p, [key |-> k, page |-> p] \in T
  PROVE  Put(c, k, p) \in Seq(T)
<1> DEFINE entry == [key |-> k, page |-> p]
<1>1. entry \in T /\ \A i \in DOMAIN c : c[i] \in T
  BY ElementOfSeq, LenProperties
<1> HIDE DEF entry
<1>2. [i \in DOMAIN c |-> IF c[i].key = k THEN entry ELSE c[i]] \in Seq(T)
  BY <1>1, MapFacts
<1>3. Append(c, entry) \in Seq(T) /\ Tail(Append(c, entry)) \in Seq(T)
  BY <1>1, AppendProperties, TailOfAppend
<1>4. c # <<>> => Append(Tail(c), entry) \in Seq(T)
  <2>1. c # <<>> => Tail(c) \in Seq(T)
    BY HeadTailProperties
  <2> QED BY <1>1, <2>1, AppendProperties
<1> QED BY <1>2, <1>3, <1>4 DEF Put, entry

\* What is put into the map is there afterwards, if its key was there before
\* or the library does not evict the only entry.
LEMMA PutIsThere ==
  ASSUME NEW T, NEW c \in Seq(T), NEW k, NEW p, [key |-> k, page |-> p] \in T,
         Capacity \in Nat, HasKey(c, k) \/ ~EvictAfterInsert \/ Capacity # 0
  PROVE  \E i \in DOMAIN Put(c, k, p) : Put(c, k, p)[i] = [key |-> k, page |-> p]
<1> DEFINE entry == [key |-> k, page |-> p]
<1>1. entry \in T
  OBVIOUS
<1> HIDE DEF entry
<1>2. CASE HasKey(c, k)
  <2>1. Put(c, k, p) = [i \in DOMAIN c |-> IF c[i].key = k THEN entry ELSE c[i]]
    BY <1>2 DEF Put, entry
  <2>2. \E i \in DOMAIN c : c[i].key = k
    BY <1>2 DEF HasKey
  <2> QED BY <2>1, <2>2 DEF entry
<1>3. /\ Len(c) \in Nat
      /\ Append(c, entry) \in Seq(T)
      /\ Len(Append(c, entry)) = Len(c) + 1
      /\ Append(c, entry)[Len(c) + 1] = entry
  BY <1>1, AppendProperties, LenProperties
<1>4. \E i \in DOMAIN Append(c, entry) : Append(c, entry)[i] = entry
  BY <1>3, LenProperties
<1>5. CASE ~HasKey(c, k) /\ EvictAfterInsert
  <2>1. Capacity # 0
    BY <1>5
  <2>2. CASE Full(Append(c, entry))
    <3>1. Len(c) + 1 > 1
      BY <1>3, <2>1, <2>2 DEF Full
    <3>2. c # <<>>
      BY <1>3, <3>1, EmptySeq
    <3>3. Put(c, k, p) = Tail(Append(c, entry))
      BY <1>5, <2>2 DEF Put, entry
    <3>4. \E i \in DOMAIN Tail(Append(c, entry)) : Tail(Append(c, entry))[i] = entry
      BY <1>1, <3>2, TailOfAppend
    <3>5. \E i \in DOMAIN Put(c, k, p) : Put(c, k, p)[i] = entry
      BY ONLY <3>3, <3>4
    <3> QED BY ONLY <3>5 DEF entry
  <2>3. CASE ~Full(Append(c, entry))
    <3>1. Put(c, k, p) = Append(c, entry)
      BY <1>5, <2>3 DEF Put, entry
    <3> QED BY <1>4, <3>1 DEF entry
  <2> QED BY <2>2, <2>3
<1>6. CASE ~HasKey(c, k) /\ ~EvictAfterInsert
  <2>1. CASE c # <<>> /\ Full(c)
    <3>1. Tail(c) \in Seq(T)
      BY <2>1, HeadTailProperties
    <3>2. /\ Len(Tail(c)) \in Nat
          /\ Append(Tail(c), entry) \in Seq(T)
          /\ Len(Append(Tail(c), entry)) = Len(Tail(c)) + 1
          /\ Append(Tail(c), entry)[Len(Tail(c)) + 1] = entry
      BY <1>1, <3>1, AppendProperties, LenProperties
    <3>3. \E i \in DOMAIN Append(Tail(c), entry) : Append(Tail(c), entry)[i] = entry
      BY <3>2, LenProperties
    <3>4. Put(c, k, p) = Append(Tail(c), entry)
      BY <1>6, <2>1 DEF Put, entry
    <3> QED BY <3>3, <3>4 DEF entry
  <2>2. CASE ~(c # <<>> /\ Full(c))
    <3>1. Put(c, k, p) = Append(c, entry)
      BY <1>6, <2>2 DEF Put, entry
    <3> QED BY <1>4, <3>1 DEF entry
  <2> QED BY <2>1, <2>2
<1> QED BY <1>2, <1>5, <1>6

-----------------------------------------------------------------------------
(* Type correctness.                                                        *)

\* The pages of the map are page objects.
LEMMA PagesOfType ==
  ASSUME NEW c \in Seq(Entry)
  PROVE  PagesOf(c) \subseteq Objects
<1>1. \A i \in DOMAIN c : c[i] \in Entry
  BY ElementOfSeq, LenProperties
<1> QED BY <1>1 DEF PagesOf, Entry

LEMMA TypeInit == Init => TypeOK
<1> SUFFICES ASSUME Init PROVE TypeOK
  OBVIOUS
<1>1. pages \in Seq([key : Indices, page : {NoPage} \cup Objects]) /\ opened \in Seq(Indices)
  BY EmptySeq DEF Init
<1> QED BY <1>1 DEF Init, TypeOK

\* Every variable keeps its type, and the worker has a page in hand exactly
\* while it files or uses it.
LEMMA TypeStep ==
  ASSUME TypeOK, [Next]_vars
  PROVE  TypeOK'
<1> USE DEF TypeOK, NoPage
<1>1. /\ pages \in Seq(Entry)
      /\ Len(opened) \in Nat
      /\ Objects = 1 .. Len(opened)
      /\ \A i \in DOMAIN pages : pages[i] \in Entry
      /\ DOMAIN pages = 1 .. Len(pages) /\ Len(pages) \in Nat
  <2>1. pages \in Seq(Entry)
    BY DEF Entry
  <2> QED BY <2>1, LenProperties, ElementOfSeq DEF Objects
<1>2. ASSUME opened' = opened
      PROVE  Objects' = Objects /\ Entry' = Entry
  BY <1>2 DEF Objects, Entry
<1>3. ASSUME NEW i \in Indices, StartTask(i) PROVE TypeOK'
  BY <1>2, <1>3 DEF StartTask
<1>4. CASE PurgeEntry
  <2>1. PICK i \in DOMAIN pages :
          pages' = SubSeq(pages, 1, i - 1) \o SubSeq(pages, i + 1, Len(pages))
    BY <1>4 DEF PurgeEntry
  <2>2. SubSeq(pages, 1, i - 1) \in Seq(Entry)
    BY <1>1, SubSeqProperties
  <2>3. SubSeq(pages, i + 1, Len(pages)) \in Seq(Entry)
    BY <1>1, SubSeqProperties
  <2>4. pages' \in Seq(Entry)
    BY <2>1, <2>2, <2>3, ConcatProperties
  <2> QED BY <1>2, <1>4, <2>4 DEF PurgeEntry, Entry
<1>5. CASE EndPurge
  BY <1>2, <1>5 DEF EndPurge
<1>6. CASE Lookup
  <2>1. CASE Hit
    BY <1>1, <1>2, <1>6, <2>1 DEF Lookup, Hit, Usable, Entry
  <2>2. CASE Miss
    BY <1>2, <1>6, <2>2 DEF Lookup, Miss
  <2> QED BY <1>6, <2>1, <2>2 DEF Lookup
<1>7. CASE Reserve
  <2>1. [key |-> index, page |-> NoPage] \in Entry
    BY DEF Entry
  <2>2. pages' \in Seq(Entry)
    BY <1>1, <1>7, <2>1, PutType DEF Reserve
  <2>3. recycled' \subseteq Objects
    BY <1>1, <1>7, PagesOfType DEF Reserve, Evict
  <2> QED BY <1>2, <1>7, <2>2, <2>3 DEF Reserve, Entry
<1>8. CASE Open
  <2>1. CASE opened' = Append(opened, index) /\ page' = Len(opened) + 1 /\ pc' = "file"
    <3>1. opened' \in Seq(Indices) /\ Len(opened') = Len(opened) + 1
      BY <2>1, AppendProperties
    <3>2. Objects \subseteq Objects' /\ page' \in Objects'
      BY <1>1, <2>1, <3>1 DEF Objects
    <3>3. Entry \subseteq Entry'
      BY <3>2 DEF Entry
    <3>4. pages \in Seq(Entry')
      BY <1>1, <3>3, SeqMonotonic
    <3>5. pages' \in Seq(Entry') /\ recycled' \subseteq Objects'
      BY <1>8, <3>2, <3>4 DEF Open
    <3> QED BY <1>1, <1>8, <2>1, <3>1, <3>2, <3>5 DEF Open, Entry
  <2>2. CASE pc' = "idle" /\ UNCHANGED <<opened, page>>
    BY <1>2, <1>8, <2>2 DEF Open
  <2> QED BY <1>8, <2>1, <2>2 DEF Open
<1>9. CASE File
  <2> DEFINE entry == [key |-> index, page |-> page]
  <2>1. entry \in Entry
    BY DEF Entry
  <2>2. pages' \in Seq(Entry)
    BY <1>1, <1>9, <2>1, PutType DEF File
  <2>3. Append(pages, entry) \in Seq(Entry)
    BY <1>1, <2>1, AppendProperties
  <2>4. recycled' \subseteq Objects
    BY <1>9, <2>3, PagesOfType DEF File, Evict
  <2> QED BY <1>2, <1>9, <2>2, <2>4 DEF File, Entry
<1>10. CASE EndTask
  BY <1>2, <1>10 DEF EndTask
<1>11. CASE OutOfMemory
  <2>1. recycled' \subseteq recycled \cup PagesOf(pages) \cup ({page} \ {NoPage})
    BY <1>11 DEF OutOfMemory, Evict
  <2>2. recycled' \subseteq Objects
    BY <1>1, <2>1, PagesOfType
  <2>3. pages' \in Seq(Entry)
    BY <1>11, EmptySeq DEF OutOfMemory
  <2> QED BY <1>2, <1>11, <2>2, <2>3 DEF OutOfMemory, Entry
<1>12. CASE Shutdown
  <2>1. recycled' \subseteq Objects
    BY <1>1, <1>12, PagesOfType DEF Shutdown
  <2>2. pages' \in Seq(Entry)
    BY <1>12, EmptySeq DEF Shutdown
  <2> QED BY <1>2, <1>12, <2>1, <2>2 DEF Shutdown, Entry
<1>13. CASE UpdateViewState
  BY <1>2, <1>13 DEF UpdateViewState
<1>14. CASE ChangeSettings
  BY <1>2, <1>14 DEF ChangeSettings
<1>15. ASSUME NEW p \in Objects, Collect(p) PROVE TypeOK'
  <2>1. pages' = [i \in DOMAIN pages |-> IF pages[i].page = p
                    THEN [pages[i] EXCEPT !.page = NoPage] ELSE pages[i]]
    BY <1>15 DEF Collect
  <2>2. \A i \in DOMAIN pages : pages'[i] \in Entry
    BY <1>1, <2>1 DEF Entry
  <2>3. pages' \in Seq(Entry)
    BY <1>1, <2>1, <2>2, MapFacts
  <2> QED BY <1>2, <1>15, <2>3 DEF Collect, Entry
<1>16. CASE UNCHANGED vars
  BY <1>2, <1>16 DEF vars
<1> QED
  BY <1>3, <1>4, <1>5, <1>6, <1>7, <1>8, <1>9, <1>10, <1>11, <1>12, <1>13, <1>14,
     <1>15, <1>16 DEF Next, GetPage

\* The map holds entries of the document's pages, the freed pages are page
\* objects, and the worker holds a page exactly while it files or uses it
\* (DecodeServiceBase.getPage).
THEOREM TypeCorrect == Spec => []TypeOK
<1>1. TypeOK /\ [Next]_vars => TypeOK'
  BY TypeStep
<1> QED BY <1>1, TypeInit, PTL DEF Spec

-----------------------------------------------------------------------------
(* The page in use is open.                                                 *)

\* The page in hand is not freed, at any step from its opening on.
HandIsOpen == page \notin recycled

\* The key of the page to come is in the map: filing the page replaces its
\* entry, so that no entry is evicted.
KeyIsThere == pc \in {"open", "file"} => HasKey(pages, index)

UsedPageInv == TypeOK /\ HandIsOpen /\ KeyIsThere

\* The steps of the worker and the others keep the page in hand open.
LEMMA UsedPageStep ==
  ASSUME EvictAfterInsert => 0 \notin Sizes, UsedPageInv, [Next]_vars
  PROVE  HandIsOpen' /\ KeyIsThere'
<1> USE DEF UsedPageInv, HandIsOpen, KeyIsThere, NoPage
<1>1. /\ TypeOK
      /\ pages \in Seq(Entry)
      /\ recycled \subseteq Objects
      /\ index \in Indices
      /\ page \in {NoPage} \cup Objects
      /\ NoPage \notin Objects
      /\ \A i \in DOMAIN pages : pages[i] \in Entry
  <2>1. pages \in Seq(Entry)
    BY DEF TypeOK, Entry
  <2>2. NoPage \notin Objects
    BY LenProperties DEF TypeOK, Objects
  <2> QED BY <2>1, <2>2, LenProperties, ElementOfSeq DEF TypeOK
<1>2. Capacity \in Nat /\ (EvictAfterInsert => Capacity # 0)
  BY CapacityFacts DEF TypeOK
<1>3. ASSUME NEW i \in Indices, StartTask(i) PROVE HandIsOpen' /\ KeyIsThere'
  BY <1>3 DEF StartTask
<1>4. CASE PurgeEntry
  BY <1>4 DEF PurgeEntry
<1>5. CASE EndPurge
  BY <1>5 DEF EndPurge
<1>6. CASE Lookup
  <2>1. CASE Hit
    BY <1>6, <2>1 DEF Lookup, Hit, Usable, HasKey
  <2>2. CASE Miss
    BY <1>6, <2>2 DEF Lookup, Miss
  <2> QED BY <1>6, <2>1, <2>2 DEF Lookup
<1>7. CASE Reserve
  <2>1. page = NoPage
    BY <1>7 DEF Reserve, TypeOK
  <2>2. page' \notin recycled'
    BY <1>1, <1>7, <2>1, PagesOfType DEF Reserve, Evict
  <2>3. [key |-> index, page |-> NoPage] \in Entry
    BY <1>1 DEF Entry
  <2>4. \E i \in DOMAIN pages' : pages'[i] = [key |-> index, page |-> NoPage]
    BY <1>1, <1>2, <1>7, <2>3, PutIsThere DEF Reserve
  <2>5. HasKey(pages', index)
    BY <2>4 DEF HasKey
  <2> QED BY <1>7, <2>2, <2>5 DEF Reserve, HasKey
<1>8. CASE Open
  <2>1. Len(opened) \in Nat
    BY LenProperties DEF TypeOK
  <2>2. page' \notin recycled
    BY <1>1, <1>8, <2>1 DEF Open, Objects
  <2> QED BY <1>8, <2>2 DEF Open, HasKey
<1>9. CASE File
  <2> DEFINE entry == [key |-> index, page |-> page]
  <2>1. entry \in Entry /\ HasKey(pages, index)
    BY <1>1, <1>9 DEF Entry, File
  <2>2. \E i \in DOMAIN pages' : pages'[i] = entry
    BY <1>1, <1>2, <1>9, <2>1, PutIsThere DEF File
  <2>3. page # NoPage
    BY <1>9 DEF File, TypeOK
  <2>4. page \in PagesOf(pages')
    BY <2>2, <2>3 DEF PagesOf
  <2> QED BY <1>9, <2>4 DEF File, Evict
<1>10. CASE EndTask
  BY <1>1, <1>10 DEF EndTask
<1>11. CASE OutOfMemory
  <2>1. recycled' \subseteq recycled \cup PagesOf(pages) \cup ({page} \ {NoPage})
    BY <1>11 DEF OutOfMemory, Evict
  <2>2. recycled' \subseteq Objects
    BY <1>1, <2>1, PagesOfType
  <2>3. page' = NoPage /\ pc' = "idle"
    BY <1>11 DEF OutOfMemory
  <2> QED BY <1>1, <2>2, <2>3
<1>12. CASE Shutdown
  <2>1. page = NoPage
    BY <1>12 DEF Shutdown, TypeOK
  <2> QED BY <1>1, <1>12, <2>1, PagesOfType DEF Shutdown
<1>13. CASE UpdateViewState
  BY <1>13 DEF UpdateViewState
<1>14. CASE ChangeSettings
  BY <1>14 DEF ChangeSettings
<1>15. ASSUME NEW p \in Objects, Collect(p) PROVE HandIsOpen' /\ KeyIsThere'
  <2>1. DOMAIN pages' = DOMAIN pages /\ \A i \in DOMAIN pages : pages'[i].key = pages[i].key
    BY <1>1, <1>15 DEF Collect, Entry
  <2>2. HasKey(pages, index) => HasKey(pages', index')
    BY <1>15, <2>1 DEF Collect, HasKey
  <2> QED BY <1>15, <2>2 DEF Collect, HasKey
<1>16. CASE UNCHANGED vars
  BY <1>16 DEF vars
<1> QED
  BY <1>3, <1>4, <1>5, <1>6, <1>7, <1>8, <1>9, <1>10, <1>11, <1>12, <1>13, <1>14,
     <1>15, <1>16 DEF Next, GetPage

\* A task never works with a freed native page, if the library evicts before
\* the insertion or the setting pagesInMemory is never 0: neither the pages
\* that make room, nor filing the page, nor running out of memory, nor the
\* collector frees it (DecodeServiceBase.getPage, MuPdfPage.finalize).
THEOREM UsedPageStaysOpen ==
  ASSUME EvictAfterInsert => 0 \notin Sizes
  PROVE  Spec => []UsedPageIsOpen
<1>1. Init => UsedPageInv
  BY TypeInit DEF Init, UsedPageInv, HandIsOpen, KeyIsThere
<1>2. UsedPageInv /\ [Next]_vars => UsedPageInv'
  BY TypeStep, UsedPageStep DEF UsedPageInv
<1>3. UsedPageInv => UsedPageIsOpen
  BY DEF UsedPageInv, TypeOK, HandIsOpen, UsedPageIsOpen, Usable
<1> QED BY <1>1, <1>2, <1>3, PTL DEF Spec

-----------------------------------------------------------------------------
(* What insertions and removals leave in the map.                           *)

\* A new key leaves the list with the new entry at its end: all of it, if
\* there is room, or all but its first element.
LEMMA PutNew ==
  ASSUME NEW T, NEW c \in Seq(T), NEW k, NEW p, [key |-> k, page |-> p] \in T,
         ~HasKey(c, k), Capacity \in Nat
  PROVE  \E shift \in {0, 1} :
            /\ Len(Put(c, k, p)) = Len(c) + 1 - shift
            /\ shift = 0 => Len(Put(c, k, p)) <= Room
            /\ \A i \in 1 .. Len(c) + 1 - shift :
                  Put(c, k, p)[i] = Append(c, [key |-> k, page |-> p])[i + shift]
<1> DEFINE entry == [key |-> k, page |-> p]
           longer == Append(c, entry)
           d == Put(c, k, p)
<1>1. /\ entry \in T /\ Len(c) \in Nat
      /\ longer \in Seq(T) /\ Len(longer) = Len(c) + 1
      /\ \A i \in 1 .. Len(c) : longer[i] = c[i]
      /\ longer[Len(c) + 1] = entry
  BY AppendProperties, LenProperties
<1>2. d = IF EvictAfterInsert
          THEN IF Full(longer) THEN Tail(longer) ELSE longer
          ELSE IF c # <<>> /\ Full(c) THEN Append(Tail(c), entry) ELSE longer
  BY DEF Put
<1>3. longer # <<>>
  BY <1>1, EmptySeq
<1> HIDE DEF d, longer, entry
<1> SUFFICES \E shift \in {0, 1} :
                /\ Len(d) = Len(c) + 1 - shift
                /\ shift = 0 => Len(d) <= Room
                /\ \A i \in 1 .. Len(c) + 1 - shift : d[i] = longer[i + shift]
  BY DEF d, longer, entry
<1>4. CASE d = longer /\ Len(c) + 1 <= Room
  <2>1. /\ Len(d) = Len(c) + 1 - 0
        /\ Len(d) <= Room
        /\ \A i \in 1 .. Len(c) + 1 - 0 : d[i] = longer[i + 0]
    BY <1>1, <1>4
  <2> QED BY <2>1
<1>5. CASE d = Tail(longer)
  <2>1. /\ Len(Tail(longer)) = Len(longer) - 1
        /\ \A i \in 1 .. Len(Tail(longer)) : Tail(longer)[i] = longer[i + 1]
    BY <1>1, <1>3, HeadTailProperties
  <2>2. /\ Len(d) = Len(c) + 1 - 1
        /\ \A i \in 1 .. Len(c) + 1 - 1 : d[i] = longer[i + 1]
    BY <1>1, <1>5, <2>1
  <2> QED BY <2>2
<1>6. CASE d = Append(Tail(c), entry) /\ c # <<>>
  <2>1. /\ Tail(c) \in Seq(T) /\ Len(Tail(c)) = Len(c) - 1
        /\ \A i \in 1 .. Len(Tail(c)) : Tail(c)[i] = c[i + 1]
    BY <1>6, HeadTailProperties
  <2>2. /\ Len(d) = Len(Tail(c)) + 1
        /\ \A i \in 1 .. Len(Tail(c)) : d[i] = Tail(c)[i]
        /\ d[Len(Tail(c)) + 1] = entry
    BY <1>1, <1>6, <2>1, AppendProperties
  <2>3. ASSUME NEW i \in 1 .. Len(c) + 1 - 1
        PROVE  d[i] = longer[i + 1]
    <3>1. CASE i = Len(c)
      BY <1>1, <2>1, <2>2, <3>1
    <3>2. CASE i # Len(c)
      <4>1. i \in 1 .. Len(c) - 1 /\ i + 1 \in 1 .. Len(c)
        BY <1>1, <3>2
      <4> QED BY <1>1, <2>1, <2>2, <4>1
    <3> QED BY <3>1, <3>2
  <2>4. Len(d) = Len(c) + 1 - 1
    BY <1>1, <2>1, <2>2
  <2> QED BY <2>3, <2>4
<1>7. EvictAfterInsert /\ ~Full(longer) => Len(c) + 1 <= Room
  BY <1>1 DEF Full, Room
<1>8. ~EvictAfterInsert /\ ~(c # <<>> /\ Full(c)) => Len(c) + 1 <= Room
  <2>1. c = <<>> => Len(c) = 0
    BY EmptySeq
  <2> QED BY <1>1, <2>1 DEF Full, Room
<1> QED BY <1>2, <1>4, <1>5, <1>6, <1>7, <1>8

\* The same for any key: what is in the map afterwards was there, or is the
\* new entry, which is there unless the map is empty; the map has grown only
\* within its room.
LEMMA PutEntries ==
  ASSUME NEW T, NEW c \in Seq(T), NEW k, NEW p, [key |-> k, page |-> p] \in T,
         Capacity \in Nat
  PROVE  LET d == Put(c, k, p) IN
         /\ Len(d) <= Len(c) \/ Len(d) <= Room
         /\ \A i \in DOMAIN d :
               d[i] = [key |-> k, page |-> p] \/ \E j \in DOMAIN c : d[i] = c[j]
         /\ DOMAIN d = {} \/ \E i \in DOMAIN d : d[i] = [key |-> k, page |-> p]
<1> DEFINE entry == [key |-> k, page |-> p]
           d == Put(c, k, p)
<1>1. Len(c) \in Nat /\ DOMAIN c = 1 .. Len(c)
  BY LenProperties
<1>2. d \in Seq(T)
  BY PutType
<1>3. Len(d) \in Nat /\ DOMAIN d = 1 .. Len(d)
  BY <1>2, LenProperties
<1>4. CASE HasKey(c, k)
  <2>1. d = [i \in DOMAIN c |-> IF c[i].key = k THEN entry ELSE c[i]]
    BY <1>4 DEF Put
  <2>2. DOMAIN d = DOMAIN c
    BY <2>1
  <2> HIDE DEF d, entry
  <2>3. 1 .. Len(d) = 1 .. Len(c)
    BY <1>1, <1>3, <2>2
  <2>4. Len(d) = Len(c)
    <3>1. Len(d) # 0 => Len(d) \in 1 .. Len(c)
      BY <1>3, <2>3
    <3>2. Len(c) # 0 => Len(c) \in 1 .. Len(d)
      BY <1>1, <2>3
    <3>3. \A x, y \in Nat : (x # 0 => x \in 1 .. y) /\ (y # 0 => y \in 1 .. x) => x = y
      OBVIOUS
    <3>4. Len(c) \in Nat /\ Len(d) \in Nat
      BY <1>1, <1>3
    <3> QED BY ONLY <3>1, <3>2, <3>3, <3>4
  <2>5. \E i \in DOMAIN d : d[i] = entry
    BY <1>4, <2>1 DEF HasKey
  <2>6. \A i \in DOMAIN d : d[i] = entry \/ \E j \in DOMAIN c : d[i] = c[j]
    BY <2>1
  <2> QED BY <1>1, <2>4, <2>5, <2>6 DEF d, entry
<1>5. CASE ~HasKey(c, k)
  <2> DEFINE longer == Append(c, entry)
  <2>1. PICK shift \in {0, 1} :
          /\ Len(d) = Len(c) + 1 - shift
          /\ shift = 0 => Len(d) <= Room
          /\ \A i \in 1 .. Len(c) + 1 - shift : d[i] = longer[i + shift]
    BY <1>5, PutNew
  <2>2. /\ \A i \in 1 .. Len(c) : longer[i] = c[i]
        /\ longer[Len(c) + 1] = entry
    BY AppendProperties
  <2> HIDE DEF d, entry, longer
  <2>3. ASSUME NEW i \in DOMAIN d
        PROVE  d[i] = entry \/ \E j \in DOMAIN c : d[i] = c[j]
    <3>1. i \in 1 .. Len(c) + 1 - shift /\ i + shift \in 1 .. Len(c) + 1
      BY <1>1, <1>3, <2>1
    <3>2. d[i] = longer[i + shift]
      BY <2>1, <3>1
    <3>3. CASE i + shift = Len(c) + 1
      BY <2>2, <3>2, <3>3
    <3>4. CASE i + shift # Len(c) + 1
      <4>1. i + shift \in 1 .. Len(c)
        BY <1>1, <3>1, <3>4
      <4> QED BY <1>1, <2>2, <3>2, <4>1
    <3> QED BY <3>3, <3>4
  <2>4. ASSUME DOMAIN d # {} PROVE \E i \in DOMAIN d : d[i] = entry
    <3>1. Len(d) \in DOMAIN d /\ Len(d) \in 1 .. Len(c) + 1 - shift /\ Len(d) + shift = Len(c) + 1
      BY <1>1, <1>3, <2>1, <2>4
    <3> QED BY <2>1, <2>2, <3>1
  <2>5. Len(d) <= Len(c) \/ Len(d) <= Room
    BY <1>1, <2>1
  <2> QED BY <2>3, <2>4, <2>5 DEF d, entry
<1> QED BY <1>4, <1>5

\* Taking an entry out leaves the others.
Without(c, i) == SubSeq(c, 1, i - 1) \o SubSeq(c, i + 1, Len(c))

LEMMA RemoveEntry ==
  ASSUME NEW c \in Seq(Entry), NEW i \in DOMAIN c
  PROVE  /\ Len(Without(c, i)) = Len(c) - 1
         /\ \A j \in DOMAIN c : j # i => \E l \in DOMAIN Without(c, i) : Without(c, i)[l] = c[j]
         /\ \A l \in DOMAIN Without(c, i) : \E j \in DOMAIN c : Without(c, i)[l] = c[j]
<1> DEFINE s == SubSeq(c, 1, i - 1)
           t == SubSeq(c, i + 1, Len(c))
           d == s \o t
<1>1. /\ Len(c) \in Nat /\ DOMAIN c = 1 .. Len(c) /\ i \in 1 .. Len(c)
      /\ \A j \in 1 .. Len(c) : c[j] \in Entry
  BY LenProperties, ElementOfSeq
<1>2. s \in Seq(Entry) /\ Len(s) = i - 1 /\ \A j \in 1 .. i - 1 : s[j] = c[j]
  <2>1. 1 \in Int /\ i - 1 \in Int /\ \A j \in 1 .. i - 1 : c[j] \in Entry
    BY <1>1
  <2>2. /\ s \in Seq(Entry) /\ Len(s) = (IF 1 <= i - 1 THEN i - 1 - 1 + 1 ELSE 0)
        /\ \A j \in 1 .. i - 1 - 1 + 1 : s[j] = c[1 + j - 1]
    BY <2>1, SubSeqProperties
  <2> HIDE DEF s
  <2> QED BY <1>1, <2>2
<1>3. t \in Seq(Entry) /\ Len(t) = Len(c) - i /\ \A j \in 1 .. Len(c) - i : t[j] = c[i + j]
  <2>1. i + 1 \in Int /\ Len(c) \in Int /\ \A j \in i + 1 .. Len(c) : c[j] \in Entry
    BY <1>1
  <2>2. /\ t \in Seq(Entry) /\ Len(t) = (IF i + 1 <= Len(c) THEN Len(c) - (i + 1) + 1 ELSE 0)
        /\ \A j \in 1 .. Len(c) - (i + 1) + 1 : t[j] = c[i + 1 + j - 1]
    BY <2>1, SubSeqProperties
  <2> HIDE DEF t
  <2>3. Len(c) - (i + 1) + 1 = Len(c) - i /\ \A j \in 1 .. Len(c) - i : i + 1 + j - 1 = i + j
    BY <1>1
  <2>4. \A j \in 1 .. Len(c) - i : t[j] = c[i + j]
    BY <2>2, <2>3
  <2>5. Len(t) = Len(c) - i
    BY <1>1, <2>2
  <2> QED BY <2>2, <2>4, <2>5
<1> HIDE DEF s, t
<1>4. /\ d \in Seq(Entry) /\ Len(d) = Len(s) + Len(t)
      /\ \A l \in 1 .. Len(s) + Len(t) : d[l] = IF l <= Len(s) THEN s[l] ELSE t[l - Len(s)]
  BY <1>2, <1>3, ConcatProperties
<1>5. Len(d) = Len(c) - 1 /\ DOMAIN d = 1 .. Len(c) - 1
  <2>1. DOMAIN d = 1 .. Len(d)
    BY <1>4, LenProperties
  <2> HIDE DEF d
  <2>2. Len(d) = (i - 1) + (Len(c) - i)
    BY <1>2, <1>3, <1>4
  <2>3. Len(d) = Len(c) - 1
    BY <1>1, <2>2
  <2> QED BY <2>1, <2>3
<1> HIDE DEF d
<1>6. ASSUME NEW l \in 1 .. Len(c) - 1
      PROVE  d[l] = IF l <= i - 1 THEN c[l] ELSE c[l + 1]
  <2>1. CASE l <= i - 1
    BY <1>1, <1>2, <1>3, <1>4, <2>1
  <2>2. CASE ~(l <= i - 1)
    <3>1. l - (i - 1) \in 1 .. Len(c) - i /\ i + (l - (i - 1)) = l + 1
      BY <1>1, <2>2
    <3>2. l \in 1 .. Len(s) + Len(t) /\ ~(l <= Len(s))
      BY <1>1, <1>2, <1>3, <2>2
    <3>3. d[l] = t[l - (i - 1)]
      BY <1>2, <1>4, <3>2
    <3>4. t[l - (i - 1)] = c[i + (l - (i - 1))]
      BY <1>3, <3>1
    <3> QED BY <2>2, <3>1, <3>3, <3>4
  <2> QED BY <2>1, <2>2
<1>7. ASSUME NEW j \in DOMAIN c, j # i
      PROVE  \E l \in DOMAIN d : d[l] = c[j]
  <2>1. CASE j < i
    <3>1. j \in 1 .. Len(c) - 1 /\ j <= i - 1
      BY <1>1, <2>1
    <3> QED BY <1>5, <1>6, <3>1
  <2>2. CASE j > i
    <3>1. j - 1 \in 1 .. Len(c) - 1 /\ ~(j - 1 <= i - 1) /\ (j - 1) + 1 = j
      BY <1>1, <2>2
    <3> QED BY <1>5, <1>6, <3>1
  <2> QED BY <1>1, <1>7, <2>1, <2>2
<1>8. ASSUME NEW l \in DOMAIN d
      PROVE  \E j \in DOMAIN c : d[l] = c[j]
  <2>1. l \in 1 .. Len(c) - 1
    BY <1>5
  <2>2. l \in DOMAIN c /\ l + 1 \in DOMAIN c
    BY <1>1, <2>1
  <2> QED BY <1>6, <2>1, <2>2
<1>9. d = Without(c, i)
  BY DEF d, s, t, Without
<1> QED BY <1>5, <1>7, <1>8, <1>9

-----------------------------------------------------------------------------
(* Induction over the numbers, said of sets.                                *)

\* A set of natural numbers with 0 and the successors of its elements holds
\* all of them: induction, said of a set.
LEMMA SetInduction ==
  ASSUME NEW T \in SUBSET Nat, 0 \in T, \A n \in T : n + 1 \in T
  PROVE  T = Nat
<1> SUFFICES ASSUME Nat \ T # {} PROVE FALSE
  OBVIOUS
<1> DEFINE R == OpToRel(<, Nat)
<1>1. \A x, y \in Nat : x < y => <<x, y>> \in R
  BY DEF OpToRel
<1>2. IsWellFoundedOn(R, Nat)
  BY NatLessThanWellFounded
<1> HIDE DEF R
<1>3. PICK x \in Nat \ T : \A y \in Nat \ T : ~(<<y, x>> \in R)
  BY <1>2, WFMin
<1>4. x # 0 /\ x - 1 \in Nat
  OBVIOUS
<1>5. x - 1 \in T
  <2>1. <<x - 1, x>> \in R
    BY <1>1, <1>4
  <2> QED BY <1>3, <1>4, <2>1
<1>6. (x - 1) + 1 \in T
  BY <1>5
<1> QED BY <1>6

\* The functions on 0 .. n that start with s and make every step by step.
Approximations(S, s, step, n) ==
  {f \in [0 .. n -> S] : f[0] = s /\ \A m \in 0 .. n : m # 0 => f[m] = step[<<m, f[m - 1]>>]}

\* There is one for every n.
LEMMA ApproximationExists ==
  ASSUME NEW S, NEW s \in S, NEW step \in [(Nat \X S) -> S]
  PROVE  \A n \in Nat : Approximations(S, s, step, n) # {}
<1> DEFINE T == {n \in Nat : Approximations(S, s, step, n) # {}}
<1>1. 0 \in T
  <2>1. [m \in 0 .. 0 |-> s] \in Approximations(S, s, step, 0)
    BY DEF Approximations
  <2> QED BY <2>1
<1>2. ASSUME NEW n \in T PROVE n + 1 \in T
  <2>1. PICK f : f \in Approximations(S, s, step, n)
    BY <1>2
  <2>2. /\ f \in [0 .. n -> S] /\ f[0] = s
        /\ \A m \in 0 .. n : m # 0 => f[m] = step[<<m, f[m - 1]>>]
    BY <2>1 DEF Approximations
  <2> DEFINE g == [m \in 0 .. n + 1 |-> IF m = n + 1 THEN step[<<m, f[n]>>] ELSE f[m]]
  <2>3. n + 1 \in Nat /\ n \in 0 .. n /\ f[n] \in S
    BY <2>2
  <2>4. step[<<n + 1, f[n]>>] \in S
    BY <2>3
  <2>5. \A m \in 0 .. n + 1 : m # n + 1 => m \in 0 .. n
    OBVIOUS
  <2>6. g \in [0 .. n + 1 -> S]
    BY <2>2, <2>4, <2>5
  <2>7. g[0] = s
    BY <2>2
  <2>8. ASSUME NEW m \in 0 .. n + 1, m # 0
        PROVE  g[m] = step[<<m, g[m - 1]>>]
    <3>1. m - 1 \in 0 .. n + 1 /\ m - 1 # n + 1
      BY <2>8
    <3>2. g[m - 1] = f[m - 1]
      BY <3>1
    <3>3. CASE m = n + 1
      <4>1. m - 1 = n
        BY <3>3
      <4> QED BY <3>2, <3>3, <4>1
    <3>4. CASE m # n + 1
      <4>1. m \in 0 .. n
        BY <2>5, <3>4
      <4>2. g[m] = f[m] /\ f[m] = step[<<m, f[m - 1]>>]
        BY <2>2, <2>8, <3>4, <4>1
      <4> QED BY <3>2, <4>2
    <3> QED BY <3>3, <3>4
  <2> HIDE DEF g
  <2>9. g \in Approximations(S, s, step, n + 1)
    BY <2>6, <2>7, <2>8 DEF Approximations
  <2> QED BY <2>3, <2>9
<1>3. T = Nat
  <2>1. T \in SUBSET Nat
    OBVIOUS
  <2> HIDE DEF T
  <2> QED BY <1>1, <1>2, <2>1, SetInduction
<1> QED BY <1>3

\* Two of them agree where both are defined.
LEMMA ApproximationsAgree ==
  ASSUME NEW S, NEW s, NEW step, NEW k \in Nat, NEW n \in Nat,
         NEW f \in Approximations(S, s, step, k), NEW g \in Approximations(S, s, step, n)
  PROVE  \A m \in Nat : m <= k /\ m <= n => f[m] = g[m]
<1> DEFINE T == {m \in Nat : m <= k /\ m <= n => f[m] = g[m]}
<1>1. 0 \in T
  BY DEF Approximations
<1>2. ASSUME NEW m \in T PROVE m + 1 \in T
  <2>1. ASSUME m + 1 <= k, m + 1 <= n PROVE f[m + 1] = g[m + 1]
    <3>1. f[m] = g[m]
      BY <1>2, <2>1
    <3>2. m + 1 \in 0 .. k /\ m + 1 \in 0 .. n /\ m + 1 # 0 /\ (m + 1) - 1 = m
      BY <1>2, <2>1
    <3>3. f[m + 1] = step[<<m + 1, f[(m + 1) - 1]>>]
      BY <3>2 DEF Approximations
    <3>4. g[m + 1] = step[<<m + 1, g[(m + 1) - 1]>>]
      BY <3>2 DEF Approximations
    <3> QED BY <3>1, <3>2, <3>3, <3>4
  <2> QED BY <2>1
<1>3. T \in SUBSET Nat
  OBVIOUS
<1> HIDE DEF T
<1>4. T = Nat
  BY <1>1, <1>2, <1>3, SetInduction
<1> QED BY <1>4 DEF T

\* A sequence that is defined by its first element and its steps.
Steps(S) == [(Nat \X S) -> S]
IsDefinedBy(f, S, s, step) ==
  /\ f \in [Nat -> S]
  /\ f[0] = s
  /\ \A n \in Nat \ {0} : f[n] = step[<<n, f[n - 1]>>]

\* It exists.
LEMMA RecursionExists ==
  ASSUME NEW S, NEW s \in S, NEW step \in Steps(S)
  PROVE  \E f : IsDefinedBy(f, S, s, step)
<1> USE DEF Steps
<1> DEFINE app == [n \in Nat |-> CHOOSE g : g \in Approximations(S, s, step, n)]
           f == [n \in Nat |-> app[n][n]]
<1>1. ASSUME NEW n \in Nat
      PROVE  app[n] \in Approximations(S, s, step, n)
  BY ApproximationExists
<1> HIDE DEF app
<1>2. ASSUME NEW n \in Nat
      PROVE  /\ app[n] \in [0 .. n -> S] /\ app[n][0] = s
             /\ \A m \in 0 .. n : m # 0 => app[n][m] = step[<<m, app[n][m - 1]>>]
  BY <1>1 DEF Approximations
<1>3. f \in [Nat -> S]
  <2>1. ASSUME NEW n \in Nat PROVE app[n][n] \in S
    <3>1. n \in 0 .. n
      OBVIOUS
    <3> QED BY <1>2, <3>1
  <2> QED BY <2>1
<1>4. f[0] = s
  BY <1>2
<1>5. ASSUME NEW n \in Nat \ {0} PROVE f[n] = step[<<n, f[n - 1]>>]
  <2>1. n \in 0 .. n /\ n - 1 \in Nat /\ n - 1 <= n
    OBVIOUS
  <2>2. app[n][n] = step[<<n, app[n][n - 1]>>]
    BY <1>2, <2>1
  <2>3. app[n][n - 1] = app[n - 1][n - 1]
    BY <1>1, <2>1, ApproximationsAgree
  <2>4. f[n] = app[n][n] /\ f[n - 1] = app[n - 1][n - 1]
    BY <2>1
  <2> QED BY <2>2, <2>3, <2>4
<1> HIDE DEF f
<1>6. IsDefinedBy(f, S, s, step)
  BY <1>3, <1>4, <1>5 DEF IsDefinedBy
<1> QED BY <1>6

-----------------------------------------------------------------------------
(* Running out of memory.                                                   *)

\* The entries of the map and those that push them out.
Filler == [key : Indices \cup Int, page : {NoPage} \cup Objects]

\* The map after n insertions, step by step.
LEMMA OverflowSteps ==
  ASSUME TypeOK
  PROVE  /\ overflow \in [Nat -> Seq(Filler)]
         /\ overflow[0] = pages
         /\ \A n \in Nat \ {0} : overflow[n] = Put(overflow[n - 1], -n, NoPage)
<1> DEFINE S == Seq(Filler)
           step == [x \in Nat \X S |-> Put(x[2], -x[1], NoPage)]
<1>1. pages \in S
  <2>1. [key : Indices, page : {NoPage} \cup Objects] \subseteq Filler
    BY DEF Filler
  <2> QED BY <2>1, SeqMonotonic DEF TypeOK
<1>2. step \in Steps(S)
  <2>1. ASSUME NEW n \in Nat, NEW c \in S
        PROVE  Put(c, -n, NoPage) \in S
    <3>1. [key |-> -n, page |-> NoPage] \in Filler
      BY DEF Filler
    <3> QED BY <3>1, PutType
  <2> HIDE DEF S
  <2> QED BY <2>1 DEF Steps
<1>3. \A n \in Nat, c \in S : step[<<n, c>>] = Put(c, -n, NoPage)
  <2> HIDE DEF S
  <2> QED OBVIOUS
<1> HIDE DEF S, step
<1>4. PICK f \in [Nat -> S] :
        f[0] = pages /\ \A n \in Nat \ {0} : f[n] = step[<<n, f[n - 1]>>]
  <2>1. \E f : IsDefinedBy(f, S, pages, step)
    BY <1>1, <1>2, RecursionExists
  <2> QED BY <2>1 DEF IsDefinedBy
<1>5. \A n \in Nat \ {0} : f[n] = Put(f[n - 1], -n, NoPage)
  <2>1. \A n \in Nat \ {0} : n - 1 \in Nat /\ f[n - 1] \in S
    BY <1>4
  <2> QED BY <1>3, <1>4, <2>1
<1>6. f = [n \in Nat |-> IF n = 0 THEN pages ELSE Put(f[n - 1], -n, NoPage)]
  BY <1>4, <1>5
<1>7. overflow = [n \in Nat |-> IF n = 0 THEN pages ELSE Put(overflow[n - 1], -n, NoPage)]
  BY <1>6 DEF overflow
<1>8. /\ overflow[0] = pages
      /\ \A n \in Nat \ {0} : overflow[n] = Put(overflow[n - 1], -n, NoPage)
  BY <1>7
<1>9. DOMAIN overflow = Nat
  BY <1>7
<1>10. \A n \in Nat : overflow[n] \in S
  <2> DEFINE U == {n \in Nat : overflow[n] \in S}
  <2>1. 0 \in U
    BY <1>1, <1>8
  <2>2. ASSUME NEW n \in U PROVE n + 1 \in U
    <3>1. overflow[n + 1] = Put(overflow[(n + 1) - 1], -(n + 1), NoPage)
      BY <1>8
    <3>2. (n + 1) - 1 = n /\ n \in Nat /\ overflow[n] \in S
      OBVIOUS
    <3>3. step[<<n + 1, overflow[n]>>] \in S
      BY <1>2, <3>2 DEF Steps
    <3>4. step[<<n + 1, overflow[n]>>] = Put(overflow[n], -(n + 1), NoPage)
      BY <1>3, <3>2
    <3>5. overflow[n + 1] \in S
      BY <3>1, <3>2, <3>3, <3>4
    <3> QED BY <3>5
  <2>3. U \in SUBSET Nat
    OBVIOUS
  <2> HIDE DEF U
  <2>4. U = Nat
    BY <2>1, <2>2, <2>3, SetInduction
  <2> QED BY <2>4 DEF U
<1>11. overflow \in [Nat -> S]
  BY <1>7, <1>9, <1>10
<1> QED BY <1>8, <1>11 DEF S

\* After n insertions the map has grown only within its room, the new keys are
\* those from -1 down to -n, and the last n entries have no page.
Overflowing(n) ==
    /\ Len(overflow[n]) <= Len(pages) \/ Len(overflow[n]) <= Room
    /\ \A i \in DOMAIN overflow[n] :
          /\ overflow[n][i].key \in Int => overflow[n][i].key >= -n
          /\ i > Len(overflow[n]) - n => overflow[n][i].page = NoPage

LEMMA OverflowStep ==
  ASSUME TypeOK, NEW n \in Nat, Overflowing(n)
  PROVE  Overflowing(n + 1)
<1> DEFINE c == overflow[n]
           d == overflow[n + 1]
           entry == [key |-> -(n + 1), page |-> NoPage]
           longer == Append(c, entry)
<1>1. /\ c \in Seq(Filler) /\ d \in Seq(Filler) /\ entry \in Filler
      /\ d = Put(c, -(n + 1), NoPage)
  <2>1. n + 1 \in Nat \ {0} /\ (n + 1) - 1 = n
    OBVIOUS
  <2>2. entry \in Filler
    BY DEF Filler
  <2> QED BY <2>1, <2>2, OverflowSteps
<1>2. /\ Len(c) \in Nat /\ DOMAIN c = 1 .. Len(c)
      /\ Len(d) \in Nat /\ DOMAIN d = 1 .. Len(d)
      /\ Len(pages) \in Nat
  <2> HIDE DEF c, d
  <2> QED BY <1>1, LenProperties DEF TypeOK
<1>3. /\ Len(c) <= Len(pages) \/ Len(c) <= Room
      /\ \A i \in DOMAIN c : c[i].key \in Int => c[i].key >= -n
      /\ \A i \in DOMAIN c : i > Len(c) - n => c[i].page = NoPage
  BY DEF Overflowing
<1>4. Capacity \in Nat /\ Room \in Nat
  BY CapacityFacts DEF Room
<1> HIDE DEF c, d, longer
<1>5. ~HasKey(c, -(n + 1))
  <2>1. -(n + 1) \in Int /\ ~(-(n + 1) >= -n)
    OBVIOUS
  <2>2. \A i \in DOMAIN c : c[i].key # -(n + 1)
    BY <1>3, <2>1
  <2> QED BY <2>2 DEF HasKey
<1>6. PICK shift \in {0, 1} :
        /\ Len(d) = Len(c) + 1 - shift
        /\ shift = 0 => Len(d) <= Room
        /\ \A i \in 1 .. Len(c) + 1 - shift : d[i] = longer[i + shift]
  BY <1>1, <1>4, <1>5, PutNew DEF longer
<1>7. /\ \A i \in 1 .. Len(c) : longer[i] = c[i]
      /\ longer[Len(c) + 1] = entry
  BY <1>1, AppendProperties DEF longer
<1>8. Len(d) <= Len(pages) \/ Len(d) <= Room
  BY <1>2, <1>3, <1>4, <1>6
<1>9. ASSUME NEW i \in DOMAIN d
      PROVE  /\ d[i].key \in Int => d[i].key >= -(n + 1)
             /\ i > Len(d) - (n + 1) => d[i].page = NoPage
  <2>1. i \in 1 .. Len(c) + 1 - shift /\ i + shift \in 1 .. Len(c) + 1
    BY <1>2, <1>6
  <2>2. d[i] = longer[i + shift]
    BY <1>6, <2>1
  <2>3. CASE i + shift = Len(c) + 1
    <3>1. d[i] = entry
      BY <1>7, <2>2, <2>3
    <3> QED BY <3>1
  <2>4. CASE i + shift # Len(c) + 1
    <3> DEFINE j == i + shift
    <3>1. j \in DOMAIN c /\ d[i] = c[j]
      BY <1>2, <1>7, <2>1, <2>2, <2>4
    <3>2. i > Len(d) - (n + 1) => j > Len(c) - n
      BY <1>2, <1>6, <2>1
    <3> HIDE DEF j
    <3>3. /\ c[j].key \in Int => c[j].key >= -n
          /\ j > Len(c) - n => c[j].page = NoPage
      BY <1>3, <3>1
    <3>4. d[i].key \in Int => d[i].key >= -n
      BY <3>1, <3>3
    <3>5. d[i].key \in Int => d[i].key >= -(n + 1)
      BY <3>4
    <3>6. i > Len(d) - (n + 1) => d[i].page = NoPage
      BY <3>1, <3>2, <3>3
    <3> QED BY <3>5, <3>6
  <2> QED BY <2>3, <2>4
<1> QED BY <1>8, <1>9 DEF Overflowing, d

\* Enough insertions leave no page in the map.
LEMMA OverflowEmpties ==
  ASSUME TypeOK, NEW n \in Nat, Len(pages) <= n, Room <= n
  PROVE  PagesOf(overflow[n]) = {}
<1> DEFINE U == {m \in Nat : Overflowing(m)}
<1>1. /\ Len(pages) \in Nat /\ DOMAIN pages = 1 .. Len(pages)
      /\ \A i \in DOMAIN pages : pages[i].key \in Indices
  <2>1. pages \in Seq(Entry)
    BY DEF TypeOK, Entry
  <2>2. Len(pages) \in Nat /\ DOMAIN pages = 1 .. Len(pages)
    BY <2>1, LenProperties
  <2>3. \A i \in DOMAIN pages : pages[i] \in Entry
    BY <2>1, <2>2, ElementOfSeq
  <2> QED BY <2>2, <2>3 DEF Entry
<1>2. 0 \in U
  <2>1. overflow[0] = pages
    BY OverflowSteps
  <2>2. \A i \in DOMAIN pages : pages[i].key \notin Int /\ ~(i > Len(pages) - 0)
    BY <1>1, IndicesAssumption
  <2>3. Overflowing(0)
    BY <1>1, <2>1, <2>2 DEF Overflowing
  <2> QED BY <2>3
<1>3. ASSUME NEW m \in U PROVE m + 1 \in U
  BY OverflowStep
<1>4. U \in SUBSET Nat
  OBVIOUS
<1> HIDE DEF U
<1>5. U = Nat
  BY <1>2, <1>3, <1>4, SetInduction
<1>6. Overflowing(n)
  BY <1>5 DEF U
<1> DEFINE c == overflow[n]
<1>7. c \in Seq(Filler)
  BY OverflowSteps
<1>8. Room \in Nat
  BY CapacityFacts DEF Room
<1> HIDE DEF c
<1>9. Len(c) \in Nat /\ DOMAIN c = 1 .. Len(c)
  BY <1>7, LenProperties
<1>10. /\ Len(c) <= Len(pages) \/ Len(c) <= Room
       /\ \A i \in DOMAIN c : i > Len(c) - n => c[i].page = NoPage
  BY <1>6 DEF Overflowing, c
<1>11. Len(c) <= n
  BY <1>1, <1>8, <1>9, <1>10
<1>12. \A i \in DOMAIN c : c[i].page = NoPage
  BY <1>9, <1>10, <1>11
<1>13. PagesOf(c) = {}
  BY <1>12 DEF PagesOf
<1> QED BY <1>13 DEF c

-----------------------------------------------------------------------------
(* No page is mislaid.                                                      *)

\* A page is filed under its index, and the worker has in hand a page of the
\* index it wants, which is filed, or freed, while it is used.
EntriesAreRight ==
    \A i \in DOMAIN pages : pages[i].page # NoPage => pages[i].key = opened[pages[i].page]
HandIsRight == page # NoPage => opened[page] = index
HandIsFiled == pc = "use" => page \in recycled \cup PagesOf(pages)

FiledInv == TypeOK /\ EntriesAreRight /\ HandIsRight /\ HandIsFiled

\* The types the steps below use.
LEMMA EntriesAreTyped ==
  ASSUME TypeOK
  PROVE  /\ pages \in Seq(Entry)
         /\ Len(pages) \in Nat /\ DOMAIN pages = 1 .. Len(pages)
         /\ \A i \in DOMAIN pages :
               /\ pages[i] \in Entry
               /\ pages[i] = [key |-> pages[i].key, page |-> pages[i].page]
               /\ pages[i].page = NoPage \/ pages[i].page \in Objects
         /\ NoPage \notin Objects
<1>1. pages \in Seq(Entry)
  BY DEF TypeOK, Entry
<1>2. Len(pages) \in Nat /\ DOMAIN pages = 1 .. Len(pages)
  BY <1>1, LenProperties
<1>3. \A i \in DOMAIN pages : pages[i] \in Entry
  BY <1>1, <1>2, ElementOfSeq
<1>4. NoPage \notin Objects
  BY LenProperties DEF TypeOK, Objects, NoPage
<1> QED BY <1>1, <1>2, <1>3, <1>4 DEF Entry

\* With right entries, an open page is at hand if any entry leads to it.
LEMMA HeldIsFiled ==
  ASSUME TypeOK, EntriesAreRight, NEW p \in Objects
  PROVE  Held(p) <=> p = page \/ p \in PagesOf(pages)
<1>1. p # NoPage
  BY EntriesAreTyped
<1>2. ASSUME NEW i \in DOMAIN pages, pages[i].page = p
      PROVE  pages[i] = [key |-> opened[p], page |-> p]
  BY <1>1, <1>2, EntriesAreTyped DEF EntriesAreRight
<1>3. p \in PagesOf(pages) <=> \E i \in DOMAIN pages : pages[i].page = p
  BY <1>1 DEF PagesOf
<1>4. ASSUME NEW i \in DOMAIN pages, pages[i] = [key |-> opened[p], page |-> p]
      PROVE  pages[i].page = p
  BY <1>4
<1> QED BY <1>2, <1>3, <1>4 DEF Held

\* Entries stay right when some are taken from the map, when pages are opened,
\* and when a page is put under the index it was opened for.
LEMMA FewerEntries ==
  ASSUME EntriesAreRight, opened' = opened,
         \A l \in DOMAIN pages' : pages'[l].page = NoPage \/ \E j \in DOMAIN pages : pages'[l] = pages[j]
  PROVE  EntriesAreRight'
BY DEF EntriesAreRight, NoPage

LEMMA PutKeepsRight ==
  ASSUME TypeOK, EntriesAreRight, HandIsRight, opened' = opened,
         pages' = Put(pages, index, page)
  PROVE  EntriesAreRight'
<1> DEFINE entry == [key |-> index, page |-> page]
<1>1. entry \in Entry /\ pages \in Seq(Entry) /\ Capacity \in Nat
  BY EntriesAreTyped, CapacityFacts DEF Entry, TypeOK
<1>2. \A i \in DOMAIN pages' : pages'[i] = entry \/ \E j \in DOMAIN pages : pages'[i] = pages[j]
  BY <1>1, PutEntries
<1>3. ASSUME NEW i \in DOMAIN pages', pages'[i].page # NoPage
      PROVE  pages'[i].key = opened'[pages'[i].page]
  <2>1. CASE pages'[i] = entry
    BY <1>3, <2>1 DEF HandIsRight
  <2>2. CASE \E j \in DOMAIN pages : pages'[i] = pages[j]
    BY <1>3, <2>2 DEF EntriesAreRight
  <2> QED BY <1>2, <2>1, <2>2
<1> QED BY <1>3 DEF EntriesAreRight, NoPage

\* A page that is open, and was at hand, is at hand or falls out of the hand
\* in the map, unless the memory runs out while the map is crowded.
LEMMA FiledStep ==
  ASSUME FiledInv, [Next]_vars
  PROVE  /\ EntriesAreRight' /\ HandIsRight' /\ HandIsFiled'
         /\ \/ OutOfMemory /\ Crowded
            \/ \A p \in Objects' \ recycled' :
                  \/ p = page' \/ p \in PagesOf(pages')
                  \/ p \in Objects /\ p # page /\ p \notin PagesOf(pages)
<1> DEFINE Kept == \A p \in Objects' \ recycled' :
                      \/ p = page' \/ p \in PagesOf(pages')
                      \/ p \in Objects /\ p # page /\ p \notin PagesOf(pages)
           Good == EntriesAreRight' /\ HandIsRight' /\ HandIsFiled' /\ Kept
<1> USE DEF FiledInv
<1>1. /\ TypeOK /\ EntriesAreRight /\ HandIsRight /\ HandIsFiled
      /\ pages \in Seq(Entry)
      /\ Len(pages) \in Nat /\ DOMAIN pages = 1 .. Len(pages)
      /\ \A i \in DOMAIN pages :
            /\ pages[i] \in Entry
            /\ pages[i] = [key |-> pages[i].key, page |-> pages[i].page]
            /\ pages[i].page = NoPage \/ pages[i].page \in Objects
      /\ NoPage \notin Objects
  BY EntriesAreTyped
<1>2. Capacity \in Nat /\ Room \in Nat
  BY CapacityFacts DEF Room
<1>3. ASSUME opened' = opened
      PROVE  Objects' = Objects
  BY <1>3 DEF Objects
<1>4. ASSUME pages' = pages, opened' = opened
      PROVE  EntriesAreRight' /\ PagesOf(pages') = PagesOf(pages)
  BY <1>4 DEF EntriesAreRight
<1>5. ASSUME NEW i \in Indices, StartTask(i) PROVE Good
  <2>1. page = NoPage
    BY <1>5 DEF StartTask, TypeOK
  <2>2. UNCHANGED <<pages, opened, recycled, page>> /\ pc' = "purge"
    BY <1>5 DEF StartTask
  <2> QED BY <1>3, <1>4, <2>1, <2>2 DEF HandIsRight, HandIsFiled
<1>6. CASE PurgeEntry
  <2>1. PICK i \in DOMAIN pages : ~Usable(pages[i].page) /\ pages' = Without(pages, i)
    BY <1>6 DEF PurgeEntry, Without
  <2>2. UNCHANGED <<opened, recycled, pc, index, page>> /\ pc = "purge"
    BY <1>6 DEF PurgeEntry
  <2>3. /\ \A j \in DOMAIN pages : j # i => \E l \in DOMAIN pages' : pages'[l] = pages[j]
        /\ \A l \in DOMAIN pages' : \E j \in DOMAIN pages : pages'[l] = pages[j]
    <3> DEFINE d == Without(pages, i)
    <3>1. pages \in Seq(Entry)
      BY <1>1
    <3>2. /\ \A j \in DOMAIN pages : j # i => \E l \in DOMAIN d : d[l] = pages[j]
          /\ \A l \in DOMAIN d : \E j \in DOMAIN pages : d[l] = pages[j]
      BY <3>1, RemoveEntry
    <3>3. pages' = d
      BY <2>1
    <3> HIDE DEF d
    <3> QED BY <3>2, <3>3
  <2>4. EntriesAreRight'
    BY <1>1, <2>2, <2>3, FewerEntries
  <2>5. ASSUME NEW p \in PagesOf(pages), p \notin recycled
        PROVE  p \in PagesOf(pages')
    <3>1. PICK j \in DOMAIN pages : pages[j].page = p
      BY DEF PagesOf
    <3>2. p # NoPage /\ j # i
      BY <2>1, <2>5, <3>1 DEF PagesOf, Usable
    <3> QED BY <2>3, <3>1, <3>2 DEF PagesOf
  <2>6. Kept
    BY <1>3, <2>2, <2>5
  <2> QED BY <2>2, <2>4, <2>6 DEF HandIsRight, HandIsFiled
<1>7. CASE EndPurge
  <2>1. UNCHANGED <<pages, opened, recycled, index, page>> /\ pc' = "lookup"
    BY <1>7 DEF EndPurge
  <2> QED BY <1>3, <1>4, <2>1 DEF HandIsRight, HandIsFiled
<1>8. CASE Lookup
  <2>1. UNCHANGED <<pages, opened, recycled, index>> /\ pc' # "use" /\ page = NoPage
    BY <1>8 DEF Lookup, Hit, Miss, TypeOK
  <2>2. Kept
    BY <1>1, <1>3, <1>4, <2>1
  <2>3. HandIsRight'
    <3>1. CASE Hit
      <4>1. PICK i \in DOMAIN pages :
              pages[i].key = index /\ page' = pages[i].page /\ page' # NoPage
        BY <3>1 DEF Hit, Usable
      <4> QED BY <1>1, <2>1, <4>1 DEF HandIsRight, EntriesAreRight
    <3>2. CASE Miss
      BY <2>1, <3>2 DEF Miss, HandIsRight, NoPage
    <3> QED BY <1>8, <3>1, <3>2 DEF Lookup
  <2> QED BY <1>4, <2>1, <2>2, <2>3 DEF HandIsFiled
<1>9. CASE Reserve
  <2>1. page = NoPage
    BY <1>9 DEF Reserve, TypeOK
  <2>2. /\ pages' = Put(pages, index, page) /\ recycled' = Evict(pages, pages')
        /\ UNCHANGED <<opened, index, page>> /\ pc' = "open"
    BY <1>9, <2>1 DEF Reserve
  <2>3. EntriesAreRight'
    BY <1>1, <2>2, PutKeepsRight
  <2>4. Kept
    BY <1>1, <1>3, <2>1, <2>2 DEF Evict
  <2> QED BY <1>1, <2>2, <2>3, <2>4 DEF HandIsRight, HandIsFiled
<1>10. CASE Open
  <2>1. UNCHANGED <<pages, recycled, index>> /\ pc' # "use" /\ page = NoPage
    BY <1>10 DEF Open, TypeOK
  <2>2. CASE UNCHANGED <<opened, page>>
    BY <1>3, <1>4, <2>1, <2>2 DEF HandIsRight, HandIsFiled
  <2>3. CASE opened' = Append(opened, index) /\ page' = Len(opened) + 1
    <3>1. opened \in Seq(Indices) /\ index \in Indices
      BY DEF TypeOK
    <3>2. /\ Len(opened) \in Nat /\ Len(opened') = Len(opened) + 1
          /\ \A i \in 1 .. Len(opened) : opened'[i] = opened[i]
          /\ opened'[Len(opened) + 1] = index
      BY <2>3, <3>1, AppendProperties, LenProperties
    <3>3. Objects' = Objects \cup {page'} /\ \A p \in Objects : opened'[p] = opened[p]
      BY <2>3, <3>2 DEF Objects
    <3>4. EntriesAreRight'
      BY <1>1, <2>1, <3>3 DEF EntriesAreRight, NoPage
    <3>5. HandIsRight'
      BY <2>1, <2>3, <3>2 DEF HandIsRight
    <3>6. Kept
      BY <1>1, <2>1, <3>3
    <3> QED BY <2>1, <3>4, <3>5, <3>6 DEF HandIsFiled
  <2> QED BY <1>10, <2>2, <2>3 DEF Open
<1>11. CASE File
  <2> DEFINE entry == [key |-> index, page |-> page]
  <2>1. page # NoPage /\ page \in Objects /\ entry \in Entry
    BY <1>11 DEF File, TypeOK, Entry
  <2>2. /\ pages' = Put(pages, index, page)
        /\ recycled' = Evict(Append(pages, entry), pages')
        /\ UNCHANGED <<opened, index, page>> /\ pc' = "use"
    BY <1>11 DEF File
  <2>3. EntriesAreRight'
    BY <1>1, <2>2, PutKeepsRight
  <2>4. PagesOf(pages) \subseteq PagesOf(Append(pages, entry)) /\ page \in PagesOf(Append(pages, entry))
    <3>1. /\ Append(pages, entry) \in Seq(Entry)
          /\ Len(Append(pages, entry)) = Len(pages) + 1
          /\ \A i \in 1 .. Len(pages) : Append(pages, entry)[i] = pages[i]
          /\ Append(pages, entry)[Len(pages) + 1] = entry
      BY <1>1, <2>1, AppendProperties
    <3> DEFINE longer == Append(pages, entry)
    <3>2. DOMAIN longer = 1 .. Len(pages) + 1
      BY <3>1, LenProperties
    <3> HIDE DEF longer
    <3>3. \A i \in DOMAIN pages : i \in DOMAIN longer /\ longer[i] = pages[i]
      BY <1>1, <3>1, <3>2 DEF longer
    <3>4. Len(pages) + 1 \in DOMAIN longer /\ longer[Len(pages) + 1].page = page
      BY <1>1, <3>1, <3>2 DEF longer
    <3>5. PagesOf(pages) \subseteq PagesOf(longer) /\ page \in PagesOf(longer)
      BY <2>1, <3>3, <3>4 DEF PagesOf
    <3> QED BY <3>5 DEF longer
  <2> HIDE DEF entry
  <2>5. page \in recycled' \cup PagesOf(pages')
    BY <2>2, <2>4 DEF Evict
  <2>6. \A p \in PagesOf(pages) : p \in recycled' \cup PagesOf(pages')
    BY <2>2, <2>4 DEF Evict
  <2>7. HandIsFiled'
    BY <2>2, <2>5 DEF HandIsFiled
  <2>8. Kept
    BY <1>3, <2>2, <2>6
  <2> QED BY <1>1, <2>2, <2>3, <2>7, <2>8 DEF HandIsRight
<1>12. CASE EndTask
  <2>1. /\ UNCHANGED <<pages, opened, recycled, index>> /\ page' = NoPage /\ pc' = "idle"
        /\ page \in recycled \cup PagesOf(pages)
    BY <1>12 DEF EndTask, HandIsFiled
  <2>2. Kept
    BY <1>3, <1>4, <2>1
  <2> QED BY <1>4, <2>1, <2>2 DEF HandIsRight, HandIsFiled
<1>13. CASE OutOfMemory
  <2>1. /\ recycled' = Evict(pages, overflow[pagesInMemory + 1]) \cup ({page} \ {NoPage})
        /\ pages' = <<>> /\ page' = NoPage /\ pc' = "idle" /\ UNCHANGED <<opened, index>>
    BY <1>13 DEF OutOfMemory
  <2>2. EntriesAreRight' /\ HandIsRight' /\ HandIsFiled'
    BY <2>1 DEF EntriesAreRight, HandIsRight, HandIsFiled, NoPage
  <2>3. ASSUME ~Crowded PROVE Kept
    <3>1. pagesInMemory + 1 \in Nat
      BY SizesAssumption DEF TypeOK
    <3>2. Len(pages) <= pagesInMemory + 1 /\ Room <= pagesInMemory + 1
      <4>1. pagesInMemory \in Nat
        BY SizesAssumption DEF TypeOK
      <4> QED BY <1>1, <1>2, <2>3, <4>1 DEF Crowded
    <3>3. PagesOf(overflow[pagesInMemory + 1]) = {}
      BY <1>1, <3>1, <3>2, OverflowEmpties
    <3>4. PagesOf(pages) \subseteq recycled' /\ (page # NoPage => page \in recycled')
      BY <2>1, <3>3 DEF Evict
    <3> QED BY <1>1, <1>3, <2>1, <3>4
  <2> QED BY <1>13, <2>2, <2>3
<1>14. CASE Shutdown
  <2>1. /\ recycled' = recycled \cup PagesOf(pages) /\ pages' = <<>>
        /\ UNCHANGED <<opened, index, page>> /\ pc' = "done" /\ page = NoPage
    BY <1>14 DEF Shutdown, TypeOK
  <2>2. EntriesAreRight' /\ HandIsRight' /\ HandIsFiled'
    BY <2>1 DEF EntriesAreRight, HandIsRight, HandIsFiled, NoPage
  <2>3. Kept
    BY <1>3, <2>1
  <2> QED BY <2>2, <2>3
<1>15. CASE UpdateViewState
  <2>1. UNCHANGED <<pages, opened, recycled, pc, index, page>>
    BY <1>15 DEF UpdateViewState
  <2> QED BY <1>1, <1>3, <1>4, <2>1 DEF HandIsRight, HandIsFiled
<1>16. CASE ChangeSettings
  <2>1. UNCHANGED <<pages, opened, recycled, pc, index, page>>
    BY <1>16 DEF ChangeSettings
  <2> QED BY <1>1, <1>3, <1>4, <2>1 DEF HandIsRight, HandIsFiled
<1>17. ASSUME NEW p \in Objects, Collect(p) PROVE Good
  <2>1. /\ p # page /\ recycled' = recycled \cup {p}
        /\ pages' = [i \in DOMAIN pages |-> IF pages[i].page = p
                       THEN [pages[i] EXCEPT !.page = NoPage] ELSE pages[i]]
        /\ UNCHANGED <<opened, pc, index, page>>
    BY <1>17 DEF Collect
  <2>2. \A i \in DOMAIN pages : [pages[i] EXCEPT !.page = NoPage].page = NoPage
    BY <1>1 DEF Entry
  <2>3. \A i \in DOMAIN pages' : pages'[i].page = NoPage \/ \E j \in DOMAIN pages : pages'[i] = pages[j]
    BY <2>1, <2>2
  <2>4. EntriesAreRight'
    BY <1>1, <2>1, <2>3, FewerEntries
  <2>5. ASSUME NEW q \in PagesOf(pages), q # p
        PROVE  q \in PagesOf(pages')
    <3>1. PICK i \in DOMAIN pages : pages[i].page = q /\ q # NoPage
      BY DEF PagesOf
    <3>2. i \in DOMAIN pages' /\ pages'[i].page = q
      BY <2>1, <2>5, <3>1
    <3> QED BY <3>1, <3>2 DEF PagesOf
  <2>6. Kept
    BY <1>3, <2>1, <2>5
  <2>7. HandIsFiled'
    BY <1>1, <2>1, <2>5 DEF HandIsFiled
  <2> QED BY <1>1, <2>1, <2>4, <2>6, <2>7 DEF HandIsRight
<1>18. CASE UNCHANGED vars
  <2>1. UNCHANGED <<pages, opened, recycled, pc, index, page>>
    BY <1>18 DEF vars
  <2> QED BY <1>1, <1>3, <1>4, <2>1 DEF HandIsRight, HandIsFiled
<1> QED
  BY <1>5, <1>6, <1>7, <1>8, <1>9, <1>10, <1>11, <1>12, <1>13, <1>14,
     <1>15, <1>16, <1>17, <1>18 DEF Next, GetPage

\* A step mislays no page, unless the memory runs out while the map has more
\* entries, or more room, than the insertions that are to empty it.
LEMMA MislaidStep ==
  ASSUME FiledInv, TypeOK', [Next]_vars
  PROVE  Mislaid' \subseteq Mislaid \/ (OutOfMemory /\ Crowded)
<1> SUFFICES ASSUME ~(OutOfMemory /\ Crowded) PROVE Mislaid' \subseteq Mislaid
  OBVIOUS
<1>1. /\ EntriesAreRight'
      /\ \A p \in Objects' \ recycled' :
            \/ p = page' \/ p \in PagesOf(pages')
            \/ p \in Objects /\ p # page /\ p \notin PagesOf(pages)
  BY FiledStep
<1>2. \A p \in Objects' : (p = page' \/ p \in PagesOf(pages')) => Held(p)'
  <2>1. ASSUME NEW p \in PagesOf(pages')
        PROVE  Held(p)'
    <3>1. PICK i \in DOMAIN pages' : pages'[i].page = p /\ p # NoPage
      BY DEF PagesOf
    <3>2. pages'[i].key = opened'[p]
      BY <1>1, <3>1 DEF EntriesAreRight, NoPage
    <3>3. pages' \in Seq([key : Indices, page : {NoPage} \cup Objects'])
      BY DEF TypeOK, NoPage
    <3>4. DOMAIN pages' = 1 .. Len(pages')
      BY <3>3, LenProperties
    <3>5. pages'[i] \in [key : Indices, page : {NoPage} \cup Objects']
      BY <3>3, <3>4, ElementOfSeq
    <3>6. pages'[i] = [key |-> opened'[p], page |-> p]
      BY <3>1, <3>2, <3>5
    <3> QED BY <3>6 DEF Held
  <2>2. \A p : p = page' => Held(p)'
    BY DEF Held
  <2> QED BY <2>1, <2>2
<1>3. \A p \in Objects : p # page /\ p \notin PagesOf(pages) => ~Held(p)
  BY HeldIsFiled DEF FiledInv
<1>4. recycled \subseteq recycled'
  BY DEF Next, vars, GetPage, StartTask, PurgeEntry, EndPurge, Lookup, Reserve, Open, File,
     EndTask, OutOfMemory, Shutdown, UpdateViewState, ChangeSettings, Collect, Evict
<1> QED BY <1>1, <1>2, <1>3, <1>4 DEF Mislaid

\* An open page is filed under its index or in the hands of the worker until it
\* is freed, for every library, view and setting: neither eviction nor the
\* collector nor the end of a task drops one.  Only running out of memory may,
\* while the map has more entries or more room than pagesInMemory + 1
\* (DecodeServiceBase.getPage, performDecode).
THEOREM PagesAreNotMislaid == Spec => NoPageMislaid
<1>1. Init => FiledInv
  BY TypeInit DEF Init, FiledInv, EntriesAreRight, HandIsRight, HandIsFiled
<1>2. FiledInv /\ [Next]_vars => FiledInv'
  BY TypeStep, FiledStep DEF FiledInv
<1>3. FiledInv /\ FiledInv' /\ [Next]_vars
        => [Mislaid' \subseteq Mislaid \/ (OutOfMemory /\ Crowded)]_vars
  <2>1. FiledInv' => TypeOK'
    BY DEF FiledInv
  <2> QED BY <2>1, MislaidStep
<1> QED BY <1>1, <1>2, <1>3, PTL DEF Spec, NoPageMislaid

-----------------------------------------------------------------------------
(* The open pages have room.                                                *)

\* The map has grown only within the most room there is, and there is an entry
\* for the page to come or in hand, if there is any entry.
MapFits == Len(pages) <= MaxRoom
HandHasRoom ==
    pc \in {"open", "file", "use"} =>
        \/ DOMAIN pages = {}
        \/ \E i \in DOMAIN pages : pages[i].page \in {NoPage, page}

RoomInv == TypeOK /\ MapFits /\ HandHasRoom

\* There is room for a page, and never more than MaxRoom.
LEMMA RoomFacts ==
  ASSUME TypeOK
  PROVE  Room \in Nat /\ MaxRoom \in Nat /\ Room <= MaxRoom /\ 1 <= MaxRoom
<1> DEFINE largest == CHOOSE n \in Windows \cup Sizes : \A m \in Windows \cup Sizes : m <= n
<1>1. largest \in Windows \cup Sizes /\ \A m \in Windows \cup Sizes : m <= largest
  BY LargestAssumption
<1>2. MaxRoom = largest + (IF EvictAfterInsert THEN 0 ELSE 1)
  BY DEF MaxRoom
<1> HIDE DEF largest
<1>3. /\ window \in Nat \ {0} /\ pagesInMemory \in Nat /\ largest \in Nat
      /\ window <= largest /\ pagesInMemory <= largest
  BY <1>1, WindowsAssumption, SizesAssumption DEF TypeOK
<1>4. Capacity \in Nat /\ Capacity <= largest
  BY <1>3 DEF Capacity
<1> QED BY <1>2, <1>3, <1>4 DEF Room

\* Putting an entry for the page in hand keeps the map within its room, and
\* leaves the entry there unless the map is empty.
LEMMA PutHasRoom ==
  ASSUME TypeOK, MapFits, pages' = Put(pages, index, page), opened' = opened
  PROVE  /\ Len(pages') <= MaxRoom
         /\ DOMAIN pages' = {} \/ \E i \in DOMAIN pages' : pages'[i].page = page
<1> DEFINE entry == [key |-> index, page |-> page]
           d == Put(pages, index, page)
<1>1. entry \in Entry /\ pages \in Seq(Entry) /\ Capacity \in Nat /\ Len(pages) \in Nat
  BY EntriesAreTyped, CapacityFacts DEF Entry, TypeOK
<1>2. d \in Seq(Entry)
  BY <1>1, PutType
<1>3. /\ Len(d) <= Len(pages) \/ Len(d) <= Room
      /\ DOMAIN d = {} \/ \E i \in DOMAIN d : d[i] = entry
  BY <1>1, PutEntries
<1>4. Len(d) \in Nat /\ Room \in Nat /\ MaxRoom \in Nat /\ Room <= MaxRoom
  <2> HIDE DEF d
  <2> QED BY <1>2, LenProperties, RoomFacts
<1> HIDE DEF d
<1>5. Len(d) <= MaxRoom
  BY <1>1, <1>3, <1>4 DEF MapFits
<1> QED BY <1>3, <1>5 DEF d

LEMMA RoomStep ==
  ASSUME RoomInv, [Next]_vars
  PROVE  MapFits' /\ HandHasRoom'
<1> USE DEF RoomInv
<1>1. /\ TypeOK /\ MapFits /\ HandHasRoom
      /\ pages \in Seq(Entry)
      /\ Len(pages) \in Nat /\ DOMAIN pages = 1 .. Len(pages)
      /\ NoPage \notin Objects
      /\ MaxRoom \in Nat
  BY EntriesAreTyped, RoomFacts
<1>2. MaxRoom' = MaxRoom
  BY DEF MaxRoom
<1>3. Len(<<>>) = 0 /\ DOMAIN <<>> = {}
  BY EmptySeq
<1>4. ASSUME pages' = pages
      PROVE  MapFits'
  BY <1>1, <1>2, <1>4 DEF MapFits
<1>5. ASSUME NEW i \in Indices, StartTask(i) PROVE MapFits' /\ HandHasRoom'
  BY <1>4, <1>5 DEF StartTask, HandHasRoom
<1>6. CASE PurgeEntry
  <2>1. PICK i \in DOMAIN pages : pages' = Without(pages, i)
    BY <1>6 DEF PurgeEntry, Without
  <2>2. Len(pages') = Len(pages) - 1
    <3>1. Len(Without(pages, i)) = Len(pages) - 1
      BY <1>1, RemoveEntry
    <3> QED BY <2>1, <3>1
  <2>3. MapFits'
    BY <1>1, <1>2, <2>2 DEF MapFits
  <2> QED BY <1>6, <2>3 DEF PurgeEntry, HandHasRoom
<1>7. CASE EndPurge
  BY <1>4, <1>7 DEF EndPurge, HandHasRoom
<1>8. CASE Lookup
  BY <1>4, <1>8 DEF Lookup, Hit, Miss, HandHasRoom
<1>9. CASE Reserve
  <2>1. page = NoPage
    BY <1>9 DEF Reserve, TypeOK
  <2>2. pages' = Put(pages, index, page) /\ UNCHANGED <<opened, page>>
    BY <1>9, <2>1 DEF Reserve
  <2>3. /\ Len(pages') <= MaxRoom
        /\ DOMAIN pages' = {} \/ \E i \in DOMAIN pages' : pages'[i].page = page
    BY <1>1, <2>2, PutHasRoom
  <2> QED BY <1>2, <2>2, <2>3 DEF MapFits, HandHasRoom
<1>10. CASE Open
  <2>1. page = NoPage
    BY <1>10 DEF Open, TypeOK
  <2>2. pages' = pages /\ pc = "open"
    BY <1>10 DEF Open
  <2> QED BY <1>1, <1>4, <2>1, <2>2 DEF HandHasRoom, NoPage
<1>11. CASE File
  <2>1. pages' = Put(pages, index, page) /\ UNCHANGED <<opened, page>>
    BY <1>11 DEF File
  <2>2. /\ Len(pages') <= MaxRoom
        /\ DOMAIN pages' = {} \/ \E i \in DOMAIN pages' : pages'[i].page = page
    BY <1>1, <2>1, PutHasRoom
  <2> QED BY <1>2, <2>1, <2>2 DEF MapFits, HandHasRoom
<1>12. CASE EndTask
  BY <1>4, <1>12 DEF EndTask, HandHasRoom
<1>13. CASE OutOfMemory
  BY <1>1, <1>2, <1>3, <1>13 DEF OutOfMemory, MapFits, HandHasRoom
<1>14. CASE Shutdown
  BY <1>1, <1>2, <1>3, <1>14 DEF Shutdown, MapFits, HandHasRoom
<1>15. CASE UpdateViewState
  BY <1>1, <1>4, <1>15 DEF UpdateViewState, HandHasRoom, NoPage
<1>16. CASE ChangeSettings
  BY <1>1, <1>4, <1>16 DEF ChangeSettings, HandHasRoom, NoPage
<1>17. ASSUME NEW p \in Objects, Collect(p) PROVE MapFits' /\ HandHasRoom'
  <2>1. /\ p # page
        /\ pages' = [i \in DOMAIN pages |-> IF pages[i].page = p
                       THEN [pages[i] EXCEPT !.page = NoPage] ELSE pages[i]]
        /\ UNCHANGED <<opened, pc, index, page>>
    BY <1>17 DEF Collect
  <2>2. DOMAIN pages' = DOMAIN pages
    BY <2>1
  <2>3. ASSUME NEW i \in DOMAIN pages, pages[i].page \in {NoPage, page}
        PROVE  pages'[i].page \in {NoPage, page}
    BY <1>1, <2>1, <2>3
  <2>4. HandHasRoom'
    BY <1>1, <2>1, <2>2, <2>3 DEF HandHasRoom, NoPage
  <2>5. pages' \in Seq(Entry')
    <3>1. TypeOK'
      BY TypeStep
    <3> QED BY <3>1 DEF TypeOK, Entry
  <2>6. Len(pages') \in Nat /\ DOMAIN pages' = 1 .. Len(pages')
    BY <2>5, LenProperties
  <2>7. Len(pages') <= Len(pages)
    <3>1. \A x, y \in Nat : 1 .. x = 1 .. y => x <= y
      <4>1. ASSUME NEW x \in Nat, NEW y \in Nat, 1 .. x = 1 .. y PROVE x <= y
        <5>1. x # 0 => x \in 1 .. y
          BY <4>1
        <5> QED BY <5>1
      <4> QED BY <4>1
    <3> QED BY <1>1, <2>2, <2>6, <3>1
  <2>8. MapFits'
    BY <1>1, <1>2, <2>6, <2>7 DEF MapFits
  <2> QED BY <2>4, <2>8
<1>18. CASE UNCHANGED vars
  BY <1>1, <1>4, <1>18 DEF vars, HandHasRoom, NoPage
<1> QED
  BY <1>5, <1>6, <1>7, <1>8, <1>9, <1>10, <1>11, <1>12, <1>13, <1>14,
     <1>15, <1>16, <1>17, <1>18 DEF Next, GetPage

\* The open pages at hand take an entry each: those that are filed their own,
\* the one in hand the one that is kept for it.
LEMMA HeldPagesFit ==
  ASSUME RoomInv
  PROVE  OpenPagesBounded
<1> DEFINE H == Objects \ (recycled \cup Mislaid)
<1>1. /\ TypeOK
      /\ Len(pages) \in Nat /\ DOMAIN pages = 1 .. Len(pages)
      /\ NoPage \notin Objects
      /\ MaxRoom \in Nat /\ 1 <= MaxRoom
      /\ Len(pages) <= MaxRoom
  BY EntriesAreTyped, RoomFacts DEF RoomInv, MapFits
<1>2. ASSUME NEW p \in H
      PROVE  p # NoPage /\ (p = page \/ \E i \in DOMAIN pages : pages[i].page = p)
  BY <1>1 DEF Mislaid, Held
<1>3. page # NoPage => pc \in {"file", "use"}
  BY <1>1 DEF TypeOK
<1>4. CASE DOMAIN pages = {}
  <2>1. H \subseteq {page}
    BY <1>2, <1>4
  <2>2. IsFiniteSet({page}) /\ Cardinality({page}) = 1
    BY FS_Singleton
  <2> HIDE DEF H
  <2>3. IsFiniteSet(H) /\ Cardinality(H) <= 1
    BY <2>1, <2>2, FS_Subset
  <2>4. Cardinality(H) \in Nat
    BY <2>3, FS_CardinalityType
  <2> QED BY <1>1, <2>3, <2>4 DEF OpenPagesBounded, H
<1>5. CASE DOMAIN pages # {}
  <2> DEFINE Slot(p, i) == \/ pages[i].page = p
                           \/ p = page /\ pages[i].page = NoPage
             slot == [p \in H |-> CHOOSE i \in DOMAIN pages : Slot(p, i)]
  <2>1. ASSUME NEW p \in H
        PROVE  \E i \in DOMAIN pages : Slot(p, i)
    <3>1. CASE p = page
      <4>1. pc \in {"open", "file", "use"}
        BY <1>2, <1>3, <3>1
      <4>2. \E i \in DOMAIN pages : pages[i].page \in {NoPage, page}
        BY <1>5, <4>1 DEF RoomInv, HandHasRoom
      <4> QED BY <3>1, <4>2
    <3>2. CASE p # page
      BY <1>2, <3>2
    <3> QED BY <3>1, <3>2
  <2>2. ASSUME NEW p \in H
        PROVE  slot[p] \in DOMAIN pages /\ Slot(p, slot[p])
    BY <2>1
  <2> HIDE DEF slot
  <2>3. ASSUME NEW p \in H, NEW q \in H, slot[p] = slot[q]
        PROVE  p = q
    BY <1>2, <2>2, <2>3
  <2>4. slot \in [H -> DOMAIN pages]
    <3>1. slot = [p \in H |-> slot[p]]
      BY DEF slot
    <3> QED BY <2>2, <3>1
  <2> HIDE DEF H
  <2>5. slot \in Injection(H, DOMAIN pages)
    BY <2>3, <2>4 DEF Injection, IsInjective
  <2>6. IsFiniteSet(DOMAIN pages) /\ Cardinality(DOMAIN pages) = Len(pages)
    <3> DEFINE n == Len(pages)
    <3>1. n \in Nat /\ n \in Int /\ 1 \in Int
      BY <1>1
    <3> HIDE DEF n
    <3>2. IsFiniteSet(1 .. n) /\ Cardinality(1 .. n) = IF 1 > n THEN 0 ELSE n - 1 + 1
      BY <3>1, FS_Interval
    <3>3. Cardinality(1 .. n) = n
      BY <3>1, <3>2
    <3> QED BY <1>1, <3>2, <3>3 DEF n
  <2>7. IsFiniteSet(H) /\ Cardinality(H) <= Len(pages)
    BY <2>5, <2>6, FS_Injection
  <2>8. Cardinality(H) \in Nat
    BY <2>7, FS_CardinalityType
  <2> QED BY <1>1, <2>7, <2>8 DEF OpenPagesBounded, H
<1> QED BY <1>4, <1>5

\* There are never more native pages open than the view and the settings have
\* room for, the one being opened included, whatever the library, the view,
\* the settings and the collector do between the steps
\* (DecodeServiceBase.removeEldestEntry, getCacheSize, getPage).
THEOREM OpenPagesFit == Spec => []OpenPagesBounded
<1>1. Init => RoomInv
  <2> SUFFICES ASSUME Init PROVE RoomInv
    OBVIOUS
  <2>1. TypeOK
    BY TypeInit
  <2>2. pages = <<>> /\ pc = "idle"
    BY DEF Init
  <2>3. Len(pages) = 0
    BY <2>2, EmptySeq
  <2> QED BY <2>1, <2>2, <2>3, RoomFacts DEF RoomInv, MapFits, HandHasRoom
<1>2. RoomInv /\ [Next]_vars => RoomInv'
  BY TypeStep, RoomStep DEF RoomInv
<1>3. RoomInv => OpenPagesBounded
  BY HeldPagesFit
<1> QED BY <1>1, <1>2, <1>3, PTL DEF Spec
=============================================================================
