----------------------------- MODULE ResourceStore -----------------------------
(***************************************************************************)
(* The resource store of MuPDF: a cache of decoded objects with reference  *)
(* counts, bounded by the sum of their sizes.                              *)
(*                                                                         *)
(* Threads share the store under one lock.  An action is a critical        *)
(* section of that lock: the code gives the lock up to free an evicted     *)
(* object and to make the hash table larger, and other threads go on in    *)
(* between.  Where the code then runs into undefined behaviour the         *)
(* behaviour of the model ends (variable undefined).                       *)
(***************************************************************************)
EXTENDS Integers, Sequences, FiniteSets, SequencesExt


CONSTANTS
    Threads,
    Vals,           \* objects that can be loaded; each is stored once
    Keys, KeyOf,    \* what an object is filed under
    Hashed,         \* the keys make_hash_key accepts
    Size,           \* size of an object
    MaxSize,            \* store->max
    TableSize,      \* initial size of the hash table (4096 in the code)
    LoadTenths,     \* the table is resized above this many tenths of its size (8)
    MaxHeld,        \* bound on the references the clients have to one object
    None            \* no object

ASSUME ThreadsAssumption == IsFiniteSet(Threads)
ASSUME KeysAssumption == KeyOf \in [Vals -> Keys] /\ Hashed \subseteq Keys
ASSUME SizesAssumption == Size \in [Vals -> Nat \ {0}] /\ MaxSize \in Nat
ASSUME TableAssumption == TableSize \in Nat \ {0} /\ LoadTenths \in Nat
ASSUME NoneAssumption == None \notin Vals

VARIABLES
    refs,           \* s->refs
    status,         \* per object "none", "live" or "freed"
    held,           \* references the clients of the store have, all together
    list,           \* store->head to store->tail
    hash,           \* store->hash: per key the object of its item
    size,           \* store->size
    tableSize,      \* store->hash->size
    pc,             \* per thread, the operation it is in
    cur,            \* per thread, val of fz_store_item
    prev,           \* per thread, prev of ensure_space while it is pinned
    victim,         \* per thread, the object whose last reference it has dropped
    need, count,    \* per thread, tofree and count of ensure_space
    freed,          \* per thread, what fz_store_item has evicted all together
    newSize,        \* per thread, newsize of fz_resize_hash
    closed,         \* fz_empty_store has been called
    undefined

threadVars == <<pc, cur, prev, victim, need, count, freed, newSize>>
storeVars == <<refs, list, hash, size>>
clientVars == <<status, held>>
vars == <<storeVars, clientVars, threadVars, tableSize, closed, undefined>>

Operations == {"idle", "begin", "store", "resize", "link", "scavenge", "empty"}

TypeOK ==
    /\ refs \in [Vals -> Nat]
    /\ status \in [Vals -> {"none", "live", "freed"}]
    /\ held \in [Vals -> Nat]
    /\ list \in Seq(Vals)
    /\ hash \in [Hashed -> Vals \cup {None}]
    /\ size \in Int /\ tableSize \in Nat
    /\ pc \in [Threads -> Operations]
    /\ {cur, prev, victim} \subseteq [Threads -> Vals \cup {None}]
    /\ {need, count, freed, newSize} \subseteq [Threads -> Nat]
    /\ {closed, undefined} \subseteq BOOLEAN

Init ==
    /\ refs = [v \in Vals |-> 0]
    /\ status = [v \in Vals |-> "none"]
    /\ held = [v \in Vals |-> 0]
    /\ list = <<>> /\ size = 0
    /\ hash = [k \in Hashed |-> None] /\ tableSize = TableSize
    /\ pc = [t \in Threads |-> "idle"]
    /\ cur = [t \in Threads |-> None]
    /\ prev = [t \in Threads |-> None]
    /\ victim = [t \in Threads |-> None]
    /\ need = [t \in Threads |-> 0] /\ count = [t \in Threads |-> 0]
    /\ freed = [t \in Threads |-> 0] /\ newSize = [t \in Threads |-> 0]
    /\ closed = FALSE /\ undefined = FALSE

-----------------------------------------------------------------------------
(***************************************************************************)
(* The clients.                                                            *)
(***************************************************************************)
Stored == ToSet(list)
Ready(t) == pc[t] = "idle" /\ victim[t] = None
Storing(v) == \E t \in Threads : cur[t] = v

\* An object is decoded, with one reference (FZ_INIT_STORABLE), and is going to be stored.
Create(t, v) ==
    /\ Ready(t) /\ ~closed
    /\ status[v] = "none"
    /\ status' = [status EXCEPT ![v] = "live"]
    /\ refs' = [refs EXCEPT ![v] = 1]
    /\ held' = [held EXCEPT ![v] = 1]
    /\ pc' = [pc EXCEPT ![t] = "begin"]
    /\ cur' = [cur EXCEPT ![t] = v]
    /\ UNCHANGED <<list, hash, size, tableSize, prev, victim, need, count, freed, newSize,
                   closed, undefined>>

\* fz_keep_storable.
Keep(v) ==
    /\ held[v] \in 1 .. MaxHeld - 1
    /\ held' = [held EXCEPT ![v] = @ + 1]
    /\ refs' = [refs EXCEPT ![v] = @ + 1]
    /\ UNCHANGED <<status, list, hash, size, threadVars, tableSize, closed, undefined>>

\* fz_drop_storable: the object is freed after the lock is given up.
Drop(t, v) ==
    /\ Ready(t)
    /\ held[v] > (IF Storing(v) THEN 1 ELSE 0)
    /\ held' = [held EXCEPT ![v] = @ - 1]
    /\ refs' = [refs EXCEPT ![v] = @ - 1]
    /\ victim' = IF refs[v] = 1 THEN [victim EXCEPT ![t] = v] ELSE victim
    /\ UNCHANGED <<status, list, hash, size, pc, cur, prev, need, count, freed, newSize,
                   tableSize, closed, undefined>>

\* val->free(ctx, val), the lock not held.
FreeVictim(t) ==
    /\ victim[t] # None
    /\ status' = [status EXCEPT ![victim[t]] = "freed"]
    /\ victim' = [victim EXCEPT ![t] = None]
    /\ UNCHANGED <<storeVars, held, pc, cur, prev, need, count, freed, newSize,
                   tableSize, closed, undefined>>

-----------------------------------------------------------------------------
(***************************************************************************)
(* Eviction.  r stands for the reference counts at the moment.             *)
(***************************************************************************)
\* Mutant: the item stays in the hash table.
HashWithout_Not(v) == hash

HashWithout(v) == [k \in Hashed |-> IF k = KeyOf[v] THEN None ELSE hash[k]]

\* Mutant: items that are in use are evicted as well.
LastUnused_Any(r, n) == IF n = 0 THEN {} ELSE {n}

\* The last of the first n items that only the store refers to, if there is one.
LastUnused(r, n) ==
    {i \in 1 .. n : r[list[i]] = 1 /\ \A j \in i + 1 .. n : r[list[j]] # 1}

\* evict, up to the place where it gives up the lock.
Evict(t, r, i) ==
    LET v == list[i] IN
    /\ list' = RemoveAt(list, i)
    /\ size' = size - Size[v]
    /\ hash' = HashWithout(v)
    /\ refs' = [r EXCEPT ![v] = @ - 1]
    /\ victim' = IF r[v] = 1 THEN [victim EXCEPT ![t] = v] ELSE victim

\* ensure_space evicts item i and pins the one before it.
EvictPinned(t, r, i) ==
    LET p == IF i > 1 THEN list[i - 1] ELSE None IN
    /\ Evict(t, [v \in Vals |-> IF v = p THEN r[v] + 1 ELSE r[v]], i)
    /\ prev' = [prev EXCEPT ![t] = p]
    /\ freed' = [freed EXCEPT ![t] = @ + Size[list[i]]]

Total(objects) == MapThenSumSet(LAMBDA v : Size[v], objects)
CanFree(r, tofree) == Total({v \in Stored : r[v] = 1}) >= tofree

\* The walk of ensure_space goes on from item n.
WalkOn(t, r, n) ==
    /\ \E i \in LastUnused(r, n) :
         /\ EvictPinned(t, r, i)
         /\ count' = [count EXCEPT ![t] = @ + Size[list[i]]]
    /\ pc' = [pc EXCEPT ![t] = "store"]
    /\ UNCHANGED <<cur, need>>

\* A call of ensure_space: there is enough to evict, and the walk starts at the tail.
StartWalk(t, r, tofree) ==
    /\ CanFree(r, tofree)
    /\ \E i \in LastUnused(r, Len(list)) :
         /\ EvictPinned(t, r, i)
         /\ count' = [count EXCEPT ![t] = Size[list[i]]]
    /\ need' = [need EXCEPT ![t] = tofree]
    /\ pc' = [pc EXCEPT ![t] = "store"]
    /\ UNCHANGED cur

\* ensure_space returns 0 and fz_store_item gives up.
GiveUp(t, r, tofree) ==
    /\ ~CanFree(r, tofree)
    /\ refs' = r
    /\ prev' = [prev EXCEPT ![t] = None]
    /\ pc' = [pc EXCEPT ![t] = "idle"]
    /\ cur' = [cur EXCEPT ![t] = None]
    /\ need' = [need EXCEPT ![t] = 0]
    /\ count' = [count EXCEPT ![t] = 0]
    /\ freed' = [freed EXCEPT ![t] = 0]
    /\ UNCHANGED <<list, size, hash, victim>>

-----------------------------------------------------------------------------
(***************************************************************************)
(* fz_store_item.                                                          *)
(***************************************************************************)
Load == Cardinality({k \in Hashed : hash[k] # None})

MustGrow(v) == KeyOf[v] \in Hashed /\ Load > (tableSize * LoadTenths) \div 10

Existing(v) == IF KeyOf[v] \in Hashed THEN hash[KeyOf[v]] ELSE None

\* Mutant: no reference is taken to the item that is there already.
Link_NoReference(t, v) ==
    LET e == Existing(v) IN
    /\ IF e = None
       THEN /\ list' = <<v>> \o list
            /\ hash' = [k \in Hashed |-> IF k = KeyOf[v] THEN v ELSE hash[k]]
            /\ refs' = [refs EXCEPT ![v] = @ + 1]
            /\ UNCHANGED held
       ELSE /\ held' = [held EXCEPT ![e] = @ + 1]
            /\ UNCHANGED <<list, hash, refs>>
    /\ pc' = [pc EXCEPT ![t] = "idle"]
    /\ cur' = [cur EXCEPT ![t] = None]

\* do_hash_insert, and the item goes to the head of the list or the one that is there is returned.
Link(t, v) ==
    LET e == Existing(v) IN
    /\ IF e = None
       THEN /\ list' = <<v>> \o list
            /\ hash' = [k \in Hashed |-> IF k = KeyOf[v] THEN v ELSE hash[k]]
            /\ refs' = [refs EXCEPT ![v] = @ + 1]
            /\ UNCHANGED held
       ELSE /\ refs' = [refs EXCEPT ![e] = @ + 1]
            /\ held' = [held EXCEPT ![e] = @ + 1]
            /\ UNCHANGED <<list, hash>>
    /\ pc' = [pc EXCEPT ![t] = "idle"]
    /\ cur' = [cur EXCEPT ![t] = None]

\* Mutant: the size is not counted when the hash table has to grow first.
Insert_CountsLate(t, v) ==
    /\ size + Size[v] <= MaxSize
    /\ IF MustGrow(v)
       THEN /\ pc' = [pc EXCEPT ![t] = "resize"]
            /\ newSize' = [newSize EXCEPT ![t] = 2 * tableSize]
            /\ UNCHANGED <<refs, held, list, hash, size, cur>>
       ELSE /\ Link(t, v)
            /\ size' = size + Size[v]
            /\ UNCHANGED newSize
    /\ UNCHANGED <<prev, victim, need, count, freed>>

\* There is room: the size is counted, and the hash table grows first if it has to.
Insert(t, v) ==
    /\ size + Size[v] <= MaxSize
    /\ size' = size + Size[v]
    /\ IF MustGrow(v)
       THEN /\ pc' = [pc EXCEPT ![t] = "resize"]
            /\ newSize' = [newSize EXCEPT ![t] = 2 * tableSize]
            /\ UNCHANGED <<refs, held, list, hash, cur>>
       ELSE /\ Link(t, v)
            /\ UNCHANGED newSize
    /\ UNCHANGED <<prev, victim, need, count, freed>>

\* There is not: tofree is computed once.
InsertIntoFull(t, v) ==
    LET tofree == size + Size[v] - MaxSize IN
    /\ size + Size[v] > MaxSize
    /\ StartWalk(t, refs, tofree) \/ GiveUp(t, refs, tofree)
    /\ UNCHANGED <<held, newSize>>

Store(t) ==
    /\ pc[t] = "begin"
    /\ Insert(t, cur[t]) \/ InsertIntoFull(t, cur[t])
    /\ UNCHANGED <<status, tableSize, closed, undefined>>

Unpinned(t) == [v \in Vals |-> IF v = prev[t] THEN refs[v] - 1 ELSE refs[v]]

\* ensure_space has the lock again and goes on at the pinned item; when it returns,
\* fz_store_item calls it again, since its size is still above the maximum.
EnsureSpace(t) ==
    LET from == {i \in DOMAIN list : list[i] = prev[t] /\ count[t] < need[t]}
        n == IF from = {} THEN 0 ELSE CHOOSE i \in from : TRUE
        r == Unpinned(t)
    IN
    /\ pc[t] = "store" /\ victim[t] = None
    /\ \/ WalkOn(t, r, n)
       \/ LastUnused(r, n) = {} /\ (StartWalk(t, r, need[t]) \/ GiveUp(t, r, need[t]))
    /\ UNCHANGED <<clientVars, newSize, tableSize, closed, undefined>>

\* fz_resize_hash has its array: the entries are moved, and the lock given up once more.
Resize(t) ==
    /\ pc[t] = "resize" /\ tableSize < newSize[t]
    /\ tableSize' = newSize[t]
    /\ pc' = [pc EXCEPT ![t] = "link"]
    /\ UNCHANGED <<storeVars, clientVars, cur, prev, victim, need, count, freed, newSize,
                   closed, undefined>>

\* The array cannot be allocated, or another thread was faster: the thread goes on, and gives up
\* a lock it does not hold.
ResizeFails(t) ==
    /\ pc[t] = "resize"
    /\ undefined' = TRUE
    /\ UNCHANGED <<storeVars, clientVars, threadVars, tableSize, closed>>

LinkResized(t) ==
    /\ pc[t] = "link"
    /\ Link(t, cur[t])
    /\ UNCHANGED <<size, status, prev, victim, need, count, freed, newSize, tableSize,
                   closed, undefined>>

-----------------------------------------------------------------------------
(***************************************************************************)
(* fz_find_item, fz_remove_item, fz_store_scavenge and fz_empty_store.     *)
(***************************************************************************)
\* The first item with the key.
Matches(k) ==
    {i \in DOMAIN list : KeyOf[list[i]] = k /\ \A j \in 1 .. i - 1 : KeyOf[list[j]] # k}

Find(t, k) ==
    /\ Ready(t) /\ ~closed
    /\ \E i \in Matches(k) :
         /\ held[list[i]] < MaxHeld
         /\ list' = <<list[i]>> \o RemoveAt(list, i)
         /\ refs' = [refs EXCEPT ![list[i]] = @ + 1]
         /\ held' = [held EXCEPT ![list[i]] = @ + 1]
    /\ UNCHANGED <<hash, size, status, threadVars, tableSize, closed, undefined>>

\* Mutant: the object is freed whatever its reference count.
RemoveItem_Frees(t, k) ==
    /\ Ready(t) /\ ~closed
    /\ \E i \in Matches(k) :
         LET v == list[i] IN
         /\ list' = RemoveAt(list, i)
         /\ hash' = HashWithout(v)
         /\ refs' = [refs EXCEPT ![v] = @ - 1]
         /\ victim' = [victim EXCEPT ![t] = v]
         /\ undefined' = \E u \in Threads : prev[u] = v
    /\ UNCHANGED <<size, clientVars, pc, cur, prev, need, count, freed, newSize, tableSize,
                   closed>>

\* The size stays as it is.  A thread that has pinned the item goes on with it when it is freed.
RemoveItem(t, k) ==
    /\ Ready(t) /\ ~closed
    /\ \E i \in Matches(k) :
         LET v == list[i] IN
         /\ list' = RemoveAt(list, i)
         /\ hash' = HashWithout(v)
         /\ refs' = [refs EXCEPT ![v] = @ - 1]
         /\ victim' = IF refs[v] = 1 THEN [victim EXCEPT ![t] = v] ELSE victim
         /\ undefined' = \E u \in Threads : prev[u] = v
    /\ UNCHANGED <<size, clientVars, pc, cur, prev, need, count, freed, newSize, tableSize,
                   closed>>

\* An allocation fails, and the least recently used of the unused items is evicted; if that is
\* not enough for the allocation, another one.
Scavenge(t) ==
    /\ pc[t] \in {"idle", "scavenge"} /\ victim[t] = None
    /\ \E i \in LastUnused(refs, Len(list)) : Evict(t, refs, i)
    /\ pc' = [pc EXCEPT ![t] = "scavenge"]
    /\ UNCHANGED <<clientVars, cur, prev, need, count, freed, newSize, tableSize, closed,
                   undefined>>

EndScavenge(t) ==
    /\ pc[t] = "scavenge" /\ victim[t] = None
    /\ pc' = [pc EXCEPT ![t] = "idle"]
    /\ UNCHANGED <<storeVars, clientVars, cur, prev, victim, need, count, freed, newSize,
                   tableSize, closed, undefined>>

\* The document is closed when nobody is at work with it.
Close(t) ==
    /\ ~closed
    /\ \A u \in Threads : Ready(u)
    /\ closed' = TRUE
    /\ pc' = [pc EXCEPT ![t] = "empty"]
    /\ UNCHANGED <<storeVars, clientVars, cur, prev, victim, need, count, freed, newSize,
                   tableSize, undefined>>

Empty(t) ==
    /\ pc[t] = "empty" /\ victim[t] = None
    /\ IF list # <<>>
       THEN Evict(t, refs, 1) /\ UNCHANGED pc
       ELSE pc' = [pc EXCEPT ![t] = "idle"] /\ UNCHANGED <<storeVars, victim>>
    /\ UNCHANGED <<clientVars, cur, prev, need, count, freed, newSize, tableSize, closed,
                   undefined>>

-----------------------------------------------------------------------------
\* What a thread does by itself once it has begun an operation.
Step(t) ==
    \/ Store(t) \/ EnsureSpace(t)
    \/ Resize(t) \/ ResizeFails(t) \/ LinkResized(t)
    \/ EndScavenge(t)
    \/ Empty(t)
    \/ FreeVictim(t)

Call(t) ==
    \/ \E v \in Vals : Create(t, v) \/ Drop(t, v)
    \/ \E k \in Keys : Find(t, k) \/ RemoveItem(t, k)
    \/ Scavenge(t)
    \/ Close(t)

Next ==
    /\ ~undefined
    /\ (\E t \in Threads : Step(t) \/ Call(t)) \/ (\E v \in Vals : Keep(v))

Spec == Init /\ [][Next]_vars

-----------------------------------------------------------------------------
Pins(v) == {t \in Threads : prev[t] = v}

\* A reference count is what the clients hold, plus one while the object is in the store, plus one
\* for each thread that has pinned it: no operation takes or drops one too many, in any
\* interleaving of evictions with finding, storing, keeping and dropping.
RefsExact ==
    ~undefined =>
        \A v \in Vals : refs[v] = held[v] + (IF v \in Stored THEN 1 ELSE 0) + Cardinality(Pins(v))

\* What is in the store, held or pinned is alive, and what is alive is that or is being freed by
\* the one thread that dropped its last reference: nothing dangles, leaks or is freed twice.
LiveIsReferred ==
    ~undefined =>
        \A v \in Vals :
            status[v] = "live" <=> refs[v] > 0 \/ Cardinality({t \in Threads : victim[t] = v}) = 1

\* Reference counts are exact, and they keep alive what is referred to, and nothing else.
RefsKeepAlive == RefsExact /\ LiveIsReferred

\* The hash table finds an item exactly when it is in the list: evicting, removing and inserting
\* keep the two together although the lock is given up while an item is filed.
HashIsTheList ==
    ~undefined =>
        \A k \in Hashed : {v \in Stored : KeyOf[v] = k} = {hash[k]} \ {None}

\* What a thread has pinned stays in the store: it is found again when the lock is taken again.
PinnedIsStored ==
    ~undefined => \A t \in Threads : prev[t] # None => prev[t] \in Stored /\ pc[t] = "store"

\* Clients see plain reference counting.
StorableImpl == INSTANCE Storable
ImplementsStorable == StorableImpl!Spec

\* What a thread has counted and not filed yet, the lock being given up to make the hash table larger.
Filing == {cur[t] : t \in {u \in Threads : pc[u] \in {"resize", "link"}}}

\* The store stays within its maximum: what it holds, with what is on its way into it, takes no more
\* than the size it accounts for, and that is no more than the maximum.  Several threads may have
\* been let in before the first of them files its item, evictions give back what they take out,
\* and what fz_remove_item takes out is never given back, nor is what was counted for an object
\* that is there already: the account may be too high, and is never too low.
StoreFits == ~undefined => Total(Stored \cup Filing) <= size /\ size <= MaxSize

\* "First check that we *can* free tofree; if not, we'd rather not cache this": a store gives up
\* only if it has not evicted enough.
GivesUpWithoutSpace ==
    [][\A t \in Threads :
         pc[t] = "store" /\ pc'[t] = "idle" => freed[t] < need[t]]_vars
================================================================================
