-------------------------- MODULE ResourceStoreProofs --------------------------
(***************************************************************************)
(* Proofs about the resource store, for any number of threads, objects,    *)
(* keys and sizes: the reference counts are exact, nothing dangles or is   *)
(* freed twice, the hash table is the list, the store implements plain     *)
(* reference counting and stays within its maximum.  IInv is the inductive *)
(* invariant: besides the checked properties it says what each thread's    *)
(* position tells of the objects it stores, has pinned or is about to      *)
(* free.                                                                   *)
(*                                                                         *)
(* The second part, from the ring of slots on, is about the array of the   *)
(* table, for every hash function; the first cites nothing of StoreTable.  *)
(* The last is about the sum of the sizes.                                 *)
(***************************************************************************)
EXTENDS StoreTable, FiniteSetTheorems, SequenceTheorems, WellFoundedInduction, TLAPS

LEMMA Members ==
    ASSUME NEW s \in Seq(Vals), NEW x
    PROVE  x \in ToSet(s) <=> \E i \in 1 .. Len(s) : s[i] = x
<1>1. DOMAIN s = 1 .. Len(s)
  OBVIOUS
<1> QED
  BY <1>1 DEF ToSet

LEMMA Cut ==
    ASSUME NEW s \in Seq(Vals), NEW i \in 1 .. Len(s),
           \A a, b \in 1 .. Len(s) : s[a] = s[b] => a = b
    PROVE  LET c == RemoveAt(s, i) IN
           /\ c \in Seq(Vals)
           /\ Len(c) = Len(s) - 1
           /\ \A a, b \in 1 .. Len(c) : c[a] = c[b] => a = b
           /\ ToSet(c) = ToSet(s) \ {s[i]}
<1> DEFINE c == RemoveAt(s, i)
<1>1. /\ c \in Seq(Vals)
      /\ Len(c) = Len(s) - 1
      /\ \A j \in 1 .. Len(s) - 1 : c[j] = IF j < i THEN s[j] ELSE s[j + 1]
  <2> DEFINE a == SubSeq(s, 1, i - 1)
             b == SubSeq(s, i + 1, Len(s))
  <2>1. a \in Seq(Vals) /\ Len(a) = i - 1 /\ \A j \in 1 .. i - 1 : a[j] = s[j]
    BY SubSeqProperties
  <2>2. /\ b \in Seq(Vals) /\ Len(b) = Len(s) - i
        /\ \A j \in 1 .. Len(s) - i : b[j] = s[i + j]
    BY SubSeqProperties
  <2>3. c = a \o b
    BY DEF RemoveAt
  <2> HIDE DEF a, b, c
  <2>4. /\ a \o b \in Seq(Vals) /\ Len(a \o b) = Len(a) + Len(b)
        /\ \A j \in 1 .. Len(a) + Len(b) :
             (a \o b)[j] = IF j <= Len(a) THEN a[j] ELSE b[j - Len(a)]
    <3>1. a \in Seq(Vals) /\ b \in Seq(Vals)
      BY <2>1, <2>2
    <3> QED
      BY <3>1
  <2>5. ASSUME NEW j \in 1 .. Len(s) - 1
        PROVE  c[j] = IF j < i THEN s[j] ELSE s[j + 1]
    <3>1. CASE j < i
      BY <3>1, <2>1, <2>2, <2>3, <2>4
    <3>2. CASE j >= i
      <4>1. c[j] = b[j - (i - 1)] /\ j - (i - 1) \in 1 .. Len(s) - i
        BY <3>2, <2>1, <2>2, <2>3, <2>4
      <4>2. b[j - (i - 1)] = s[i + (j - (i - 1))]
        BY <4>1, <2>2
      <4> QED
        BY <4>1, <4>2, <3>2
    <3> QED
      BY <3>1, <3>2
  <2> QED
    BY <2>1, <2>2, <2>3, <2>4, <2>5
<1> HIDE DEF c
<1>2. \A a, b \in 1 .. Len(c) : c[a] = c[b] => a = b
  BY <1>1
<1>3. \A j \in 1 .. Len(c) : c[j] \in ToSet(s) \ {s[i]}
  BY <1>1, Members
<1>4. ASSUME NEW x \in ToSet(s) \ {s[i]}
      PROVE  \E j \in 1 .. Len(c) : c[j] = x
  <2>1. PICK k \in 1 .. Len(s) : s[k] = x
    BY Members
  <2>2. CASE k < i
    BY <2>1, <2>2, <1>1
  <2>3. CASE k > i
    <3>1. k - 1 \in 1 .. Len(c) /\ c[k - 1] = s[k]
      BY <2>3, <1>1
    <3> QED
      BY <3>1, <2>1
  <2> QED
    BY <2>1, <2>2, <2>3
<1>5. ToSet(c) = ToSet(s) \ {s[i]}
  BY <1>1, <1>3, <1>4, Members
<1> QED
  BY <1>1, <1>2, <1>5 DEF c

LEMMA Prepended ==
    ASSUME NEW s \in Seq(Vals), NEW v \in Vals, v \notin ToSet(s),
           \A a, b \in 1 .. Len(s) : s[a] = s[b] => a = b
    PROVE  LET c == <<v>> \o s IN
           /\ c \in Seq(Vals)
           /\ \A a, b \in 1 .. Len(c) : c[a] = c[b] => a = b
           /\ ToSet(c) = ToSet(s) \cup {v}
<1> DEFINE c == <<v>> \o s
<1>1. /\ c \in Seq(Vals)
      /\ Len(c) = Len(s) + 1
      /\ \A j \in 1 .. Len(s) + 1 : c[j] = IF j = 1 THEN v ELSE s[j - 1]
  OBVIOUS
<1> HIDE DEF c
<1>2. \A j \in 1 .. Len(s) : s[j] \in ToSet(s)
  BY Members
<1>3. ASSUME NEW a \in 1 .. Len(c), NEW b \in 1 .. Len(c), c[a] = c[b]
      PROVE  a = b
  <2>1. ASSUME NEW j \in 1 .. Len(c), j # 1
        PROVE  c[j] # v
    <3>1. c[j] = s[j - 1] /\ j - 1 \in 1 .. Len(s)
      BY <1>1, <2>1
    <3> QED
      BY <3>1, <1>2
  <2>2. CASE a # 1 /\ b # 1
    <3>1. s[a - 1] = s[b - 1] /\ a - 1 \in 1 .. Len(s) /\ b - 1 \in 1 .. Len(s)
      BY <1>1, <1>3, <2>2
    <3> QED
      BY <3>1
  <2> QED
    BY <1>1, <1>3, <2>1, <2>2
<1>4. \A j \in 1 .. Len(c) : c[j] \in ToSet(s) \cup {v}
  BY <1>1, <1>2
<1>5. ASSUME NEW x \in ToSet(s)
      PROVE  \E j \in 1 .. Len(c) : c[j] = x
  <2>1. PICK k \in 1 .. Len(s) : s[k] = x
    BY Members
  <2>2. k + 1 \in 1 .. Len(c) /\ c[k + 1] = x
    BY <2>1, <1>1
  <2> QED
    BY <2>2
<1>6. c[1] = v /\ 1 \in 1 .. Len(c)
  BY <1>1
<1>7. ToSet(c) = ToSet(s) \cup {v}
  BY <1>1, <1>4, <1>5, <1>6, Members
<1> QED
  BY <1>1, <1>3, <1>7 DEF c

LEMMA Counted ==
    ASSUME NEW A, NEW x, IsFiniteSet(A)
    PROVE  /\ Cardinality(A) \in Nat /\ Cardinality(A \ {x}) \in Nat
           /\ Cardinality(A) = Cardinality(A \ {x}) + (IF x \in A THEN 1 ELSE 0)
           /\ Cardinality(A \ {x}) = 0 => A \ {x} = {}
<1>1. IsFiniteSet(A \ {x})
  BY FS_Subset
<1>2. Cardinality(A) \in Nat /\ Cardinality(A \ {x}) \in Nat
  BY <1>1, FS_CardinalityType
<1>3. Cardinality(A \ {x}) = 0 => A \ {x} = {}
  BY <1>1, FS_EmptySet
<1>4. CASE x \in A
  <2>1. A = (A \ {x}) \cup {x} /\ x \notin A \ {x}
    BY <1>4
  <2>2. Cardinality((A \ {x}) \cup {x}) = Cardinality(A \ {x}) + 1
    BY <1>1, <2>1, FS_AddElement
  <2> QED
    BY <2>1, <2>2, <1>2, <1>3, <1>4
<1>5. CASE x \notin A
  <2>1. A = A \ {x}
    BY <1>5
  <2> QED
    BY <2>1, <1>2, <1>3, <1>5
<1> QED
  BY <1>4, <1>5

-----------------------------------------------------------------------------
(***************************************************************************)
(* The invariant.                                                          *)
(***************************************************************************)
InStore(v) == IF v \in Stored THEN 1 ELSE 0
OthersPin(t, v) == {u \in Threads \ {t} : prev[u] = v}

Distinct == \A i, j \in 1 .. Len(list) : list[i] = list[j] => i = j

RefCount == \A v \in Vals : refs[v] = held[v] + InStore(v) + Cardinality(Pins(v))

\* What a thread has pinned is in the store.
PrevTells ==
    \A t \in Threads : prev[t] # None => prev[t] \in Stored /\ pc[t] = "store"

\* What a thread is storing is not in the store yet, and the thread holds it.
CurTells ==
    \A t \in Threads :
        /\ cur[t] # None <=> pc[t] \in {"begin", "store", "resize", "link"}
        /\ cur[t] # None => cur[t] \notin Stored /\ held[cur[t]] > 0

CurDiffers == \A t, u \in Threads : cur[t] # None /\ cur[t] = cur[u] => t = u

\* What a thread is about to free is alive and nobody's.
VictimTells ==
    \A t \in Threads : victim[t] # None => status[victim[t]] = "live" /\ refs[victim[t]] = 0

VictimDiffers == \A t, u \in Threads : victim[t] # None /\ victim[t] = victim[u] => t = u

\* Who has nothing to free, and what is over when the document is closed.
QuietTells ==
    /\ \A t \in Threads : pc[t] \in {"begin", "resize", "link"} => victim[t] = None
    /\ \A t \in Threads : pc[t] = "empty" => closed
    /\ closed => \A t \in Threads : cur[t] = None

ReferredIsLive == \A v \in Vals : refs[v] > 0 => status[v] = "live"

LiveTells ==
    \A v \in Vals : status[v] = "live" => refs[v] > 0 \/ \E t \in Threads : victim[t] = v

HashTells ==
    \A k \in Hashed : \A v \in Vals : hash[k] = v <=> v \in Stored /\ KeyOf[v] = k

Good ==
    /\ Distinct /\ RefCount
    /\ PrevTells /\ CurTells /\ CurDiffers /\ VictimTells /\ VictimDiffers /\ QuietTells
    /\ ReferredIsLive /\ LiveTells /\ HashTells

IInv == TypeOK /\ (undefined \/ Good)

\* The pins on an object, with those of one thread counted apart.
LEMMA CountSplit ==
    ASSUME TypeOK, RefCount, NEW t \in Threads, NEW v \in Vals
    PROVE  /\ Cardinality(OthersPin(t, v)) \in Nat
           /\ refs[v] = held[v] + InStore(v) + Cardinality(OthersPin(t, v))
                        + (IF prev[t] = v THEN 1 ELSE 0)
           /\ Cardinality(OthersPin(t, v)) = 0 => OthersPin(t, v) = {}
<1>1. /\ Cardinality(Pins(v)) \in Nat /\ Cardinality(OthersPin(t, v)) \in Nat
      /\ Cardinality(Pins(v)) = Cardinality(OthersPin(t, v)) + (IF prev[t] = v THEN 1 ELSE 0)
      /\ Cardinality(OthersPin(t, v)) = 0 => OthersPin(t, v) = {}
  <2>1. IsFiniteSet(Pins(v))
    BY ThreadsAssumption, FS_Subset DEF Pins
  <2>2. Pins(v) \ {t} = OthersPin(t, v) /\ (t \in Pins(v) <=> prev[t] = v)
    BY DEF Pins, OthersPin
  <2> QED
    BY <2>1, <2>2, Counted
<1>2. refs[v] = held[v] + InStore(v) + Cardinality(Pins(v))
  BY DEF RefCount
<1>3. refs[v] \in Nat /\ held[v] \in Nat /\ InStore(v) \in Nat
  BY DEF TypeOK, InStore
<1> QED
  BY <1>1, <1>2, <1>3

LEMMA CountJoin ==
    ASSUME NEW t \in Threads, NEW q, prev \in [Threads -> Vals \cup {None}],
           prev' = [prev EXCEPT ![t] = q], NEW v \in Vals
    PROVE  Cardinality(Pins(v)') = Cardinality(OthersPin(t, v)) + (IF q = v THEN 1 ELSE 0)
<1>1. IsFiniteSet(Pins(v)')
  BY ThreadsAssumption, FS_Subset DEF Pins
<1>2. Pins(v)' \ {t} = OthersPin(t, v) /\ (t \in Pins(v)' <=> q = v)
  BY DEF Pins, OthersPin
<1> QED
  BY <1>1, <1>2, Counted

LEMMA ListMember ==
    ASSUME TypeOK, NEW i \in 1 .. Len(list)
    PROVE  list[i] \in Vals /\ list[i] \in Stored
BY Members DEF TypeOK, Stored

\* An item leaves the list: what evict and fz_remove_item have in common.
CutOut(t, r, i) ==
    LET v == list[i] IN
    /\ list' = RemoveAt(list, i)
    /\ hash' = HashWithout(v)
    /\ refs' = [r EXCEPT ![v] = @ - 1]
    /\ victim' = IF r[v] = 1 THEN [victim EXCEPT ![t] = v] ELSE victim

LEMMA EvictCuts ==
    ASSUME TypeOK, NEW t \in Threads, NEW r, NEW i \in 1 .. Len(list), Evict(t, r, i)
    PROVE  CutOut(t, r, i) /\ size' \in Int
<1>1. CutOut(t, r, i)
  BY DEF Evict, CutOut
<1>2. list[i] \in Vals
  BY ListMember
<1>3. Size[list[i]] \in Int /\ size \in Int
  BY <1>2, SizesAssumption DEF TypeOK
<1>4. size' = size - Size[list[i]]
  BY DEF Evict
<1> QED
  BY <1>1, <1>3, <1>4

LEMMA CutEffect ==
    ASSUME TypeOK, Distinct, NEW t \in Threads, NEW r \in [Vals -> Nat],
           NEW i \in 1 .. Len(list), r[list[i]] >= 1, CutOut(t, r, i)
    PROVE  LET v == list[i] IN
           /\ v \in Vals /\ v \in Stored
           /\ list' \in Seq(Vals) /\ Len(list') = Len(list) - 1
           /\ Distinct' /\ Stored' = Stored \ {v}
           /\ hash' \in [Hashed -> Vals \cup {None}]
           /\ \A k \in Hashed : hash'[k] = IF k = KeyOf[v] THEN None ELSE hash[k]
           /\ refs' \in [Vals -> Nat]
           /\ \A w \in Vals : refs'[w] = IF w = v THEN r[v] - 1 ELSE r[w]
           /\ victim' \in [Threads -> Vals \cup {None}]
           /\ \A u \in Threads :
                victim'[u] = IF u = t /\ r[v] = 1 THEN v ELSE victim[u]
<1> DEFINE v == list[i]
<1>1. v \in Vals /\ v \in Stored
  BY Members, SMTT(30) DEF TypeOK, Stored
<1>2. /\ list' \in Seq(Vals) /\ Len(list') = Len(list) - 1
      /\ Distinct' /\ Stored' = Stored \ {v}
  <2>1. list \in Seq(Vals) /\ \A a, b \in 1 .. Len(list) : list[a] = list[b] => a = b
    BY DEF TypeOK, Distinct
  <2>2. list' = RemoveAt(list, i)
    BY DEF CutOut
  <2> QED
    BY <2>1, <2>2, Cut DEF Distinct, Stored
<1>3. /\ hash' \in [Hashed -> Vals \cup {None}]
      /\ \A k \in Hashed : hash'[k] = IF k = KeyOf[v] THEN None ELSE hash[k]
  BY DEF CutOut, HashWithout, TypeOK
<1>4. /\ refs' \in [Vals -> Nat]
      /\ \A w \in Vals : refs'[w] = IF w = v THEN r[v] - 1 ELSE r[w]
  BY <1>1 DEF CutOut
<1>5. /\ victim' \in [Threads -> Vals \cup {None}]
      /\ \A u \in Threads : victim'[u] = IF u = t /\ r[v] = 1 THEN v ELSE victim[u]
  BY <1>1 DEF CutOut, TypeOK
<1> QED
  BY <1>1, <1>2, <1>3, <1>4, <1>5

LEMMA CutKeeps ==
    ASSUME TypeOK, Good, NEW t \in Threads, NEW r \in [Vals -> Nat], NEW i \in 1 .. Len(list),
           NEW q \in Vals \cup {None}, NEW x \in {"idle", "store", "scavenge", "empty"},
           \A w \in Vals : r[w] = held[w] + InStore(w) + Cardinality(OthersPin(t, w))
                                  + (IF q = w THEN 1 ELSE 0),
           CutOut(t, r, i),
           q # None => q \in Stored /\ q # list[i] /\ x = "store",
           OthersPin(t, list[i]) = {},
           victim[t] = None, cur[t] # None <=> x = "store", x = "empty" => closed,
           prev' = [prev EXCEPT ![t] = q], pc' = [pc EXCEPT ![t] = x],
           UNCHANGED <<held, status, cur, closed>>
    PROVE  /\ Good'
           /\ list' \in Seq(Vals) /\ Len(list') = Len(list) - 1
           /\ hash' \in [Hashed -> Vals \cup {None}]
           /\ refs' \in [Vals -> Nat]
           /\ victim' \in [Threads -> Vals \cup {None}]
<1> DEFINE v == list[i]
           others(w) == Cardinality(OthersPin(t, w))
<1>0. /\ Distinct /\ RefCount
      /\ PrevTells /\ CurTells /\ CurDiffers /\ VictimTells /\ VictimDiffers /\ QuietTells
      /\ ReferredIsLive /\ LiveTells /\ HashTells
  BY DEF Good
<1>1. v \in Vals /\ v \in Stored
  BY ListMember
<1>2. ASSUME NEW w \in Vals
      PROVE  /\ others(w) \in Nat /\ held[w] \in Nat /\ InStore(w) \in Nat
             /\ refs[w] = held[w] + InStore(w) + others(w) + (IF prev[t] = w THEN 1 ELSE 0)
             /\ r[w] = held[w] + InStore(w) + others(w) + (IF q = w THEN 1 ELSE 0)
  BY <1>0, CountSplit DEF TypeOK, InStore
<1>3. r[v] >= 1
  <2>1. InStore(v) = 1
    BY <1>1 DEF InStore
  <2>2. /\ others(v) \in Nat /\ held[v] \in Nat
        /\ r[v] = held[v] + InStore(v) + others(v) + (IF q = v THEN 1 ELSE 0)
    BY <1>1, <1>2
  <2> HIDE DEF v, others
  <2> QED
    BY <2>1, <2>2
<1>4. /\ list' \in Seq(Vals) /\ Len(list') = Len(list) - 1
      /\ Distinct' /\ Stored' = Stored \ {v}
      /\ hash' \in [Hashed -> Vals \cup {None}]
      /\ \A k \in Hashed : hash'[k] = IF k = KeyOf[v] THEN None ELSE hash[k]
      /\ refs' \in [Vals -> Nat]
      /\ \A w \in Vals : refs'[w] = IF w = v THEN r[v] - 1 ELSE r[w]
      /\ victim' \in [Threads -> Vals \cup {None}]
      /\ \A u \in Threads : victim'[u] = IF u = t /\ r[v] = 1 THEN v ELSE victim[u]
  BY <1>0, <1>3, CutEffect
<1>5. /\ \A u \in Threads : prev'[u] = IF u = t THEN q ELSE prev[u]
      /\ \A u \in Threads : pc'[u] = IF u = t THEN x ELSE pc[u]
  BY DEF TypeOK
<1> HIDE DEF v, others
<1>6. RefCount'
  <2>1. ASSUME NEW w \in Vals
        PROVE  refs'[w] = held'[w] + InStore(w)' + Cardinality(Pins(w)')
    <3>1. Cardinality(Pins(w)') = others(w) + (IF q = w THEN 1 ELSE 0)
      BY CountJoin DEF TypeOK, others
    <3>2. InStore(w)' = IF w = v THEN 0 ELSE InStore(w)
      BY <1>4 DEF InStore
    <3>3. w = v => InStore(w) = 1
      BY <1>1 DEF InStore
    <3>4. /\ others(w) \in Nat /\ held[w] \in Nat /\ InStore(w) \in Nat
          /\ r[w] = held[w] + InStore(w) + others(w) + (IF q = w THEN 1 ELSE 0)
      BY <1>2
    <3>5. refs'[w] = IF w = v THEN r[w] - 1 ELSE r[w]
      BY <1>4
    <3>6. held'[w] = held[w]
      OBVIOUS
    <3>7. CASE w = v
      <4>1. InStore(w)' = 0 /\ InStore(w) = 1 /\ refs'[w] = r[w] - 1
        BY <3>2, <3>3, <3>5, <3>7
      <4>2. CASE q = w
        <5>1. Cardinality(Pins(w)') = others(w) + 1
          BY <4>2, <3>1
        <5>2. r[w] = held[w] + 1 + others(w) + 1
          BY <4>1, <4>2, <3>4
        <5>3. others(w) \in Nat /\ held[w] \in Nat
          BY <3>4
        <5>4. refs'[w] = held[w] + 0 + (others(w) + 1)
          <6>1. refs'[w] = r[w] - 1
            BY <4>1
          <6>2. \A h, o \in Nat : h + 1 + o + 1 - 1 = h + 0 + (o + 1)
            OBVIOUS
          <6>3. r[w] - 1 = held[w] + 1 + others(w) + 1 - 1
            BY <5>2, <5>3
          <6> QED
            BY <5>3, <6>1, <6>2, <6>3
        <5>5. held'[w] + InStore(w)' + Cardinality(Pins(w)') = held[w] + 0 + (others(w) + 1)
          BY <4>1, <5>1, <3>6
        <5> QED
          BY <5>4, <5>5
      <4>3. CASE q # w
        BY <4>1, <4>3, <3>1, <3>4, <3>6
      <4> QED
        BY <4>2, <4>3
    <3>8. CASE w # v
      BY <3>1, <3>2, <3>4, <3>5, <3>6, <3>8
    <3> QED
      BY <3>7, <3>8
  <2> QED
    BY <2>1 DEF RefCount
<1>7. PrevTells'
  <2>1. ASSUME NEW u \in Threads, prev'[u] # None
        PROVE  prev'[u] \in Stored' /\ pc'[u] = "store"
    <3>1. CASE u = t
      BY <3>1, <2>1, <1>4, <1>5 DEF v
    <3>2. CASE u # t
      <4>1. prev[u] # v
        BY <3>2 DEF OthersPin, v
      <4> QED
        BY <3>2, <4>1, <2>1, <1>0, <1>4, <1>5 DEF PrevTells
    <3> QED
      BY <3>1, <3>2
  <2> QED
    BY <2>1 DEF PrevTells
<1>8. CurTells' /\ CurDiffers'
  BY <1>0, <1>4, <1>5 DEF CurTells, CurDiffers
<1>9. \A u \in Threads : victim[u] # None =>
        /\ victim[u] \in Vals /\ victim[u] # v /\ u # t
        /\ refs'[victim[u]] = 0
  <2>1. ASSUME NEW u \in Threads, victim[u] # None
        PROVE  victim[u] \in Vals /\ victim[u] # v /\ refs'[victim[u]] = 0
    <3>1. victim[u] \in Vals /\ refs[victim[u]] = 0
      BY <2>1, <1>0 DEF TypeOK, VictimTells
    <3>2. InStore(victim[u]) = 0 /\ held[victim[u]] = 0 /\ others(victim[u]) = 0
      <4> DEFINE w == victim[u]
      <4>1. /\ others(w) \in Nat /\ held[w] \in Nat /\ InStore(w) \in Nat
            /\ refs[w] = held[w] + InStore(w) + others(w) + (IF prev[t] = w THEN 1 ELSE 0)
        BY <3>1, <1>2
      <4>2. refs[w] = 0
        BY <3>1
      <4> HIDE DEF w
      <4>3. InStore(w) = 0 /\ held[w] = 0 /\ others(w) = 0
        BY <4>1, <4>2
      <4> QED
        BY <4>3 DEF w
    <3>3. victim[u] \notin Stored
      BY <3>2 DEF InStore
    <3>4. q # victim[u] /\ victim[u] # v
      BY <3>1, <3>3, <1>1, NoneAssumption
    <3>5. r[victim[u]] = held[victim[u]] + InStore(victim[u]) + others(victim[u]) + 0
      BY <3>1, <3>4, <1>2
    <3>6. r[victim[u]] = 0
      BY <3>2, <3>5
    <3> QED
      BY <3>1, <3>4, <3>6, <1>4
  <2> QED
    BY <2>1
<1>10. VictimTells' /\ VictimDiffers'
  <2>1. refs[v] > 0
    BY <1>1, <1>2 DEF InStore
  <2>2. status[v] = "live"
    BY <2>1, <1>0, <1>1 DEF ReferredIsLive
  <2>3. VictimTells'
    <3>1. ASSUME NEW u \in Threads, victim'[u] # None
          PROVE  status'[victim'[u]] = "live" /\ refs'[victim'[u]] = 0
      <4>1. CASE u = t
        <5>1. victim'[u] = v /\ r[v] = 1
          BY <3>1, <4>1, <1>4
        <5>2. refs'[v] = 0
          BY <5>1, <1>1, <1>4
        <5> QED
          BY <5>1, <5>2, <2>2
      <4>2. CASE u # t
        <5>1. victim'[u] = victim[u]
          BY <4>2, <1>4
        <5> QED
          BY <5>1, <3>1, <1>0, <1>9 DEF VictimTells
      <4> QED
        BY <4>1, <4>2
    <3> QED
      BY <3>1 DEF VictimTells
  <2>4. VictimDiffers'
    <3>1. \A u \in Threads : u # t => victim'[u] = victim[u]
      BY <1>4
    <3>2. victim'[t] = None \/ victim'[t] = v
      BY <1>4
    <3> QED
      BY <3>1, <3>2, <1>0, <1>9 DEF VictimDiffers
  <2> QED
    BY <2>3, <2>4
<1>11. QuietTells'
  <2>1. ASSUME NEW u \in Threads, pc'[u] \in {"begin", "resize", "link"}
        PROVE  victim'[u] = None
    BY <2>1, <1>0, <1>4, <1>5 DEF QuietTells
  <2>2. ASSUME NEW u \in Threads, pc'[u] = "empty"
        PROVE  closed'
    BY <2>2, <1>0, <1>5 DEF QuietTells
  <2>3. closed' => \A u \in Threads : cur'[u] = None
    BY <1>0 DEF QuietTells
  <2> QED
    BY <2>1, <2>2, <2>3 DEF QuietTells
<1>12. ReferredIsLive'
  <2>1. ASSUME NEW w \in Vals, refs'[w] > 0
        PROVE  refs[w] > 0
    <3>1. q = w => w \in Stored
      BY NoneAssumption
    <3>2. w \in Stored => InStore(w) = 1
      BY DEF InStore
    <3>3. r[w] > 0
      <4>1. refs'[w] = IF w = v THEN r[v] - 1 ELSE r[w]
        BY <1>4
      <4>2. r[w] \in Nat
        OBVIOUS
      <4> QED
        BY <2>1, <4>1, <4>2
    <3>4. /\ others(w) \in Nat /\ held[w] \in Nat /\ InStore(w) \in Nat
          /\ refs[w] = held[w] + InStore(w) + others(w) + (IF prev[t] = w THEN 1 ELSE 0)
          /\ r[w] = held[w] + InStore(w) + others(w) + (IF q = w THEN 1 ELSE 0)
      BY <1>2
    <3> QED
      BY <3>1, <3>2, <3>3, <3>4
  <2> QED
    BY <2>1, <1>0 DEF ReferredIsLive
<1>13. LiveTells'
  <2>1. ASSUME NEW w \in Vals, status[w] = "live"
        PROVE  refs'[w] > 0 \/ \E u \in Threads : victim'[u] = w
    <3>1. CASE \E u \in Threads : victim[u] = w
      BY <3>1, <1>4, <1>9, NoneAssumption
    <3>2. CASE refs[w] > 0
      <4>1. prev[t] = w => InStore(w) = 1
        BY <1>0, NoneAssumption DEF PrevTells, InStore
      <4>2. r[w] > 0
        BY <3>2, <4>1, <1>2
      <4>3. CASE w # v
        BY <4>2, <4>3, <1>4
      <4>4. CASE w = v /\ r[v] = 1
        BY <4>4, <1>4
      <4>5. CASE w = v /\ r[v] # 1
        BY <4>2, <4>5, <1>1, <1>4
      <4> QED
        BY <4>3, <4>4, <4>5
    <3> QED
      BY <2>1, <3>1, <3>2, <1>0 DEF LiveTells
  <2> QED
    BY <2>1 DEF LiveTells
<1>14. HashTells'
  <2>1. ASSUME NEW k \in Hashed, NEW w \in Vals
        PROVE  hash'[k] = w <=> w \in Stored' /\ KeyOf[w] = k
    <3>1. hash[k] = w <=> w \in Stored /\ KeyOf[w] = k
      BY <1>0 DEF HashTells
    <3>2. hash[k] = v <=> v \in Stored /\ KeyOf[v] = k
      BY <1>0, <1>1 DEF HashTells
    <3> QED
      BY <3>1, <3>2, <1>1, <1>4, NoneAssumption
  <2> QED
    BY <2>1 DEF HashTells
<1> QED
  BY <1>4, <1>6, <1>7, <1>8, <1>10, <1>11, <1>12, <1>13, <1>14 DEF Good

-----------------------------------------------------------------------------
LEMMA LinkKeeps ==
    ASSUME TypeOK, Good, NEW t \in Threads, pc[t] \in {"begin", "link"}, Link(t, cur[t]),
           UNCHANGED <<status, prev, victim, closed>>
    PROVE  /\ Good'
           /\ list' \in Seq(Vals)
           /\ hash' \in [Hashed -> Vals \cup {None}]
           /\ refs' \in [Vals -> Nat] /\ held' \in [Vals -> Nat]
           /\ pc' \in [Threads -> Operations]
           /\ cur' \in [Threads -> Vals \cup {None}]
<1> DEFINE v == cur[t]
           e == Existing(v)
<1>0. /\ Distinct /\ RefCount
      /\ PrevTells /\ CurTells /\ CurDiffers /\ VictimTells /\ VictimDiffers /\ QuietTells
      /\ ReferredIsLive /\ LiveTells /\ HashTells
  BY DEF Good
<1>1. v \in Vals /\ v \notin Stored /\ held[v] > 0
  BY <1>0 DEF CurTells, TypeOK
<1>2. /\ \A u \in Threads : pc'[u] = IF u = t THEN "idle" ELSE pc[u]
      /\ \A u \in Threads : cur'[u] = IF u = t THEN None ELSE cur[u]
      /\ pc' \in [Threads -> Operations]
      /\ cur' \in [Threads -> Vals \cup {None}]
  BY DEF Link, TypeOK, Operations
<1>3. \A w \in Vals : Pins(w)' = Pins(w)
  BY DEF Pins
<1>4. \A w \in Vals : refs[w] \in Nat /\ held[w] \in Nat /\ InStore(w) \in Nat
  BY DEF TypeOK, InStore
<1>5. refs[v] > 0 /\ status[v] = "live"
  <2>1. Cardinality(Pins(v)) \in Nat
    BY ThreadsAssumption, FS_Subset, FS_CardinalityType DEF Pins
  <2> QED
    BY <2>1, <1>0, <1>1, <1>4 DEF RefCount, ReferredIsLive
<1>6. ASSUME NEW x \in Vals, refs[x] > 0,
             refs' = [refs EXCEPT ![x] = @ + 1]
      PROVE  VictimTells' /\ VictimDiffers' /\ ReferredIsLive' /\ LiveTells'
  <2>1. refs' \in [Vals -> Nat] /\ \A w \in Vals : refs'[w] = IF w = x THEN refs[w] + 1 ELSE refs[w]
    BY <1>6 DEF TypeOK
  <2>2. VictimTells'
    BY <1>0, <1>4, <1>6, <2>1 DEF VictimTells, TypeOK
  <2>3. ReferredIsLive'
    BY <1>0, <1>4, <1>6, <2>1 DEF ReferredIsLive
  <2>4. LiveTells'
    BY <1>0, <1>4, <1>6, <2>1 DEF LiveTells
  <2> QED
    BY <2>2, <2>3, <2>4, <1>0 DEF VictimDiffers
<1>7. QuietTells'
  BY <1>0, <1>2 DEF QuietTells
<1>8. CASE e = None
  <2>1. /\ list' = <<v>> \o list
        /\ hash' = [k \in Hashed |-> IF k = KeyOf[v] THEN v ELSE hash[k]]
        /\ refs' = [refs EXCEPT ![v] = @ + 1]
        /\ held' = held
    BY <1>8 DEF Link
  <2>2. list' \in Seq(Vals) /\ Distinct' /\ Stored' = Stored \cup {v}
    BY <2>1, <1>0, <1>1, Prepended DEF TypeOK, Distinct, Stored
  <2>3. refs' \in [Vals -> Nat] /\ \A w \in Vals : refs'[w] = IF w = v THEN refs[w] + 1 ELSE refs[w]
    BY <2>1, <1>1 DEF TypeOK
  <2>4. hash' \in [Hashed -> Vals \cup {None}]
    BY <2>1, <1>1 DEF TypeOK
  <2>5. RefCount'
    <3>1. ASSUME NEW w \in Vals
          PROVE  refs'[w] = held'[w] + InStore(w)' + Cardinality(Pins(w)')
      <4>1. InStore(w)' = IF w = v THEN 1 ELSE InStore(w)
        BY <2>2 DEF InStore
      <4>2. w = v => InStore(w) = 0
        BY <1>1 DEF InStore
      <4>3. refs[w] = held[w] + InStore(w) + Cardinality(Pins(w)) /\ Cardinality(Pins(w)) \in Nat
        BY <1>0, ThreadsAssumption, FS_Subset, FS_CardinalityType DEF RefCount, Pins
      <4> QED
        BY <4>1, <4>2, <4>3, <2>1, <2>3, <1>3, <1>4
    <3> QED
      BY <3>1 DEF RefCount
  <2>6. PrevTells'
    BY <2>2, <1>0, <1>2 DEF PrevTells
  <2>7. CurTells' /\ CurDiffers'
    BY <2>1, <2>2, <1>0, <1>2 DEF CurTells, CurDiffers
  <2>8. HashTells'
    <3>1. KeyOf[v] \in Hashed => hash[KeyOf[v]] = None
      BY <1>8 DEF Existing
    <3>2. ASSUME NEW k \in Hashed, NEW w \in Vals
          PROVE  hash'[k] = w <=> w \in Stored' /\ KeyOf[w] = k
      <4>1. hash'[k] = IF k = KeyOf[v] THEN v ELSE hash[k]
        BY <2>1
      <4>2. hash[k] = w <=> w \in Stored /\ KeyOf[w] = k
        BY <1>0 DEF HashTells
      <4>3. CASE k = KeyOf[v]
        BY <4>1, <4>2, <4>3, <3>1, <2>2, NoneAssumption
      <4>4. CASE k # KeyOf[v]
        BY <4>1, <4>2, <4>4, <2>2
      <4> QED
        BY <4>3, <4>4
    <3> QED
      BY <3>2 DEF HashTells
  <2>9. VictimTells' /\ VictimDiffers' /\ ReferredIsLive' /\ LiveTells'
    BY <2>1, <1>1, <1>5, <1>6
  <2> QED
    BY <2>1, <2>2, <2>3, <2>4, <2>5, <2>6, <2>7, <2>8, <2>9, <1>2, <1>7 DEF Good, TypeOK
<1>9. CASE e # None
  <2>1. /\ refs' = [refs EXCEPT ![e] = @ + 1]
        /\ held' = [held EXCEPT ![e] = @ + 1]
        /\ list' = list /\ hash' = hash
    BY <1>9 DEF Link
  <2>2. e \in Vals /\ e \in Stored
    <3>1. e = hash[KeyOf[v]] /\ KeyOf[v] \in Hashed
      BY <1>9 DEF Existing
    <3>2. e \in Vals
      BY <3>1, <1>9 DEF TypeOK
    <3> QED
      BY <3>1, <3>2, <1>0 DEF HashTells
  <2> HIDE DEF e
  <2>3. /\ refs' \in [Vals -> Nat] /\ held' \in [Vals -> Nat]
        /\ \A w \in Vals : refs'[w] = IF w = e THEN refs[w] + 1 ELSE refs[w]
        /\ \A w \in Vals : held'[w] = IF w = e THEN held[w] + 1 ELSE held[w]
    BY <2>1, <2>2 DEF TypeOK
  <2>4. Stored' = Stored
    BY <2>1 DEF Stored
  <2>5. \A w \in Vals : /\ refs[w] = held[w] + InStore(w) + Cardinality(Pins(w))
                        /\ Cardinality(Pins(w)) \in Nat
    BY <1>0, ThreadsAssumption, FS_Subset, FS_CardinalityType DEF RefCount, Pins
  <2>6. RefCount'
    <3>1. ASSUME NEW w \in Vals
          PROVE  refs'[w] = held'[w] + InStore(w)' + Cardinality(Pins(w)')
      <4>1. InStore(w)' = InStore(w)
        BY <2>4 DEF InStore
      <4> QED
        BY <4>1, <2>3, <2>5, <1>3, <1>4
    <3> QED
      BY <3>1 DEF RefCount
  <2>7. Distinct' /\ HashTells'
    BY <2>1, <2>4, <1>0 DEF Distinct, HashTells
  <2>8. PrevTells'
    BY <2>4, <1>0, <1>2 DEF PrevTells
  <2>9. CurTells' /\ CurDiffers'
    <3>1. \A u \in Threads : cur[u] # None => held'[cur[u]] > 0
      <4>1. ASSUME NEW u \in Threads, cur[u] # None
            PROVE  held'[cur[u]] > 0
        <5>1. cur[u] \in Vals /\ held[cur[u]] > 0 /\ held[cur[u]] \in Nat
          BY <4>1, <1>0 DEF CurTells, TypeOK
        <5> QED
          BY <5>1, <2>3
      <4> QED
        BY <4>1
    <3> QED
      BY <3>1, <2>4, <1>0, <1>2 DEF CurTells, CurDiffers
  <2>10. refs[e] > 0
    BY <2>2, <2>5, <1>4 DEF InStore
  <2>11. VictimTells' /\ VictimDiffers' /\ ReferredIsLive' /\ LiveTells'
    BY <2>1, <2>2, <2>10, <1>6
  <2> QED
    BY <2>1, <2>3, <2>6, <2>7, <2>8, <2>9, <2>11, <1>2, <1>7 DEF Good, TypeOK
<1> QED
  BY <1>8, <1>9

-----------------------------------------------------------------------------
(***************************************************************************)
(* The steps.                                                              *)
(***************************************************************************)
LEMMA InitHolds == Init => IInv
<1> SUFFICES ASSUME Init
             PROVE  IInv
  OBVIOUS
<1>1. TypeOK
  <2>1. /\ refs \in [Vals -> Nat] /\ status \in [Vals -> {"none", "live", "freed"}]
        /\ held \in [Vals -> Nat] /\ pc \in [Threads -> Operations]
        /\ hash \in [Hashed -> Vals \cup {None}]
    BY DEF Init, Operations
  <2>2. list \in Seq(Vals) /\ size \in Int /\ tableSize \in Nat
    BY TableAssumption DEF Init
  <2>3. {cur, prev, victim} \subseteq [Threads -> Vals \cup {None}]
    BY DEF Init
  <2>4. {need, count, freed, newSize} \subseteq [Threads -> Nat]
    BY DEF Init
  <2>5. {closed, undefined} \subseteq BOOLEAN
    BY DEF Init
  <2> QED
    BY <2>1, <2>2, <2>3, <2>4, <2>5 DEF TypeOK
<1>2. Stored = {} /\ Distinct
  BY DEF Init, Stored, ToSet, Distinct
<1>3. RefCount
  <2>1. ASSUME NEW v \in Vals
        PROVE  Cardinality(Pins(v)) = 0
    <3>1. Pins(v) = {}
      BY NoneAssumption DEF Init, Pins
    <3> QED
      BY <3>1, FS_EmptySet
  <2> QED
    BY <2>1, <1>2 DEF Init, RefCount, InStore
<1>4. PrevTells /\ CurTells /\ CurDiffers /\ VictimTells /\ VictimDiffers /\ QuietTells
  BY DEF Init, PrevTells, CurTells, CurDiffers, VictimTells, VictimDiffers, QuietTells
<1>5. ReferredIsLive /\ LiveTells
  BY DEF Init, ReferredIsLive, LiveTells
<1>6. HashTells
  BY <1>2, NoneAssumption DEF Init, HashTells
<1> QED
  BY <1>1, <1>2, <1>3, <1>4, <1>5, <1>6 DEF IInv, Good

\* Steps that change neither the reference counts nor the list, but perhaps where a thread is.
LEMMA QuietKeeps ==
    ASSUME TypeOK, Good, UNCHANGED <<refs, status, held, list, hash, cur, prev, victim>>,
           CurTells', QuietTells',
           \A t \in Threads : prev[t] # None => pc'[t] = "store"
    PROVE  Good'
<1>1. Stored' = Stored /\ \A v \in Vals : Pins(v)' = Pins(v) /\ InStore(v)' = InStore(v)
  BY DEF Stored, Pins, InStore
<1>2. Distinct' /\ RefCount'
  BY <1>1 DEF Good, Distinct, RefCount
<1>3. PrevTells' /\ CurDiffers'
  BY <1>1 DEF Good, PrevTells, CurDiffers
<1>4. VictimTells' /\ VictimDiffers' /\ ReferredIsLive' /\ LiveTells'
  BY DEF Good, VictimTells, VictimDiffers, ReferredIsLive, LiveTells
<1>5. HashTells'
  BY <1>1 DEF Good, HashTells
<1> QED
  BY <1>2, <1>3, <1>4, <1>5 DEF Good

LEMMA CreateStep ==
    ASSUME TypeOK, Good, NEW t \in Threads, NEW v \in Vals, Create(t, v)
    PROVE  IInv'
<1>0. /\ Distinct /\ RefCount
      /\ PrevTells /\ CurTells /\ CurDiffers /\ VictimTells /\ VictimDiffers /\ QuietTells
      /\ ReferredIsLive /\ LiveTells /\ HashTells
  BY DEF Good
<1>1. TypeOK'
  BY DEF TypeOK, Create, Operations
<1>2. /\ status[v] = "none" /\ ~closed /\ victim[t] = None /\ pc[t] = "idle"
      /\ \A w \in Vals : refs'[w] = IF w = v THEN 1 ELSE refs[w]
      /\ \A w \in Vals : held'[w] = IF w = v THEN 1 ELSE held[w]
      /\ \A w \in Vals : status'[w] = IF w = v THEN "live" ELSE status[w]
      /\ \A u \in Threads : pc'[u] = IF u = t THEN "begin" ELSE pc[u]
      /\ \A u \in Threads : cur'[u] = IF u = t THEN v ELSE cur[u]
  BY DEF Create, Ready, TypeOK
<1>3. Stored' = Stored /\ \A w \in Vals : Pins(w)' = Pins(w) /\ InStore(w)' = InStore(w)
  BY DEF Create, Stored, Pins, InStore
<1>4. \A w \in Vals : /\ refs[w] \in Nat /\ held[w] \in Nat /\ InStore(w) \in Nat
                      /\ Cardinality(Pins(w)) \in Nat
                      /\ refs[w] = held[w] + InStore(w) + Cardinality(Pins(w))
  BY <1>0, ThreadsAssumption, FS_Subset, FS_CardinalityType DEF TypeOK, InStore, Pins, RefCount
<1>5. refs[v] = 0 /\ held[v] = 0 /\ InStore(v) = 0 /\ Cardinality(Pins(v)) = 0 /\ v \notin Stored
  <2>1. refs[v] = 0
    BY <1>0, <1>2, <1>4 DEF ReferredIsLive
  <2>2. held[v] = 0 /\ InStore(v) = 0 /\ Cardinality(Pins(v)) = 0
    BY <2>1, <1>4
  <2> QED
    BY <2>1, <2>2 DEF InStore
<1>6. Distinct' /\ HashTells'
  BY <1>0, <1>3 DEF Create, Distinct, HashTells
<1>7. RefCount'
  BY <1>2, <1>3, <1>4, <1>5 DEF RefCount
<1>8. PrevTells'
  BY <1>0, <1>2, <1>3 DEF Create, PrevTells
<1>9. \A u \in Threads : cur[u] # None => cur[u] # v
  BY <1>0, <1>5 DEF CurTells
<1>10. CurTells' /\ CurDiffers'
  <2>1. CurTells'
    <3>1. ASSUME NEW u \in Threads
          PROVE  /\ cur'[u] # None <=> pc'[u] \in {"begin", "store", "resize", "link"}
                 /\ cur'[u] # None => cur'[u] \notin Stored' /\ held'[cur'[u]] > 0
      BY <1>0, <1>2, <1>3, <1>5, <1>9, NoneAssumption DEF CurTells, TypeOK
    <3> QED
      BY <3>1 DEF CurTells
  <2>2. CurDiffers'
    BY <1>0, <1>2, <1>9 DEF CurDiffers
  <2> QED
    BY <2>1, <2>2
<1>11. \A u \in Threads : victim[u] # None => victim[u] # v /\ victim[u] \in Vals
  BY <1>0, <1>2 DEF VictimTells, TypeOK
<1>12. VictimTells' /\ VictimDiffers'
  BY <1>0, <1>2, <1>11 DEF Create, VictimTells, VictimDiffers
<1>13. QuietTells'
  BY <1>0, <1>2 DEF Create, QuietTells
<1>14. ReferredIsLive' /\ LiveTells'
  BY <1>0, <1>2 DEF Create, ReferredIsLive, LiveTells
<1> QED
  BY <1>1, <1>6, <1>7, <1>8, <1>10, <1>12, <1>13, <1>14 DEF IInv, Good

\* A client gets one more reference to an object that is referred to.
LEMMA TakeKeeps ==
    ASSUME TypeOK, Good, NEW v \in Vals, refs[v] > 0,
           refs' = [refs EXCEPT ![v] = @ + 1], held' = [held EXCEPT ![v] = @ + 1],
           Distinct', Stored' = Stored,
           UNCHANGED <<status, hash, threadVars, closed>>
    PROVE  Good' /\ refs' \in [Vals -> Nat] /\ held' \in [Vals -> Nat]
<1>0. /\ RefCount
      /\ PrevTells /\ CurTells /\ CurDiffers /\ VictimTells /\ VictimDiffers /\ QuietTells
      /\ ReferredIsLive /\ LiveTells /\ HashTells
  BY DEF Good
<1>1. /\ refs' \in [Vals -> Nat] /\ held' \in [Vals -> Nat]
      /\ \A w \in Vals : refs'[w] = IF w = v THEN refs[w] + 1 ELSE refs[w]
      /\ \A w \in Vals : held'[w] = IF w = v THEN held[w] + 1 ELSE held[w]
      /\ \A w \in Vals : refs[w] \in Nat /\ held[w] \in Nat
  BY DEF TypeOK
<1>2. /\ pc' = pc /\ cur' = cur /\ prev' = prev /\ victim' = victim
      /\ status' = status /\ hash' = hash /\ closed' = closed
  BY DEF threadVars
<1>3. RefCount'
  <2>1. ASSUME NEW w \in Vals
        PROVE  refs'[w] = held'[w] + InStore(w)' + Cardinality(Pins(w)')
    <3>1. InStore(w)' = InStore(w) /\ Pins(w)' = Pins(w)
      BY <1>2 DEF InStore, Pins
    <3>2. InStore(w) \in Nat /\ Cardinality(Pins(w)) \in Nat
      BY ThreadsAssumption, FS_Subset, FS_CardinalityType DEF InStore, Pins
    <3>3. refs[w] = held[w] + InStore(w) + Cardinality(Pins(w))
      BY <1>0 DEF RefCount
    <3> QED
      BY <3>1, <3>2, <3>3, <1>1
  <2> QED
    BY <2>1 DEF RefCount
<1>4. CurTells'
  <2>1. ASSUME NEW u \in Threads, cur[u] # None
        PROVE  held'[cur[u]] > 0
    <3>1. cur[u] \in Vals /\ held[cur[u]] > 0 /\ held[cur[u]] \in Nat
      BY <2>1, <1>0 DEF CurTells, TypeOK
    <3> QED
      BY <3>1, <1>1
  <2> QED
    BY <2>1, <1>0, <1>2 DEF CurTells
<1>5. PrevTells' /\ CurDiffers' /\ VictimDiffers' /\ QuietTells'
  BY <1>0, <1>2 DEF PrevTells, CurDiffers, VictimDiffers, QuietTells
<1>6. VictimTells'
  BY <1>0, <1>1, <1>2 DEF VictimTells, TypeOK
<1>7. ReferredIsLive'
  BY <1>0, <1>1, <1>2 DEF ReferredIsLive
<1>8. LiveTells'
  BY <1>0, <1>1, <1>2 DEF LiveTells
<1>9. HashTells'
  BY <1>0, <1>2 DEF HashTells
<1> QED
  BY <1>1, <1>3, <1>4, <1>5, <1>6, <1>7, <1>8, <1>9 DEF Good

LEMMA KeepStep ==
    ASSUME TypeOK, Good, NEW v \in Vals, Keep(v)
    PROVE  IInv'
<1>1. refs[v] > 0
  <2>1. /\ refs[v] = held[v] + InStore(v) + Cardinality(Pins(v))
        /\ InStore(v) \in Nat /\ Cardinality(Pins(v)) \in Nat
    BY ThreadsAssumption, FS_Subset, FS_CardinalityType DEF Good, RefCount, InStore, Pins
  <2>2. held[v] > 0 /\ held[v] \in Nat
    BY DEF Keep, TypeOK
  <2> QED
    BY <2>1, <2>2
<1>2. Distinct' /\ Stored' = Stored
  BY DEF Keep, Good, Distinct, Stored
<1>3. Good' /\ refs' \in [Vals -> Nat] /\ held' \in [Vals -> Nat]
  BY <1>1, <1>2, TakeKeeps DEF Keep
<1>4. TypeOK'
  BY <1>3 DEF Keep, TypeOK, threadVars
<1> QED
  BY <1>3, <1>4 DEF IInv

LEMMA MatchesInList ==
    ASSUME TypeOK, NEW k, NEW i \in Matches(k)
    PROVE  i \in 1 .. Len(list)
<1>1. i \in DOMAIN list
  BY DEF Matches
<1>2. DOMAIN list = 1 .. Len(list)
  BY DEF TypeOK
<1> QED
  BY <1>1, <1>2

LEMMA FindStep ==
    ASSUME TypeOK, Good, NEW t \in Threads, NEW k \in Keys, Find(t, k)
    PROVE  IInv'
<1>1. PICK i \in 1 .. Len(list) :
        /\ list' = <<list[i]>> \o RemoveAt(list, i)
        /\ refs' = [refs EXCEPT ![list[i]] = @ + 1]
        /\ held' = [held EXCEPT ![list[i]] = @ + 1]
  <2>1. PICK i \in Matches(k) :
          /\ list' = <<list[i]>> \o RemoveAt(list, i)
          /\ refs' = [refs EXCEPT ![list[i]] = @ + 1]
          /\ held' = [held EXCEPT ![list[i]] = @ + 1]
    BY DEF Find
  <2>2. i \in 1 .. Len(list)
    BY MatchesInList
  <2> QED
    BY <2>1, <2>2
<1> DEFINE v == list[i]
           c == RemoveAt(list, i)
<1>2. v \in Vals /\ v \in Stored
  BY ListMember
<1>3. refs[v] > 0
  <2>1. /\ refs[v] = held[v] + InStore(v) + Cardinality(Pins(v))
        /\ held[v] \in Nat /\ Cardinality(Pins(v)) \in Nat
    BY <1>2, ThreadsAssumption, FS_Subset, FS_CardinalityType DEF Good, RefCount, Pins, TypeOK
  <2>2. InStore(v) = 1
    BY <1>2 DEF InStore
  <2> HIDE DEF v
  <2> QED
    BY <2>1, <2>2
<1>4. /\ c \in Seq(Vals) /\ \A a, b \in 1 .. Len(c) : c[a] = c[b] => a = b
      /\ ToSet(c) = ToSet(list) \ {v}
  <2>1. list \in Seq(Vals) /\ \A a, b \in 1 .. Len(list) : list[a] = list[b] => a = b
    BY DEF TypeOK, Good, Distinct
  <2> QED
    BY <2>1, Cut
<1> HIDE DEF c
<1>5. list' \in Seq(Vals) /\ Distinct' /\ Stored' = Stored
  <2>1. list' = <<v>> \o c
    BY <1>1 DEF c
  <2>2. v \notin ToSet(c)
    BY <1>4
  <2> HIDE DEF v
  <2>3. /\ list' \in Seq(Vals) /\ \A a, b \in 1 .. Len(list') : list'[a] = list'[b] => a = b
        /\ ToSet(list') = ToSet(c) \cup {v}
    BY <1>2, <1>4, <2>1, <2>2, Prepended
  <2> QED
    BY <2>3, <1>2, <1>4 DEF Distinct, Stored
<1>6. Good' /\ refs' \in [Vals -> Nat] /\ held' \in [Vals -> Nat]
  BY <1>1, <1>2, <1>3, <1>5, TakeKeeps DEF Find
<1>7. TypeOK'
  BY <1>5, <1>6 DEF Find, TypeOK, threadVars
<1> QED
  BY <1>6, <1>7 DEF IInv

LEMMA DropStep ==
    ASSUME TypeOK, Good, NEW t \in Threads, NEW v \in Vals, Drop(t, v)
    PROVE  IInv'
<1>0. /\ RefCount
      /\ PrevTells /\ CurTells /\ CurDiffers /\ VictimTells /\ VictimDiffers /\ QuietTells
      /\ ReferredIsLive /\ LiveTells /\ HashTells
  BY DEF Good
<1>1. /\ \A w \in Vals : refs[w] \in Nat /\ held[w] \in Nat
      /\ victim[t] = None /\ pc[t] = "idle"
      /\ held[v] > 0 /\ \A u \in Threads : cur[u] = v => held[v] > 1
  BY DEF TypeOK, Drop, Ready, Storing
<1>2. \A w \in Vals : /\ InStore(w) \in Nat /\ Cardinality(Pins(w)) \in Nat
                      /\ refs[w] = held[w] + InStore(w) + Cardinality(Pins(w))
  BY <1>0, ThreadsAssumption, FS_Subset, FS_CardinalityType DEF InStore, Pins, RefCount
<1>3. refs[v] > 0
  BY <1>1, <1>2
<1>4. /\ refs' \in [Vals -> Nat] /\ held' \in [Vals -> Nat]
      /\ \A w \in Vals : refs'[w] = IF w = v THEN refs[w] - 1 ELSE refs[w]
      /\ \A w \in Vals : held'[w] = IF w = v THEN held[w] - 1 ELSE held[w]
      /\ victim' \in [Threads -> Vals \cup {None}]
      /\ \A u \in Threads : victim'[u] = IF u = t /\ refs[v] = 1 THEN v ELSE victim[u]
  BY <1>1, <1>3 DEF Drop, TypeOK
<1>5. /\ pc' = pc /\ cur' = cur /\ prev' = prev /\ status' = status /\ hash' = hash
      /\ list' = list /\ closed' = closed
  BY DEF Drop
<1>6. Stored' = Stored /\ \A w \in Vals : InStore(w)' = InStore(w) /\ Pins(w)' = Pins(w)
  BY <1>5 DEF Stored, InStore, Pins
<1>7. RefCount'
  <2>1. ASSUME NEW w \in Vals
        PROVE  refs'[w] = held'[w] + InStore(w)' + Cardinality(Pins(w)')
    BY <1>1, <1>2, <1>4, <1>6
  <2> QED
    BY <2>1 DEF RefCount
<1>8. Distinct' /\ HashTells' /\ PrevTells' /\ CurDiffers'
  BY <1>5, <1>6 DEF Good, Distinct, HashTells, PrevTells, CurDiffers
<1>9. CurTells'
  <2>1. ASSUME NEW u \in Threads, cur[u] # None
        PROVE  held'[cur[u]] > 0
    <3>1. cur[u] \in Vals /\ held[cur[u]] > 0 /\ held[cur[u]] \in Nat
      BY <2>1, <1>0 DEF CurTells, TypeOK
    <3> QED
      BY <3>1, <1>1, <1>4
  <2> QED
    BY <2>1, <1>0, <1>5, <1>6 DEF CurTells
<1>10. \A u \in Threads : victim[u] # None =>
         victim[u] \in Vals /\ victim[u] # v /\ refs[victim[u]] = 0
  BY <1>0, <1>3 DEF VictimTells, TypeOK
<1>11. status[v] = "live"
  BY <1>0, <1>3 DEF ReferredIsLive
<1>12. VictimTells'
  <2>1. ASSUME NEW u \in Threads, victim'[u] # None
        PROVE  status'[victim'[u]] = "live" /\ refs'[victim'[u]] = 0
    <3>1. CASE u = t /\ refs[v] = 1
      BY <3>1, <1>4, <1>5, <1>11
    <3>2. CASE ~(u = t /\ refs[v] = 1)
      <4>1. victim'[u] = victim[u]
        BY <3>2, <1>4
      <4> QED
        BY <4>1, <2>1, <1>0, <1>4, <1>5, <1>10 DEF VictimTells
    <3> QED
      BY <3>1, <3>2
  <2> QED
    BY <2>1 DEF VictimTells
<1>13. VictimDiffers'
  <2>1. /\ \A u \in Threads : u # t => victim'[u] = victim[u]
        /\ victim'[t] = None \/ victim'[t] = v
    BY <1>1, <1>4
  <2> QED
    BY <2>1, <1>0, <1>10 DEF VictimDiffers
<1>14. QuietTells'
  BY <1>0, <1>1, <1>4, <1>5 DEF QuietTells
<1>15. ReferredIsLive'
  BY <1>0, <1>1, <1>4, <1>5, <1>11 DEF ReferredIsLive
<1>16. LiveTells'
  <2>1. ASSUME NEW w \in Vals, status[w] = "live"
        PROVE  refs'[w] > 0 \/ \E u \in Threads : victim'[u] = w
    <3>1. CASE \E u \in Threads : victim[u] = w
      BY <3>1, <1>1, <1>4, NoneAssumption
    <3>2. CASE refs[w] > 0
      BY <3>2, <1>1, <1>4
    <3> QED
      BY <2>1, <3>1, <3>2, <1>0 DEF LiveTells
  <2> QED
    BY <2>1, <1>5 DEF LiveTells
<1>17. TypeOK'
  BY <1>4 DEF Drop, TypeOK
<1> QED
  BY <1>7, <1>8, <1>9, <1>12, <1>13, <1>14, <1>15, <1>16, <1>17 DEF IInv, Good

LEMMA FreeVictimStep ==
    ASSUME TypeOK, Good, NEW t \in Threads, FreeVictim(t)
    PROVE  IInv'
<1> DEFINE w == victim[t]
<1>0. /\ RefCount
      /\ PrevTells /\ CurTells /\ CurDiffers /\ VictimTells /\ VictimDiffers /\ QuietTells
      /\ ReferredIsLive /\ LiveTells /\ HashTells
  BY DEF Good
<1>1. w \in Vals /\ refs[w] = 0
  BY <1>0 DEF FreeVictim, TypeOK, VictimTells
<1>2. /\ pc' = pc /\ cur' = cur /\ prev' = prev /\ refs' = refs /\ hash' = hash
      /\ list' = list /\ closed' = closed /\ held' = held
      /\ \A v \in Vals : status'[v] = IF v = w THEN "freed" ELSE status[v]
      /\ \A u \in Threads : victim'[u] = IF u = t THEN None ELSE victim[u]
  BY DEF FreeVictim, storeVars, TypeOK
<1>3. Stored' = Stored /\ \A v \in Vals : InStore(v)' = InStore(v) /\ Pins(v)' = Pins(v)
  BY <1>2 DEF Stored, InStore, Pins
<1>4. /\ Distinct' /\ RefCount' /\ HashTells' /\ PrevTells' /\ CurDiffers' /\ CurTells'
  BY <1>2, <1>3 DEF Good, Distinct, RefCount, HashTells, PrevTells, CurDiffers, CurTells
<1>5. VictimTells' /\ VictimDiffers' /\ QuietTells'
  <2>1. \A u \in Threads : u # t => victim[u] = None \/ victim[u] # w
    BY <1>0 DEF VictimDiffers, FreeVictim
  <2>2. \A u \in Threads : victim[u] \in Vals \cup {None}
    BY DEF TypeOK
  <2>3. VictimTells'
    BY <2>1, <2>2, <1>0, <1>2 DEF VictimTells
  <2>4. VictimDiffers'
    BY <1>0, <1>2 DEF VictimDiffers
  <2>5. QuietTells'
    BY <1>0, <1>2 DEF QuietTells
  <2> QED
    BY <2>3, <2>4, <2>5
<1>6. ReferredIsLive'
  BY <1>0, <1>1, <1>2 DEF ReferredIsLive, TypeOK
<1>7. LiveTells'
  BY <1>0, <1>2 DEF LiveTells
<1>8. TypeOK'
  BY DEF FreeVictim, TypeOK, storeVars
<1> QED
  BY <1>4, <1>5, <1>6, <1>7, <1>8 DEF IInv, Good

-----------------------------------------------------------------------------
(***************************************************************************)
(* Storing and evicting.                                                   *)
(***************************************************************************)
\* What the reference counts are once the thread has given up its own pin.
WithoutOwnPin(t, r) ==
    /\ r \in [Vals -> Nat]
    /\ \A w \in Vals : r[w] = held[w] + InStore(w) + Cardinality(OthersPin(t, w))

LEMMA NoPin ==
    ASSUME TypeOK, Good, NEW t \in Threads, pc[t] # "store"
    PROVE  prev[t] = None /\ WithoutOwnPin(t, refs)
<1>1. prev[t] = None
  BY DEF Good, PrevTells
<1>2. \A w \in Vals : refs[w] = held[w] + InStore(w) + Cardinality(OthersPin(t, w))
  <2>1. ASSUME NEW w \in Vals
        PROVE  refs[w] = held[w] + InStore(w) + Cardinality(OthersPin(t, w))
    <3>1. /\ Cardinality(OthersPin(t, w)) \in Nat
          /\ refs[w] = held[w] + InStore(w) + Cardinality(OthersPin(t, w))
                       + (IF prev[t] = w THEN 1 ELSE 0)
      BY CountSplit DEF Good
    <3>2. prev[t] # w
      BY <1>1, NoneAssumption
    <3>3. held[w] \in Nat /\ InStore(w) \in Nat
      BY DEF TypeOK, InStore
    <3> QED
      BY <3>1, <3>2, <3>3
  <2> QED
    BY <2>1
<1> QED
  BY <1>1, <1>2 DEF WithoutOwnPin, TypeOK

LEMMA UnpinnedIs ==
    ASSUME TypeOK, Good, NEW t \in Threads
    PROVE  WithoutOwnPin(t, Unpinned(t))
<1>1. ASSUME NEW w \in Vals
      PROVE  /\ Unpinned(t)[w] = held[w] + InStore(w) + Cardinality(OthersPin(t, w))
             /\ Unpinned(t)[w] \in Nat
  <2>1. /\ Cardinality(OthersPin(t, w)) \in Nat
        /\ refs[w] = held[w] + InStore(w) + Cardinality(OthersPin(t, w))
                     + (IF prev[t] = w THEN 1 ELSE 0)
    BY CountSplit DEF Good
  <2>2. Unpinned(t)[w] = IF w = prev[t] THEN refs[w] - 1 ELSE refs[w]
    BY DEF Unpinned
  <2>3. held[w] \in Nat /\ InStore(w) \in Nat
    BY DEF TypeOK, InStore
  <2>4. CASE w = prev[t]
    BY <2>1, <2>2, <2>3, <2>4
  <2>5. CASE w # prev[t]
    BY <2>1, <2>2, <2>3, <2>5
  <2> QED
    BY <2>4, <2>5
<1>2. Unpinned(t) \in [Vals -> Nat]
  BY <1>1 DEF Unpinned
<1> QED
  BY <1>1, <1>2 DEF WithoutOwnPin

LEMMA UnusedIsAlone ==
    ASSUME TypeOK, NEW t \in Threads, NEW r, WithoutOwnPin(t, r), NEW v \in Vals,
           v \in Stored, r[v] = 1
    PROVE  held[v] = 0 /\ OthersPin(t, v) = {}
<1>1. IsFiniteSet(OthersPin(t, v))
  BY ThreadsAssumption, FS_Subset DEF OthersPin
<1>2. Cardinality(OthersPin(t, v)) \in Nat /\ held[v] \in Nat
  BY <1>1, FS_CardinalityType DEF TypeOK
<1>3. InStore(v) = 1
  BY DEF InStore
<1>4. r[v] = held[v] + InStore(v) + Cardinality(OthersPin(t, v))
  BY DEF WithoutOwnPin
<1>5. held[v] = 0 /\ Cardinality(OthersPin(t, v)) = 0
  BY <1>2, <1>3, <1>4
<1> QED
  BY <1>1, <1>5, FS_EmptySet

LEMMA Unused ==
    ASSUME TypeOK, Good, NEW t \in Threads, NEW r, WithoutOwnPin(t, r),
           NEW n \in 0 .. Len(list), NEW i \in LastUnused(r, n)
    PROVE  /\ i \in 1 .. Len(list) /\ list[i] \in Vals /\ list[i] \in Stored
           /\ r[list[i]] = 1 /\ held[list[i]] = 0 /\ OthersPin(t, list[i]) = {}
<1>1. i \in 1 .. n /\ r[list[i]] = 1
  BY DEF LastUnused
<1>2. i \in 1 .. Len(list)
  BY <1>1 DEF TypeOK
<1>3. list[i] \in Vals /\ list[i] \in Stored
  BY <1>2, ListMember
<1> QED
  BY <1>1, <1>2, <1>3, UnusedIsAlone

LEMMA PinnedKeeps ==
    ASSUME TypeOK, Good, NEW t \in Threads, NEW r, WithoutOwnPin(t, r),
           NEW n \in 0 .. Len(list), NEW i \in LastUnused(r, n), EvictPinned(t, r, i),
           victim[t] = None, cur[t] # None, pc' = [pc EXCEPT ![t] = "store"],
           UNCHANGED <<held, status, cur, closed>>
    PROVE  /\ Good'
           /\ list' \in Seq(Vals) /\ Len(list') = Len(list) - 1 /\ size' \in Int
           /\ hash' \in [Hashed -> Vals \cup {None}]
           /\ refs' \in [Vals -> Nat]
           /\ {prev', victim'} \subseteq [Threads -> Vals \cup {None}]
           /\ pc' \in [Threads -> Operations]
           /\ freed' \in [Threads -> Nat]
           /\ Size[list[i]] \in Nat
<1> DEFINE p == IF i > 1 THEN list[i - 1] ELSE None
           r2 == [v \in Vals |-> IF v = p THEN r[v] + 1 ELSE r[v]]
<1>1. /\ i \in 1 .. Len(list) /\ list[i] \in Vals /\ list[i] \in Stored
      /\ r[list[i]] = 1 /\ OthersPin(t, list[i]) = {}
  BY Unused
<1>2. /\ Evict(t, r2, i) /\ prev' = [prev EXCEPT ![t] = p]
      /\ freed' = [freed EXCEPT ![t] = @ + Size[list[i]]]
  BY DEF EvictPinned
<1>3. p \in Vals \cup {None} /\ (p # None => p \in Stored /\ p # list[i])
  <2>1. CASE i > 1
    <3>1. i - 1 \in 1 .. Len(list)
      BY <1>1, <2>1
    <3>2. list[i - 1] \in Vals /\ list[i - 1] \in Stored
      BY <3>1, ListMember
    <3>3. list[i - 1] # list[i]
      BY <1>1, <3>1 DEF Good, Distinct
    <3> QED
      BY <2>1, <3>2, <3>3
  <2>2. CASE ~(i > 1)
    BY <2>2
  <2> QED
    BY <2>1, <2>2
<1> HIDE DEF p
<1>4. r2 \in [Vals -> Nat] /\ \A w \in Vals : r2[w] = IF w = p THEN r[w] + 1 ELSE r[w]
  BY DEF WithoutOwnPin
<1> HIDE DEF r2
<1>5. \A w \in Vals : r2[w] = held[w] + InStore(w) + Cardinality(OthersPin(t, w))
                             + (IF p = w THEN 1 ELSE 0)
  <2>1. ASSUME NEW w \in Vals
        PROVE  r2[w] = held[w] + InStore(w) + Cardinality(OthersPin(t, w))
                       + (IF p = w THEN 1 ELSE 0)
    <3>1. r[w] = held[w] + InStore(w) + Cardinality(OthersPin(t, w)) /\ r[w] \in Nat
      BY DEF WithoutOwnPin
    <3>2. CASE p = w
      BY <3>1, <3>2, <1>4
    <3>3. CASE p # w
      BY <3>1, <3>3, <1>4
    <3> QED
      BY <3>2, <3>3
  <2> QED
    BY <2>1
<1>6. CutOut(t, r2, i) /\ size' \in Int
  BY <1>1, <1>2, EvictCuts
<1>7. /\ Good'
      /\ list' \in Seq(Vals) /\ Len(list') = Len(list) - 1
      /\ hash' \in [Hashed -> Vals \cup {None}]
      /\ refs' \in [Vals -> Nat]
      /\ victim' \in [Threads -> Vals \cup {None}]
  BY <1>1, <1>2, <1>3, <1>4, <1>5, <1>6, CutKeeps, ZenonT(60)
<1>8. prev' \in [Threads -> Vals \cup {None}] /\ pc' \in [Threads -> Operations]
  BY <1>2, <1>3 DEF TypeOK, Operations
<1>9. freed' \in [Threads -> Nat] /\ Size[list[i]] \in Nat
  <2>1. Size[list[i]] \in Nat
    BY <1>1, SizesAssumption
  <2>2. freed \in [Threads -> Nat]
    BY DEF TypeOK
  <2>3. freed'[t] \in Nat /\ freed' = [freed EXCEPT ![t] = freed[t] + Size[list[i]]]
    BY <2>1, <2>2, <1>2
  <2> QED
    BY <2>1, <2>2, <2>3
<1> QED
  BY <1>6, <1>7, <1>8, <1>9

LEMMA GiveUpKeeps ==
    ASSUME TypeOK, Good, NEW t \in Threads, NEW r, WithoutOwnPin(t, r), NEW tofree,
           GiveUp(t, r, tofree), UNCHANGED <<held, status, closed>>
    PROVE  Good' /\ refs' \in [Vals -> Nat]
<1>0. /\ Distinct /\ RefCount
      /\ PrevTells /\ CurTells /\ CurDiffers /\ VictimTells /\ VictimDiffers /\ QuietTells
      /\ ReferredIsLive /\ LiveTells /\ HashTells
  BY DEF Good
<1>1. /\ refs' = r /\ list' = list /\ hash' = hash /\ victim' = victim
      /\ held' = held /\ status' = status /\ closed' = closed
      /\ prev' = [prev EXCEPT ![t] = None]
      /\ \A u \in Threads : prev'[u] = IF u = t THEN None ELSE prev[u]
      /\ \A u \in Threads : pc'[u] = IF u = t THEN "idle" ELSE pc[u]
      /\ \A u \in Threads : cur'[u] = IF u = t THEN None ELSE cur[u]
  BY DEF GiveUp, TypeOK
<1>2. Stored' = Stored /\ \A w \in Vals : InStore(w)' = InStore(w)
  BY <1>1 DEF Stored, InStore
<1>3. \A w \in Vals : /\ r[w] \in Nat /\ held[w] \in Nat /\ InStore(w) \in Nat
                      /\ Cardinality(OthersPin(t, w)) \in Nat
                      /\ r[w] = held[w] + InStore(w) + Cardinality(OthersPin(t, w))
                      /\ refs[w] = r[w] + (IF prev[t] = w THEN 1 ELSE 0)
  <2>1. ASSUME NEW w \in Vals
        PROVE  /\ r[w] \in Nat /\ held[w] \in Nat /\ InStore(w) \in Nat
               /\ Cardinality(OthersPin(t, w)) \in Nat
               /\ r[w] = held[w] + InStore(w) + Cardinality(OthersPin(t, w))
               /\ refs[w] = r[w] + (IF prev[t] = w THEN 1 ELSE 0)
    <3>1. /\ Cardinality(OthersPin(t, w)) \in Nat
          /\ refs[w] = held[w] + InStore(w) + Cardinality(OthersPin(t, w))
                       + (IF prev[t] = w THEN 1 ELSE 0)
      BY <1>0, CountSplit
    <3>2. r[w] \in Nat /\ r[w] = held[w] + InStore(w) + Cardinality(OthersPin(t, w))
      BY DEF WithoutOwnPin
    <3>3. held[w] \in Nat /\ InStore(w) \in Nat
      BY DEF TypeOK, InStore
    <3> QED
      BY <3>1, <3>2, <3>3
  <2> QED
    BY <2>1
<1>4. RefCount'
  <2>1. ASSUME NEW w \in Vals
        PROVE  refs'[w] = held'[w] + InStore(w)' + Cardinality(Pins(w)')
    <3>1. Cardinality(Pins(w)') = Cardinality(OthersPin(t, w)) + (IF None = w THEN 1 ELSE 0)
      BY <1>1, CountJoin DEF TypeOK
    <3>2. None # w
      BY NoneAssumption
    <3> QED
      BY <3>1, <3>2, <1>1, <1>2, <1>3
  <2> QED
    BY <2>1 DEF RefCount
<1>5. Distinct' /\ HashTells' /\ PrevTells' /\ CurTells' /\ CurDiffers'
  BY <1>0, <1>1, <1>2 DEF Distinct, HashTells, PrevTells, CurTells, CurDiffers
<1>6. VictimTells' /\ VictimDiffers' /\ QuietTells'
  <2>1. VictimTells'
    <3>1. ASSUME NEW u \in Threads, victim[u] # None
          PROVE  r[victim[u]] = 0
      <4>1. victim[u] \in Vals /\ refs[victim[u]] = 0
        BY <3>1, <1>0 DEF VictimTells, TypeOK
      <4> QED
        BY <4>1, <1>3
    <3> QED
      BY <3>1, <1>0, <1>1 DEF VictimTells
  <2>2. VictimDiffers' /\ QuietTells'
    BY <1>0, <1>1 DEF VictimDiffers, QuietTells
  <2> QED
    BY <2>1, <2>2
<1>7. ReferredIsLive'
  BY <1>0, <1>1, <1>3 DEF ReferredIsLive
<1>8. LiveTells'
  <2>1. ASSUME NEW w \in Vals, refs[w] > 0
        PROVE  r[w] > 0
    <3>1. prev[t] = w => InStore(w) = 1
      BY <1>0, NoneAssumption DEF PrevTells, InStore
    <3> QED
      BY <2>1, <3>1, <1>3
  <2> QED
    BY <2>1, <1>0, <1>1 DEF LiveTells
<1>9. refs' \in [Vals -> Nat]
  BY <1>1 DEF WithoutOwnPin
<1> QED
  BY <1>4, <1>5, <1>6, <1>7, <1>8, <1>9 DEF Good

\* A call of ensure_space ends at its first eviction, or fz_store_item gives up.
LEMMA StartOrGiveUp ==
    ASSUME TypeOK, Good, NEW t \in Threads, NEW r, WithoutOwnPin(t, r), NEW tofree \in Nat,
           StartWalk(t, r, tofree) \/ GiveUp(t, r, tofree),
           victim[t] = None, cur[t] # None,
           UNCHANGED <<clientVars, newSize, tableSize, closed, undefined>>
    PROVE  IInv'
<1>0. held' = held /\ status' = status
  BY DEF clientVars
<1>1. CASE GiveUp(t, r, tofree)
  <2>1. Good' /\ refs' \in [Vals -> Nat]
    BY <1>0, <1>1, GiveUpKeeps
  <2>2. /\ prev' \in [Threads -> Vals \cup {None}] /\ cur' \in [Threads -> Vals \cup {None}]
        /\ pc' \in [Threads -> Operations]
        /\ UNCHANGED <<list, size, hash, victim>>
    BY <1>1 DEF GiveUp, TypeOK, Operations
  <2>3. /\ need' \in [Threads -> Nat] /\ count' \in [Threads -> Nat]
        /\ freed' \in [Threads -> Nat]
    BY <1>1 DEF GiveUp, TypeOK
  <2>4. TypeOK'
    BY <1>0, <2>1, <2>2, <2>3 DEF TypeOK
  <2> QED
    BY <2>1, <2>4 DEF IInv
<1>2. CASE StartWalk(t, r, tofree)
  <2>1. PICK i \in LastUnused(r, Len(list)) :
          /\ EvictPinned(t, r, i)
          /\ count' = [count EXCEPT ![t] = Size[list[i]]]
    BY <1>2 DEF StartWalk
  <2>2. /\ need' = [need EXCEPT ![t] = tofree] /\ pc' = [pc EXCEPT ![t] = "store"]
        /\ cur' = cur
    BY <1>2 DEF StartWalk
  <2>3. Len(list) \in 0 .. Len(list)
    BY DEF TypeOK
  <2>4. /\ Good'
        /\ list' \in Seq(Vals) /\ size' \in Int
        /\ hash' \in [Hashed -> Vals \cup {None}]
        /\ refs' \in [Vals -> Nat]
        /\ {prev', victim'} \subseteq [Threads -> Vals \cup {None}]
        /\ pc' \in [Threads -> Operations]
        /\ freed' \in [Threads -> Nat]
        /\ Size[list[i]] \in Nat
    BY <1>0, <2>1, <2>2, <2>3, PinnedKeeps
  <2>5. count' \in [Threads -> Nat] /\ need' \in [Threads -> Nat]
    <3>1. count \in [Threads -> Nat] /\ need \in [Threads -> Nat]
      BY DEF TypeOK
    <3> QED
      BY <3>1, <2>1, <2>2, <2>4
  <2>6. TypeOK'
    <3>1. {cur', prev', victim'} \subseteq [Threads -> Vals \cup {None}]
      BY <2>2, <2>4 DEF TypeOK
    <3>2. {need', count', freed', newSize'} \subseteq [Threads -> Nat]
      BY <2>4, <2>5 DEF TypeOK
    <3> QED
      BY <1>0, <2>4, <3>1, <3>2 DEF TypeOK
  <2> QED
    BY <2>4, <2>6 DEF IInv
<1> QED
  BY <1>1, <1>2

LEMMA StoreStep ==
    ASSUME TypeOK, Good, NEW t \in Threads, Store(t)
    PROVE  IInv'
<1> DEFINE v == cur[t]
<1>1. /\ pc[t] = "begin" /\ v \in Vals /\ v # None /\ victim[t] = None
      /\ v \notin Stored
  BY NoneAssumption DEF Store, Good, CurTells, QuietTells, TypeOK
<1>2. /\ status' = status /\ tableSize' = tableSize /\ closed' = closed
      /\ undefined' = undefined
  BY DEF Store
<1>3. Size[v] \in Nat /\ Size[v] \in Int /\ size \in Int /\ MaxSize \in Int
  BY <1>1, SizesAssumption DEF TypeOK
<1>4. CASE Insert(t, v) /\ MustGrow(v)
  <2>1. /\ UNCHANGED <<refs, held, list, hash, cur, prev, victim, need, count, freed>>
        /\ size' = size + Size[v]
        /\ pc' = [pc EXCEPT ![t] = "resize"]
        /\ newSize' = [newSize EXCEPT ![t] = 2 * tableSize]
    BY <1>4 DEF Insert
  <2>2. \A u \in Threads : pc'[u] = IF u = t THEN "resize" ELSE pc[u]
    BY <2>1 DEF TypeOK
  <2>3. CurTells' /\ QuietTells'
    <3>1. Stored' = Stored
      BY <2>1 DEF Stored
    <3>2. CurTells'
      BY <1>1, <2>1, <2>2, <3>1 DEF Good, CurTells
    <3>3. QuietTells'
      BY <1>1, <1>2, <2>1, <2>2 DEF Good, QuietTells
    <3> QED
      BY <3>2, <3>3
  <2>4. \A u \in Threads : prev[u] # None => pc'[u] = "store"
    BY <1>1, <2>2 DEF Good, PrevTells
  <2>5. Good'
    BY <1>2, <2>1, <2>3, <2>4, QuietKeeps
  <2>6. TypeOK'
    <3>1. size' \in Int
      BY <1>3, <2>1
    <3>2. newSize' \in [Threads -> Nat]
      <4>1. 2 * tableSize \in Nat /\ newSize \in [Threads -> Nat]
        BY DEF TypeOK
      <4> QED
        BY <4>1, <2>1
    <3>3. pc' \in [Threads -> Operations]
      BY <2>1 DEF TypeOK, Operations
    <3> QED
      BY <1>2, <2>1, <3>1, <3>2, <3>3 DEF TypeOK
  <2> QED
    BY <2>5, <2>6 DEF IInv
<1>5. CASE Insert(t, v) /\ ~MustGrow(v)
  <2>1. /\ Link(t, cur[t])
        /\ UNCHANGED <<prev, victim, need, count, freed, newSize>>
        /\ size' = size + Size[v]
    BY <1>5 DEF Insert
  <2>2. /\ Good' /\ list' \in Seq(Vals)
        /\ hash' \in [Hashed -> Vals \cup {None}]
        /\ refs' \in [Vals -> Nat] /\ held' \in [Vals -> Nat]
        /\ pc' \in [Threads -> Operations]
        /\ cur' \in [Threads -> Vals \cup {None}]
    BY <1>1, <1>2, <2>1, LinkKeeps
  <2>3. size' \in Int
    BY <1>3, <2>1
  <2>4. TypeOK'
    BY <1>2, <2>1, <2>2, <2>3 DEF TypeOK
  <2> QED
    BY <2>2, <2>4 DEF IInv
<1>6. CASE InsertIntoFull(t, v)
  <2> DEFINE tofree == size + Size[v] - MaxSize
  <2>1. /\ StartWalk(t, refs, tofree) \/ GiveUp(t, refs, tofree)
        /\ size + Size[v] > MaxSize
        /\ UNCHANGED <<held, newSize>>
    BY <1>6 DEF InsertIntoFull
  <2>2. tofree \in Nat
    BY <1>3, <2>1
  <2> HIDE DEF tofree
  <2>3. WithoutOwnPin(t, refs)
    BY <1>1, NoPin
  <2> QED
    BY <1>1, <1>2, <2>1, <2>2, <2>3, StartOrGiveUp DEF clientVars
<1> QED
  BY <1>4, <1>5, <1>6 DEF Store

LEMMA EnsureSpaceStep ==
    ASSUME TypeOK, Good, NEW t \in Threads, EnsureSpace(t)
    PROVE  IInv'
<1> DEFINE from == {i \in DOMAIN list : list[i] = prev[t] /\ count[t] < need[t]}
           n == IF from = {} THEN 0 ELSE CHOOSE i \in from : TRUE
           r == Unpinned(t)
<1>1. /\ pc[t] = "store" /\ victim[t] = None
      /\ UNCHANGED <<clientVars, newSize, tableSize, closed, undefined>>
      /\ \/ WalkOn(t, r, n)
         \/ StartWalk(t, r, need[t]) \/ GiveUp(t, r, need[t])
  BY DEF EnsureSpace
<1>2. cur[t] # None
  BY <1>1 DEF Good, CurTells
<1>3. WithoutOwnPin(t, r)
  BY UnpinnedIs
<1>4. need[t] \in Nat
  BY DEF TypeOK
<1>5. n \in 0 .. Len(list)
  <2>1. from \subseteq 1 .. Len(list)
    BY DEF TypeOK
  <2>2. CASE from = {}
    BY <2>2 DEF TypeOK
  <2>3. CASE from # {}
    <3>1. n \in from
      BY <2>3
    <3> QED
      BY <3>1, <2>1
  <2> QED
    BY <2>2, <2>3
<1> HIDE DEF r, n
<1>6. CASE WalkOn(t, r, n)
  <2>1. PICK i \in LastUnused(r, n) :
          /\ EvictPinned(t, r, i)
          /\ count' = [count EXCEPT ![t] = @ + Size[list[i]]]
    BY <1>6 DEF WalkOn
  <2>2. pc' = [pc EXCEPT ![t] = "store"] /\ cur' = cur /\ need' = need
    BY <1>6 DEF WalkOn
  <2>3. held' = held /\ status' = status
    BY <1>1 DEF clientVars
  <2>4. /\ Good'
        /\ list' \in Seq(Vals) /\ size' \in Int
        /\ hash' \in [Hashed -> Vals \cup {None}]
        /\ refs' \in [Vals -> Nat]
        /\ {prev', victim'} \subseteq [Threads -> Vals \cup {None}]
        /\ pc' \in [Threads -> Operations]
        /\ freed' \in [Threads -> Nat]
        /\ Size[list[i]] \in Nat
    BY <1>1, <1>2, <1>3, <1>5, <2>1, <2>2, <2>3, PinnedKeeps
  <2>5. count' \in [Threads -> Nat]
    <3>1. count \in [Threads -> Nat]
      BY DEF TypeOK
    <3>2. count[t] + Size[list[i]] \in Nat
      BY <3>1, <2>4
    <3> QED
      BY <3>1, <3>2, <2>1
  <2>6. TypeOK'
    BY <1>1, <2>2, <2>3, <2>4, <2>5, SMTT(30) DEF TypeOK
  <2> QED
    BY <2>4, <2>6 DEF IInv
<1>7. CASE StartWalk(t, r, need[t]) \/ GiveUp(t, r, need[t])
  BY <1>1, <1>2, <1>3, <1>4, <1>7, StartOrGiveUp
<1> QED
  BY <1>1, <1>6, <1>7

LEMMA ResizeStep ==
    ASSUME TypeOK, Good, NEW t \in Threads, Resize(t)
    PROVE  IInv'
<1>1. /\ UNCHANGED <<refs, list, hash, size, status, held, cur, prev, victim, need, count,
                      freed, newSize, closed, undefined>>
      /\ pc[t] = "resize" /\ tableSize' = newSize[t]
      /\ \A u \in Threads : pc'[u] = IF u = t THEN "link" ELSE pc[u]
      /\ pc' \in [Threads -> Operations]
  BY DEF Resize, storeVars, clientVars, TypeOK, Operations
<1>2. CurTells' /\ QuietTells'
  <2>1. Stored' = Stored
    BY <1>1 DEF Stored
  <2>2. CurTells'
    BY <1>1, <2>1 DEF Good, CurTells
  <2>3. QuietTells'
    BY <1>1 DEF Good, QuietTells
  <2> QED
    BY <2>2, <2>3
<1>3. \A u \in Threads : prev[u] # None => pc'[u] = "store"
  BY <1>1 DEF Good, PrevTells
<1>4. Good'
  BY <1>1, <1>2, <1>3, QuietKeeps
<1>5. newSize[t] \in Nat
  BY DEF TypeOK
<1>6. TypeOK'
  BY <1>1, <1>5 DEF TypeOK
<1> QED
  BY <1>4, <1>6 DEF IInv

LEMMA LinkResizedStep ==
    ASSUME TypeOK, Good, NEW t \in Threads, LinkResized(t)
    PROVE  IInv'
<1>1. /\ pc[t] = "link" /\ Link(t, cur[t])
      /\ UNCHANGED <<size, status, prev, victim, need, count, freed, newSize, tableSize,
                      closed, undefined>>
  BY DEF LinkResized
<1>2. /\ Good' /\ list' \in Seq(Vals)
      /\ hash' \in [Hashed -> Vals \cup {None}]
      /\ refs' \in [Vals -> Nat] /\ held' \in [Vals -> Nat]
      /\ pc' \in [Threads -> Operations]
      /\ cur' \in [Threads -> Vals \cup {None}]
  BY <1>1, LinkKeeps
<1>3. TypeOK'
  BY <1>1, <1>2 DEF TypeOK
<1> QED
  BY <1>2, <1>3 DEF IInv

-----------------------------------------------------------------------------
(***************************************************************************)
(* Evictions that pin nothing, and closing.                                *)
(***************************************************************************)
\* Evict without a pin, by a thread that pins nothing.
LEMMA PlainEvict ==
    ASSUME TypeOK, Good, NEW t \in Threads, NEW i \in 1 .. Len(list), Evict(t, refs, i),
           NEW x \in {"scavenge", "empty"}, pc' = [pc EXCEPT ![t] = x], x = "empty" => closed,
           pc[t] # "store", cur[t] = None, victim[t] = None, OthersPin(t, list[i]) = {},
           UNCHANGED <<clientVars, cur, prev, need, count, freed, newSize, tableSize, closed,
                       undefined>>
    PROVE  IInv'
<1>1. prev[t] = None /\ WithoutOwnPin(t, refs)
  BY NoPin
<1>2. CutOut(t, refs, i) /\ size' \in Int
  BY EvictCuts
<1>3. prev' = [prev EXCEPT ![t] = None]
  BY <1>1 DEF TypeOK
<1>4. \A w \in Vals : refs[w] = held[w] + InStore(w) + Cardinality(OthersPin(t, w))
                                + (IF None = w THEN 1 ELSE 0)
  <2>1. ASSUME NEW w \in Vals
        PROVE  refs[w] = held[w] + InStore(w) + Cardinality(OthersPin(t, w))
                         + (IF None = w THEN 1 ELSE 0)
    <3>1. refs[w] = held[w] + InStore(w) + Cardinality(OthersPin(t, w))
      BY <1>1 DEF WithoutOwnPin
    <3>2. None # w /\ refs[w] \in Nat
      BY NoneAssumption DEF TypeOK
    <3> QED
      BY <3>1, <3>2
  <2> QED
    BY <2>1
<1>5. refs \in [Vals -> Nat] /\ held' = held /\ status' = status
  BY DEF TypeOK, clientVars
<1>6. /\ Good'
      /\ list' \in Seq(Vals) /\ Len(list') = Len(list) - 1
      /\ hash' \in [Hashed -> Vals \cup {None}]
      /\ refs' \in [Vals -> Nat]
      /\ victim' \in [Threads -> Vals \cup {None}]
  <2>1. /\ None \in Vals \cup {None} /\ x \in {"idle", "store", "scavenge", "empty"}
        /\ cur[t] # None <=> x = "store"
        /\ (None # None => None \in Stored /\ None # list[i] /\ x = "store")
        /\ UNCHANGED <<held, status, cur, closed>>
    BY <1>5
  <2> QED
    BY <1>2, <1>3, <1>4, <1>5, <2>1, CutKeeps, ZenonT(60)
<1>7. TypeOK'
  <2>1. pc' \in [Threads -> Operations]
    BY DEF TypeOK, Operations
  <2> QED
    BY <1>2, <1>5, <1>6, <2>1 DEF TypeOK
<1> QED
  BY <1>6, <1>7 DEF IInv

LEMMA ScavengeStep ==
    ASSUME TypeOK, Good, NEW t \in Threads, Scavenge(t)
    PROVE  IInv'
<1>1. /\ pc[t] \in {"idle", "scavenge"} /\ victim[t] = None
      /\ pc' = [pc EXCEPT ![t] = "scavenge"]
      /\ UNCHANGED <<clientVars, cur, prev, need, count, freed, newSize, tableSize, closed,
                      undefined>>
  BY DEF Scavenge
<1>2. PICK i \in LastUnused(refs, Len(list)) : Evict(t, refs, i)
  BY DEF Scavenge
<1>3. cur[t] = None
  BY <1>1 DEF Good, CurTells
<1>4. WithoutOwnPin(t, refs)
  BY <1>1, NoPin
<1>5. Len(list) \in 0 .. Len(list)
  BY DEF TypeOK
<1>6. i \in 1 .. Len(list) /\ OthersPin(t, list[i]) = {}
  BY <1>2, <1>4, <1>5, Unused
<1> QED
  BY <1>1, <1>2, <1>3, <1>6, PlainEvict

LEMMA EndScavengeStep ==
    ASSUME TypeOK, Good, NEW t \in Threads, EndScavenge(t)
    PROVE  IInv'
<1>1. /\ UNCHANGED <<refs, list, hash, size, status, held, cur, prev, victim, need, count,
                      freed, newSize, tableSize, closed, undefined>>
      /\ pc[t] = "scavenge"
      /\ \A u \in Threads : pc'[u] = IF u = t THEN "idle" ELSE pc[u]
      /\ pc' \in [Threads -> Operations]
  BY DEF EndScavenge, storeVars, clientVars, TypeOK, Operations
<1>2. CurTells' /\ QuietTells'
  <2>1. Stored' = Stored
    BY <1>1 DEF Stored
  <2>2. CurTells'
    BY <1>1, <2>1 DEF Good, CurTells
  <2>3. QuietTells'
    BY <1>1 DEF Good, QuietTells
  <2> QED
    BY <2>2, <2>3
<1>3. \A u \in Threads : prev[u] # None => pc'[u] = "store"
  BY <1>1 DEF Good, PrevTells
<1>4. Good'
  BY <1>1, <1>2, <1>3, QuietKeeps
<1>5. TypeOK'
  BY <1>1 DEF TypeOK
<1> QED
  BY <1>4, <1>5 DEF IInv

LEMMA CloseStep ==
    ASSUME TypeOK, Good, NEW t \in Threads, Close(t)
    PROVE  IInv'
<1>1. /\ UNCHANGED <<refs, list, hash, size, status, held, cur, prev, victim, need, count,
                      freed, newSize, tableSize, undefined>>
      /\ closed' = TRUE /\ \A u \in Threads : pc[u] = "idle" /\ victim[u] = None
      /\ \A u \in Threads : pc'[u] = IF u = t THEN "empty" ELSE pc[u]
      /\ pc' \in [Threads -> Operations]
  BY DEF Close, Ready, storeVars, clientVars, TypeOK, Operations
<1>2. CurTells' /\ QuietTells'
  <2>1. \A u \in Threads : cur[u] = None
    BY <1>1 DEF Good, CurTells
  <2>2. CurTells'
    BY <1>1, <2>1 DEF CurTells
  <2>3. QuietTells'
    BY <1>1, <2>1 DEF QuietTells
  <2> QED
    BY <2>2, <2>3
<1>3. \A u \in Threads : prev[u] # None => pc'[u] = "store"
  BY <1>1 DEF Good, PrevTells
<1>4. Good'
  BY <1>1, <1>2, <1>3, QuietKeeps
<1>5. TypeOK'
  BY <1>1 DEF TypeOK
<1> QED
  BY <1>4, <1>5 DEF IInv

LEMMA EmptyStep ==
    ASSUME TypeOK, Good, NEW t \in Threads, Empty(t)
    PROVE  IInv'
<1>1. /\ pc[t] = "empty" /\ victim[t] = None /\ closed
      /\ \A u \in Threads : cur[u] = None /\ prev[u] = None
      /\ UNCHANGED <<clientVars, cur, prev, need, count, freed, newSize, tableSize, closed,
                      undefined>>
  BY DEF Empty, Good, QuietTells, CurTells, PrevTells
<1>2. CASE list # <<>>
  <2>1. Evict(t, refs, 1) /\ pc' = pc
    BY <1>2 DEF Empty
  <2>2. 1 \in 1 .. Len(list)
    BY <1>2 DEF TypeOK
  <2>3. list[1] \in Vals
    BY <2>2, ListMember
  <2>4. OthersPin(t, list[1]) = {}
    BY <1>1, <2>3, NoneAssumption DEF OthersPin
  <2>5. pc' = [pc EXCEPT ![t] = "empty"]
    BY <1>1, <2>1 DEF TypeOK
  <2>6. pc[t] # "store" /\ cur[t] = None
    BY <1>1
  <2> QED
    BY <1>1, <2>1, <2>2, <2>4, <2>5, <2>6, PlainEvict
<1>3. CASE list = <<>>
  <2>1. /\ UNCHANGED <<refs, list, hash, size, status, held, cur, prev, victim, need, count,
                        freed, newSize, tableSize, closed, undefined>>
        /\ \A u \in Threads : pc'[u] = IF u = t THEN "idle" ELSE pc[u]
        /\ pc' \in [Threads -> Operations]
    BY <1>3 DEF Empty, storeVars, clientVars, TypeOK, Operations
  <2>2. CurTells' /\ QuietTells'
    <3>1. CurTells'
      BY <1>1, <2>1 DEF Good, CurTells
    <3>2. QuietTells'
      BY <1>1, <2>1 DEF Good, QuietTells
    <3> QED
      BY <3>1, <3>2
  <2>3. \A u \in Threads : prev[u] # None => pc'[u] = "store"
    BY <1>1
  <2>4. Good'
    BY <2>1, <2>2, <2>3, QuietKeeps
  <2>5. TypeOK'
    BY <2>1 DEF TypeOK
  <2> QED
    BY <2>4, <2>5 DEF IInv
<1> QED
  BY <1>2, <1>3

LEMMA RemoveItemStep ==
    ASSUME TypeOK, Good, NEW t \in Threads, NEW k \in Keys, RemoveItem(t, k)
    PROVE  IInv'
<1>1. /\ pc[t] = "idle" /\ victim[t] = None
      /\ UNCHANGED <<size, clientVars, pc, cur, prev, need, count, freed, newSize, tableSize,
                      closed>>
  BY DEF RemoveItem, Ready
<1>2. PICK i \in 1 .. Len(list) :
        /\ CutOut(t, refs, i)
        /\ undefined' = \E u \in Threads : prev[u] = list[i]
  <2>1. PICK i \in Matches(k) :
          /\ list' = RemoveAt(list, i)
          /\ hash' = HashWithout(list[i])
          /\ refs' = [refs EXCEPT ![list[i]] = @ - 1]
          /\ victim' = IF refs[list[i]] = 1 THEN [victim EXCEPT ![t] = list[i]] ELSE victim
          /\ undefined' = \E u \in Threads : prev[u] = list[i]
    BY DEF RemoveItem
  <2>2. i \in 1 .. Len(list)
    BY MatchesInList
  <2> QED
    BY <2>1, <2>2 DEF CutOut
<1> DEFINE v == list[i]
<1>3. prev[t] = None /\ WithoutOwnPin(t, refs)
  BY <1>1, NoPin
<1>4. v \in Vals /\ v \in Stored
  BY ListMember
<1>5. refs[v] >= 1
  <2>1. /\ refs[v] = held[v] + InStore(v) + Cardinality(Pins(v))
        /\ held[v] \in Nat /\ Cardinality(Pins(v)) \in Nat
    BY <1>4, ThreadsAssumption, FS_Subset, FS_CardinalityType DEF Good, RefCount, Pins, TypeOK
  <2>2. InStore(v) = 1
    BY <1>4 DEF InStore
  <2> HIDE DEF v
  <2> QED
    BY <2>1, <2>2
<1>6. /\ list' \in Seq(Vals)
      /\ hash' \in [Hashed -> Vals \cup {None}]
      /\ refs' \in [Vals -> Nat]
      /\ victim' \in [Threads -> Vals \cup {None}]
  <2>1. Distinct /\ refs \in [Vals -> Nat]
    BY DEF Good, TypeOK
  <2> QED
    BY <1>2, <1>5, <2>1, CutEffect
<1>7. TypeOK'
  BY <1>1, <1>2, <1>6, ZenonT(60) DEF TypeOK, clientVars
<1>8. CASE \E u \in Threads : prev[u] = v
  BY <1>2, <1>7, <1>8 DEF IInv
<1>9. CASE ~ \E u \in Threads : prev[u] = v
  <2>1. OthersPin(t, list[i]) = {}
    BY <1>9 DEF OthersPin
  <2>2. prev' = [prev EXCEPT ![t] = None] /\ pc' = [pc EXCEPT ![t] = "idle"]
    BY <1>1, <1>3 DEF TypeOK
  <2>3. \A w \in Vals : refs[w] = held[w] + InStore(w) + Cardinality(OthersPin(t, w))
                                  + (IF None = w THEN 1 ELSE 0)
    <3>1. ASSUME NEW w \in Vals
          PROVE  refs[w] = held[w] + InStore(w) + Cardinality(OthersPin(t, w))
                           + (IF None = w THEN 1 ELSE 0)
      <4>1. refs[w] = held[w] + InStore(w) + Cardinality(OthersPin(t, w))
        BY <1>3 DEF WithoutOwnPin
      <4>2. None # w /\ refs[w] \in Nat
        BY NoneAssumption DEF TypeOK
      <4> QED
        BY <4>1, <4>2
    <3> QED
      BY <3>1
  <2>4. refs \in [Vals -> Nat] /\ held' = held /\ status' = status /\ cur[t] = None
    BY <1>1 DEF TypeOK, clientVars, Good, CurTells
  <2>5. UNCHANGED <<held, status, cur, closed>> /\ (cur[t] # None <=> "idle" = "store")
    BY <1>1, <2>4
  <2>6. Good'
    <3>1. /\ None \in Vals \cup {None} /\ "idle" \in {"idle", "store", "scavenge", "empty"}
          /\ (None # None => None \in Stored /\ None # list[i] /\ "idle" = "store")
          /\ ("idle" = "empty" => closed)
      OBVIOUS
    <3>2. CutOut(t, refs, i) /\ victim[t] = None
      BY <1>1, <1>2
    <3> QED
      BY <2>1, <2>2, <2>3, <2>4, <2>5, <3>1, <3>2, CutKeeps
  <2> QED
    BY <1>7, <2>6 DEF IInv
<1> QED
  BY <1>8, <1>9

-----------------------------------------------------------------------------
LEMMA NextKeeps == IInv /\ [Next]_vars => IInv'
<1> SUFFICES ASSUME IInv, [Next]_vars
             PROVE  IInv'
  OBVIOUS
<1>1. CASE UNCHANGED vars
  <2>1. /\ UNCHANGED <<refs, list, hash, size, status, held, tableSize, closed, undefined>>
        /\ UNCHANGED <<pc, cur, prev, victim, need, count, freed, newSize>>
    BY <1>1 DEF vars, storeVars, clientVars, threadVars
  <2>2. TypeOK'
    BY <2>1 DEF IInv, TypeOK
  <2>3. CASE undefined
    BY <2>1, <2>2, <2>3 DEF IInv
  <2>4. CASE Good
    <3>1. Stored' = Stored
      BY <2>1 DEF Stored
    <3>2. CurTells' /\ QuietTells'
      BY <2>1, <2>4, <3>1 DEF Good, CurTells, QuietTells
    <3>3. \A t \in Threads : prev[t] # None => pc'[t] = "store"
      BY <2>1, <2>4 DEF Good, PrevTells
    <3>4. Good'
      BY <2>1, <2>4, <3>2, <3>3, QuietKeeps DEF IInv
    <3> QED
      BY <2>2, <3>4 DEF IInv
  <2> QED
    BY <2>3, <2>4 DEF IInv
<1>2. CASE Next
  <2>1. TypeOK /\ Good
    BY <1>2 DEF Next, IInv
  <2>2. CASE \E v \in Vals : Keep(v)
    BY <2>1, <2>2, KeepStep
  <2>3. ASSUME NEW t \in Threads, Step(t)
        PROVE  IInv'
    <3>1. CASE ResizeFails(t)
      <4>1. TypeOK' /\ undefined'
        BY <2>1, <3>1 DEF ResizeFails, TypeOK, storeVars, clientVars, threadVars
      <4> QED
        BY <4>1 DEF IInv
    <3> QED
      BY <2>1, <2>3, <3>1, StoreStep, EnsureSpaceStep, ResizeStep, LinkResizedStep,
         EndScavengeStep, EmptyStep, FreeVictimStep DEF Step
  <2>4. ASSUME NEW t \in Threads, Call(t)
        PROVE  IInv'
    BY <2>1, <2>4, CreateStep, DropStep, FindStep, RemoveItemStep, ScavengeStep, CloseStep
       DEF Call
  <2> QED
    BY <1>2, <2>2, <2>3, <2>4 DEF Next
<1> QED
  BY <1>1, <1>2

LEMMA Invariance == Spec => []IInv
BY InitHolds, NextKeeps, PTL DEF Spec

\* The type invariant of the store.
THEOREM TypeCorrect == Spec => []TypeOK
<1>1. IInv => TypeOK
  BY DEF IInv
<1> QED
  BY <1>1, Invariance, PTL

\* Keeping, dropping, storing, finding, removing and evicting leave each reference count at what
\* clients, store and pins make, for every number of threads and objects.
LEMMA RefsAreExact == Spec => []RefsExact
<1>1. IInv => RefsExact
  BY DEF IInv, Good, RefCount, RefsExact, InStore
<1> QED
  BY <1>1, Invariance, PTL

\* No object that is in the store, held or pinned has been freed, and no object is lost or freed
\* twice.
LEMMA NothingDangles == Spec => []LiveIsReferred
<1>1. IInv => LiveIsReferred
  <2> SUFFICES ASSUME IInv, ~undefined, NEW v \in Vals
               PROVE  status[v] = "live" <=>
                        refs[v] > 0 \/ Cardinality({t \in Threads : victim[t] = v}) = 1
    BY DEF LiveIsReferred
  <2>1. TypeOK /\ Good
    BY DEF IInv
  <2>2. ASSUME NEW t \in Threads, victim[t] = v
        PROVE  {u \in Threads : victim[u] = v} = {t}
    BY <2>1, <2>2, NoneAssumption DEF Good, VictimDiffers
  <2>3. ASSUME Cardinality({u \in Threads : victim[u] = v}) = 1
        PROVE  \E t \in Threads : victim[t] = v
    <3>1. {u \in Threads : victim[u] = v} # {}
      BY <2>3, FS_EmptySet
    <3> QED
      BY <3>1
  <2>4. ASSUME NEW t \in Threads, victim[t] = v
        PROVE  status[v] = "live" /\ Cardinality({u \in Threads : victim[u] = v}) = 1
    <3>1. status[v] = "live"
      BY <2>1, <2>4, NoneAssumption DEF Good, VictimTells
    <3>2. Cardinality({t}) = 1
      BY FS_Singleton
    <3> QED
      BY <2>2, <2>4, <3>1, <3>2
  <2>5. /\ refs[v] > 0 => status[v] = "live"
        /\ status[v] = "live" => refs[v] > 0 \/ \E t \in Threads : victim[t] = v
    BY <2>1 DEF Good, ReferredIsLive, LiveTells
  <2> QED
    BY <2>3, <2>4, <2>5
<1> QED
  BY <1>1, Invariance, PTL

\* Reference counts are exact and decide what is alive, for every number of threads, objects, keys
\* and sizes, whatever is evicted, removed or scavenged meanwhile.
THEOREM ReferencesKeepAlive == Spec => []RefsKeepAlive
<1>1. RefsExact /\ LiveIsReferred => RefsKeepAlive
  BY DEF RefsKeepAlive
<1> QED
  BY <1>1, RefsAreExact, NothingDangles, PTL

\* The hash table and the list hold the same items although the lock is given up in between.
THEOREM HashAgrees == Spec => []HashIsTheList
<1>1. IInv => HashIsTheList
  <2> SUFFICES ASSUME IInv, ~undefined, NEW k \in Hashed
               PROVE  {v \in Stored : KeyOf[v] = k} = {hash[k]} \ {None}
    BY DEF HashIsTheList
  <2>1. TypeOK /\ Good
    BY DEF IInv
  <2>2. Stored \subseteq Vals
    <3>1. list \in Seq(Vals)
      BY <2>1 DEF TypeOK
    <3>2. \A x \in ToSet(list) : \E i \in 1 .. Len(list) : list[i] = x
      BY <3>1, Members
    <3> QED
      BY <3>1, <3>2 DEF Stored
  <2>3. hash[k] \in Vals \cup {None}
    BY <2>1 DEF TypeOK
  <2>4. \A v \in Vals : hash[k] = v <=> v \in Stored /\ KeyOf[v] = k
    BY <2>1 DEF Good, HashTells
  <2> QED
    BY <2>2, <2>3, <2>4, NoneAssumption
<1> QED
  BY <1>1, Invariance, PTL

\* The item at which a thread has stopped its walk is there when it takes the lock again.
THEOREM PinnedStaysStored == Spec => []PinnedIsStored
<1>1. IInv => PinnedIsStored
  BY DEF IInv, Good, PrevTells, PinnedIsStored
<1> QED
  BY <1>1, Invariance, PTL

LEMMA HeldOrStoredIsLive ==
    ASSUME TypeOK, Good, NEW v \in Vals, held[v] > 0 \/ v \in Stored
    PROVE  status[v] = "live"
<1>1. /\ refs[v] = held[v] + InStore(v) + Cardinality(Pins(v))
      /\ held[v] \in Nat /\ Cardinality(Pins(v)) \in Nat /\ InStore(v) \in Nat
  BY ThreadsAssumption, FS_Subset, FS_CardinalityType
     DEF Good, RefCount, Pins, TypeOK, InStore
<1>2. v \in Stored => InStore(v) = 1
  BY DEF InStore
<1>3. refs[v] > 0
  BY <1>1, <1>2
<1> QED
  BY <1>3 DEF Good, ReferredIsLive

\* A thread that links what it stores takes a reference to what is there already, or shows nothing.
LEMMA LinkImplements ==
    ASSUME TypeOK, Good, NEW t \in Threads, Link(t, cur[t]), status' = status
    PROVE  StorableImpl!Next \/ UNCHANGED StorableImpl!vars
<1> DEFINE e == Existing(cur[t])
<1>1. CASE e = None
  BY <1>1 DEF Link, StorableImpl!vars
<1>2. CASE e # None
  <2>1. e \in Vals /\ e \in Stored
    <3>1. e = hash[KeyOf[cur[t]]] /\ KeyOf[cur[t]] \in Hashed
      BY <1>2 DEF Existing
    <3>2. e \in Vals
      BY <3>1, <1>2 DEF TypeOK
    <3> QED
      BY <3>1, <3>2 DEF Good, HashTells
  <2>2. held' = [held EXCEPT ![e] = @ + 1]
    BY <1>2 DEF Link
  <2> HIDE DEF e
  <2>3. status[e] = "live"
    BY <2>1, HeldOrStoredIsLive
  <2>4. StorableImpl!Take(e)
    BY <2>2, <2>3 DEF StorableImpl!Take
  <2> QED
    BY <2>1, <2>4 DEF StorableImpl!Next
<1> QED
  BY <1>1, <1>2

LEMMA StepImplements ==
    ASSUME TypeOK, Good, NEW t \in Threads, Step(t)
    PROVE  StorableImpl!Next \/ UNCHANGED StorableImpl!vars
<1>1. CASE Store(t)
  <2>1. status' = status
    BY <1>1 DEF Store
  <2>2. CASE Insert(t, cur[t])
    BY <2>1, <2>2, LinkImplements DEF Insert, StorableImpl!vars
  <2>3. CASE InsertIntoFull(t, cur[t])
    BY <2>1, <2>3 DEF InsertIntoFull, StorableImpl!vars
  <2> QED
    BY <1>1, <2>2, <2>3 DEF Store
<1>2. CASE LinkResized(t)
  BY <1>2, LinkImplements DEF LinkResized
<1>3. CASE FreeVictim(t)
  <2> DEFINE w == victim[t]
  <2>1. w \in Vals /\ status[w] = "live" /\ refs[w] = 0
    BY <1>3 DEF FreeVictim, TypeOK, Good, VictimTells
  <2>2. held[w] = 0
    <3>1. /\ refs[w] = held[w] + InStore(w) + Cardinality(Pins(w))
          /\ held[w] \in Nat /\ Cardinality(Pins(w)) \in Nat /\ InStore(w) \in Nat
      BY <2>1, ThreadsAssumption, FS_Subset, FS_CardinalityType
         DEF Good, RefCount, Pins, TypeOK, InStore
    <3> HIDE DEF w
    <3> QED
      BY <2>1, <3>1
  <2>3. StorableImpl!Free(w)
    BY <2>1, <2>2, <1>3 DEF FreeVictim, StorableImpl!Free
  <2> QED
    BY <2>1, <2>3 DEF StorableImpl!Next
<1>4. CASE EnsureSpace(t) \/ Resize(t) \/ ResizeFails(t) \/ EndScavenge(t) \/ Empty(t)
  BY <1>4 DEF EnsureSpace, Resize, ResizeFails, EndScavenge, Empty, clientVars,
              StorableImpl!vars
<1> QED
  BY <1>1, <1>2, <1>3, <1>4 DEF Step

LEMMA CallImplements ==
    ASSUME TypeOK, Good, NEW t \in Threads, Call(t)
    PROVE  StorableImpl!Next \/ UNCHANGED StorableImpl!vars
<1>1. ASSUME NEW v \in Vals, Create(t, v)
      PROVE  StorableImpl!Next
  <2>1. StorableImpl!Create(v)
    BY <1>1 DEF Create, StorableImpl!Create
  <2> QED
    BY <2>1 DEF StorableImpl!Next
<1>2. ASSUME NEW v \in Vals, Drop(t, v)
      PROVE  StorableImpl!Next
  <2>1. held[v] > 0
    BY <1>2 DEF Drop, TypeOK
  <2>2. StorableImpl!Drop(v)
    BY <1>2, <2>1 DEF Drop, StorableImpl!Drop
  <2> QED
    BY <2>2 DEF StorableImpl!Next
<1>3. ASSUME NEW k \in Keys, Find(t, k)
      PROVE  StorableImpl!Next
  <2>1. PICK i \in Matches(k) : held' = [held EXCEPT ![list[i]] = @ + 1]
    BY <1>3 DEF Find
  <2>2. list[i] \in Vals /\ list[i] \in Stored
    BY MatchesInList, ListMember
  <2>3. status[list[i]] = "live" /\ status' = status
    BY <1>3, <2>2, HeldOrStoredIsLive DEF Find
  <2>4. StorableImpl!Take(list[i])
    BY <2>1, <2>3 DEF StorableImpl!Take
  <2> QED
    BY <2>2, <2>4 DEF StorableImpl!Next
<1>4. ASSUME NEW k \in Keys, RemoveItem(t, k)
      PROVE  UNCHANGED StorableImpl!vars
  BY <1>4 DEF RemoveItem, clientVars, StorableImpl!vars
<1>5. CASE Scavenge(t) \/ Close(t)
  BY <1>5 DEF Scavenge, Close, clientVars, StorableImpl!vars
<1> QED
  BY <1>1, <1>2, <1>3, <1>4, <1>5 DEF Call

\* Whatever the cache does, its clients see plain reference counting: each step of the store is a
\* step of Storable or does not show.
THEOREM StorableIsImplemented == Spec => ImplementsStorable
<1>1. Init => StorableImpl!Init
  BY DEF Init, StorableImpl!Init
<1>2. IInv /\ [Next]_vars => [StorableImpl!Next]_(StorableImpl!vars)
  <2> SUFFICES ASSUME IInv, [Next]_vars
               PROVE  StorableImpl!Next \/ UNCHANGED StorableImpl!vars
    OBVIOUS
  <2>1. CASE UNCHANGED vars
    BY <2>1 DEF vars, clientVars, StorableImpl!vars
  <2>2. CASE Next
    <3>1. TypeOK /\ Good
      BY <2>2 DEF Next, IInv
    <3>2. ASSUME NEW v \in Vals, Keep(v)
          PROVE  StorableImpl!Next
      <4>1. status[v] = "live"
        <5>1. held[v] > 0
          BY <3>1, <3>2 DEF Keep, TypeOK
        <5> QED
          BY <5>1, <3>1, HeldOrStoredIsLive
      <4>2. StorableImpl!Take(v)
        BY <3>2, <4>1 DEF Keep, StorableImpl!Take
      <4> QED
        BY <4>2 DEF StorableImpl!Next
    <3> QED
      BY <2>2, <3>1, <3>2, StepImplements, CallImplements DEF Next
  <2> QED
    BY <2>1, <2>2
<1> QED
  BY <1>1, <1>2, Invariance, PTL DEF Spec, ImplementsStorable, StorableImpl!Spec

-----------------------------------------------------------------------------
(***************************************************************************)
(* The array of the hash table: looking up finds what has been filed,      *)
(* through any inserting, removing and resizing.                           *)
(*                                                                         *)
(* The slots are a ring, and Far is the distance from one to another on    *)
(* it.  Table says what makes an array a table for a map: no key has two   *)
(* entries, no blank slot is on the way from the home of an entry to the   *)
(* entry, and the entries are the map.  FillInv is the same with one       *)
(* exception, the hole fz_hash_remove is filling.  That there is a blank   *)
(* slot left follows from where the threads are (BlanksLeft).              *)
(***************************************************************************)

\* The ring of slots.
LEMMA Division ==
    ASSUME NEW c \in Nat, NEW n \in Nat \ {0}
    PROVE  c % n \in 0 .. n - 1 /\ c \div n \in Int /\ c = n * (c \div n) + (c % n)
OBVIOUS

LEMMA Multiple ==
    ASSUME NEW q \in Int, NEW n \in Nat \ {0}, q >= 1
    PROVE  n * q >= n
OBVIOUS

LEMMA OneRemainder ==
    ASSUME NEW n \in Nat \ {0}, NEW q \in Int, NEW p \in Int,
           NEW r \in 0 .. n - 1, NEW s \in 0 .. n - 1, n * q + r = n * p + s
    PROVE  r = s
<1>1. n * (q - p) = s - r
  OBVIOUS
<1>2. ~(q - p >= 1)
  BY <1>1, Multiple
<1>3. ~(p - q >= 1)
  <2>1. n * (p - q) = r - s
    OBVIOUS
  <2> QED
    BY <2>1, Multiple
<1> QED
  BY <1>1, <1>2, <1>3

\* How far slot s is behind slot h on a ring of n slots.
Far(n, h, s) == IF h <= s THEN s - h ELSE s - h + n

\* The slot at distance i from where h begins.
At(n, h, i) == IF h + i < n THEN h + i ELSE h + i - n

LEMMA Wrap ==
    ASSUME NEW n \in Nat \ {0}, NEW c \in Nat, NEW i \in 0 .. n
    PROVE  (c + i) % n = At(n, c % n, i)
<1> DEFINE q == c \div n
           r == c % n
           p == (c + i) \div n
           s == (c + i) % n
<1>1. r \in 0 .. n - 1 /\ q \in Int /\ c = n * q + r
  BY Division
<1>2. s \in 0 .. n - 1 /\ p \in Int /\ c + i = n * p + s
  BY Division
<1> HIDE DEF q, r, p, s
<1>3. CASE r + i < n
  <2>1. n * q + (r + i) = n * p + s
    BY <1>1, <1>2
  <2>2. r + i \in 0 .. n - 1
    BY <1>1, <1>3
  <2>3. r + i = s
    BY <1>1, <1>2, <2>1, <2>2, OneRemainder
  <2> QED
    BY <1>3, <2>3 DEF At, r, s
<1>4. CASE r + i >= n
  <2>1. n * (q + 1) + (r + i - n) = n * p + s
    <3>1. n * (q + 1) = n * q + n
      BY <1>1
    <3>2. n * (q + 1) \in Int /\ n * q \in Int /\ n * p \in Int
      BY <1>1, <1>2
    <3> QED
      BY <1>1, <1>2, <3>1, <3>2
  <2>2. r + i - n \in 0 .. n - 1 /\ q + 1 \in Int
    BY <1>1, <1>4
  <2>3. r + i - n = s
    BY <1>1, <1>2, <2>1, <2>2, OneRemainder
  <2> QED
    BY <1>1, <1>4, <2>3 DEF At, r, s
<1> QED
  BY <1>1, <1>3, <1>4

LEMMA FarAt ==
    ASSUME NEW n \in Nat \ {0}, NEW h \in 0 .. n - 1
    PROVE  /\ \A s \in 0 .. n - 1 : Far(n, h, s) \in 0 .. n - 1 /\ At(n, h, Far(n, h, s)) = s
           /\ \A i \in 0 .. n - 1 : At(n, h, i) \in 0 .. n - 1 /\ Far(n, h, At(n, h, i)) = i
           /\ At(n, h, n) = h
           /\ \A s, x \in 0 .. n - 1 : Far(n, h, s) = Far(n, h, x) => s = x
BY DEF Far, At

\* A set of natural numbers has a least one.
LEMMA Least ==
    ASSUME NEW T \in SUBSET Nat, T # {}
    PROVE  \E m \in T : \A x \in T : m <= x
<1> DEFINE R == OpToRel(<, Nat)
<1>1. \A x, y \in Nat : x < y => <<x, y>> \in R
  BY DEF OpToRel
<1>2. IsWellFoundedOn(R, Nat)
  BY NatLessThanWellFounded
<1> HIDE DEF R
<1>3. PICK m \in T : \A x \in T : ~(<<x, m>> \in R)
  BY <1>2, WFMin
<1>4. ASSUME NEW x \in T
      PROVE  m <= x
  <2>1. x \in Nat /\ m \in Nat
    OBVIOUS
  <2>2. ~(x < m)
    BY <1>1, <1>3, <2>1
  <2> QED
    BY <2>1, <2>2
<1> QED
  BY <1>4

-----------------------------------------------------------------------------
(***************************************************************************)
(* What the array holds.  c is the hash function, h the map from keys to   *)
(* objects that the array stands for.                                      *)
(***************************************************************************)
Slots(n) == 0 .. n - 1
Home(c, n, k) == c[k] % n

\* Slot x comes before slot s on the way of the probing for key k.
Before(c, n, k, x, s) == Far(n, Home(c, n, k), x) < Far(n, Home(c, n, k), s)

\* The probing for k ends in the slot if it gets there.
Ends(e, k, s) == e[s] = None \/ e[s].key = k

IsArray(e, n) == e \in [Slots(n) -> {None} \cup {Entry(k, v) : k \in Hashed, v \in Vals}]

OnePerKey(e, n) ==
    \A s, x \in Slots(n) : e[s] # None /\ e[x] # None /\ e[s].key = e[x].key => s = x

\* No blank slot is on the way to an entry.
Reachable(c, e, n) ==
    \A s, x \in Slots(n) : e[s] # None /\ Before(c, n, e[s].key, x, s) => e[x] # None

Holds(e, n, h) ==
    /\ \A s \in Slots(n) : e[s] # None => h[e[s].key] = e[s].val
    /\ \A k \in Hashed : h[k] # None => \E s \in Slots(n) : e[s] # None /\ e[s].key = k

Table(c, e, n, h) == IsArray(e, n) /\ OnePerKey(e, n) /\ Reachable(c, e, n) /\ Holds(e, n, h)

HasBlank(e, n) == \E s \in Slots(n) : e[s] = None

LEMMA HomeIsSlot ==
    ASSUME NEW c \in [Hashed -> Nat], NEW n \in Nat \ {0}, NEW k \in Hashed
    PROVE  Home(c, n, k) \in 0 .. n - 1
<1>1. c[k] \in Nat
  OBVIOUS
<1> QED
  BY <1>1, Division DEF Home

LEMMA StopsAre ==
    ASSUME code \in [Hashed -> Nat], NEW n \in Nat \ {0}, NEW k \in Hashed, NEW e, NEW s
    PROVE  s \in Stops(e, n, k) <=>
             /\ s \in Slots(n) /\ Ends(e, k, s)
             /\ \A x \in Slots(n) : Before(code, n, k, x, s) => ~Ends(e, k, x)
<1> DEFINE h == Home(code, n, k)
           slot(j) == (code[k] + j) % n
           stop(j) == e[slot(j)] = None \/ e[slot(j)].key = k
<1>1. h \in 0 .. n - 1 /\ \A j \in 0 .. n - 1 : slot(j) = At(n, h, j)
  <2>1. code[k] \in Nat
    OBVIOUS
  <2>2. h \in 0 .. n - 1
    BY <2>1, Division DEF Home
  <2>3. ASSUME NEW j \in 0 .. n - 1
        PROVE  slot(j) = At(n, h, j)
    BY <2>1, Wrap DEF Home
  <2> QED
    BY <2>2, <2>3
<1>2. s \in Stops(e, n, k) <=>
        /\ s \in 0 .. n - 1
        /\ \E i \in 0 .. n - 1 : s = slot(i) /\ stop(i) /\ \A j \in 0 .. i - 1 : ~stop(j)
  BY DEF Stops
<1>3. \A j \in 0 .. n - 1 : stop(j) <=> Ends(e, k, At(n, h, j))
  BY <1>1 DEF Ends
<1> HIDE DEF h, slot, stop
<1>4. ASSUME s \in Stops(e, n, k)
      PROVE  /\ s \in Slots(n) /\ Ends(e, k, s)
             /\ \A x \in Slots(n) : Before(code, n, k, x, s) => ~Ends(e, k, x)
  <2>1. PICK i \in 0 .. n - 1 : s = slot(i) /\ stop(i) /\ \A j \in 0 .. i - 1 : ~stop(j)
    BY <1>2, <1>4
  <2>2. s = At(n, h, i) /\ s \in 0 .. n - 1 /\ Far(n, h, s) = i
    BY <1>1, <2>1, FarAt
  <2>3. ASSUME NEW x \in Slots(n), Before(code, n, k, x, s)
        PROVE  ~Ends(e, k, x)
    <3>1. Far(n, h, x) \in 0 .. i - 1 /\ Far(n, h, x) \in 0 .. n - 1 /\ At(n, h, Far(n, h, x)) = x
      BY <1>1, <2>2, <2>3, FarAt DEF Before, h, Slots
    <3> QED
      BY <1>3, <2>1, <3>1
  <2> QED
    BY <1>3, <2>1, <2>2, <2>3 DEF Slots
<1>5. ASSUME s \in Slots(n), Ends(e, k, s),
             \A x \in Slots(n) : Before(code, n, k, x, s) => ~Ends(e, k, x)
      PROVE  s \in Stops(e, n, k)
  <2> DEFINE i == Far(n, h, s)
  <2>1. i \in 0 .. n - 1 /\ At(n, h, i) = s
    BY <1>1, <1>5, FarAt DEF Slots
  <2>2. ASSUME NEW j \in 0 .. i - 1
        PROVE  ~stop(j)
    <3>1. j \in 0 .. n - 1
      BY <2>1
    <3>2. At(n, h, j) \in 0 .. n - 1 /\ Far(n, h, At(n, h, j)) = j
      BY <1>1, <3>1, FarAt
    <3>3. Before(code, n, k, At(n, h, j), s)
      BY <2>1, <3>2 DEF Before, h
    <3> QED
      BY <1>3, <1>5, <3>1, <3>2, <3>3 DEF Slots
  <2>3. s = slot(i) /\ stop(i)
    BY <1>1, <1>3, <1>5, <2>1
  <2> HIDE DEF i
  <2> QED
    BY <1>2, <1>5, <2>1, <2>2, <2>3 DEF Slots
<1> QED
  BY <1>4, <1>5

\* Probing ends in one slot at most.
LEMMA OneStop ==
    ASSUME code \in [Hashed -> Nat], NEW n \in Nat \ {0}, NEW k \in Hashed, NEW e,
           NEW s \in Stops(e, n, k), NEW x \in Stops(e, n, k)
    PROVE  s = x
<1>1. /\ s \in Slots(n) /\ x \in Slots(n) /\ Ends(e, k, s) /\ Ends(e, k, x)
      /\ ~Before(code, n, k, x, s) /\ ~Before(code, n, k, s, x)
  BY StopsAre
<1>2. Home(code, n, k) \in 0 .. n - 1
  BY HomeIsSlot
<1>3. Far(n, Home(code, n, k), s) \in Nat /\ Far(n, Home(code, n, k), x) \in Nat
  BY <1>1, <1>2, FarAt DEF Slots
<1>4. Far(n, Home(code, n, k), s) = Far(n, Home(code, n, k), x)
  BY <1>1, <1>3 DEF Before
<1> QED
  BY <1>1, <1>2, <1>4, FarAt DEF Slots

\* Probing ends if there is a blank slot.
LEMMA SomeStop ==
    ASSUME code \in [Hashed -> Nat], NEW n \in Nat \ {0}, NEW k \in Hashed, NEW e,
           HasBlank(e, n)
    PROVE  \E s : s \in Stops(e, n, k)
<1> DEFINE T == {Far(n, Home(code, n, k), s) : s \in {x \in Slots(n) : Ends(e, k, x)}}
<1>1. Home(code, n, k) \in 0 .. n - 1
  BY HomeIsSlot
<1>2. T \subseteq Nat /\ T # {}
  <2>1. ASSUME NEW s \in Slots(n)
        PROVE  Far(n, Home(code, n, k), s) \in Nat
    BY <1>1 DEF Far, Slots
  <2>2. \E s \in Slots(n) : Ends(e, k, s)
    BY DEF HasBlank, Ends
  <2> QED
    BY <2>1, <2>2
<1>3. PICK m \in T : \A x \in T : m <= x
  BY <1>2, Least
<1>4. PICK s \in Slots(n) : Ends(e, k, s) /\ m = Far(n, Home(code, n, k), s)
  BY <1>3
<1>5. ASSUME NEW x \in Slots(n), Before(code, n, k, x, s)
      PROVE  ~Ends(e, k, x)
  <2>1. Far(n, Home(code, n, k), x) \in Nat /\ m \in Nat /\ Far(n, Home(code, n, k), x) < m
    BY <1>1, <1>2, <1>3, <1>4, <1>5, FarAt DEF Before, Slots
  <2> QED
    BY <1>3, <2>1
<1> QED
  BY <1>4, <1>5, StopsAre

-----------------------------------------------------------------------------
(***************************************************************************)
(* Looking up and inserting.                                               *)
(***************************************************************************)
\* What is known of an entry.
LEMMA EntryIs ==
    ASSUME NEW e, NEW n, IsArray(e, n), NEW s \in Slots(n), e[s] # None
    PROVE  /\ e[s].key \in Hashed /\ e[s].val \in Vals
           /\ e[s] = Entry(e[s].key, e[s].val)
BY DEF IsArray, Entry

\* Probing for the key of an entry ends at the entry.
LEMMA EntryIsStop ==
    ASSUME code \in [Hashed -> Nat], NEW n \in Nat \ {0}, NEW e, NEW h, Table(code, e, n, h),
           NEW s \in Slots(n), e[s] # None
    PROVE  s \in Stops(e, n, e[s].key)
<1>1. e[s].key \in Hashed
  BY EntryIs DEF Table
<1>2. Home(code, n, e[s].key) \in 0 .. n - 1
  BY <1>1, HomeIsSlot
<1>3. ASSUME NEW x \in Slots(n), Before(code, n, e[s].key, x, s)
      PROVE  ~Ends(e, e[s].key, x)
  <2>1. x # s
    BY <1>2, <1>3 DEF Before, Far, Slots
  <2>2. e[x] # None
    BY <1>3 DEF Table, Reachable
  <2> QED
    BY <2>1, <2>2 DEF Table, OnePerKey, Ends
<1> QED
  BY <1>1, <1>3, StopsAre DEF Ends

\* Probing for a key that is not there ends at a blank slot.
LEMMA StopIsBlank ==
    ASSUME code \in [Hashed -> Nat], NEW n \in Nat \ {0}, NEW e, NEW h, Table(code, e, n, h),
           NEW k \in Hashed, h[k] = None, NEW s \in Stops(e, n, k)
    PROVE  s \in Slots(n) /\ e[s] = None
<1>1. s \in Slots(n) /\ Ends(e, k, s)
  BY StopsAre
<1>2. ASSUME e[s] # None
      PROVE  FALSE
  <2>1. e[s].key = k /\ e[s].val \in Vals
    BY <1>1, <1>2, EntryIs DEF Ends, Table
  <2>2. h[k] = e[s].val
    BY <1>1, <1>2, <2>1 DEF Table, Holds
  <2> QED
    BY <2>1, <2>2, NoneAssumption
<1> QED
  BY <1>1, <1>2

\* fz_hash_find finds what the table stands for.
LEMMA LookupIs ==
    ASSUME code \in [Hashed -> Nat], NEW n \in Nat \ {0}, NEW e, NEW h, Table(code, e, n, h),
           HasBlank(e, n), NEW k \in Hashed
    PROVE  Lookup(e, n, k) = h[k]
<1>1. CASE h[k] = None
  <2>1. ~ \E s \in Stops(e, n, k) : e[s] # None
    BY <1>1, StopIsBlank
  <2> QED
    BY <1>1, <2>1 DEF Lookup
<1>2. CASE h[k] # None
  <2>1. PICK s \in Slots(n) : e[s] # None /\ e[s].key = k
    BY <1>2 DEF Table, Holds
  <2>2. s \in Stops(e, n, k)
    BY <2>1, EntryIsStop
  <2>3. (CHOOSE x \in Stops(e, n, k) : TRUE) = s
    BY <2>2, OneStop
  <2>4. h[k] = e[s].val
    BY <2>1 DEF Table, Holds
  <2> QED
    BY <2>1, <2>2, <2>3, <2>4 DEF Lookup
<1> QED
  BY <1>1, <1>2

\* do_hash_insert adds an entry for a key that has none.
LEMMA InsertedIs ==
    ASSUME code \in [Hashed -> Nat], NEW n \in Nat \ {0}, NEW e,
           NEW h \in [Hashed -> Vals \cup {None}], Table(code, e, n, h), HasBlank(e, n),
           NEW k \in Hashed, h[k] = None, NEW v \in Vals
    PROVE  Table(code, Inserted(e, n, Entry(k, v)), n, [h EXCEPT ![k] = v])
<1> DEFINE a == Inserted(e, n, Entry(k, v))
           g == [h EXCEPT ![k] = v]
           new == Entry(k, v)
<1>1. PICK s : s \in Stops(e, n, k)
  BY SomeStop
<1>2. s \in Slots(n) /\ e[s] = None
  BY <1>1, StopIsBlank
<1>3. \A i \in Slots(n) : i \in Stops(e, n, k) <=> i = s
  BY <1>1, OneStop
<1>4. new.key = k /\ new.val = v /\ new # None
  BY EntryAssumption DEF Entry
<1>5. a = [i \in Slots(n) |-> IF i = s THEN new ELSE e[i]]
  <2>1. a = [i \in Slots(n) |-> IF i \in Stops(e, n, k) /\ e[i] = None THEN new ELSE e[i]]
    BY <1>4 DEF Inserted, Slots
  <2> QED
    BY <1>2, <1>3, <2>1
<1>6. \A x \in Slots(n) : e[x] # None => e[x].key # k
  <2> SUFFICES ASSUME NEW x \in Slots(n), e[x] # None, e[x].key = k
               PROVE  FALSE
    OBVIOUS
  <2>1. h[k] = e[x].val /\ e[x].val \in Vals
    BY EntryIs DEF Table, Holds
  <2> QED
    BY <2>1, NoneAssumption
<1>7. IsArray(a, n)
  <2>1. new \in {Entry(j, w) : j \in Hashed, w \in Vals}
    OBVIOUS
  <2> HIDE DEF new
  <2> QED
    BY <1>5, <2>1 DEF Table, IsArray
<1> HIDE DEF a, new
<1>8. OnePerKey(a, n)
  BY <1>2, <1>4, <1>5, <1>6 DEF Table, OnePerKey
<1>9. Reachable(code, a, n)
  <2> SUFFICES ASSUME NEW y \in Slots(n), NEW x \in Slots(n), a[y] # None,
                      Before(code, n, a[y].key, x, y)
               PROVE  a[x] # None
    BY DEF Reachable
  <2>1. CASE y = s
    <3>1. ~Ends(e, k, x)
      BY <1>1, <1>4, <1>5, <2>1, StopsAre
    <3> QED
      BY <1>4, <1>5, <3>1 DEF Ends
  <2>2. CASE y # s
    BY <1>4, <1>5, <2>2 DEF Table, Reachable
  <2> QED
    BY <2>1, <2>2
<1>10. Holds(a, n, g)
  <2>1. ASSUME NEW x \in Slots(n), a[x] # None
        PROVE  g[a[x].key] = a[x].val
    <3>1. CASE x = s
      BY <1>4, <1>5, <3>1
    <3>2. CASE x # s
      <4>1. a[x] = e[x] /\ e[x].key # k
        BY <1>5, <1>6, <2>1, <3>2
      <4>2. h[e[x].key] = e[x].val /\ e[x].key \in Hashed
        BY <2>1, <4>1, EntryIs DEF Table, Holds
      <4> QED
        BY <4>1, <4>2
    <3> QED
      BY <3>1, <3>2
  <2>2. ASSUME NEW j \in Hashed, g[j] # None
        PROVE  \E x \in Slots(n) : a[x] # None /\ a[x].key = j
    <3>1. CASE j = k
      BY <1>2, <1>4, <1>5, <3>1
    <3>2. CASE j # k
      <4>1. PICK x \in Slots(n) : e[x] # None /\ e[x].key = j
        BY <2>2, <3>2 DEF Table, Holds
      <4>2. x # s
        BY <1>2, <4>1
      <4> QED
        BY <1>5, <4>1, <4>2
    <3> QED
      BY <3>1, <3>2
  <2> HIDE DEF g
  <2> QED
    BY <2>1, <2>2 DEF Holds
<1> QED
  BY <1>7, <1>8, <1>9, <1>10 DEF Table, a

-----------------------------------------------------------------------------
(***************************************************************************)
(* Removing.                                                               *)
(***************************************************************************)
LEMMA SetInduction ==
    ASSUME NEW T \in SUBSET Nat, 0 \in T, \A i \in T : i + 1 \in T
    PROVE  T = Nat
<1> SUFFICES ASSUME Nat \ T # {}
             PROVE  FALSE
  OBVIOUS
<1>1. PICK m \in Nat \ T : \A x \in Nat \ T : m <= x
  BY Least
<1>2. m - 1 \in Nat /\ m - 1 \notin Nat \ T
  BY <1>1
<1>3. (m - 1) + 1 \in T
  BY <1>2
<1> QED
  BY <1>3

\* A function on 0 .. n that begins with s and goes on step by step.
Steps(S) == [(Nat \X S) -> S]
IsRecursive(f, n, S, s, step) ==
    /\ f \in [0 .. n -> S]
    /\ f[0] = s
    /\ \A m \in 1 .. n : f[m] = step[<<m, f[m - 1]>>]

LEMMA Recursion ==
    ASSUME NEW S, NEW s \in S, NEW step \in Steps(S)
    PROVE  \A n \in Nat : \E f : IsRecursive(f, n, S, s, step)
<1> DEFINE T == {n \in Nat : \E f : IsRecursive(f, n, S, s, step)}
<1>1. 0 \in T
  <2>1. IsRecursive([m \in 0 .. 0 |-> s], 0, S, s, step)
    BY DEF IsRecursive
  <2> QED
    BY <2>1
<1>2. ASSUME NEW n \in T
      PROVE  n + 1 \in T
  <2>1. PICK f : IsRecursive(f, n, S, s, step)
    BY <1>2
  <2>2. /\ f \in [0 .. n -> S] /\ f[0] = s
        /\ \A m \in 1 .. n : f[m] = step[<<m, f[m - 1]>>]
    BY <2>1 DEF IsRecursive
  <2> DEFINE g == [m \in 0 .. n + 1 |-> IF m = n + 1 THEN step[<<m, f[n]>>] ELSE f[m]]
  <2>3. f[n] \in S /\ n + 1 \in Nat
    BY <2>2
  <2>4. step[<<n + 1, f[n]>>] \in S
    BY <2>3 DEF Steps
  <2>5. g \in [0 .. n + 1 -> S]
    BY <2>2, <2>4
  <2>6. g[0] = s
    BY <2>2
  <2>7. ASSUME NEW m \in 1 .. n + 1
        PROVE  g[m] = step[<<m, g[m - 1]>>]
    <3>1. g[m - 1] = f[m - 1]
      OBVIOUS
    <3>2. CASE m = n + 1
      <4>1. m - 1 = n /\ m \in 0 .. n + 1
        BY <3>2
      <4> QED
        BY <3>1, <3>2, <4>1
    <3>3. CASE m # n + 1
      <4>1. m \in 1 .. n /\ m \in 0 .. n + 1
        BY <3>3
      <4>2. g[m] = f[m]
        BY <3>3, <4>1
      <4> QED
        BY <2>2, <3>1, <4>1, <4>2
    <3> QED
      BY <3>2, <3>3
  <2> HIDE DEF g
  <2>8. IsRecursive(g, n + 1, S, s, step)
    BY <2>5, <2>6, <2>7 DEF IsRecursive
  <2> QED
    BY <2>3, <2>8
<1>3. T = Nat
  <2>1. T \in SUBSET Nat
    OBVIOUS
  <2> HIDE DEF T
  <2> QED
    BY <1>1, <1>2, <2>1, SetInduction
<1> QED
  BY <1>3

\* The loop of fz_hash_remove: what one turn makes of the entries and the hole.
FillStep(n, first, i, before) ==
    LET look == (first + i) % n
        x == before.ents[look]
    IN IF MayFill(code[x.key] % n, before.hole, look)
       THEN [ents |-> [before.ents EXCEPT ![before.hole] = x, ![look] = None],
             hole |-> look]
       ELSE before

IsFilling(f, e, n, first) ==
    f = [i \in 0 .. n |-> IF i = 0 THEN [ents |-> e, hole |-> first]
                          ELSE FillStep(n, first, i, f[i - 1])]

Ended(e, n, first, i) ==
    e[(first + i) % n] = None /\ \A j \in 1 .. i - 1 : e[(first + j) % n] # None

LEMMA RemovedUnfolds ==
    ASSUME NEW e, NEW n, NEW k
    PROVE  Removed(e, n, k) =
             LET first == CHOOSE s \in Stops(e, n, k) : TRUE
                 cleared == [e EXCEPT ![first] = None]
                 end == CHOOSE i \in 1 .. n : Ended(cleared, n, first, i)
             IN (CHOOSE f : IsFilling(f, cleared, n, first))[end - 1].ents
BY DEF Removed, IsFilling, FillStep, Ended

Cells == {None} \cup {Entry(k, v) : k \in Hashed, v \in Vals}
Fillings(n) == [ents : [Slots(n) -> Cells], hole : Slots(n)]

LEMMA FillStepType ==
    ASSUME NEW n \in Nat \ {0}, NEW first \in Slots(n), NEW i \in Nat, NEW b \in Fillings(n)
    PROVE  FillStep(n, first, i, b) \in Fillings(n)
<1> DEFINE look == (first + i) % n
<1>1. look \in Slots(n)
  <2>1. first + i \in Nat
    BY DEF Slots
  <2> QED
    BY <2>1, Division DEF Slots
<1> HIDE DEF look
<1>2. FillStep(n, first, i, b) =
        IF MayFill(code[b.ents[look].key] % n, b.hole, look)
        THEN [ents |-> [b.ents EXCEPT ![b.hole] = b.ents[look], ![look] = None], hole |-> look]
        ELSE b
  BY DEF FillStep, look
<1>3. None \in Cells
  BY DEF Cells
<1>4. b.ents \in [Slots(n) -> Cells] /\ b.hole \in Slots(n)
  BY DEF Fillings
<1>5. [b.ents EXCEPT ![b.hole] = b.ents[look], ![look] = None] \in [Slots(n) -> Cells]
  BY <1>1, <1>3, <1>4
<1> QED
  BY <1>1, <1>2, <1>5 DEF Fillings

LEMMA FillingExists ==
    ASSUME NEW n \in Nat \ {0}, NEW first \in Slots(n), NEW e \in [Slots(n) -> Cells]
    PROVE  \E f : IsFilling(f, e, n, first)
<1> DEFINE S == Fillings(n)
           s == [ents |-> e, hole |-> first]
           step == [p \in Nat \X S |-> FillStep(n, first, p[1], p[2])]
<1>1. s \in S
  BY DEF Fillings
<1>2. step \in Steps(S)
  <2>1. \A p \in Nat \X S : FillStep(n, first, p[1], p[2]) \in S
    BY FillStepType
  <2> HIDE DEF S
  <2> QED
    BY <2>1 DEF Steps
<1>3. \A i \in Nat : \A b \in S : step[<<i, b>>] = FillStep(n, first, i, b)
  <2> HIDE DEF S
  <2> QED
    OBVIOUS
<1> HIDE DEF S, s, step
<1>4. PICK f : IsRecursive(f, n, S, s, step)
  <2>1. \A m \in Nat : \E f : IsRecursive(f, m, S, s, step)
    BY <1>1, <1>2, Recursion
  <2> QED
    BY <2>1
<1>5. /\ f \in [0 .. n -> S] /\ f[0] = s
      /\ \A m \in 1 .. n : f[m] = step[<<m, f[m - 1]>>]
  BY <1>4 DEF IsRecursive
<1>6. ASSUME NEW i \in 0 .. n
      PROVE  f[i] = IF i = 0 THEN s ELSE FillStep(n, first, i, f[i - 1])
  <2>1. CASE i = 0
    BY <1>5, <2>1
  <2>2. CASE i # 0
    <3>1. i \in 1 .. n /\ i - 1 \in 0 .. n /\ i \in Nat
      BY <2>2
    <3>2. f[i - 1] \in S
      BY <1>5, <3>1
    <3> QED
      BY <1>3, <1>5, <2>2, <3>1, <3>2
  <2> QED
    BY <2>1, <2>2
<1>7. f = [i \in 0 .. n |-> f[i]]
  BY <1>5
<1>8. f = [i \in 0 .. n |-> IF i = 0 THEN s ELSE FillStep(n, first, i, f[i - 1])]
  BY <1>6, <1>7
<1> QED
  BY <1>8 DEF IsFilling, s

\* An entry may fill the hole if the hole is on the way to it.
LEMMA MayFillIs ==
    ASSUME NEW n \in Nat \ {0}, NEW h \in Slots(n), NEW hole \in Slots(n), NEW look \in Slots(n),
           hole # look
    PROVE  MayFill(h, hole, look) <=> Far(n, h, hole) < Far(n, h, look)
BY DEF MayFill, Far, Slots

\* A way that passes x and then y, of three slots x, t, y in the order of the ring, passes t.
LEMMA RingOrder ==
    ASSUME NEW n \in Nat \ {0}, NEW h \in Slots(n), NEW first \in Slots(n),
           NEW x \in Slots(n), NEW t \in Slots(n), NEW y \in Slots(n),
           Far(n, h, x) < Far(n, h, y),
           \/ Far(n, first, x) < Far(n, first, t) /\ Far(n, first, t) < Far(n, first, y)
           \/ Far(n, first, y) < Far(n, first, x) /\ Far(n, first, x) < Far(n, first, t)
    PROVE  Far(n, h, t) < Far(n, h, y)
BY DEF Far, Slots

\* What holds of the entries a and the hole while i slots have been looked at: old is the array
\* before the first of them, t the blank slot where the loop ends.
FillInv(c, n, h, old, first, t, i, a, hole) ==
    /\ IsArray(a, n) /\ OnePerKey(a, n) /\ Holds(a, n, h)
    /\ hole \in Slots(n) /\ a[hole] = None
    /\ Far(n, first, hole) <= i
    /\ \A x \in Slots(n) : Far(n, first, x) > i => a[x] = old[x]
    /\ \A s, x \in Slots(n) :
         a[s] # None /\ Before(c, n, a[s].key, x, s) /\ a[x] = None
         => x = hole /\ Far(n, first, s) > i

\* The entry in slot look is moved into the hole.
Moved(a, hole, look) == [a EXCEPT ![hole] = a[look], ![look] = None]

LEMMA MovedIs ==
    ASSUME NEW n, NEW a, IsArray(a, n), NEW hole \in Slots(n), NEW look \in Slots(n), hole # look
    PROVE  /\ Moved(a, hole, look) \in [Slots(n) -> Cells]
           /\ Moved(a, hole, look)[look] = None
           /\ Moved(a, hole, look)[hole] = a[look]
           /\ \A x \in Slots(n) : x # hole /\ x # look => Moved(a, hole, look)[x] = a[x]
<1>1. a \in [Slots(n) -> Cells] /\ None \in Cells
  BY DEF IsArray, Cells
<1> QED
  BY <1>1 DEF Moved

\* A turn of the loop that moves an entry.
LEMMA MovingKeeps ==
    ASSUME NEW c \in [Hashed -> Nat], NEW n \in Nat \ {0}, NEW h, NEW old,
           NEW first \in Slots(n), NEW t \in Slots(n), NEW i \in Nat, i + 1 < Far(n, first, t),
           old[t] = None, NEW a, NEW hole, FillInv(c, n, h, old, first, t, i, a, hole),
           NEW look \in Slots(n), Far(n, first, look) = i + 1, a[look] # None,
           Before(c, n, a[look].key, hole, look)
    PROVE  FillInv(c, n, h, old, first, t, i + 1, Moved(a, hole, look), look)
<1> DEFINE b == Moved(a, hole, look)
<1>1. /\ IsArray(a, n) /\ OnePerKey(a, n) /\ Holds(a, n, h)
      /\ hole \in Slots(n) /\ a[hole] = None
      /\ Far(n, first, hole) <= i
      /\ \A x \in Slots(n) : Far(n, first, x) > i => a[x] = old[x]
      /\ \A s, x \in Slots(n) :
           a[s] # None /\ Before(c, n, a[s].key, x, s) /\ a[x] = None
           => x = hole /\ Far(n, first, s) > i
  BY DEF FillInv
<1>2. hole # look
  BY <1>1
<1>3. /\ b \in [Slots(n) -> Cells] /\ b[look] = None /\ b[hole] = a[look]
      /\ \A x \in Slots(n) : x # hole /\ x # look => b[x] = a[x]
  BY <1>1, <1>2, MovedIs
<1> HIDE DEF b
<1>4. \A s \in Slots(n) : Far(n, first, s) \in 0 .. n - 1
  BY DEF Far, Slots
<1>5. \A s \in Slots(n) : b[s] # None => s # look /\ (s = hole \/ b[s] = a[s])
  BY <1>3
<1>6. IsArray(b, n)
  BY <1>3 DEF IsArray, Cells
<1>7. OnePerKey(b, n)
  BY <1>1, <1>3 DEF OnePerKey
<1>8. Holds(b, n, h)
  <2>1. \A s \in Slots(n) : b[s] # None => h[b[s].key] = b[s].val
    BY <1>1, <1>3 DEF Holds
  <2>2. ASSUME NEW k \in Hashed, h[k] # None
        PROVE  \E s \in Slots(n) : b[s] # None /\ b[s].key = k
    <3>1. PICK s \in Slots(n) : a[s] # None /\ a[s].key = k
      BY <1>1, <2>2 DEF Holds
    <3>2. CASE s = look
      BY <1>1, <1>3, <3>1, <3>2
    <3>3. CASE s # look
      BY <1>1, <1>3, <3>1, <3>3
    <3> QED
      BY <3>2, <3>3
  <2> QED
    BY <2>1, <2>2 DEF Holds
<1>9. ASSUME NEW x \in Slots(n), Far(n, first, x) > i + 1
      PROVE  b[x] = old[x]
  <2>1. x # hole /\ x # look /\ Far(n, first, x) > i
    BY <1>1, <1>4, <1>9
  <2> QED
    BY <1>1, <1>3, <2>1
<1>10. a[t] = None /\ t # hole /\ t # look /\ b[t] = None
  <2>1. Far(n, first, t) > i + 1 /\ Far(n, first, t) > i
    BY <1>4
  <2>2. a[t] = None
    BY <1>1, <2>1
  <2>3. Far(n, first, t) # Far(n, first, hole) /\ Far(n, first, t) # Far(n, first, look)
    BY <1>1, <1>4, <2>1
  <2> QED
    BY <1>9, <2>1, <2>2, <2>3
<1>11. ASSUME NEW s \in Slots(n), NEW x \in Slots(n),
              b[s] # None, Before(c, n, b[s].key, x, s), b[x] = None
       PROVE  x = look /\ Far(n, first, s) > i + 1
  <2>1. CASE s = hole
    <3>1. b[s].key = a[look].key /\ a[look].key \in Hashed
      BY <1>1, <1>3, <2>1, EntryIs
    <3>2. Home(c, n, a[look].key) \in Slots(n)
      BY <3>1, HomeIsSlot DEF Slots
    <3>3. /\ Far(n, Home(c, n, a[look].key), x) < Far(n, Home(c, n, a[look].key), hole)
          /\ Far(n, Home(c, n, a[look].key), hole) < Far(n, Home(c, n, a[look].key), look)
      BY <1>11, <2>1, <3>1 DEF Before
    <3>4. x # hole /\ x # look /\ Before(c, n, a[look].key, x, look)
      BY <1>1, <3>2, <3>3 DEF Before, Far, Slots
    <3> QED
      BY <1>1, <1>3, <1>11, <3>4
  <2>2. CASE s # hole
    <3>1. b[s] = a[s] /\ s # look /\ a[s].key \in Hashed /\ a[s] # None
      BY <1>1, <1>3, <1>11, <2>2, EntryIs
    <3>2. Home(c, n, a[s].key) \in Slots(n)
      BY <3>1, HomeIsSlot DEF Slots
    <3>3. ~Before(c, n, a[s].key, t, s)
      BY <1>1, <1>10, <3>1
    <3>4. x = look
      <4> SUFFICES ASSUME x # look
                   PROVE  FALSE
        OBVIOUS
      <4>1. x # hole
        BY <1>3, <1>11
      <4> QED
        BY <1>1, <1>3, <1>11, <3>1, <4>1
    <3>5. Far(n, first, s) > i + 1
      <4> SUFFICES ASSUME ~(Far(n, first, s) > i + 1)
                   PROVE  FALSE
        OBVIOUS
      <4>1. Far(n, first, s) # i + 1
        BY <3>1 DEF Far, Slots
      <4>2. Far(n, first, s) < Far(n, first, look) /\ Far(n, first, look) < Far(n, first, t)
        BY <1>4, <4>1
      <4>3. Far(n, Home(c, n, a[s].key), look) < Far(n, Home(c, n, a[s].key), s)
        BY <1>11, <3>1, <3>4 DEF Before
      <4>4. Far(n, Home(c, n, a[s].key), t) < Far(n, Home(c, n, a[s].key), s)
        BY <3>2, <4>2, <4>3, RingOrder
      <4> QED
        BY <3>3, <4>4 DEF Before
    <3> QED
      BY <3>4, <3>5
  <2> QED
    BY <2>1, <2>2
<1>12. Far(n, first, look) <= i + 1
  OBVIOUS
<1> QED
  BY <1>3, <1>6, <1>7, <1>8, <1>9, <1>11, <1>12 DEF FillInv, b

\* A turn that moves none, the hole not being on the way to the entry.
LEMMA StayingKeeps ==
    ASSUME NEW c \in [Hashed -> Nat], NEW n \in Nat \ {0}, NEW h, NEW old,
           NEW first \in Slots(n), NEW t \in Slots(n), NEW i \in Nat,
           NEW a, NEW hole, FillInv(c, n, h, old, first, t, i, a, hole),
           NEW look \in Slots(n), Far(n, first, look) = i + 1, a[look] # None,
           ~Before(c, n, a[look].key, hole, look)
    PROVE  FillInv(c, n, h, old, first, t, i + 1, a, hole)
<1>1. \A s \in Slots(n) : Far(n, first, s) \in 0 .. n - 1
  BY DEF Far, Slots
<1>2. hole \in Slots(n) /\ Far(n, first, hole) <= i
  BY DEF FillInv
<1>3. Far(n, first, hole) <= i + 1
  BY <1>1, <1>2
<1>4. \A x \in Slots(n) : Far(n, first, x) > i + 1 => a[x] = old[x]
  <2>1. \A x \in Slots(n) : Far(n, first, x) > i + 1 => Far(n, first, x) > i
    BY <1>1
  <2> QED
    BY <2>1 DEF FillInv
<1>5. ASSUME NEW s \in Slots(n), NEW x \in Slots(n),
             a[s] # None, Before(c, n, a[s].key, x, s), a[x] = None
      PROVE  x = hole /\ Far(n, first, s) > i + 1
  <2>1. x = hole /\ Far(n, first, s) > i
    BY <1>5 DEF FillInv
  <2>2. s # look
    BY <1>5, <2>1
  <2>3. Far(n, first, s) # i + 1
    BY <2>2 DEF Far, Slots
  <2> QED
    BY <1>1, <2>1, <2>3
<1> QED
  BY <1>3, <1>4, <1>5 DEF FillInv

\* When the blank slot is reached no entry is behind the hole any more.
LEMMA FilledIs ==
    ASSUME NEW c \in [Hashed -> Nat], NEW n \in Nat \ {0}, NEW h, NEW old,
           NEW first \in Slots(n), NEW t \in Slots(n), NEW i \in Nat, i + 1 = Far(n, first, t),
           old[t] = None, NEW a, NEW hole, FillInv(c, n, h, old, first, t, i, a, hole)
    PROVE  Table(c, a, n, h)
<1>1. \A s \in Slots(n) : Far(n, first, s) \in 0 .. n - 1
  BY DEF Far, Slots
<1>2. hole \in Slots(n) /\ Far(n, first, hole) <= i /\ IsArray(a, n)
  BY DEF FillInv
<1>3. a[t] = None /\ t # hole
  <2>1. Far(n, first, t) > i /\ Far(n, first, t) # Far(n, first, hole)
    BY <1>1, <1>2
  <2> QED
    BY <2>1 DEF FillInv
<1>4. ASSUME NEW s \in Slots(n), NEW x \in Slots(n),
             a[s] # None, Before(c, n, a[s].key, x, s), a[x] = None
      PROVE  FALSE
  <2>1. x = hole /\ Far(n, first, s) > i
    BY <1>4 DEF FillInv
  <2>2. Home(c, n, a[s].key) \in Slots(n)
    BY <1>2, <1>4, EntryIs, HomeIsSlot DEF Slots
  <2>3. Far(n, first, s) # Far(n, first, t)
    BY <1>3, <1>4 DEF Far, Slots
  <2>4. Far(n, first, hole) < Far(n, first, t) /\ Far(n, first, t) < Far(n, first, s)
    BY <1>1, <1>2, <2>1, <2>3
  <2>5. Far(n, Home(c, n, a[s].key), t) < Far(n, Home(c, n, a[s].key), s)
    BY <1>2, <1>4, <2>1, <2>2, <2>4, RingOrder DEF Before
  <2> QED
    BY <1>3, <1>4, <2>5 DEF FillInv, Before
<1> QED
  BY <1>4 DEF Table, Reachable, FillInv

\* Before the first turn the hole is where the entry was.
LEMMA ClearedIs ==
    ASSUME NEW c \in [Hashed -> Nat], NEW n \in Nat \ {0}, NEW e,
           NEW h \in [Hashed -> Vals \cup {None}], Table(c, e, n, h),
           NEW first \in Slots(n), e[first] # None, NEW t \in Slots(n)
    PROVE  LET cleared == [e EXCEPT ![first] = None]
           IN FillInv(c, n, [h EXCEPT ![e[first].key] = None], cleared, first, t, 0, cleared, first)
<1> DEFINE a == [e EXCEPT ![first] = None]
           g == [h EXCEPT ![e[first].key] = None]
<1>1. e[first].key \in Hashed
  BY EntryIs DEF Table
<1>2. a[first] = None /\ \A x \in Slots(n) : x # first => a[x] = e[x]
  BY DEF Table, IsArray
<1>3. IsArray(a, n)
  BY DEF Table, IsArray
<1>4. Far(n, first, first) = 0 /\ \A s \in Slots(n) : s # first => Far(n, first, s) > 0
  BY DEF Far, Slots
<1> HIDE DEF a
<1>5. OnePerKey(a, n)
  BY <1>2 DEF Table, OnePerKey
<1>6. Holds(a, n, g)
  <2>1. ASSUME NEW s \in Slots(n), a[s] # None
        PROVE  g[a[s].key] = a[s].val
    <3>1. s # first /\ a[s] = e[s]
      BY <1>2, <2>1
    <3>2. e[s].key # e[first].key /\ e[s].key \in Hashed /\ h[e[s].key] = e[s].val
      BY <2>1, <3>1, EntryIs DEF Table, OnePerKey, Holds
    <3> QED
      BY <3>1, <3>2
  <2>2. ASSUME NEW k \in Hashed, g[k] # None
        PROVE  \E s \in Slots(n) : a[s] # None /\ a[s].key = k
    <3>1. k # e[first].key /\ h[k] # None
      BY <2>2
    <3>2. PICK s \in Slots(n) : e[s] # None /\ e[s].key = k
      BY <3>1 DEF Table, Holds
    <3> QED
      BY <1>2, <3>1, <3>2
  <2> HIDE DEF g
  <2> QED
    BY <2>1, <2>2 DEF Holds
<1>7. ASSUME NEW s \in Slots(n), NEW x \in Slots(n),
             a[s] # None, Before(c, n, a[s].key, x, s), a[x] = None
      PROVE  x = first /\ Far(n, first, s) > 0
  <2>1. s # first /\ a[s] = e[s]
    BY <1>2, <1>7
  <2>2. e[x] # None
    BY <1>7, <2>1 DEF Table, Reachable
  <2> QED
    BY <1>2, <1>4, <1>7, <2>1, <2>2
<1> HIDE DEF g
<1>8. FillInv(c, n, g, a, first, t, 0, a, first)
  BY <1>2, <1>3, <1>4, <1>5, <1>6, <1>7 DEF FillInv
<1> QED
  BY <1>8 DEF a, g

\* The slots the loop looks at are those behind the first, in order.
LEMMA LookIs ==
    ASSUME NEW n \in Nat \ {0}, NEW first \in Slots(n)
    PROVE  \A i \in 0 .. n : (first + i) % n = At(n, first, i)
<1>1. ASSUME NEW i \in 0 .. n
      PROVE  (first + i) % n = At(n, first, i)
  <2>1. first \in Nat /\ first % n = first
    BY DEF Slots
  <2> QED
    BY <2>1, Wrap
<1> QED
  BY <1>1

\* The loop ends before it comes back to the first slot, at a blank one.
LEMMA EndIs ==
    ASSUME NEW n \in Nat \ {0}, NEW first \in Slots(n), NEW a, a[first] = None,
           NEW y \in Slots(n), y # first, a[y] = None
    PROVE  LET end == CHOOSE i \in 1 .. n : Ended(a, n, first, i) IN
           /\ end \in 1 .. n - 1
           /\ a[At(n, first, end)] = None
           /\ \A j \in 1 .. end - 1 : a[At(n, first, j)] # None
<1> DEFINE T == {i \in 1 .. n : a[At(n, first, i)] = None}
<1>1. Far(n, first, y) \in 1 .. n - 1 /\ At(n, first, Far(n, first, y)) = y
  BY DEF Far, At, Slots
<1>2. Far(n, first, y) \in T
  BY <1>1
<1>3. PICK m \in T : \A x \in T : m <= x
  <2>1. T \subseteq Nat /\ T # {}
    BY <1>2
  <2> HIDE DEF T
  <2> QED
    BY <2>1, Least
<1>4. \A i \in 1 .. n :
        Ended(a, n, first, i) <=>
          a[At(n, first, i)] = None /\ \A j \in 1 .. i - 1 : a[At(n, first, j)] # None
  <2>1. ASSUME NEW i \in 1 .. n
        PROVE  /\ (first + i) % n = At(n, first, i)
               /\ \A j \in 1 .. i - 1 : (first + j) % n = At(n, first, j)
    BY LookIs
  <2> QED
    BY <2>1 DEF Ended
<1>5. Ended(a, n, first, m)
  <2>1. \A j \in 1 .. m - 1 : j \notin T /\ j \in 1 .. n
    BY <1>3
  <2> QED
    BY <1>3, <1>4, <2>1
<1> DEFINE end == CHOOSE i \in 1 .. n : Ended(a, n, first, i)
<1>6. end \in 1 .. n /\ Ended(a, n, first, end)
  BY <1>3, <1>5
<1> HIDE DEF end
<1>7. end # n
  <2>1. Far(n, first, y) \in 1 .. n - 1
    BY <1>1
  <2> QED
    BY <1>1, <1>4, <1>6, <2>1
<1> QED
  BY <1>4, <1>6, <1>7 DEF end

\* fz_hash_remove takes out the entry of the key, and everything else is still found.
LEMMA RemovedIs ==
    ASSUME code \in [Hashed -> Nat], NEW n \in Nat \ {0}, NEW e,
           NEW h \in [Hashed -> Vals \cup {None}], Table(code, e, n, h), HasBlank(e, n),
           NEW k \in Hashed, h[k] # None
    PROVE  Table(code, Removed(e, n, k), n, [h EXCEPT ![k] = None])
<1> DEFINE first == CHOOSE s \in Stops(e, n, k) : TRUE
           cleared == [e EXCEPT ![first] = None]
           end == CHOOSE i \in 1 .. n : Ended(cleared, n, first, i)
           f == CHOOSE m : IsFilling(m, cleared, n, first)
           t == At(n, first, end)
           g == [h EXCEPT ![k] = None]
<1>1. first \in Slots(n) /\ e[first] # None /\ e[first].key = k
  <2>1. PICK s \in Slots(n) : e[s] # None /\ e[s].key = k
    BY DEF Table, Holds
  <2>2. s \in Stops(e, n, k)
    BY <2>1, EntryIsStop
  <2>3. first = s
    BY <2>2, OneStop
  <2> QED
    BY <2>1, <2>3
<1>2. Removed(e, n, k) = f[end - 1].ents
  BY RemovedUnfolds
<1> HIDE DEF first
<1>3. /\ cleared \in [Slots(n) -> Cells] /\ cleared[first] = None
      /\ \A x \in Slots(n) : x # first => cleared[x] = e[x]
  BY <1>1 DEF Table, IsArray, Cells
<1>4. FillInv(code, n, g, cleared, first, t, 0, cleared, first)
  <2>1. t \in Slots(n)
    <3>1. PICK y \in Slots(n) : e[y] = None
      BY DEF HasBlank
    <3>2. y # first /\ cleared[y] = None
      BY <1>1, <1>3, <3>1
    <3> HIDE DEF cleared
    <3>3. end \in 1 .. n - 1
      BY <1>1, <1>3, <3>2, EndIs
    <3> HIDE DEF end
    <3> QED
      BY <1>1, <3>3 DEF At, Slots
  <2> HIDE DEF t
  <2> QED
    BY <1>1, <2>1, ClearedIs
<1> HIDE DEF cleared
<1>5. /\ end \in 1 .. n - 1
      /\ cleared[t] = None
      /\ \A j \in 1 .. end - 1 : cleared[At(n, first, j)] # None
  <2>1. PICK y \in Slots(n) : e[y] = None
    BY DEF HasBlank
  <2>2. y # first /\ cleared[y] = None
    BY <1>1, <1>3, <2>1
  <2> QED
    BY <1>1, <1>3, <2>2, EndIs
<1> HIDE DEF end
<1>6. t \in Slots(n) /\ Far(n, first, t) = end
  BY <1>1, <1>5 DEF At, Far, Slots
<1>7. IsFilling(f, cleared, n, first)
  <2>1. \E m : IsFilling(m, cleared, n, first)
    BY <1>1, <1>3, FillingExists
  <2> QED
    BY <2>1
<1> HIDE DEF f, t, g
<1> DEFINE Inv(i) == FillInv(code, n, g, cleared, first, t, i, f[i].ents, f[i].hole)
           T == {i \in Nat : i < end => Inv(i)}
<1>8. 0 \in T
  <2>1. f[0] = [ents |-> cleared, hole |-> first]
    BY <1>7 DEF IsFilling
  <2>2. f[0].ents = cleared /\ f[0].hole = first
    BY <2>1
  <2> QED
    BY <1>4, <2>2
<1>9. ASSUME NEW i \in T
      PROVE  i + 1 \in T
  <2> SUFFICES ASSUME i + 1 < end
               PROVE  Inv(i + 1)
    OBVIOUS
  <2> DEFINE a == f[i].ents
             hole == f[i].hole
             look == At(n, first, i + 1)
  <2>1. FillInv(code, n, g, cleared, first, t, i, a, hole)
    BY <1>5
  <2>2. i + 1 \in 1 .. n /\ i + 1 \in 0 .. n - 1 /\ i + 1 \in 1 .. end - 1
    BY <1>5
  <2>3. f[i + 1] = FillStep(n, first, i + 1, f[i])
    BY <1>7, <2>2 DEF IsFilling
  <2>4. (first + (i + 1)) % n = look
    BY <1>1, <2>2, LookIs
  <2>5. look \in Slots(n) /\ Far(n, first, look) = i + 1
    BY <1>1, <2>2 DEF At, Far, Slots
  <2>6. cleared[look] # None
    BY <1>5, <2>2
  <2> HIDE DEF look
  <2>7. a[look] # None
    BY <2>1, <2>5, <2>6 DEF FillInv
  <2>8. f[i + 1] = IF MayFill(Home(code, n, a[look].key), hole, look)
                   THEN [ents |-> Moved(a, hole, look), hole |-> look] ELSE f[i]
    BY <2>3, <2>4 DEF FillStep, Home, Moved
  <2> HIDE DEF a, hole
  <2>9. hole \in Slots(n) /\ hole # look /\ a[look].key \in Hashed
    BY <2>1, <2>5, <2>7, EntryIs DEF FillInv
  <2>10. MayFill(Home(code, n, a[look].key), hole, look)
           <=> Before(code, n, a[look].key, hole, look)
    BY <2>5, <2>9, HomeIsSlot, MayFillIs DEF Before, Slots
  <2>11. CASE Before(code, n, a[look].key, hole, look)
    <3>1. f[i + 1].ents = Moved(a, hole, look) /\ f[i + 1].hole = look
      BY <2>8, <2>10, <2>11
    <3>2. FillInv(code, n, g, cleared, first, t, i + 1, Moved(a, hole, look), look)
      BY <1>1, <1>5, <1>6, <2>1, <2>5, <2>7, <2>11, MovingKeeps
    <3> QED
      BY <3>1, <3>2
  <2>12. CASE ~Before(code, n, a[look].key, hole, look)
    <3>1. f[i + 1].ents = a /\ f[i + 1].hole = hole
      BY <2>8, <2>10, <2>12 DEF a, hole
    <3>2. FillInv(code, n, g, cleared, first, t, i + 1, a, hole)
      BY <1>1, <1>6, <2>1, <2>5, <2>7, <2>12, StayingKeeps
    <3> QED
      BY <3>1, <3>2
  <2> QED
    BY <2>11, <2>12
<1>10. T = Nat
  <2>1. T \in SUBSET Nat
    OBVIOUS
  <2> HIDE DEF T
  <2> QED
    BY <1>8, <1>9, <2>1, SetInduction
<1>11. Inv(end - 1)
  <2>1. end - 1 \in Nat /\ end - 1 < end
    BY <1>5
  <2>2. end - 1 \in T
    BY <1>10, <2>1
  <2> QED
    BY <2>1, <2>2
<1>12. Table(code, f[end - 1].ents, n, g)
  <2>1. end - 1 \in Nat /\ end - 1 + 1 = Far(n, first, t)
    BY <1>5, <1>6
  <2> QED
    BY <1>1, <1>5, <1>6, <1>11, <2>1, FilledIs
<1> QED
  BY <1>2, <1>12 DEF g

-----------------------------------------------------------------------------
(***************************************************************************)
(* Resizing.                                                               *)
(***************************************************************************)
Filed(h) == {k \in Hashed : h[k] # None}

\* A table with fewer entries than slots has a blank slot.
LEMMA BlankIsLeft ==
    ASSUME NEW c, NEW n \in Nat \ {0}, NEW e, NEW h, Table(c, e, n, h),
           IsFiniteSet(Filed(h)), Cardinality(Filed(h)) < n
    PROVE  HasBlank(e, n)
<1> SUFFICES ASSUME ~HasBlank(e, n)
             PROVE  FALSE
  OBVIOUS
<1> DEFINE f == [s \in Slots(n) |-> e[s].key]
<1>1. \A s \in Slots(n) : e[s] # None
  BY DEF HasBlank
<1>2. ASSUME NEW s \in Slots(n)
      PROVE  e[s].key \in Filed(h)
  <2>1. e[s].key \in Hashed /\ e[s].val \in Vals
    BY <1>1, EntryIs DEF Table
  <2>2. h[e[s].key] = e[s].val
    BY <1>1 DEF Table, Holds
  <2> QED
    BY <2>1, <2>2, NoneAssumption DEF Filed
<1>3. f \in [Slots(n) -> Filed(h)]
  BY <1>2
<1>4. IsFiniteSet(Slots(n)) /\ Cardinality(Slots(n)) = n
  BY FS_Interval DEF Slots
<1>5. \E s, x \in Slots(n) : s # x /\ f[s] = f[x]
  <2> HIDE DEF f
  <2> QED
    BY <1>3, <1>4, FS_PigeonHole
<1> QED
  BY <1>1, <1>5 DEF Table, OnePerKey

\* The loop of fz_resize_hash.
MoveStep(e, new, i, before) ==
    IF e[i - 1] = None THEN before ELSE Inserted(before, new, e[i - 1])

IsMoving(f, e, old, new) ==
    f = [i \in 0 .. old |-> IF i = 0 THEN Blank(new) ELSE MoveStep(e, new, i, f[i - 1])]

LEMMA ResizedUnfolds ==
    ASSUME NEW e, NEW old, NEW new
    PROVE  Resized(e, old, new) = (CHOOSE f : IsMoving(f, e, old, new))[old]
BY DEF Resized, IsMoving, MoveStep

LEMMA MovingExists ==
    ASSUME NEW old \in Nat, NEW new \in Nat, NEW e \in [Slots(old) -> Cells]
    PROVE  \E f : IsMoving(f, e, old, new)
<1> DEFINE S == [Slots(new) -> Cells]
           s == Blank(new)
           next(i, b) == IF i \in 1 .. old THEN MoveStep(e, new, i, b) ELSE b
           step == [p \in Nat \X S |-> next(p[1], p[2])]
<1>1. s \in S
  BY DEF Blank, Slots, Cells
<1>2. ASSUME NEW i \in Nat, NEW b \in S
      PROVE  next(i, b) \in S
  <2>1. CASE i \in 1 .. old
    <3>1. i - 1 \in Slots(old)
      BY <2>1 DEF Slots
    <3>2. e[i - 1] \in Cells
      BY <3>1
    <3>3. Inserted(b, new, e[i - 1]) \in S
      BY <3>2 DEF Inserted, Slots
    <3> QED
      BY <2>1, <3>3 DEF MoveStep
  <2>2. CASE i \notin 1 .. old
    BY <2>2
  <2> QED
    BY <2>1, <2>2
<1> HIDE DEF S, s, next
<1>3. step \in Steps(S)
  BY <1>2 DEF Steps
<1>4. \A i \in Nat : \A b \in S : step[<<i, b>>] = next(i, b)
  OBVIOUS
<1> HIDE DEF step
<1>5. PICK f : IsRecursive(f, old, S, s, step)
  <2>1. \A m \in Nat : \E f : IsRecursive(f, m, S, s, step)
    BY <1>1, <1>3, Recursion
  <2> QED
    BY <2>1
<1>6. /\ f \in [0 .. old -> S] /\ f[0] = s
      /\ \A m \in 1 .. old : f[m] = step[<<m, f[m - 1]>>]
  BY <1>5 DEF IsRecursive
<1>7. ASSUME NEW i \in 0 .. old
      PROVE  f[i] = IF i = 0 THEN s ELSE MoveStep(e, new, i, f[i - 1])
  <2>1. CASE i = 0
    BY <1>6, <2>1
  <2>2. CASE i # 0
    <3>1. i \in 1 .. old /\ i - 1 \in 0 .. old /\ i \in Nat
      BY <2>2
    <3>2. f[i - 1] \in S
      BY <1>6, <3>1
    <3>3. f[i] = next(i, f[i - 1])
      BY <1>4, <1>6, <3>1, <3>2
    <3> QED
      BY <2>2, <3>1, <3>3 DEF next
  <2> QED
    BY <2>1, <2>2
<1>8. f = [i \in 0 .. old |-> f[i]]
  BY <1>6
<1>9. f = [i \in 0 .. old |-> IF i = 0 THEN s ELSE MoveStep(e, new, i, f[i - 1])]
  BY <1>7, <1>8
<1> QED
  BY <1>9 DEF IsMoving, s

\* The part of the map whose entries are in the first i slots.
PartOf(e, n, h, i) ==
    [k \in Hashed |-> IF \E s \in Slots(n) : s < i /\ e[s] # None /\ e[s].key = k
                      THEN h[k] ELSE None]

LEMMA PartGrows ==
    ASSUME NEW n \in Nat \ {0}, NEW e, NEW h \in [Hashed -> Vals \cup {None}],
           IsArray(e, n), OnePerKey(e, n), Holds(e, n, h), NEW i \in Slots(n)
    PROVE  /\ PartOf(e, n, h, i) \in [Hashed -> Vals \cup {None}]
           /\ Filed(PartOf(e, n, h, i)) \subseteq Filed(h)
           /\ e[i] = None => PartOf(e, n, h, i + 1) = PartOf(e, n, h, i)
           /\ e[i] # None =>
                /\ PartOf(e, n, h, i)[e[i].key] = None
                /\ PartOf(e, n, h, i + 1) = [PartOf(e, n, h, i) EXCEPT ![e[i].key] = e[i].val]
<1> DEFINE p == PartOf(e, n, h, i)
           q == PartOf(e, n, h, i + 1)
           In(k, m) == \E s \in Slots(n) : s < m /\ e[s] # None /\ e[s].key = k
<1>1. p = [k \in Hashed |-> IF In(k, i) THEN h[k] ELSE None]
  BY DEF PartOf
<1>2. q = [k \in Hashed |-> IF In(k, i + 1) THEN h[k] ELSE None]
  BY DEF PartOf
<1>3. \A s \in Slots(n) : s < i + 1 <=> s < i \/ s = i
  BY DEF Slots
<1>4. \A k \in Hashed : In(k, i + 1) <=> In(k, i) \/ (e[i] # None /\ e[i].key = k)
  BY <1>3
<1>5. e[i] # None => /\ e[i].key \in Hashed /\ h[e[i].key] = e[i].val
                     /\ ~In(e[i].key, i)
  <2>1. \A s \in Slots(n) : s < i => s # i
    BY DEF Slots
  <2> QED
    BY <2>1, EntryIs DEF Holds, OnePerKey
<1> HIDE DEF p, q, In
<1>6. p \in [Hashed -> Vals \cup {None}] /\ Filed(p) \subseteq Filed(h)
  BY <1>1 DEF Filed
<1>7. e[i] = None => q = p
  BY <1>1, <1>2, <1>4
<1>8. ASSUME e[i] # None
      PROVE  p[e[i].key] = None /\ q = [p EXCEPT ![e[i].key] = e[i].val]
  <2>1. p[e[i].key] = None
    BY <1>1, <1>5, <1>8
  <2>2. ASSUME NEW k \in Hashed
        PROVE  q[k] = IF k = e[i].key THEN e[i].val ELSE p[k]
    BY <1>1, <1>2, <1>4, <1>5, <1>8
  <2>3. q = [k \in Hashed |-> IF k = e[i].key THEN e[i].val ELSE p[k]]
    BY <1>2, <2>2
  <2>4. p \in [Hashed -> Vals \cup {None}]
    BY <1>6
  <2> QED
    BY <2>1, <2>3, <2>4
<1> QED
  BY <1>6, <1>7, <1>8 DEF p, q

\* fz_resize_hash keeps every entry.
LEMMA ResizedIs ==
    ASSUME code \in [Hashed -> Nat], NEW n \in Nat \ {0}, NEW m \in Nat \ {0}, NEW e,
           NEW h \in [Hashed -> Vals \cup {None}], Table(code, e, n, h),
           IsFiniteSet(Filed(h)), Cardinality(Filed(h)) < m
    PROVE  Table(code, Resized(e, n, m), m, h)
<1> DEFINE f == CHOOSE g : IsMoving(g, e, n, m)
           T == {i \in Nat : i <= n => Table(code, f[i], m, PartOf(e, n, h, i))}
<1>1. Resized(e, n, m) = f[n]
  BY ResizedUnfolds
<1>2. IsMoving(f, e, n, m)
  <2>1. e \in [Slots(n) -> Cells]
    BY DEF Table, IsArray, Cells
  <2>2. \E g : IsMoving(g, e, n, m)
    BY <2>1, MovingExists
  <2> QED
    BY <2>2
<1> HIDE DEF f
<1>3. 0 \in T
  <2>1. f[0] = Blank(m)
    BY <1>2 DEF IsMoving
  <2>2. Blank(m) = [s \in Slots(m) |-> None]
    BY DEF Blank, Slots
  <2>3. \A k \in Hashed : PartOf(e, n, h, 0)[k] = None
    BY DEF PartOf, Slots
  <2>4. Table(code, Blank(m), m, PartOf(e, n, h, 0))
    BY <2>2, <2>3 DEF Table, IsArray, OnePerKey, Reachable, Holds
  <2> QED
    BY <2>1, <2>4
<1>4. ASSUME NEW i \in T
      PROVE  i + 1 \in T
  <2> SUFFICES ASSUME i + 1 <= n
               PROVE  Table(code, f[i + 1], m, PartOf(e, n, h, i + 1))
    OBVIOUS
  <2> DEFINE p == PartOf(e, n, h, i)
  <2>1. i \in Slots(n) /\ i + 1 \in 1 .. n /\ (i + 1) - 1 = i
    BY DEF Slots
  <2>2. Table(code, f[i], m, p)
    OBVIOUS
  <2>3. f[i + 1] = IF e[i] = None THEN f[i] ELSE Inserted(f[i], m, e[i])
    BY <1>2, <2>1 DEF IsMoving, MoveStep
  <2>4. /\ p \in [Hashed -> Vals \cup {None}]
        /\ Filed(p) \subseteq Filed(h)
        /\ e[i] = None => PartOf(e, n, h, i + 1) = p
        /\ e[i] # None =>
             /\ p[e[i].key] = None
             /\ PartOf(e, n, h, i + 1) = [p EXCEPT ![e[i].key] = e[i].val]
    BY <2>1, PartGrows DEF Table
  <2> HIDE DEF p
  <2>5. CASE e[i] = None
    BY <2>2, <2>3, <2>4, <2>5
  <2>6. CASE e[i] # None
    <3>1. /\ e[i].key \in Hashed /\ e[i].val \in Vals
          /\ e[i] = Entry(e[i].key, e[i].val)
      BY <2>1, <2>6, EntryIs DEF Table
    <3>2. HasBlank(f[i], m)
      <4>1. IsFiniteSet(Filed(p)) /\ Cardinality(Filed(p)) <= Cardinality(Filed(h))
        BY <2>4, FS_Subset
      <4>2. Cardinality(Filed(p)) \in Nat /\ Cardinality(Filed(h)) \in Nat
        BY <4>1, FS_CardinalityType
      <4>3. Cardinality(Filed(p)) < m
        BY <4>1, <4>2
      <4> QED
        BY <2>2, <4>1, <4>3, BlankIsLeft
    <3>3. Table(code, Inserted(f[i], m, Entry(e[i].key, e[i].val)), m,
                [p EXCEPT ![e[i].key] = e[i].val])
      BY <2>2, <2>4, <2>6, <3>1, <3>2, InsertedIs
    <3> QED
      BY <2>3, <2>4, <2>6, <3>1, <3>3
  <2> QED
    BY <2>5, <2>6
<1>5. T = Nat
  <2>1. T \in SUBSET Nat
    OBVIOUS
  <2> HIDE DEF T
  <2> QED
    BY <1>3, <1>4, <2>1, SetInduction
<1>6. Table(code, f[n], m, PartOf(e, n, h, n))
  <2>1. n \in T /\ n <= n
    BY <1>5
  <2> QED
    BY <2>1
<1>7. PartOf(e, n, h, n) = h
  <2>1. \A s \in Slots(n) : s < n
    BY DEF Slots
  <2>2. \A k \in Hashed : PartOf(e, n, h, n)[k] = h[k]
    BY <2>1 DEF PartOf, Table, Holds
  <2> QED
    BY <2>2 DEF PartOf
<1> QED
  BY <1>1, <1>6, <1>7

-----------------------------------------------------------------------------
(***************************************************************************)
(* The steps of the store as far as the table is concerned.                *)
(***************************************************************************)
Linking == {t \in Threads : pc[t] = "link"}

\* There is a blank slot for every thread that has made the table larger and not filed its item
\* yet, and one more.
BlanksLeft ==
    /\ IsFiniteSet(Filed(hash))
    /\ Cardinality(Filed(hash)) + Cardinality(Linking) < tableSize
    /\ Linking # {} => Roomy(tableSize)
    /\ tableSize = TableSize \/ Roomy(tableSize)
    /\ \A t \in Threads : pc[t] = "resize" => Roomy(newSize[t])

OneGone == \E k \in Hashed : hash[k] # None /\ hash' = [hash EXCEPT ![k] = None]
OneNew ==
    \E k \in Hashed, v \in Vals : hash[k] = None /\ hash' = [hash EXCEPT ![k] = v]

\* Who makes the table larger asks for twice its size.
SizesAsked ==
    \A t \in Threads : pc'[t] = "resize" =>
        newSize'[t] = 2 * tableSize \/ (pc[t] = "resize" /\ newSize'[t] = newSize[t])

\* The five ways a step changes the table.
Keeps == hash' = hash /\ tableSize' = tableSize /\ Linking' \subseteq Linking /\ SizesAsked
Removes == OneGone /\ tableSize' = tableSize /\ Linking' \subseteq Linking /\ SizesAsked
Adds ==
    /\ OneNew /\ tableSize' = tableSize /\ Linking' = Linking /\ SizesAsked
    /\ Linking # Threads /\ Load <= (tableSize * LoadTenths) \div 10
AddsResized ==
    /\ OneNew /\ tableSize' = tableSize /\ SizesAsked
    /\ \E t \in Linking : Linking' = Linking \ {t}
Grows ==
    /\ hash' = hash /\ SizesAsked
    /\ \E t \in Threads :
         /\ pc[t] = "resize" /\ tableSize < newSize[t] /\ tableSize' = newSize[t]
         /\ Linking' = Linking \cup {t}

TableChange == Keeps \/ Removes \/ Adds \/ AddsResized \/ Grows

LEMMA WithoutGone ==
    ASSUME TypeOK, NEW v, hash' = HashWithout(v)
    PROVE  hash' = hash \/ OneGone
<1>1. hash \in [Hashed -> Vals \cup {None}]
  BY DEF TypeOK
<1>2. CASE KeyOf[v] \in Hashed /\ hash[KeyOf[v]] # None
  <2>1. hash' = [hash EXCEPT ![KeyOf[v]] = None]
    BY <1>1, <1>2 DEF HashWithout
  <2> QED
    BY <1>2, <2>1 DEF OneGone
<1>3. CASE ~(KeyOf[v] \in Hashed /\ hash[KeyOf[v]] # None)
  <2>1. \A k \in Hashed : hash'[k] = hash[k]
    BY <1>3 DEF HashWithout
  <2>2. hash' = [k \in Hashed |-> hash'[k]] /\ hash = [k \in Hashed |-> hash[k]]
    BY <1>1 DEF HashWithout
  <2> QED
    BY <2>1, <2>2
<1> QED
  BY <1>2, <1>3

LEMMA LinkChange ==
    ASSUME TypeOK, NEW t \in Threads, NEW v \in Vals, Link(t, v)
    PROVE  /\ hash' = hash \/ (OneNew /\ KeyOf[v] \in Hashed)
           /\ pc' = [pc EXCEPT ![t] = "idle"]
<1>1. hash \in [Hashed -> Vals \cup {None}]
  BY DEF TypeOK
<1>2. CASE Existing(v) # None
  BY <1>2 DEF Link
<1>3. CASE Existing(v) = None
  <2>1. hash' = [k \in Hashed |-> IF k = KeyOf[v] THEN v ELSE hash[k]]
    BY <1>3 DEF Link
  <2>2. CASE KeyOf[v] \in Hashed
    <3>1. hash[KeyOf[v]] = None
      BY <1>3, <2>2 DEF Existing
    <3>2. hash' = [hash EXCEPT ![KeyOf[v]] = v]
      BY <1>1, <2>1, <2>2
    <3> QED
      BY <2>2, <3>1, <3>2 DEF OneNew, Link
  <2>3. CASE KeyOf[v] \notin Hashed
    <3>1. \A k \in Hashed : hash'[k] = hash[k]
      BY <2>1, <2>3
    <3>2. hash' = [k \in Hashed |-> hash'[k]] /\ hash = [k \in Hashed |-> hash[k]]
      BY <1>1, <2>1
    <3>3. hash' = hash
      BY <3>1, <3>2
    <3> QED
      BY <3>3 DEF Link
  <2> QED
    BY <2>2, <2>3
<1>4. pc' = [pc EXCEPT ![t] = "idle"]
  BY DEF Link
<1> QED
  BY <1>2, <1>3, <1>4

\* The position of one thread changes, to one in which it does not use the table.
LEMMA PcChange ==
    ASSUME TypeOK, NEW t \in Threads, NEW x, x \notin {"link", "resize"},
           pc' = pc \/ pc' = [pc EXCEPT ![t] = x],
           newSize' = newSize
    PROVE  /\ Linking' \subseteq Linking
           /\ SizesAsked
           /\ pc' = [pc EXCEPT ![t] = x] => Linking' = Linking \ {t}
BY DEF TypeOK, Linking, SizesAsked

LEMMA StoreChange ==
    ASSUME TypeOK, Good, IsFiniteSet(Filed(hash)), NEW t \in Threads, Store(t)
    PROVE  TableChange
<1>1. cur[t] \in Vals /\ pc[t] = "begin" /\ tableSize' = tableSize
  BY DEF Store, Good, CurTells, TypeOK
<1>2. t \notin Linking /\ Linking # Threads
  BY <1>1 DEF Linking
<1>3. CASE Insert(t, cur[t])
  <2>1. CASE MustGrow(cur[t])
    <3>1. /\ pc' = [pc EXCEPT ![t] = "resize"]
          /\ newSize' = [newSize EXCEPT ![t] = 2 * tableSize]
          /\ hash' = hash
      BY <1>3, <2>1 DEF Insert
    <3>2. Linking' \subseteq Linking
      BY <3>1 DEF TypeOK, Linking
    <3>3. SizesAsked
      <4>1. pc \in [Threads -> Operations] /\ newSize \in [Threads -> Nat]
        BY DEF TypeOK
      <4>2. ASSUME NEW u \in Threads, pc'[u] = "resize"
            PROVE  newSize'[u] = 2 * tableSize \/ (pc[u] = "resize" /\ newSize'[u] = newSize[u])
        <5>1. CASE u = t
          BY <3>1, <4>1, <5>1
        <5>2. CASE u # t
          BY <3>1, <4>1, <4>2, <5>2
        <5> QED
          BY <5>1, <5>2
      <4> QED
        BY <4>2 DEF SizesAsked
    <3> QED
      BY <1>1, <3>1, <3>2, <3>3 DEF TableChange, Keeps
  <2>2. CASE ~MustGrow(cur[t])
    <3>1. Link(t, cur[t]) /\ newSize' = newSize
      BY <1>3, <2>2 DEF Insert
    <3>2. /\ hash' = hash \/ (OneNew /\ KeyOf[cur[t]] \in Hashed)
          /\ pc' = [pc EXCEPT ![t] = "idle"]
      BY <1>1, <3>1, LinkChange
    <3>3. Linking' = Linking /\ SizesAsked
      BY <1>2, <3>1, <3>2, PcChange
    <3>4. ASSUME KeyOf[cur[t]] \in Hashed
          PROVE  ~(Load > (tableSize * LoadTenths) \div 10)
      BY <2>2, <3>4 DEF MustGrow
    <3>5. ASSUME OneNew, KeyOf[cur[t]] \in Hashed
          PROVE  Adds
      <4>1. Load = Cardinality(Filed(hash))
        BY DEF Load, Filed
      <4>2. Load \in Nat
        BY <4>1, FS_CardinalityType
      <4>3. (tableSize * LoadTenths) \div 10 \in Int
        BY TableAssumption DEF TypeOK
      <4> QED
        BY <1>1, <1>2, <3>3, <3>4, <3>5, <4>2, <4>3 DEF Adds
    <3> QED
      BY <1>1, <3>2, <3>3, <3>5 DEF TableChange, Keeps
  <2> QED
    BY <2>1, <2>2
<1>4. CASE InsertIntoFull(t, cur[t])
  <2> DEFINE tofree == size + Size[cur[t]] - MaxSize
  <2>1. (StartWalk(t, refs, tofree) \/ GiveUp(t, refs, tofree)) /\ newSize' = newSize
    BY <1>4 DEF InsertIntoFull
  <2> HIDE DEF tofree
  <2>2. /\ hash' = hash \/ OneGone
        /\ pc' = [pc EXCEPT ![t] = "store"] \/ pc' = [pc EXCEPT ![t] = "idle"]
    BY <2>1, WithoutGone DEF StartWalk, GiveUp, EvictPinned, Evict
  <2>3. Linking' \subseteq Linking /\ SizesAsked
    BY <2>1, <2>2, PcChange
  <2> QED
    BY <1>1, <2>2, <2>3 DEF TableChange, Keeps, Removes
<1> QED
  BY <1>3, <1>4 DEF Store

LEMMA StepChange ==
    ASSUME TypeOK, Good, IsFiniteSet(Filed(hash)), NEW t \in Threads, Step(t)
    PROVE  TableChange
<1>1. CASE Store(t)
  BY <1>1, StoreChange
<1>2. CASE EnsureSpace(t)
  <2> DEFINE from == {i \in DOMAIN list : list[i] = prev[t] /\ count[t] < need[t]}
             n == IF from = {} THEN 0 ELSE CHOOSE i \in from : TRUE
             r == Unpinned(t)
  <2>1. /\ WalkOn(t, r, n) \/ StartWalk(t, r, need[t]) \/ GiveUp(t, r, need[t])
        /\ newSize' = newSize /\ tableSize' = tableSize
    BY <1>2 DEF EnsureSpace
  <2> HIDE DEF r, n
  <2>2. /\ hash' = hash \/ OneGone
        /\ pc' = [pc EXCEPT ![t] = "store"] \/ pc' = [pc EXCEPT ![t] = "idle"]
    BY <2>1, WithoutGone DEF WalkOn, StartWalk, GiveUp, EvictPinned, Evict
  <2>3. Linking' \subseteq Linking /\ SizesAsked
    BY <2>1, <2>2, PcChange
  <2> QED
    BY <2>1, <2>2, <2>3 DEF TableChange, Keeps, Removes
<1>3. CASE Resize(t)
  <2>1. /\ hash' = hash /\ newSize' = newSize /\ pc' = [pc EXCEPT ![t] = "link"]
        /\ pc[t] = "resize" /\ tableSize < newSize[t] /\ tableSize' = newSize[t]
    BY <1>3 DEF Resize, storeVars
  <2>2. Linking' = Linking \cup {t} /\ SizesAsked
    BY <2>1 DEF TypeOK, Linking, SizesAsked
  <2> QED
    BY <2>1, <2>2 DEF TableChange, Grows
<1>4. CASE ResizeFails(t)
  BY <1>4 DEF ResizeFails, storeVars, threadVars, TableChange, Keeps, Linking, SizesAsked
<1>5. CASE LinkResized(t)
  <2>1. /\ cur[t] \in Vals /\ t \in Linking /\ Link(t, cur[t])
        /\ newSize' = newSize /\ tableSize' = tableSize
    BY <1>5 DEF LinkResized, Good, CurTells, TypeOK, Linking
  <2>2. (hash' = hash \/ OneNew) /\ pc' = [pc EXCEPT ![t] = "idle"]
    BY <2>1, LinkChange
  <2>3. Linking' = Linking \ {t} /\ SizesAsked
    BY <2>1, <2>2, PcChange
  <2> QED
    BY <2>1, <2>2, <2>3 DEF TableChange, Keeps, AddsResized
<1>6. CASE EndScavenge(t)
  <2>1. /\ hash' = hash /\ newSize' = newSize /\ pc' = [pc EXCEPT ![t] = "idle"]
        /\ tableSize' = tableSize
    BY <1>6 DEF EndScavenge, storeVars
  <2>2. Linking' \subseteq Linking /\ SizesAsked
    BY <2>1, PcChange
  <2> QED
    BY <2>1, <2>2 DEF TableChange, Keeps
<1>7. CASE Empty(t)
  <2>1. /\ hash' = hash \/ OneGone
        /\ newSize' = newSize /\ tableSize' = tableSize
        /\ pc' = pc \/ pc' = [pc EXCEPT ![t] = "idle"]
    BY <1>7, WithoutGone DEF Empty, Evict, storeVars
  <2>2. Linking' \subseteq Linking /\ SizesAsked
    BY <2>1, PcChange
  <2> QED
    BY <2>1, <2>2 DEF TableChange, Keeps, Removes
<1>8. CASE FreeVictim(t)
  BY <1>8 DEF FreeVictim, storeVars, TableChange, Keeps, Linking, SizesAsked
<1> QED
  BY <1>1, <1>2, <1>3, <1>4, <1>5, <1>6, <1>7, <1>8 DEF Step

LEMMA CallChange ==
    ASSUME TypeOK, NEW t \in Threads, Call(t)
    PROVE  TableChange
<1>1. ASSUME NEW v \in Vals, Create(t, v)
      PROVE  TableChange
  <2>1. /\ hash' = hash /\ newSize' = newSize /\ pc' = [pc EXCEPT ![t] = "begin"]
        /\ tableSize' = tableSize
    BY <1>1 DEF Create
  <2>2. Linking' \subseteq Linking /\ SizesAsked
    BY <2>1, PcChange
  <2> QED
    BY <2>1, <2>2 DEF TableChange, Keeps
<1>2. ASSUME NEW v \in Vals, Drop(t, v)
      PROVE  TableChange
  BY <1>2 DEF Drop, TableChange, Keeps, Linking, SizesAsked
<1>3. ASSUME NEW k \in Keys, Find(t, k)
      PROVE  TableChange
  BY <1>3 DEF Find, threadVars, TableChange, Keeps, Linking, SizesAsked
<1>4. ASSUME NEW k \in Keys, RemoveItem(t, k)
      PROVE  TableChange
  <2>1. /\ hash' = hash \/ OneGone
        /\ newSize' = newSize /\ tableSize' = tableSize /\ pc' = pc
    BY <1>4, WithoutGone DEF RemoveItem
  <2> QED
    BY <2>1 DEF TableChange, Keeps, Removes, Linking, SizesAsked
<1>5. CASE Scavenge(t)
  <2>1. /\ hash' = hash \/ OneGone
        /\ newSize' = newSize /\ tableSize' = tableSize
        /\ pc' = [pc EXCEPT ![t] = "scavenge"]
    BY <1>5, WithoutGone DEF Scavenge, Evict
  <2>2. Linking' \subseteq Linking /\ SizesAsked
    BY <2>1, PcChange
  <2> QED
    BY <2>1, <2>2 DEF TableChange, Keeps, Removes
<1>6. CASE Close(t)
  <2>1. /\ hash' = hash /\ newSize' = newSize /\ pc' = [pc EXCEPT ![t] = "empty"]
        /\ tableSize' = tableSize
    BY <1>6 DEF Close, storeVars
  <2>2. Linking' \subseteq Linking /\ SizesAsked
    BY <2>1, PcChange
  <2> QED
    BY <2>1, <2>2 DEF TableChange, Keeps
<1> QED
  BY <1>1, <1>2, <1>3, <1>4, <1>5, <1>6 DEF Call

\* Every step of the store changes the table in one of the five ways.
LEMMA NextChange ==
    ASSUME IInv, IsFiniteSet(Filed(hash)), Next
    PROVE  TableChange
<1>1. TypeOK /\ Good
  BY DEF Next, IInv
<1>2. ASSUME NEW v \in Vals, Keep(v)
      PROVE  TableChange
  BY <1>2 DEF Keep, threadVars, TableChange, Keeps, Linking, SizesAsked
<1> QED
  BY <1>1, <1>2, StepChange, CallChange DEF Next

\* The change of the map adds or takes away at most one key.
LEMMA FiledChange ==
    ASSUME TypeOK, IsFiniteSet(Filed(hash))
    PROVE  /\ Cardinality(Filed(hash)) \in Nat
           /\ OneGone => IsFiniteSet(Filed(hash')) /\ Cardinality(Filed(hash')) < Cardinality(Filed(hash))
           /\ OneNew => /\ IsFiniteSet(Filed(hash'))
                        /\ Cardinality(Filed(hash')) = Cardinality(Filed(hash)) + 1
<1>1. hash \in [Hashed -> Vals \cup {None}]
  BY DEF TypeOK
<1>2. Cardinality(Filed(hash)) \in Nat
  BY FS_CardinalityType
<1>3. ASSUME OneGone
      PROVE  IsFiniteSet(Filed(hash')) /\ Cardinality(Filed(hash')) < Cardinality(Filed(hash))
  <2>1. PICK k \in Hashed : hash[k] # None /\ hash' = [hash EXCEPT ![k] = None]
    BY <1>3 DEF OneGone
  <2>2. Filed(hash') = Filed(hash) \ {k} /\ k \in Filed(hash)
    BY <1>1, <2>1 DEF Filed
  <2> QED
    BY <1>2, <2>2, FS_RemoveElement, SMTT(30)
<1>4. ASSUME OneNew
      PROVE  IsFiniteSet(Filed(hash')) /\ Cardinality(Filed(hash')) = Cardinality(Filed(hash)) + 1
  <2>1. PICK k \in Hashed, v \in Vals : hash[k] = None /\ hash' = [hash EXCEPT ![k] = v]
    BY <1>4 DEF OneNew
  <2>2. Filed(hash') = Filed(hash) \cup {k} /\ k \notin Filed(hash)
    BY <1>1, <2>1, NoneAssumption DEF Filed
  <2> QED
    BY <2>2, FS_AddElement
<1> QED
  BY <1>2, <1>3, <1>4

\* Twice the size leaves as much room, and more.
LEMMA RoomyTwice ==
    ASSUME NEW n \in Nat, Roomy(n)
    PROVE  Roomy(2 * n)
<1> DEFINE m == n * LoadTenths
           c == Cardinality(Threads)
<1>1. m \in Nat /\ c \in Nat /\ (2 * n) * LoadTenths = 2 * m
  BY TableAssumption, ThreadsAssumption, FS_CardinalityType
<1>2. (m \div 10) + c < n
  BY DEF Roomy
<1> HIDE DEF m, c
<1>3. (2 * m) \div 10 <= 2 * (m \div 10) + 1
  BY <1>1
<1>4. ((2 * m) \div 10) + c < 2 * n
  BY <1>1, <1>2, <1>3
<1> QED
  BY <1>1, <1>4 DEF Roomy, c

\* There is always a blank slot.
LEMMA BlanksStep ==
    ASSUME TypeOK, TypeOK', BlanksLeft, TableChange
    PROVE  BlanksLeft'
<1> DEFINE c == Cardinality(Filed(hash))
           l == Cardinality(Linking)
           limit == (tableSize * LoadTenths) \div 10
           all == Cardinality(Threads)
<1>1. /\ c \in Nat
      /\ IsFiniteSet(Linking) /\ IsFiniteSet(Linking')
      /\ l \in Nat /\ Cardinality(Linking') \in Nat /\ all \in Nat
      /\ l <= all
  <2>1. Linking \subseteq Threads /\ Linking' \subseteq Threads
    BY DEF Linking
  <2>2. IsFiniteSet(Linking) /\ IsFiniteSet(Linking') /\ Cardinality(Linking) <= all
    BY <2>1, ThreadsAssumption, FS_Subset
  <2> QED
    BY <2>2, ThreadsAssumption, FS_CardinalityType DEF BlanksLeft
<1>2. tableSize \in Nat /\ tableSize' \in Nat /\ limit \in Int
  BY TableAssumption DEF TypeOK
<1>3. ASSUME tableSize' = tableSize, SizesAsked
      PROVE  /\ tableSize' = TableSize \/ Roomy(tableSize')
             /\ \A t \in Threads : pc'[t] = "resize" => Roomy(newSize'[t])
  <2>1. Roomy(2 * tableSize)
    BY <1>2, RoomAssumption, RoomyTwice DEF BlanksLeft
  <2> QED
    BY <1>3, <2>1 DEF BlanksLeft, SizesAsked
<1>4. ASSUME Linking' \subseteq Linking
      PROVE  Cardinality(Linking') <= l
  BY <1>1, <1>4, FS_Subset
<1>5. c + l < tableSize /\ (Linking # {} => Roomy(tableSize))
  BY DEF BlanksLeft
<1>6. CASE Keeps
  <2>1. hash' = hash /\ tableSize' = tableSize /\ Linking' \subseteq Linking /\ SizesAsked
    BY <1>6 DEF Keeps
  <2>2. Cardinality(Filed(hash')) + Cardinality(Linking') < tableSize'
    BY <1>1, <1>2, <1>4, <1>5, <2>1
  <2>3. Linking' # {} => Roomy(tableSize')
    BY <1>5, <2>1
  <2> QED
    BY <1>3, <2>1, <2>2, <2>3 DEF BlanksLeft, Filed
<1>7. CASE Removes
  <2>1. OneGone /\ tableSize' = tableSize /\ Linking' \subseteq Linking /\ SizesAsked
    BY <1>7 DEF Removes
  <2>2. IsFiniteSet(Filed(hash')) /\ Cardinality(Filed(hash')) < c
    BY <2>1, FiledChange DEF BlanksLeft
  <2>3. Cardinality(Filed(hash')) \in Nat
    BY <2>2, FS_CardinalityType
  <2>4. Cardinality(Filed(hash')) + Cardinality(Linking') < tableSize'
    BY <1>1, <1>2, <1>4, <1>5, <2>1, <2>2, <2>3
  <2>5. Linking' # {} => Roomy(tableSize')
    BY <1>5, <2>1
  <2> QED
    BY <1>3, <2>1, <2>2, <2>4, <2>5 DEF BlanksLeft, Filed
<1>8. CASE Adds
  <2>1. /\ OneNew /\ tableSize' = tableSize /\ Linking' = Linking /\ SizesAsked
        /\ Linking # Threads /\ c <= limit
    BY <1>8 DEF Adds, Load, Filed
  <2>2. IsFiniteSet(Filed(hash')) /\ Cardinality(Filed(hash')) = c + 1
    BY <2>1, FiledChange DEF BlanksLeft
  <2>3. c + 1 + l < tableSize
    <3>1. CASE Linking = {}
      <4>1. l = 0
        BY <3>1, FS_EmptySet
      <4>2. limit + 1 < tableSize
        <5>1. CASE tableSize = TableSize
          BY <5>1, RoomAssumption
        <5>2. CASE Roomy(tableSize)
          <6>1. limit + all < tableSize
            BY <5>2 DEF Roomy
          <6>2. all # 0
            BY <2>1, <3>1, ThreadsAssumption, FS_EmptySet
          <6> QED
            BY <1>1, <1>2, <6>1, <6>2
        <5> QED
          BY <5>1, <5>2 DEF BlanksLeft
      <4> QED
        BY <1>1, <1>2, <2>1, <4>1, <4>2
    <3>2. CASE Linking # {}
      <4>1. limit + all < tableSize
        BY <1>5, <3>2 DEF Roomy
      <4>2. l # all
        <5>1. Linking \in SUBSET Threads
          BY DEF Linking
        <5> QED
          BY <2>1, <5>1, ThreadsAssumption, FS_Subset
      <4> HIDE DEF c, l, limit, all
      <4> QED
        BY <1>1, <1>2, <2>1, <4>1, <4>2
    <3> QED
      BY <3>1, <3>2
  <2>4. Cardinality(Filed(hash')) + Cardinality(Linking') < tableSize'
    BY <2>1, <2>2, <2>3, <1>1
  <2>5. Linking' # {} => Roomy(tableSize')
    BY <1>5, <2>1
  <2> QED
    BY <1>3, <2>1, <2>2, <2>4, <2>5 DEF BlanksLeft, Filed
<1>9. CASE AddsResized
  <2>1. OneNew /\ tableSize' = tableSize /\ SizesAsked
    BY <1>9 DEF AddsResized
  <2>2. PICK t \in Linking : Linking' = Linking \ {t}
    BY <1>9 DEF AddsResized
  <2>3. IsFiniteSet(Filed(hash')) /\ Cardinality(Filed(hash')) = c + 1
    BY <2>1, FiledChange DEF BlanksLeft
  <2>4. Cardinality(Linking') = l - 1
    BY <1>1, <2>2, FS_RemoveElement
  <2>5. Cardinality(Filed(hash')) + Cardinality(Linking') < tableSize'
    BY <1>1, <1>2, <1>5, <2>1, <2>3, <2>4
  <2>6. Linking' # {} => Roomy(tableSize')
    BY <1>5, <2>1, <2>2
  <2> QED
    BY <1>3, <2>1, <2>3, <2>5, <2>6 DEF BlanksLeft, Filed
<1>10. CASE Grows
  <2>1. hash' = hash /\ SizesAsked
    BY <1>10 DEF Grows
  <2>2. PICK t \in Threads : /\ pc[t] = "resize" /\ tableSize < newSize[t] /\ tableSize' = newSize[t]
                             /\ Linking' = Linking \cup {t}
    BY <1>10 DEF Grows
  <2>3. Roomy(tableSize')
    BY <2>2 DEF BlanksLeft
  <2>4. Cardinality(Linking') <= l + 1
    <3>1. Cardinality(Linking \cup {t}) = IF t \in Linking THEN l ELSE l + 1
      BY <1>1, FS_AddElement
    <3> QED
      BY <1>1, <2>2, <3>1
  <2>5. Cardinality(Filed(hash')) + Cardinality(Linking') < tableSize'
    <3>1. tableSize < tableSize'
      BY <2>2
    <3> QED
      BY <1>1, <1>2, <1>5, <2>1, <2>4, <3>1
  <2>6. \A u \in Threads : pc'[u] = "resize" => Roomy(newSize'[u])
    <3>1. Roomy(2 * tableSize)
      BY <1>2, RoomAssumption, RoomyTwice DEF BlanksLeft
    <3> QED
      BY <2>1, <3>1 DEF SizesAsked, BlanksLeft
  <2> QED
    BY <2>1, <2>3, <2>5, <2>6 DEF BlanksLeft, Filed
<1> QED
  BY <1>6, <1>7, <1>8, <1>9, <1>10 DEF TableChange

-----------------------------------------------------------------------------
(***************************************************************************)
(* The invariant, and what follows.                                        *)
(***************************************************************************)
\* The array stands for the map of the store, and has a blank slot.
TInv ==
    /\ IInv /\ BlanksLeft
    /\ code \in [Hashed -> Nat] /\ tableSize > 0
    /\ Table(code, ents, tableSize, hash)

LEMMA TInitHolds == TInit => TInv
<1> SUFFICES ASSUME TInit
             PROVE  TInv
  OBVIOUS
<1>1. IInv
  BY InitHolds DEF TInit
<1>2. /\ hash = [k \in Hashed |-> None] /\ tableSize = TableSize
      /\ pc = [t \in Threads |-> "idle"]
  BY DEF TInit, Init
<1>3. tableSize \in Nat /\ tableSize > 0 /\ code \in [Hashed -> Nat]
  BY <1>2, TableAssumption, CodesAssumption DEF TInit
<1>4. BlanksLeft
  <2>1. Filed(hash) = {} /\ Linking = {}
    BY <1>2 DEF Filed, Linking
  <2>2. Cardinality(Filed(hash)) = 0 /\ Cardinality(Linking) = 0 /\ IsFiniteSet(Filed(hash))
    BY <2>1, FS_EmptySet
  <2> QED
    BY <1>2, <1>3, <2>1, <2>2 DEF BlanksLeft
<1>5. Table(code, ents, tableSize, hash)
  <2>1. ents = [s \in Slots(tableSize) |-> None]
    BY <1>2 DEF TInit, Blank, Slots
  <2> QED
    BY <1>2, <2>1 DEF Table, IsArray, OnePerKey, Reachable, Holds
<1> QED
  BY <1>1, <1>3, <1>4, <1>5 DEF TInv

LEMMA TInvBlank ==
    ASSUME TInv
    PROVE  /\ tableSize \in Nat \ {0} /\ hash \in [Hashed -> Vals \cup {None}]
           /\ HasBlank(ents, tableSize) /\ IsFiniteSet(Filed(hash))
           /\ Cardinality(Filed(hash)) \in Nat /\ Cardinality(Filed(hash)) < tableSize
<1>1. tableSize \in Nat \ {0} /\ hash \in [Hashed -> Vals \cup {None}]
  BY DEF TInv, IInv, TypeOK
<1>2. IsFiniteSet(Filed(hash)) /\ IsFiniteSet(Linking)
  BY ThreadsAssumption, FS_Subset DEF TInv, BlanksLeft, Linking
<1>3. Cardinality(Filed(hash)) \in Nat /\ Cardinality(Linking) \in Nat
  BY <1>2, FS_CardinalityType
<1>4. Cardinality(Filed(hash)) < tableSize
  BY <1>1, <1>3 DEF TInv, BlanksLeft
<1> QED
  BY <1>1, <1>2, <1>3, <1>4, BlankIsLeft DEF TInv

\* The calls of the table follow the map.
LEMMA TableFollows ==
    ASSUME TInv, TypeOK', TableChange, TableStep
    PROVE  Table(code, ents', tableSize', hash')
<1> DEFINE gone == {k \in Hashed : hash[k] # None /\ hash'[k] = None}
           new == {k \in Hashed : hash[k] = None /\ hash'[k] # None}
<1>1. /\ tableSize \in Nat \ {0} /\ hash \in [Hashed -> Vals \cup {None}]
      /\ HasBlank(ents, tableSize) /\ IsFiniteSet(Filed(hash))
      /\ Cardinality(Filed(hash)) \in Nat /\ Cardinality(Filed(hash)) < tableSize
  BY TInvBlank
<1>2. code \in [Hashed -> Nat] /\ Table(code, ents, tableSize, hash)
  BY DEF TInv
<1>3. ents' = IF tableSize' # tableSize THEN Resized(ents, tableSize, tableSize')
              ELSE IF gone # {} THEN Removed(ents, tableSize, CHOOSE k \in gone : TRUE)
              ELSE IF new # {}
                   THEN LET k == CHOOSE k \in new : TRUE
                        IN Inserted(ents, tableSize, Entry(k, hash'[k]))
              ELSE ents
  BY DEF TableStep
<1>4. CASE Keeps
  <2>1. hash' = hash /\ tableSize' = tableSize
    BY <1>4 DEF Keeps
  <2>2. ents' = ents
    BY <1>3, <2>1
  <2> QED
    BY <1>2, <2>1, <2>2
<1>5. CASE Removes
  <2>1. tableSize' = tableSize
    BY <1>5 DEF Removes
  <2>2. PICK k \in Hashed : hash[k] # None /\ hash' = [hash EXCEPT ![k] = None]
    BY <1>5 DEF Removes, OneGone
  <2>3. gone = {k}
    BY <1>1, <2>2
  <2>4. ents' = Removed(ents, tableSize, k)
    BY <1>3, <2>1, <2>3
  <2> QED
    BY <1>1, <1>2, <2>1, <2>2, <2>4, RemovedIs
<1>6. ASSUME OneNew, tableSize' = tableSize
      PROVE  Table(code, ents', tableSize', hash')
  <2>1. PICK k \in Hashed, v \in Vals : hash[k] = None /\ hash' = [hash EXCEPT ![k] = v]
    BY <1>6 DEF OneNew
  <2>2. gone = {} /\ new = {k} /\ hash'[k] = v
    BY <1>1, <2>1, NoneAssumption
  <2>3. ents' = Inserted(ents, tableSize, Entry(k, v))
    BY <1>3, <1>6, <2>2
  <2> QED
    BY <1>1, <1>2, <1>6, <2>1, <2>3, InsertedIs
<1>7. CASE Adds \/ AddsResized
  BY <1>6, <1>7 DEF Adds, AddsResized
<1>8. CASE Grows
  <2>1. hash' = hash
    BY <1>8 DEF Grows
  <2>2. tableSize < tableSize' /\ tableSize' \in Nat
    BY <1>8 DEF Grows, TypeOK
  <2>3. tableSize' \in Nat \ {0} /\ Cardinality(Filed(hash)) < tableSize' /\ tableSize' # tableSize
    BY <1>1, <2>2
  <2>4. ents' = Resized(ents, tableSize, tableSize')
    BY <1>3, <2>3
  <2>5. Table(code, Resized(ents, tableSize, tableSize'), tableSize', hash)
    BY <1>1, <1>2, <2>3, ResizedIs
  <2> QED
    BY <2>1, <2>4, <2>5
<1> QED
  BY <1>4, <1>5, <1>7, <1>8 DEF TableChange

LEMMA TNextKeeps == TInv /\ [TNext]_<<vars, tableVars>> => TInv'
<1> SUFFICES ASSUME TInv, [TNext]_<<vars, tableVars>>
             PROVE  TInv'
  OBVIOUS
<1>1. IInv'
  BY NextKeeps DEF TInv, TNext
<1>2. CASE TNext
  <2>1. TableChange
    BY <1>2, TInvBlank, NextChange DEF TInv, TNext
  <2>2. TypeOK /\ TypeOK' /\ TableStep
    BY <1>1, <1>2 DEF TInv, IInv, TNext
  <2>3. BlanksLeft'
    BY <2>1, <2>2, BlanksStep DEF TInv
  <2>4. Table(code, ents', tableSize', hash')
    BY <2>1, <2>2, TableFollows
  <2>5. tableSize' > 0
    <3>1. tableSize' = tableSize \/ (tableSize < tableSize')
      BY <2>1 DEF TableChange, Keeps, Removes, Adds, AddsResized, Grows
    <3>2. tableSize \in Nat \ {0} /\ tableSize' \in Nat
      BY <2>2, TInvBlank DEF TypeOK
    <3> QED
      BY <3>1, <3>2
  <2>6. code' = code
    BY <2>2 DEF TableStep
  <2> QED
    BY <1>1, <2>3, <2>4, <2>5, <2>6
       DEF TInv, Table, IsArray, OnePerKey, Reachable, Holds, Before
<1>3. CASE UNCHANGED <<vars, tableVars>>
  <2>1. UNCHANGED <<hash, tableSize, pc, newSize, code, ents>>
    BY <1>3 DEF vars, storeVars, threadVars, tableVars
  <2> QED
    BY <1>1, <2>1 DEF TInv, BlanksLeft, Filed, Linking,
                      Table, IsArray, OnePerKey, Reachable, Holds, Before
<1> QED
  BY <1>2, <1>3

LEMMA TInvariance == TSpec => []TInv
BY TInitHolds, TNextKeeps, PTL DEF TSpec

\* The array of the hash table finds what the store has filed and nothing else, and has a blank
\* slot, so that probing ends: fz_hash_insert, fz_hash_remove and fz_resize_hash lose no entry,
\* for every hash function and any number of threads, keys and removals.
THEOREM ArrayIsTheHash == TSpec => []TableIsHash
<1>1. TInv => TableIsHash
  <2> SUFFICES ASSUME TInv
               PROVE  TableIsHash
    OBVIOUS
  <2>1. tableSize \in Nat \ {0} /\ HasBlank(ents, tableSize)
    BY TInvBlank
  <2>2. code \in [Hashed -> Nat] /\ Table(code, ents, tableSize, hash)
    BY DEF TInv
  <2>3. IsArray(ents, tableSize) /\ DOMAIN ents = Slots(tableSize)
    BY <2>2 DEF Table, IsArray
  <2>4. \A k \in Hashed : Lookup(ents, tableSize, k) = hash[k]
    BY <2>1, <2>2, LookupIs
  <2>5. \E i \in DOMAIN ents : ents[i] = None
    BY <2>1, <2>3 DEF HasBlank
  <2> QED
    BY <2>3, <2>4, <2>5 DEF TableIsHash, IsArray, Slots
<1> QED
  BY <1>1, TInvariance, PTL

\* The store with the array is the store: what is proved of the one holds for the other.
THEOREM ArrayIsHidden == TSpec => Spec
<1>1. TInit => Init
  BY DEF TInit
<1>2. [TNext]_<<vars, tableVars>> => [Next]_vars
  BY DEF TNext
<1> QED
  BY <1>1, <1>2, PTL DEF TSpec, Spec

-----------------------------------------------------------------------------
(***************************************************************************)
(* The sizes of the objects of a set.  Total takes away one object after   *)
(* the other; that the order does not matter is an induction over the      *)
(* number of objects.                                                      *)
(***************************************************************************)
Pick(s) == CHOOSE x \in s : TRUE

IsSum(f, S) ==
    f = [s \in SUBSET S |-> IF s = {} THEN 0 ELSE Size[Pick(s)] + f[s \ {Pick(s)}]]

LEMMA TotalUnfolds ==
    ASSUME NEW S
    PROVE  Total(S) = (CHOOSE f : IsSum(f, S))[S]
BY DEF Total, MapThenSumSet, MapThenFoldSet, IsSum, Pick

\* The sets of at most n objects.
OfAtMost(n) == {S \in SUBSET Vals : IsFiniteSet(S) /\ Cardinality(S) <= n}

TotalGoesDown(S) == Total(S) = IF S = {} THEN 0 ELSE Size[Pick(S)] + Total(S \ {Pick(S)})

LEMMA PickIs ==
    ASSUME NEW S \in SUBSET Vals, IsFiniteSet(S), S # {}
    PROVE  /\ Pick(S) \in S /\ IsFiniteSet(S \ {Pick(S)})
           /\ Cardinality(S) \in Nat /\ Cardinality(S \ {Pick(S)}) \in Nat
           /\ Cardinality(S) = Cardinality(S \ {Pick(S)}) + 1
<1>1. Pick(S) \in S
  BY DEF Pick
<1>2. IsFiniteSet(S \ {Pick(S)})
  BY FS_Subset
<1> HIDE DEF Pick
<1> QED
  BY <1>1, <1>2, Counted

LEMMA SumIsTotal ==
    ASSUME NEW n \in Nat, \A S \in OfAtMost(n) : TotalGoesDown(S),
           NEW R \in SUBSET Vals, NEW f, IsSum(f, R)
    PROVE  \A S \in OfAtMost(n) : S \subseteq R => f[S] = Total(S)
<1> DEFINE T == {m \in Nat : m <= n => \A S \in OfAtMost(m) : S \subseteq R => f[S] = Total(S)}
<1>1. \A s \in SUBSET R : f[s] = IF s = {} THEN 0 ELSE Size[Pick(s)] + f[s \ {Pick(s)}]
  BY DEF IsSum
<1>2. 0 \in T
  <2>1. \A S \in OfAtMost(0) : S = {}
    BY FS_EmptySet, FS_CardinalityType DEF OfAtMost
  <2>2. f[{}] = 0
    BY <1>1
  <2>3. {} \in OfAtMost(n)
    BY FS_EmptySet DEF OfAtMost
  <2>4. Total({}) = 0
    BY <2>3 DEF TotalGoesDown
  <2> QED
    BY <2>1, <2>2, <2>4
<1>3. ASSUME NEW m \in T
      PROVE  m + 1 \in T
  <2> SUFFICES ASSUME m + 1 <= n, NEW S \in OfAtMost(m + 1), S \subseteq R
               PROVE  f[S] = Total(S)
    OBVIOUS
  <2>1. m \in Nat /\ \A s \in OfAtMost(m) : s \subseteq R => f[s] = Total(s)
    OBVIOUS
  <2>2. S \in SUBSET Vals /\ IsFiniteSet(S) /\ Cardinality(S) <= m + 1
    BY DEF OfAtMost
  <2>3. S \in OfAtMost(n)
    BY <2>1, <2>2, FS_CardinalityType DEF OfAtMost
  <2>4. TotalGoesDown(S)
    BY <2>3
  <2>5. CASE S = {}
    BY <2>4, <2>5, <1>1 DEF TotalGoesDown
  <2>6. CASE S # {}
    <3> DEFINE s == S \ {Pick(S)}
    <3>1. /\ IsFiniteSet(s) /\ Cardinality(S) \in Nat /\ Cardinality(s) \in Nat
          /\ Cardinality(S) = Cardinality(s) + 1
      BY <2>2, <2>6, PickIs
    <3>2. s \in OfAtMost(m) /\ s \subseteq R
      <4>1. Cardinality(s) <= m
        BY <2>1, <2>2, <3>1
      <4> QED
        BY <2>2, <3>1, <4>1 DEF OfAtMost
    <3>3. f[s] = Total(s)
      BY <2>1, <3>2
    <3>4. f[S] = Size[Pick(S)] + f[s]
      BY <1>1, <2>6
    <3> QED
      BY <2>4, <2>6, <3>3, <3>4 DEF TotalGoesDown
  <2> QED
    BY <2>5, <2>6
<1>4. T = Nat
  <2> HIDE DEF T
  <2>1. T \in SUBSET Nat
    BY DEF T
  <2> QED
    BY <1>2, <1>3, <2>1, SetInduction
<1>5. n \in T
  BY <1>4
<1> QED
  BY <1>5

\* There is such a function on the sets of more objects when the total is known of the smaller ones.
LEMMA SumExists ==
    ASSUME NEW n \in Nat, \A S \in OfAtMost(n) : TotalGoesDown(S),
           NEW R \in OfAtMost(n + 1)
    PROVE  \E f : IsSum(f, R)
<1> DEFINE f == [s \in SUBSET R |-> IF s = {} THEN 0 ELSE Size[Pick(s)] + Total(s \ {Pick(s)})]
<1>1. ASSUME NEW s \in SUBSET R, s # {}
      PROVE  f[s \ {Pick(s)}] = Total(s \ {Pick(s)})
  <2> DEFINE r == s \ {Pick(s)}
  <2>1. R \in SUBSET Vals /\ IsFiniteSet(R) /\ Cardinality(R) <= n + 1
    BY DEF OfAtMost
  <2>2. /\ s \in SUBSET Vals /\ IsFiniteSet(s) /\ Cardinality(s) <= Cardinality(R)
        /\ Cardinality(R) \in Nat
    BY <2>1, FS_Subset, FS_CardinalityType
  <2>3. /\ IsFiniteSet(r) /\ Cardinality(s) \in Nat /\ Cardinality(r) \in Nat
        /\ Cardinality(s) = Cardinality(r) + 1
    BY <1>1, <2>2, PickIs
  <2>4. Cardinality(r) <= n
    BY <2>1, <2>2, <2>3
  <2>5. r \in OfAtMost(n) /\ r \in SUBSET R
    BY <2>2, <2>3, <2>4 DEF OfAtMost
  <2>6. TotalGoesDown(r)
    BY <2>5
  <2> HIDE DEF r
  <2>7. f[r] = Total(r)
    BY <2>5, <2>6 DEF TotalGoesDown
  <2> QED
    BY <2>7 DEF r
<1>2. \A s \in SUBSET R : f[s] = IF s = {} THEN 0 ELSE Size[Pick(s)] + f[s \ {Pick(s)}]
  <2>1. \A s \in SUBSET R : f[s] = IF s = {} THEN 0 ELSE Size[Pick(s)] + Total(s \ {Pick(s)})
    OBVIOUS
  <2> HIDE DEF f
  <2> QED
    BY <1>1, <2>1
<1>3. f = [s \in SUBSET R |-> f[s]]
  OBVIOUS
<1> HIDE DEF f
<1> QED
  BY <1>2, <1>3 DEF IsSum

LEMMA TotalIs ==
    ASSUME NEW S \in SUBSET Vals, IsFiniteSet(S)
    PROVE  TotalGoesDown(S)
<1> DEFINE T == {n \in Nat : \A R \in OfAtMost(n) : TotalGoesDown(R)}
<1>1. ASSUME NEW R, NEW f, IsSum(f, R), R = {}
      PROVE  f[R] = 0
  BY <1>1 DEF IsSum
<1>2. 0 \in T
  <2>1. ASSUME NEW R \in OfAtMost(0)
        PROVE  TotalGoesDown(R)
    <3>1. R = {}
      BY FS_EmptySet, FS_CardinalityType DEF OfAtMost
    <3> DEFINE f == [s \in SUBSET R |-> 0]
    <3>2. SUBSET R = {{}} /\ R \in SUBSET R
      BY <3>1
    <3>3. IsSum(f, R)
      BY <3>2 DEF IsSum
    <3>4. IsSum(CHOOSE g : IsSum(g, R), R)
      <4> HIDE DEF f
      <4> QED
        BY <3>3
    <3>5. Total(R) = 0
      BY <3>1, <3>4, <1>1, TotalUnfolds
    <3> QED
      BY <3>1, <3>5 DEF TotalGoesDown
  <2> QED
    BY <2>1
<1>3. ASSUME NEW n \in T
      PROVE  n + 1 \in T
  <2>1. n \in Nat /\ \A R \in OfAtMost(n) : TotalGoesDown(R)
    OBVIOUS
  <2>2. ASSUME NEW R \in OfAtMost(n + 1), R # {}
        PROVE  TotalGoesDown(R)
    <3> DEFINE f == CHOOSE g : IsSum(g, R)
    <3>1. IsSum(f, R)
      BY <2>1, SumExists
    <3>2. R \in SUBSET Vals /\ IsFiniteSet(R) /\ Cardinality(R) <= n + 1
      BY DEF OfAtMost
    <3> DEFINE r == R \ {Pick(R)}
    <3>3. /\ IsFiniteSet(r) /\ Cardinality(R) \in Nat /\ Cardinality(r) \in Nat
          /\ Cardinality(R) = Cardinality(r) + 1
      BY <2>2, <3>2, PickIs
    <3>4. Cardinality(r) <= n
      BY <2>1, <3>2, <3>3
    <3>5. r \in OfAtMost(n) /\ r \subseteq R
      BY <3>2, <3>3, <3>4 DEF OfAtMost
    <3>6. Total(R) = f[R]
      BY TotalUnfolds
    <3> HIDE DEF f
    <3>7. f[r] = Total(r)
      BY <2>1, <3>1, <3>2, <3>5, SumIsTotal
    <3>8. f[R] = Size[Pick(R)] + f[r]
      BY <2>2, <3>1 DEF IsSum
    <3> QED
      BY <2>2, <3>6, <3>7, <3>8 DEF TotalGoesDown
  <2>3. TotalGoesDown({})
    <3>1. {} \in OfAtMost(n)
      BY <2>1, FS_EmptySet DEF OfAtMost
    <3> QED
      BY <2>1, <3>1
  <2>4. \A R \in OfAtMost(n + 1) : TotalGoesDown(R)
    BY <2>2, <2>3
  <2> QED
    BY <2>1, <2>4
<1>4. T = Nat
  <2> HIDE DEF T
  <2>1. T \in SUBSET Nat
    BY DEF T
  <2> QED
    BY <1>2, <1>3, <2>1, SetInduction
<1>5. Cardinality(S) \in T /\ S \in OfAtMost(Cardinality(S))
  BY <1>4, FS_CardinalityType DEF OfAtMost
<1> QED
  BY <1>5

\* An object that comes to a set adds its size.
LEMMA TotalGrows ==
    ASSUME NEW S \in SUBSET Vals, IsFiniteSet(S)
    PROVE  /\ Total(S) \in Nat
           /\ \A v \in Vals \ S : Total(S \cup {v}) = Total(S) + Size[v]
<1> DEFINE Grows1(n) == \A R \in OfAtMost(n) :
                /\ Total(R) \in Nat
                /\ \A v \in Vals \ R : Total(R \cup {v}) = Total(R) + Size[v]
           T == {n \in Nat : Grows1(n)}
<1>1. \A v \in Vals : Size[v] \in Nat
  BY SizesAssumption
<1>2. Total({}) = 0
  BY TotalIs, FS_EmptySet DEF TotalGoesDown
<1>3. ASSUME NEW v \in Vals
      PROVE  Total({v}) = Size[v]
  <2>1. IsFiniteSet({v}) /\ {v} \in SUBSET Vals
    BY FS_Singleton
  <2>2. Pick({v}) = v
    BY DEF Pick
  <2>3. {v} \ {v} = {}
    OBVIOUS
  <2>4. Total({v}) = Size[v] + Total({})
    BY <2>1, <2>2, <2>3, TotalIs DEF TotalGoesDown
  <2> QED
    BY <1>1, <1>2, <2>4
<1>4. 0 \in T
  <2>1. \A R \in OfAtMost(0) : R = {}
    BY FS_EmptySet, FS_CardinalityType DEF OfAtMost
  <2>2. \A v \in Vals : Total({} \cup {v}) = Total({}) + Size[v]
    <3> SUFFICES ASSUME NEW v \in Vals
                 PROVE  Total({} \cup {v}) = Total({}) + Size[v]
      OBVIOUS
    <3> DEFINE one == {} \cup {v}
    <3>1. one = {v}
      OBVIOUS
    <3> HIDE DEF one
    <3>2. Total(one) = Size[v]
      BY <1>3, <3>1
    <3> QED
      BY <1>1, <1>2, <3>2 DEF one
  <2>3. Grows1(0)
    <3> SUFFICES ASSUME NEW R \in OfAtMost(0)
                 PROVE  /\ Total(R) \in Nat
                        /\ \A v \in Vals \ R : Total(R \cup {v}) = Total(R) + Size[v]
      OBVIOUS
    <3>1. R = {}
      BY <2>1
    <3> QED
      BY <1>2, <2>2, <3>1
  <2> HIDE DEF Grows1
  <2> QED
    BY <2>3
<1>5. ASSUME NEW n \in T
      PROVE  n + 1 \in T
  <2>1. n \in Nat /\ Grows1(n)
    <3> HIDE DEF Grows1
    <3> QED
      OBVIOUS
  <2>2. ASSUME NEW R \in SUBSET Vals, IsFiniteSet(R), Cardinality(R) <= n + 1, R # {},
               NEW x \in R
        PROVE  /\ R \ {x} \in OfAtMost(n)
               /\ Total(R) = Total(R \ {x}) + Size[x]
               /\ Total(R) \in Nat
    <3> DEFINE r == R \ {x}
    <3>1. IsFiniteSet(r)
      BY <2>2, FS_Subset
    <3>2. Cardinality(R) \in Nat /\ Cardinality(r) \in Nat /\ Cardinality(R) = Cardinality(r) + 1
      BY <2>2, Counted
    <3>3. Cardinality(r) <= n
      BY <2>1, <2>2, <3>2
    <3>4. r \in OfAtMost(n)
      BY <3>1, <3>3 DEF OfAtMost
    <3>5. x \in Vals \ r /\ r \cup {x} = R
      BY <2>2
    <3>6. Total(r) \in Nat /\ Total(R) = Total(r) + Size[x]
      BY <2>1, <3>4, <3>5
    <3> QED
      BY <1>1, <2>2, <3>4, <3>6
  <2>3. ASSUME NEW R \in OfAtMost(n + 1), NEW v \in Vals \ R, R # {}
        PROVE  Total(R \cup {v}) = Total(R) + Size[v]
    <3> DEFINE S1 == R \cup {v}
               x == Pick(S1)
               rest == S1 \ {x}
    <3>1. R \in SUBSET Vals /\ IsFiniteSet(R) /\ Cardinality(R) <= n + 1
      BY DEF OfAtMost
    <3>2. S1 \in SUBSET Vals /\ IsFiniteSet(S1) /\ S1 # {}
      BY <3>1, FS_AddElement
    <3>3. x \in S1
      BY <3>2, PickIs
    <3>4. Total(S1) = Size[x] + Total(rest)
      BY <3>2, TotalIs DEF TotalGoesDown
    <3>5. CASE x = v
      <4>1. rest = R
        BY <3>5
      <4>2. PICK y \in R : TRUE
        BY <2>3
      <4>3. Total(R) \in Nat
        BY <2>2, <2>3, <3>1, <4>2
      <4>4. Size[v] \in Nat
        BY <1>1
      <4> HIDE DEF S1, x, rest
      <4>5. Total(S1) = Total(R) + Size[v]
        BY <3>4, <3>5, <4>1, <4>3, <4>4
      <4> QED
        BY <4>5 DEF S1
    <3>6. CASE x # v
      <4> DEFINE r == R \ {x}
                 more == r \cup {v}
      <4>1. x \in R
        BY <3>3, <3>6
      <4>2. r \in OfAtMost(n) /\ Total(R) = Total(r) + Size[x] /\ Total(R) \in Nat
        BY <2>2, <2>3, <3>1, <4>1
      <4>3. Total(r) \in Nat
        BY <2>1, <4>2
      <4>4. v \in Vals \ r
        OBVIOUS
      <4>5. Total(more) = Total(r) + Size[v]
        BY <2>1, <4>2, <4>4
      <4>6. rest = more
        BY <3>6
      <4>7. Size[x] \in Nat /\ Size[v] \in Nat
        BY <1>1, <3>1, <4>1
      <4> HIDE DEF r, more, S1, x, rest
      <4>8. Total(S1) = Total(R) + Size[v]
        BY <3>4, <4>2, <4>3, <4>5, <4>6, <4>7
      <4> QED
        BY <4>8 DEF S1
    <3> QED
      BY <3>5, <3>6
  <2>4. Grows1(n + 1)
    <3> SUFFICES ASSUME NEW R \in OfAtMost(n + 1)
                 PROVE  /\ Total(R) \in Nat
                        /\ \A v \in Vals \ R : Total(R \cup {v}) = Total(R) + Size[v]
      OBVIOUS
    <3>1. R \in SUBSET Vals /\ IsFiniteSet(R) /\ Cardinality(R) <= n + 1
      BY DEF OfAtMost
    <3>2. CASE R = {}
      <4>1. R \in OfAtMost(n)
        BY <2>1, <3>2, FS_EmptySet DEF OfAtMost
      <4> QED
        BY <2>1, <4>1
    <3>3. CASE R # {}
      BY <2>2, <2>3, <3>1, <3>3
    <3> QED
      BY <3>2, <3>3
  <2> QED
    BY <2>1, <2>4
<1>6. T = Nat
  <2> HIDE DEF T
  <2>1. T \in SUBSET Nat
    BY DEF T
  <2> QED
    BY <1>4, <1>5, <2>1, SetInduction
<1>7. Cardinality(S) \in T /\ S \in OfAtMost(Cardinality(S))
  BY <1>6, FS_CardinalityType DEF OfAtMost
<1> QED
  BY <1>7

\* More objects take no less.
LEMMA TotalOfMore ==
    ASSUME NEW S \in SUBSET Vals, IsFiniteSet(S), NEW R \in SUBSET S
    PROVE  Total(R) <= Total(S)
<1> DEFINE T == {n \in Nat : \A Q \in SUBSET Vals :
                   IsFiniteSet(Q) /\ R \subseteq Q /\ Cardinality(Q \ R) <= n => Total(R) <= Total(Q)}
<1>0. IsFiniteSet(R) /\ Total(R) \in Nat
  BY FS_Subset, TotalGrows
<1>1. 0 \in T
  <2>1. ASSUME NEW Q \in SUBSET Vals, IsFiniteSet(Q), R \subseteq Q, Cardinality(Q \ R) <= 0
        PROVE  Total(R) <= Total(Q)
    <3>1. IsFiniteSet(Q \ R) /\ Cardinality(Q \ R) = 0
      BY <2>1, FS_Subset, FS_CardinalityType
    <3>2. Q = R
      BY <2>1, <3>1, FS_EmptySet
    <3> QED
      BY <1>0, <3>2
  <2> QED
    BY <2>1
<1>2. ASSUME NEW n \in T
      PROVE  n + 1 \in T
  <2>1. n \in Nat
    OBVIOUS
  <2>2. ASSUME NEW Q \in SUBSET Vals, IsFiniteSet(Q), R \subseteq Q, Cardinality(Q \ R) <= n + 1
        PROVE  Total(R) <= Total(Q)
    <3>1. CASE Q = R
      BY <1>0, <3>1
    <3>2. CASE Q # R
      <4>1. PICK x \in Q \ R : TRUE
        BY <2>2, <3>2
      <4> DEFINE q == Q \ {x}
      <4>2. q \in SUBSET Vals /\ IsFiniteSet(q) /\ R \subseteq q
        BY <2>2, <4>1, FS_Subset
      <4>3. IsFiniteSet(Q \ R) /\ (Q \ R) \ {x} = q \ R
        BY <2>2, FS_Subset
      <4>4. Cardinality(q \ R) <= n
        <5>1. /\ Cardinality(Q \ R) \in Nat /\ Cardinality(q \ R) \in Nat
              /\ Cardinality(Q \ R) = Cardinality(q \ R) + 1
          BY <4>1, <4>3, Counted
        <5> QED
          BY <2>1, <2>2, <5>1
      <4>5. Total(R) <= Total(q)
        BY <4>2, <4>4
      <4>6. q \cup {x} = Q /\ x \in Vals \ q
        BY <2>2, <4>1
      <4>7. Total(q) \in Nat /\ Total(Q) = Total(q) + Size[x]
        BY <4>2, <4>6, TotalGrows
      <4>8. Size[x] \in Nat
        BY <4>6, SizesAssumption
      <4> QED
        BY <1>0, <4>5, <4>7, <4>8
    <3> QED
      BY <3>1, <3>2
  <2> QED
    BY <2>1, <2>2
<1>3. T = Nat
  <2> HIDE DEF T
  <2>1. T \in SUBSET Nat
    BY DEF T
  <2> QED
    BY <1>1, <1>2, <2>1, SetInduction
<1>4. Cardinality(S \ R) \in T
  BY <1>3, FS_Subset, FS_CardinalityType
<1>5. Cardinality(S \ R) <= Cardinality(S \ R)
  BY <1>3, <1>4
<1> QED
  BY <1>4, <1>5

-----------------------------------------------------------------------------
(***************************************************************************)
(* The store fits.  Every step but the undefined ones changes the size     *)
(* and what it accounts for in one of three ways.                          *)
(***************************************************************************)
Accounted == Stored \cup Filing

Fits == Total(Accounted) <= size /\ size <= MaxSize

SizeSame == Accounted' \subseteq Accounted /\ size' = size
SizeUp ==
    \E v \in Vals :
        Accounted' \subseteq Accounted \cup {v} /\ size' = size + Size[v] /\ size' <= MaxSize
SizeDown ==
    \E v \in Accounted : Accounted' \subseteq Accounted \ {v} /\ size' = size - Size[v]

SizeChange == SizeSame \/ SizeUp \/ SizeDown

LEMMA ImageIsFinite ==
    ASSUME NEW S, IsFiniteSet(S), NEW f
    PROVE  IsFiniteSet({f[x] : x \in S})
<1> DEFINE g == [x \in S |-> f[x]]
           T == {f[x] : x \in S}
<1>1. g \in Surjection(S, T)
  BY DEF Surjection
<1> HIDE DEF g, T
<1>2. IsFiniteSet(T)
  BY <1>1, FS_Surjection
<1> QED
  BY <1>2 DEF T

LEMMA AccountedIs ==
    ASSUME TypeOK, Good
    PROVE  /\ Accounted \in SUBSET Vals /\ IsFiniteSet(Accounted)
           /\ Filing \cap Stored = {}
<1>1. Stored \in SUBSET Vals
  <2>1. list \in Seq(Vals)
    BY DEF TypeOK
  <2> QED
    BY <2>1, Members DEF Stored
<1>2. IsFiniteSet(Stored)
  <2>1. DOMAIN list = 1 .. Len(list) /\ Len(list) \in Nat
    BY DEF TypeOK
  <2>2. IsFiniteSet(DOMAIN list)
    BY <2>1, FS_Interval
  <2>3. IsFiniteSet({list[i] : i \in DOMAIN list})
    BY <2>2, ImageIsFinite
  <2> QED
    BY <2>3 DEF Stored, ToSet
<1>3. Filing \in SUBSET Vals /\ Filing \cap Stored = {}
  BY DEF Filing, Good, CurTells, TypeOK
<1>4. IsFiniteSet(Filing)
  <2>1. IsFiniteSet({u \in Threads : pc[u] \in {"resize", "link"}})
    BY ThreadsAssumption, FS_Subset
  <2> QED
    BY <2>1, ImageIsFinite DEF Filing
<1>5. IsFiniteSet(Stored \cup Filing)
  BY <1>2, <1>4, FS_Union
<1> QED
  BY <1>1, <1>3, <1>5 DEF Accounted

LEMMA ChangeFits ==
    ASSUME TypeOK, Good, Fits, SizeChange
    PROVE  Fits'
<1>1. Accounted \in SUBSET Vals /\ IsFiniteSet(Accounted)
  BY AccountedIs
<1>2. size \in Int /\ MaxSize \in Nat /\ Total(Accounted) \in Nat
  BY <1>1, TotalGrows, SizesAssumption DEF TypeOK
<1>3. \A v \in Vals : Size[v] \in Nat
  BY SizesAssumption
<1> SUFFICES Total(Accounted') <= size' /\ size' <= MaxSize
  BY DEF Fits, Total, MapThenSumSet, MapThenFoldSet
<1>4. CASE SizeSame
  <2>1. Accounted' \in SUBSET Accounted /\ size' = size
    BY <1>4 DEF SizeSame
  <2>2. Total(Accounted') <= Total(Accounted)
    BY <1>1, <2>1, TotalOfMore
  <2>3. Total(Accounted') \in Nat
    BY <1>1, <2>1, FS_Subset, TotalGrows
  <2> QED
    BY <1>2, <2>1, <2>2, <2>3 DEF Fits
<1>5. CASE SizeUp
  <2>1. PICK v \in Vals :
          Accounted' \subseteq Accounted \cup {v} /\ size' = size + Size[v] /\ size' <= MaxSize
    BY <1>5 DEF SizeUp
  <2> DEFINE more == Accounted \cup {v}
  <2>2. more \in SUBSET Vals /\ IsFiniteSet(more) /\ Accounted' \in SUBSET more
    BY <1>1, <2>1, FS_AddElement
  <2>3. Total(more) \in Nat /\ Total(more) <= Total(Accounted) + Size[v]
    <3>1. Total(more) \in Nat
      BY <2>2, TotalGrows
    <3>2. CASE v \in Accounted
      <4>1. more = Accounted
        BY <3>2
      <4> HIDE DEF more
      <4> QED
        BY <1>2, <1>3, <4>1
    <3>3. CASE v \notin Accounted
      <4>1. Total(more) = Total(Accounted) + Size[v]
        BY <1>1, <3>3, TotalGrows
      <4> HIDE DEF more
      <4> QED
        BY <1>2, <1>3, <3>1, <4>1
    <3> QED
      BY <3>2, <3>3
  <2>4. Total(Accounted') <= Total(more) /\ Total(Accounted') \in Nat
    BY <2>2, TotalOfMore, FS_Subset, TotalGrows
  <2> HIDE DEF more
  <2> QED
    BY <1>2, <1>3, <2>1, <2>3, <2>4 DEF Fits
<1>6. CASE SizeDown
  <2>1. PICK v \in Accounted : Accounted' \subseteq Accounted \ {v} /\ size' = size - Size[v]
    BY <1>6 DEF SizeDown
  <2> DEFINE less == Accounted \ {v}
             all == less \cup {v}
  <2>2. less \in SUBSET Vals /\ IsFiniteSet(less) /\ Accounted' \in SUBSET less
    BY <1>1, <2>1, FS_Subset
  <2>3. v \in Vals \ less /\ all = Accounted
    BY <1>1
  <2>4. Total(less) \in Nat /\ Total(all) = Total(less) + Size[v]
    BY <2>2, <2>3, TotalGrows
  <2>5. Total(Accounted') <= Total(less) /\ Total(Accounted') \in Nat
    BY <2>2, TotalOfMore, FS_Subset, TotalGrows
  <2>6. Size[v] \in Nat
    BY <1>3, <2>3
  <2> HIDE DEF less, all
  <2>7. Total(all) = Total(Accounted)
    BY <2>3
  <2> QED
    BY <1>2, <2>1, <2>4, <2>5, <2>6, <2>7 DEF Fits
<1> QED
  BY <1>4, <1>5, <1>6 DEF SizeChange

\* What is being filed, when one thread goes on.
LEMMA FilingChange ==
    ASSUME NEW t \in Threads,
           \A u \in Threads \ {t} : pc'[u] = pc[u] /\ cur'[u] = cur[u],
           pc'[t] \in {"resize", "link"} => pc[t] \in {"resize", "link"} /\ cur'[t] = cur[t]
    PROVE  Filing' \subseteq Filing
BY DEF Filing

LEMMA EvictFits ==
    ASSUME TypeOK, Good, NEW t \in Threads, NEW r, NEW i \in 1 .. Len(list), Evict(t, r, i),
           Filing' \subseteq Filing
    PROVE  SizeDown
<1>1. list \in Seq(Vals) /\ \A a, b \in 1 .. Len(list) : list[a] = list[b] => a = b
  BY DEF TypeOK, Good, Distinct
<1>2. list' = RemoveAt(list, i) /\ size' = size - Size[list[i]]
  BY DEF Evict
<1>3. Stored' = Stored \ {list[i]}
  BY <1>1, <1>2, Cut DEF Stored
<1>4. list[i] \in Stored
  BY ListMember
<1>5. list[i] \notin Filing
  BY <1>4, AccountedIs
<1> QED
  BY <1>2, <1>3, <1>4, <1>5 DEF SizeDown, Accounted

LEMMA LinkFits ==
    ASSUME TypeOK, Good, NEW t \in Threads, cur[t] \in Vals, cur[t] \notin Stored,
           Link(t, cur[t])
    PROVE  Stored' \subseteq Stored \cup {cur[t]} /\ Filing' \subseteq Filing
<1>1. list \in Seq(Vals) /\ \A a, b \in 1 .. Len(list) : list[a] = list[b] => a = b
  BY DEF TypeOK, Good, Distinct
<1>2. list' = list \/ list' = <<cur[t]>> \o list
  BY DEF Link
<1>3. Stored' \subseteq Stored \cup {cur[t]}
  <2>1. ToSet(<<cur[t]>> \o list) = ToSet(list) \cup {cur[t]}
    BY <1>1, Prepended DEF Stored
  <2> QED
    BY <1>2, <2>1 DEF Stored
<1>4. pc' = [pc EXCEPT ![t] = "idle"] /\ cur' = [cur EXCEPT ![t] = None]
  BY DEF Link
<1>5. Filing' \subseteq Filing
  BY <1>4, FilingChange DEF TypeOK
<1> QED
  BY <1>3, <1>5

\* A turn of ensure_space: it evicts one item, or gives up.
LEMMA TurnFits ==
    ASSUME TypeOK, Good, NEW t \in Threads, NEW r, NEW n \in 0 .. Len(list), NEW m,
           WalkOn(t, r, n) \/ StartWalk(t, r, m) \/ GiveUp(t, r, m)
    PROVE  SizeChange
<1>1. pc \in [Threads -> Operations] /\ cur \in [Threads -> Vals \cup {None}]
  BY DEF TypeOK
<1>2. Len(list) \in Nat
  BY DEF TypeOK
<1>3. CASE WalkOn(t, r, n)
  <2>1. PICK i \in LastUnused(r, n) : Evict(t, [v \in Vals |->
            IF v = (IF i > 1 THEN list[i - 1] ELSE None) THEN r[v] + 1 ELSE r[v]], i)
    BY <1>3 DEF WalkOn, EvictPinned
  <2>2. i \in 1 .. Len(list)
    BY <1>2, <2>1 DEF LastUnused
  <2>3. pc' = [pc EXCEPT ![t] = "store"] /\ cur' = cur
    BY <1>3 DEF WalkOn
  <2>4. Filing' \subseteq Filing
    BY <1>1, <2>3, FilingChange
  <2> QED
    BY <2>1, <2>2, <2>4, EvictFits DEF SizeChange
<1>4. CASE StartWalk(t, r, m)
  <2>1. PICK i \in LastUnused(r, Len(list)) : Evict(t, [v \in Vals |->
            IF v = (IF i > 1 THEN list[i - 1] ELSE None) THEN r[v] + 1 ELSE r[v]], i)
    BY <1>4 DEF StartWalk, EvictPinned
  <2>2. i \in 1 .. Len(list)
    BY <2>1 DEF LastUnused
  <2>3. pc' = [pc EXCEPT ![t] = "store"] /\ cur' = cur
    BY <1>4 DEF StartWalk
  <2>4. Filing' \subseteq Filing
    BY <1>1, <2>3, FilingChange
  <2> QED
    BY <2>1, <2>2, <2>4, EvictFits DEF SizeChange
<1>5. CASE GiveUp(t, r, m)
  <2>1. pc' = [pc EXCEPT ![t] = "idle"] /\ list' = list /\ size' = size
        /\ cur' = [cur EXCEPT ![t] = None]
    BY <1>5 DEF GiveUp
  <2>2. Filing' \subseteq Filing
    BY <1>1, <2>1, FilingChange
  <2> QED
    BY <2>1, <2>2 DEF SizeChange, SizeSame, Accounted, Stored
<1> QED
  BY <1>3, <1>4, <1>5

LEMMA StoreSize ==
    ASSUME TypeOK, Good, NEW t \in Threads, Store(t)
    PROVE  SizeChange
<1>1. cur[t] \in Vals /\ cur[t] \notin Stored /\ pc[t] = "begin"
  BY DEF Store, Good, CurTells, TypeOK
<1>2. CASE Insert(t, cur[t])
  <2>1. size + Size[cur[t]] <= MaxSize /\ size' = size + Size[cur[t]]
    BY <1>2 DEF Insert
  <2>2. Accounted' \subseteq Accounted \cup {cur[t]}
    <3>1. CASE MustGrow(cur[t])
      <4>1. pc' = [pc EXCEPT ![t] = "resize"] /\ list' = list /\ cur' = cur
        BY <1>2, <3>1 DEF Insert
      <4>2. Filing' \subseteq Filing \cup {cur[t]}
        BY <4>1 DEF Filing, TypeOK
      <4> QED
        BY <4>1, <4>2 DEF Accounted, Stored
    <3>2. CASE ~MustGrow(cur[t])
      <4>1. Link(t, cur[t])
        BY <1>2, <3>2 DEF Insert
      <4> QED
        BY <1>1, <4>1, LinkFits DEF Accounted
    <3> QED
      BY <3>1, <3>2
  <2> QED
    BY <1>1, <2>1, <2>2 DEF SizeChange, SizeUp
<1>3. CASE InsertIntoFull(t, cur[t])
  <2> DEFINE tofree == size + Size[cur[t]] - MaxSize
  <2>1. StartWalk(t, refs, tofree) \/ GiveUp(t, refs, tofree)
    BY <1>3 DEF InsertIntoFull
  <2> HIDE DEF tofree
  <2>2. 0 \in 0 .. Len(list)
    BY DEF TypeOK
  <2> QED
    BY <2>1, <2>2, TurnFits
<1> QED
  BY <1>2, <1>3 DEF Store

LEMMA StepSize ==
    ASSUME TypeOK, Good, NEW t \in Threads, Step(t), ~undefined'
    PROVE  SizeChange
<1>0. /\ pc \in [Threads -> Operations] /\ cur \in [Threads -> Vals \cup {None}]
      /\ Len(list) \in Nat
  BY DEF TypeOK
<1>1. CASE Store(t)
  BY <1>1, StoreSize
<1>2. CASE EnsureSpace(t)
  <2> DEFINE from == {i \in DOMAIN list : list[i] = prev[t] /\ count[t] < need[t]}
             n == IF from = {} THEN 0 ELSE CHOOSE i \in from : TRUE
             r == Unpinned(t)
  <2>1. WalkOn(t, r, n) \/ StartWalk(t, r, need[t]) \/ GiveUp(t, r, need[t])
    BY <1>2 DEF EnsureSpace
  <2>2. n \in 0 .. Len(list)
    <3>1. from \subseteq 1 .. Len(list)
      BY DEF TypeOK
    <3>2. CASE from = {}
      BY <1>0, <3>2
    <3>3. CASE from # {}
      <4>1. n \in from
        BY <3>3
      <4> QED
        BY <3>1, <4>1
    <3> QED
      BY <3>2, <3>3
  <2> HIDE DEF n, r
  <2> QED
    BY <2>1, <2>2, TurnFits
<1>3. CASE Resize(t)
  <2>1. /\ pc[t] = "resize" /\ pc' = [pc EXCEPT ![t] = "link"]
        /\ list' = list /\ size' = size /\ cur' = cur
    BY <1>3 DEF Resize, storeVars
  <2>2. Filing' \subseteq Filing
    BY <1>0, <2>1, FilingChange
  <2> QED
    BY <2>1, <2>2 DEF SizeChange, SizeSame, Accounted, Stored
<1>4. ~ResizeFails(t)
  BY DEF ResizeFails
<1>5. CASE LinkResized(t)
  <2>1. /\ cur[t] \in Vals /\ cur[t] \notin Stored /\ cur[t] \in Filing
        /\ Link(t, cur[t]) /\ size' = size
    BY <1>5 DEF LinkResized, Good, CurTells, TypeOK, Filing
  <2>2. Stored' \subseteq Stored \cup {cur[t]} /\ Filing' \subseteq Filing
    BY <2>1, LinkFits
  <2> QED
    BY <2>1, <2>2 DEF SizeChange, SizeSame, Accounted
<1>6. CASE EndScavenge(t)
  <2>1. /\ pc' = [pc EXCEPT ![t] = "idle"] /\ list' = list /\ size' = size /\ cur' = cur
    BY <1>6 DEF EndScavenge, storeVars
  <2>2. Filing' \subseteq Filing
    BY <1>0, <2>1, FilingChange
  <2> QED
    BY <2>1, <2>2 DEF SizeChange, SizeSame, Accounted, Stored
<1>7. CASE Empty(t)
  <2>1. pc[t] = "empty" /\ (pc' = pc \/ pc' = [pc EXCEPT ![t] = "idle"]) /\ cur' = cur
    BY <1>7 DEF Empty
  <2>2. Filing' \subseteq Filing
    BY <1>0, <2>1, FilingChange
  <2>3. CASE list # <<>>
    <3>1. Evict(t, refs, 1) /\ 1 \in 1 .. Len(list)
      BY <1>7, <2>3 DEF Empty, TypeOK
    <3> QED
      BY <2>2, <3>1, EvictFits DEF SizeChange
  <2>4. CASE list = <<>>
    <3>1. list' = list /\ size' = size
      BY <1>7, <2>4 DEF Empty, storeVars
    <3> QED
      BY <2>2, <3>1 DEF SizeChange, SizeSame, Accounted, Stored
  <2> QED
    BY <2>3, <2>4
<1>8. CASE FreeVictim(t)
  BY <1>8 DEF FreeVictim, storeVars, SizeChange, SizeSame, Accounted, Stored, Filing
<1> QED
  BY <1>1, <1>2, <1>3, <1>4, <1>5, <1>6, <1>7, <1>8 DEF Step

LEMMA CallSize ==
    ASSUME TypeOK, Good, NEW t \in Threads, Call(t)
    PROVE  SizeChange
<1>0. /\ pc \in [Threads -> Operations] /\ cur \in [Threads -> Vals \cup {None}]
      /\ list \in Seq(Vals) /\ \A a, b \in 1 .. Len(list) : list[a] = list[b] => a = b
  BY DEF TypeOK, Good, Distinct
<1>1. ASSUME NEW v \in Vals, Create(t, v)
      PROVE  SizeChange
  <2>1. /\ pc' = [pc EXCEPT ![t] = "begin"] /\ cur' = [cur EXCEPT ![t] = v]
        /\ list' = list /\ size' = size
    BY <1>1 DEF Create
  <2>2. Filing' \subseteq Filing
    BY <1>0, <2>1, FilingChange
  <2> QED
    BY <2>1, <2>2 DEF SizeChange, SizeSame, Accounted, Stored
<1>2. ASSUME NEW v \in Vals, Drop(t, v)
      PROVE  SizeChange
  BY <1>2 DEF Drop, SizeChange, SizeSame, Accounted, Stored, Filing
<1>3. ASSUME NEW k \in Keys, Find(t, k)
      PROVE  SizeChange
  <2>1. PICK i \in Matches(k) : list' = <<list[i]>> \o RemoveAt(list, i)
    BY <1>3 DEF Find
  <2> DEFINE v == list[i]
             c == RemoveAt(list, i)
  <2>2. i \in 1 .. Len(list) /\ v \in Vals /\ v \in Stored
    BY MatchesInList, ListMember
  <2>3. /\ c \in Seq(Vals) /\ \A a, b \in 1 .. Len(c) : c[a] = c[b] => a = b
        /\ ToSet(c) = ToSet(list) \ {v}
    BY <1>0, <2>2, Cut
  <2>4. ToSet(<<v>> \o c) = ToSet(c) \cup {v}
    <3> HIDE DEF v, c
    <3>1. v \notin ToSet(c)
      BY <2>3
    <3> QED
      BY <2>2, <2>3, <3>1, Prepended
  <2>5. Stored' \subseteq Stored
    BY <2>1, <2>2, <2>3, <2>4 DEF Stored
  <2>6. size' = size /\ pc' = pc /\ cur' = cur
    BY <1>3 DEF Find, threadVars
  <2> QED
    BY <2>5, <2>6 DEF SizeChange, SizeSame, Accounted, Filing
<1>4. ASSUME NEW k \in Keys, RemoveItem(t, k)
      PROVE  SizeChange
  <2>1. PICK i \in Matches(k) : list' = RemoveAt(list, i)
    BY <1>4 DEF RemoveItem
  <2>2. i \in 1 .. Len(list)
    BY MatchesInList
  <2>3. Stored' \subseteq Stored
    BY <1>0, <2>1, <2>2, Cut DEF Stored
  <2>4. size' = size /\ pc' = pc /\ cur' = cur
    BY <1>4 DEF RemoveItem
  <2> QED
    BY <2>3, <2>4 DEF SizeChange, SizeSame, Accounted, Filing
<1>5. CASE Scavenge(t)
  <2>1. PICK i \in LastUnused(refs, Len(list)) : Evict(t, refs, i)
    BY <1>5 DEF Scavenge
  <2>2. i \in 1 .. Len(list)
    BY <2>1 DEF LastUnused
  <2>3. pc' = [pc EXCEPT ![t] = "scavenge"] /\ cur' = cur
    BY <1>5 DEF Scavenge
  <2>4. Filing' \subseteq Filing
    BY <1>0, <2>3, FilingChange
  <2> QED
    BY <2>1, <2>2, <2>4, EvictFits DEF SizeChange
<1>6. CASE Close(t)
  <2>1. /\ pc' = [pc EXCEPT ![t] = "empty"] /\ list' = list /\ size' = size /\ cur' = cur
    BY <1>6 DEF Close, storeVars
  <2>2. Filing' \subseteq Filing
    BY <1>0, <2>1, FilingChange
  <2> QED
    BY <2>1, <2>2 DEF SizeChange, SizeSame, Accounted, Stored
<1> QED
  BY <1>1, <1>2, <1>3, <1>4, <1>5, <1>6 DEF Call

LEMMA FitsKeeps == IInv /\ StoreFits /\ [Next]_vars => StoreFits'
<1> SUFFICES ASSUME IInv, StoreFits, [Next]_vars, ~undefined'
             PROVE  Fits'
  BY DEF StoreFits, Fits, Accounted
<1>1. CASE UNCHANGED vars
  <2>1. UNCHANGED <<list, size, pc, cur, undefined>>
    BY <1>1 DEF vars, storeVars, threadVars
  <2>2. Accounted' = Accounted /\ size' = size /\ ~undefined
    BY <2>1 DEF Accounted, Stored, Filing
  <2>3. TypeOK /\ Good /\ Fits
    BY <2>2 DEF IInv, StoreFits, Fits, Accounted
  <2> QED
    BY <2>2, <2>3, ChangeFits DEF SizeChange, SizeSame
<1>2. CASE Next
  <2>1. TypeOK /\ Good /\ Fits
    BY <1>2 DEF Next, IInv, StoreFits, Fits, Accounted
  <2>2. ASSUME NEW v \in Vals, Keep(v)
        PROVE  SizeChange
    BY <2>2 DEF Keep, threadVars, SizeChange, SizeSame, Accounted, Stored, Filing
  <2>3. SizeChange
    BY <1>2, <2>1, <2>2, StepSize, CallSize DEF Next
  <2> QED
    BY <2>1, <2>3, ChangeFits
<1> QED
  BY <1>1, <1>2

\* The store never holds more than its size accounts for, nor more than its maximum, with whatever
\* has been let in and is still on its way: for every number of threads and every size of objects.
THEOREM StoreIsBounded == Spec => []StoreFits
<1>1. Init => StoreFits
  <2> SUFFICES ASSUME Init
               PROVE  Total(Stored \cup Filing) <= size /\ size <= MaxSize
    BY DEF StoreFits
  <2>1. size = 0 /\ Stored = {} /\ Filing = {}
    BY DEF Init, Stored, Filing, ToSet
  <2> DEFINE all == Stored \cup Filing
  <2>2. all = {}
    BY <2>1
  <2>3. Total({}) = 0
    BY TotalIs, FS_EmptySet DEF TotalGoesDown
  <2> HIDE DEF all
  <2>4. Total(all) = 0
    BY <2>2, <2>3
  <2> QED
    BY <2>1, <2>4, SizesAssumption DEF all
<1> QED
  BY <1>1, FitsKeeps, Invariance, PTL DEF Spec

===============================================================================
