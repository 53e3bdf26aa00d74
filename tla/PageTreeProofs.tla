----------------------------- MODULE PageTreeProofs -----------------------------
(***************************************************************************)
(* Proofs about the page tree, for every fan-out and number of levels:     *)
(* with a BaseView maxNodeId is exact between two operations, and no       *)
(* access goes wrong; with a SurfaceView maxNodeId exceeds the length of   *)
(* the array by one at most, and what can fail is known.                   *)
(*                                                                         *)
(* IInv says for each place of an operation which nodes are there (There), *)
(* which ancestors are still to be created (Chain), how far maxNodeId is   *)
(* from being exact with a BaseView (Bound), and how far both threads      *)
(* together can raise it with a SurfaceView (Overshoot).                   *)
(***************************************************************************)
EXTENDS PageTree, WellFoundedInduction, TLAPS

-----------------------------------------------------------------------------
(***************************************************************************)
(* The inductive invariant.                                                *)
(***************************************************************************)
Walk == {"scan", "visit", "climb", "create", "make", "readMax", "writeMax"}
Raise == {"readMax", "writeMax"}
Recycle == {"recycleAll", "clearAll", "endAll", "recycleNodes", "clearNodes", "endNodes"}
Trims == {"trim", "trimRead", "trimLook", "lowerRead", "lowerWrite", "raiseRead", "raiseWrite"}
Lowering == {"endAll", "endNodes", "clamp"} \cup Trims

\* Drawing does not recycle, the root is always there and never to be created, and a BaseView is
\* drawn when the UI thread does nothing else.
Setting ==
    /\ TypeOK
    /\ 0 \in present
    /\ \A t \in Threads : path[t] \in Seq(Nodes \ {0})
    /\ pc["draw"] \in Walk \cup {"idle", "null", "nullParent"}
    /\ ~surfaceView => pc["ui"] = "idle" \/ pc["draw"] = "idle"

\* The path leads from a node whose parent may be there down to the node the walk stands at.
Chain(t) ==
    /\ pc[t] \in Walk \ {"scan"} => index[t] < end[t]
    /\ pc[t] \in Walk \ {"scan", "visit"} =>
         /\ Len(path[t]) > 0
         /\ path[t][Len(path[t])] = index[t]
         /\ \A i \in 1 .. Len(path[t]) - 1 : Parent(path[t][i + 1]) = path[t][i]

\* Where nobody else takes nodes away, what a thread has found or made is there.
There(t) ==
    /\ pc[t] = "visit" => index[t] \in present
    /\ pc[t] = "create" => Parent(path[t][1]) \in present
    /\ pc[t] \in Raise => Children(Parent(path[t][1])) \subseteq present
    /\ pc[t] \notin {"null", "nullParent"}

\* Recycling starts behind the root, and ends where children end.
Ahead ==
    /\ pc["ui"] \in Recycle => 1 <= end["ui"] /\ end["ui"] <= index["ui"]
    /\ pc["ui"] \in {"recycleAll", "clearAll", "endAll"} => end["ui"] = 1
    /\ pc["ui"] \in {"recycleNodes", "clearNodes", "endNodes"} => end["ui"] < NODES
    /\ pc["ui"] = "clearChildren" => 1 <= index["ui"] /\ index["ui"] <= end["ui"]

\* Whatever drawing does meanwhile, maxNodeId is at most one more than the length of the array, and
\* at most the length while the UI thread is lowering it: a thread that has read the larger value
\* finds it unchanged, or puts it back.
Overshoot ==
    /\ pc["ui"] \in Lowering => maxNodeId <= NODES
    /\ pc["ui"] \in {"trimLook", "lowerWrite", "raiseWrite"} => seen["ui"] <= NODES
    /\ seen["draw"] = NODES + 1 => maxNodeId = NODES + 1
    /\ pc["ui"] = "writeMax" /\ maxNodeId = NODES + 1 => seen["ui"] = NODES + 1
    /\ pc["ui"] \in {"trimRead", "trimLook", "lowerRead"} => maxNodeId > 0
    /\ pc["ui"] = "lowerWrite" => seen["ui"] > 0
    /\ ~surfaceView => maxNodeId <= NODES

Below == \A n \in present : n < maxNodeId
Highest == maxNodeId - 1 \in present

\* maxNodeId with a BaseView, for the thread whose turn it is.
Bound(t) ==
    /\ pc[t] \in Walk \ Raise => Below /\ Highest
    /\ pc[t] \in Raise =>
         /\ Highest
         /\ \A n \in present : n < maxNodeId \/ n \in Children(Parent(path[t][1]))
    /\ pc[t] \in {"writeMax", "trimLook", "lowerWrite", "raiseWrite"} => seen[t] = maxNodeId
    /\ pc[t] \in Recycle => Below /\ \A n \in present : n < end[t] \/ n >= index[t]
    /\ pc[t] \in {"clearAll", "clearNodes"} => index[t] < maxNodeId
    /\ pc[t] \in {"endAll", "endNodes"} => index[t] >= maxNodeId
    /\ pc[t] = "clearChildren" => Below /\ Highest
    /\ pc[t] = "lower" => Below /\ (index[t] < maxNodeId => Highest)
    /\ pc[t] = "clamp" => index[t] >= NODES
    /\ pc[t] \in Trims => maxNodeId < NODES /\ \A n \in present : n <= maxNodeId
    /\ pc[t] \in {"lowerRead", "lowerWrite"} => maxNodeId > 0 /\ maxNodeId \notin present
    /\ pc[t] \in {"raiseRead", "raiseWrite"} => maxNodeId \in present
    /\ pc[t] # "outOfBounds"

IInv ==
    /\ Setting /\ Ahead /\ Overshoot
    /\ \A t \in Threads : Chain(t) /\ (t = "ui" \/ ~surfaceView => There(t))
    /\ ~surfaceView => \A t \in Threads : Bound(t)
    /\ AtRest => Below /\ Highest

-----------------------------------------------------------------------------
(***************************************************************************)
(* Index arithmetic.                                                       *)
(***************************************************************************)
\* A set of natural numbers has a least one.
LEMMA Least ==
    ASSUME NEW T \in SUBSET Nat, T # {}
    PROVE  \E m \in T : \A x \in T : m <= x
<1> DEFINE R == OpToRel(<, Nat)
<1>1. \A x, y \in Nat : x < y => <<x, y>> \in R
  BY DEF OpToRel
<1>2. IsWellFoundedOn(R, Nat)
  BY NatLessThanWellFounded
<1> HIDE DEF R
<1>3. PICK m \in T : \A x \in T : ~(<<x, m>> \in R)
  BY <1>2, WFMin
<1>4. ASSUME NEW x \in T
      PROVE  m <= x
  <2>1. x \in Nat /\ m \in Nat
    OBVIOUS
  <2>2. ~(x < m)
    BY <1>1, <1>3, <2>1
  <2> QED
    BY <2>1, <2>2
<1> QED
  BY <1>4

LEMMA SetInduction ==
    ASSUME NEW T \in SUBSET Nat, 0 \in T, \A i \in T : i + 1 \in T
    PROVE  T = Nat
<1> SUFFICES ASSUME Nat \ T # {}
             PROVE  FALSE
  OBVIOUS
<1>1. PICK m \in Nat \ T : \A x \in Nat \ T : m <= x
  BY Least
<1>2. m - 1 \in Nat /\ m - 1 \notin Nat \ T
  BY <1>1
<1>3. (m - 1) + 1 \in T
  BY <1>2
<1> QED
  BY <1>3

\* A function on 0 .. n that begins with s and goes on step by step.
Steps == [Nat \X Nat -> Nat]
IsRecursive(f, n, s, step) ==
    f = [m \in 0 .. n |-> IF m = 0 THEN s ELSE step[<<m, f[m - 1]>>]]

LEMMA Recursion ==
    ASSUME NEW s \in Nat, NEW step \in Steps
    PROVE  \A n \in Nat : \E f \in [0 .. n -> Nat] : IsRecursive(f, n, s, step)
<1> DEFINE T == {n \in Nat : \E f \in [0 .. n -> Nat] : IsRecursive(f, n, s, step)}
<1>1. 0 \in T
  <2> DEFINE g == [m \in 0 .. 0 |-> s]
  <2>1. g \in [0 .. 0 -> Nat]
    OBVIOUS
  <2>2. \A m \in 0 .. 0 : g[m] = IF m = 0 THEN s ELSE step[<<m, g[m - 1]>>]
    OBVIOUS
  <2>3. g = [m \in 0 .. 0 |-> g[m]]
    OBVIOUS
  <2> HIDE DEF g
  <2>4. IsRecursive(g, 0, s, step)
    BY <2>2, <2>3 DEF IsRecursive
  <2> QED
    BY <2>1, <2>4
<1>2. ASSUME NEW n \in T
      PROVE  n + 1 \in T
  <2>1. PICK f \in [0 .. n -> Nat] : IsRecursive(f, n, s, step)
    BY <1>2
  <2>2. \A m \in 0 .. n : f[m] = IF m = 0 THEN s ELSE step[<<m, f[m - 1]>>]
    BY <2>1 DEF IsRecursive
  <2> DEFINE g == [m \in 0 .. n + 1 |-> IF m = n + 1 THEN step[<<m, f[n]>>] ELSE f[m]]
  <2>3. n \in Nat /\ n + 1 \in Nat /\ f[n] \in Nat
    OBVIOUS
  <2>4. step[<<n + 1, f[n]>>] \in Nat
    BY <2>3 DEF Steps
  <2>5. g \in [0 .. n + 1 -> Nat]
    BY <2>4
  <2>6. ASSUME NEW m \in 0 .. n + 1
        PROVE  g[m] = IF m = 0 THEN s ELSE step[<<m, g[m - 1]>>]
    <3>1. CASE m = n + 1
      <4>1. g[m - 1] = f[n] /\ m # 0
        BY <3>1
      <4> QED
        BY <3>1, <4>1
    <3>2. CASE m # n + 1
      <4>1. m \in 0 .. n /\ g[m] = f[m]
        BY <3>2
      <4>2. m # 0 => g[m - 1] = f[m - 1]
        BY <3>2
      <4> HIDE DEF g
      <4> QED
        BY <2>2, <4>1, <4>2
    <3> QED
      BY <3>1, <3>2
  <2>7. g = [m \in 0 .. n + 1 |-> g[m]]
    OBVIOUS
  <2> HIDE DEF g
  <2>8. IsRecursive(g, n + 1, s, step)
    BY <2>6, <2>7 DEF IsRecursive
  <2> QED
    BY <2>3, <2>5, <2>8
<1>3. T = Nat
  <2>1. T \in SUBSET Nat
    OBVIOUS
  <2> HIDE DEF T
  <2> QED
    BY <1>1, <1>2, <2>1, SetInduction
<1> QED
  BY <1>3

\* The widths and the starts of the levels are what their definitions say.
LEMMA WidthIs ==
    /\ Width \in [0 .. Levels -> Nat]
    /\ \A l \in 0 .. Levels : Width[l] = IF l = 0 THEN 1 ELSE Fanout * Width[l - 1]
<1> DEFINE step == [p \in Nat \X Nat |-> Fanout * p[2]]
<1>1. Fanout \in Nat /\ Levels \in Nat
  BY FanoutAssumption, LevelsAssumption
<1>2. step \in Steps
  BY <1>1 DEF Steps
<1>3. \A m, b \in Nat : step[<<m, b>>] = Fanout * b
  OBVIOUS
<1> HIDE DEF step
<1>4. PICK f \in [0 .. Levels -> Nat] : IsRecursive(f, Levels, 1, step)
  <2>1. \A n \in Nat : \E f \in [0 .. n -> Nat] : IsRecursive(f, n, 1, step)
    BY <1>2, Recursion
  <2> QED
    BY <1>1, <2>1
<1>5. ASSUME NEW g
      PROVE  g = [l \in 0 .. Levels |-> IF l = 0 THEN 1 ELSE Fanout * g[l - 1]]
               => \A l \in 0 .. Levels : g[l] = IF l = 0 THEN 1 ELSE Fanout * g[l - 1]
  OBVIOUS
<1>6. f = [l \in 0 .. Levels |-> IF l = 0 THEN 1 ELSE Fanout * f[l - 1]]
  <2>1. \A l \in 0 .. Levels : f[l] = IF l = 0 THEN 1 ELSE Fanout * f[l - 1]
    <3>1. \A l \in 0 .. Levels : f[l] = IF l = 0 THEN 1 ELSE step[<<l, f[l - 1]>>]
      BY <1>4 DEF IsRecursive
    <3>2. \A l \in 0 .. Levels : l # 0 => l \in Nat /\ f[l - 1] \in Nat
      BY <1>1
    <3> QED
      BY <1>3, <3>1, <3>2
  <2> QED
    BY <2>1
<1>7. Width = [l \in 0 .. Levels |-> IF l = 0 THEN 1 ELSE Fanout * Width[l - 1]]
  BY <1>6 DEF Width
<1>8. \A l \in 0 .. Levels : Width[l] = IF l = 0 THEN 1 ELSE Fanout * Width[l - 1]
  BY <1>5, <1>7
<1>9. Width \in [0 .. Levels -> Nat]
  <2> DEFINE T == {l \in Nat : l <= Levels => Width[l] \in Nat}
  <2>1. T \in SUBSET Nat /\ 0 \in T
    BY <1>1, <1>8
  <2>2. ASSUME NEW l \in T
        PROVE  l + 1 \in T
    <3> SUFFICES ASSUME l + 1 <= Levels PROVE Width[l + 1] \in Nat
      OBVIOUS
    <3>1. l + 1 \in 0 .. Levels /\ l + 1 # 0 /\ (l + 1) - 1 = l
      BY <1>1
    <3>2. Width[l + 1] = Fanout * Width[l]
      BY <1>8, <3>1
    <3>3. Width[l] \in Nat
      BY <1>1
    <3> QED
      BY <1>1, <3>2, <3>3
  <2> HIDE DEF T
  <2>3. T = Nat
    BY <2>1, <2>2, SetInduction
  <2>4. \A l \in 0 .. Levels : Width[l] \in Nat
    BY <1>1, <2>3 DEF T
  <2> QED
    BY <1>7, <2>4
<1> QED
  BY <1>8, <1>9

LEMMA StartIs ==
    /\ Start \in [0 .. Levels -> Nat]
    /\ \A l \in 0 .. Levels : Start[l] = IF l = 0 THEN 0 ELSE Start[l - 1] + Width[l - 1]
<1> DEFINE width(m) == IF m \in 1 .. Levels THEN Width[m - 1] ELSE 0
           step == [p \in Nat \X Nat |-> p[2] + width(p[1])]
<1>1. Levels \in Nat
  BY LevelsAssumption
<1>2. \A m \in Nat : width(m) \in Nat
  BY <1>1, WidthIs
<1>3. step \in Steps
  <2> HIDE DEF width
  <2> QED
    BY <1>2 DEF Steps
<1>4. \A m, b \in Nat : step[<<m, b>>] = b + width(m)
  OBVIOUS
<1> HIDE DEF step
<1>5. PICK f \in [0 .. Levels -> Nat] : IsRecursive(f, Levels, 0, step)
  <2>1. \A n \in Nat : \E f \in [0 .. n -> Nat] : IsRecursive(f, n, 0, step)
    BY <1>3, Recursion
  <2> QED
    BY <1>1, <2>1
<1>6. ASSUME NEW g
      PROVE  g = [l \in 0 .. Levels |-> IF l = 0 THEN 0 ELSE g[l - 1] + Width[l - 1]]
               => \A l \in 0 .. Levels : g[l] = IF l = 0 THEN 0 ELSE g[l - 1] + Width[l - 1]
  OBVIOUS
<1>7. f = [l \in 0 .. Levels |-> IF l = 0 THEN 0 ELSE f[l - 1] + Width[l - 1]]
  <2>1. \A l \in 0 .. Levels : f[l] = IF l = 0 THEN 0 ELSE f[l - 1] + Width[l - 1]
    <3>1. \A l \in 0 .. Levels : f[l] = IF l = 0 THEN 0 ELSE step[<<l, f[l - 1]>>]
      BY <1>5 DEF IsRecursive
    <3>2. \A l \in 0 .. Levels : l # 0 =>
             l \in Nat /\ f[l - 1] \in Nat /\ width(l) = Width[l - 1]
      BY <1>1
    <3> QED
      BY <1>4, <3>1, <3>2
  <2> QED
    BY <2>1
<1>8. Start = [l \in 0 .. Levels |-> IF l = 0 THEN 0 ELSE Start[l - 1] + Width[l - 1]]
  BY <1>7 DEF Start
<1>9. \A l \in 0 .. Levels : Start[l] = IF l = 0 THEN 0 ELSE Start[l - 1] + Width[l - 1]
  BY <1>6, <1>8
<1>10. Start \in [0 .. Levels -> Nat]
  <2> DEFINE T == {l \in Nat : l <= Levels => Start[l] \in Nat}
  <2>1. T \in SUBSET Nat /\ 0 \in T
    BY <1>1, <1>9
  <2>2. ASSUME NEW l \in T
        PROVE  l + 1 \in T
    <3> SUFFICES ASSUME l + 1 <= Levels PROVE Start[l + 1] \in Nat
      OBVIOUS
    <3>1. l + 1 \in 0 .. Levels /\ l \in 0 .. Levels /\ l + 1 # 0 /\ (l + 1) - 1 = l
      BY <1>1
    <3>2. Start[l + 1] = Start[l] + Width[l]
      BY <1>9, <3>1
    <3>3. Start[l] \in Nat /\ Width[l] \in Nat
      BY <1>1, <3>1, WidthIs
    <3> QED
      BY <3>2, <3>3
  <2> HIDE DEF T
  <2>3. T = Nat
    BY <2>1, <2>2, SetInduction
  <2>4. \A l \in 0 .. Levels : Start[l] \in Nat
    BY <1>1, <2>3 DEF T
  <2> QED
    BY <1>8, <2>4
<1> QED
  BY <1>9, <1>10

\* The children of the nodes of a level are the nodes of the next one.
LEMMA NextLevel ==
    \A l \in 0 .. Levels - 1 : Start[l + 1] = Fanout * Start[l] + 1
<1>1. Fanout \in Nat /\ Levels \in Nat
  BY FanoutAssumption, LevelsAssumption
<1> DEFINE T == {l \in Nat : l < Levels => Start[l + 1] = Fanout * Start[l] + 1}
<1>2. T \in SUBSET Nat
  OBVIOUS
<1>3. 0 \in T
  <2>1. Start[0] = 0 /\ Width[0] = 1
    BY <1>1, StartIs, WidthIs
  <2>2. 0 < Levels => Start[0 + 1] = Start[0] + Width[0]
    BY <1>1, StartIs
  <2> QED
    BY <1>1, <2>1, <2>2
<1>4. ASSUME NEW l \in T
      PROVE  l + 1 \in T
  <2> SUFFICES ASSUME l + 1 < Levels PROVE Start[(l + 1) + 1] = Fanout * Start[l + 1] + 1
    OBVIOUS
  <2>1. /\ l \in 0 .. Levels /\ l + 1 \in 0 .. Levels /\ l + 2 \in 0 .. Levels
        /\ (l + 1) - 1 = l /\ (l + 2) - 1 = l + 1 /\ (l + 1) + 1 = l + 2
        /\ l + 1 # 0 /\ l + 2 # 0
    BY <1>1
  <2>2. /\ Start[l + 1] = Start[l] + Width[l]
        /\ Start[l + 2] = Start[l + 1] + Width[l + 1]
        /\ Width[l + 1] = Fanout * Width[l]
    BY <2>1, StartIs, WidthIs
  <2>3. Start[l] \in Nat /\ Start[l + 1] \in Nat /\ Width[l] \in Nat
    BY <2>1, StartIs, WidthIs
  <2>4. Start[l + 1] = Fanout * Start[l] + 1
    BY <1>1
  <2>5. Fanout * (Start[l] + Width[l]) = Fanout * Start[l] + Fanout * Width[l]
    BY <1>1, <2>3
  <2>6. Start[l + 2] = (Fanout * Start[l] + 1) + Fanout * Width[l]
    BY <2>2, <2>4
  <2> QED
    BY <1>1, <2>1, <2>2, <2>3, <2>5, <2>6
<1> HIDE DEF T
<1>5. T = Nat
  BY <1>2, <1>3, <1>4, SetInduction
<1> QED
  BY <1>1, <1>5 DEF T

\* Each level begins behind the one before it, and none ends behind the array.
LEMMA LevelsFit ==
    /\ NODES \in Nat \ {0}
    /\ \E m \in Nat : NODES = Fanout * m + 1
    /\ \A l \in 0 .. Levels - 1 : /\ Start[l] \in Nat /\ End(l) \in Nat
                                  /\ Start[l] < End(l) /\ End(l) <= NODES
                                  /\ l > 0 => Start[l] > 0
<1>1. Fanout \in Nat /\ Fanout > 1 /\ Levels \in Nat /\ Levels > 0
  BY FanoutAssumption, LevelsAssumption
<1>2. \E m \in Nat : NODES = Fanout * m + 1
  <2>1. Levels - 1 \in 0 .. Levels - 1 /\ Levels - 1 \in 0 .. Levels /\ (Levels - 1) + 1 = Levels
    BY <1>1
  <2>2. Start[Levels - 1] \in Nat
    BY <2>1, StartIs
  <2> QED
    BY <2>1, <2>2, NextLevel DEF NODES
<1>3. NODES \in Nat \ {0}
  BY <1>1, <1>2
<1>4. ASSUME NEW l \in 0 .. Levels - 1
      PROVE  /\ Start[l] \in Nat /\ End(l) \in Nat /\ Start[l] < End(l)
             /\ l > 0 => Start[l] > 0
  <2>1. l \in 0 .. Levels /\ l + 1 \in 0 .. Levels
    BY <1>1
  <2>2. Start[l] \in Nat /\ End(l) \in Nat
    BY <2>1, StartIs DEF End
  <2>3. \A a \in Nat : Fanout * a >= a
    BY <1>1
  <2>4. Start[l] < End(l)
    BY <1>1, <2>2, <2>3, NextLevel DEF End
  <2>5. ASSUME l > 0 PROVE Start[l] > 0
    <3>1. l - 1 \in 0 .. Levels - 1 /\ l - 1 \in 0 .. Levels /\ (l - 1) + 1 = l
      BY <1>1, <2>5
    <3>2. Start[l - 1] \in Nat
      BY <3>1, StartIs
    <3>3. Start[l] = Fanout * Start[l - 1] + 1
      BY <3>1, NextLevel
    <3>4. Fanout * Start[l - 1] >= Start[l - 1]
      BY <2>3, <3>2
    <3> QED
      BY <1>1, <2>2, <3>2, <3>3, <3>4
  <2> QED
    BY <2>2, <2>4, <2>5
<1>5. \A l \in 0 .. Levels - 1 : End(l) <= NODES
  <2> DEFINE T == {k \in Nat : k < Levels => End((Levels - 1) - k) <= NODES}
  <2>1. T \in SUBSET Nat
    OBVIOUS
  <2>2. 0 \in T
    <3>1. (Levels - 1) - 0 + 1 = Levels
      BY <1>1
    <3> QED
      BY <1>3, <3>1 DEF End, NODES
  <2>3. ASSUME NEW k \in T
        PROVE  k + 1 \in T
    <3> SUFFICES ASSUME k + 1 < Levels PROVE End((Levels - 1) - (k + 1)) <= NODES
      OBVIOUS
    <3> DEFINE l == (Levels - 1) - k
    <3>1. l \in 0 .. Levels - 1 /\ l - 1 \in 0 .. Levels - 1 /\ (l - 1) + 1 = l
      BY <1>1
    <3>2. End(l) <= NODES
      BY <1>1
    <3>3. (Levels - 1) - (k + 1) = l - 1
      BY <1>1
    <3> HIDE DEF l
    <3>4. End(l - 1) = Start[l]
      BY <3>1 DEF End
    <3> QED
      BY <1>3, <1>4, <3>1, <3>2, <3>3, <3>4
  <2> HIDE DEF T
  <2>4. T = Nat
    BY <2>1, <2>2, <2>3, SetInduction
  <2>5. ASSUME NEW l \in 0 .. Levels - 1
        PROVE  End(l) <= NODES
    <3>1. /\ (Levels - 1) - l \in Nat /\ (Levels - 1) - l < Levels
          /\ (Levels - 1) - ((Levels - 1) - l) = l
      BY <1>1
    <3>2. (Levels - 1) - l \in T
      BY <2>4, <3>1
    <3> QED
      BY <3>1, <3>2 DEF T
  <2> QED
    BY <2>5
<1> QED
  BY <1>2, <1>3, <1>4, <1>5

\* The parent of a node is before it, and it and its siblings are in the array.
LEMMA ParentIs ==
    ASSUME NEW n \in Nodes \ {0}
    PROVE  /\ Parent(n) \in Nodes
           /\ n \in Children(Parent(n))
           /\ Children(Parent(n)) \subseteq Nodes \ {0}
           /\ ChildrenEnd(Parent(n)) \in Nat
           /\ ChildrenEnd(Parent(n)) <= NODES
           /\ ChildrenEnd(Parent(n)) - 1 \in Children(Parent(n))
<1>1. Fanout \in Nat /\ Fanout > 1 /\ NODES \in Nat /\ n \in Nat /\ n > 0 /\ n < NODES
  BY FanoutAssumption, LevelsFit DEF Nodes
<1>2. PICK m \in Nat : NODES = Fanout * m + 1
  BY LevelsFit
<1> DEFINE p == Parent(n)
<1>3. PICK r \in 0 .. Fanout - 1 : p \in Int /\ n - 1 = Fanout * p + r
  BY <1>1 DEF Parent
<1> HIDE DEF p
<1>4. p >= 0
  <2>1. ~(p <= -1)
    <3> SUFFICES ASSUME p <= -1 PROVE FALSE
      OBVIOUS
    <3>1. Fanout * p <= -Fanout
      BY <1>1, <1>3
    <3> QED
      BY <1>1, <1>3, <3>1
  <2> QED
    BY <1>3, <2>1
<1>5. p + 1 <= m
  <2>1. ~(p >= m)
    <3> SUFFICES ASSUME p >= m PROVE FALSE
      OBVIOUS
    <3>1. Fanout * p >= Fanout * m
      BY <1>1, <1>2, <1>3
    <3> QED
      BY <1>1, <1>2, <1>3, <3>1
  <2> QED
    BY <1>2, <1>3, <2>1
<1>6. Fanout * (p + 1) <= Fanout * m
  BY <1>1, <1>2, <1>3, <1>5
<1>7. Fanout * (p + 1) = Fanout * p + Fanout /\ p * Fanout = Fanout * p /\ Fanout * p \in Int
  BY <1>1, <1>3
<1>8. Fanout * p >= p
  BY <1>1, <1>3, <1>4
<1>9. p \in Nodes
  BY <1>1, <1>3, <1>4, <1>7, <1>8 DEF Nodes
<1> QED
  BY <1>1, <1>2, <1>3, <1>4, <1>6, <1>7, <1>8, <1>9
     DEF p, Children, ChildrenEnd, FirstChild, Nodes

\* The children of a node are behind the root.
LEMMA ChildIs ==
    ASSUME NEW n \in Nodes
    PROVE  /\ FirstChild(n) \in Nat \ {0}
           /\ ChildrenEnd(n) = FirstChild(n) + Fanout
           /\ ChildrenEnd(n) \in Nat
<1>1. Fanout \in Nat /\ n \in Nat
  BY FanoutAssumption, LevelsFit DEF Nodes
<1>2. n * Fanout \in Nat
  BY <1>1
<1> QED
  BY <1>1, <1>2 DEF FirstChild, ChildrenEnd
-----------------------------------------------------------------------------
(***************************************************************************)
(* The steps.  What one thread does leaves the variables of the other, and *)
(* with a BaseView the other does nothing meanwhile.                       *)
(***************************************************************************)
OnlyOf(t) ==
    \A u \in Threads \ {t} : /\ pc'[u] = pc[u] /\ index'[u] = index[u] /\ end'[u] = end[u]
                             /\ path'[u] = path[u] /\ seen'[u] = seen[u]

Alone(t) == ~surfaceView => \A u \in Threads \ {t} : pc[u] = "idle"

LEMMA Composed ==
    ASSUME IInv, NEW t \in Threads, OnlyOf(t), Alone(t), surfaceView' = surfaceView,
           present \subseteq present' \/ t = "ui",
           TypeOK', 0 \in present', path'[t] \in Seq(Nodes \ {0}),
           t = "draw" => pc'[t] \in Walk \cup {"idle", "null", "nullParent"},
           Ahead', Overshoot', Chain(t)', t = "ui" \/ ~surfaceView => There(t)',
           ~surfaceView => Bound(t)' /\ (pc'[t] = "idle" => Below' /\ Highest')
    PROVE  IInv'
<1>1. Setting'
  <2>1. \A u \in Threads : path'[u] \in Seq(Nodes \ {0})
    BY DEF OnlyOf, IInv, Setting
  <2>2. pc'["draw"] \in Walk \cup {"idle", "null", "nullParent"}
    BY DEF OnlyOf, IInv, Setting, Threads
  <2>3. ~surfaceView' => pc'["ui"] = "idle" \/ pc'["draw"] = "idle"
    BY DEF OnlyOf, Alone, Threads
  <2> QED
    BY <2>1, <2>2, <2>3 DEF Setting
<1>2. ASSUME NEW u \in Threads
      PROVE  Chain(u)' /\ (u = "ui" \/ ~surfaceView' => There(u)')
  <2>1. CASE u = t
    BY <2>1
  <2>2. CASE u # t
    <3>1. /\ pc'[u] = pc[u] /\ index'[u] = index[u] /\ end'[u] = end[u] /\ path'[u] = path[u]
          /\ Chain(u)
      BY <2>2 DEF OnlyOf, IInv
    <3>2. Chain(u)'
      BY <3>1 DEF Chain
    <3>3. ASSUME u = "ui" \/ ~surfaceView
          PROVE  There(u)'
      <4>1. There(u)
        BY <3>3 DEF IInv
      <4>2. CASE present \subseteq present'
        BY <3>1, <4>1, <4>2 DEF There, Raise
      <4>3. CASE ~surfaceView
        BY <2>2, <3>1, <4>3 DEF There, Raise, Alone
      <4> QED
        BY <2>2, <3>3, <4>2, <4>3 DEF Threads
    <3> QED
      BY <3>2, <3>3
  <2> QED
    BY <2>1, <2>2
<1>3. ASSUME ~surfaceView, NEW u \in Threads
      PROVE  Bound(u)'
  <2>1. CASE u # t
    <3>1. pc'[u] = "idle"
      BY <1>3, <2>1 DEF OnlyOf, Alone
    <3> QED
      BY <3>1 DEF Bound, Walk, Raise, Recycle, Trims
  <2> QED
    BY <1>3, <2>1
<1>4. AtRest' => Below' /\ Highest'
  BY DEF AtRest
<1> QED
  BY <1>1, <1>2, <1>3, <1>4 DEF IInv

\* Where a thread is in an operation, or begins one, it is alone with a BaseView.
LEMMA Busy ==
    ASSUME IInv, NEW t \in Threads, pc[t] # "idle"
    PROVE  Alone(t)
BY DEF IInv, Setting, Alone, Threads

LEMMA Begun ==
    ASSUME IInv, NEW t \in Threads, NEW to, Begin(t, to)
    PROVE  /\ pc[t] = "idle" /\ pc' = [pc EXCEPT ![t] = to]
           /\ Alone(t) /\ (~surfaceView => Below /\ Highest)
BY DEF Begin, Goto, IInv, Alone, AtRest

\* What the types say of the variables of one thread.
LEMMA Typed ==
    ASSUME IInv, NEW t \in Threads
    PROVE  /\ NODES \in Nat \ {0} /\ Fanout \in Nat
           /\ present \subseteq 0 .. NODES - 1 /\ 0 \in present
           /\ maxNodeId \in 0 .. NODES + 1
           /\ index[t] \in 0 .. NODES /\ end[t] \in 0 .. NODES
           /\ seen[t] \in 0 .. NODES + 1
           /\ path[t] \in Seq(Nodes) /\ path[t] \in Seq(Nodes \ {0})
BY LevelsFit, FanoutAssumption DEF IInv, Setting, TypeOK, Nodes

\* A step of thread t, after which its variables are these.
StepOf(t, to, i, e, p, x) ==
    /\ pc' = [pc EXCEPT ![t] = to] /\ index' = [index EXCEPT ![t] = i]
    /\ end' = [end EXCEPT ![t] = e] /\ path' = [path EXCEPT ![t] = p]
    /\ seen' = [seen EXCEPT ![t] = x]
    /\ to \in Places /\ i \in 0 .. NODES /\ e \in 0 .. NODES
    /\ p \in Seq(Nodes \ {0}) /\ x \in 0 .. NODES + 1

LEMMA TypesKept ==
    ASSUME IInv, NEW t \in Threads, surfaceView' = surfaceView,
           present' \subseteq Nodes, maxNodeId' \in 0 .. NODES + 1,
           NEW to, NEW i, NEW e, NEW p, NEW x, StepOf(t, to, i, e, p, x)
    PROVE  /\ TypeOK' /\ OnlyOf(t) /\ path'[t] \in Seq(Nodes \ {0})
           /\ pc'[t] = to /\ index'[t] = i /\ end'[t] = e /\ path'[t] = p /\ seen'[t] = x
<1>1. TypeOK /\ p \in Seq(Nodes)
  BY DEF IInv, Setting, StepOf
<1>2. /\ TypeOK'
      /\ pc'[t] = to /\ index'[t] = i /\ end'[t] = e /\ path'[t] = p /\ seen'[t] = x
  BY <1>1 DEF TypeOK, StepOf, Places
<1>3. OnlyOf(t)
  BY DEF OnlyOf, StepOf
<1> QED
  BY <1>2, <1>3 DEF StepOf

\* A variable that is left is the same as one that is given its own value.
LEMMA Kept ==
    ASSUME IInv, NEW t \in Threads
    PROVE  /\ pc = [pc EXCEPT ![t] = pc[t]] /\ index = [index EXCEPT ![t] = index[t]]
           /\ end = [end EXCEPT ![t] = end[t]] /\ path = [path EXCEPT ![t] = path[t]]
           /\ seen = [seen EXCEPT ![t] = seen[t]]
BY DEF IInv, Setting, TypeOK

\* An operation that is over has no local variables.
LEMMA Returned ==
    ASSUME IInv, NEW t \in Threads, NEW from, Return(t, from)
    PROVE  /\ pc[t] = from /\ StepOf(t, "idle", 0, 0, <<>>, 0)
           /\ pc'[t] = "idle" /\ seen'[t] = 0
           /\ Chain(t)' /\ There(t)' /\ Bound(t)'
<1>1. pc[t] = from /\ StepOf(t, "idle", 0, 0, <<>>, 0)
  <2>1. 0 \in 0 .. NODES /\ 0 \in 0 .. NODES + 1
    BY Typed
  <2>2. <<>> \in Seq(Nodes \ {0})
    OBVIOUS
  <2> QED
    BY <2>1, <2>2 DEF Return, Goto, StepOf, Places
<1>2. pc'[t] = "idle" /\ seen'[t] = 0
  BY <1>1 DEF StepOf, IInv, Setting, TypeOK
<1> QED
  BY <1>1, <1>2 DEF Chain, There, Bound, Walk, Raise, Recycle, Trims

LEMMA AheadKept ==
    ASSUME IInv, NEW t \in Threads, OnlyOf(t), t = "draw" \/ pc'[t] \notin Recycle \cup {"clearChildren"}
    PROVE  Ahead'
<1>1. CASE t = "draw"
  BY <1>1 DEF IInv, Ahead, OnlyOf, Threads
<1>2. CASE t = "ui" /\ pc'[t] \notin Recycle \cup {"clearChildren"}
  BY <1>2 DEF Ahead, Recycle
<1> QED
  BY <1>1, <1>2 DEF Threads

\* The bound stays where maxNodeId does, and drawing finds what it has read.
LEMMA OvershootKept ==
    ASSUME IInv, NEW t \in Threads, OnlyOf(t), surfaceView' = surfaceView, maxNodeId' = maxNodeId,
           seen'[t] \in {0, seen[t], maxNodeId},
           t = "draw" \/ pc'[t] \notin Lowering \cup {"writeMax"}
    PROVE  Overshoot'
<1>1. NODES \in Nat \ {0} /\ Overshoot
  BY LevelsFit DEF IInv
<1>2. CASE t = "draw"
  <2>1. pc'["ui"] = pc["ui"] /\ seen'["ui"] = seen["ui"]
    BY <1>2 DEF OnlyOf, Threads
  <2>2. seen'["draw"] = NODES + 1 => maxNodeId = NODES + 1
    BY <1>1, <1>2 DEF Overshoot
  <2> QED
    BY <1>1, <2>1, <2>2 DEF Overshoot
<1>3. CASE t = "ui" /\ pc'[t] \notin Lowering \cup {"writeMax"}
  <2>1. seen'["draw"] = seen["draw"]
    BY <1>3 DEF OnlyOf, Threads
  <2> QED
    BY <1>1, <1>3, <2>1 DEF Overshoot, Lowering, Trims
<1> QED
  BY <1>2, <1>3 DEF Threads

\* The walk of a level begins.
LEMMA ProcessStep ==
    ASSUME IInv, NEW t \in Threads, NEW l \in 0 .. Levels - 1, Process(t, l),
           surfaceView' = surfaceView
    PROVE  IInv'
<1>1. /\ pc' = [pc EXCEPT ![t] = "scan"] /\ Alone(t) /\ (~surfaceView => Below /\ Highest)
      /\ index' = [index EXCEPT ![t] = Start[l]] /\ end' = [end EXCEPT ![t] = End(l)]
      /\ UNCHANGED <<present, maxNodeId, path, seen>>
  BY Begun DEF Process
<1>2. Start[l] \in 0 .. NODES /\ End(l) \in 0 .. NODES
  BY LevelsFit, FanoutAssumption
<1>3. TypeOK' /\ OnlyOf(t) /\ pc'[t] = "scan" /\ path'[t] = path[t]
  <2>1. StepOf(t, "scan", Start[l], End(l), path[t], seen[t])
    BY <1>1, <1>2, Typed, Kept DEF StepOf, Places
  <2> QED
    BY <1>1, <2>1, Typed, TypesKept DEF Nodes
<1>4. Chain(t)' /\ There(t)'
  BY <1>3 DEF Chain, There, Walk, Raise
<1>5. ~surfaceView => Bound(t)'
  BY <1>1, <1>3 DEF Bound, Below, Highest, Walk, Raise, Recycle, Trims
<1>6. Ahead' /\ Overshoot'
  BY <1>1, <1>3, AheadKept, OvershootKept DEF Recycle, Lowering, Trims
<1> QED
  BY <1>1, <1>3, <1>4, <1>5, <1>6, Typed, Composed DEF Walk

\* The walk looks at a node, and has to create it if it misses.
LEMMA ScanStep ==
    ASSUME IInv, NEW t \in Threads, Scan(t), surfaceView' = surfaceView
    PROVE  IInv'
<1>1. /\ pc[t] = "scan" /\ index[t] < end[t]
      /\ UNCHANGED <<present, maxNodeId, index, end, seen>>
  BY DEF Scan, Goto
<1>2. Alone(t)
  BY <1>1, Busy
<1>3. ~surfaceView => Below' /\ Highest'
  BY <1>1 DEF IInv, Bound, Walk, Raise, Below, Highest
<1>4. CASE index[t] \in present
  <2>1. pc' = [pc EXCEPT ![t] = "visit"] /\ path' = path
    BY <1>4 DEF Scan, Goto
  <2>2. /\ TypeOK' /\ OnlyOf(t) /\ pc'[t] = "visit"
        /\ index'[t] = index[t] /\ end'[t] = end[t] /\ path'[t] = path[t]
    <3>1. StepOf(t, "visit", index[t], end[t], path[t], seen[t])
      BY <1>1, <2>1, Typed, Kept DEF StepOf, Places
    <3> QED
      BY <1>1, <3>1, Typed, TypesKept, SMTT(30) DEF Nodes
  <2>3. Chain(t)' /\ There(t)'
    BY <1>1, <1>4, <2>2 DEF Chain, There, Walk, Raise
  <2>4. ~surfaceView => Bound(t)'
    BY <1>3, <2>2 DEF Bound, Walk, Raise, Recycle, Trims
  <2>5. Ahead' /\ Overshoot'
    BY <1>1, <2>2, AheadKept, OvershootKept DEF Recycle, Lowering, Trims
  <2> QED
    BY <1>1, <1>2, <2>2, <2>3, <2>4, <2>5, Typed, Composed DEF Walk
<1>5. CASE index[t] \notin present
  <2>1. pc' = [pc EXCEPT ![t] = "climb"] /\ path' = [path EXCEPT ![t] = <<index[t]>>]
    BY <1>5 DEF Scan, Goto
  <2>2. index[t] \in Nodes \ {0}
    BY <1>1, <1>5, Typed DEF Nodes
  <2>3. <<index[t]>> \in Seq(Nodes \ {0}) /\ <<index[t]>> \in Seq(Nodes)
    BY <2>2
  <2>4. /\ TypeOK' /\ OnlyOf(t) /\ pc'[t] = "climb"
        /\ index'[t] = index[t] /\ end'[t] = end[t] /\ path'[t] = <<index[t]>>
    <3>1. StepOf(t, "climb", index[t], end[t], <<index[t]>>, seen[t])
      BY <1>1, <2>1, <2>3, Typed, Kept DEF StepOf, Places
    <3> QED
      BY <1>1, <3>1, Typed, TypesKept DEF Nodes
  <2>5. Chain(t)' /\ There(t)'
    BY <1>1, <2>2, <2>4 DEF Chain, There, Walk, Raise
  <2>6. ~surfaceView => Bound(t)'
    BY <1>3, <2>4 DEF Bound, Walk, Raise, Recycle, Trims
  <2>7. Ahead' /\ Overshoot'
    BY <1>1, <2>4, AheadKept, OvershootKept DEF Recycle, Lowering, Trims
  <2> QED
    BY <1>1, <1>2, <2>3, <2>4, <2>5, <2>6, <2>7, Typed, Composed DEF Walk
<1> QED
  BY <1>4, <1>5

LEMMA EndScanStep ==
    ASSUME IInv, NEW t \in Threads, EndScan(t), surfaceView' = surfaceView
    PROVE  IInv'
<1>1. Return(t, "scan") /\ UNCHANGED <<present, maxNodeId>>
  BY DEF EndScan
<1>2. /\ pc[t] = "scan" /\ StepOf(t, "idle", 0, 0, <<>>, 0) /\ pc'[t] = "idle" /\ seen'[t] = 0
      /\ Chain(t)' /\ There(t)' /\ Bound(t)'
  BY <1>1, Returned
<1>3. Alone(t)
  BY <1>2, Busy
<1>4. ~surfaceView => Below' /\ Highest'
  BY <1>1, <1>2 DEF IInv, Bound, Walk, Raise, Below, Highest
<1>5. TypeOK' /\ OnlyOf(t) /\ path'[t] \in Seq(Nodes \ {0})
  BY <1>1, <1>2, Typed, TypesKept DEF Nodes
<1>6. Ahead' /\ Overshoot'
  BY <1>1, <1>2, <1>5, AheadKept, OvershootKept DEF Recycle, Lowering, Trims
<1> QED
  BY <1>1, <1>2, <1>3, <1>4, <1>5, <1>6, Typed, Composed

\* The event looks at the node; only a thread from which nodes can be taken away misses it.
LEMMA VisitStep ==
    ASSUME IInv, NEW t \in Threads, Visit(t), surfaceView' = surfaceView
    PROVE  IInv'
<1>1. pc[t] = "visit" /\ UNCHANGED <<present, maxNodeId, end, path, seen>>
  BY DEF Visit
<1>2. Alone(t)
  BY <1>1, Busy
<1>3. ~surfaceView => Below' /\ Highest'
  BY <1>1 DEF IInv, Bound, Walk, Raise, Below, Highest
<1>4. CASE index[t] \in present
  <2>1. pc' = [pc EXCEPT ![t] = "scan"] /\ index' = [index EXCEPT ![t] = index[t] + 1]
    BY <1>4 DEF Visit, Goto
  <2>2. index[t] + 1 \in 0 .. NODES
    BY <1>1, Typed DEF IInv, Chain, Walk
  <2>3. TypeOK' /\ OnlyOf(t) /\ pc'[t] = "scan" /\ path'[t] = path[t]
    <3>1. StepOf(t, "scan", index[t] + 1, end[t], path[t], seen[t])
      BY <1>1, <2>1, <2>2, Typed, Kept DEF StepOf, Places
    <3> QED
      BY <1>1, <3>1, Typed, TypesKept DEF Nodes
  <2>4. Chain(t)' /\ There(t)'
    BY <2>3 DEF Chain, There, Walk, Raise
  <2>5. ~surfaceView => Bound(t)'
    BY <1>3, <2>3 DEF Bound, Walk, Raise, Recycle, Trims
  <2>6. Ahead' /\ Overshoot'
    BY <1>1, <2>3, AheadKept, OvershootKept DEF Recycle, Lowering, Trims
  <2> QED
    BY <1>1, <1>2, <2>3, <2>4, <2>5, <2>6, Typed, Composed DEF Walk
<1>5. CASE index[t] \notin present
  <2>1. pc' = [pc EXCEPT ![t] = "null"] /\ index' = index
    BY <1>5 DEF Visit, Goto
  <2>2. surfaceView /\ t = "draw"
    BY <1>1, <1>5 DEF IInv, There, Threads
  <2>3. TypeOK' /\ OnlyOf(t) /\ pc'[t] = "null" /\ path'[t] = path[t]
    <3>1. StepOf(t, "null", index[t], end[t], path[t], seen[t])
      BY <1>1, <2>1, Typed, Kept DEF StepOf, Places
    <3> QED
      BY <1>1, <3>1, Typed, TypesKept DEF Nodes
  <2>4. Chain(t)'
    BY <2>3 DEF Chain, Walk
  <2>5. Ahead' /\ Overshoot'
    BY <1>1, <2>2, <2>3, AheadKept, OvershootKept
  <2> QED
    BY <1>1, <1>2, <2>2, <2>3, <2>4, <2>5, Typed, Composed
<1> QED
  BY <1>4, <1>5

\* The parent to be created next is there, or goes onto the path itself.
LEMMA ClimbStep ==
    ASSUME IInv, NEW t \in Threads, Climb(t), surfaceView' = surfaceView
    PROVE  IInv'
<1>1. pc[t] = "climb" /\ UNCHANGED <<present, maxNodeId, index, end, seen>>
  BY DEF Climb
<1>2. Alone(t)
  BY <1>1, Busy
<1>3. ~surfaceView => Below' /\ Highest'
  BY <1>1 DEF IInv, Bound, Walk, Raise, Below, Highest
<1>4. /\ index[t] < end[t] /\ Len(path[t]) > 0 /\ path[t][Len(path[t])] = index[t]
      /\ \A i \in 1 .. Len(path[t]) - 1 : Parent(path[t][i + 1]) = path[t][i]
  BY <1>1 DEF IInv, Chain, Walk
<1>5. Head(path[t]) = path[t][1] /\ path[t][1] \in Nodes \ {0}
  BY <1>4, Typed
<1> DEFINE parent == Parent(path[t][1])
<1>6. parent \in Nodes
  BY <1>5, ParentIs
<1>7. CASE parent \in present
  <2>1. pc' = [pc EXCEPT ![t] = "create"] /\ path' = path
    BY <1>5, <1>7 DEF Climb, Goto
  <2>2. /\ TypeOK' /\ OnlyOf(t) /\ pc'[t] = "create"
        /\ index'[t] = index[t] /\ end'[t] = end[t] /\ path'[t] = path[t]
    <3>1. StepOf(t, "create", index[t], end[t], path[t], seen[t])
      BY <1>1, <2>1, Typed, Kept DEF StepOf, Places
    <3> QED
      BY <1>1, <3>1, Typed, TypesKept DEF Nodes
  <2>3. Chain(t)' /\ There(t)'
    BY <1>1, <1>4, <1>7, <2>2 DEF Chain, There, Walk, Raise
  <2>4. ~surfaceView => Bound(t)'
    BY <1>3, <2>2 DEF Bound, Walk, Raise, Recycle, Trims
  <2>5. Ahead' /\ Overshoot'
    BY <1>1, <2>2, AheadKept, OvershootKept DEF Recycle, Lowering, Trims
  <2> QED
    BY <1>1, <1>2, <2>2, <2>3, <2>4, <2>5, Typed, Composed DEF Walk
<1>8. CASE parent \notin present
  <2> DEFINE p == <<parent>> \o path[t]
  <2>1. pc' = [pc EXCEPT ![t] = "climb"] /\ path' = [path EXCEPT ![t] = p]
    BY <1>5, <1>8 DEF Climb, Goto
  <2>2. parent \in Nodes \ {0}
    BY <1>6, <1>8, Typed
  <2> HIDE DEF parent
  <2>3. /\ p \in Seq(Nodes \ {0}) /\ p \in Seq(Nodes) /\ Len(p) = Len(path[t]) + 1
        /\ p[1] = parent /\ \A i \in 1 .. Len(path[t]) : p[i + 1] = path[t][i]
    BY <2>2, Typed
  <2> HIDE DEF p
  <2>4. /\ TypeOK' /\ OnlyOf(t) /\ pc'[t] = "climb"
        /\ index'[t] = index[t] /\ end'[t] = end[t] /\ path'[t] = p
    <3>1. StepOf(t, "climb", index[t], end[t], p, seen[t])
      BY <1>1, <2>1, <2>3, Typed, Kept DEF StepOf, Places
    <3> QED
      BY <1>1, <3>1, Typed, TypesKept DEF Nodes
  <2>5. Len(path[t]) \in Nat
    BY Typed
  <2>6. \A i \in 1 .. Len(p) - 1 : Parent(p[i + 1]) = p[i]
    <3>1. ASSUME NEW i \in 1 .. Len(path[t])
          PROVE  Parent(p[i + 1]) = p[i]
      <4>1. CASE i = 1
        BY <1>4, <2>3, <2>5, <4>1 DEF parent
      <4>2. CASE i # 1
        <5>1. i - 1 \in 1 .. Len(path[t]) - 1 /\ (i - 1) + 1 = i
          BY <2>5, <4>2
        <5>2. p[i + 1] = path[t][i] /\ p[i] = path[t][i - 1]
          BY <2>3, <2>5, <5>1
        <5> QED
          BY <1>4, <5>1, <5>2
      <4> QED
        BY <4>1, <4>2
    <3> QED
      BY <2>3, <2>5, <3>1
  <2>7. p[Len(p)] = index[t] /\ Len(p) > 0
    BY <1>4, <2>3, <2>5
  <2>8. Chain(t)' /\ There(t)'
    BY <1>4, <2>4, <2>6, <2>7 DEF Chain, There, Walk, Raise
  <2>9. ~surfaceView => Bound(t)'
    BY <1>3, <2>4 DEF Bound, Walk, Raise, Recycle, Trims
  <2>10. Ahead' /\ Overshoot'
    BY <1>1, <2>4, AheadKept, OvershootKept DEF Recycle, Lowering, Trims
  <2> QED
    BY <1>1, <1>2, <2>3, <2>4, <2>8, <2>9, <2>10, Typed, Composed DEF Walk
<1> QED
  BY <1>7, <1>8

\* getParent finds the parent; only a thread from which nodes can be taken away misses it.
LEMMA FindParentStep ==
    ASSUME IInv, NEW t \in Threads, FindParent(t), surfaceView' = surfaceView
    PROVE  IInv'
<1>1. pc[t] = "create" /\ UNCHANGED <<present, maxNodeId, index, end, path, seen>>
  BY DEF FindParent, Goto
<1>2. Alone(t)
  BY <1>1, Busy
<1>3. Head(path[t]) = path[t][1]
  BY <1>1, Typed DEF IInv, Chain, Walk
<1> DEFINE parent == Parent(path[t][1])
           to == IF parent \in present THEN "make" ELSE "nullParent"
<1>4. pc' = [pc EXCEPT ![t] = to] /\ to \in Places
  BY <1>3 DEF FindParent, Goto, Places
<1> HIDE DEF to
<1>5. /\ TypeOK' /\ OnlyOf(t) /\ pc'[t] = to /\ path'[t] \in Seq(Nodes \ {0})
      /\ index'[t] = index[t] /\ end'[t] = end[t] /\ path'[t] = path[t] /\ seen'[t] = seen[t]
  <2>1. StepOf(t, to, index[t], end[t], path[t], seen[t])
    BY <1>1, <1>4, Typed, Kept DEF StepOf
  <2> QED
    BY <1>1, <2>1, Typed, TypesKept DEF Nodes
<1>6. to = "make" \/ (to = "nullParent" /\ surfaceView /\ t = "draw")
  <2>1. CASE parent \in present
    BY <2>1 DEF to
  <2>2. CASE parent \notin present
    <3>1. ~(t = "ui" \/ ~surfaceView)
      BY <1>1, <2>2 DEF IInv, There
    <3> QED
      BY <2>2, <3>1 DEF to, Threads
  <2> QED
    BY <2>1, <2>2
<1>7. Chain(t)'
  BY <1>1, <1>5, <1>6 DEF IInv, Chain, Walk
<1>8. t = "ui" \/ ~surfaceView => There(t)'
  BY <1>5, <1>6 DEF There, Raise
<1>9. ~surfaceView => Bound(t)'
  <2>1. ~surfaceView => Below' /\ Highest'
    BY <1>1 DEF IInv, Bound, Walk, Raise, Below, Highest
  <2> QED
    BY <1>5, <1>6, <2>1 DEF Bound, Walk, Raise, Recycle, Trims
<1>10. Ahead' /\ Overshoot'
  BY <1>1, <1>5, <1>6, AheadKept, OvershootKept DEF Recycle, Lowering, Trims
<1>11. t = "draw" => pc'[t] \in Walk \cup {"null", "nullParent"}
  BY <1>5, <1>6 DEF Walk
<1>12. ~surfaceView => pc'[t] # "idle"
  BY <1>5, <1>6
<1> QED
  BY <1>1, <1>2, <1>5, <1>7, <1>8, <1>9, <1>10, <1>11, <1>12, Typed, Composed

\* The children are created.
LEMMA CreateStep ==
    ASSUME IInv, NEW t \in Threads, CreateChildren(t), surfaceView' = surfaceView
    PROVE  IInv'
<1> DEFINE parent == Parent(path[t][1])
<1>1. /\ pc[t] = "make" /\ pc' = [pc EXCEPT ![t] = "readMax"]
      /\ UNCHANGED <<maxNodeId, index, end, path, seen>>
  BY DEF CreateChildren, Goto
<1>2. Alone(t)
  BY <1>1, Busy
<1>3. Len(path[t]) > 0
  BY <1>1 DEF IInv, Chain, Walk
<1>4. Head(path[t]) = path[t][1] /\ path[t][1] \in Nodes \ {0}
  BY <1>3, Typed
<1>5. present' = present \cup Children(parent)
  BY <1>4 DEF CreateChildren
<1>6. present' \subseteq Nodes /\ 0 \in present'
  BY <1>4, <1>5, Typed, ParentIs DEF Nodes
<1>7. /\ TypeOK' /\ OnlyOf(t) /\ pc'[t] = "readMax" /\ path'[t] \in Seq(Nodes \ {0})
      /\ index'[t] = index[t] /\ end'[t] = end[t] /\ path'[t] = path[t] /\ seen'[t] = seen[t]
  <2>1. StepOf(t, "readMax", index[t], end[t], path[t], seen[t])
    BY <1>1, Typed, Kept DEF StepOf, Places
  <2> QED
    BY <1>1, <1>6, <2>1, Typed, TypesKept
<1>8. Chain(t)' /\ There(t)'
  BY <1>1, <1>5, <1>7 DEF IInv, Chain, There, Walk, Raise
<1>9. ~surfaceView => Bound(t)'
  <2>1. ~surfaceView => Below /\ Highest
    BY <1>1 DEF IInv, Bound, Walk, Raise
  <2>2. ~surfaceView => /\ Highest'
                        /\ \A n \in present' : n < maxNodeId' \/ n \in Children(parent)
    BY <1>1, <1>5, <2>1 DEF Below, Highest
  <2> QED
    BY <1>7, <2>2 DEF Bound, Walk, Raise, Recycle, Trims
<1>10. Ahead' /\ Overshoot'
  BY <1>1, <1>7, AheadKept, OvershootKept DEF Recycle, Lowering, Trims
<1> QED
  BY <1>2, <1>5, <1>6, <1>7, <1>8, <1>9, <1>10, Composed DEF Walk

LEMMA ReadMaxStep ==
    ASSUME IInv, NEW t \in Threads, ReadMax(t, "readMax", "writeMax"), surfaceView' = surfaceView
    PROVE  IInv'
<1>1. /\ pc[t] = "readMax" /\ pc' = [pc EXCEPT ![t] = "writeMax"]
      /\ seen' = [seen EXCEPT ![t] = maxNodeId]
      /\ UNCHANGED <<present, maxNodeId, index, end, path>>
  BY DEF ReadMax, Goto
<1>2. Alone(t)
  BY <1>1, Busy
<1>3. /\ TypeOK' /\ OnlyOf(t) /\ pc'[t] = "writeMax" /\ path'[t] \in Seq(Nodes \ {0})
      /\ index'[t] = index[t] /\ end'[t] = end[t] /\ path'[t] = path[t]
      /\ seen'[t] = maxNodeId
  <2>1. StepOf(t, "writeMax", index[t], end[t], path[t], maxNodeId)
    BY <1>1, Typed, Kept DEF StepOf, Places
  <2> QED
    BY <1>1, <2>1, Typed, TypesKept DEF Nodes
<1>4. Chain(t)'
  BY <1>1, <1>3 DEF IInv, Chain, Walk
<1>5. t = "ui" \/ ~surfaceView => There(t)'
  BY <1>1, <1>3 DEF IInv, There, Raise
<1>6. ~surfaceView => Bound(t)'
  <2>1. ~surfaceView =>
          /\ Highest'
          /\ \A n \in present' : n < maxNodeId' \/ n \in Children(Parent(path'[t][1]))
    BY <1>1, <1>3 DEF IInv, Bound, Raise, Highest
  <2> QED
    BY <1>1, <1>3, <2>1 DEF Bound, Walk, Raise, Recycle, Trims
<1>7. Ahead' /\ Overshoot'
  <2>1. Ahead'
    BY <1>3, AheadKept DEF Recycle
  <2>2. t = "draw" => Overshoot'
    BY <1>1, <1>3, OvershootKept
  <2>3. CASE t = "ui"
    <3>1. seen'["draw"] = seen["draw"] /\ Overshoot
      BY <1>3, <2>3 DEF OnlyOf, Threads, IInv
    <3>2. Overshoot'
      <4>1. pc'["ui"] = "writeMax" /\ seen'["ui"] = maxNodeId /\ maxNodeId' = maxNodeId
        BY <1>1, <1>3, <2>3
      <4> QED
        BY <3>1, <4>1 DEF Overshoot, Lowering, Trims
    <3> QED
      BY <2>1, <3>2
  <2> QED
    BY <2>1, <2>2, <2>3 DEF Threads
<1> QED
  BY <1>1, <1>2, <1>3, <1>4, <1>5, <1>6, <1>7, Typed, Composed DEF Walk

LEMMA TailIs ==
    ASSUME NEW S, NEW s \in Seq(S), Len(s) > 0
    PROVE  /\ Tail(s) \in Seq(S) /\ Len(Tail(s)) = Len(s) - 1 /\ Len(s) \in Nat
           /\ \A i \in 1 .. Len(Tail(s)) : Tail(s)[i] = s[i + 1]
           /\ Tail(s) = <<>> <=> Len(Tail(s)) = 0
<1>1. Tail(s) \in Seq(S) /\ Len(Tail(s)) = Len(s) - 1 /\ Len(s) \in Nat
  OBVIOUS
<1>2. \A i \in 1 .. Len(Tail(s)) : Tail(s)[i] = s[i + 1]
  OBVIOUS
<1>3. Tail(s) = <<>> <=> Len(Tail(s)) = 0
  BY <1>1, SMTT(30)
<1> QED
  BY <1>1, <1>2, <1>3

\* With the children maxNodeId is exact again; the next node of the path is one of them.
LEMMA WriteMaxStep ==
    ASSUME IInv, NEW t \in Threads, WriteMax(t), surfaceView' = surfaceView
    PROVE  IInv'
<1> DEFINE parent == Parent(path[t][1])
           to == IF Tail(path[t]) = <<>> THEN "visit" ELSE "create"
<1>1. /\ pc[t] = "writeMax"
      /\ path' = [path EXCEPT ![t] = Tail(path[t])]
      /\ pc' = [pc EXCEPT ![t] = to]
      /\ seen' = [seen EXCEPT ![t] = 0]
      /\ UNCHANGED <<present, index, end>>
  BY DEF WriteMax, Goto
<1>2. Alone(t)
  BY <1>1, Busy
<1>3. /\ index[t] < end[t] /\ Len(path[t]) > 0 /\ path[t][Len(path[t])] = index[t]
      /\ \A i \in 1 .. Len(path[t]) - 1 : Parent(path[t][i + 1]) = path[t][i]
  BY <1>1 DEF IInv, Chain, Walk
<1>4. Head(path[t]) = path[t][1] /\ path[t][1] \in Nodes \ {0}
  BY <1>3, Typed
<1>5. maxNodeId' = IF seen[t] < ChildrenEnd(parent) THEN ChildrenEnd(parent) ELSE seen[t]
  BY <1>4 DEF WriteMax
<1>6. /\ parent \in Nodes /\ path[t][1] \in Children(parent)
      /\ ChildrenEnd(parent) \in Nat /\ ChildrenEnd(parent) <= NODES
      /\ ChildrenEnd(parent) - 1 \in Children(parent)
  BY <1>4, ParentIs
<1> DEFINE p == Tail(path[t])
<1>7. /\ p \in Seq(Nodes \ {0}) /\ Len(p) = Len(path[t]) - 1 /\ Len(path[t]) \in Nat
      /\ \A i \in 1 .. Len(p) : p[i] = path[t][i + 1]
      /\ p = <<>> <=> Len(p) = 0
  BY <1>3, Typed, TailIs
<1> HIDE DEF parent, p
<1>8. maxNodeId' \in 0 .. NODES + 1
  BY <1>5, <1>6, Typed
<1>9. /\ TypeOK' /\ OnlyOf(t) /\ pc'[t] = to /\ path'[t] \in Seq(Nodes \ {0})
      /\ index'[t] = index[t] /\ end'[t] = end[t] /\ path'[t] = p /\ seen'[t] = 0
  <2>1. StepOf(t, to, index[t], end[t], p, 0)
    <3>1. to \in Places
      BY DEF Places
    <3> QED
      BY <1>1, <1>7, <3>1, Typed, Kept DEF StepOf, p
  <2> HIDE DEF to
  <2> QED
    BY <1>1, <1>8, <2>1, Typed, TypesKept DEF Nodes
<1>10. ASSUME Len(p) = 0
       PROVE  Chain(t)' /\ (t = "ui" \/ ~surfaceView => There(t)')
  <2>1. to = "visit" /\ Len(path[t]) = 1 /\ index[t] = path[t][1]
    BY <1>3, <1>7, <1>10 DEF p
  <2> HIDE DEF to
  <2>2. Chain(t)'
    BY <1>3, <1>9, <2>1 DEF Chain, Walk
  <2>3. t = "ui" \/ ~surfaceView => There(t)'
    <3>1. t = "ui" \/ ~surfaceView => path[t][1] \in present
      BY <1>1, <1>6 DEF IInv, There, Raise, parent
    <3> QED
      BY <1>1, <1>9, <2>1, <3>1 DEF There, Raise
  <2> QED
    BY <2>2, <2>3
<1>11. ASSUME Len(p) # 0
       PROVE  Chain(t)' /\ (t = "ui" \/ ~surfaceView => There(t)')
  <2>1. to = "create" /\ Len(p) > 0
    BY <1>7, <1>11 DEF p
  <2> HIDE DEF to
  <2>2. p[Len(p)] = index[t]
    BY <1>3, <1>7, <2>1
  <2>3. \A i \in 1 .. Len(p) - 1 : Parent(p[i + 1]) = p[i]
    <3>1. ASSUME NEW i \in 1 .. Len(p) - 1
          PROVE  Parent(p[i + 1]) = p[i]
      <4>1. i + 1 \in 1 .. Len(path[t]) - 1 /\ i + 1 \in 1 .. Len(p) /\ i \in 1 .. Len(p)
        BY <1>7
      <4>2. p[i + 1] = path[t][(i + 1) + 1] /\ p[i] = path[t][i + 1]
        BY <1>7, <4>1
      <4> QED
        BY <1>3, <4>1, <4>2
    <3> QED
      BY <3>1
  <2>4. Parent(p[1]) = path[t][1]
    <3>1. 1 \in 1 .. Len(path[t]) - 1 /\ 1 \in 1 .. Len(p) /\ p[1] = path[t][1 + 1]
      BY <1>7, <2>1
    <3> QED
      BY <1>3, <3>1
  <2>5. Chain(t)'
    BY <1>3, <1>9, <2>1, <2>2, <2>3 DEF Chain, Walk
  <2>6. t = "ui" \/ ~surfaceView => There(t)'
    <3>1. t = "ui" \/ ~surfaceView => path[t][1] \in present
      BY <1>1, <1>6 DEF IInv, There, Raise, parent
    <3> QED
      <4>1. Parent(path'[t][1]) = path[t][1] /\ pc'[t] = "create" /\ present' = present
        BY <1>1, <1>9, <2>1, <2>4
      <4> QED
        BY <3>1, <4>1 DEF There, Raise
  <2> QED
    BY <2>5, <2>6
<1>12. ~surfaceView => Bound(t)'
  <2> SUFFICES ASSUME ~surfaceView PROVE Bound(t)'
    OBVIOUS
  <2>1. /\ Highest /\ seen[t] = maxNodeId
        /\ \A n \in present : n < maxNodeId \/ n \in Children(parent)
    BY <1>1 DEF IInv, Bound, Raise, parent
  <2>2. Children(parent) \subseteq present
    BY <1>1 DEF IInv, There, Raise, parent
  <2>3. \A n \in Children(parent) : n < ChildrenEnd(parent)
    BY <1>6, ChildIs DEF Children
  <2>4. Below'
    BY <1>1, <1>5, <1>6, <2>1, <2>3, Typed DEF Below
  <2>5. Highest'
    BY <1>1, <1>5, <1>6, <2>1, <2>2 DEF Highest
  <2> QED
    BY <1>9, <2>4, <2>5 DEF Bound, Walk, Raise, Recycle, Trims
<1>13. Overshoot'
  <2>1. Overshoot /\ NODES \in Nat /\ maxNodeId \in 0 .. NODES + 1 /\ seen[t] \in 0 .. NODES + 1
    BY Typed DEF IInv
  <2>2. maxNodeId' = NODES + 1 => seen[t] = NODES + 1
    BY <1>5, <1>6, <2>1
  <2>3. maxNodeId' > 0 /\ (~surfaceView => maxNodeId' <= NODES)
    <3>1. ~surfaceView => seen[t] = maxNodeId
      BY <1>1 DEF IInv, Bound
    <3>2. ChildrenEnd(parent) > 0
      BY <1>4, ParentIs, ChildIs, FanoutAssumption DEF parent
    <3> QED
      BY <1>5, <1>6, <2>1, <3>1, <3>2 DEF Overshoot
  <2>4. CASE t = "draw"
    <3>1. pc'["ui"] = pc["ui"] /\ seen'["ui"] = seen["ui"] /\ seen'["draw"] = 0
      BY <1>9, <2>4 DEF OnlyOf, Threads
    <3>2. maxNodeId' = NODES + 1 => maxNodeId = NODES + 1
      BY <2>1, <2>2, <2>4 DEF Overshoot
    <3>3. pc["ui"] \in Lowering => maxNodeId' <= NODES
      BY <1>8, <2>1, <3>2 DEF Overshoot
    <3> QED
      BY <1>1, <2>1, <2>3, <2>4, <3>1, <3>2, <3>3 DEF Overshoot
  <2>5. CASE t = "ui"
    <3>1. seen'["draw"] = seen["draw"] /\ pc'["ui"] \in {"visit", "create"}
      BY <1>9, <2>5 DEF OnlyOf, Threads
    <3>2. maxNodeId = NODES + 1 => maxNodeId' = NODES + 1
      BY <1>1, <1>5, <1>6, <2>1, <2>5 DEF Overshoot
    <3> QED
      BY <2>1, <2>3, <3>1, <3>2 DEF Overshoot, Lowering, Trims
  <2> QED
    BY <2>4, <2>5 DEF Threads
<1>14. Ahead' /\ to # "idle" /\ to \in Walk
  BY <1>9, AheadKept DEF Recycle, Walk
<1> QED
  BY <1>1, <1>2, <1>9, <1>10, <1>11, <1>12, <1>13, <1>14, Typed, Composed
\* Only a drawing thread gives up a frame.
LEMMA DropFrameStep ==
    ASSUME IInv, DropFrame, surfaceView' = surfaceView
    PROVE  IInv'
<1> DEFINE t == "draw"
<1>1. t \in Threads
  BY DEF Threads
<1>2. PICK from \in {"null", "nullParent"} : Return(t, from)
  BY DEF DropFrame
<1>3. UNCHANGED <<present, maxNodeId>>
  BY DEF DropFrame
<1>4. /\ pc[t] = from /\ StepOf(t, "idle", 0, 0, <<>>, 0) /\ pc'[t] = "idle" /\ seen'[t] = 0
      /\ Chain(t)' /\ There(t)' /\ Bound(t)'
  BY <1>1, <1>2, Returned
<1>5. Alone(t)
  BY <1>1, <1>2, <1>4, Busy
<1>6. surfaceView
  BY <1>1, <1>2, <1>4 DEF IInv, There
<1>7. TypeOK' /\ OnlyOf(t) /\ path'[t] \in Seq(Nodes \ {0})
  BY <1>1, <1>3, <1>4, Typed, TypesKept DEF Nodes
<1>8. Ahead' /\ Overshoot'
  <2>1. seen'[t] = 0
    BY <1>4
  <2> HIDE DEF t
  <2>2. t = "draw"
    BY DEF t
  <2> QED
    BY <1>1, <1>3, <1>7, <2>1, <2>2, AheadKept, OvershootKept
<1> QED
  BY <1>1, <1>3, <1>4, <1>5, <1>6, <1>7, <1>8, Typed, Composed

-----------------------------------------------------------------------------
(***************************************************************************)
(* Recycling.                                                              *)
(***************************************************************************)
\* A step of the UI thread's recycling, after which its variables are these: it creates nothing and
\* walks no level.
Recycled(to, i, e, x) ==
    /\ StepOf("ui", to, i, e, path["ui"], x)
    /\ to \notin Walk \cup {"idle", "null", "nullParent"}
    /\ present' \subseteq present /\ 0 \in present'
    /\ maxNodeId' \in 0 .. NODES + 1

LEMMA RecycledComposed ==
    ASSUME IInv, Alone("ui"), surfaceView' = surfaceView,
           NEW to, NEW i, NEW e, NEW x, Recycled(to, i, e, x),
           Ahead', Overshoot', ~surfaceView => Bound("ui")'
    PROVE  IInv'
<1> DEFINE t == "ui"
<1>1. t \in Threads
  BY DEF Threads
<1>2. /\ StepOf(t, to, i, e, path[t], x) /\ present' \subseteq Nodes
      /\ maxNodeId' \in 0 .. NODES + 1 /\ 0 \in present'
  BY <1>1, Typed DEF Recycled, Nodes
<1>3. TypeOK' /\ OnlyOf(t) /\ path'[t] \in Seq(Nodes \ {0}) /\ pc'[t] = to
  BY <1>1, <1>2, TypesKept
<1>4. to \notin Walk \cup {"idle", "null", "nullParent"}
  BY DEF Recycled
<1>5. Chain(t)' /\ There(t)'
  BY <1>3, <1>4 DEF Chain, There, Walk, Raise
<1> QED
  BY <1>1, <1>2, <1>3, <1>4, <1>5, Composed

\* The variables after such a step.
LEMMA RecycledIs ==
    ASSUME IInv, surfaceView' = surfaceView,
           NEW to, NEW i, NEW e, NEW x, Recycled(to, i, e, x)
    PROVE  /\ pc'["ui"] = to /\ index'["ui"] = i /\ end'["ui"] = e /\ seen'["ui"] = x
           /\ seen'["draw"] = seen["draw"] /\ NODES \in Nat \ {0} /\ maxNodeId \in 0 .. NODES + 1
<1>1. "ui" \in Threads /\ "draw" \in Threads \ {"ui"}
  BY DEF Threads
<1>2. /\ present' \subseteq Nodes /\ StepOf("ui", to, i, e, path["ui"], x)
      /\ maxNodeId' \in 0 .. NODES + 1
  BY <1>1, Typed DEF Recycled, Nodes
<1>3. OnlyOf("ui") /\ pc'["ui"] = to /\ index'["ui"] = i /\ end'["ui"] = e /\ seen'["ui"] = x
  BY <1>1, <1>2, TypesKept
<1> QED
  BY <1>1, <1>3, Typed DEF OnlyOf

\* The operation ends with a maxNodeId that is exact where nobody interferes.
LEMMA RecycledReturn ==
    ASSUME IInv, NEW from, Return("ui", from), surfaceView' = surfaceView, present' = present,
           from # "idle", maxNodeId' \in 0 .. NODES + 1, seen["draw"] = NODES + 1 => maxNodeId' = NODES + 1,
           ~surfaceView => maxNodeId' <= NODES /\ Below' /\ Highest'
    PROVE  IInv'
<1> DEFINE t == "ui"
<1>1. t \in Threads
  BY DEF Threads
<1>2. /\ pc[t] = from /\ StepOf(t, "idle", 0, 0, <<>>, 0)
      /\ pc'[t] = "idle" /\ seen'[t] = 0 /\ Chain(t)' /\ There(t)' /\ Bound(t)'
  BY <1>1, Returned
<1>3. Alone(t)
  BY <1>1, <1>2, Busy
<1>4. TypeOK' /\ OnlyOf(t) /\ path'[t] \in Seq(Nodes \ {0})
  BY <1>1, <1>2, Typed, TypesKept DEF Nodes
<1>5. Ahead'
  BY <1>1, <1>2, <1>4, AheadKept DEF Recycle
<1>6. Overshoot'
  <2>1. seen'["draw"] = seen["draw"]
    BY <1>4 DEF OnlyOf, Threads
  <2> QED
    BY <1>2, <2>1 DEF Overshoot, Lowering, Trims
<1> QED
  BY <1>1, <1>2, <1>3, <1>4, <1>5, <1>6, Typed, Composed

\* A loop begins behind the root.
LEMMA RecycleFromStep ==
    ASSUME IInv, NEW first \in 1 .. NODES, NEW to \in Loops, RecycleFrom(first, to),
           to = "recycleAll" => first = 1, to = "recycleNodes" => first < NODES,
           surfaceView' = surfaceView
    PROVE  IInv'
<1> DEFINE t == "ui"
<1>1. t \in Threads
  BY DEF Threads
<1>2. /\ pc[t] = "idle" /\ pc' = [pc EXCEPT ![t] = to]
      /\ Alone(t) /\ (~surfaceView => Below /\ Highest)
      /\ index' = [index EXCEPT ![t] = first] /\ end' = [end EXCEPT ![t] = first]
      /\ UNCHANGED <<present, maxNodeId, path, seen>>
  BY <1>1, Begun DEF RecycleFrom
<1>3. Recycled(to, first, first, seen[t])
  <2>1. /\ to \in Places /\ to \notin Walk \cup {"idle", "null", "nullParent"}
        /\ first \in 0 .. NODES
    BY <1>1, Typed DEF Loops, Places, Walk
  <2> QED
    BY <1>1, <1>2, <2>1, Typed, Kept DEF Recycled, StepOf
<1>4. /\ pc'[t] = to /\ index'[t] = first /\ end'[t] = first
      /\ seen'["draw"] = seen["draw"] /\ seen'[t] = seen[t]
  BY <1>3, RecycledIs
<1>5. Ahead' /\ Overshoot'
  BY <1>1, <1>2, <1>4, Typed DEF IInv, Ahead, Overshoot, Loops, Recycle, Lowering, Trims
<1>6. ~surfaceView => Bound(t)'
  <2>1. ~surfaceView => Below' /\ \A n \in present' : n < end'[t] \/ n >= index'[t]
    BY <1>1, <1>2, <1>4, Typed DEF Below
  <2> QED
    BY <1>4, <2>1 DEF Bound, Loops, Recycle, Walk, Raise, Trims
<1> QED
  BY <1>2, <1>3, <1>5, <1>6, RecycledComposed

\* Where the bodies and the ends of the two loops are.
LEMMA LoopIs ==
    ASSUME NEW loop \in Loops
    PROVE  \/ loop = "recycleAll" /\ Body[loop] = "clearAll" /\ Last[loop] = "endAll"
           \/ loop = "recycleNodes" /\ Body[loop] = "clearNodes" /\ Last[loop] = "endNodes"
BY DEF Loops, Body, Last

\* maxNodeId is read: there is another turn, or what is behind is gone.
LEMMA RecycleMoreStep ==
    ASSUME IInv, NEW loop \in Loops, RecycleMore(loop), surfaceView' = surfaceView
    PROVE  IInv'
<1> DEFINE t == "ui"
           to == IF index[t] < maxNodeId THEN Body[loop] ELSE Last[loop]
<1>1. t \in Threads
  BY DEF Threads
<1>2. /\ pc[t] = loop /\ pc' = [pc EXCEPT ![t] = to]
      /\ UNCHANGED <<present, maxNodeId, index, end, path, seen>>
  BY DEF RecycleMore, Goto
<1>3. \/ loop = "recycleAll" /\ (to = "clearAll" \/ to = "endAll")
      \/ loop = "recycleNodes" /\ (to = "clearNodes" \/ to = "endNodes")
  BY LoopIs
<1>4. /\ to \in {"clearAll", "clearNodes"} => index[t] < maxNodeId
      /\ to \in {"endAll", "endNodes"} => index[t] >= maxNodeId
  BY <1>1, LoopIs, Typed
<1> HIDE DEF to
<1>5. Alone(t)
  BY <1>1, <1>2, <1>3, Busy
<1>6. Recycled(to, index[t], end[t], seen[t])
  <2>1. to \in Places /\ to \notin Walk \cup {"idle", "null", "nullParent"}
    BY <1>3 DEF Places, Walk
  <2> QED
    BY <1>1, <1>2, <2>1, Typed, Kept DEF Recycled, StepOf
<1>7. /\ pc'[t] = to /\ index'[t] = index[t] /\ end'[t] = end[t] /\ seen'[t] = seen[t]
      /\ seen'["draw"] = seen["draw"]
  BY <1>6, RecycledIs
<1>8. Ahead'
  BY <1>2, <1>3, <1>7 DEF IInv, Ahead, Recycle
<1>9. Overshoot'
  <2>1. to \in {"endAll", "endNodes"} => maxNodeId <= NODES
    BY <1>1, <1>4, Typed
  <2>2. pc'[t] \in Lowering => maxNodeId <= NODES
    BY <1>3, <1>7, <2>1 DEF Lowering, Trims
  <2> QED
    BY <1>2, <1>3, <1>7, <2>2 DEF IInv, Overshoot
<1>10. ~surfaceView => Bound(t)'
  BY <1>1, <1>2, <1>3, <1>4, <1>7 DEF IInv, Bound, Below, Recycle, Walk, Raise, Trims
<1> QED
  BY <1>5, <1>6, <1>8, <1>9, <1>10, RecycledComposed

\* A node is given up; one behind the array is not there when maxNodeId is within its length.
LEMMA RecycleNodeStep ==
    ASSUME IInv, NEW loop \in Loops, RecycleNode(loop), surfaceView' = surfaceView
    PROVE  IInv'
<1> DEFINE t == "ui"
           body == Body[loop]
           to == IF index[t] = NODES THEN "outOfBounds" ELSE loop
           i == IF index[t] = NODES THEN index[t] ELSE index[t] + 1
<1>1. t \in Threads
  BY DEF Threads
<1>2. /\ pc[t] = body /\ pc' = [pc EXCEPT ![t] = to]
      /\ present' = IF index[t] = NODES THEN present ELSE present \ {index[t]}
      /\ index' = [index EXCEPT ![t] = i]
      /\ UNCHANGED <<maxNodeId, end, path, seen>>
  BY <1>1, Kept DEF RecycleNode, Goto
<1>3. \/ loop = "recycleAll" /\ body = "clearAll"
      \/ loop = "recycleNodes" /\ body = "clearNodes"
  BY LoopIs
<1> HIDE DEF body
<1>4. Alone(t)
  BY <1>1, <1>2, <1>3, Busy
<1>5. /\ 1 <= end[t] /\ end[t] <= index[t]
      /\ loop = "recycleAll" => end[t] = 1
      /\ loop = "recycleNodes" => end[t] < NODES
  BY <1>2, <1>3 DEF IInv, Ahead, Recycle
<1>6. Recycled(to, i, end[t], seen[t])
  <2>1. to \in Places /\ to \notin Walk \cup {"idle", "null", "nullParent"}
    BY <1>3 DEF Places, Walk
  <2>2. i \in 0 .. NODES
    BY <1>1, Typed
  <2>3. present' \subseteq present /\ 0 \in present'
    BY <1>1, <1>2, <1>5, Typed
  <2> HIDE DEF to, i
  <2> QED
    BY <1>1, <1>2, <2>1, <2>2, <2>3, Typed, Kept DEF Recycled, StepOf
<1>7. /\ pc'[t] = to /\ index'[t] = i /\ end'[t] = end[t] /\ seen'[t] = seen[t]
      /\ seen'["draw"] = seen["draw"]
  <2> HIDE DEF to, i
  <2> QED
    BY <1>6, RecycledIs
<1>8. Ahead'
  BY <1>1, <1>3, <1>5, <1>7, Typed DEF Ahead, Recycle
<1>9. Overshoot'
  BY <1>2, <1>3, <1>7 DEF IInv, Overshoot, Lowering, Trims
<1>10. ~surfaceView => Bound(t)'
  <2> SUFFICES ASSUME ~surfaceView PROVE Bound(t)'
    OBVIOUS
  <2>1. Below /\ index[t] < maxNodeId /\ \A n \in present : n < end[t] \/ n >= index[t]
    BY <1>1, <1>2, <1>3 DEF IInv, Bound, Recycle
  <2>2. maxNodeId <= NODES
    BY DEF IInv, Overshoot
  <2>3. to = loop /\ i = index[t] + 1 /\ present' = present \ {index[t]}
    BY <1>1, <1>2, <2>1, <2>2, Typed
  <2>4. Below' /\ \A n \in present' : n < end'[t] \/ n >= index'[t]
    BY <1>1, <1>2, <1>7, <2>1, <2>3, Typed DEF Below
  <2> QED
    BY <1>3, <1>7, <2>3, <2>4 DEF Bound, Recycle, Walk, Raise, Trims
<1> HIDE DEF to, i
<1> QED
  BY <1>4, <1>6, <1>8, <1>9, <1>10, RecycledComposed

\* recycleAll leaves the root alone.
LEMMA EndRecycleAllStep ==
    ASSUME IInv, EndRecycleAll, surfaceView' = surfaceView
    PROVE  IInv'
<1>1. Return("ui", "endAll") /\ pc["ui"] = "endAll" /\ maxNodeId' = 1 /\ present' = present
  BY DEF EndRecycleAll, Return, Goto
<1>2. "ui" \in Threads /\ "draw" \in Threads
  BY DEF Threads
<1>3. maxNodeId' \in 0 .. NODES + 1 /\ maxNodeId' <= NODES
  BY <1>1, <1>2, Typed
<1>4. seen["draw"] # NODES + 1
  BY <1>1, <1>2, Typed DEF IInv, Overshoot, Lowering
<1>5. ~surfaceView => Below' /\ Highest'
  <2> SUFFICES ASSUME ~surfaceView PROVE Below' /\ Highest'
    OBVIOUS
  <2>1. /\ Below /\ index["ui"] >= maxNodeId
        /\ \A n \in present : n < end["ui"] \/ n >= index["ui"]
    BY <1>1, <1>2 DEF IInv, Bound, Recycle
  <2>2. end["ui"] = 1
    BY <1>1 DEF IInv, Ahead
  <2>3. \A n \in present : n < 1
    BY <1>2, <2>1, <2>2, Typed DEF Below
  <2> QED
    BY <1>1, <1>2, <2>3, Typed DEF Below, Highest
<1> QED
  BY <1>1, <1>3, <1>4, <1>5, RecycledReturn

\* recycleNodes lowers maxNodeId to the beginning of its level.
LEMMA EndRecycleNodesStep ==
    ASSUME IInv, EndRecycleNodes, surfaceView' = surfaceView
    PROVE  IInv'
<1> DEFINE t == "ui"
<1>1. t \in Threads /\ "draw" \in Threads
  BY DEF Threads
<1>2. /\ pc[t] = "endNodes" /\ pc' = [pc EXCEPT ![t] = "trim"] /\ maxNodeId' = end[t]
      /\ UNCHANGED <<present, index, end, path, seen>>
  BY DEF EndRecycleNodes, Goto
<1>3. Alone(t)
  BY <1>1, <1>2, Busy
<1>4. end[t] < NODES
  BY <1>2 DEF IInv, Ahead
<1>5. Recycled("trim", index[t], end[t], seen[t])
  BY <1>1, <1>2, Typed, Kept DEF Recycled, StepOf, Places, Walk
<1>6. pc'[t] = "trim" /\ seen'["draw"] = seen["draw"]
  BY <1>5, RecycledIs
<1>7. Ahead'
  BY <1>6 DEF Ahead, Recycle
<1>8. Overshoot'
  <2>1. seen["draw"] # NODES + 1
    BY <1>1, <1>2, Typed DEF IInv, Overshoot, Lowering
  <2> QED
    BY <1>1, <1>2, <1>4, <1>6, <2>1, Typed DEF Overshoot
<1>9. ~surfaceView => Bound(t)'
  <2> SUFFICES ASSUME ~surfaceView PROVE Bound(t)'
    OBVIOUS
  <2>1. /\ Below /\ index[t] >= maxNodeId
        /\ \A n \in present : n < end[t] \/ n >= index[t]
    BY <1>1, <1>2 DEF IInv, Bound, Recycle
  <2>2. \A n \in present' : n <= maxNodeId'
    BY <1>1, <1>2, <2>1, Typed DEF Below
  <2> QED
    BY <1>2, <1>4, <1>6, <2>2 DEF Bound, Walk, Raise, Recycle, Trims
<1> QED
  BY <1>3, <1>5, <1>7, <1>8, <1>9, RecycledComposed

\* The children to be given up are behind the root.
LEMMA RecycleChildrenStep ==
    ASSUME IInv, NEW n \in Nodes, RecycleChildren(n), surfaceView' = surfaceView
    PROVE  IInv'
<1> DEFINE t == "ui"
<1>1. t \in Threads
  BY DEF Threads
<1>2. /\ FirstChild(n) < maxNodeId /\ Alone(t) /\ (~surfaceView => Below /\ Highest)
      /\ pc' = [pc EXCEPT ![t] = "clearChildren"]
      /\ index' = [index EXCEPT ![t] = FirstChild(n)]
      /\ end' = [end EXCEPT ![t] = ArrayEnd(n)]
      /\ UNCHANGED <<present, maxNodeId, path, seen>>
  BY <1>1, Begun DEF RecycleChildren
<1>3. /\ FirstChild(n) \in 1 .. NODES /\ ArrayEnd(n) \in 0 .. NODES
      /\ FirstChild(n) <= ArrayEnd(n)
  BY <1>1, <1>2, ChildIs, FanoutAssumption, Typed DEF ArrayEnd
<1>4. Recycled("clearChildren", FirstChild(n), ArrayEnd(n), seen[t])
  BY <1>1, <1>2, <1>3, Typed, Kept DEF Recycled, StepOf, Places, Walk
<1>5. /\ pc'[t] = "clearChildren" /\ index'[t] = FirstChild(n) /\ end'[t] = ArrayEnd(n)
      /\ seen'["draw"] = seen["draw"]
  BY <1>4, RecycledIs
<1>6. Ahead' /\ Overshoot'
  BY <1>2, <1>3, <1>5 DEF IInv, Ahead, Overshoot, Recycle, Lowering, Trims
<1>7. ~surfaceView => Bound(t)'
  BY <1>2, <1>5 DEF Bound, Below, Highest, Walk, Raise, Recycle, Trims
<1> QED
  BY <1>2, <1>4, <1>6, <1>7, RecycledComposed

\* The highest node stays, if it is behind them.
LEMMA ClearChildrenStep ==
    ASSUME IInv, ClearChildren, surfaceView' = surfaceView
    PROVE  IInv'
<1> DEFINE t == "ui"
<1>1. t \in Threads
  BY DEF Threads
<1>2. /\ pc[t] = "clearChildren" /\ pc' = [pc EXCEPT ![t] = "lower"]
      /\ present' = present \ (index[t] .. end[t] - 1)
      /\ index' = [index EXCEPT ![t] = end[t]]
      /\ UNCHANGED <<maxNodeId, end, path, seen>>
  BY DEF ClearChildren, Goto
<1>3. Alone(t)
  BY <1>1, <1>2, Busy
<1>4. 1 <= index[t] /\ index[t] <= end[t]
  BY <1>2 DEF IInv, Ahead
<1>5. Recycled("lower", end[t], end[t], seen[t])
  <2>1. present' \subseteq present /\ 0 \in present'
    BY <1>1, <1>2, <1>4, Typed
  <2> QED
    BY <1>1, <1>2, <2>1, Typed, Kept DEF Recycled, StepOf, Places, Walk
<1>6. pc'[t] = "lower" /\ index'[t] = end[t] /\ seen'["draw"] = seen["draw"]
  BY <1>5, RecycledIs
<1>7. Ahead' /\ Overshoot'
  BY <1>2, <1>6 DEF IInv, Ahead, Overshoot, Recycle, Lowering, Trims
<1>8. ~surfaceView => Bound(t)'
  <2> SUFFICES ASSUME ~surfaceView PROVE Bound(t)'
    OBVIOUS
  <2>1. Below /\ Highest
    BY <1>1, <1>2 DEF IInv, Bound
  <2>2. Below'
    BY <1>2, <2>1 DEF Below
  <2>3. index'[t] < maxNodeId' => Highest'
    BY <1>1, <1>2, <1>6, <2>1, Typed DEF Highest
  <2> QED
    BY <1>6, <2>2, <2>3 DEF Bound, Walk, Raise, Recycle, Trims
<1> QED
  BY <1>3, <1>5, <1>7, <1>8, RecycledComposed

\* maxNodeId stays if there are nodes behind the children; else it is a bound from which the search
\* downwards can begin, or the end of the array is to be looked at first.
LEMMA LowerStep ==
    ASSUME IInv, Lower, surfaceView' = surfaceView
    PROVE  IInv'
<1> DEFINE t == "ui"
<1>1. t \in Threads /\ "draw" \in Threads
  BY DEF Threads
<1>2. present' = present /\ maxNodeId' = maxNodeId /\ pc[t] = "lower"
  BY DEF Lower, Return, Goto
<1>3. Alone(t)
  BY <1>1, <1>2, Busy
<1>4. ~surfaceView => Below /\ (index[t] < maxNodeId => Highest)
  BY <1>1, <1>2 DEF IInv, Bound
<1>5. CASE index[t] < maxNodeId
  <2>1. Return(t, "lower") /\ maxNodeId \in 0 .. NODES + 1
    BY <1>1, <1>5, Typed DEF Lower
  <2>2. seen["draw"] = NODES + 1 => maxNodeId' = NODES + 1
    BY <1>2 DEF IInv, Overshoot
  <2>3. ~surfaceView => maxNodeId' <= NODES /\ Below' /\ Highest'
    BY <1>2, <1>4, <1>5 DEF Below, Highest, IInv, Overshoot
  <2> QED
    BY <1>2, <2>1, <2>2, <2>3, RecycledReturn
<1>6. CASE ~(index[t] < maxNodeId)
  <2> DEFINE to == IF index[t] >= NODES THEN "clamp" ELSE "trim"
  <2>1. pc' = [pc EXCEPT ![t] = to] /\ UNCHANGED <<index, end, path, seen>>
    BY <1>6 DEF Lower, Goto
  <2>2. maxNodeId <= index[t] /\ index[t] <= NODES /\ (to = "trim" => maxNodeId < NODES)
    BY <1>1, <1>6, Typed
  <2>3. (to = "clamp" /\ index[t] >= NODES) \/ to = "trim"
    OBVIOUS
  <2> HIDE DEF to
  <2>4. Recycled(to, index[t], end[t], seen[t])
    BY <1>1, <1>2, <2>1, <2>3, Typed, Kept DEF Recycled, StepOf, Places, Walk
  <2>5. pc'[t] = to /\ seen'["draw"] = seen["draw"] /\ index'[t] = index[t]
    BY <2>4, RecycledIs
  <2>6. Ahead'
    BY <2>3, <2>5 DEF Ahead, Recycle
  <2>7. Overshoot'
    BY <1>1, <1>2, <2>2, <2>3, <2>5, Typed DEF IInv, Overshoot
  <2>8. ~surfaceView => Bound(t)'
    <3>1. ~surfaceView => \A n \in present : n <= maxNodeId
      BY <1>1, <1>4, Typed DEF Below
    <3> QED
      BY <1>2, <2>2, <2>3, <2>5, <3>1 DEF Bound, Walk, Raise, Recycle, Trims
  <2> QED
    BY <1>3, <2>4, <2>6, <2>7, <2>8, RecycledComposed
<1> QED
  BY <1>5, <1>6

LEMMA ClampStep ==
    ASSUME IInv, Clamp, surfaceView' = surfaceView
    PROVE  IInv'
<1> DEFINE t == "ui"
<1>1. t \in Threads /\ "draw" \in Threads
  BY DEF Threads
<1>2. /\ pc[t] = "clamp" /\ pc' = [pc EXCEPT ![t] = "trim"] /\ maxNodeId' = NODES - 1
      /\ UNCHANGED <<present, index, end, path, seen>>
  BY DEF Clamp, Goto
<1>3. Alone(t)
  BY <1>1, <1>2, Busy
<1>4. Recycled("trim", index[t], end[t], seen[t])
  BY <1>1, <1>2, Typed, Kept DEF Recycled, StepOf, Places, Walk
<1>5. pc'[t] = "trim" /\ seen'["draw"] = seen["draw"]
  BY <1>4, RecycledIs
<1>6. Ahead'
  BY <1>5 DEF Ahead, Recycle
<1>7. Overshoot'
  <2>1. seen["draw"] # NODES + 1
    BY <1>1, <1>2, Typed DEF IInv, Overshoot, Lowering
  <2> QED
    BY <1>1, <1>2, <1>5, <2>1, Typed DEF Overshoot
<1>8. ~surfaceView => Bound(t)'
  <2>1. maxNodeId' < NODES /\ \A n \in present' : n <= maxNodeId'
    BY <1>1, <1>2, Typed
  <2> QED
    BY <1>5, <2>1 DEF Bound, Walk, Raise, Recycle, Trims
<1> QED
  BY <1>3, <1>4, <1>6, <1>7, <1>8, RecycledComposed

-----------------------------------------------------------------------------
(***************************************************************************)
(* The search for the highest node, downwards.                             *)
(***************************************************************************)
\* A step of it that leaves maxNodeId: drawing raises maxNodeId at most to the length meanwhile.
LEMMA TrimmingStep ==
    ASSUME IInv, surfaceView' = surfaceView, UNCHANGED <<present, maxNodeId, index, end, path>>,
           pc["ui"] \in Trims, NEW to \in Trims \cup {"outOfBounds"}, NEW x \in {0, seen["ui"], maxNodeId},
           pc' = [pc EXCEPT !["ui"] = to], seen' = [seen EXCEPT !["ui"] = x],
           to \in {"trimRead", "trimLook", "lowerRead"} => maxNodeId > 0,
           to \in {"trimLook", "lowerWrite", "raiseWrite"} => x <= NODES,
           to = "lowerWrite" => x > 0,
           ~surfaceView =>
             /\ to \in {"trimLook", "lowerWrite", "raiseWrite"} => x = maxNodeId
             /\ to \in {"lowerRead", "lowerWrite"} => maxNodeId > 0 /\ maxNodeId \notin present
             /\ to \in {"raiseRead", "raiseWrite"} => maxNodeId \in present
             /\ to # "outOfBounds"
    PROVE  IInv'
<1> DEFINE t == "ui"
<1>1. t \in Threads /\ "draw" \in Threads
  BY DEF Threads
<1>2. Alone(t)
  BY <1>1, Busy DEF Trims
<1>3. Recycled(to, index[t], end[t], x)
  <2>1. to \in Places /\ to \notin Walk \cup {"idle", "null", "nullParent"}
    BY DEF Trims, Places, Walk
  <2> QED
    BY <1>1, <2>1, Typed, Kept DEF Recycled, StepOf
<1>4. pc'[t] = to /\ seen'[t] = x /\ seen'["draw"] = seen["draw"]
  BY <1>3, RecycledIs
<1>5. Ahead'
  BY <1>4 DEF Ahead, Recycle, Trims
<1>6. Overshoot'
  BY <1>4 DEF IInv, Overshoot, Lowering, Trims
<1>7. ~surfaceView => Bound(t)'
  <2>1. ~surfaceView => maxNodeId < NODES /\ \A n \in present : n <= maxNodeId
    BY <1>1 DEF IInv, Bound
  <2> QED
    BY <1>4, <2>1 DEF Bound, Walk, Raise, Recycle, Trims
<1> QED
  BY <1>2, <1>3, <1>5, <1>6, <1>7, RecycledComposed

\* maxNodeId at such a step.
LEMMA TrimIs ==
    ASSUME IInv, pc["ui"] \in Trims
    PROVE  /\ maxNodeId \in 0 .. NODES /\ NODES \in Nat /\ seen["ui"] \in 0 .. NODES + 1
           /\ 0 \in present
           /\ pc["ui"] \in {"trimRead", "trimLook", "lowerRead"} => maxNodeId > 0
           /\ pc["ui"] \in {"trimLook", "lowerWrite", "raiseWrite"} => seen["ui"] <= NODES
           /\ pc["ui"] = "lowerWrite" => seen["ui"] > 0
           /\ seen["draw"] # NODES + 1
<1>1. "ui" \in Threads /\ "draw" \in Threads
  BY DEF Threads
<1>2. maxNodeId \in 0 .. NODES /\ NODES \in Nat
  BY <1>1, Typed DEF IInv, Overshoot, Lowering
<1>3. seen["draw"] # NODES + 1
  BY <1>1, <1>2, Typed DEF IInv, Overshoot
<1> QED
  BY <1>1, <1>2, <1>3, Typed DEF IInv, Overshoot

LEMMA TrimStep ==
    ASSUME IInv, Trim, surfaceView' = surfaceView
    PROVE  IInv'
<1> DEFINE to == IF maxNodeId > 0 THEN "trimRead" ELSE "raiseRead"
<1>1. /\ pc["ui"] = "trim" /\ pc' = [pc EXCEPT !["ui"] = to]
      /\ UNCHANGED <<present, maxNodeId, index, end, path, seen>>
  BY DEF Trim, Goto
<1>2. maxNodeId \in Nat /\ 0 \in present
  BY <1>1, TrimIs DEF Trims
<1>3. (to = "trimRead" /\ maxNodeId > 0) \/ (to = "raiseRead" /\ maxNodeId \in present)
  <2>1. CASE maxNodeId > 0
    BY <2>1
  <2>2. CASE ~(maxNodeId > 0)
    <3>1. maxNodeId = 0
      BY <1>2, <2>2
    <3> QED
      BY <1>2, <2>2, <3>1
  <2> QED
    BY <2>1, <2>2
<1>4. seen' = [seen EXCEPT !["ui"] = seen["ui"]] /\ to \in Trims
  BY <1>1, Kept DEF Threads, Trims
<1> HIDE DEF to
<1> QED
  BY <1>1, <1>3, <1>4, TrimmingStep DEF Trims

LEMMA TrimLookStep ==
    ASSUME IInv, TrimLook, surfaceView' = surfaceView
    PROVE  IInv'
<1> DEFINE x == seen["ui"]
           to == IF x >= NODES THEN "outOfBounds" ELSE IF x \in present THEN "raiseRead" ELSE "lowerRead"
<1>1. /\ pc["ui"] = "trimLook" /\ pc' = [pc EXCEPT !["ui"] = to]
      /\ seen' = [seen EXCEPT !["ui"] = 0]
      /\ UNCHANGED <<present, maxNodeId, index, end, path>>
  BY DEF TrimLook, Goto
<1>2. maxNodeId > 0
  BY <1>1, TrimIs DEF Trims
<1>3. ~surfaceView => x = maxNodeId /\ maxNodeId < NODES
  BY <1>1 DEF IInv, Bound, Trims, Threads
<1>4. ~surfaceView => \/ to = "raiseRead" /\ maxNodeId \in present
                      \/ to = "lowerRead" /\ maxNodeId \notin present
  BY <1>1, <1>3, TrimIs DEF Trims
<1>5. to \in {"outOfBounds", "raiseRead", "lowerRead"}
  OBVIOUS
<1> HIDE DEF to
<1> QED
  BY <1>1, <1>2, <1>4, <1>5, TrimmingStep DEF Trims

\* An expression of the search reads maxNodeId.
LEMMA TrimReadStep ==
    ASSUME IInv, surfaceView' = surfaceView,
           NEW from, NEW to, ReadMax("ui", from, to),
           \/ from = "trimRead" /\ to = "trimLook"
           \/ from = "lowerRead" /\ to = "lowerWrite"
           \/ from = "raiseRead" /\ to = "raiseWrite"
    PROVE  IInv'
<1>1. /\ pc["ui"] = from /\ pc' = [pc EXCEPT !["ui"] = to]
      /\ seen' = [seen EXCEPT !["ui"] = maxNodeId]
      /\ UNCHANGED <<present, maxNodeId, index, end, path>>
  BY DEF ReadMax, Goto
<1>2. from \in Trims /\ to \in Trims
  BY DEF Trims
<1>3. /\ maxNodeId <= NODES
      /\ to \in {"trimLook", "lowerWrite"} => maxNodeId > 0
  BY <1>1, <1>2, TrimIs
<1>4. ~surfaceView => /\ to = "lowerWrite" => maxNodeId \notin present
                      /\ to = "raiseWrite" => maxNodeId \in present
  BY <1>1 DEF IInv, Bound, Threads
<1> QED
  BY <1>1, <1>2, <1>3, <1>4, TrimmingStep

LEMMA TrimLowerStep ==
    ASSUME IInv, TrimLower, surfaceView' = surfaceView
    PROVE  IInv'
<1> DEFINE t == "ui"
<1>1. t \in Threads /\ "draw" \in Threads
  BY DEF Threads
<1>2. /\ pc[t] = "lowerWrite" /\ pc' = [pc EXCEPT ![t] = "trim"] /\ maxNodeId' = seen[t] - 1
      /\ seen' = [seen EXCEPT ![t] = 0] /\ UNCHANGED <<present, index, end, path>>
  BY DEF TrimLower, Goto
<1>3. Alone(t)
  BY <1>1, <1>2, Busy
<1>4. seen[t] \in 1 .. NODES /\ seen["draw"] # NODES + 1 /\ NODES \in Nat
  BY <1>2, TrimIs DEF Trims
<1>5. Recycled("trim", index[t], end[t], 0)
  BY <1>1, <1>2, <1>4, Typed, Kept DEF Recycled, StepOf, Places, Walk
<1>6. pc'[t] = "trim" /\ seen'["draw"] = seen["draw"]
  BY <1>5, RecycledIs
<1>7. Ahead'
  BY <1>6 DEF Ahead, Recycle
<1>8. Overshoot'
  BY <1>2, <1>4, <1>6 DEF Overshoot
<1>9. ~surfaceView => Bound(t)'
  <2>1. ~surfaceView => /\ maxNodeId < NODES /\ seen[t] = maxNodeId /\ maxNodeId \notin present
                        /\ \A n \in present : n <= maxNodeId
    BY <1>1, <1>2 DEF IInv, Bound, Trims
  <2>2. ~surfaceView => maxNodeId' < NODES /\ \A n \in present' : n <= maxNodeId'
    BY <1>1, <1>2, <2>1, Typed
  <2> QED
    BY <1>6, <2>2 DEF Bound, Walk, Raise, Recycle, Trims
<1> QED
  BY <1>3, <1>5, <1>7, <1>8, <1>9, RecycledComposed

\* The search downwards ends at the highest node, at the latest at the root; where drawing has raised
\* maxNodeId to the length since, the increment makes it one more.
LEMMA EndTrimStep ==
    ASSUME IInv, EndTrim, surfaceView' = surfaceView
    PROVE  IInv'
<1>1. /\ Return("ui", "raiseWrite") /\ pc["ui"] = "raiseWrite" /\ maxNodeId' = seen["ui"] + 1
      /\ present' = present
  BY DEF EndTrim, Return, Goto
<1>2. /\ seen["ui"] \in 0 .. NODES /\ seen["draw"] # NODES + 1 /\ NODES \in Nat
      /\ maxNodeId \in 0 .. NODES
  BY <1>1, TrimIs DEF Trims
<1>3. ~surfaceView => maxNodeId' <= NODES /\ Below' /\ Highest'
  <2> SUFFICES ASSUME ~surfaceView PROVE maxNodeId' <= NODES /\ Below' /\ Highest'
    OBVIOUS
  <2>1. /\ seen["ui"] = maxNodeId /\ maxNodeId \in present /\ maxNodeId < NODES
        /\ \A n \in present : n <= maxNodeId
    BY <1>1 DEF IInv, Bound, Threads, Trims
  <2>2. maxNodeId' - 1 = maxNodeId
    BY <1>1, <1>2, <2>1
  <2>3. Below' /\ maxNodeId' <= NODES
    BY <1>1, <1>2, <2>1, Typed DEF Below, Threads
  <2> QED
    BY <1>1, <2>1, <2>2, <2>3 DEF Highest
<1> QED
  BY <1>1, <1>2, <1>3, RecycledReturn


-----------------------------------------------------------------------------
(***************************************************************************)
(* The theorems.                                                           *)
(***************************************************************************)
LEMMA InitIs == Init => IInv
<1> SUFFICES ASSUME Init PROVE IInv
  OBVIOUS
<1>1. NODES \in Nat \ {0} /\ Fanout \in Nat
  BY LevelsFit, FanoutAssumption
<1>2. /\ \A t \in Threads : pc[t] = "idle" /\ path[t] = <<>>
      /\ present = {0} /\ maxNodeId = 1
  BY DEF Init
<1>3. TypeOK
  BY <1>1 DEF Init, TypeOK, Nodes, Places
<1>4. Setting /\ Ahead /\ Overshoot
  <2>1. <<>> \in Seq(Nodes \ {0})
    OBVIOUS
  <2> QED
    BY <1>1, <1>2, <1>3, <2>1 DEF Init, Setting, Ahead, Overshoot, Recycle, Lowering, Trims, Threads
<1>5. \A t \in Threads : Chain(t) /\ There(t) /\ Bound(t)
  BY <1>2 DEF Chain, There, Bound, Walk, Raise, Recycle, Trims
<1>6. Below /\ Highest
  BY <1>2 DEF Below, Highest
<1> QED
  BY <1>4, <1>5, <1>6 DEF IInv

LEMMA Inductive == IInv /\ [Next]_vars => IInv'
<1> SUFFICES ASSUME IInv, [Next]_vars PROVE IInv'
  OBVIOUS
<1>1. CASE UNCHANGED vars
  <2>1. Setting' /\ Ahead' /\ Overshoot'
    <3>1. Setting'
      BY <1>1 DEF vars, IInv, Setting, TypeOK
    <3>2. Ahead'
      BY <1>1 DEF vars, IInv, Ahead
    <3>3. Overshoot'
      BY <1>1 DEF vars, IInv, Overshoot
    <3> QED
      BY <3>1, <3>2, <3>3
  <2>2. /\ \A t \in Threads : Chain(t)' /\ (t = "ui" \/ ~surfaceView' => There(t)')
        /\ ~surfaceView' => \A t \in Threads : Bound(t)'
        /\ AtRest' => Below' /\ Highest'
    BY <1>1 DEF vars, IInv, Chain, There, Bound, AtRest, Below, Highest
  <2> QED
    BY <2>1, <2>2 DEF IInv
<1>2. CASE Next
  <2>1. surfaceView' = surfaceView
    BY <1>2 DEF Next
  <2>2. ASSUME NEW t \in Threads, Step(t)
        PROVE  IInv'
    BY <2>1, <2>2, ScanStep, EndScanStep, VisitStep, ClimbStep, FindParentStep, CreateStep, ReadMaxStep,
       WriteMaxStep DEF Step
  <2>3. ASSUME NEW t \in Threads, NEW l \in 0 .. Levels - 1, Process(t, l)
        PROVE  IInv'
    BY <2>1, <2>3, ProcessStep
  <2>4. CASE Recycling
    <3>1. CASE RecycleAll
      <4>1. 1 \in 1 .. NODES /\ "recycleAll" \in Loops /\ "recycleAll" # "recycleNodes"
        BY LevelsFit DEF Loops
      <4> QED
        BY <2>1, <3>1, <4>1, RecycleFromStep DEF RecycleAll
    <3>2. ASSUME NEW l \in 0 .. Levels - 1, RecycleNodes(l)
          PROVE  IInv'
      <4>1. Start[l] \in 1 .. NODES /\ Start[l] < NODES
        BY <3>2, LevelsFit DEF RecycleNodes
      <4>2. "recycleNodes" \in Loops /\ "recycleNodes" # "recycleAll"
        BY DEF Loops
      <4> QED
        BY <2>1, <3>2, <4>1, <4>2, RecycleFromStep DEF RecycleNodes
    <3>3. ASSUME NEW loop \in Loops, RecycleMore(loop) \/ RecycleNode(loop)
          PROVE  IInv'
      BY <2>1, <3>3, RecycleMoreStep, RecycleNodeStep
    <3>4. ASSUME NEW n \in Nodes, RecycleChildren(n)
          PROVE  IInv'
      BY <2>1, <3>4, RecycleChildrenStep
    <3>5. CASE EndRecycleAll \/ EndRecycleNodes \/ ClearChildren \/ Lower \/ Clamp
      BY <2>1, <3>5, EndRecycleAllStep, EndRecycleNodesStep, ClearChildrenStep, LowerStep, ClampStep
    <3> QED
      BY <2>4, <3>1, <3>2, <3>3, <3>4, <3>5 DEF Recycling
  <2>5. CASE Trimming
    BY <2>1, <2>5, TrimStep, TrimLookStep, TrimReadStep, TrimLowerStep, EndTrimStep DEF Trimming
  <2>6. CASE DropFrame
    BY <2>1, <2>6, DropFrameStep
  <2> QED
    BY <1>2, <2>2, <2>3, <2>4, <2>5, <2>6 DEF Next
<1> QED
  BY <1>1, <1>2

LEMMA Invariant == Spec => []IInv
  BY InitIs, Inductive, PTL DEF Spec

\* With a BaseView, maxNodeId is one more than the highest node whenever no operation goes on, for
\* every number of children and levels: no scan misses a node, and none goes further than it has to.
THEOREM BoundIsExact == Spec => []MaxIsExact
<1>1. IInv => MaxIsExact
  BY DEF IInv, MaxIsExact, Below, Highest
<1> QED
  BY <1>1, Invariant, PTL

\* With a BaseView every access to the array is within it and meets a node.  With a SurfaceView
\* maxNodeId may become one more than the length of the array, never more, and only recycling on the
\* UI thread reads past the array then; a node that is gone is met by drawing alone.
THEOREM AccessesAreGood == Spec => []NoBadAccess
<1>1. IInv => NoBadAccess
  BY DEF IInv, Setting, Overshoot, NoBadAccess, There, Bound, Walk, Threads
<1> QED
  BY <1>1, Invariant, PTL
=============================================================================
