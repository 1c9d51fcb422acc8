------------------------- MODULE NumaReplicationProofs -------------------------
(***************************************************************************)
(* Proofs about NumaReplication and NumaConfig: that what numa.h makes of  *)
(* any machine, or of any list of processors, is a sound configuration,    *)
(* that threads are spread over its nodes in proportion, and that the      *)
(* copies of the network stay identical and alive while they are made by   *)
(* those who need them.                                                    *)
(*                                                                         *)
(* They hold for every machine, bundle size, network and list of processors*)
(* and for any number of threads, if no export of the network comes while  *)
(* threads search: ~ExportInSearch, which only the GUI can see to, as the  *)
(* handler does not wait (README, section 4).                              *)
(*                                                                         *)
(* What a recursive definition yields is found by induction over a set of  *)
(* numbers (Induction), and that a recursion has a solution by Recursion.  *)
(* The inductive invariant is Inv: the steps that are left of the command  *)
(* carry labels, of which the first says what the copies and the pool are  *)
(* now and the last that both are complete.                                *)
(***************************************************************************)
EXTENDS NumaReplication, FiniteSetTheorems, WellFoundedInduction, TLAPS

-----------------------------------------------------------------------------
(* Numbers, finite sets and recursive functions.                             *)

\* Every set of natural numbers that has an element has a smallest one.
LEMMA SmallestOf ==
  ASSUME NEW T \in SUBSET Nat, T # {}
  PROVE  \E x \in T : \A y \in T : x <= y
<1> DEFINE R == {ss \in Nat \X Nat : ss[1] < ss[2]}
<1>1. IsWellFoundedOn(R, Nat)
  BY NatLessThanWellFounded DEF OpToRel
<1>2. PICK x \in T : \A y \in T : ~ (<<y, x>> \in R)
  <2> HIDE DEF R
  <2> QED
    BY <1>1, WFMin
<1>3. ASSUME NEW y \in T
      PROVE  x <= y
  <2>1. x \in Nat /\ y \in Nat
    OBVIOUS
  <2>2. ~ (y < x)
    BY <1>2, <2>1
  <2> QED
    BY <2>1, <2>2
<1> QED
  BY <1>3

\* Induction, over a set instead of a predicate.
LEMMA Induction ==
  ASSUME NEW S, 0 \in S, \A n \in Nat : n \in S => n + 1 \in S
  PROVE  \A n \in Nat : n \in S
<1> SUFFICES ASSUME NEW n \in Nat, n \notin S
             PROVE  FALSE
  OBVIOUS
<1> DEFINE T == {k \in Nat : k \notin S}
<1>1. PICK x \in T : \A y \in T : x <= y
  <2>1. T \in SUBSET Nat /\ T # {}
    OBVIOUS
  <2> HIDE DEF T
  <2> QED
    BY <2>1, SmallestOf
<1>2. x # 0 /\ x - 1 \in Nat /\ x - 1 \notin T
  BY <1>1
<1> QED
  BY <1>2

\* A recursion over 1 .. n has a solution; `step' gives the next value.
IsSolvable(n, D, base, step) ==
  \E f \in [0 .. n -> D] : f[0] = base /\ \A i \in 1 .. n : f[i] = step[<<f[i - 1], i>>]

\* Such a solution exists, as there is one for every part 0 .. k.
LEMMA Recursion ==
  ASSUME NEW n \in Nat, NEW D, NEW base \in D, NEW step \in [D \X (1 .. n) -> D]
  PROVE  IsSolvable(n, D, base, step)
<1> DEFINE IsUpTo(f, k) == f[0] = base /\ \A i \in 1 .. k : f[i] = step[<<f[i - 1], i>>]
           S == {k \in Nat : k <= n => \E f \in [0 .. k -> D] : IsUpTo(f, k)}
<1>1. 0 \in S
  <2>1. [i \in 0 .. 0 |-> base] \in [0 .. 0 -> D] /\ IsUpTo([i \in 0 .. 0 |-> base], 0)
    OBVIOUS
  <2> QED
    BY <2>1
<1>2. ASSUME NEW k \in Nat, k \in S
      PROVE  k + 1 \in S
  <2> SUFFICES ASSUME k + 1 <= n
               PROVE  \E f \in [0 .. k + 1 -> D] : IsUpTo(f, k + 1)
    OBVIOUS
  <2>1. PICK f \in [0 .. k -> D] : IsUpTo(f, k)
    BY <1>2
  <2> DEFINE g == [i \in 0 .. k + 1 |-> IF i = k + 1 THEN step[<<f[k], k + 1>>] ELSE f[i]]
  <2>2. step[<<f[k], k + 1>>] \in D
    OBVIOUS
  <2>3. g \in [0 .. k + 1 -> D]
    BY <2>2
  <2>4. g[0] = base
    BY <2>1
  <2>5. ASSUME NEW i \in 1 .. k + 1
        PROVE  g[i] = step[<<g[i - 1], i>>]
    <3>1. g[i - 1] = f[i - 1]
      OBVIOUS
    <3>2. CASE i = k + 1
      <4>1. i - 1 = k /\ g[i] = step[<<f[k], i>>]
        BY <3>2
      <4> QED
        BY <3>1, <4>1
    <3>3. CASE i # k + 1
      <4>1. i \in 1 .. k /\ g[i] = f[i]
        BY <3>3
      <4> QED
        BY <3>1, <4>1, <2>1
    <3> QED
      BY <3>2, <3>3
  <2> QED
    BY <2>3, <2>4, <2>5
<1>3. n \in S
  <2> HIDE DEF S
  <2> QED
    BY <1>1, <1>2, Induction
<1> QED
  BY <1>3 DEF IsSolvable

\* A finite set of numbers has a largest one.
LEMMA LargestOf ==
  ASSUME NEW T \in SUBSET Nat, IsFiniteSet(T), T # {}
  PROVE  Max(T) \in T /\ \A y \in T : y <= Max(T)
<1> DEFINE HasLargest(U) == \E x \in U : \A y \in U : x >= y
           S == {k \in Nat : \A U \in SUBSET Nat :
                   IsFiniteSet(U) /\ Cardinality(U) = k + 1 => HasLargest(U)}
<1>1. 0 \in S
  <2> SUFFICES ASSUME NEW U \in SUBSET Nat, IsFiniteSet(U), Cardinality(U) = 0 + 1
               PROVE  HasLargest(U)
    OBVIOUS
  <2>1. PICK x : U = {x}
    BY FS_Singleton
  <2> QED
    BY <2>1
<1>2. ASSUME NEW k \in Nat, k \in S
      PROVE  k + 1 \in S
  <2> SUFFICES ASSUME NEW U \in SUBSET Nat, IsFiniteSet(U), Cardinality(U) = k + 1 + 1
               PROVE  HasLargest(U)
    OBVIOUS
  <2>1. PICK x : x \in U
    BY FS_EmptySet
  <2>2. IsFiniteSet(U \ {x}) /\ Cardinality(U \ {x}) = k + 1
    BY <2>1, FS_RemoveElement
  <2>3. PICK m \in U \ {x} : \A y \in U \ {x} : m >= y
    BY <1>2, <2>2
  <2>4. CASE x <= m
    BY <2>3, <2>4
  <2>5. CASE m < x
    <3>1. ASSUME NEW y \in U
          PROVE  x >= y
      <4>1. x \in Nat /\ y \in Nat /\ m \in Nat
        BY <2>1
      <4>2. CASE y = x
        BY <4>1, <4>2
      <4>3. CASE y # x
        <5>1. m >= y
          BY <2>3, <4>3
        <5> QED
          BY <4>1, <5>1, <2>5
      <4> QED
        BY <4>2, <4>3
    <3> QED
      BY <2>1, <3>1
  <2> QED
    BY <2>4, <2>5, <2>1, <2>3
<1>3. Cardinality(T) \in Nat /\ Cardinality(T) # 0
  BY FS_CardinalityType, FS_EmptySet
<1>4. PICK k \in Nat : Cardinality(T) = k + 1
  <2>1. Cardinality(T) - 1 \in Nat /\ Cardinality(T) = Cardinality(T) - 1 + 1
    BY <1>3
  <2> QED
    BY <2>1
<1>5. k \in S
  <2> HIDE DEF S
  <2> QED
    BY <1>1, <1>2, Induction
<1>6. HasLargest(T)
  BY <1>4, <1>5
<1> QED
  BY <1>6 DEF Max

\* InOrder() counts a finite set of numbers through, without leaving one out.
LEMMA InOrderCounts ==
  ASSUME NEW T \in SUBSET Nat, IsFiniteSet(T)
  PROVE  /\ Cardinality(T) \in Nat
         /\ InOrder(T) \in [1 .. Cardinality(T) -> T]
         /\ \A i, j \in 1 .. Cardinality(T) : i < j => InOrder(T)[i] < InOrder(T)[j]
         /\ \A x \in T : \E i \in 1 .. Cardinality(T) : InOrder(T)[i] = x
<1> DEFINE Rises(s, U) == \A i, j \in 1 .. Cardinality(U) : i < j => s[i] < s[j]
           S == {k \in Nat : \A U \in SUBSET Nat :
                   IsFiniteSet(U) /\ Cardinality(U) = k => \E s \in [1 .. Cardinality(U) -> U] : Rises(s, U)}
<1>1. 0 \in S
  <2> SUFFICES ASSUME NEW U \in SUBSET Nat, IsFiniteSet(U), Cardinality(U) = 0
               PROVE  \E s \in [1 .. Cardinality(U) -> U] : Rises(s, U)
    OBVIOUS
  <2>1. [i \in 1 .. 0 |-> i] \in [1 .. Cardinality(U) -> U] /\ Rises([i \in 1 .. 0 |-> i], U)
    OBVIOUS
  <2> QED
    BY <2>1
<1>2. ASSUME NEW k \in Nat, k \in S
      PROVE  k + 1 \in S
  <2> SUFFICES ASSUME NEW U \in SUBSET Nat, IsFiniteSet(U), Cardinality(U) = k + 1
               PROVE  \E s \in [1 .. Cardinality(U) -> U] : Rises(s, U)
    OBVIOUS
  <2> DEFINE m == Max(U)
             V == U \ {m}
  <2>1. m \in U /\ \A y \in U : y <= m
    <3>1. U # {}
      BY FS_EmptySet
    <3> QED
      BY <3>1, LargestOf
  <2> HIDE DEF m
  <2>2. V \in SUBSET Nat /\ IsFiniteSet(V) /\ Cardinality(V) = k
    <3>1. IsFiniteSet(U \ {m}) /\ Cardinality(U \ {m}) = Cardinality(U) - 1
      <4>1. m \in U
        BY <2>1
      <4> HIDE DEF V
      <4> QED
        BY <4>1, FS_RemoveElement
    <3>2. V \in SUBSET Nat
      OBVIOUS
    <3>3. (k + 1) - 1 = k
      OBVIOUS
    <3> QED
      BY <3>1, <3>2, <3>3
  <2>3. PICK s \in [1 .. k -> V] : Rises(s, V)
    BY <1>2, <2>2
  <2> DEFINE t == [i \in 1 .. k + 1 |-> IF i = k + 1 THEN m ELSE s[i]]
  <2>4. t \in [1 .. Cardinality(U) -> U]
    BY <2>1
  <2>5. ASSUME NEW i \in 1 .. k + 1, NEW j \in 1 .. k + 1, i < j
        PROVE  t[i] < t[j]
    <3>1. i \in 1 .. k /\ t[i] = s[i] /\ s[i] \in V
      BY <2>5
    <3>2. CASE j = k + 1
      <4>1. t[j] = m
        BY <3>2
      <4>2. s[i] \in Nat /\ m \in Nat /\ s[i] <= m /\ s[i] # m
        BY <3>1, <2>1
      <4> QED
        BY <3>1, <4>1, <4>2
    <3>3. CASE j # k + 1
      <4>1. j \in 1 .. k /\ t[j] = s[j]
        BY <3>3
      <4> QED
        BY <3>1, <4>1, <2>2, <2>3, <2>5
    <3> QED
      BY <3>2, <3>3
  <2>6. Rises(t, U)
    BY <2>5
  <2> QED
    BY <2>4, <2>6
<1>3. Cardinality(T) \in Nat
  BY FS_CardinalityType
<1>4. Cardinality(T) \in S
  <2> HIDE DEF S
  <2> QED
    BY <1>1, <1>2, <1>3, Induction
<1>5. \E s \in [1 .. Cardinality(T) -> T] : \A i, j \in DOMAIN s : i < j => s[i] < s[j]
  BY <1>4
<1> DEFINE o == InOrder(T)
<1>6. o \in [1 .. Cardinality(T) -> T] /\ \A i, j \in 1 .. Cardinality(T) : i < j => o[i] < o[j]
  BY <1>5 DEF InOrder
<1> HIDE DEF o
<1>7. o \in Injection(1 .. Cardinality(T), T)
  <2>1. ASSUME NEW i \in 1 .. Cardinality(T), NEW j \in 1 .. Cardinality(T), o[i] = o[j]
        PROVE  i = j
    <3>1. o[i] \in Nat /\ o[j] \in Nat
      BY <1>6
    <3> QED
      BY <1>3, <1>6, <2>1, <3>1
  <2> QED
    BY <1>6, <2>1 DEF Injection, IsInjective
<1>8. Cardinality(1 .. Cardinality(T)) = Cardinality(T) /\ IsFiniteSet(1 .. Cardinality(T))
  BY <1>3, FS_Interval
<1>9. o \in Surjection(1 .. Cardinality(T), T)
  BY <1>7, <1>8, FS_Injection
<1>10. \A x \in T : \E i \in 1 .. Cardinality(T) : o[i] = x
  BY <1>9 DEF Surjection
<1> QED
  BY <1>3, <1>6, <1>10 DEF o

-----------------------------------------------------------------------------
(* Nodes: sequences of sets of processors.                                   *)

Disjoint(nodes) == \A m, n \in DOMAIN nodes : m # n => nodes[m] \cap nodes[n] = {}

\* What is left when the empty nodes are removed.
LEMMA NodesLeft ==
  ASSUME NEW C, NEW nodes \in Seq(SUBSET C)
  PROVE  /\ RemoveEmptyNodes(nodes) \in Seq((SUBSET C) \ {{}})
         /\ \A n \in DOMAIN RemoveEmptyNodes(nodes) :
              \E m \in DOMAIN nodes : RemoveEmptyNodes(nodes)[n] = nodes[m]
         /\ \A m \in DOMAIN nodes : nodes[m] # {} =>
              \E n \in DOMAIN RemoveEmptyNodes(nodes) : RemoveEmptyNodes(nodes)[n] = nodes[m]
         /\ Disjoint(nodes) => Disjoint(RemoveEmptyNodes(nodes))
<1> DEFINE T == {n \in DOMAIN nodes : nodes[n] # {}}
           kept == InOrder(T)
           left == [i \in DOMAIN kept |-> nodes[kept[i]]]
<1>1. DOMAIN nodes = 1 .. Len(nodes) /\ Len(nodes) \in Nat /\ \A n \in DOMAIN nodes : nodes[n] \in SUBSET C
  OBVIOUS
<1>2. T \in SUBSET Nat /\ IsFiniteSet(T)
  <2>1. T \in SUBSET (1 .. Len(nodes))
    BY <1>1
  <2>2. IsFiniteSet(1 .. Len(nodes))
    BY <1>1, FS_Interval
  <2>3. T \in SUBSET Nat
    BY <1>1
  <2> HIDE DEF T
  <2>4. IsFiniteSet(T)
    BY <2>1, <2>2, FS_Subset
  <2> QED
    BY <2>3, <2>4
<1>3. RemoveEmptyNodes(nodes) = left
  BY DEF RemoveEmptyNodes
<1>4. PICK k \in Nat : /\ kept \in [1 .. k -> T]
                       /\ \A i, j \in 1 .. k : i < j => kept[i] < kept[j]
                       /\ \A x \in T : \E i \in 1 .. k : kept[i] = x
  <2> HIDE DEF T
  <2> QED
    BY <1>2, InOrderCounts
<1> HIDE DEF kept
<1>5. /\ DOMAIN left = 1 .. k
      /\ \A i \in 1 .. k : left[i] = nodes[kept[i]] /\ kept[i] \in T
  BY <1>4
<1>6. left \in Seq((SUBSET C) \ {{}})
  <2>1. ASSUME NEW i \in 1 .. k
        PROVE  left[i] \in (SUBSET C) \ {{}}
    <3>1. kept[i] \in DOMAIN nodes /\ nodes[kept[i]] # {}
      BY <1>5
    <3>2. nodes[kept[i]] \in SUBSET C
      BY <3>1, <1>1
    <3>3. left[i] = nodes[kept[i]]
      BY <1>5
    <3> HIDE DEF left
    <3> QED
      BY <3>1, <3>2, <3>3
  <2> QED
    BY <2>1, <1>5
<1>7. ASSUME NEW n \in DOMAIN left
      PROVE  \E m \in DOMAIN nodes : left[n] = nodes[m]
  BY <1>5
<1>8. ASSUME NEW m \in DOMAIN nodes, nodes[m] # {}
      PROVE  \E n \in DOMAIN left : left[n] = nodes[m]
  <2>1. PICK i \in 1 .. k : kept[i] = m
    BY <1>8, <1>4
  <2> QED
    BY <2>1, <1>5
<1>9. ASSUME Disjoint(nodes)
      PROVE  Disjoint(left)
  <2> SUFFICES ASSUME NEW m \in 1 .. k, NEW n \in 1 .. k, m # n
               PROVE  nodes[kept[m]] \cap nodes[kept[n]] = {}
    BY <1>5 DEF Disjoint
  <2>1. m \in Nat /\ n \in Nat /\ kept[m] \in Nat /\ kept[n] \in Nat
    BY <1>4, <1>2
  <2>2. kept[m] # kept[n]
    BY <2>1, <1>4
  <2> QED
    BY <2>2, <1>4, <1>9 DEF Disjoint
<1> HIDE DEF left
<1> QED
  BY <1>3, <1>6, <1>7, <1>8, <1>9

\* The lists of a user.
LEMMA ListedNodes ==
  ASSUME NEW C, NEW lists \in Seq(Seq(C)), IsNodeList(lists)
  PROVE  /\ FromString(lists) \in Seq((SUBSET C) \ {{}})
         /\ FromString(lists) # <<>>
         /\ Disjoint(FromString(lists))
<1> DEFINE nodes == [n \in DOMAIN lists |-> Range(lists[n])]
<1>1. nodes \in Seq(SUBSET C)
  <2>1. \A n \in DOMAIN lists : Range(lists[n]) \in SUBSET C
    BY DEF Range
  <2> QED
    BY <2>1
<1>2. Disjoint(nodes)
  <2> SUFFICES ASSUME NEW m \in DOMAIN lists, NEW n \in DOMAIN lists, m # n,
                      NEW c \in Range(lists[m]), c \in Range(lists[n])
               PROVE  FALSE
    BY DEF Disjoint
  <2>1. PICK i \in DOMAIN lists[m], j \in DOMAIN lists[n] : lists[m][i] = c /\ lists[n][j] = c
    BY DEF Range
  <2> QED
    BY <2>1 DEF IsNodeList
<1>3. PICK m \in DOMAIN nodes : nodes[m] # {}
  <2>1. PICK m \in DOMAIN lists : lists[m] # <<>>
    BY DEF IsNodeList
  <2>2. lists[m] \in Seq(C) /\ 1 \in DOMAIN lists[m]
    BY <2>1
  <2>3. lists[m][1] \in Range(lists[m])
    BY <2>2 DEF Range
  <2> QED
    BY <2>3
<1> HIDE DEF nodes
<1>4. FromString(lists) = RemoveEmptyNodes(nodes)
  BY DEF FromString, nodes
<1> DEFINE left == RemoveEmptyNodes(nodes)
<1>5. left \in Seq((SUBSET C) \ {{}}) /\ Disjoint(left) /\ \E n \in DOMAIN left : left[n] = nodes[m]
  BY <1>1, <1>2, <1>3, NodesLeft
<1> HIDE DEF left
<1>6. left # <<>>
  BY <1>5
<1> QED
  BY <1>4, <1>5, <1>6 DEF left

\* The sequence ds bundles the domains S: they are united but not divided, and a
\* bundle that is larger than bundleSize is one of them.
Bundled(ds, S, bundleSize) ==
  /\ Disjoint(ds)
  /\ \A n \in DOMAIN ds :
       /\ ds[n] # {}
       /\ ds[n] \in S \/ Cardinality(ds[n]) <= bundleSize
       /\ \A c \in ds[n] : \E d \in S : c \in d
  /\ \A d \in S : \E n \in DOMAIN ds : d \subseteq ds[n]

\* What a scan has made of the first j domains.
ScannedTo(scan, ds, j, bundleSize) ==
  /\ Disjoint(scan.out)
  /\ \A n \in DOMAIN scan.out :
       /\ scan.out[n] # {}
       /\ scan.out[n] \in Range(ds) \/ Cardinality(scan.out[n]) <= bundleSize
       /\ \A c \in scan.out[n] : \E k \in 1 .. j : c \in ds[k]
  /\ \A k \in 1 .. j : \E n \in DOMAIN scan.out : ds[k] \subseteq scan.out[n]

\* One domain more.
LEMMA ScanOne ==
  ASSUME NEW C, NEW ds \in Seq(SUBSET C), NEW bundleSize, Disjoint(ds),
         NEW j \in 0 .. Len(ds) - 1, ds[j + 1] # {},
         NEW out \in Seq(SUBSET C), NEW open \in BOOLEAN,
         ScannedTo([out |-> out, open |-> open], ds, j, bundleSize),
         NEW new \in Seq(SUBSET C), NEW is \in BOOLEAN,
         \/ new = Append(out, ds[j + 1])
         \/ /\ out # <<>>
            /\ new = Append(Front(out), Last(out) \cup ds[j + 1])
            /\ Cardinality(Last(out) \cup ds[j + 1]) <= bundleSize
  PROVE  ScannedTo([out |-> new, open |-> is], ds, j + 1, bundleSize)
<1> DEFINE cpus == ds[j + 1]
           l == Len(out)
<1>1. /\ Disjoint(out)
      /\ \A n \in DOMAIN out :
           /\ out[n] # {}
           /\ out[n] \in Range(ds) \/ Cardinality(out[n]) <= bundleSize
           /\ \A c \in out[n] : \E k \in 1 .. j : c \in ds[k]
      /\ \A k \in 1 .. j : \E n \in DOMAIN out : ds[k] \subseteq out[n]
  BY DEF ScannedTo
<1>2. j + 1 \in DOMAIN ds /\ cpus \in Range(ds) /\ DOMAIN ds = 1 .. Len(ds) /\ Len(ds) \in Nat
  BY DEF Range
<1>3. \A n \in DOMAIN out : out[n] \cap cpus = {}
  <2> SUFFICES ASSUME NEW n \in DOMAIN out, NEW c \in out[n], c \in cpus
               PROVE  FALSE
    OBVIOUS
  <2>1. PICK k \in 1 .. j : c \in ds[k]
    BY <1>1
  <2>2. k \in DOMAIN ds /\ k # j + 1
    BY <1>2
  <2> QED
    BY <2>1, <2>2, <1>2 DEF Disjoint
<1>4. l \in Nat /\ DOMAIN out = 1 .. l
  OBVIOUS
<1>0. j \in Nat /\ cpus \in SUBSET C /\ cpus # {} /\ ds[j + 1] = cpus
  BY <1>2
<1> HIDE DEF cpus, l
<1>5. CASE new = Append(out, cpus)
  <2>1. /\ DOMAIN new = 1 .. l + 1
        /\ \A n \in 1 .. l : new[n] = out[n]
        /\ new[l + 1] = cpus
    <3>1. Len(out) = l
      BY DEF l
    <3> QED
      BY <1>5, <1>4, <1>0, <3>1
  <2>2. Disjoint(new)
    <3> SUFFICES ASSUME NEW m \in 1 .. l + 1, NEW n \in 1 .. l + 1, m # n
                 PROVE  new[m] \cap new[n] = {}
      BY <2>1 DEF Disjoint
    <3>1. CASE m = l + 1
      <4>1. n \in DOMAIN out /\ new[m] = cpus /\ new[n] = out[n]
        BY <3>1, <2>1, <1>4
      <4> QED
        BY <4>1, <1>3
    <3>2. CASE n = l + 1
      <4>1. m \in DOMAIN out /\ new[n] = cpus /\ new[m] = out[m]
        BY <3>2, <2>1, <1>4
      <4> QED
        BY <4>1, <1>3
    <3>3. CASE m # l + 1 /\ n # l + 1
      <4>1. m \in DOMAIN out /\ n \in DOMAIN out /\ new[n] = out[n] /\ new[m] = out[m]
        BY <3>3, <2>1, <1>4
      <4> QED
        BY <4>1, <1>1 DEF Disjoint
    <3> QED
      BY <3>1, <3>2, <3>3
  <2>3. ASSUME NEW n \in 1 .. l + 1
        PROVE  /\ new[n] # {}
               /\ new[n] \in Range(ds) \/ Cardinality(new[n]) <= bundleSize
               /\ \A c \in new[n] : \E k \in 1 .. j + 1 : c \in ds[k]
    <3>1. CASE n = l + 1
      <4>1. new[n] = ds[j + 1] /\ j + 1 \in 1 .. j + 1
        BY <3>1, <2>1, <1>0
      <4> QED
        BY <4>1, <1>0, <1>2
    <3>2. CASE n # l + 1
      <4>1. n \in DOMAIN out /\ new[n] = out[n] /\ 1 .. j \subseteq 1 .. j + 1
        BY <3>2, <2>1, <1>4, <1>0
      <4> QED
        BY <4>1, <1>1
    <3> QED
      BY <3>1, <3>2
  <2>4. ASSUME NEW k \in 1 .. j + 1
        PROVE  \E n \in 1 .. l + 1 : ds[k] \subseteq new[n]
    <3>1. CASE k = j + 1
      BY <3>1, <2>1, <1>4
    <3>2. CASE k # j + 1
      <4>0. k \in 1 .. j
        BY <3>2, <1>0
      <4>1. PICK n \in 1 .. l : ds[k] \subseteq out[n]
        BY <4>0, <1>1, <1>4
      <4>2. n \in 1 .. l + 1 /\ new[n] = out[n]
        BY <2>1, <1>4
      <4> QED
        BY <4>1, <4>2
    <3> QED
      BY <3>1, <3>2
  <2> QED
    BY <2>1, <2>2, <2>3, <2>4 DEF ScannedTo
<1>6. CASE /\ out # <<>>
           /\ new = Append(Front(out), Last(out) \cup cpus)
           /\ Cardinality(Last(out) \cup cpus) <= bundleSize
  <2>1. /\ l \in Nat \ {0}
        /\ DOMAIN new = 1 .. l
        /\ \A n \in 1 .. l - 1 : new[n] = out[n]
        /\ new[l] = out[l] \cup cpus
        /\ Cardinality(new[l]) <= bundleSize
    <3>1. l \in Nat \ {0} /\ Len(out) = l
      BY <1>6, <1>4 DEF l
    <3>2. Last(out) = out[l] /\ out[l] \cup cpus \in SUBSET C
      BY <3>1, <1>0, <1>4 DEF Last
    <3>3. PICK f \in Seq(SUBSET C) : /\ f = Front(out) /\ Len(f) = l - 1
                                    /\ \A n \in 1 .. l - 1 : f[n] = out[n]
      <4>1. Front(out) = SubSeq(out, 1, l - 1)
        BY <3>1 DEF Front
      <4>2. /\ Front(out) \in Seq(SUBSET C)
            /\ Len(Front(out)) = l - 1
            /\ \A n \in 1 .. l - 1 : Front(out)[n] = out[n]
        BY <4>1, <3>1, <1>4
      <4> QED
        BY <4>2
    <3>4. /\ DOMAIN new = 1 .. l
          /\ \A n \in 1 .. l - 1 : new[n] = f[n]
          /\ new[l] = out[l] \cup cpus
      BY <1>6, <3>1, <3>2, <3>3
    <3> QED
      BY <1>6, <3>1, <3>2, <3>3, <3>4
  <2>2. Disjoint(new)
    <3> SUFFICES ASSUME NEW m \in 1 .. l, NEW n \in 1 .. l, m # n
                 PROVE  new[m] \cap new[n] = {}
      BY <2>1 DEF Disjoint
    <3> l \in Nat /\ m \in Nat /\ n \in Nat
      BY <1>4
    <3>0. out[m] \cap out[n] = {} /\ out[m] \cap cpus = {} /\ out[n] \cap cpus = {}
      BY <1>1, <1>3, <1>4 DEF Disjoint
    <3>1. new[m] = out[m] \/ (new[m] = out[m] \cup cpus /\ m = l)
      <4>1. m = l \/ m \in 1 .. l - 1
        BY <2>1
      <4>2. m \in 1 .. l - 1 => new[m] = out[m]
        BY <2>1
      <4>3. m = l => new[m] = out[m] \cup cpus
        BY <2>1
      <4> QED
        BY <4>1, <4>2, <4>3
    <3>2. new[n] = out[n] \/ (new[n] = out[n] \cup cpus /\ n = l)
      <4>1. n = l \/ n \in 1 .. l - 1
        BY <2>1
      <4>2. n \in 1 .. l - 1 => new[n] = out[n]
        BY <2>1
      <4>3. n = l => new[n] = out[n] \cup cpus
        BY <2>1
      <4> QED
        BY <4>1, <4>2, <4>3
    <3> QED
      BY <3>0, <3>1, <3>2
  <2>3. ASSUME NEW n \in 1 .. l
        PROVE  /\ new[n] # {}
               /\ new[n] \in Range(ds) \/ Cardinality(new[n]) <= bundleSize
               /\ \A c \in new[n] : \E k \in 1 .. j + 1 : c \in ds[k]
    <3>1. 1 .. j \subseteq 1 .. j + 1 /\ j + 1 \in 1 .. j + 1 /\ n \in DOMAIN out
      BY <1>0, <1>4
    <3>2. CASE n = l
      <4>1. \A c \in out[n] : \E k \in 1 .. j + 1 : c \in ds[k]
        BY <3>1, <1>1
      <4>2. new[n] = out[n] \cup ds[j + 1] /\ out[n] # {}
        BY <3>1, <3>2, <2>1, <1>0, <1>1
      <4> QED
        BY <3>1, <3>2, <4>1, <4>2, <2>1
    <3>3. CASE n # l
      <4>1. n \in DOMAIN out /\ new[n] = out[n]
        <5>1. n \in 1 .. l - 1
          BY <3>3, <2>1
        <5> QED
          BY <5>1, <3>1, <2>1
      <4> QED
        BY <4>1, <1>1, <3>1
    <3> QED
      BY <3>2, <3>3
  <2>4. ASSUME NEW k \in 1 .. j + 1
        PROVE  \E n \in 1 .. l : ds[k] \subseteq new[n]
    <3>1. CASE k = j + 1
      <4>1. l \in 1 .. l /\ ds[k] \subseteq new[l]
        BY <3>1, <2>1, <1>0
      <4> QED
        BY <4>1
    <3>2. CASE k # j + 1
      <4>0. k \in 1 .. j
        BY <3>2, <1>0
      <4>1. PICK n \in 1 .. l : ds[k] \subseteq out[n]
        BY <4>0, <1>1, <1>4
      <4>2. out[n] \subseteq new[n]
        <5>1. n = l \/ n \in 1 .. l - 1
          BY <2>1
        <5> QED
          BY <5>1, <2>1
      <4> QED
        BY <4>1, <4>2
    <3> QED
      BY <3>1, <3>2
  <2> QED
    BY <2>1, <2>2, <2>3, <2>4 DEF ScannedTo
<1> QED
  BY <1>5, <1>6 DEF cpus

\* One scan unites domains, or bundles of domains, and divides none.
LEMMA ScanBundles ==
  ASSUME NEW C, IsFiniteSet(C), NEW ds \in Seq(SUBSET C), NEW bundleSize \in Nat, Disjoint(ds),
         \A n \in DOMAIN ds : ds[n] # {}
  PROVE  Scan(ds, bundleSize) \in Seq(SUBSET C) /\ Bundled(Scan(ds, bundleSize), Range(ds), bundleSize)
<1> DEFINE Take(scan, cpus) ==
             IF scan.open /\ Cardinality(Last(scan.out)) + Cardinality(cpus) <= bundleSize
             THEN [out |-> Append(Front(scan.out), Last(scan.out) \cup cpus), open |-> FALSE]
             ELSE [out |-> Append(scan.out, cpus), open |-> TRUE]
           base == [out |-> <<>>, open |-> FALSE]
           l == Len(ds)
           Solves(g) == g = [j \in 0 .. l |-> IF j = 0 THEN base ELSE Take(g[j - 1], ds[j])]
           D == {scan \in [out : Seq(SUBSET C), open : BOOLEAN] : scan.open => scan.out # <<>>}
           step == [p \in D \X (1 .. l) |-> Take(p[1], ds[p[2]])]
<1>1. Scan(ds, bundleSize) = (CHOOSE g : Solves(g))[l].out
  BY DEF Scan
<1>2. l \in Nat /\ DOMAIN ds = 1 .. l /\ \A i \in 1 .. l : ds[i] \in SUBSET C
  OBVIOUS
<1>3. base \in D
  OBVIOUS
<1>4. ASSUME NEW scan \in D, NEW cpus \in SUBSET C
      PROVE  /\ Take(scan, cpus) \in D
             /\ Take(scan, cpus).out \in Seq(SUBSET C)
             /\ Take(scan, cpus).open \in BOOLEAN
             /\ Take(scan, cpus) = [out |-> Take(scan, cpus).out, open |-> Take(scan, cpus).open]
             /\ \/ Take(scan, cpus).out = Append(scan.out, cpus)
                \/ /\ scan.out # <<>>
                   /\ Take(scan, cpus).out = Append(Front(scan.out), Last(scan.out) \cup cpus)
                   /\ Cardinality(Last(scan.out) \cup cpus) <= bundleSize
  <2>1. scan.out \in Seq(SUBSET C) /\ scan.open \in BOOLEAN /\ (scan.open => scan.out # <<>>)
    OBVIOUS
  <2>2. CASE scan.open /\ Cardinality(Last(scan.out)) + Cardinality(cpus) <= bundleSize
    <3>1. Last(scan.out) \in SUBSET C
      BY <2>1, <2>2 DEF Last
    <3>2. Front(scan.out) \in Seq(SUBSET C)
      BY <2>1, <2>2 DEF Front
    <3>3. /\ IsFiniteSet(Last(scan.out)) /\ IsFiniteSet(cpus)
          /\ IsFiniteSet(Last(scan.out) \cap cpus)
      BY <3>1, FS_Subset
    <3>4. Cardinality(Last(scan.out) \cup cpus) <= bundleSize
      <4>1. Cardinality(Last(scan.out) \cup cpus) =
              Cardinality(Last(scan.out)) + Cardinality(cpus) - Cardinality(Last(scan.out) \cap cpus)
        BY <3>3, FS_Union
      <4>2. /\ Cardinality(Last(scan.out)) \in Nat /\ Cardinality(cpus) \in Nat
            /\ Cardinality(Last(scan.out) \cap cpus) \in Nat
        BY <3>3, FS_CardinalityType
      <4> QED
        BY <4>1, <4>2, <2>2
    <3>5. Take(scan, cpus) = [out |-> Append(Front(scan.out), Last(scan.out) \cup cpus), open |-> FALSE]
      BY <2>2
    <3>6. Append(Front(scan.out), Last(scan.out) \cup cpus) \in Seq(SUBSET C)
      BY <3>1, <3>2
    <3> HIDE DEF Take
    <3> QED
      BY <3>4, <3>5, <3>6, <2>1, <2>2
  <2>3. CASE ~ (scan.open /\ Cardinality(Last(scan.out)) + Cardinality(cpus) <= bundleSize)
    <3>1. Take(scan, cpus) = [out |-> Append(scan.out, cpus), open |-> TRUE]
      BY <2>3
    <3>2. Append(scan.out, cpus) \in Seq(SUBSET C) /\ Append(scan.out, cpus) # <<>>
      BY <2>1
    <3> HIDE DEF Take
    <3> QED
      BY <3>1, <3>2
  <2> QED
    BY <2>2, <2>3
<1> HIDE DEF Take, base, l, D
<1>5. step \in [D \X (1 .. l) -> D]
  <2> SUFFICES ASSUME NEW p \in D \X (1 .. l)
               PROVE  Take(p[1], ds[p[2]]) \in D
    OBVIOUS
  <2>1. p[1] \in D /\ ds[p[2]] \in SUBSET C
    BY <1>2
  <2> QED
    BY <2>1, <1>4
<1>6. PICK f \in [0 .. l -> D] : f[0] = base /\ \A i \in 1 .. l : f[i] = Take(f[i - 1], ds[i])
  <2>1. PICK f \in [0 .. l -> D] : f[0] = base /\ \A i \in 1 .. l : f[i] = step[<<f[i - 1], i>>]
    <3>1. l \in Nat /\ base \in D /\ step \in [D \X (1 .. l) -> D]
      BY <1>2, <1>3, <1>5
    <3> HIDE DEF step
    <3>2. IsSolvable(l, D, base, step)
      BY <3>1, Recursion
    <3> QED
      BY <3>2 DEF IsSolvable
  <2>2. ASSUME NEW i \in 1 .. l
        PROVE  f[i] = Take(f[i - 1], ds[i])
    <3>1. f[i - 1] \in D /\ <<f[i - 1], i>> \in D \X (1 .. l)
      BY <1>2
    <3> QED
      BY <3>1, <2>1
  <2> QED
    BY <2>1, <2>2
<1>7. PICK g : Solves(g) /\ g = (CHOOSE h : Solves(h))
  <2>1. f = [j \in 0 .. l |-> f[j]]
    OBVIOUS
  <2>2. \A j \in 0 .. l : f[j] = IF j = 0 THEN base ELSE Take(f[j - 1], ds[j])
    BY <1>6, <1>2
  <2>3. Solves(f)
    BY <2>1, <2>2
  <2> HIDE DEF Solves
  <2> QED
    BY <2>3
<1> DEFINE S == {j \in Nat : j <= l => g[j] \in D /\ ScannedTo(g[j], ds, j, bundleSize)}
<1>8. g[0] = base /\ \A j \in 1 .. l : g[j] = Take(g[j - 1], ds[j])
  BY <1>7, <1>2
<1>9. 0 \in S
  <2>1. ScannedTo([out |-> <<>>, open |-> FALSE], ds, 0, bundleSize)
    BY DEF ScannedTo, Disjoint
  <2> QED
    BY <1>8, <1>3, <2>1 DEF base
<1>10. ASSUME NEW j \in Nat, j \in S
       PROVE  j + 1 \in S
  <2> SUFFICES ASSUME j + 1 <= l
               PROVE  g[j + 1] \in D /\ ScannedTo(g[j + 1], ds, j + 1, bundleSize)
    OBVIOUS
  <2>1. g[j] \in D /\ ScannedTo(g[j], ds, j, bundleSize)
    BY <1>10, <1>2
  <2>2. j + 1 \in 1 .. l /\ j \in 0 .. l - 1 /\ ds[j + 1] \in SUBSET C /\ ds[j + 1] # {}
    BY <1>2
  <2>3. g[j + 1] = Take(g[j], ds[j + 1])
    BY <2>2, <1>8
  <2>4. /\ g[j].out \in Seq(SUBSET C) /\ g[j].open \in BOOLEAN
        /\ g[j] = [out |-> g[j].out, open |-> g[j].open]
    BY <2>1 DEF D
  <2>5. /\ g[j + 1] \in D
        /\ g[j + 1].out \in Seq(SUBSET C)
        /\ g[j + 1].open \in BOOLEAN
        /\ g[j + 1] = [out |-> g[j + 1].out, open |-> g[j + 1].open]
        /\ \/ g[j + 1].out = Append(g[j].out, ds[j + 1])
           \/ /\ g[j].out # <<>>
              /\ g[j + 1].out = Append(Front(g[j].out), Last(g[j].out) \cup ds[j + 1])
              /\ Cardinality(Last(g[j].out) \cup ds[j + 1]) <= bundleSize
    BY <2>1, <2>2, <2>3, <1>4
  <2>6. ScannedTo([out |-> g[j + 1].out, open |-> g[j + 1].open], ds, j + 1, bundleSize)
    <3>1. ScannedTo([out |-> g[j].out, open |-> g[j].open], ds, j, bundleSize)
      BY <2>1, <2>4
    <3>2. j \in 0 .. Len(ds) - 1
      BY <2>2 DEF l
    <3> DEFINE out == g[j].out
               open == g[j].open
               new == g[j + 1].out
               is == g[j + 1].open
    <3>3. /\ out \in Seq(SUBSET C) /\ open \in BOOLEAN
          /\ new \in Seq(SUBSET C) /\ is \in BOOLEAN
          /\ ScannedTo([out |-> out, open |-> open], ds, j, bundleSize)
          /\ \/ new = Append(out, ds[j + 1])
             \/ /\ out # <<>>
                /\ new = Append(Front(out), Last(out) \cup ds[j + 1])
                /\ Cardinality(Last(out) \cup ds[j + 1]) <= bundleSize
      BY <2>4, <2>5, <3>1
    <3> HIDE DEF out, open, new, is
    <3>4. ScannedTo([out |-> new, open |-> is], ds, j + 1, bundleSize)
      BY <3>2, <3>3, <2>2, ScanOne
    <3> QED
      BY <3>4 DEF new, is
  <2> QED
    BY <2>5, <2>6
<1>11. l \in S
  <2> HIDE DEF S
  <2> QED
    BY <1>2, <1>9, <1>10, Induction
<1>12. Scan(ds, bundleSize) = g[l].out
  BY <1>1, <1>7
<1>13. g[l] \in D /\ ScannedTo(g[l], ds, l, bundleSize)
  BY <1>2, <1>11
<1>14. g[l].out \in Seq(SUBSET C)
  BY <1>13 DEF D
<1>15. Bundled(g[l].out, Range(ds), bundleSize)
  <2> DEFINE out == g[l].out
  <2>1. /\ Disjoint(out)
        /\ \A n \in DOMAIN out :
             /\ out[n] # {}
             /\ out[n] \in Range(ds) \/ Cardinality(out[n]) <= bundleSize
             /\ \A c \in out[n] : \E k \in 1 .. l : c \in ds[k]
        /\ \A k \in 1 .. l : \E n \in DOMAIN out : ds[k] \subseteq out[n]
    BY <1>13 DEF ScannedTo
  <2> HIDE DEF out
  <2>2. \A k \in 1 .. l : ds[k] \in Range(ds)
    BY <1>2 DEF Range
  <2>3. \A d \in Range(ds) : \E k \in 1 .. l : d = ds[k]
    BY <1>2 DEF Range
  <2>4. Bundled(out, Range(ds), bundleSize)
    BY <2>1, <2>2, <2>3 DEF Bundled
  <2> QED
    BY <2>4 DEF out
<1> QED
  BY <1>12, <1>14, <1>15

\* Bundles of bundles are bundles.
LEMMA BundledAgain ==
  ASSUME NEW S, NEW ds, NEW es, NEW bundleSize,
         Bundled(ds, S, bundleSize), Bundled(es, Range(ds), bundleSize)
  PROVE  Bundled(es, S, bundleSize)
<1>1. Disjoint(es)
  BY DEF Bundled
<1>2. ASSUME NEW n \in DOMAIN es
      PROVE  /\ es[n] # {}
             /\ es[n] \in S \/ Cardinality(es[n]) <= bundleSize
             /\ \A c \in es[n] : \E d \in S : c \in d
  <2>1. \A d \in Range(ds) : \E k \in DOMAIN ds : d = ds[k]
    BY DEF Range
  <2>2. es[n] # {} /\ (es[n] \in Range(ds) \/ Cardinality(es[n]) <= bundleSize)
    BY DEF Bundled
  <2>3. es[n] \in S \/ Cardinality(es[n]) <= bundleSize
    BY <2>1, <2>2 DEF Bundled
  <2>4. ASSUME NEW c \in es[n]
        PROVE  \E d \in S : c \in d
    <3>1. PICK k \in DOMAIN ds : c \in ds[k]
      BY <2>1 DEF Bundled
    <3> QED
      BY <3>1 DEF Bundled
  <2> QED
    BY <2>2, <2>3, <2>4
<1>3. ASSUME NEW d \in S
      PROVE  \E n \in DOMAIN es : d \subseteq es[n]
  <2>1. PICK k \in DOMAIN ds : d \subseteq ds[k]
    BY DEF Bundled
  <2>2. ds[k] \in Range(ds)
    BY DEF Range
  <2>3. PICK n \in DOMAIN es : ds[k] \subseteq es[n]
    BY <2>2 DEF Bundled
  <2> QED
    BY <2>1, <2>3
<1> QED
  BY <1>1, <1>2, <1>3 DEF Bundled

\* All the scans together.
LEMMA BundlesBundle ==
  ASSUME NEW C, IsFiniteSet(C), NEW ds \in Seq(SUBSET C), NEW bundleSize \in Nat, Disjoint(ds),
         \A n \in DOMAIN ds : ds[n] # {}
  PROVE  /\ Bundles(ds, bundleSize) \in Seq(SUBSET C)
         /\ Bundled(Bundles(ds, bundleSize), Range(ds), bundleSize)
<1> DEFINE l == Len(ds)
           Solves(g) == g = [k \in 0 .. l |-> IF k = 0 THEN ds ELSE Scan(g[k - 1], bundleSize)]
           D == {es \in Seq(SUBSET C) : Bundled(es, Range(ds), bundleSize)}
           step == [p \in D \X (1 .. l) |-> Scan(p[1], bundleSize)]
<1>1. Bundles(ds, bundleSize) = (CHOOSE g : Solves(g))[l]
  BY DEF Bundles
<1>2. l \in Nat
  OBVIOUS
<1>3. ds \in D
  <2>1. \A n \in DOMAIN ds : ds[n] \in Range(ds)
    BY DEF Range
  <2>2. \A d \in Range(ds) : \E n \in DOMAIN ds : d = ds[n]
    BY DEF Range
  <2>3. Bundled(ds, Range(ds), bundleSize)
    BY <2>1, <2>2 DEF Bundled
  <2> QED
    BY <2>3
<1>4. ASSUME NEW es \in D
      PROVE  Scan(es, bundleSize) \in D
  <2>1. es \in Seq(SUBSET C) /\ Bundled(es, Range(ds), bundleSize)
    OBVIOUS
  <2>2. Disjoint(es) /\ \A n \in DOMAIN es : es[n] # {}
    BY <2>1 DEF Bundled
  <2>3. Scan(es, bundleSize) \in Seq(SUBSET C) /\ Bundled(Scan(es, bundleSize), Range(es), bundleSize)
    BY <2>1, <2>2, ScanBundles
  <2>4. Bundled(Scan(es, bundleSize), Range(ds), bundleSize)
    BY <2>1, <2>3, BundledAgain
  <2> QED
    BY <2>3, <2>4
<1> HIDE DEF D, l
<1>5. step \in [D \X (1 .. l) -> D]
  <2> SUFFICES ASSUME NEW p \in D \X (1 .. l)
               PROVE  Scan(p[1], bundleSize) \in D
    OBVIOUS
  <2> QED
    BY <1>4
<1>6. PICK f \in [0 .. l -> D] : f[0] = ds /\ \A i \in 1 .. l : f[i] = Scan(f[i - 1], bundleSize)
  <2>1. PICK f \in [0 .. l -> D] : f[0] = ds /\ \A i \in 1 .. l : f[i] = step[<<f[i - 1], i>>]
    <3> HIDE DEF step
    <3>1. IsSolvable(l, D, ds, step)
      BY <1>2, <1>3, <1>5, Recursion
    <3> QED
      BY <3>1 DEF IsSolvable
  <2>2. ASSUME NEW i \in 1 .. l
        PROVE  f[i] = Scan(f[i - 1], bundleSize)
    <3>1. f[i - 1] \in D /\ <<f[i - 1], i>> \in D \X (1 .. l)
      BY <1>2
    <3> QED
      BY <3>1, <2>1
  <2> QED
    BY <2>1, <2>2
<1>7. PICK g : Solves(g) /\ g = (CHOOSE h : Solves(h))
  <2>1. f = [k \in 0 .. l |-> f[k]]
    OBVIOUS
  <2>2. \A k \in 0 .. l : f[k] = IF k = 0 THEN ds ELSE Scan(f[k - 1], bundleSize)
    BY <1>6, <1>2
  <2>3. Solves(f)
    BY <2>1, <2>2
  <2> HIDE DEF Solves
  <2> QED
    BY <2>3
<1> DEFINE S == {k \in Nat : k <= l => g[k] \in D}
<1>8. g[0] = ds /\ \A k \in 1 .. l : g[k] = Scan(g[k - 1], bundleSize)
  BY <1>7, <1>2
<1>9. 0 \in S
  BY <1>8, <1>3
<1>10. ASSUME NEW k \in Nat, k \in S
       PROVE  k + 1 \in S
  <2> SUFFICES ASSUME k + 1 <= l
               PROVE  g[k + 1] \in D
    OBVIOUS
  <2>1. g[k] \in D
    BY <1>10, <1>2
  <2>2. g[k + 1] = Scan(g[k], bundleSize)
    BY <1>8, <1>2
  <2> QED
    BY <2>1, <2>2, <1>4
<1>11. l \in S
  <2> HIDE DEF S
  <2> QED
    BY <1>2, <1>9, <1>10, Induction
<1>12. g[l] \in D
  BY <1>2, <1>11
<1> QED
  BY <1>1, <1>7, <1>12 DEF D

\* Sequences of sets of processors that have no processor in common, one after the other.
Apart(ss) ==
  \A m, n \in DOMAIN ss : \A i \in DOMAIN ss[m], j \in DOMAIN ss[n] :
    m # n \/ i # j => ss[m][i] \cap ss[n][j] = {}

IsFlat(flat, ss) ==
  /\ Disjoint(flat)
  /\ \A k \in DOMAIN flat : \E n \in DOMAIN ss : \E j \in DOMAIN ss[n] : flat[k] = ss[n][j]
  /\ \A n \in DOMAIN ss : \A j \in DOMAIN ss[n] : \E k \in DOMAIN flat : flat[k] = ss[n][j]

\* One after another, lists of sets that are apart make one list of them all.
LEMMA FlatIsDisjoint ==
  ASSUME NEW C, NEW ss \in Seq(Seq(SUBSET C)), ss # <<>>, Apart(ss)
  PROVE  FlattenSeq(ss) \in Seq(SUBSET C) /\ IsFlat(FlattenSeq(ss), ss)
<1> DEFINE l == Len(ss)
           Solves(g) == g = [i \in 1 .. l |-> IF i = 1 THEN ss[i] ELSE g[i - 1] \o ss[i]]
           D == Seq(SUBSET C)
           step == [p \in D \X (1 .. l - 1) |-> p[1] \o ss[p[2] + 1]]
<1>1. FlattenSeq(ss) = (CHOOSE g : Solves(g))[l]
  BY DEF FlattenSeq
<1>2. l \in Nat \ {0} /\ DOMAIN ss = 1 .. l /\ \A i \in 1 .. l : ss[i] \in D
  OBVIOUS
<1>3. \A d, e \in D : d \o e \in D
  OBVIOUS
<1> HIDE DEF D, l
<1>4. PICK f \in [0 .. l - 1 -> D] : f[0] = ss[1] /\ \A i \in 1 .. l - 1 : f[i] = f[i - 1] \o ss[i + 1]
  <2>1. step \in [D \X (1 .. l - 1) -> D]
    <3> SUFFICES ASSUME NEW p \in D \X (1 .. l - 1)
                 PROVE  p[1] \o ss[p[2] + 1] \in D
      OBVIOUS
    <3>1. p[1] \in D /\ p[2] + 1 \in 1 .. l
      BY <1>2
    <3> QED
      BY <3>1, <1>2, <1>3
  <2>2. PICK f \in [0 .. l - 1 -> D] : f[0] = ss[1] /\ \A i \in 1 .. l - 1 : f[i] = step[<<f[i - 1], i>>]
    <3>1. l - 1 \in Nat /\ ss[1] \in D
      BY <1>2
    <3> HIDE DEF step
    <3>2. IsSolvable(l - 1, D, ss[1], step)
      BY <3>1, <2>1, Recursion
    <3> QED
      BY <3>2 DEF IsSolvable
  <2>3. ASSUME NEW i \in 1 .. l - 1
        PROVE  f[i] = f[i - 1] \o ss[i + 1]
    <3>1. f[i - 1] \in D /\ <<f[i - 1], i>> \in D \X (1 .. l - 1)
      BY <1>2
    <3> QED
      BY <3>1, <2>2
  <2> QED
    BY <2>2, <2>3
<1>5. PICK g : Solves(g) /\ g = (CHOOSE h : Solves(h))
  <2> DEFINE h == [i \in 1 .. l |-> f[i - 1]]
  <2>1. ASSUME NEW i \in 1 .. l
        PROVE  h[i] = IF i = 1 THEN ss[i] ELSE h[i - 1] \o ss[i]
    <3>1. CASE i = 1
      BY <3>1, <1>4
    <3>2. CASE i # 1
      <4>1. i - 1 \in 1 .. l - 1 /\ i - 1 \in 1 .. l /\ (i - 1) + 1 = i
        BY <3>2, <1>2
      <4>2. h[i] = f[i - 1] /\ h[i - 1] = f[(i - 1) - 1]
        BY <4>1
      <4>3. f[i - 1] = f[(i - 1) - 1] \o ss[(i - 1) + 1]
        BY <4>1, <1>4
      <4> QED
        BY <3>2, <4>1, <4>2, <4>3
    <3> QED
      BY <3>1, <3>2
  <2>2. h = [i \in 1 .. l |-> h[i]]
    OBVIOUS
  <2> HIDE DEF h
  <2>3. Solves(h)
    BY <2>1, <2>2
  <2> HIDE DEF Solves
  <2> QED
    BY <2>3
<1>6. g[1] = ss[1] /\ \A i \in 1 .. l : i # 1 => g[i] = g[i - 1] \o ss[i]
  <2>1. \A i \in 1 .. l : g[i] = IF i = 1 THEN ss[i] ELSE g[i - 1] \o ss[i]
    BY <1>5, Zenon
  <2>2. 1 \in 1 .. l
    BY <1>2
  <2> QED
    BY <2>1, <2>2
<1> DEFINE Flat(flat, i) ==
             /\ flat \in D
             /\ Disjoint(flat)
             /\ \A k \in DOMAIN flat : \E n \in 1 .. i : \E j \in DOMAIN ss[n] : flat[k] = ss[n][j]
             /\ \A n \in 1 .. i : \A j \in DOMAIN ss[n] : \E k \in DOMAIN flat : flat[k] = ss[n][j]
           S == {i \in Nat : i + 1 <= l => Flat(g[i + 1], i + 1)}
<1>7. 0 \in S
  <2>1. Disjoint(ss[1])
    <3>1. 1 \in DOMAIN ss
      BY <1>2
    <3> QED
      BY <3>1 DEF Disjoint, Apart
  <2>2. Flat(ss[1], 1)
    BY <2>1, <1>2
  <2> HIDE DEF Flat
  <2> QED
    BY <2>2, <1>6
<1>8. ASSUME NEW i \in Nat, i \in S
      PROVE  i + 1 \in S
  <2> SUFFICES ASSUME i + 1 + 1 <= l
               PROVE  Flat(g[i + 1 + 1], i + 1 + 1)
    BY DEF Flat
  <2> DEFINE k == i + 1
             old == g[k]
             new == g[k + 1]
             s == ss[k + 1]
  <2>1. k \in 1 .. l /\ k + 1 \in 1 .. l /\ k + 1 # 1 /\ (k + 1) - 1 = k
    BY <1>2
  <2>2. Flat(old, k)
    BY <1>8, <2>1
  <2>3. new = old \o s
    BY <2>1, <1>6
  <2>4. old \in Seq(SUBSET C) /\ s \in Seq(SUBSET C)
    BY <2>1, <2>2, <1>2 DEF D
  <2> HIDE DEF old, new, k
  <2>5. PICK a \in Nat, b \in Nat : a = Len(old) /\ b = Len(s)
    BY <2>4
  <2>6. /\ DOMAIN old = 1 .. a /\ DOMAIN s = 1 .. b /\ DOMAIN new = 1 .. a + b
        /\ \A x \in 1 .. a : new[x] = old[x]
        /\ \A y \in 1 .. b : new[a + y] = s[y]
        /\ new \in D
    BY <2>3, <2>4, <2>5 DEF D
  <2>7. ASSUME NEW x \in 1 .. a, NEW y \in 1 .. b
        PROVE  old[x] \cap s[y] = {}
    <3>0. PICK n \in 1 .. k : \E j \in DOMAIN ss[n] : old[x] = ss[n][j]
      BY <2>2, <2>6
    <3>1. PICK j \in DOMAIN ss[n] : old[x] = ss[n][j]
      BY <3>0
    <3>2. n \in DOMAIN ss /\ k + 1 \in DOMAIN ss /\ n # k + 1 /\ y \in DOMAIN ss[k + 1]
      BY <1>2, <2>1, <2>6
    <3> QED
      BY <3>1, <3>2 DEF Apart
  <2>8. ASSUME NEW x \in 1 .. a + b
        PROVE  x \in 1 .. a \/ \E y \in 1 .. b : x = a + y
    <3>1. CASE x <= a
      BY <3>1, <2>5
    <3>2. CASE x > a
      <4>1. x - a \in 1 .. b /\ x = a + (x - a)
        BY <3>2, <2>5
      <4> QED
        BY <4>1
    <3> QED
      BY <3>1, <3>2, <2>5
  <2>9. Disjoint(new)
    <3> SUFFICES ASSUME NEW x \in 1 .. a + b, NEW y \in 1 .. a + b, x # y
                 PROVE  new[x] \cap new[y] = {}
      BY <2>6 DEF Disjoint
    <3>1. CASE x \in 1 .. a /\ y \in 1 .. a
      BY <3>1, <2>2, <2>6 DEF Disjoint
    <3>2. CASE x \in 1 .. a /\ \E z \in 1 .. b : y = a + z
      BY <3>2, <2>6, <2>7
    <3>3. CASE y \in 1 .. a /\ \E z \in 1 .. b : x = a + z
      BY <3>3, <2>6, <2>7
    <3>4. CASE (\E z \in 1 .. b : x = a + z) /\ \E z \in 1 .. b : y = a + z
      <4>1. PICK w \in 1 .. b, z \in 1 .. b : x = a + w /\ y = a + z
        BY <3>4
      <4>2. w # z /\ w \in DOMAIN ss[k + 1] /\ z \in DOMAIN ss[k + 1] /\ k + 1 \in DOMAIN ss
        BY <4>1, <2>6, <2>1, <1>2
      <4>3. s[w] \cap s[z] = {}
        BY <4>2 DEF Apart
      <4> QED
        BY <4>1, <4>3, <2>6
    <3> QED
      BY <3>1, <3>2, <3>3, <3>4, <2>8
  <2>10. ASSUME NEW x \in 1 .. a + b
         PROVE  \E n \in 1 .. k + 1 : \E j \in DOMAIN ss[n] : new[x] = ss[n][j]
    <3>1. CASE x \in 1 .. a
      <4>1. PICK n \in 1 .. k : \E j \in DOMAIN ss[n] : old[x] = ss[n][j]
        BY <3>1, <2>2, <2>6
      <4>2. n \in 1 .. k + 1
        BY <2>1
      <4> QED
        BY <3>1, <4>1, <4>2, <2>6
    <3>2. CASE \E y \in 1 .. b : x = a + y
      <4>1. k + 1 \in 1 .. k + 1
        BY <2>1
      <4> QED
        BY <3>2, <4>1, <2>6
    <3> QED
      BY <3>1, <3>2, <2>8
  <2>11. ASSUME NEW n \in 1 .. k + 1, NEW j \in DOMAIN ss[n]
         PROVE  \E x \in 1 .. a + b : new[x] = ss[n][j]
    <3>1. CASE n = k + 1
      <4>1. j \in 1 .. b /\ s[j] = ss[n][j]
        BY <3>1, <2>6
      <4>2. a + j \in 1 .. a + b
        BY <4>1, <2>5
      <4>3. new[a + j] = ss[n][j]
        BY <4>1, <2>6
      <4> QED
        BY <4>2, <4>3
    <3>2. CASE n # k + 1
      <4>1. n \in 1 .. k
        BY <3>2, <2>1
      <4>2. PICK x \in 1 .. a : old[x] = ss[n][j]
        BY <4>1, <2>2, <2>6
      <4>3. x \in 1 .. a + b
        BY <2>5
      <4>4. new[x] = old[x]
        BY <2>6
      <4> QED
        BY <4>2, <4>3, <4>4
    <3> QED
      BY <3>1, <3>2
  <2>12. Flat(new, k + 1)
    <3>1. \A x \in DOMAIN new : \E n \in 1 .. k + 1 : \E j \in DOMAIN ss[n] : new[x] = ss[n][j]
      BY <2>6, <2>10
    <3>2. \A n \in 1 .. k + 1 : \A j \in DOMAIN ss[n] : \E x \in DOMAIN new : new[x] = ss[n][j]
      BY <2>6, <2>11
    <3>3. new \in D
      BY <2>6
    <3> QED
      BY <3>1, <3>2, <3>3, <2>9
  <2> QED
    BY <2>12 DEF new, k
<1>9. Flat(g[l], l)
  <2>1. l - 1 \in Nat
    BY <1>2
  <2>2. l - 1 \in S
    <3> HIDE DEF S
    <3> QED
      BY <2>1, <1>7, <1>8, Induction
  <2>3. (l - 1) + 1 = l
    BY <1>2
  <2> HIDE DEF Flat
  <2> QED
    BY <2>1, <2>2, <2>3
<1>10. FlattenSeq(ss) = g[l]
  BY <1>1, <1>5
<1> DEFINE flat == FlattenSeq(ss)
<1>11. Flat(flat, l)
  BY <1>9, <1>10
<1> HIDE DEF flat
<1>12. flat \in Seq(SUBSET C) /\ IsFlat(flat, ss)
  BY <1>2, <1>11 DEF D, IsFlat
<1> QED
  BY <1>12 DEF flat

\* The processors of a node of the system.
OnNode(m, cpus, n) == {c \in cpus : m.node[c] = n}

\* The nodes divide cpus, and lie in one node of the system each.
Divides(nodes, m, cpus) ==
  /\ nodes \in Seq((SUBSET cpus) \ {{}})
  /\ nodes # <<>>
  /\ Disjoint(nodes)
  /\ \A c \in cpus : \E n \in DOMAIN nodes : c \in nodes[n]
  /\ \A n \in DOMAIN nodes : \A c, d \in nodes[n] : m.node[c] = m.node[d]

\* They keep the caches together, and are larger than bundleSize only as one of them.
KeepsCaches(nodes, m, cpus, bundleSize) ==
  /\ \A c \in cpus : \E n \in DOMAIN nodes : m.l3[c] \cap cpus \subseteq nodes[n]
  /\ \A n \in DOMAIN nodes :
       Cardinality(nodes[n]) <= bundleSize \/ \E c \in cpus : nodes[n] = m.l3[c] \cap cpus

\* The numbers of the nodes end at the largest of them.
LEMMA LargestNode ==
  ASSUME NEW m, IsMachine(m), NEW cpus \in SUBSET Cpus(m), cpus # {}
  PROVE  /\ Max({m.node[c] : c \in cpus}) \in Nat
         /\ \A c \in cpus : m.node[c] \in Nat /\ m.node[c] <= Max({m.node[d] : d \in cpus})
<1> DEFINE T == {m.node[c] : c \in cpus}
           f == [c \in cpus |-> m.node[c]]
<1>1. \A c \in cpus : m.node[c] \in Nat
  BY DEF IsMachine
<1>2. IsFiniteSet(cpus)
  BY FS_Subset DEF IsMachine
<1>3. f \in Surjection(cpus, T)
  BY DEF Surjection
<1>4. T \in SUBSET Nat /\ T # {}
  BY <1>1
<1> HIDE DEF f, T
<1>5. IsFiniteSet(T)
  BY <1>2, <1>3, FS_Surjection
<1>6. Max(T) \in T /\ \A y \in T : y <= Max(T)
  BY <1>4, <1>5, LargestOf
<1>7. \A c \in cpus : m.node[c] \in T
  BY DEF T
<1> QED
  BY <1>1, <1>4, <1>6, <1>7 DEF T

\* Without caches: the nodes of the system, and none of them empty.
LEMMA SystemNodesDivide ==
  ASSUME NEW m, IsMachine(m), NEW cpus \in SUBSET Cpus(m), cpus # {}
  PROVE  Divides(RemoveEmptyNodes(SystemNodes(m, cpus)), m, cpus)
<1> DEFINE nodes == SystemNodes(m, cpus)
           left == RemoveEmptyNodes(nodes)
<1>1. PICK k \in Nat : /\ k = Max({m.node[c] : c \in cpus})
                       /\ \A c \in cpus : m.node[c] \in Nat /\ m.node[c] <= k
  BY LargestNode
<1>2. nodes = [n \in 1 .. k + 1 |-> {c \in cpus : m.node[c] = n - 1}]
  BY <1>1 DEF SystemNodes
<1>3. nodes \in Seq(SUBSET cpus)
  <2>1. k + 1 \in Nat
    OBVIOUS
  <2>2. \A n \in 1 .. k + 1 : {c \in cpus : m.node[c] = n - 1} \in SUBSET cpus
    OBVIOUS
  <2> QED
    BY <2>1, <2>2, <1>2
<1>4. Disjoint(nodes)
  BY <1>2 DEF Disjoint
<1>5. \A c \in cpus : \E n \in DOMAIN nodes : c \in nodes[n]
  <2> TAKE c \in cpus
  <2>1. m.node[c] + 1 \in 1 .. k + 1 /\ (m.node[c] + 1) - 1 = m.node[c]
    BY <1>1
  <2> QED
    BY <2>1, <1>2
<1>6. \A n \in DOMAIN nodes : \A c, d \in nodes[n] : m.node[c] = m.node[d]
  BY <1>2
<1> HIDE DEF nodes
<1>7. /\ left \in Seq((SUBSET cpus) \ {{}})
      /\ \A n \in DOMAIN left : \E i \in DOMAIN nodes : left[n] = nodes[i]
      /\ \A i \in DOMAIN nodes : nodes[i] # {} => \E n \in DOMAIN left : left[n] = nodes[i]
      /\ Disjoint(nodes) => Disjoint(left)
  BY <1>3, NodesLeft
<1> HIDE DEF left
<1>8. \A c \in cpus : \E n \in DOMAIN left : c \in left[n]
  <2> TAKE c \in cpus
  <2>1. PICK i \in DOMAIN nodes : c \in nodes[i]
    BY <1>5
  <2>2. PICK n \in DOMAIN left : left[n] = nodes[i]
    BY <2>1, <1>7
  <2> QED
    BY <2>1, <2>2
<1>9. left # <<>>
  BY <1>8
<1>10. \A n \in DOMAIN left : \A c, d \in left[n] : m.node[c] = m.node[d]
  BY <1>6, <1>7
<1>11. Divides(left, m, cpus)
  BY <1>4, <1>7, <1>8, <1>9, <1>10 DEF Divides
<1> QED
  BY <1>11 DEF left, nodes

\* The caches of a node of the system, each once.
AreCachesOf(ds, m, cpus, n) ==
  /\ ds \in Seq(SUBSET OnNode(m, cpus, n))
  /\ Disjoint(ds)
  /\ \A i \in DOMAIN ds : ds[i] # {}
  /\ \A i \in DOMAIN ds : \E c \in cpus : ds[i] = m.l3[c] \cap cpus
  /\ \A c \in OnNode(m, cpus, n) : \E i \in DOMAIN ds : ds[i] = m.l3[c] \cap cpus

\* try_get_l3_aware_config() finds each cache of a node once.
LEMMA CachesOfNode ==
  ASSUME NEW m, IsMachine(m), NEW cpus \in SUBSET Cpus(m), NEW n \in Nat,
         \A c \in Cpus(m) : c \in m.l3[c]
  PROVE  AreCachesOf(L3Domains(m, cpus, n), m, cpus, n)
<1> DEFINE T == {c \in cpus : m.node[c] = n /\ \A d \in m.l3[c] \cap cpus : c <= d}
           firsts == InOrder(T)
           ds == L3Domains(m, cpus, n)
<1>1. /\ cpus \subseteq Nat /\ cpus \subseteq Cpus(m)
      /\ \A c \in cpus : /\ c \in m.l3[c]
                         /\ \A d \in m.l3[c] : m.l3[d] = m.l3[c] /\ m.node[d] = m.node[c]
  BY DEF IsMachine
<1>2. ds = [i \in DOMAIN firsts |-> m.l3[firsts[i]] \cap cpus]
  BY DEF L3Domains
<1>3. T \in SUBSET Nat /\ IsFiniteSet(T)
  <2>1. T \in SUBSET Nat /\ T \in SUBSET Cpus(m) /\ IsFiniteSet(Cpus(m))
    BY <1>1 DEF IsMachine
  <2> HIDE DEF T
  <2> QED
    BY <2>1, FS_Subset
<1>4. PICK k \in Nat : /\ firsts \in [1 .. k -> T]
                       /\ \A i, j \in 1 .. k : i < j => firsts[i] < firsts[j]
                       /\ \A x \in T : \E i \in 1 .. k : firsts[i] = x
  <2> HIDE DEF T
  <2> QED
    BY <1>3, InOrderCounts
<1> HIDE DEF firsts
<1>5. /\ DOMAIN ds = 1 .. k
      /\ \A i \in 1 .. k : /\ ds[i] = m.l3[firsts[i]] \cap cpus
                           /\ firsts[i] \in cpus /\ m.node[firsts[i]] = n
                           /\ \A d \in m.l3[firsts[i]] \cap cpus : firsts[i] <= d
  BY <1>2, <1>4
<1> HIDE DEF ds
<1>6. \A i \in 1 .. k : ds[i] \in SUBSET OnNode(m, cpus, n)
  <2> SUFFICES ASSUME NEW i \in 1 .. k, NEW c \in ds[i]
               PROVE  c \in cpus /\ m.node[c] = n
    BY DEF OnNode
  <2>1. c \in m.l3[firsts[i]] /\ c \in cpus /\ firsts[i] \in cpus /\ m.node[firsts[i]] = n
    BY <1>5
  <2> QED
    BY <2>1, <1>1
<1>7. ds \in Seq(SUBSET OnNode(m, cpus, n))
  <2>1. ds = [i \in 1 .. k |-> ds[i]]
    BY <1>2, <1>5 DEF ds
  <2> QED
    BY <2>1, <1>6
<1>8. Disjoint(ds)
  <2> SUFFICES ASSUME NEW i \in 1 .. k, NEW j \in 1 .. k, i # j, NEW c \in ds[i], c \in ds[j]
               PROVE  FALSE
    BY <1>5 DEF Disjoint
  <2>1. /\ c \in m.l3[firsts[i]] /\ c \in m.l3[firsts[j]]
        /\ firsts[i] \in cpus /\ firsts[j] \in cpus
    BY <1>5
  <2>2. m.l3[firsts[i]] = m.l3[firsts[j]]
    <3>1. m.l3[c] = m.l3[firsts[i]]
      BY <2>1, <1>1
    <3>2. m.l3[c] = m.l3[firsts[j]]
      BY <2>1, <1>1
    <3> QED
      BY <3>1, <3>2
  <2>3. firsts[i] \in m.l3[firsts[j]] /\ firsts[j] \in m.l3[firsts[i]]
    BY <2>1, <2>2, <1>1
  <2>4. firsts[i] <= firsts[j] /\ firsts[j] <= firsts[i] /\ firsts[i] \in Nat /\ firsts[j] \in Nat
    BY <2>1, <2>3, <1>5, <1>1
  <2>5. firsts[i] = firsts[j]
    BY <2>4
  <2>6. i \in Nat /\ j \in Nat /\ (i < j \/ j < i)
    OBVIOUS
  <2> QED
    BY <2>4, <2>5, <2>6, <1>4
<1>9. \A i \in DOMAIN ds : ds[i] # {} /\ \E c \in cpus : ds[i] = m.l3[c] \cap cpus
  BY <1>1, <1>5
<1>10. ASSUME NEW c \in OnNode(m, cpus, n)
       PROVE  \E i \in DOMAIN ds : ds[i] = m.l3[c] \cap cpus
  <2>1. c \in cpus /\ m.node[c] = n
    BY DEF OnNode
  <2> DEFINE U == m.l3[c] \cap cpus
  <2>2. U \in SUBSET Nat /\ U # {}
    BY <2>1, <1>1
  <2>3. PICK f \in U : \A d \in U : f <= d
    <3> HIDE DEF U
    <3> QED
      BY <2>2, SmallestOf
  <2>4. m.l3[f] = m.l3[c] /\ m.node[f] = n
    BY <2>1, <1>1
  <2>5. f \in T
    BY <2>1, <2>3, <2>4
  <2>6. PICK i \in 1 .. k : firsts[i] = f
    BY <2>5, <1>4
  <2>7. ds[i] = m.l3[c] \cap cpus
    BY <2>4, <2>6, <1>5
  <2> QED
    BY <2>7, <1>5
<1>11. AreCachesOf(ds, m, cpus, n)
  BY <1>7, <1>8, <1>9, <1>10 DEF AreCachesOf
<1> QED
  BY <1>11 DEF ds

\* The bundles on one node of the system.
AreBundlesOf(bs, m, cpus, n, bundleSize) ==
  /\ bs \in Seq(SUBSET OnNode(m, cpus, n))
  /\ Disjoint(bs)
  /\ \A i \in DOMAIN bs :
       /\ bs[i] # {}
       /\ Cardinality(bs[i]) <= bundleSize \/ \E c \in cpus : bs[i] = m.l3[c] \cap cpus
  /\ \A c \in OnNode(m, cpus, n) : \E i \in DOMAIN bs : m.l3[c] \cap cpus \subseteq bs[i]

\* from_l3_info() bundles them without taking one apart.
LEMMA BundlesOfNode ==
  ASSUME NEW m, IsMachine(m), NEW cpus \in SUBSET Cpus(m), NEW n \in Nat, NEW bundleSize \in Nat,
         \A c \in Cpus(m) : c \in m.l3[c]
  PROVE  AreBundlesOf(Bundles(L3Domains(m, cpus, n), bundleSize), m, cpus, n, bundleSize)
<1> DEFINE ds == L3Domains(m, cpus, n)
           bs == Bundles(ds, bundleSize)
           C == OnNode(m, cpus, n)
<1>1. /\ ds \in Seq(SUBSET C)
      /\ Disjoint(ds)
      /\ \A i \in DOMAIN ds : ds[i] # {}
      /\ \A i \in DOMAIN ds : \E c \in cpus : ds[i] = m.l3[c] \cap cpus
      /\ \A c \in C : \E i \in DOMAIN ds : ds[i] = m.l3[c] \cap cpus
  <2>1. AreCachesOf(L3Domains(m, cpus, n), m, cpus, n)
    BY CachesOfNode
  <2> QED
    BY <2>1 DEF AreCachesOf
<1>2. IsFiniteSet(C)
  <2>1. C \in SUBSET Cpus(m) /\ IsFiniteSet(Cpus(m))
    BY DEF OnNode, IsMachine
  <2> QED
    BY <2>1, FS_Subset
<1> HIDE DEF ds, C
<1>3. bs \in Seq(SUBSET C) /\ Bundled(bs, Range(ds), bundleSize)
  BY <1>1, <1>2, BundlesBundle
<1> HIDE DEF bs
<1>4. \A d \in Range(ds) : \E i \in DOMAIN ds : d = ds[i]
  BY DEF Range
<1>5. \A i \in DOMAIN ds : ds[i] \in Range(ds)
  BY DEF Range
<1>6. Disjoint(bs)
  BY <1>3 DEF Bundled
<1>7. ASSUME NEW i \in DOMAIN bs
      PROVE  /\ bs[i] # {}
             /\ Cardinality(bs[i]) <= bundleSize \/ \E c \in cpus : bs[i] = m.l3[c] \cap cpus
  <2>1. bs[i] # {} /\ (bs[i] \in Range(ds) \/ Cardinality(bs[i]) <= bundleSize)
    BY <1>3 DEF Bundled
  <2> QED
    BY <2>1, <1>1, <1>4
<1>8. ASSUME NEW c \in C
      PROVE  \E i \in DOMAIN bs : m.l3[c] \cap cpus \subseteq bs[i]
  <2>1. PICK j \in DOMAIN ds : ds[j] = m.l3[c] \cap cpus
    BY <1>1
  <2>2. ds[j] \in Range(ds)
    BY <1>5
  <2>3. PICK i \in DOMAIN bs : ds[j] \subseteq bs[i]
    BY <2>2, <1>3 DEF Bundled
  <2> QED
    BY <2>1, <2>3
<1>9. AreBundlesOf(bs, m, cpus, n, bundleSize)
  BY <1>3, <1>6, <1>7, <1>8 DEF AreBundlesOf, C
<1> QED
  BY <1>9 DEF bs, ds

\* With caches: bundles of them, node by node.
LEMMA CachesDivide ==
  ASSUME NEW m, IsMachine(m), NEW cpus \in SUBSET Cpus(m), cpus # {}, NEW bundleSize \in Nat,
         \A c \in Cpus(m) : c \in m.l3[c]
  PROVE  LET left == RemoveEmptyNodes(FromL3(m, cpus, bundleSize))
         IN Divides(left, m, cpus) /\ KeepsCaches(left, m, cpus, bundleSize)
<1>1. PICK k \in Nat : /\ k = Max({m.node[c] : c \in cpus})
                       /\ \A c \in cpus : m.node[c] \in Nat /\ m.node[c] <= k
  BY LargestNode
<1> DEFINE ss == [n \in 1 .. k + 1 |-> Bundles(L3Domains(m, cpus, n - 1), bundleSize)]
           flat == FlattenSeq(ss)
           left == RemoveEmptyNodes(flat)
<1>2. FromL3(m, cpus, bundleSize) = flat
  BY <1>1 DEF FromL3
<1>3. ASSUME NEW n \in 1 .. k + 1
      PROVE  /\ ss[n] \in Seq(SUBSET OnNode(m, cpus, n - 1))
             /\ Disjoint(ss[n])
             /\ \A i \in DOMAIN ss[n] :
                  /\ ss[n][i] # {}
                  /\ \/ Cardinality(ss[n][i]) <= bundleSize
                     \/ \E c \in cpus : ss[n][i] = m.l3[c] \cap cpus
             /\ \A c \in OnNode(m, cpus, n - 1) :
                  \E i \in DOMAIN ss[n] : m.l3[c] \cap cpus \subseteq ss[n][i]
  <2>1. n - 1 \in Nat
    OBVIOUS
  <2>2. ss[n] = Bundles(L3Domains(m, cpus, n - 1), bundleSize)
    OBVIOUS
  <2> HIDE DEF ss
  <2> QED
    <3>1. AreBundlesOf(Bundles(L3Domains(m, cpus, n - 1), bundleSize), m, cpus, n - 1, bundleSize)
      BY <2>1, BundlesOfNode
    <3>2. AreBundlesOf(ss[n], m, cpus, n - 1, bundleSize)
      BY <3>1, <2>2
    <3> QED
      BY <3>2 DEF AreBundlesOf
<1>4. ss = [n \in 1 .. k + 1 |-> ss[n]] /\ DOMAIN ss = 1 .. k + 1
  OBVIOUS
<1> HIDE DEF ss
<1>5. ASSUME NEW n \in 1 .. k + 1, NEW i \in DOMAIN ss[n]
      PROVE  \A c \in ss[n][i] : c \in cpus /\ m.node[c] = n - 1
  <2>1. ss[n] \in Seq(SUBSET OnNode(m, cpus, n - 1))
    BY <1>3
  <2>2. ss[n][i] \in SUBSET OnNode(m, cpus, n - 1)
    BY <2>1
  <2> QED
    BY <2>2 DEF OnNode
<1>6. ss \in Seq(Seq(SUBSET cpus)) /\ ss # <<>>
  <2>1. ASSUME NEW n \in 1 .. k + 1
        PROVE  ss[n] \in Seq(SUBSET cpus)
    <3>1. ss[n] \in Seq(SUBSET OnNode(m, cpus, n - 1)) /\ OnNode(m, cpus, n - 1) \subseteq cpus
      BY <1>3 DEF OnNode
    <3> QED
      BY <3>1
  <2>2. k + 1 \in Nat \ {0}
    OBVIOUS
  <2> QED
    BY <2>1, <2>2, <1>4
<1>7. ASSUME NEW n \in DOMAIN ss, NEW o \in DOMAIN ss, NEW i \in DOMAIN ss[n], NEW j \in DOMAIN ss[o],
             n # o \/ i # j
      PROVE  ss[n][i] \cap ss[o][j] = {}
  <2>1. CASE n # o
    <3>1. n - 1 # o - 1
      BY <1>4, <2>1
    <3> QED
      BY <3>1, <1>4, <1>5
  <2>2. CASE n = o
    BY <1>3, <1>4, <1>7, <2>2 DEF Disjoint
  <2> QED
    BY <2>1, <2>2
<1>8. /\ flat \in Seq(SUBSET cpus)
      /\ Disjoint(flat)
      /\ \A x \in DOMAIN flat : \E n \in DOMAIN ss : \E j \in DOMAIN ss[n] : flat[x] = ss[n][j]
      /\ \A n \in DOMAIN ss : \A j \in DOMAIN ss[n] : \E x \in DOMAIN flat : flat[x] = ss[n][j]
  <2>1. Apart(ss)
    BY <1>7 DEF Apart
  <2>2. flat \in Seq(SUBSET cpus) /\ IsFlat(flat, ss)
    BY <1>6, <2>1, FlatIsDisjoint
  <2> QED
    BY <2>2 DEF IsFlat
<1> HIDE DEF flat
<1>9. /\ left \in Seq((SUBSET cpus) \ {{}})
      /\ \A n \in DOMAIN left : \E i \in DOMAIN flat : left[n] = flat[i]
      /\ \A i \in DOMAIN flat : flat[i] # {} => \E n \in DOMAIN left : left[n] = flat[i]
      /\ Disjoint(left)
  BY <1>8, NodesLeft
<1> HIDE DEF left
<1>10. ASSUME NEW x \in DOMAIN left
       PROVE  /\ \A c, d \in left[x] : m.node[c] = m.node[d]
              /\ \/ Cardinality(left[x]) <= bundleSize
                 \/ \E c \in cpus : left[x] = m.l3[c] \cap cpus
  <2>1. PICK y \in DOMAIN flat : left[x] = flat[y]
    BY <1>9
  <2>2. PICK n \in DOMAIN ss : \E j \in DOMAIN ss[n] : flat[y] = ss[n][j]
    BY <1>8
  <2>3. PICK j \in DOMAIN ss[n] : left[x] = ss[n][j]
    BY <2>1, <2>2
  <2>4. \A c \in left[x] : m.node[c] = n - 1
    BY <2>3, <1>4, <1>5
  <2>5. \/ Cardinality(left[x]) <= bundleSize
        \/ \E c \in cpus : left[x] = m.l3[c] \cap cpus
    <3>1. n \in 1 .. k + 1
      BY <1>4
    <3> HIDE DEF ss
    <3>2. \/ Cardinality(ss[n][j]) <= bundleSize
          \/ \E c \in cpus : ss[n][j] = m.l3[c] \cap cpus
      BY <3>1, <1>3
    <3> QED
      BY <3>2, <2>3
  <2> QED
    BY <2>4, <2>5
<1>11. ASSUME NEW c \in cpus
       PROVE  \E x \in DOMAIN left : m.l3[c] \cap cpus \subseteq left[x] /\ c \in left[x]
  <2> DEFINE n == m.node[c] + 1
  <2>1. n \in 1 .. k + 1 /\ c \in OnNode(m, cpus, n - 1)
    BY <1>1 DEF OnNode
  <2> HIDE DEF n
  <2>2. PICK i \in DOMAIN ss[n] : m.l3[c] \cap cpus \subseteq ss[n][i]
    BY <2>1, <1>3
  <2>3. PICK y \in DOMAIN flat : flat[y] = ss[n][i]
    BY <2>1, <1>4, <1>8
  <2>4. c \in Cpus(m) /\ c \in m.l3[c]
    OBVIOUS
  <2>5. c \in flat[y]
    BY <2>2, <2>3, <2>4
  <2>6. PICK x \in DOMAIN left : left[x] = flat[y]
    BY <2>5, <1>9
  <2> QED
    BY <2>2, <2>3, <2>5, <2>6
<1>12. left # <<>>
  <2>1. \E x \in DOMAIN left : TRUE
    BY <1>11
  <2> QED
    BY <2>1
<1>13. Divides(left, m, cpus)
  BY <1>9, <1>10, <1>11, <1>12 DEF Divides
<1>14. KeepsCaches(left, m, cpus, bundleSize)
  BY <1>10, <1>11 DEF KeepsCaches
<1> QED
  BY <1>2, <1>13, <1>14 DEF left

\* The nodes from the system, with caches or without.
LEMMA SystemDivides ==
  ASSUME NEW m, IsMachine(m), NEW cpus \in SUBSET Cpus(m), cpus # {}, NEW bundleSize \in Nat
  PROVE  LET nodes == FromSystem(m, cpus, bundleSize)
         IN /\ Divides(nodes, m, cpus)
            /\ (\E c \in cpus : m.l3[c] # {}) => KeepsCaches(nodes, m, cpus, bundleSize)
<1>1. CASE \A c \in cpus : m.l3[c] = {}
  <2>1. FromSystem(m, cpus, bundleSize) = RemoveEmptyNodes(SystemNodes(m, cpus))
    BY <1>1 DEF FromSystem
  <2> QED
    BY <2>1, <1>1, SystemNodesDivide
<1>2. CASE ~ \A c \in cpus : m.l3[c] = {}
  <2>1. FromSystem(m, cpus, bundleSize) = RemoveEmptyNodes(FromL3(m, cpus, bundleSize))
    BY <1>2 DEF FromSystem
  <2>2. \A c \in Cpus(m) : c \in m.l3[c]
    BY <1>2 DEF IsMachine
  <2> QED
    BY <2>1, <2>2, CachesDivide
<1> QED
  BY <1>1, <1>2

-----------------------------------------------------------------------------
(* The configurations.                                                       *)

\* Nodes that threads can be spread over.
AreNodes(nodes) ==
  /\ nodes \in Seq(SUBSET Nat) /\ nodes # <<>>
  /\ Disjoint(nodes)
  /\ \A n \in DOMAIN nodes : nodes[n] # {} /\ IsFiniteSet(nodes[n])

\* A configuration that set_numa_config_from_option() may set.
Fits(c, m) ==
  /\ AreNodes(c.nodes)
  /\ c.custom \in BOOLEAN
  /\ ~c.custom /\ Len(c.nodes) > 1 =>
       /\ Divides(c.nodes, m, m.allowed)
       /\ (\E d \in m.allowed : m.l3[d] # {}) => KeepsCaches(c.nodes, m, m.allowed, BundleSize)

\* What comes from the system is a list of nodes.
LEMMA DividedAreNodes ==
  ASSUME NEW m, IsMachine(m), NEW cpus \in SUBSET Cpus(m), NEW nodes, Divides(nodes, m, cpus)
  PROVE  AreNodes(nodes)
<1>1. /\ nodes \in Seq((SUBSET cpus) \ {{}}) /\ nodes # <<>> /\ Disjoint(nodes)
  BY DEF Divides
<1>2. cpus \subseteq Nat /\ IsFiniteSet(cpus)
  <2>1. Cpus(m) \subseteq Nat /\ IsFiniteSet(Cpus(m))
    BY DEF IsMachine
  <2> QED
    BY <2>1, FS_Subset
<1>3. nodes \in Seq(SUBSET Nat)
  <2>1. ASSUME NEW n \in 1 .. Len(nodes)
        PROVE  nodes[n] \in SUBSET Nat
    <3>1. nodes[n] \in (SUBSET cpus) \ {{}}
      BY <1>1
    <3> QED
      BY <3>1, <1>2
  <2>2. Len(nodes) \in Nat /\ nodes = [n \in 1 .. Len(nodes) |-> nodes[n]]
    BY <1>1
  <2> QED
    BY <2>1, <2>2
<1>4. \A n \in DOMAIN nodes : nodes[n] # {} /\ IsFiniteSet(nodes[n])
  <2> TAKE n \in DOMAIN nodes
  <2>1. nodes[n] # {} /\ nodes[n] \in SUBSET cpus
    BY <1>1
  <2> QED
    BY <2>1, <1>2, FS_Subset
<1> QED
  BY <1>1, <1>3, <1>4 DEF AreNodes

\* The processors that a list names are as many as it is long at most.
LEMMA ListedIsFinite ==
  ASSUME NEW C, NEW s \in Seq(C)
  PROVE  IsFiniteSet(Range(s))
<1>1. s \in Surjection(1 .. Len(s), Range(s))
  BY DEF Surjection, Range
<1>2. IsFiniteSet(1 .. Len(s))
  BY FS_Interval
<1> QED
  BY <1>1, <1>2, FS_Surjection

\* So is what a list of processors says.
LEMMA ListedAreNodes ==
  ASSUME NEW lists \in Seq(Seq(Nat)), IsNodeList(lists)
  PROVE  AreNodes(FromString(lists))
<1> DEFINE nodes == [n \in DOMAIN lists |-> Range(lists[n])]
           left == RemoveEmptyNodes(nodes)
<1>1. FromString(lists) = left
  BY DEF FromString
<1>2. left \in Seq((SUBSET Nat) \ {{}}) /\ left # <<>> /\ Disjoint(left)
  <2> HIDE DEF left
  <2> QED
    BY <1>1, ListedNodes
<1>3. nodes \in Seq(SUBSET Nat)
  <2>1. \A n \in 1 .. Len(lists) : nodes[n] \in SUBSET Nat
    BY DEF Range
  <2>2. nodes = [n \in 1 .. Len(lists) |-> nodes[n]] /\ Len(lists) \in Nat
    OBVIOUS
  <2> HIDE DEF nodes, left
  <2> QED
    BY <2>1, <2>2
<1>4. \A n \in DOMAIN left : \E i \in DOMAIN nodes : left[n] = nodes[i]
  <2> HIDE DEF nodes
  <2> QED
    BY <1>3, NodesLeft
<1>5. \A i \in DOMAIN nodes : IsFiniteSet(nodes[i])
  <2> TAKE i \in DOMAIN nodes
  <2>1. lists[i] \in Seq(Nat)
    OBVIOUS
  <2> QED
    BY <2>1, ListedIsFinite
<1> HIDE DEF nodes, left
<1>6. left \in Seq(SUBSET Nat)
  <2>1. \A n \in 1 .. Len(left) : left[n] \in SUBSET Nat
    BY <1>2
  <2>2. Len(left) \in Nat /\ left = [n \in 1 .. Len(left) |-> left[n]]
    BY <1>2
  <2> QED
    BY <2>1, <2>2
<1>7. \A n \in DOMAIN left : left[n] # {} /\ IsFiniteSet(left[n])
  BY <1>2, <1>4, <1>5
<1> QED
  BY <1>1, <1>2, <1>6, <1>7 DEF AreNodes

\* set_numa_config_from_option() sets a configuration that fits the machine.
LEMMA ConfigFits ==
  ASSUME machine \in Machines, NEW p, Accepted(p)
  PROVE  Config(p) = [nodes |-> Config(p).nodes, custom |-> Config(p).custom] /\ Fits(Config(p), machine)
<1> DEFINE c == Config(p)
<1>1. IsMachine(machine) /\ BundleSize \in Nat
  BY ReplicationAssumption
<1>2. /\ Cpus(machine) \subseteq Nat /\ Cpus(machine) # {} /\ IsFiniteSet(Cpus(machine))
      /\ machine.allowed \in SUBSET Cpus(machine) /\ machine.allowed # {}
  BY <1>1 DEF IsMachine
<1>3. CASE p \in DOMAIN NodeLists
  <2>1. c = [nodes |-> FromString(NodeLists[p]), custom |-> TRUE]
    BY <1>3 DEF Config
  <2>2. NodeLists[p] \in Seq(Seq(Nat)) /\ IsNodeList(NodeLists[p])
    BY <1>3, ReplicationAssumption DEF Accepted
  <2>3. AreNodes(FromString(NodeLists[p]))
    BY <2>2, ListedAreNodes
  <2> QED
    BY <2>1, <2>3 DEF Fits
<1>4. CASE p \notin DOMAIN NodeLists /\ p = "none"
  <2>1. c = [nodes |-> <<Cpus(machine)>>, custom |-> FALSE]
    BY <1>4 DEF Config
  <2>2. AreNodes(<<Cpus(machine)>>)
    <3> DEFINE nodes == <<Cpus(machine)>>
    <3>1. nodes \in Seq(SUBSET Nat) /\ nodes # <<>> /\ DOMAIN nodes = {1} /\ nodes[1] = Cpus(machine)
      BY <1>2
    <3> HIDE DEF nodes
    <3>2. AreNodes(nodes)
      BY <3>1, <1>2 DEF AreNodes, Disjoint
    <3> QED
      BY <3>2 DEF nodes
  <2> QED
    BY <2>1, <2>2 DEF Fits
<1>5. CASE p \notin DOMAIN NodeLists /\ p = "hardware"
  <2>1. c = [nodes |-> FromSystem(machine, Cpus(machine), BundleSize), custom |-> TRUE]
    BY <1>5 DEF Config
  <2>2. Divides(FromSystem(machine, Cpus(machine), BundleSize), machine, Cpus(machine))
    BY <1>1, <1>2, SystemDivides
  <2>3. AreNodes(FromSystem(machine, Cpus(machine), BundleSize))
    BY <1>1, <2>2, DividedAreNodes
  <2> QED
    BY <2>1, <2>3 DEF Fits
<1>6. CASE p \notin DOMAIN NodeLists /\ p \notin {"none", "hardware"}
  <2> DEFINE nodes == FromSystem(machine, machine.allowed, BundleSize)
  <2>1. c = [nodes |-> nodes, custom |-> FALSE]
    BY <1>6 DEF Config
  <2>2. /\ Divides(nodes, machine, machine.allowed)
        /\ (\E d \in machine.allowed : machine.l3[d] # {}) =>
             KeepsCaches(nodes, machine, machine.allowed, BundleSize)
    BY <1>1, <1>2, SystemDivides
  <2> HIDE DEF nodes
  <2>3. AreNodes(nodes)
    BY <1>1, <1>2, <2>2, DividedAreNodes
  <2> QED
    BY <2>1, <2>2, <2>3 DEF Fits
<1> QED
  BY <1>3, <1>4, <1>5, <1>6

\* A configuration that fits is what the comment on NumaConfig promises.
LEMMA FittingIsSound ==
  ASSUME machine \in Machines, Fits(cfg, machine)
  PROVE  ConfigIsSound
<1> DEFINE nodes == cfg.nodes
           domains == {machine.l3[c] \cap machine.allowed : c \in machine.allowed} \ {{}}
<1>1. AreNodes(nodes)
  BY DEF Fits
<1>2. ASSUME ~cfg.custom, Len(nodes) > 1
      PROVE  /\ UNION Range(nodes) = machine.allowed
             /\ \A n \in DOMAIN nodes : Cardinality({machine.node[c] : c \in nodes[n]}) = 1
             /\ \A d \in domains : \E n \in DOMAIN nodes : d \subseteq nodes[n]
             /\ domains # {} => \A n \in DOMAIN nodes :
                  Cardinality(nodes[n]) <= BundleSize \/ nodes[n] \in domains
  <2>1. /\ Divides(nodes, machine, machine.allowed)
        /\ (\E d \in machine.allowed : machine.l3[d] # {}) =>
             KeepsCaches(nodes, machine, machine.allowed, BundleSize)
    BY <1>2 DEF Fits
  <2> HIDE DEF nodes
  <2>2. \A n \in DOMAIN nodes : nodes[n] \in SUBSET machine.allowed /\ nodes[n] # {}
    BY <2>1 DEF Divides
  <2>3. UNION Range(nodes) = machine.allowed
    <3>1. \A c \in machine.allowed : \E n \in DOMAIN nodes : c \in nodes[n]
      BY <2>1 DEF Divides
    <3>2. \A n \in DOMAIN nodes : nodes[n] \in Range(nodes)
      BY DEF Range
    <3>3. \A s \in Range(nodes) : \E n \in DOMAIN nodes : s = nodes[n]
      BY DEF Range
    <3> HIDE DEF domains
    <3> QED
      BY <2>2, <3>1, <3>2, <3>3
  <2>4. ASSUME NEW n \in DOMAIN nodes
        PROVE  Cardinality({machine.node[c] : c \in nodes[n]}) = 1
    <3>1. PICK d \in nodes[n] : TRUE
      BY <2>2
    <3>2. \A c \in nodes[n] : machine.node[c] = machine.node[d]
      BY <2>1 DEF Divides
    <3>3. {machine.node[c] : c \in nodes[n]} = {machine.node[d]}
      BY <3>2
    <3> QED
      BY <3>3, FS_Singleton
  <2>5. ASSUME domains # {}
        PROVE  KeepsCaches(nodes, machine, machine.allowed, BundleSize)
    <3>1. \E d \in machine.allowed : machine.l3[d] # {}
      BY <2>5
    <3> QED
      BY <3>1, <2>1
  <2>6. ASSUME NEW d \in domains
        PROVE  \E n \in DOMAIN nodes : d \subseteq nodes[n]
    <3>1. KeepsCaches(nodes, machine, machine.allowed, BundleSize)
      BY <2>5
    <3>2. PICK c \in machine.allowed : d = machine.l3[c] \cap machine.allowed
      OBVIOUS
    <3> QED
      BY <3>1, <3>2 DEF KeepsCaches
  <2>7. ASSUME domains # {}, NEW n \in DOMAIN nodes
        PROVE  Cardinality(nodes[n]) <= BundleSize \/ nodes[n] \in domains
    <3>1. KeepsCaches(nodes, machine, machine.allowed, BundleSize)
      BY <2>5, <2>7
    <3>2. CASE \E c \in machine.allowed : nodes[n] = machine.l3[c] \cap machine.allowed
      BY <3>2, <2>2
    <3> QED
      BY <3>1, <3>2 DEF KeepsCaches
  <2> QED
    BY <2>3, <2>4, <2>6, <2>7
<1>3. (\A n \in DOMAIN nodes : nodes[n] # {}) /\ \A m, n \in DOMAIN nodes : m # n => nodes[m] \cap nodes[n] = {}
  BY <1>1 DEF AreNodes, Disjoint
<1> QED
  BY <1>2, <1>3 DEF ConfigIsSound

-----------------------------------------------------------------------------
(* The threads on the nodes.                                                 *)

\* No thread would have been better off on another node.
Spread(nodes, bs) ==
  \A m, n \in DOMAIN nodes :
    Occupation(bs, m) > 0 =>
      Occupation(bs, m) * Cardinality(nodes[n]) <= (Occupation(bs, n) + 1) * Cardinality(nodes[m])

\* The node for the next thread, as in Distribute.
Best(nodes, bs) == Min({n \in DOMAIN nodes : \A m \in DOMAIN nodes : ~FillsLess(nodes, bs, m, n)})

\* Products of natural numbers.
LEMMA Products ==
  /\ \A x, y \in Nat : x * y \in Nat
  /\ \A x, y, z \in Nat : x * y = y * x /\ (x * y) * z = x * (y * z) /\ (x + y) * z = x * z + y * z
  /\ \A x, y, z \in Nat : x <= y => x * z <= y * z
  /\ \A x, y, z \in Nat : x < y /\ z > 0 => x * z < y * z
<1>1. \A x, y \in Nat : x * y \in Nat
  OBVIOUS
<1>2. \A x, y, z \in Nat : x * y = y * x /\ (x * y) * z = x * (y * z) /\ (x + y) * z = x * z + y * z
  OBVIOUS
<1>3. \A x, y, z \in Nat : x <= y => x * z <= y * z
  <2> TAKE x, y, z \in Nat
  <2> HAVE x <= y
  <2>1. PICK d \in Nat : y = x + d
    <3>1. y - x \in Nat /\ y = x + (y - x)
      OBVIOUS
    <3> QED
      BY <3>1
  <2>2. y * z = x * z + d * z /\ d * z \in Nat /\ x * z \in Nat
    BY <2>1, <1>1, <1>2
  <2> QED
    BY <2>2
<1>4. \A x, y, z \in Nat : x < y /\ z > 0 => x * z < y * z
  <2> TAKE x, y, z \in Nat
  <2> HAVE x < y /\ z > 0
  <2>1. PICK d \in Nat : y = x + (d + 1)
    <3>1. y - x - 1 \in Nat /\ y = x + ((y - x - 1) + 1)
      OBVIOUS
    <3> QED
      BY <3>1
  <2>2. y * z = x * z + (d + 1) * z /\ (d + 1) * z = d * z + z /\ d * z \in Nat /\ x * z \in Nat
    BY <2>1, <1>1, <1>2
  <2> QED
    BY <2>2
<1> QED
  BY <1>1, <1>2, <1>3, <1>4

\* a / s is least for one of two that fill less than others.
LEMMA LeastFilled ==
  ASSUME NEW a \in Nat, NEW s \in Nat, NEW b \in Nat, NEW t \in Nat, NEW c \in Nat, NEW u \in Nat,
         t > 0, s > 0, u > 0, c * t < b * u, b * s <= a * t
  PROVE  c * s <= a * u
<1> SUFFICES ASSUME a * u < c * s
             PROVE  FALSE
  <2>1. c * s \in Nat /\ a * u \in Nat
    BY Products
  <2> QED
    BY <2>1
<1>1. (a * u) * t < (c * s) * t
  BY Products
<1>2. (c * t) * s < (b * u) * s
  BY Products
<1>3. (b * s) * u <= (a * t) * u
  BY Products
<1>4. (c * s) * t = (c * t) * s
  <2>1. (c * s) * t = c * (s * t) /\ s * t = t * s /\ c * (t * s) = (c * t) * s
    BY Products
  <2> QED
    BY <2>1
<1>5. (b * u) * s = (b * s) * u
  <2>1. (b * u) * s = b * (u * s) /\ u * s = s * u /\ b * (s * u) = (b * s) * u
    BY Products
  <2> QED
    BY <2>1
<1>6. (a * t) * u = (a * u) * t
  <2>1. (a * t) * u = a * (t * u) /\ t * u = u * t /\ a * (u * t) = (a * u) * t
    BY Products
  <2> QED
    BY <2>1
<1>7. /\ (a * u) * t \in Nat /\ (c * s) * t \in Nat /\ (c * t) * s \in Nat
      /\ (b * u) * s \in Nat /\ (b * s) * u \in Nat /\ (a * t) * u \in Nat
  BY Products
<1> QED
  BY <1>1, <1>2, <1>3, <1>4, <1>5, <1>6, <1>7

\* How many threads are on a node, and how one more changes it.
LEMMA OccupationType ==
  ASSUME NEW D, NEW bs \in Seq(D), NEW n
  PROVE  Occupation(bs, n) \in Nat
<1>1. {i \in DOMAIN bs : bs[i] = n} \in SUBSET (1 .. Len(bs)) /\ IsFiniteSet(1 .. Len(bs))
  BY FS_Interval
<1> QED
  BY <1>1, FS_Subset, FS_CardinalityType DEF Occupation

\* One more thread adds to the node it goes to.
LEMMA OneMore ==
  ASSUME NEW D, NEW bs \in Seq(D), NEW b \in D, NEW n
  PROVE  Occupation(Append(bs, b), n) = Occupation(bs, n) + (IF n = b THEN 1 ELSE 0)
<1> DEFINE new == Append(bs, b)
           On(s) == {i \in DOMAIN s : s[i] = n}
<1>1. PICK k \in Nat : DOMAIN bs = 1 .. k /\ Len(bs) = k
  OBVIOUS
<1>2. DOMAIN new = 1 .. k + 1 /\ new[k + 1] = b /\ \A i \in 1 .. k : new[i] = bs[i]
  BY <1>1
<1>3. IsFiniteSet(On(bs)) /\ k + 1 \notin On(bs) /\ Cardinality(On(bs)) \in Nat
  <2>1. On(bs) \in SUBSET (1 .. k) /\ IsFiniteSet(1 .. k)
    BY <1>1, FS_Interval
  <2>2. k + 1 \notin 1 .. k
    OBVIOUS
  <2> HIDE DEF On
  <2> QED
    BY <2>1, <2>2, FS_Subset, FS_CardinalityType
<1> HIDE DEF new
<1>4. CASE n = b
  <2>1. On(new) = On(bs) \cup {k + 1}
    <3>1. ASSUME NEW i \in 1 .. k + 1
          PROVE  i \in 1 .. k \/ i = k + 1
      OBVIOUS
    <3>2. ASSUME NEW i \in 1 .. k
          PROVE  i \in 1 .. k + 1 /\ i # k + 1
      OBVIOUS
    <3>3. k + 1 \in 1 .. k + 1
      OBVIOUS
    <3> QED
      BY <3>1, <3>2, <3>3, <1>1, <1>2, <1>4
  <2> HIDE DEF On
  <2>2. Cardinality(On(new)) = Cardinality(On(bs)) + 1
    BY <2>1, <1>3, FS_AddElement
  <2> QED
    BY <2>2, <1>4 DEF Occupation, On, new
<1>5. CASE n # b
  <2>1. On(new) = On(bs)
    <3>1. ASSUME NEW i \in 1 .. k + 1
          PROVE  i \in 1 .. k \/ i = k + 1
      OBVIOUS
    <3>2. ASSUME NEW i \in 1 .. k
          PROVE  i \in 1 .. k + 1 /\ i # k + 1
      OBVIOUS
    <3> QED
      BY <3>1, <3>2, <1>1, <1>2, <1>5
  <2> HIDE DEF On
  <2>2. Cardinality(On(new)) = Cardinality(On(bs)) + 0
    BY <2>1, <1>3
  <2> QED
    BY <2>2, <1>5 DEF Occupation, On, new
<1> QED
  BY <1>4, <1>5

\* There is a node that is least filled.
LEMMA BestIsLeast ==
  ASSUME NEW nodes, AreNodes(nodes), NEW bs \in Seq(DOMAIN nodes)
  PROVE  /\ Best(nodes, bs) \in DOMAIN nodes
         /\ \A m \in DOMAIN nodes : ~FillsLess(nodes, bs, m, Best(nodes, bs))
<1>1. PICK l \in Nat : l # 0 /\ DOMAIN nodes = 1 .. l
  BY DEF AreNodes
<1> DEFINE size == [n \in DOMAIN nodes |-> Cardinality(nodes[n])]
           with == [n \in DOMAIN nodes |-> Occupation(bs, n) + 1]
           Least(n, k) == \A m \in 1 .. k : with[n] * size[m] <= with[m] * size[n]
           S == {k \in Nat : k + 1 <= l => \E n \in 1 .. k + 1 : Least(n, k + 1)}
<1>2. \A n \in DOMAIN nodes : size[n] \in Nat /\ size[n] > 0 /\ with[n] \in Nat
  <2> TAKE n \in DOMAIN nodes
  <2>1. Cardinality(nodes[n]) \in Nat /\ Cardinality(nodes[n]) # 0
    BY FS_CardinalityType, FS_EmptySet DEF AreNodes
  <2> QED
    BY <2>1, OccupationType
<1>3. \A m, n \in DOMAIN nodes : FillsLess(nodes, bs, m, n) <=> with[m] * size[n] < with[n] * size[m]
  BY DEF FillsLess
<1> HIDE DEF size, with
<1>4. 0 \in S
  <2>1. ASSUME NEW m \in 1 .. 0 + 1
        PROVE  with[1] * size[m] <= with[m] * size[1]
    <3>1. m = 1 /\ 1 \in DOMAIN nodes
      BY <1>1
    <3>2. with[1] * size[1] \in Nat
      BY <3>1, <1>2, Products
    <3> QED
      BY <3>1, <3>2
  <2>2. 1 \in 1 .. 0 + 1
    OBVIOUS
  <2> QED
    BY <2>1, <2>2
<1>5. ASSUME NEW k \in Nat, k \in S
      PROVE  k + 1 \in S
  <2> SUFFICES ASSUME k + 1 + 1 <= l
               PROVE  \E n \in 1 .. k + 1 + 1 : Least(n, k + 1 + 1)
    OBVIOUS
  <2> DEFINE j == k + 1
             o == j + 1
  <2>0. j \in Nat /\ o \in Nat /\ o \in DOMAIN nodes /\ \A m \in 1 .. j : m \in DOMAIN nodes
    BY <1>1
  <2>1. PICK n \in 1 .. j : Least(n, j)
    BY <1>5, <1>1
  <2>2. \A m \in 1 .. o : m \in 1 .. j \/ m = o
    BY <2>0
  <2>3. n \in DOMAIN nodes /\ n \in 1 .. o
    BY <2>0
  <2> HIDE DEF j, o
  <2>4. CASE with[n] * size[o] <= with[o] * size[n]
    <3>1. Least(n, o)
      BY <2>1, <2>2, <2>4
    <3> QED
      BY <3>1, <2>3 DEF o, j
  <2>5. CASE with[o] * size[n] < with[n] * size[o]
    <3>1. ASSUME NEW m \in 1 .. o
          PROVE  with[o] * size[m] <= with[m] * size[o]
      <4>1. CASE m = o
        <5>1. with[o] * size[o] \in Nat
          BY <2>0, <1>2, Products
        <5> QED
          BY <4>1, <5>1
      <4>2. CASE m \in 1 .. j
        <5>1. with[n] * size[m] <= with[m] * size[n]
          BY <4>2, <2>1
        <5>2. /\ size[m] \in Nat /\ with[m] \in Nat /\ size[m] > 0
              /\ size[n] \in Nat /\ with[n] \in Nat /\ size[n] > 0
              /\ size[o] \in Nat /\ with[o] \in Nat /\ size[o] > 0
          BY <4>2, <2>0, <2>3, <1>2
        <5> QED
          BY <5>1, <5>2, <2>5, LeastFilled
      <4> QED
        BY <4>1, <4>2, <2>2
    <3>2. Least(o, o)
      BY <3>1
    <3>3. o \in 1 .. o
      BY <2>0 DEF o
    <3> QED
      BY <3>2, <3>3 DEF o, j
  <2>6. with[n] * size[o] \in Nat /\ with[o] * size[n] \in Nat
    BY <2>0, <2>3, <1>2, Products
  <2> QED
    BY <2>4, <2>5, <2>6
<1>6. PICK n \in 1 .. l : Least(n, l)
  <2>1. l - 1 \in Nat /\ (l - 1) + 1 = l
    BY <1>1
  <2>2. l - 1 \in S
    <3> HIDE DEF S
    <3> QED
      BY <2>1, <1>4, <1>5, Induction
  <2> QED
    BY <2>1, <2>2
<1> DEFINE T == {x \in DOMAIN nodes : \A m \in DOMAIN nodes : ~FillsLess(nodes, bs, m, x)}
<1>7. n \in T
  <2>1. ASSUME NEW m \in DOMAIN nodes
        PROVE  ~FillsLess(nodes, bs, m, n)
    <3>1. with[n] * size[m] <= with[m] * size[n]
      BY <1>1, <1>6
    <3>2. with[n] * size[m] \in Nat /\ with[m] * size[n] \in Nat
      BY <1>1, <1>2, Products
    <3> QED
      BY <3>1, <3>2, <1>1, <1>3
  <2> QED
    BY <2>1, <1>1
<1>8. T \in SUBSET Nat
  BY <1>1
<1>9. Min(T) \in T
  <2> HIDE DEF T
  <2>1. \E x \in T : \A y \in T : x <= y
    BY <1>7, <1>8, SmallestOf
  <2> QED
    BY <2>1 DEF Min
<1> QED
  BY <1>9 DEF Best

\* One thread more, on the node that is least filled with it.
LEMMA SpreadOneMore ==
  ASSUME NEW nodes, AreNodes(nodes), NEW bs \in Seq(DOMAIN nodes), Spread(nodes, bs)
  PROVE  Spread(nodes, Append(bs, Best(nodes, bs)))
<1> DEFINE b == Best(nodes, bs)
           new == Append(bs, b)
           occ(n) == Occupation(bs, n)
           size(n) == Cardinality(nodes[n])
<1>1. b \in DOMAIN nodes /\ \A m \in DOMAIN nodes : ~FillsLess(nodes, bs, m, b)
  BY BestIsLeast
<1> HIDE DEF b
<1>2. \A n \in DOMAIN nodes : /\ occ(n) \in Nat /\ size(n) \in Nat
                              /\ Occupation(new, n) = occ(n) + (IF n = b THEN 1 ELSE 0)
  <2> TAKE n \in DOMAIN nodes
  <2>1. size(n) \in Nat
    BY FS_CardinalityType DEF AreNodes
  <2>2. occ(n) \in Nat /\ Occupation(new, n) = occ(n) + (IF n = b THEN 1 ELSE 0)
    BY <1>1, OccupationType, OneMore
  <2> QED
    BY <2>1, <2>2
<1>3. \A n \in DOMAIN nodes : ~((occ(n) + 1) * size(b) < (occ(b) + 1) * size(n))
  BY <1>1 DEF FillsLess
<1>4. \A m, n \in DOMAIN nodes : occ(m) > 0 => occ(m) * size(n) <= (occ(n) + 1) * size(m)
  BY DEF Spread
<1> HIDE DEF new, occ, size
<1> SUFFICES ASSUME NEW m \in DOMAIN nodes, NEW n \in DOMAIN nodes, Occupation(new, m) > 0
             PROVE  Occupation(new, m) * size(n) <= (Occupation(new, n) + 1) * size(m)
  BY DEF Spread, new, size, b
<1>5. (occ(n) + 1) * size(m) <= (Occupation(new, n) + 1) * size(m)
  <2>1. occ(n) + 1 \in Nat /\ Occupation(new, n) + 1 \in Nat /\ size(m) \in Nat
    BY <1>2
  <2>2. occ(n) + 1 <= Occupation(new, n) + 1
    BY <1>2
  <2> QED
    BY <2>1, <2>2, Products
<1>6. Occupation(new, m) * size(n) <= (occ(n) + 1) * size(m) \/ (m = b /\ n = b)
  <2>0. /\ Occupation(new, m) * size(n) \in Nat /\ (occ(n) + 1) * size(m) \in Nat
        /\ occ(m) * size(n) \in Nat
    <3>1. /\ Occupation(new, m) \in Nat /\ size(n) \in Nat /\ occ(n) + 1 \in Nat /\ size(m) \in Nat
          /\ occ(m) \in Nat
      <4>1. occ(m) \in Nat /\ size(m) \in Nat /\ occ(n) \in Nat /\ size(n) \in Nat
        BY <1>2
      <4>2. Occupation(new, m) = occ(m) + (IF m = b THEN 1 ELSE 0)
        BY <1>2
      <4> QED
        BY <4>1, <4>2
    <3> QED
      BY <3>1, Products
  <2>1. CASE m # b
    <3>1. Occupation(new, m) = occ(m) /\ occ(m) > 0
      BY <1>2, <2>1
    <3>2. occ(m) * size(n) <= (occ(n) + 1) * size(m)
      BY <3>1, <1>4
    <3>3. Occupation(new, m) * size(n) = occ(m) * size(n)
      BY <3>1
    <3> QED
      BY <3>2, <3>3, <2>0
  <2>2. CASE m = b /\ n # b
    <3>1. Occupation(new, m) = occ(b) + 1
      BY <1>1, <1>2, <2>2
    <3>2. ~((occ(n) + 1) * size(b) < (occ(b) + 1) * size(n))
      BY <1>3
    <3>3. (occ(n) + 1) * size(b) \in Nat /\ (occ(b) + 1) * size(n) \in Nat
      <4>1. occ(n) + 1 \in Nat /\ occ(b) + 1 \in Nat /\ size(b) \in Nat /\ size(n) \in Nat
        BY <1>1, <1>2
      <4> QED
        BY <4>1, Products
    <3>4. (occ(b) + 1) * size(n) <= (occ(n) + 1) * size(b)
      BY <3>2, <3>3
    <3>5. Occupation(new, m) * size(n) = (occ(b) + 1) * size(n)
      BY <3>1
    <3>6. (occ(n) + 1) * size(m) = (occ(n) + 1) * size(b)
      BY <2>2
    <3> QED
      BY <3>4, <3>5, <3>6, <3>3, <2>0
  <2> QED
    BY <2>1, <2>2
<1>7. CASE m = b /\ n = b
  <2>1. Occupation(new, b) \in Nat /\ Occupation(new, b) + 1 \in Nat /\ size(b) \in Nat
    BY <1>1, <1>2
  <2>2. Occupation(new, b) * size(b) <= (Occupation(new, b) + 1) * size(b)
    <3>1. Occupation(new, b) <= Occupation(new, b) + 1
      BY <2>1
    <3> QED
      BY <2>1, <3>1, Products
  <2> QED
    BY <1>7, <2>2
<1>8. CASE Occupation(new, m) * size(n) <= (occ(n) + 1) * size(m)
  <2>1. /\ Occupation(new, m) \in Nat /\ size(n) \in Nat /\ occ(n) + 1 \in Nat /\ size(m) \in Nat
        /\ Occupation(new, n) + 1 \in Nat
    BY <1>2
  <2>2. /\ Occupation(new, m) * size(n) \in Nat /\ (occ(n) + 1) * size(m) \in Nat
        /\ (Occupation(new, n) + 1) * size(m) \in Nat
    BY <2>1, Products
  <2> QED
    BY <2>2, <1>5, <1>8
<1> QED
  BY <1>6, <1>7, <1>8

\* The threads are distributed, and in proportion.
LEMMA Distributed ==
  ASSUME NEW nodes, AreNodes(nodes), NEW n \in Nat
  PROVE  /\ Distribute(nodes, n) \in [1 .. n -> DOMAIN nodes]
         /\ Spread(nodes, Distribute(nodes, n))
<1> DEFINE D == DOMAIN nodes
           IsGreedy(bs, k) == \A i \in 1 .. k : bs[i] = Best(nodes, SubSeq(bs, 1, i - 1))
           S == {k \in Nat : \E bs \in [1 .. k -> D] : IsGreedy(bs, k)}
<1>1. 0 \in S
  <2>1. [i \in 1 .. 0 |-> i] \in [1 .. 0 -> D] /\ IsGreedy([i \in 1 .. 0 |-> i], 0)
    OBVIOUS
  <2> QED
    BY <2>1
<1>2. ASSUME NEW k \in Nat, k \in S
      PROVE  k + 1 \in S
  <2>1. PICK bs \in [1 .. k -> D] : IsGreedy(bs, k)
    BY <1>2
  <2>2. bs \in Seq(D) /\ Len(bs) = k
    OBVIOUS
  <2>3. Best(nodes, bs) \in D
    BY <2>2, BestIsLeast
  <2> DEFINE b == Best(nodes, bs)
             new == Append(bs, b)
  <2> HIDE DEF b, D
  <2>4. new \in Seq(D) /\ Len(new) = k + 1
    BY <2>2, <2>3 DEF b
  <2>5. new \in [1 .. k + 1 -> D]
    <3> HIDE DEF new
    <3> QED
      BY <2>4
  <2>6. ASSUME NEW i \in 1 .. k
        PROVE  new[i] = bs[i] /\ SubSeq(new, 1, i - 1) = SubSeq(bs, 1, i - 1)
    <3>1. new[i] = bs[i]
      BY <2>2
    <3>2. \A j \in 1 .. i - 1 : new[j] = bs[j]
      BY <2>2
    <3>3. /\ SubSeq(new, 1, i - 1) = [j \in 1 .. i - 1 |-> new[j]]
          /\ SubSeq(bs, 1, i - 1) = [j \in 1 .. i - 1 |-> bs[j]]
      BY <2>2, <2>4
    <3> QED
      BY <3>1, <3>2, <3>3
  <2>7. new[k + 1] = b /\ SubSeq(new, 1, k) = bs
    <3>1. new[k + 1] = b /\ \A j \in 1 .. k : new[j] = bs[j]
      BY <2>2
    <3>2. SubSeq(new, 1, k) = [j \in 1 .. k |-> new[j]] /\ bs = [j \in 1 .. k |-> bs[j]]
      BY <2>2, <2>4
    <3> QED
      BY <3>1, <3>2
  <2> HIDE DEF new
  <2>8. IsGreedy(new, k + 1)
    <3> SUFFICES ASSUME NEW i \in 1 .. k + 1
                 PROVE  new[i] = Best(nodes, SubSeq(new, 1, i - 1))
      OBVIOUS
    <3>1. CASE i = k + 1
      <4>1. i - 1 = k
        BY <3>1
      <4> QED
        BY <3>1, <4>1, <2>7 DEF b
    <3>2. CASE i # k + 1
      <4>1. i \in 1 .. k
        BY <3>2
      <4> QED
        BY <4>1, <2>1, <2>6
    <3> QED
      BY <3>1, <3>2
  <2> QED
    BY <2>5, <2>8
<1>3. n \in S
  <2> HIDE DEF S
  <2> QED
    BY <1>1, <1>2, Induction
<1> DEFINE bs == Distribute(nodes, n)
<1>4. bs \in [1 .. n -> D] /\ IsGreedy(bs, n)
  <2>1. \E s \in [1 .. n -> D] : \A i \in 1 .. n : s[i] = Best(nodes, SubSeq(s, 1, i - 1))
    BY <1>3
  <2>2. bs = CHOOSE s \in [1 .. n -> D] : \A i \in 1 .. n : s[i] = Best(nodes, SubSeq(s, 1, i - 1))
    BY DEF Distribute, Best
  <2> QED
    BY <2>1, <2>2
<1> HIDE DEF bs, D
<1>5. bs \in Seq(D) /\ Len(bs) = n
  BY <1>4
<1> DEFINE T == {k \in Nat : k <= n => Spread(nodes, SubSeq(bs, 1, k))}
<1>6. 0 \in T
  <2>1. SubSeq(bs, 1, 0) = <<>>
    BY <1>5
  <2>2. \A m \in D : Occupation(<<>>, m) = 0
    <3>1. \A m \in D : {i \in DOMAIN <<>> : <<>>[i] = m} = {}
      OBVIOUS
    <3> QED
      BY <3>1, FS_EmptySet DEF Occupation
  <2>3. Spread(nodes, <<>>)
    BY <2>2 DEF Spread, D
  <2> QED
    BY <2>1, <2>3
<1>7. ASSUME NEW k \in Nat, k \in T
      PROVE  k + 1 \in T
  <2> SUFFICES ASSUME k + 1 <= n
               PROVE  Spread(nodes, SubSeq(bs, 1, k + 1))
    OBVIOUS
  <2> DEFINE old == SubSeq(bs, 1, k)
  <2>1. old \in Seq(D) /\ Spread(nodes, old)
    BY <1>5, <1>7
  <2>2. bs[k + 1] = Best(nodes, old)
    <3>1. k + 1 \in 1 .. n /\ (k + 1) - 1 = k
      OBVIOUS
    <3> QED
      BY <3>1, <1>4
  <2>3. SubSeq(bs, 1, k + 1) = Append(old, bs[k + 1])
    <3>1. old = [j \in 1 .. k |-> bs[j]]
      BY <1>5
    <3>2. SubSeq(bs, 1, k + 1) = [j \in 1 .. k + 1 |-> bs[j]]
      BY <1>5
    <3>3. Append(old, bs[k + 1]) = [j \in 1 .. k + 1 |-> bs[j]]
      <4>1. Len(old) = k /\ old \in Seq(D)
        BY <2>1, <3>1
      <4>2. DOMAIN Append(old, bs[k + 1]) = 1 .. k + 1
        BY <4>1
      <4>3. \A j \in 1 .. k + 1 : Append(old, bs[k + 1])[j] = bs[j]
        BY <4>1, <3>1
      <4>4. Append(old, bs[k + 1]) = [j \in 1 .. k + 1 |-> Append(old, bs[k + 1])[j]]
        BY <4>1, <4>2
      <4> QED
        BY <4>3, <4>4
    <3> QED
      BY <3>2, <3>3
  <2> HIDE DEF old
  <2> QED
    BY <2>1, <2>2, <2>3, SpreadOneMore DEF D
<1>8. n \in T
  <2> HIDE DEF T
  <2> QED
    BY <1>6, <1>7, Induction
<1>9. SubSeq(bs, 1, n) = bs
  BY <1>5
<1>10. Spread(nodes, bs)
  <2>1. Spread(nodes, SubSeq(bs, 1, n))
    BY <1>8
  <2> HIDE DEF T
  <2> QED
    BY <2>1, <1>9
<1> QED
  BY <1>4, <1>10 DEF bs, D

-----------------------------------------------------------------------------
(***************************************************************************)
(* The commands.  A label says what is known of the copies and of the pool *)
(* before a step and after it; the labels along `todo' end in one where    *)
(* the copies are complete and the pool is at work or ready for it.        *)
(***************************************************************************)
Label == [inst : {"full", "moved", "copied", "empty", "one"},
          pool : {"busy", "ready", "old", "stale", "making", "clearing"},
          made : Nat, threads : 1 .. MaxThreads, policy : Policies]

\* What a step takes a label to.
Ok(step, q, r) ==
  /\ q \in Label /\ r \in Label
  /\ \/ /\ step.op = "wait" /\ q.inst = "full" /\ q.pool \in {"busy", "ready", "clearing", "stale"}
        /\ r = [q EXCEPT !.pool = IF q.pool = "stale" THEN "stale" ELSE "ready"]
     \/ /\ step.op = "set" /\ q.inst = "full" /\ q.pool = "ready"
        /\ r = [q EXCEPT !.threads = step.threads, !.policy = step.policy]
     \/ /\ step.op = "config" /\ q.inst = "full" /\ q.pool = "ready" /\ Accepted(q.policy)
        /\ r = [q EXCEPT !.inst = "moved", !.pool = "stale"]
     \/ /\ step.op = "copy" /\ step.net \in Nets \cup {Absent}
        /\ \/ q.inst = "full" /\ q.pool = "ready"
           \/ q.inst = "moved" /\ q.pool = "stale" /\ step.net = Absent
        /\ r = [q EXCEPT !.inst = "copied", !.pool = IF step.net = Absent THEN q.pool ELSE "old"]
     \/ step.op = "empty" /\ q.inst = "copied" /\ r = [q EXCEPT !.inst = "empty"]
     \/ step.op = "first" /\ q.inst = "empty" /\ r = [q EXCEPT !.inst = "one"]
     \/ step.op = "resize" /\ q.inst = "one" /\ r = [q EXCEPT !.inst = "full"]
     \/ /\ step.op = "destroy" /\ q.inst = "full" /\ q.pool \in {"ready", "stale"}
        /\ r = [q EXCEPT !.pool = "making", !.made = 0]
     \/ /\ step.op = "create" /\ q.inst = "full" /\ q.pool = "making"
        /\ step.worker = q.made + 1 /\ step.worker <= q.threads
        /\ r = [q EXCEPT !.made = q.made + 1]
     \/ /\ step.op = "clear" /\ q.inst = "full"
        /\ q.pool = "old" \/ (q.pool = "making" /\ q.made = q.threads)
        /\ r = [q EXCEPT !.pool = "clearing"]
     \/ /\ step.op = "ensure" /\ q.inst = "full" /\ q.pool = "ready" /\ step.worker \in 1 .. q.made
        /\ r = q
     \/ /\ step.op = "go" /\ q.inst = "full" /\ q.pool = "ready"
        /\ r = [q EXCEPT !.pool = "busy"]

Path(s, q, r) ==
  \E f \in [0 .. Len(s) -> Label] :
    /\ f[0] = q /\ f[Len(s)] = r
    /\ \A i \in 1 .. Len(s) : Ok(s[i], f[i - 1], f[i])

Rests(q) == q.inst = "full" /\ q.pool \in {"busy", "ready"}

\* The histories are made for `total' threads.
Shares(total) ==
  \/ bound = <<>> /\ histories = [n \in {1} |-> total]
  \/ /\ bound # <<>> /\ Len(bound) = total
     /\ histories = [n \in Range(bound) |-> Occupation(bound, n)]

CopiesFit(q) ==
  /\ source = net
  /\ q.inst \in {"full", "moved"} =>
       /\ instances # <<>> /\ instances[1] = net
       /\ \A n \in DOMAIN instances : instances[n] \in {net, Absent}
  /\ q.inst = "full" =>
       DOMAIN instances = IF RequiresReplication(cfg) THEN DOMAIN cfg.nodes ELSE {1}
  /\ q.inst = "one" => instances = <<net>>

PoolFits(q) ==
  /\ q.made = Len(workers) /\ q.threads = threads /\ q.policy = policy
  /\ q.pool \in {"ready", "old", "stale"} => Parked
  /\ q.inst # "full" => q.pool \in {"ready", "old", "stale"}
  /\ q.pool \in {"busy", "ready"} =>
       \A i \in DOMAIN workers : workers[i].phase # "clear" /\ workers[i].table = net
  /\ q.pool \in {"making", "clearing"} =>
       \A i \in DOMAIN workers : /\ workers[i].phase # "search"
                                 /\ workers[i].phase = "parked" => workers[i].table = net
  /\ q.pool # "stale" =>
       /\ \A i \in DOMAIN bound : bound[i] \in DOMAIN cfg.nodes
       /\ bound # <<>> => Spread(cfg.nodes, bound)
  /\ q.pool = "making" => q.made <= threads /\ Shares(threads)
  /\ q.pool # "making" /\ q.made > 0 => Shares(q.made)

StateFits(q) == q \in Label /\ CopiesFit(q) /\ PoolFits(q)

\* The workers have the nodes and the indices that they are to have.
WorkersFit ==
  \A i \in DOMAIN workers :
    /\ workers[i].token = NodeOf(i)
    /\ workers[i].index = NumaThreadIndex(i)
    /\ NodeOf(i) \in DOMAIN histories /\ workers[i].total = histories[NodeOf(i)]

Access == [at : {"none", "check", "lock", "recheck", "build", "assign", "deref", "use"},
           node : Nat, net : Nets \cup {Absent}, live : BOOLEAN]

AccessFits ==
  \A a \in Accessor :
    /\ access[a].live
    /\ access[a].at \in {"recheck", "build", "assign"} <=> mutex = a
    /\ access[a].at \in {"build", "assign"} => instances[access[a].node] = Absent
    /\ access[a].at \in {"deref", "use"} => instances[access[a].node] = net
    /\ access[a].at \in {"assign", "use"} => access[a].net = net

\* Only the UCI thread in "ensure" and workers that are not parked access copies.
AccessNeeded ==
  /\ access[Uci].at # "none" =>
       /\ todo # <<>> /\ Head(todo).op = "ensure"
       /\ access[Uci].node = workers[Head(todo).worker].token
  /\ \A a \in 1 .. MaxThreads :
       /\ access[a].at # "none" =>
            /\ a \in DOMAIN workers /\ workers[a].phase # "parked"
            /\ access[a].node = workers[a].token
       /\ a \in DOMAIN workers => (workers[a].phase = "clear" => access[a].at # "none")

Steps ==
  [op : {"wait", "config", "empty", "first", "resize", "destroy", "clear", "go"}]
    \cup [op : {"set"}, policy : Policies, threads : 1 .. MaxThreads]
    \cup [op : {"copy"}, net : Nets \cup {Absent}]
    \cup [op : {"create", "ensure"}, worker : 1 .. MaxThreads]

Types ==
  /\ machine \in Machines
  /\ Fits(cfg, machine)
  /\ policy \in Policies
  /\ threads \in 1 .. MaxThreads
  /\ net \in Nets
  /\ instances \in Seq(Nets \cup {Absent})
  /\ mutex \in Accessor \cup {Nobody}
  /\ bound \in Seq(Nat \ {0})
  /\ DOMAIN histories \subseteq Nat \ {0}
  /\ workers \in Seq(Worker) /\ Len(workers) <= MaxThreads
  /\ access \in [Accessor -> Access]
  /\ todo \in Seq(Steps)
  /\ terminated \in BOOLEAN

Inv ==
  /\ Types
  /\ \E q, r \in Label : StateFits(q) /\ Path(todo, q, r) /\ Rests(r)
  /\ WorkersFit /\ AccessFits /\ AccessNeeded

-----------------------------------------------------------------------------
(* Paths of labels.                                                          *)

\* Without a step a path stays where it is.
LEMMA PathNone ==
  ASSUME NEW q \in Label
  PROVE  Path(<<>>, q, q) /\ \A r : Path(<<>>, q, r) => r = q
<1>1. Len(<<>>) = 0
  OBVIOUS
<1>2. [i \in 0 .. 0 |-> q] \in [0 .. 0 -> Label] /\ [i \in 0 .. 0 |-> q][0] = q
  OBVIOUS
<1>3. \A i : i \notin 1 .. 0
  OBVIOUS
<1> QED
  BY <1>1, <1>2, <1>3 DEF Path

\* One step.
LEMMA PathOne ==
  ASSUME NEW step \in Steps, NEW q, NEW r, Ok(step, q, r)
  PROVE  Path(<<step>>, q, r)
<1> DEFINE f == [i \in 0 .. 1 |-> IF i = 0 THEN q ELSE r]
           s == <<step>>
<1>1. q \in Label /\ r \in Label
  BY DEF Ok
<1>2. f \in [0 .. 1 -> Label] /\ f[0] = q /\ f[1] = r
  BY <1>1
<1>3. Len(s) = 1 /\ s[1] = step
  OBVIOUS
<1>4. ASSUME NEW i \in 1 .. 1
      PROVE  Ok(s[i], f[i - 1], f[i])
  <2>1. i = 1 /\ i - 1 = 0
    OBVIOUS
  <2> HIDE DEF f, s
  <2> QED
    BY <2>1, <1>2, <1>3
<1> HIDE DEF f, s
<1>5. Path(s, q, r)
  BY <1>2, <1>3, <1>4 DEF Path
<1> QED
  BY <1>5 DEF s

\* One command after another.
LEMMA PathThen ==
  ASSUME NEW s \in Seq(Steps), NEW t \in Seq(Steps), NEW q, NEW r, NEW u, Path(s, q, r), Path(t, r, u)
  PROVE  Path(s \o t, q, u)
<1>1. PICK a \in Nat, b \in Nat : a = Len(s) /\ b = Len(t)
  OBVIOUS
<1>2. PICK f \in [0 .. a -> Label] : /\ f[0] = q /\ f[a] = r
                                    /\ \A i \in 1 .. a : Ok(s[i], f[i - 1], f[i])
  BY <1>1 DEF Path
<1>3. PICK g \in [0 .. b -> Label] : /\ g[0] = r /\ g[b] = u
                                    /\ \A i \in 1 .. b : Ok(t[i], g[i - 1], g[i])
  BY <1>1 DEF Path
<1> DEFINE h == [i \in 0 .. a + b |-> IF i <= a THEN f[i] ELSE g[i - a]]
           w == s \o t
<1>4. h \in [0 .. a + b -> Label]
  <2> SUFFICES ASSUME NEW i \in 0 .. a + b
               PROVE  (IF i <= a THEN f[i] ELSE g[i - a]) \in Label
    OBVIOUS
  <2>1. CASE i <= a
    <3>1. i \in 0 .. a
      BY <2>1
    <3> QED
      BY <2>1, <3>1
  <2>2. CASE ~(i <= a)
    <3>1. i - a \in 0 .. b
      BY <2>2
    <3> QED
      BY <2>2, <3>1
  <2> QED
    BY <2>1, <2>2
<1>5. h[0] = q
  BY <1>2
<1>6. \A i \in 0 .. b : h[a + i] = g[i]
  <2> TAKE i \in 0 .. b
  <2>1. a + i \in 0 .. a + b /\ (a + i) - a = i
    OBVIOUS
  <2>2. CASE i = 0
    <3>1. a + i = a
      BY <2>2
    <3> QED
      BY <2>1, <2>2, <3>1, <1>2, <1>3
  <2>3. CASE i # 0
    <3>1. ~(a + i <= a)
      BY <2>3
    <3> QED
      BY <2>1, <3>1
  <2> QED
    BY <2>2, <2>3
<1>7. \A i \in 0 .. a : h[i] = f[i]
  OBVIOUS
<1>8. /\ Len(w) = a + b /\ \A i \in 1 .. a : w[i] = s[i]
      /\ \A i \in 1 .. b : w[a + i] = t[i]
  BY <1>1
<1> HIDE DEF h, w
<1>9. ASSUME NEW i \in 1 .. a + b
      PROVE  Ok(w[i], h[i - 1], h[i])
  <2>1. CASE i <= a
    <3>1. i \in 1 .. a /\ i \in 0 .. a /\ i - 1 \in 0 .. a
      BY <2>1
    <3>2. w[i] = s[i] /\ h[i] = f[i] /\ h[i - 1] = f[i - 1] /\ Ok(s[i], f[i - 1], f[i])
      BY <3>1, <1>2, <1>7, <1>8
    <3> QED
      BY <3>2
  <2>2. CASE ~(i <= a)
    <3>1. PICK j \in 1 .. b : i = a + j
      <4>1. i - a \in 1 .. b /\ i = a + (i - a)
        BY <2>2
      <4> QED
        BY <4>1
    <3>2. j \in 0 .. b /\ j - 1 \in 0 .. b /\ i - 1 = a + (j - 1)
      BY <3>1
    <3>3. w[i] = t[j] /\ h[i] = g[j] /\ h[i - 1] = g[j - 1] /\ Ok(t[j], g[j - 1], g[j])
      BY <3>1, <3>2, <1>3, <1>6, <1>8
    <3> QED
      BY <3>3
  <2> QED
    BY <2>1, <2>2
<1>10. h[a + b] = u
  BY <1>3, <1>6
<1>11. Path(w, q, u)
  BY <1>4, <1>5, <1>8, <1>9, <1>10 DEF Path
<1> QED
  BY <1>11 DEF w

\* The first step, and the path that is left.
LEMMA PathHead ==
  ASSUME NEW s \in Seq(Steps), s # <<>>, NEW q, NEW u, Path(s, q, u)
  PROVE  \E r \in Label : Ok(Head(s), q, r) /\ Path(Tail(s), r, u)
<1>1. PICK a \in Nat : a + 1 = Len(s)
  <2>1. Len(s) - 1 \in Nat /\ (Len(s) - 1) + 1 = Len(s)
    OBVIOUS
  <2> QED
    BY <2>1
<1>2. PICK f \in [0 .. a + 1 -> Label] : /\ f[0] = q /\ f[a + 1] = u
                                        /\ \A i \in 1 .. a + 1 : Ok(s[i], f[i - 1], f[i])
  BY <1>1 DEF Path
<1> DEFINE g == [i \in 0 .. a |-> f[i + 1]]
           t == Tail(s)
<1>3. g \in [0 .. a -> Label]
  <2>1. \A i \in 0 .. a : i + 1 \in 0 .. a + 1
    OBVIOUS
  <2> QED
    BY <2>1
<1>4. Len(t) = a /\ \A i \in 1 .. a : t[i] = s[i + 1]
  BY <1>1
<1>5. Ok(Head(s), q, f[1])
  <2>1. 1 \in 1 .. a + 1 /\ 1 - 1 = 0
    OBVIOUS
  <2> QED
    BY <2>1, <1>2
<1>6. g[0] = f[1] /\ g[a] = u
  BY <1>2
<1>7. \A i \in 0 .. a : g[i] = f[i + 1]
  OBVIOUS
<1> HIDE DEF g, t
<1>8. ASSUME NEW i \in 1 .. a
      PROVE  Ok(t[i], g[i - 1], g[i])
  <2>1. i + 1 \in 1 .. a + 1 /\ (i + 1) - 1 = i /\ i - 1 \in 0 .. a /\ i \in 0 .. a /\ (i - 1) + 1 = i
    OBVIOUS
  <2>2. Ok(s[i + 1], f[i], f[i + 1])
    BY <2>1, <1>2
  <2> QED
    BY <2>1, <2>2, <1>4, <1>7
<1>9. Path(t, f[1], u)
  BY <1>3, <1>4, <1>6, <1>8 DEF Path
<1>10. f[1] \in Label
  BY <1>2
<1> QED
  BY <1>5, <1>9, <1>10 DEF t

-----------------------------------------------------------------------------
(* The commands lead from a pool at rest to one at rest.                     *)

\* Three, four and five lists of steps.
LEMMA PathThen3 ==
  ASSUME NEW a \in Seq(Steps), NEW b \in Seq(Steps), NEW c \in Seq(Steps),
         NEW q, NEW r, NEW u, NEW v,
         Path(a, q, r), Path(b, r, u), Path(c, u, v)
  PROVE  (a \o b) \o c \in Seq(Steps) /\ Path((a \o b) \o c, q, v)
<1> DEFINE s == a \o b
<1>1. s \in Seq(Steps) /\ Path(s, q, u)
  BY PathThen
<1> HIDE DEF s
<1>2. s \o c \in Seq(Steps) /\ Path(s \o c, q, v)
  BY <1>1, PathThen
<1> QED
  BY <1>2 DEF s

LEMMA PathThen4 ==
  ASSUME NEW a \in Seq(Steps), NEW b \in Seq(Steps), NEW c \in Seq(Steps), NEW d \in Seq(Steps),
         NEW q, NEW r, NEW u, NEW v, NEW w,
         Path(a, q, r), Path(b, r, u), Path(c, u, v), Path(d, v, w)
  PROVE  ((a \o b) \o c) \o d \in Seq(Steps) /\ Path(((a \o b) \o c) \o d, q, w)
<1> DEFINE s == (a \o b) \o c
<1>1. s \in Seq(Steps) /\ Path(s, q, v)
  BY PathThen3
<1> HIDE DEF s
<1>2. s \o d \in Seq(Steps) /\ Path(s \o d, q, w)
  BY <1>1, PathThen
<1> QED
  BY <1>2 DEF s

LEMMA PathThen5 ==
  ASSUME NEW a \in Seq(Steps), NEW b \in Seq(Steps), NEW c \in Seq(Steps), NEW d \in Seq(Steps), NEW e \in Seq(Steps),
         NEW q, NEW r, NEW u, NEW v, NEW w, NEW x,
         Path(a, q, r), Path(b, r, u), Path(c, u, v), Path(d, v, w), Path(e, w, x)
  PROVE  (((a \o b) \o c) \o d) \o e \in Seq(Steps) /\ Path((((a \o b) \o c) \o d) \o e, q, x)
<1> DEFINE s == ((a \o b) \o c) \o d
<1>1. s \in Seq(Steps) /\ Path(s, q, w)
  BY PathThen4
<1> HIDE DEF s
<1>2. s \o e \in Seq(Steps) /\ Path(s \o e, q, x)
  BY <1>1, PathThen
<1> QED
  BY <1>2 DEF s

\* The steps of a loop over the workers, and single steps.
LEMMA EachSteps ==
  ASSUME NEW op \in {"create", "ensure"}, NEW n \in 0 .. MaxThreads
  PROVE  /\ Each(op, n) \in Seq(Steps) /\ Len(Each(op, n)) = n
         /\ \A i \in 1 .. n : Each(op, n)[i].op = op /\ Each(op, n)[i].worker = i
<1> DEFINE f == [i \in 1 .. n |-> [op |-> op, worker |-> i]]
<1>1. Each(op, n) = f /\ n \in Nat
  BY ReplicationAssumption DEF Each
<1>2. \A i \in 1 .. n : f[i] \in Steps
  <2> SUFFICES ASSUME NEW i \in 1 .. n
               PROVE  [op |-> op, worker |-> i] \in [op : {"create", "ensure"}, worker : 1 .. MaxThreads]
    BY DEF Steps
  <2>1. i \in 1 .. MaxThreads
    BY ReplicationAssumption
  <2> QED
    BY <2>1
<1>3. f = [i \in 1 .. n |-> f[i]]
  OBVIOUS
<1>4. \A i \in 1 .. n : f[i].op = op /\ f[i].worker = i
  OBVIOUS
<1> HIDE DEF f
<1> QED
  BY <1>1, <1>2, <1>3, <1>4

LEMMA StepIsOne ==
  ASSUME NEW op \in {"wait", "config", "empty", "first", "resize", "destroy", "clear", "go"}
  PROVE  Step(op) \in Steps /\ Step(op).op = op
  BY DEF Step, Steps

\* modify_and_replicate() makes the copies complete.
LEMMA Replicates ==
  ASSUME NEW s \in Nets \cup {Absent}, NEW q \in Label,
         \/ q.inst = "full" /\ q.pool = "ready"
         \/ q.inst = "moved" /\ q.pool = "stale" /\ s = Absent
  PROVE  /\ Replicate(s) \in Seq(Steps)
         /\ Path(Replicate(s), q,
                 [q EXCEPT !.inst = "full", !.pool = IF s = Absent THEN q.pool ELSE "old"])
<1> DEFINE p == IF s = Absent THEN q.pool ELSE "old"
           q1 == [q EXCEPT !.inst = "copied", !.pool = p]
           q2 == [q1 EXCEPT !.inst = "empty"]
           q3 == [q2 EXCEPT !.inst = "one"]
           q4 == [q3 EXCEPT !.inst = "full"]
           copy == [op |-> "copy", net |-> s]
<1>1. p \in {"busy", "ready", "old", "stale", "making", "clearing"}
  BY DEF Label
<1>2. q1 \in Label /\ q2 \in Label /\ q3 \in Label /\ q4 \in Label
  BY <1>1 DEF Label
<1>3. q1.inst = "copied" /\ q2.inst = "empty" /\ q3.inst = "one"
  BY DEF Label
<1>4. q4 = [q EXCEPT !.inst = "full", !.pool = p]
  BY DEF Label
<1>5. copy \in Steps /\ copy.op = "copy" /\ copy.net = s
  BY DEF Steps
<1>6. Ok(copy, q, q1)
  <2> HIDE DEF copy
  <2> QED
    BY <1>2, <1>5 DEF Ok
<1> HIDE DEF copy, q1, q2, q3, q4
<1>7. Ok(Step("empty"), q1, q2)
  BY <1>2, <1>3, StepIsOne DEF Ok, q2
<1>8. Ok(Step("first"), q2, q3)
  BY <1>2, <1>3, StepIsOne DEF Ok, q3
<1>9. Ok(Step("resize"), q3, q4)
  BY <1>2, <1>3, StepIsOne DEF Ok, q4
<1>10. /\ Path(<<copy>>, q, q1) /\ Path(<<Step("empty")>>, q1, q2)
       /\ Path(<<Step("first")>>, q2, q3) /\ Path(<<Step("resize")>>, q3, q4)
  BY <1>5, <1>6, <1>7, <1>8, <1>9, StepIsOne, PathOne
<1>11. /\ <<copy>> \in Seq(Steps) /\ <<Step("empty")>> \in Seq(Steps)
       /\ <<Step("first")>> \in Seq(Steps) /\ <<Step("resize")>> \in Seq(Steps)
  BY <1>5, StepIsOne
<1>12. Path(<<copy>> \o <<Step("empty")>>, q, q2)
  BY <1>10, <1>11, PathThen
<1>13. Path(<<Step("first")>> \o <<Step("resize")>>, q2, q4)
  BY <1>10, <1>11, PathThen
<1>14. /\ <<copy>> \o <<Step("empty")>> \in Seq(Steps)
       /\ <<Step("first")>> \o <<Step("resize")>> \in Seq(Steps)
  BY <1>11
<1>15. Path((<<copy>> \o <<Step("empty")>>) \o (<<Step("first")>> \o <<Step("resize")>>), q, q4)
  BY <1>12, <1>13, <1>14, PathThen
<1>16. Replicate(s) = (<<copy>> \o <<Step("empty")>>) \o (<<Step("first")>> \o <<Step("resize")>>)
  BY DEF Replicate, copy
<1> QED
  BY <1>4, <1>14, <1>15, <1>16

\* ThreadPool::clear() ends with a pool that is ready.
LEMMA ClearsPool ==
  ASSUME NEW q \in Label, q.inst = "full", q.pool = "old" \/ (q.pool = "making" /\ q.made = q.threads)
  PROVE  ClearPool \in Seq(Steps) /\ Path(ClearPool, q, [q EXCEPT !.pool = "ready"])
<1> DEFINE q1 == [q EXCEPT !.pool = "clearing"]
           q2 == [q1 EXCEPT !.pool = "ready"]
<1>1. q1 \in Label /\ q2 \in Label /\ q1.pool = "clearing" /\ q1.inst = "full"
  BY DEF Label
<1>2. q2 = [q EXCEPT !.pool = "ready"]
  BY DEF Label
<1> HIDE DEF q1, q2
<1>3. Ok(Step("clear"), q, q1)
  BY <1>1, StepIsOne DEF Ok, q1
<1>4. Ok(Step("wait"), q1, q2)
  BY <1>1, StepIsOne DEF Ok, q2
<1>5. Path(<<Step("clear")>>, q, q1) /\ Path(<<Step("wait")>>, q1, q2)
  BY <1>3, <1>4, StepIsOne, PathOne
<1>6. <<Step("clear")>> \in Seq(Steps) /\ <<Step("wait")>> \in Seq(Steps)
  BY StepIsOne
<1>7. Path(<<Step("clear")>> \o <<Step("wait")>>, q, q2)
  BY <1>5, <1>6, PathThen
<1>8. ClearPool = <<Step("clear")>> \o <<Step("wait")>>
  BY DEF ClearPool
<1> QED
  BY <1>2, <1>6, <1>7, <1>8

\* ensure_network_replicated() needs all of it, and changes nothing.
LEMMA Ensures ==
  ASSUME NEW q \in Label, q.inst = "full", q.pool = "ready", NEW n \in 0 .. MaxThreads, n <= q.made
  PROVE  Path(Each("ensure", n), q, q)
<1> DEFINE s == Each("ensure", n)
           f == [i \in 0 .. n |-> q]
<1>1. Len(s) = n /\ \A i \in 1 .. n : s[i].op = "ensure" /\ s[i].worker = i
  BY EachSteps
<1>2. f \in [0 .. n -> Label] /\ \A i \in 0 .. n : f[i] = q
  OBVIOUS
<1>3. n \in Nat
  BY ReplicationAssumption
<1> HIDE DEF s, f
<1>4. ASSUME NEW i \in 1 .. n
      PROVE  Ok(s[i], f[i - 1], f[i])
  <2>1. i - 1 \in 0 .. n /\ i \in 0 .. n
    BY <1>3
  <2>2. i \in 1 .. q.made
    <3>1. q.made \in Nat
      BY DEF Label
    <3> QED
      BY <3>1, <1>3
  <2>3. Ok(s[i], q, q)
    BY <2>2, <1>1 DEF Ok
  <2> QED
    BY <2>1, <2>3, <1>2
<1>5. f[0] = q /\ f[n] = q
  BY <1>2, <1>3
<1>6. Path(s, q, q)
  BY <1>1, <1>2, <1>4, <1>5 DEF Path
<1> QED
  BY <1>6 DEF s

\* The loop of ThreadPool::set() makes as many threads as are asked for.
LEMMA Creates ==
  ASSUME NEW q \in Label, q.inst = "full", q.pool = "making", q.made = 0, NEW n \in 1 .. MaxThreads, n = q.threads
  PROVE  Path(Each("create", n), q, [q EXCEPT !.made = n])
<1> DEFINE s == Each("create", n)
           f == [i \in 0 .. n |-> [q EXCEPT !.made = i]]
<1>1. Len(s) = n /\ \A i \in 1 .. n : s[i].op = "create" /\ s[i].worker = i
  <2>1. n \in 0 .. MaxThreads
    BY ReplicationAssumption
  <2> QED
    BY <2>1, EachSteps
<1>2. n \in Nat /\ \A i \in 0 .. n : i \in Nat
  BY ReplicationAssumption
<1>3. f \in [0 .. n -> Label]
  <2>1. \A i \in 0 .. n : [q EXCEPT !.made = i] \in Label
    BY <1>2 DEF Label
  <2> QED
    BY <2>1
<1>4. \A i \in 0 .. n : /\ f[i] = [q EXCEPT !.made = i] /\ f[i].made = i /\ f[i].inst = "full"
                        /\ f[i].pool = "making" /\ f[i].threads = n /\ f[i] \in Label
  BY <1>3 DEF Label
<1>5. \A i \in 0 .. n, j \in 0 .. n : f[j] = [f[i] EXCEPT !.made = j]
  BY <1>4 DEF Label
<1>6. f[0] = q
  <2>1. 0 \in 0 .. n /\ q = [q EXCEPT !.made = 0]
    BY <1>2 DEF Label
  <2> QED
    BY <2>1
<1> HIDE DEF s, f
<1>7. ASSUME NEW i \in 1 .. n
      PROVE  Ok(s[i], f[i - 1], f[i])
  <2>1. i - 1 \in 0 .. n /\ i \in 0 .. n /\ (i - 1) + 1 = i /\ i <= n
    BY <1>2
  <2>2. s[i].op = "create" /\ s[i].worker = f[i - 1].made + 1 /\ s[i].worker <= f[i - 1].threads
    BY <2>1, <1>1, <1>4
  <2>3. f[i] = [f[i - 1] EXCEPT !.made = f[i - 1].made + 1]
    <3>1. f[i - 1].made + 1 = i
      BY <2>1, <1>4
    <3>2. f[i] = [f[i - 1] EXCEPT !.made = i]
      BY <2>1, <1>5
    <3> QED
      BY <3>1, <3>2
  <2>4. /\ f[i - 1] \in Label /\ f[i] \in Label
        /\ f[i - 1].inst = "full" /\ f[i - 1].pool = "making"
    BY <2>1, <1>4
  <2> QED
    BY <2>2, <2>3, <2>4 DEF Ok
<1>8. f[n] = [q EXCEPT !.made = n]
  <2>1. n \in 0 .. n
    BY <1>2
  <2> QED
    BY <2>1, <1>4
<1>9. Path(s, q, [q EXCEPT !.made = n])
  BY <1>1, <1>3, <1>6, <1>7, <1>8 DEF Path
<1> QED
  BY <1>9 DEF s

\* resize_threads() makes a pool that is ready, of as many threads as the option says.
LEMMA Resizes ==
  ASSUME NEW q \in Label, q.inst = "full", q.pool \in {"busy", "ready", "stale"}, NEW n \in 1 .. MaxThreads,
         n = q.threads
  PROVE  /\ ResizeThreads(n) \in Seq(Steps)
         /\ Path(ResizeThreads(n), q, [q EXCEPT !.pool = "ready", !.made = n])
<1> DEFINE q1 == [q EXCEPT !.pool = IF q.pool = "stale" THEN "stale" ELSE "ready"]
           q2 == [q1 EXCEPT !.pool = "making", !.made = 0]
           q3 == [q2 EXCEPT !.made = n]
           q4 == [q3 EXCEPT !.pool = "ready"]
<1>0. n \in Nat /\ n \in 0 .. MaxThreads
  BY ReplicationAssumption
<1>1. q1 \in Label /\ q2 \in Label /\ q3 \in Label /\ q4 \in Label
  BY <1>0 DEF Label
<1>2. /\ q1.inst = "full" /\ q1.pool \in {"ready", "stale"}
      /\ q2.inst = "full" /\ q2.pool = "making" /\ q2.made = 0 /\ q2.threads = n
      /\ q3.inst = "full" /\ q3.pool = "making" /\ q3.made = n /\ q3.threads = n
      /\ q4.inst = "full" /\ q4.pool = "ready" /\ q4.made = n
  BY DEF Label
<1>3. q4 = [q EXCEPT !.pool = "ready", !.made = n]
  BY DEF Label
<1>4. /\ <<Step("wait")>> \in Seq(Steps) /\ <<Step("destroy")>> \in Seq(Steps)
      /\ Each("create", n) \in Seq(Steps) /\ Each("ensure", n) \in Seq(Steps)
  BY <1>0, StepIsOne, EachSteps
<1> HIDE DEF q1, q2, q3, q4
<1>5. Path(<<Step("wait")>>, q, q1)
  <2>1. Ok(Step("wait"), q, q1)
    BY <1>1, StepIsOne DEF Ok, q1
  <2> QED
    BY <2>1, StepIsOne, PathOne
<1>6. Path(<<Step("destroy")>>, q1, q2)
  <2>1. Ok(Step("destroy"), q1, q2)
    BY <1>1, <1>2, StepIsOne DEF Ok, q2
  <2> QED
    BY <2>1, StepIsOne, PathOne
<1>7. Path(Each("create", n), q2, q3)
  BY <1>1, <1>2, Creates DEF q3
<1>8. ClearPool \in Seq(Steps) /\ Path(ClearPool, q3, q4)
  BY <1>1, <1>2, ClearsPool DEF q4
<1>9. Path(Each("ensure", n), q4, q4)
  BY <1>0, <1>1, <1>2, Ensures
<1> DEFINE a == <<Step("wait")>>
           b == <<Step("destroy")>>
           c == Each("create", n)
           d == ClearPool
           e == Each("ensure", n)
<1>10. ResizeThreads(n) = (((a \o b) \o c) \o d) \o e
  <2>1. <<Step("wait"), Step("destroy")>> = a \o b
    OBVIOUS
  <2> QED
    BY <2>1 DEF ResizeThreads
<1> HIDE DEF a, b, c, d, e
<1>11. a \in Seq(Steps) /\ b \in Seq(Steps) /\ c \in Seq(Steps) /\ d \in Seq(Steps) /\ e \in Seq(Steps)
  BY <1>4, <1>8 DEF a, b, c, d, e
<1>12. Path(a, q, q1) /\ Path(b, q1, q2) /\ Path(c, q2, q3) /\ Path(d, q3, q4) /\ Path(e, q4, q4)
  BY <1>5, <1>6, <1>7, <1>8, <1>9 DEF a, b, c, d, e
<1>16. (((a \o b) \o c) \o d) \o e \in Seq(Steps) /\ Path((((a \o b) \o c) \o d) \o e, q, q4)
  BY <1>11, <1>12, PathThen5
<1> QED
  BY <1>3, <1>10, <1>16

\* setoption: the value is taken when the pool is ready.
LEMMA SetsOption ==
  ASSUME NEW q \in Label, Rests(q), NEW p \in Policies, NEW n \in 1 .. MaxThreads
  PROVE  /\ SetOption(p, n) \in Seq(Steps)
         /\ Path(SetOption(p, n), q, [q EXCEPT !.pool = "ready", !.threads = n, !.policy = p])
<1> DEFINE q1 == [q EXCEPT !.pool = "ready"]
           q2 == [q1 EXCEPT !.threads = n, !.policy = p]
           set == [op |-> "set", policy |-> p, threads |-> n]
           a == <<Step("wait")>>
           b == <<set>>
<1>1. q1 \in Label /\ q2 \in Label /\ q1.inst = "full" /\ q1.pool = "ready"
  BY DEF Label, Rests
<1>2. q2 = [q EXCEPT !.pool = "ready", !.threads = n, !.policy = p]
  BY DEF Label
<1>3. q1 = [q EXCEPT !.pool = IF q.pool = "stale" THEN "stale" ELSE "ready"]
  BY DEF Rests
<1>4. set \in Steps /\ set.op = "set" /\ set.threads = n /\ set.policy = p
  BY DEF Steps
<1> HIDE DEF set, q1, q2
<1>5. Ok(Step("wait"), q, q1)
  BY <1>1, <1>3, StepIsOne DEF Ok, Rests
<1>6. Ok(set, q1, q2)
  BY <1>1, <1>4 DEF Ok, q2
<1>7. Path(a, q, q1) /\ Path(b, q1, q2)
  BY <1>4, <1>5, <1>6, StepIsOne, PathOne
<1>8. a \in Seq(Steps) /\ b \in Seq(Steps)
  BY <1>4, StepIsOne
<1>9. SetOption(p, n) = a \o b
  BY DEF SetOption, set
<1> HIDE DEF a, b
<1>10. a \o b \in Seq(Steps) /\ Path(a \o b, q, q2)
  BY <1>7, <1>8, PathThen
<1> QED
  BY <1>2, <1>9, <1>10

Leads(s, q) == s \in Seq(Steps) /\ \E r \in Label : Path(s, q, r) /\ Rests(r)

\* Every command leads from a pool at rest to a pool at rest.
LEMMA ThreadsLeads ==
  ASSUME NEW q \in Label, Rests(q), policy \in Policies, NEW n \in 1 .. MaxThreads
  PROVE  Leads(Threads(n), q)
<1> DEFINE q1 == [q EXCEPT !.pool = "ready", !.threads = n, !.policy = policy]
           q2 == [q1 EXCEPT !.pool = "ready", !.made = n]
           a == SetOption(policy, n)
           b == ResizeThreads(n)
<1>1. /\ q1 \in Label /\ q1.inst = "full" /\ q1.pool = "ready" /\ q1.threads = n
      /\ q2 \in Label /\ q2.inst = "full" /\ q2.pool = "ready"
  <2>1. n \in Nat
    BY ReplicationAssumption
  <2> QED
    BY <2>1 DEF Label, Rests
<1>2. a \in Seq(Steps) /\ Path(a, q, q1)
  BY SetsOption
<1> HIDE DEF q1
<1>3. b \in Seq(Steps) /\ Path(b, q1, q2)
  BY <1>1, Resizes
<1>4. Threads(n) = a \o b
  BY DEF Threads
<1> HIDE DEF a, b, q2
<1>5. a \o b \in Seq(Steps) /\ Path(a \o b, q, q2)
  BY <1>2, <1>3, PathThen
<1> QED
  BY <1>1, <1>4, <1>5 DEF Leads, Rests

LEMMA NumaPolicyLeads ==
  ASSUME NEW q \in Label, Rests(q), threads \in 1 .. MaxThreads, NEW p \in Policies
  PROVE  Leads(NumaPolicy(p), q)
<1> DEFINE q1 == [q EXCEPT !.pool = "ready", !.threads = threads, !.policy = p]
           q2 == [q1 EXCEPT !.inst = "moved", !.pool = "stale"]
           q3 == [q2 EXCEPT !.inst = "full", !.pool = IF Absent = Absent THEN q2.pool ELSE "old"]
           q4 == [q3 EXCEPT !.pool = "ready", !.made = threads]
           a == SetOption(p, threads)
           b == <<Step("config")>>
           c == Replicate(Absent)
           d == ResizeThreads(threads)
           e == Each("ensure", threads)
<1>0. threads \in Nat /\ threads \in 0 .. MaxThreads
  BY ReplicationAssumption
<1>1. q1 \in Label /\ q2 \in Label /\ q3 \in Label /\ q4 \in Label
  BY <1>0 DEF Label
<1>2. /\ q1.inst = "full" /\ q1.pool = "ready" /\ q1.policy = p
      /\ q2.inst = "moved" /\ q2.pool = "stale"
      /\ q3.inst = "full" /\ q3.pool = "stale" /\ q3.threads = threads
      /\ q4.inst = "full" /\ q4.pool = "ready" /\ q4.made = threads
  BY DEF Label, Rests
<1>3. a \in Seq(Steps) /\ Path(a, q, q1)
  BY SetsOption
<1> HIDE DEF q1, a
<1>4. CASE ~Accepted(p)
  <2>1. NumaPolicy(p) = a \o <<>>
    BY <1>4 DEF NumaPolicy, a
  <2>2. a \o <<>> = a
    BY <1>3
  <2> QED
    BY <1>1, <1>2, <1>3, <2>1, <2>2 DEF Leads, Rests
<1>5. CASE Accepted(p)
  <2>1. Path(b, q1, q2)
    <3>1. Ok(Step("config"), q1, q2)
      BY <1>1, <1>2, <1>5, StepIsOne DEF Ok
    <3> HIDE DEF q2
    <3> QED
      BY <3>1, StepIsOne, PathOne
  <2> HIDE DEF q2
  <2>2. c \in Seq(Steps) /\ Path(c, q2, q3)
    BY <1>1, <1>2, Replicates
  <2> HIDE DEF q3
  <2>3. d \in Seq(Steps) /\ Path(d, q3, q4)
    BY <1>1, <1>2, Resizes
  <2> HIDE DEF q4
  <2>4. Path(e, q4, q4)
    BY <1>0, <1>1, <1>2, Ensures
  <2>5. b \in Seq(Steps) /\ e \in Seq(Steps)
    BY <1>0, StepIsOne, EachSteps
  <2>6. NumaPolicy(p) = a \o (((b \o c) \o d) \o e)
    BY <1>5 DEF NumaPolicy, a
  <2> HIDE DEF b, c, d, e
  <2>9. ((b \o c) \o d) \o e \in Seq(Steps) /\ Path(((b \o c) \o d) \o e, q1, q4)
    BY <2>1, <2>2, <2>3, <2>4, <2>5, PathThen4
  <2> DEFINE w == ((b \o c) \o d) \o e
  <2> HIDE DEF w
  <2>10. w \in Seq(Steps) /\ Path(w, q1, q4) /\ NumaPolicy(p) = a \o w
    BY <2>6, <2>9 DEF w
  <2>11. a \o w \in Seq(Steps) /\ Path(a \o w, q, q4)
    BY <1>3, <2>10, PathThen
  <2> QED
    BY <1>1, <1>2, <2>10, <2>11 DEF Leads, Rests
<1> QED
  BY <1>4, <1>5

LEMMA EvalFileLeads ==
  ASSUME NEW q \in Label, Rests(q), workers \in Seq(Worker), Len(workers) <= MaxThreads,
         q.made = Len(workers), NEW s \in Nets
  PROVE  Leads(EvalFile(s), q)
<1> DEFINE n == Len(workers)
           q1 == [q EXCEPT !.pool = "ready"]
           q2 == [q1 EXCEPT !.inst = "full", !.pool = IF s = Absent THEN q1.pool ELSE "old"]
           q3 == [q2 EXCEPT !.pool = "ready"]
           a == <<Step("wait")>>
           b == Replicate(s)
           c == ClearPool
           d == Each("ensure", n)
<1>0. n \in Nat /\ n \in 0 .. MaxThreads /\ s # Absent
  BY ReplicationAssumption, NetsAssumption
<1> HIDE DEF n
<1>1. q1 \in Label /\ q2 \in Label /\ q3 \in Label
  BY <1>0 DEF Label
<1>2. /\ q1.inst = "full" /\ q1.pool = "ready"
      /\ q2.inst = "full" /\ q2.pool = "old"
      /\ q3.inst = "full" /\ q3.pool = "ready" /\ q3.made = n
  BY <1>0 DEF Label, Rests, n
<1>3. Path(a, q, q1)
  <2>1. q1 = [q EXCEPT !.pool = IF q.pool = "stale" THEN "stale" ELSE "ready"]
    BY DEF Rests
  <2> HIDE DEF q1
  <2>2. Ok(Step("wait"), q, q1)
    BY <1>1, <2>1, StepIsOne DEF Ok, Rests
  <2> QED
    BY <2>2, StepIsOne, PathOne
<1> HIDE DEF q1
<1>4. b \in Seq(Steps) /\ Path(b, q1, q2)
  BY <1>1, <1>2, Replicates
<1> HIDE DEF q2
<1>5. c \in Seq(Steps) /\ Path(c, q2, q3)
  BY <1>1, <1>2, ClearsPool
<1> HIDE DEF q3
<1>6. Path(d, q3, q3)
  <2>1. n <= q3.made
    BY <1>0, <1>2
  <2> QED
    BY <1>0, <1>1, <1>2, <2>1, Ensures
<1>7. a \in Seq(Steps) /\ d \in Seq(Steps)
  BY <1>0, StepIsOne, EachSteps
<1>8. EvalFile(s) = ((a \o b) \o c) \o d
  BY DEF EvalFile, n
<1> HIDE DEF a, b, c, d
<1>11. ((a \o b) \o c) \o d \in Seq(Steps) /\ Path(((a \o b) \o c) \o d, q, q3)
  BY <1>3, <1>4, <1>5, <1>6, <1>7, PathThen4
<1> QED
  BY <1>1, <1>2, <1>8, <1>11 DEF Leads, Rests

LEMMA ExportNetLeads ==
  ASSUME NEW q \in Label, q.inst = "full", q.pool = "ready"
  PROVE  Leads(ExportNet, q)
<1> DEFINE q1 == [q EXCEPT !.inst = "full", !.pool = IF Absent = Absent THEN q.pool ELSE "old"]
<1>1. q1 \in Label /\ q1.inst = "full" /\ q1.pool = "ready"
  BY DEF Label
<1>2. Replicate(Absent) \in Seq(Steps) /\ Path(Replicate(Absent), q, q1)
  BY Replicates
<1> HIDE DEF q1
<1> QED
  BY <1>1, <1>2 DEF ExportNet, Leads, Rests

LEMMA GoLeads ==
  ASSUME NEW q \in Label, Rests(q)
  PROVE  Leads(Go, q)
<1> DEFINE q1 == [q EXCEPT !.pool = "ready"]
           q2 == [q1 EXCEPT !.pool = "busy"]
           a == <<Step("wait")>>
           b == <<Step("go")>>
<1>1. /\ q1 \in Label /\ q1.inst = "full" /\ q1.pool = "ready"
      /\ q2 \in Label /\ q2.inst = "full" /\ q2.pool = "busy"
  BY DEF Label, Rests
<1>2. q1 = [q EXCEPT !.pool = IF q.pool = "stale" THEN "stale" ELSE "ready"]
  BY DEF Rests
<1> HIDE DEF q1
<1>3. Ok(Step("wait"), q, q1)
  BY <1>1, <1>2, StepIsOne DEF Ok, Rests
<1>4. Ok(Step("go"), q1, q2)
  BY <1>1, StepIsOne DEF Ok
<1> HIDE DEF q2
<1>5. Path(a, q, q1) /\ Path(b, q1, q2) /\ a \in Seq(Steps) /\ b \in Seq(Steps)
  BY <1>3, <1>4, StepIsOne, PathOne
<1>6. Go = a \o b
  BY DEF Go
<1> HIDE DEF a, b
<1>7. a \o b \in Seq(Steps) /\ Path(a \o b, q, q2)
  BY <1>5, PathThen
<1> QED
  BY <1>1, <1>6, <1>7 DEF Leads, Rests

\* The constructor of Engine makes the first instance and a pool of one.
LEMMA FirstLeads ==
  ASSUME NEW q \in Label, q.inst = "empty", q.pool = "stale", q.threads = 1
  PROVE  Leads(<<Step("first"), Step("resize")>> \o ResizeThreads(1), q)
<1> DEFINE q1 == [q EXCEPT !.inst = "one"]
           q2 == [q1 EXCEPT !.inst = "full"]
           q3 == [q2 EXCEPT !.pool = "ready", !.made = 1]
           a == <<Step("first")>>
           b == <<Step("resize")>>
           c == ResizeThreads(1)
<1>1. /\ q1 \in Label /\ q1.inst = "one"
      /\ q2 \in Label /\ q2.inst = "full" /\ q2.pool = "stale" /\ q2.threads = 1
      /\ q3 \in Label /\ q3.inst = "full" /\ q3.pool = "ready"
  BY DEF Label
<1>2. Ok(Step("first"), q, q1)
  BY <1>1, StepIsOne DEF Ok
<1> HIDE DEF q1
<1>3. Ok(Step("resize"), q1, q2)
  BY <1>1, StepIsOne DEF Ok
<1> HIDE DEF q2
<1>4. 1 \in 1 .. MaxThreads
  BY ReplicationAssumption
<1>5. c \in Seq(Steps) /\ Path(c, q2, q3)
  BY <1>1, <1>4, Resizes
<1> HIDE DEF q3
<1>6. Path(a, q, q1) /\ Path(b, q1, q2) /\ a \in Seq(Steps) /\ b \in Seq(Steps)
  BY <1>2, <1>3, StepIsOne, PathOne
<1>7. <<Step("first"), Step("resize")>> = a \o b
  OBVIOUS
<1> HIDE DEF a, b, c
<1>9. (a \o b) \o c \in Seq(Steps) /\ Path((a \o b) \o c, q, q3)
  BY <1>5, <1>6, PathThen3
<1>10. (a \o b) \o c = <<Step("first"), Step("resize")>> \o ResizeThreads(1)
  BY <1>7 DEF c
<1>11. Leads((a \o b) \o c, q)
  BY <1>1, <1>9 DEF Leads, Rests
<1> QED
  BY <1>10, <1>11

-----------------------------------------------------------------------------
(* The inductive invariant.                                                  *)

\* The label of now, the next one and the last one.
Labelled(q, r) == q \in Label /\ r \in Label /\ StateFits(q) /\ Path(todo, q, r) /\ Rests(r)

\* What the next step takes the label to.
LEMMA NextLabel ==
  ASSUME Types, NEW q, NEW r, Labelled(q, r), todo # <<>>
  PROVE  \E s \in Label : Ok(Head(todo), q, s) /\ Path(Tail(todo), s, r)
  BY PathHead DEF Types, Labelled

\* At the end of a command the pool is at rest.
LEMMA LastLabel ==
  ASSUME NEW q, NEW r, Labelled(q, r), todo = <<>>
  PROVE  r = q /\ Rests(q)
  BY PathNone DEF Labelled

\* While the threads are waited for, nobody accesses a copy.
LEMMA NoAccess ==
  ASSUME Types, AccessNeeded, Parked, todo # <<>> => Head(todo).op # "ensure"
  PROVE  \A a \in Accessor : access[a].at = "none"
<1>1. access[Uci].at = "none"
  BY DEF AccessNeeded
<1>2. \A a \in 1 .. MaxThreads : access[a].at = "none"
  BY DEF AccessNeeded, Parked
<1>3. \A a \in Accessor : a = Uci \/ a \in 1 .. MaxThreads
  BY ReplicationAssumption DEF Accessor, Uci
<1> QED
  BY <1>1, <1>2, <1>3

\* The nodes of the threads are those of the copies.
LEMMA TokensInRange ==
  ASSUME Types, WorkersFit, NEW q, StateFits(q), q.inst = "full", q.pool # "stale", NEW i \in DOMAIN workers
  PROVE  workers[i].token \in DOMAIN instances
<1>1. workers[i].token = NodeOf(i) /\ NodeOf(i) \in DOMAIN histories
  BY DEF WorkersFit
<1>2. DOMAIN instances = IF RequiresReplication(cfg) THEN DOMAIN cfg.nodes ELSE {1}
  BY DEF StateFits, CopiesFit
<1>3. PICK l \in Nat : l > 0 /\ Len(cfg.nodes) = l /\ DOMAIN cfg.nodes = 1 .. l
  <2>1. cfg.nodes \in Seq(SUBSET Nat) /\ cfg.nodes # <<>>
    BY DEF Types, Fits, AreNodes
  <2> QED
    BY <2>1
<1>4. l > 1 => RequiresReplication(cfg)
  BY <1>3 DEF RequiresReplication
<1>5. NodeOf(i) \in DOMAIN cfg.nodes
  <2>1. CASE bound = <<>>
    BY <2>1, <1>3 DEF NodeOf
  <2>2. CASE bound # <<>>
    <3>1. i \in DOMAIN bound
      <4>1. workers \in Seq(Worker) /\ bound \in Seq(Nat \ {0})
        BY DEF Types
      <4>2. q.made = Len(workers) /\ q.made \in Nat /\ q.made > 0
        BY <4>1 DEF StateFits, PoolFits
      <4>3. Len(workers) <= Len(bound)
        <5>1. CASE q.pool = "making"
          <6>1. Shares(threads) /\ q.made <= threads
            BY <5>1 DEF StateFits, PoolFits
          <6> QED
            BY <6>1, <4>2, <2>2 DEF Shares
        <5>2. CASE q.pool # "making"
          <6>1. Shares(q.made)
            BY <5>2, <4>2 DEF StateFits, PoolFits
          <6> QED
            BY <6>1, <4>1, <4>2, <2>2 DEF Shares
        <5> QED
          BY <5>1, <5>2
      <4> QED
        BY <4>1, <4>3
    <3>2. \A j \in DOMAIN bound : bound[j] \in DOMAIN cfg.nodes
      BY DEF StateFits, PoolFits
    <3> QED
      BY <3>1, <3>2, <2>2 DEF NodeOf
  <2> QED
    BY <2>1, <2>2
<1>6. CASE RequiresReplication(cfg)
  BY <1>1, <1>2, <1>5, <1>6
<1>7. CASE ~RequiresReplication(cfg)
  <2>1. l = 1
    BY <1>3, <1>4, <1>7
  <2>2. NodeOf(i) = 1
    BY <2>1, <1>3, <1>5
  <2> QED
    BY <2>2, <1>1, <1>2, <1>7
<1> QED
  BY <1>6, <1>7

\* Whoever accesses a copy finds one for its node, which may be absent.
LEMMA AccessInRange ==
  ASSUME Types, WorkersFit, AccessNeeded, NEW q, NEW r, Labelled(q, r),
         NEW a \in Accessor, access[a].at # "none"
  PROVE  /\ q.inst = "full"
         /\ access[a].node \in DOMAIN instances
         /\ instances[access[a].node] \in {net, Absent}
         /\ instances[1] = net
<1>1. q.inst = "full" /\ access[a].node \in DOMAIN instances
  <2>1. CASE a = Uci
    <3>1. todo # <<>> /\ Head(todo).op = "ensure" /\ access[Uci].node = workers[Head(todo).worker].token
      BY <2>1 DEF AccessNeeded
    <3>2. PICK s \in Label : Ok(Head(todo), q, s)
      BY <3>1, NextLabel
    <3>3. q.inst = "full" /\ q.pool = "ready" /\ Head(todo).worker \in 1 .. q.made
      BY <3>1, <3>2 DEF Ok
    <3>4. StateFits(q) /\ Head(todo).worker \in DOMAIN workers
      BY <3>3 DEF Labelled, StateFits, PoolFits, Types
    <3> QED
      BY <2>1, <3>1, <3>3, <3>4, TokensInRange
  <2>2. CASE a # Uci
    <3>0. a \in 1 .. MaxThreads
      BY <2>2, ReplicationAssumption DEF Accessor, Uci
    <3>1. a \in DOMAIN workers /\ workers[a].phase # "parked" /\ access[a].node = workers[a].token
      BY <3>0 DEF AccessNeeded
    <3>2. ~Parked
      BY <3>1 DEF Parked
    <3>3. StateFits(q) /\ q.pool \notin {"ready", "old", "stale"}
      BY <3>2 DEF Labelled, StateFits, PoolFits
    <3>4. q.inst = "full"
      BY <3>3 DEF StateFits, PoolFits
    <3> QED
      BY <3>1, <3>3, <3>4, TokensInRange
  <2> QED
    BY <2>1, <2>2
<1> QED
  BY <1>1 DEF Labelled, StateFits, CopiesFit

\* An access that goes on needs the copy as it did.
LEMMA StillNeeded ==
  ASSUME AccessNeeded, UNCHANGED <<workers, todo>>,
         \A b \in Accessor : access'[b].node = access[b].node /\ (access'[b].at = "none" <=> access[b].at = "none")
  PROVE  AccessNeeded'
<1>1. \A b \in 1 .. MaxThreads : b \in Accessor
  BY ReplicationAssumption DEF Accessor
<1>2. Uci \in Accessor
  BY ReplicationAssumption DEF Accessor, Uci
<1> QED
  BY <1>1, <1>2 DEF AccessNeeded

\* A step that changes neither the pool nor the copies keeps the labels.
LEMMA SameLabel ==
  ASSUME NEW q, NEW r, Labelled(q, r),
         UNCHANGED <<cfg, policy, threads, net, instances, source, bound, histories, workers, todo>>
  PROVE  Labelled(q, r)'
<1>1. StateFits(q)'
  BY DEF Labelled, StateFits, CopiesFit, PoolFits, Shares, Parked
<1> QED
  BY <1>1 DEF Labelled

\* The workers keep their nodes and their indices.
LEMMA SameWorkers ==
  ASSUME WorkersFit, UNCHANGED <<bound, histories, workers>>
  PROVE  WorkersFit'
  BY DEF WorkersFit, NodeOf, NumaThreadIndex

\* The invariant, put together again.
LEMMA InvFrom ==
  ASSUME Types', WorkersFit', AccessFits', AccessNeeded', NEW q, NEW r, Labelled(q, r)'
  PROVE  Inv'
  BY DEF Inv, Labelled

-----------------------------------------------------------------------------
(* The steps of operator[].                                                  *)

\* What the invariant says of one access.
AccessIsFit(a) ==
  /\ access[a].live
  /\ access[a].at \in {"recheck", "build", "assign"} <=> mutex = a
  /\ access[a].at \in {"build", "assign"} => instances[access[a].node] = Absent
  /\ access[a].at \in {"deref", "use"} => instances[access[a].node] = net
  /\ access[a].at \in {"assign", "use"} => access[a].net = net

\* A step of thread a that writes neither the copies nor the pool.
LEMMA AccessGoesOn ==
  ASSUME Inv, NEW a \in Accessor, access[a].at # "none",
         UNCHANGED <<machine, cfg, policy, threads, net, instances, source, bound, histories, workers,
                     todo, terminated>>,
         mutex' \in Accessor \cup {Nobody},
         \/ mutex' = mutex
         \/ mutex = Nobody /\ mutex' = a
         \/ mutex = a /\ mutex' = Nobody,
         NEW new \in Access, access' = [access EXCEPT ![a] = new],
         new.node = access[a].node, new.at # "none", AccessIsFit(a)'
  PROVE  Inv'
<1>1. PICK q, r : Labelled(q, r)
  BY DEF Inv, Labelled
<1>2. access \in [Accessor -> Access] /\ access'[a] = new /\ \A b \in Accessor \ {a} : access'[b] = access[b]
  BY DEF Inv, Types
<1>3. Types'
  <2>1. access' \in [Accessor -> Access]
    BY <1>2
  <2> QED
    BY <2>1 DEF Inv, Types
<1>4. AccessFits'
  <2> SUFFICES ASSUME NEW b \in Accessor
               PROVE  AccessIsFit(b)'
    BY DEF AccessFits, AccessIsFit
  <2>1. CASE b = a
    BY <2>1
  <2>2. CASE b # a
    <3>1. access'[b] = access[b]
      BY <2>2, <1>2
    <3>2. mutex' = b <=> mutex = b
      BY <2>2, ReplicationAssumption DEF Nobody, Accessor
    <3>3. AccessIsFit(b)
      BY DEF Inv, AccessFits, AccessIsFit
    <3> QED
      BY <3>1, <3>2, <3>3 DEF AccessIsFit
  <2> QED
    BY <2>1, <2>2
<1>5. AccessNeeded'
  <2>1. \A b \in Accessor : access'[b].node = access[b].node /\ (access'[b].at = "none" <=> access[b].at = "none")
    BY <1>2
  <2> QED
    BY <2>1, StillNeeded DEF Inv
<1>6. WorkersFit'
  BY SameWorkers DEF Inv
<1>7. Labelled(q, r)'
  BY <1>1, SameLabel
<1> QED
  BY <1>3, <1>4, <1>5, <1>6, <1>7, InvFrom

\* The steps of operator[] and ensure_present(), one by one.
LEMMA ChecksKeep ==
  ASSUME Inv, NEW a \in Accessor, Check(a)
  PROVE  Inv'
<1>1. PICK q, r : Labelled(q, r)
  BY DEF Inv, Labelled
<1> DEFINE to == IF Present(a) THEN "deref" ELSE "lock"
           new == [access[a] EXCEPT !.at = to]
<1>2. access[a] \in Access /\ access[a].at = "check" /\ mutex \in Accessor \cup {Nobody}
  BY DEF Inv, Types, Check
<1>3. new \in Access /\ new.at = to /\ new.node = access[a].node /\ new.net = access[a].net /\ new.live = access[a].live
  BY <1>2 DEF Access
<1>4. access' = [access EXCEPT ![a] = new]
  BY DEF Check, Goes, Inv, Types
<1>5. instances[access[a].node] \in {net, Absent}
  BY <1>1, <1>2, AccessInRange DEF Inv
<1>6. AccessIsFit(a)
  BY DEF Inv, AccessFits, AccessIsFit
<1> HIDE DEF new
<1>7. access'[a] = new
  BY <1>3, <1>4 DEF Inv, Types
<1>8. AccessIsFit(a)'
  <2>1. UNCHANGED <<instances, net, mutex>>
    BY DEF Check
  <2>2. mutex # a
    BY <1>2, <1>6 DEF AccessIsFit
  <2>3. to = "deref" => instances[access[a].node] = net
    BY <1>5 DEF Present
  <2> HIDE DEF to
  <2>4. to \in {"deref", "lock"}
    BY DEF to
  <2> QED
    BY <2>1, <2>2, <2>3, <2>4, <1>3, <1>6, <1>7 DEF AccessIsFit
<1> QED
  BY <1>2, <1>3, <1>4, <1>8, AccessGoesOn DEF Check

LEMMA LocksKeep ==
  ASSUME Inv, NEW a \in Accessor, Lock(a)
  PROVE  Inv'
<1> DEFINE new == [access[a] EXCEPT !.at = "recheck"]
<1>2. access[a] \in Access /\ access[a].at = "lock" /\ mutex = Nobody /\ mutex' = a
  BY DEF Inv, Types, Lock
<1>3. new \in Access /\ new.at = "recheck" /\ new.node = access[a].node /\ new.live = access[a].live
  BY <1>2 DEF Access
<1>4. access' = [access EXCEPT ![a] = new]
  BY DEF Lock, Goes, Inv, Types
<1>6. AccessIsFit(a)
  BY DEF Inv, AccessFits, AccessIsFit
<1> HIDE DEF new
<1>7. access'[a] = new
  BY <1>3, <1>4 DEF Inv, Types
<1>8. AccessIsFit(a)'
  BY <1>2, <1>3, <1>6, <1>7 DEF AccessIsFit
<1> QED
  BY <1>2, <1>3, <1>4, <1>8, AccessGoesOn DEF Lock

LEMMA RechecksKeep ==
  ASSUME Inv, NEW a \in Accessor, Recheck(a)
  PROVE  Inv'
<1>1. PICK q, r : Labelled(q, r)
  BY DEF Inv, Labelled
<1> DEFINE to == IF Present(a) THEN "deref" ELSE "build"
           new == [access[a] EXCEPT !.at = to]
<1>2. access[a] \in Access /\ access[a].at = "recheck" /\ mutex \in Accessor \cup {Nobody}
  BY DEF Inv, Types, Recheck
<1>3. new \in Access /\ new.at = to /\ new.node = access[a].node /\ new.net = access[a].net /\ new.live = access[a].live
  BY <1>2 DEF Access
<1>4. access' = [access EXCEPT ![a] = new]
  BY DEF Recheck, Goes, Inv, Types
<1>5. instances[access[a].node] \in {net, Absent}
  BY <1>1, <1>2, AccessInRange DEF Inv
<1>6. AccessIsFit(a)
  BY DEF Inv, AccessFits, AccessIsFit
<1>7. mutex = a
  BY <1>2, <1>6 DEF AccessIsFit
<1> HIDE DEF new
<1>8. access'[a] = new
  BY <1>3, <1>4 DEF Inv, Types
<1>9. AccessIsFit(a)'
  <2>1. UNCHANGED <<instances, net>>
    BY DEF Recheck
  <2>2. Nobody # a
    BY ReplicationAssumption DEF Nobody, Accessor
  <2>3. CASE Present(a)
    <3>1. to = "deref" /\ instances[access[a].node] = net /\ mutex' = Nobody
      BY <2>3, <1>5 DEF Present, Recheck
    <3> QED
      BY <3>1, <2>1, <2>2, <1>3, <1>6, <1>8 DEF AccessIsFit
  <2>4. CASE ~Present(a)
    <3>1. to = "build" /\ instances[access[a].node] = Absent /\ mutex' = a
      BY <2>4, <1>7 DEF Present, Recheck
    <3> QED
      BY <3>1, <2>1, <1>3, <1>6, <1>8 DEF AccessIsFit
  <2> QED
    BY <2>3, <2>4
<1>10. mutex' = mutex \/ mutex' = Nobody
  BY DEF Recheck
<1>11. to # "none"
  OBVIOUS
<1> HIDE DEF to
<1> QED
  BY <1>2, <1>3, <1>4, <1>7, <1>9, <1>10, <1>11, AccessGoesOn DEF Recheck

LEMMA BuildsKeep ==
  ASSUME Inv, NEW a \in Accessor, Build(a)
  PROVE  Inv'
<1>1. PICK q, r : Labelled(q, r)
  BY DEF Inv, Labelled
<1> DEFINE new == [access[a] EXCEPT !.at = "assign", !.net = instances[1]]
<1>2. access[a] \in Access /\ access[a].at = "build" /\ mutex \in Accessor \cup {Nobody} /\ net \in Nets
  BY DEF Inv, Types, Build
<1>3. instances[1] = net
  BY <1>1, <1>2, AccessInRange DEF Inv
<1>4. new \in Access /\ new.at = "assign" /\ new.node = access[a].node /\ new.net = net /\ new.live = access[a].live
  BY <1>2, <1>3 DEF Access
<1>5. access' = [access EXCEPT ![a] = new]
  BY DEF Build, Inv, Types
<1>6. AccessIsFit(a)
  BY DEF Inv, AccessFits, AccessIsFit
<1> HIDE DEF new
<1>7. access'[a] = new
  BY <1>5 DEF Inv, Types
<1>8. AccessIsFit(a)'
  <2>1. UNCHANGED <<instances, net, mutex>>
    BY DEF Build
  <2> QED
    BY <2>1, <1>2, <1>4, <1>6, <1>7 DEF AccessIsFit
<1> QED
  BY <1>2, <1>4, <1>5, <1>8, AccessGoesOn DEF Build

LEMMA DerefsKeep ==
  ASSUME Inv, NEW a \in Accessor, Deref(a)
  PROVE  Inv'
<1> DEFINE new == [access[a] EXCEPT !.at = "use", !.net = instances[access[a].node]]
<1>2. access[a] \in Access /\ access[a].at = "deref" /\ mutex \in Accessor \cup {Nobody} /\ net \in Nets
  BY DEF Inv, Types, Deref
<1>3. AccessIsFit(a)
  BY DEF Inv, AccessFits, AccessIsFit
<1>4. instances[access[a].node] = net
  BY <1>2, <1>3 DEF AccessIsFit
<1>5. new \in Access /\ new.at = "use" /\ new.node = access[a].node /\ new.net = net /\ new.live = access[a].live
  BY <1>2, <1>4 DEF Access
<1>6. access' = [access EXCEPT ![a] = new]
  BY DEF Deref, Inv, Types
<1> HIDE DEF new
<1>7. access'[a] = new
  BY <1>6 DEF Inv, Types
<1>8. AccessIsFit(a)'
  <2>1. UNCHANGED <<instances, net, mutex>>
    BY DEF Deref
  <2> QED
    BY <2>1, <1>2, <1>3, <1>4, <1>5, <1>7 DEF AccessIsFit
<1> QED
  BY <1>2, <1>5, <1>6, <1>8, AccessGoesOn DEF Deref

LEMMA TerminatingKeeps ==
  ASSUME Inv, NEW a \in Accessor, CheckDuringAssignment(a)
  PROVE  Inv'
<1>1. PICK q, r : Labelled(q, r)
  BY DEF Inv, Labelled
<1>2. UNCHANGED <<machine, cfg, policy, threads, net, instances, source, mutex, bound, histories,
                  workers, access, todo>> /\ terminated' = TRUE
  BY DEF CheckDuringAssignment
<1>3. Types' /\ AccessFits' /\ AccessNeeded'
  BY <1>2 DEF Inv, Types, AccessFits, AccessNeeded
<1>4. WorkersFit' /\ Labelled(q, r)'
  BY <1>1, <1>2, SameWorkers, SameLabel DEF Inv
<1> QED
  BY <1>3, <1>4, InvFrom

\* An assignment takes the copy from nobody: it is absent, so that nobody uses it.
LEMMA AssignsKeep ==
  ASSUME Inv, NEW a \in Accessor, Assign(a)
  PROVE  Inv'
<1> DEFINE node == access[a].node
<1>1. PICK q, r : Labelled(q, r)
  BY DEF Inv, Labelled
<1>2. /\ access \in [Accessor -> Access] /\ access[a].at = "assign"
      /\ instances \in Seq(Nets \cup {Absent}) /\ net \in Nets /\ net # Absent
  BY NetsAssumption DEF Inv, Types, Assign
<1>3. /\ AccessIsFit(a) /\ access[a].net = net /\ instances[node] = Absent /\ mutex = a
  BY <1>2 DEF Inv, AccessFits, AccessIsFit
<1>4. q.inst = "full" /\ node \in DOMAIN instances /\ instances[1] = net
  BY <1>1, <1>2, AccessInRange DEF Inv
<1>5. instances' = [instances EXCEPT ![node] = net]
  BY <1>3 DEF Assign
<1>6. UNCHANGED <<machine, cfg, policy, threads, net, source, bound, histories, workers, todo, terminated>>
      /\ mutex' = Nobody
  BY DEF Assign
<1> DEFINE other(b) == [access[b] EXCEPT !.live =
                          access[b].live /\ ~(access[b].at = "use" /\ access[b].node = node)]
<1>7. access' = [b \in Accessor |-> IF b = a THEN [access[a] EXCEPT !.at = "deref"] ELSE other(b)]
  BY DEF Assign
<1> HIDE DEF node
<1>8. /\ instances' \in Seq(Nets \cup {Absent}) /\ DOMAIN instances' = DOMAIN instances
      /\ instances'[node] = net /\ \A n \in DOMAIN instances : n # node => instances'[n] = instances[n]
  BY <1>2, <1>4, <1>5
<1>9. /\ access'[a] \in Access /\ access'[a].at = "deref" /\ access'[a].node = node
      /\ access'[a].live
  <2>1. access'[a] = [access[a] EXCEPT !.at = "deref"] /\ access[a] \in Access /\ access[a].live
    BY <1>2, <1>3, <1>7 DEF AccessIsFit
  <2> QED
    BY <2>1 DEF Access, node
<1>10. ASSUME NEW b \in Accessor, b # a
       PROVE  access'[b] = access[b] /\ AccessIsFit(b) /\ access[b] \in Access
                /\ access[b].at \notin {"recheck", "build", "assign"}
                /\ (access[b].at \in {"deref", "use"} => access[b].node # node)
  <2>1. access[b] \in Access /\ AccessIsFit(b)
    BY <1>2 DEF Inv, AccessFits, AccessIsFit
  <2>2. access[b].at \in {"deref", "use"} => access[b].node # node
    BY <2>1, <1>2, <1>3 DEF AccessIsFit, node
  <2>3. access[b].at \notin {"recheck", "build", "assign"}
    BY <2>1, <1>3, <1>10 DEF AccessIsFit
  <2>4. access[b].live = TRUE
    BY <2>1 DEF AccessIsFit, Access
  <2>5. (access[b].live /\ ~(access[b].at = "use" /\ access[b].node = node)) = TRUE
    BY <2>2, <2>4
  <2>6. access'[b] = [access[b] EXCEPT !.live = TRUE]
    BY <1>7, <1>10, <2>5
  <2>7. access'[b] = access[b]
    BY <2>1, <2>4, <2>6 DEF Access
  <2> QED
    BY <2>1, <2>2, <2>3, <2>7
<1>11. Types'
  <2>1. access' \in [Accessor -> Access]
    <3>1. access' = [b \in Accessor |-> access'[b]]
      BY <1>7
    <3>2. \A b \in Accessor : access'[b] \in Access
      BY <1>9, <1>10
    <3> QED
      BY <3>1, <3>2
  <2> QED
    BY <2>1, <1>6, <1>8 DEF Inv, Types
<1>12. AccessFits'
  <2> SUFFICES ASSUME NEW b \in Accessor
               PROVE  AccessIsFit(b)'
    BY DEF AccessFits, AccessIsFit
  <2>0. Nobody # b
    BY ReplicationAssumption DEF Nobody, Accessor
  <2>1. CASE b = a
    BY <2>0, <2>1, <1>6, <1>8, <1>9 DEF AccessIsFit
  <2>2. CASE b # a
    <3>1. /\ access'[b] = access[b] /\ AccessIsFit(b) /\ access[b] \in Access
          /\ access[b].at \notin {"recheck", "build", "assign"}
          /\ (access[b].at \in {"deref", "use"} => access[b].node # node)
      BY <2>2, <1>10
    <3>2. access[b].at \in {"deref", "use"} => access[b].node \in DOMAIN instances
      BY <1>1, AccessInRange DEF Inv
    <3>3. access[b].at \in {"deref", "use"} => instances'[access[b].node] = net
      BY <3>1, <3>2, <1>8 DEF AccessIsFit
    <3> QED
      BY <3>1, <3>3, <2>0, <1>6 DEF AccessIsFit
  <2> QED
    BY <2>1, <2>2
<1>13. AccessNeeded'
  <2>1. \A b \in Accessor : access'[b].node = access[b].node /\ (access'[b].at = "none" <=> access[b].at = "none")
    <3> TAKE b \in Accessor
    <3>1. CASE b = a
      BY <3>1, <1>2, <1>9 DEF node
    <3>2. CASE b # a
      BY <3>2, <1>10
    <3> QED
      BY <3>1, <3>2
  <2>2. AccessNeeded /\ UNCHANGED <<workers, todo>>
    BY <1>6 DEF Inv
  <2> QED
    BY <2>1, <2>2, StillNeeded
<1>14. WorkersFit'
  BY <1>6, SameWorkers DEF Inv
<1>15. Labelled(q, r)'
  <2>1. CopiesFit(q)'
    <3>1. CopiesFit(q) /\ q.inst = "full"
      BY <1>1, <1>4 DEF Labelled, StateFits
    <3>2. instances # <<>> /\ \A n \in DOMAIN instances : instances[n] \in {net, Absent}
      BY <3>1 DEF CopiesFit
    <3>3. instances' # <<>>
      BY <1>2, <1>4, <1>8
    <3>4. 1 \in DOMAIN instances
      BY <3>2, <1>2
    <3>5. instances'[1] = net
      BY <3>4, <1>4, <1>8
    <3>6. \A n \in DOMAIN instances' : instances'[n] \in {net', Absent}
      BY <3>2, <1>6, <1>8
    <3>7. DOMAIN instances' = (IF RequiresReplication(cfg) THEN DOMAIN cfg.nodes ELSE {1})
      BY <3>1, <1>8 DEF CopiesFit
    <3> QED
      BY <3>1, <3>3, <3>5, <3>6, <3>7, <1>6 DEF CopiesFit
  <2>2. PoolFits(q)'
    <3>1. PoolFits(q)
      BY <1>1 DEF Labelled, StateFits
    <3> QED
      BY <3>1, <1>6 DEF PoolFits, Shares, Parked
  <2> QED
    BY <2>1, <2>2, <1>1, <1>6 DEF Labelled, StateFits
<1> QED
  BY <1>11, <1>12, <1>13, <1>14, <1>15, InvFrom

\* An access that begins or ends holds nothing.
LEMMA OthersFit ==
  ASSUME Inv, NEW a \in Accessor, access[a].at \notin {"recheck", "build", "assign"},
         NEW new \in Access, access' = [access EXCEPT ![a] = new], new.at \in {"none", "check"}, new.live,
         UNCHANGED <<mutex, instances, net>>
  PROVE  access' \in [Accessor -> Access] /\ AccessFits'
<1>1. access \in [Accessor -> Access] /\ access'[a] = new /\ \A b \in Accessor \ {a} : access'[b] = access[b]
  BY DEF Inv, Types
<1>2. access' \in [Accessor -> Access]
  BY <1>1
<1>3. ASSUME NEW b \in Accessor
      PROVE  AccessIsFit(b)'
  <2>1. AccessIsFit(b)
    BY DEF Inv, AccessFits, AccessIsFit
  <2>2. CASE b = a
    BY <2>1, <2>2, <1>1 DEF AccessIsFit
  <2>3. CASE b # a
    BY <2>1, <2>3, <1>1 DEF AccessIsFit
  <2> QED
    BY <2>2, <2>3
<1>4. AccessFits'
  BY <1>3 DEF AccessFits, AccessIsFit
<1> QED
  BY <1>2, <1>4

\* Types of what a thread does in operator[].
LEMMA IdleIsAccess ==
  Idle \in Access /\ Idle.at = "none" /\ Idle.live
BY DEF Idle, Access

LEMMA ReadsIsAccess ==
  ASSUME NEW n \in Nat
  PROVE  Reads(n) \in Access /\ Reads(n).at = "check" /\ Reads(n).node = n /\ Reads(n).live
BY DEF Reads, Idle, Access

\* The workers keep what WorkersFit says of them when their phase or table changes.
LEMMA WorkersStayFit ==
  ASSUME Types, WorkersFit, NEW i \in DOMAIN workers,
         NEW new \in Worker, workers' = [workers EXCEPT ![i] = new],
         new.token = workers[i].token, new.index = workers[i].index, new.total = workers[i].total,
         UNCHANGED <<bound, histories>>
  PROVE  /\ workers' \in Seq(Worker) /\ Len(workers') = Len(workers) /\ DOMAIN workers' = DOMAIN workers
         /\ workers'[i] = new /\ \A j \in DOMAIN workers : j # i => workers'[j] = workers[j]
         /\ WorkersFit'
<1>1. /\ workers' \in Seq(Worker) /\ Len(workers') = Len(workers) /\ DOMAIN workers' = DOMAIN workers
      /\ workers'[i] = new /\ \A j \in DOMAIN workers : j # i => workers'[j] = workers[j]
  BY DEF Types
<1>2. \A j \in DOMAIN workers : /\ workers'[j].token = workers[j].token
                                /\ workers'[j].index = workers[j].index
                                /\ workers'[j].total = workers[j].total
  BY <1>1
<1>3. \A j \in DOMAIN workers : NodeOf(j)' = NodeOf(j) /\ NumaThreadIndex(j)' = NumaThreadIndex(j)
  BY DEF NodeOf, NumaThreadIndex
<1>4. WorkersFit'
  BY <1>1, <1>2, <1>3 DEF WorkersFit
<1> QED
  BY <1>1, <1>4

\* A worker that clears itself fills its table; one that searches goes on.
LEMMA WorkersUseKeeps ==
  ASSUME Inv, NEW a \in Accessor, a # Uci, Use(a)
  PROVE  Inv'
<1>1. PICK q, r : Labelled(q, r)
  BY DEF Inv, Labelled
<1>2. a \in 1 .. MaxThreads
  BY ReplicationAssumption DEF Accessor, Uci
<1>3. /\ access \in [Accessor -> Access] /\ access[a].at = "use" /\ access' = [access EXCEPT ![a] = Idle]
      /\ UNCHANGED <<machine, cfg, policy, threads, net, instances, source, mutex, bound, histories, todo,
                     terminated>>
  BY DEF Inv, Types, Use
<1>4. a \in DOMAIN workers /\ workers[a].phase # "parked" /\ access[a].net = net
  BY <1>2, <1>3 DEF Inv, AccessNeeded, AccessFits
<1>5. access' \in [Accessor -> Access] /\ AccessFits'
  BY <1>3, OthersFit, IdleIsAccess
<1>6. access'[a].at = "none" /\ \A b \in Accessor \ {a} : access'[b] = access[b]
  BY <1>3, IdleIsAccess
<1>7. workers \in Seq(Worker) /\ workers[a] \in Worker /\ net \in Nets
  BY <1>4 DEF Inv, Types
<1>8. CASE workers[a].phase = "clear"
  <2> DEFINE new == [workers[a] EXCEPT !.table = net, !.phase = "parked"]
  <2>1. workers' = [workers EXCEPT ![a] = new]
    BY <1>3, <1>4, <1>7, <1>8 DEF Use
  <2>2. new \in Worker /\ new.token = workers[a].token /\ new.index = workers[a].index
          /\ new.total = workers[a].total /\ new.phase = "parked" /\ new.table = net
    BY <1>7 DEF Worker
  <2> HIDE DEF new
  <2>3. /\ workers' \in Seq(Worker) /\ Len(workers') = Len(workers) /\ DOMAIN workers' = DOMAIN workers
        /\ workers'[a] = new /\ \A j \in DOMAIN workers : j # a => workers'[j] = workers[j]
        /\ WorkersFit'
    BY <2>1, <2>2, <1>3, <1>4, WorkersStayFit DEF Inv
  <2>4. Types'
    BY <2>3, <1>3, <1>5 DEF Inv, Types
  <2>5. AccessNeeded'
    <3>1. access[Uci].at = "none"
      <4>1. ASSUME access[Uci].at # "none"
            PROVE  FALSE
        <5>1. todo # <<>> /\ Head(todo).op = "ensure"
          BY <4>1 DEF Inv, AccessNeeded
        <5>2. PICK s \in Label : Ok(Head(todo), q, s)
          BY <5>1, <1>1, NextLabel DEF Inv
        <5>3. q.pool = "ready"
          BY <5>1, <5>2 DEF Ok
        <5>4. Parked
          BY <5>3, <1>1 DEF Labelled, StateFits, PoolFits
        <5> QED
          BY <5>4, <1>4 DEF Parked
      <4> QED
        BY <4>1
    <3>2. Uci \in Accessor \ {a}
      BY ReplicationAssumption DEF Accessor, Uci
    <3>3. access'[Uci].at = "none"
      BY <3>1, <3>2, <1>6
    <3>4. ASSUME NEW b \in 1 .. MaxThreads
          PROVE  /\ access'[b].at # "none" =>
                      /\ b \in DOMAIN workers' /\ workers'[b].phase # "parked"
                      /\ access'[b].node = workers'[b].token
                 /\ b \in DOMAIN workers' => (workers'[b].phase = "clear" => access'[b].at # "none")
      <4>1. CASE b = a
        BY <4>1, <2>2, <2>3, <1>6
      <4>2. CASE b # a
        <5>1. access'[b] = access[b] /\ (b \in DOMAIN workers => workers'[b] = workers[b])
          BY <4>2, <2>3, <1>6, ReplicationAssumption DEF Accessor
        <5> QED
          BY <5>1, <2>3 DEF Inv, AccessNeeded
      <4> QED
        BY <4>1, <4>2
    <3> QED
      BY <3>3, <3>4 DEF AccessNeeded
  <2>6. Labelled(q, r)'
    <3>1. PoolFits(q) /\ CopiesFit(q) /\ q \in Label
      BY <1>1 DEF Labelled, StateFits
    <3>2. q.pool \in {"making", "clearing"}
      <4>1. q.pool \notin {"ready", "old", "stale"}
        BY <3>1, <1>4 DEF PoolFits, Parked
      <4>2. q.pool # "busy"
        BY <3>1, <1>4, <1>8 DEF PoolFits
      <4> QED
        BY <3>1, <4>1, <4>2 DEF Label
    <3>3. ASSUME NEW i \in DOMAIN workers'
          PROVE  /\ workers'[i].phase # "search"
                 /\ workers'[i].phase = "parked" => workers'[i].table = net'
      <4>1. CASE i = a
        BY <4>1, <2>2, <2>3, <1>3
      <4>2. CASE i # a
        BY <4>2, <2>3, <3>1, <3>2, <1>3 DEF PoolFits
      <4> QED
        BY <4>1, <4>2
    <3>4. PoolFits(q)'
      BY <3>1, <3>2, <3>3, <2>3, <1>3 DEF PoolFits, Shares
    <3>5. CopiesFit(q)'
      BY <3>1, <1>3 DEF CopiesFit
    <3> QED
      BY <3>1, <3>4, <3>5, <1>1, <1>3 DEF Labelled, StateFits
  <2> QED
    BY <2>3, <2>4, <2>5, <2>6, <1>5, InvFrom
<1>9. CASE workers[a].phase # "clear"
  <2>1. workers' = workers
    BY <1>9 DEF Use
  <2>2. Types'
    BY <2>1, <1>3, <1>5 DEF Inv, Types
  <2>3. AccessNeeded'
    <3>1. Uci \in Accessor \ {a}
      BY ReplicationAssumption DEF Accessor, Uci
    <3>2. access'[Uci] = access[Uci]
      BY <3>1, <1>6
    <3>3. ASSUME NEW b \in 1 .. MaxThreads
          PROVE  /\ access'[b].at # "none" =>
                      /\ b \in DOMAIN workers /\ workers[b].phase # "parked"
                      /\ access'[b].node = workers[b].token
                 /\ b \in DOMAIN workers => (workers[b].phase = "clear" => access'[b].at # "none")
      <4>1. CASE b = a
        BY <4>1, <1>6, <1>9
      <4>2. CASE b # a
        <5>1. access'[b] = access[b]
          BY <4>2, <1>6, ReplicationAssumption DEF Accessor
        <5> QED
          BY <5>1 DEF Inv, AccessNeeded
      <4> QED
        BY <4>1, <4>2
    <3> QED
      BY <3>2, <3>3, <2>1, <1>3 DEF Inv, AccessNeeded
  <2>4. WorkersFit' /\ Labelled(q, r)'
    BY <2>1, <1>1, <1>3, SameWorkers, SameLabel DEF Inv
  <2> QED
    BY <2>2, <2>3, <2>4, <1>5, InvFrom
<1> QED
  BY <1>8, <1>9

\* The UCI thread goes on to the next worker.
LEMMA UciUseKeeps ==
  ASSUME Inv, Use(Uci)
  PROVE  Inv'
<1>1. PICK q, r : Labelled(q, r)
  BY DEF Inv, Labelled
<1>2. Uci \in Accessor /\ \A b \in 1 .. MaxThreads : b \in Accessor /\ b # Uci
  BY ReplicationAssumption DEF Accessor, Uci
<1>3. /\ access \in [Accessor -> Access] /\ access[Uci].at = "use" /\ access' = [access EXCEPT ![Uci] = Idle]
      /\ todo' = Tail(todo)
      /\ UNCHANGED <<machine, cfg, policy, threads, net, instances, source, mutex, bound, histories, workers,
                     terminated>>
  BY DEF Inv, Types, Use, Done
<1>4. todo # <<>> /\ Head(todo).op = "ensure" /\ todo \in Seq(Steps)
  BY <1>3 DEF Inv, AccessNeeded, Types
<1>5. access' \in [Accessor -> Access] /\ AccessFits'
  BY <1>2, <1>3, OthersFit, IdleIsAccess
<1>6. access'[Uci].at = "none" /\ \A b \in 1 .. MaxThreads : access'[b] = access[b]
  BY <1>2, <1>3, IdleIsAccess
<1>7. Types'
  <2>1. todo' \in Seq(Steps)
    BY <1>3, <1>4
  <2> QED
    BY <2>1, <1>3, <1>5 DEF Inv, Types
<1>8. AccessNeeded'
  BY <1>3, <1>6 DEF Inv, AccessNeeded
<1>9. Labelled(q, r)'
  <2>1. PICK s \in Label : Ok(Head(todo), q, s) /\ Path(Tail(todo), s, r)
    BY <1>1, <1>4, NextLabel DEF Inv
  <2>2. s = q
    BY <2>1, <1>4 DEF Ok
  <2>3. StateFits(q)'
    BY <1>1, <1>3 DEF Labelled, StateFits, CopiesFit, PoolFits, Shares, Parked
  <2> QED
    BY <2>1, <2>2, <2>3, <1>1, <1>3 DEF Labelled
<1>10. WorkersFit'
  BY <1>3, SameWorkers DEF Inv
<1> QED
  BY <1>5, <1>7, <1>8, <1>9, <1>10, InvFrom

\* A thread without an access begins one.
LEMMA EvaluatesKeep ==
  ASSUME Inv, NEW i \in 1 .. MaxThreads, Evaluate(i)
  PROVE  Inv'
<1>1. PICK q, r : Labelled(q, r)
  BY DEF Inv, Labelled
<1>2. Uci \in Accessor /\ \A b \in 1 .. MaxThreads : b \in Accessor /\ b # Uci
  BY ReplicationAssumption DEF Accessor, Uci
<1>3. /\ access \in [Accessor -> Access] /\ access[i].at = "none" /\ i \in DOMAIN workers
      /\ workers[i].phase = "search" /\ access' = [access EXCEPT ![i] = Reads(workers[i].token)]
      /\ UNCHANGED <<machine, cfg, policy, threads, net, instances, source, mutex, bound, histories, workers,
                     todo, terminated>>
  BY DEF Inv, Types, Evaluate
<1>4. workers[i].token \in Nat
  <2>1. workers[i] \in Worker
    BY <1>3 DEF Inv, Types
  <2> QED
    BY <2>1 DEF Worker
<1>5. access' \in [Accessor -> Access] /\ AccessFits'
  BY <1>2, <1>3, <1>4, OthersFit, ReadsIsAccess
<1>6. /\ access'[i].at = "check" /\ access'[i].node = workers[i].token
      /\ \A b \in Accessor : b # i => access'[b] = access[b]
  BY <1>2, <1>3, <1>4, ReadsIsAccess
<1>7. Types'
  BY <1>3, <1>5 DEF Inv, Types
<1>8. AccessNeeded'
  <2>1. access'[Uci] = access[Uci]
    BY <1>2, <1>6
  <2>2. ASSUME NEW b \in 1 .. MaxThreads
        PROVE  /\ access'[b].at # "none" =>
                    /\ b \in DOMAIN workers /\ workers[b].phase # "parked"
                    /\ access'[b].node = workers[b].token
               /\ b \in DOMAIN workers => (workers[b].phase = "clear" => access'[b].at # "none")
    <3>1. CASE b = i
      BY <3>1, <1>3, <1>6
    <3>2. CASE b # i
      <4>1. access'[b] = access[b]
        BY <3>2, <1>2, <1>6
      <4> QED
        BY <4>1 DEF Inv, AccessNeeded
    <3> QED
      BY <3>1, <3>2
  <2> QED
    BY <2>1, <2>2, <1>3 DEF Inv, AccessNeeded
<1>9. Labelled(q, r)' /\ WorkersFit'
  BY <1>1, <1>3, SameLabel, SameWorkers DEF Inv
<1> QED
  BY <1>5, <1>7, <1>8, <1>9, InvFrom

\* start_searching() returns.
LEMMA FinishesKeep ==
  ASSUME Inv, NEW i \in 1 .. MaxThreads, FinishSearch(i)
  PROVE  Inv'
<1>1. PICK q, r : Labelled(q, r)
  BY DEF Inv, Labelled
<1>2. /\ access[i].at = "none" /\ i \in DOMAIN workers /\ workers[i].phase = "search"
      /\ workers' = [workers EXCEPT ![i].phase = "parked"]
      /\ UNCHANGED <<machine, cfg, policy, threads, net, instances, source, mutex, bound, histories, access,
                     todo, terminated>>
  BY DEF FinishSearch
<1>3. workers \in Seq(Worker) /\ workers[i] \in Worker
  BY <1>2 DEF Inv, Types
<1> DEFINE new == [workers[i] EXCEPT !.phase = "parked"]
<1>4. workers' = [workers EXCEPT ![i] = new]
  BY <1>2
<1>5. new \in Worker /\ new.token = workers[i].token /\ new.index = workers[i].index
        /\ new.total = workers[i].total /\ new.phase = "parked" /\ new.table = workers[i].table
  BY <1>3 DEF Worker
<1> HIDE DEF new
<1>6. /\ workers' \in Seq(Worker) /\ Len(workers') = Len(workers) /\ DOMAIN workers' = DOMAIN workers
      /\ workers'[i] = new /\ \A j \in DOMAIN workers : j # i => workers'[j] = workers[j]
      /\ WorkersFit'
  BY <1>2, <1>4, <1>5, WorkersStayFit DEF Inv
<1>7. Types' /\ AccessFits'
  BY <1>2, <1>6 DEF Inv, Types, AccessFits
<1>8. PoolFits(q) /\ CopiesFit(q) /\ q \in Label
  BY <1>1 DEF Labelled, StateFits
<1>9. q.pool = "busy"
  <2>1. q.pool \notin {"ready", "old", "stale"}
    BY <1>2, <1>8 DEF PoolFits, Parked
  <2>2. q.pool \notin {"making", "clearing"}
    BY <1>2, <1>8 DEF PoolFits
  <2> QED
    BY <1>8, <2>1, <2>2 DEF Label
<1>10. AccessNeeded'
  <2>1. access[Uci].at = "none"
    <3>1. ASSUME access[Uci].at # "none"
          PROVE  FALSE
      <4>1. todo # <<>> /\ Head(todo).op = "ensure"
        BY <3>1 DEF Inv, AccessNeeded
      <4>2. PICK s \in Label : Ok(Head(todo), q, s)
        BY <4>1, <1>1, NextLabel DEF Inv
      <4> QED
        BY <4>1, <4>2, <1>9 DEF Ok
    <3> QED
      BY <3>1
  <2>2. ASSUME NEW b \in 1 .. MaxThreads
        PROVE  /\ access[b].at # "none" =>
                    /\ b \in DOMAIN workers' /\ workers'[b].phase # "parked"
                    /\ access[b].node = workers'[b].token
               /\ b \in DOMAIN workers' => (workers'[b].phase = "clear" => access[b].at # "none")
    <3>1. CASE b = i
      BY <3>1, <1>2, <1>5, <1>6
    <3>2. CASE b # i
      BY <3>2, <1>6 DEF Inv, AccessNeeded
    <3> QED
      BY <3>1, <3>2
  <2> QED
    BY <2>1, <2>2, <1>2 DEF AccessNeeded
<1>11. Labelled(q, r)'
  <2>1. ASSUME NEW j \in DOMAIN workers'
        PROVE  workers'[j].phase # "clear" /\ workers'[j].table = net'
    <3>1. workers[j].phase # "clear" /\ workers[j].table = net
      BY <1>6, <1>8, <1>9 DEF PoolFits
    <3> QED
      BY <3>1, <1>2, <1>5, <1>6
  <2>2. PoolFits(q)'
    BY <2>1, <1>2, <1>6, <1>8, <1>9 DEF PoolFits, Shares
  <2>3. CopiesFit(q)'
    BY <1>2, <1>8 DEF CopiesFit
  <2> QED
    BY <2>2, <2>3, <1>1, <1>2 DEF Labelled, StateFits
<1> QED
  BY <1>6, <1>7, <1>10, <1>11, InvFrom

\* The UCI thread asks for the copy of a worker.
LEMMA EnsuresKeep ==
  ASSUME Inv, Ensure
  PROVE  Inv'
<1>1. PICK q, r : Labelled(q, r)
  BY DEF Inv, Labelled
<1>2. Uci \in Accessor /\ \A b \in 1 .. MaxThreads : b \in Accessor /\ b # Uci
  BY ReplicationAssumption DEF Accessor, Uci
<1> DEFINE w == Head(todo).worker
<1>3. /\ access \in [Accessor -> Access] /\ access[Uci].at = "none"
      /\ todo # <<>> /\ Head(todo).op = "ensure"
      /\ access' = [access EXCEPT ![Uci] = Reads(workers[w].token)]
      /\ UNCHANGED <<machine, cfg, policy, threads, net, instances, source, mutex, bound, histories, workers,
                     todo, terminated>>
  BY DEF Inv, Types, Ensure, Do
<1>4. workers[w].token \in Nat
  <2>1. PICK s \in Label : Ok(Head(todo), q, s)
    BY <1>1, <1>3, NextLabel DEF Inv
  <2>2. w \in 1 .. q.made
    BY <2>1, <1>3 DEF Ok
  <2>3. workers \in Seq(Worker) /\ w \in DOMAIN workers
    BY <2>2, <1>1 DEF Labelled, StateFits, PoolFits, Inv, Types
  <2>4. workers[w] \in Worker
    BY <2>3
  <2> QED
    BY <2>4 DEF Worker
<1> HIDE DEF w
<1>5. access' \in [Accessor -> Access] /\ AccessFits'
  BY <1>2, <1>3, <1>4, OthersFit, ReadsIsAccess
<1>6. /\ access'[Uci].at = "check" /\ access'[Uci].node = workers[w].token
      /\ \A b \in 1 .. MaxThreads : access'[b] = access[b]
  BY <1>2, <1>3, <1>4, ReadsIsAccess
<1>7. Types'
  BY <1>3, <1>5 DEF Inv, Types
<1>8. AccessNeeded'
  BY <1>3, <1>6 DEF Inv, AccessNeeded, w
<1>9. Labelled(q, r)' /\ WorkersFit'
  BY <1>1, <1>3, SameLabel, SameWorkers DEF Inv
<1> QED
  BY <1>5, <1>7, <1>8, <1>9, InvFrom

\* A command comes when the one before is done; without ExportInSearch none
\* replaces the copies during a search.
LEMMA CommandsKeep ==
  ASSUME ~ExportInSearch, Inv, Command
  PROVE  Inv'
<1>1. PICK q, r : Labelled(q, r)
  BY DEF Inv, Labelled
<1>2. /\ todo = <<>>
      /\ UNCHANGED <<machine, cfg, policy, threads, net, instances, source, mutex, bound, histories, workers,
                     access, terminated>>
  BY DEF Command
<1>3. q \in Label /\ StateFits(q) /\ Rests(q)
  BY <1>1, <1>2, LastLabel DEF Labelled
<1>4. access[Uci].at = "none"
  BY <1>2 DEF Inv, AccessNeeded
<1>5. \E o \in Label : StateFits(o) /\ Leads(todo', o)
  <2>1. policy \in Policies /\ threads \in 1 .. MaxThreads /\ workers \in Seq(Worker) /\ Len(workers) <= MaxThreads
    BY DEF Inv, Types
  <2>2. CASE \E s \in Nets : todo' = EvalFile(s)
    <3>1. PICK s \in Nets : todo' = EvalFile(s)
      BY <2>2
    <3>2. q.made = Len(workers)
      BY <1>3 DEF StateFits, PoolFits
    <3>3. Leads(EvalFile(s), q)
      BY <2>1, <3>2, <1>3, EvalFileLeads
    <3> QED
      BY <3>1, <3>3, <1>3
  <2>3. CASE \E p \in Policies : todo' = NumaPolicy(p)
    <3>1. PICK p \in Policies : todo' = NumaPolicy(p)
      BY <2>3
    <3>2. Leads(NumaPolicy(p), q)
      BY <2>1, <1>3, NumaPolicyLeads
    <3> QED
      BY <3>1, <3>2, <1>3
  <2>4. CASE \E n \in 1 .. MaxThreads : todo' = Threads(n)
    <3>1. PICK n \in 1 .. MaxThreads : todo' = Threads(n)
      BY <2>4
    <3>2. Leads(Threads(n), q)
      BY <2>1, <1>3, ThreadsLeads
    <3> QED
      BY <3>1, <3>2, <1>3
  <2>5. CASE ~Searching /\ todo' = ExportNet
    <3> DEFINE o == [q EXCEPT !.pool = "ready"]
    <3>1. /\ o \in Label /\ o.inst = "full" /\ o.pool = "ready" /\ o.made = q.made
          /\ o.threads = q.threads /\ o.policy = q.policy
      BY <1>3 DEF Label, Rests
    <3>2. Parked
      <4>1. \A i \in DOMAIN workers : workers[i].phase # "clear" /\ workers[i].phase # "search"
        BY <2>5, <1>3 DEF StateFits, PoolFits, Rests, Searching
      <4>2. \A i \in DOMAIN workers : workers[i] \in Worker
        BY <2>1
      <4> QED
        BY <4>1, <4>2 DEF Parked, Worker
    <3> HIDE DEF o
    <3>3. StateFits(o)
      BY <3>1, <3>2, <1>3 DEF StateFits, CopiesFit, PoolFits, Rests
    <3>4. Leads(ExportNet, o)
      BY <3>1, ExportNetLeads
    <3> QED
      BY <2>5, <3>1, <3>3, <3>4
  <2>6. CASE todo' = Go
    BY <2>6, <1>3, GoLeads
  <2> QED
    BY <2>2, <2>3, <2>4, <2>5, <2>6 DEF Command
<1>6. PICK o \in Label : StateFits(o) /\ Leads(todo', o)
  BY <1>5
<1>7. PICK u \in Label : Path(todo', o, u) /\ Rests(u)
  BY <1>6 DEF Leads
<1>8. Labelled(o, u)'
  <2>1. StateFits(o)'
    BY <1>2, <1>6 DEF StateFits, CopiesFit, PoolFits, Shares, Parked
  <2> QED
    BY <2>1, <1>6, <1>7 DEF Labelled
<1>9. Types'
  BY <1>2, <1>6 DEF Inv, Types, Leads
<1>10. AccessFits' /\ AccessNeeded' /\ WorkersFit'
  <2>1. AccessFits' /\ AccessNeeded'
    BY <1>2, <1>4 DEF Inv, AccessFits, AccessNeeded
  <2> QED
    BY <2>1, <1>2, SameWorkers DEF Inv
<1> QED
  BY <1>8, <1>9, <1>10, InvFrom

-----------------------------------------------------------------------------
(* The steps of the UCI thread that change the copies.                       *)

\* The labels before and after a step of the UCI thread.
LEMMA UciLabels ==
  ASSUME Inv, todo # <<>>
  PROVE  \E q, s, r : Labelled(q, r) /\ s \in Label /\ Ok(Head(todo), q, s) /\ Path(Tail(todo), s, r)
  BY NextLabel DEF Inv, Labelled

\* A step that leaves the pool alone, and the copies too unless nobody accesses them.
LEMMA UciMoves ==
  ASSUME Inv, todo # <<>>, Head(todo).op # "ensure", todo' = Tail(todo),
         UNCHANGED <<machine, mutex, bound, histories, workers, access, terminated>>,
         UNCHANGED <<net, instances>> \/ \A a \in Accessor : access[a].at = "none",
         Fits(cfg, machine)', policy' \in Policies, threads' \in 1 .. MaxThreads, net' \in Nets,
         instances' \in Seq(Nets \cup {Absent}),
         NEW s \in Label, NEW q, NEW r, Labelled(q, r), Path(Tail(todo), s, r), StateFits(s)'
  PROVE  Inv'
<1>1. todo \in Seq(Steps) /\ todo' \in Seq(Steps)
  BY DEF Inv, Types
<1>2. Types'
  BY <1>1 DEF Inv, Types
<1>3. AccessFits'
  <2>1. CASE UNCHANGED <<net, instances>>
    BY <2>1 DEF Inv, AccessFits
  <2>2. CASE \A a \in Accessor : access[a].at = "none"
    BY <2>2 DEF Inv, AccessFits
  <2> QED
    BY <2>1, <2>2
<1>4. AccessNeeded'
  <2>1. access[Uci].at = "none"
    BY DEF Inv, AccessNeeded
  <2> QED
    BY <2>1 DEF Inv, AccessNeeded
<1>5. WorkersFit'
  BY SameWorkers DEF Inv
<1>6. Labelled(s, r)'
  BY DEF Labelled
<1> QED
  BY <1>2, <1>3, <1>4, <1>5, <1>6, InvFrom

\* The steps of the UCI thread, one by one.
LEMMA WaitsKeep ==
  ASSUME Inv, Wait
  PROVE  Inv'
<1>1. /\ todo # <<>> /\ Head(todo).op = "wait" /\ Parked /\ todo' = Tail(todo)
      /\ UNCHANGED <<machine, cfg, policy, threads, net, instances, source, mutex, bound, histories, workers,
                     access, terminated>>
  BY DEF Wait, Do, Done
<1>2. PICK q, s, r : Labelled(q, r) /\ s \in Label /\ Ok(Head(todo), q, s) /\ Path(Tail(todo), s, r)
  BY <1>1, UciLabels
<1>3. /\ q.inst = "full" /\ q.pool \in {"busy", "ready", "clearing", "stale"}
      /\ s = [q EXCEPT !.pool = IF q.pool = "stale" THEN "stale" ELSE "ready"]
  BY <1>1, <1>2 DEF Ok
<1>4. /\ s.inst = "full" /\ s.made = q.made /\ s.threads = q.threads /\ s.policy = q.policy
      /\ s.pool = IF q.pool = "stale" THEN "stale" ELSE "ready"
  BY <1>2, <1>3 DEF Labelled, Label
<1>5. CopiesFit(q) /\ PoolFits(q)
  BY <1>2 DEF Labelled, StateFits
<1>6. CopiesFit(s)
  BY <1>3, <1>4, <1>5 DEF CopiesFit
<1>7. PoolFits(s)
  <2>1. CASE q.pool = "stale"
    BY <2>1, <1>4, <1>5 DEF PoolFits
  <2>2. CASE q.pool # "stale"
    <3>1. s.pool = "ready"
      BY <2>2, <1>4
    <3>2. \A i \in DOMAIN workers : workers[i].phase # "clear" /\ workers[i].table = net
      BY <2>2, <1>1, <1>3, <1>5 DEF PoolFits, Parked
    <3> QED
      BY <2>2, <3>1, <3>2, <1>1, <1>3, <1>4, <1>5 DEF PoolFits
  <2> QED
    BY <2>1, <2>2
<1>8. StateFits(s)'
  <2>1. StateFits(s)
    BY <1>2, <1>6, <1>7 DEF StateFits
  <2> QED
    BY <2>1, <1>1 DEF StateFits, CopiesFit, PoolFits, Shares, Parked
<1> QED
  BY <1>1, <1>2, <1>8, UciMoves DEF Inv, Types

LEMMA SetsKeep ==
  ASSUME Inv, Set
  PROVE  Inv'
<1>1. /\ todo # <<>> /\ Head(todo).op = "set" /\ todo' = Tail(todo)
      /\ policy' = Head(todo).policy /\ threads' = Head(todo).threads
      /\ UNCHANGED <<machine, cfg, net, instances, source, mutex, bound, histories, workers, access,
                     terminated>>
  BY DEF Set, Do, Done
<1>2. PICK q, s, r : Labelled(q, r) /\ s \in Label /\ Ok(Head(todo), q, s) /\ Path(Tail(todo), s, r)
  BY <1>1, UciLabels
<1>3. /\ q.inst = "full" /\ q.pool = "ready"
      /\ s = [q EXCEPT !.threads = Head(todo).threads, !.policy = Head(todo).policy]
  BY <1>1, <1>2 DEF Ok
<1>4. /\ s.inst = "full" /\ s.made = q.made /\ s.pool = "ready"
      /\ s.threads = threads' /\ s.policy = policy'
      /\ threads' \in 1 .. MaxThreads /\ policy' \in Policies
  BY <1>1, <1>2, <1>3 DEF Labelled, Label
<1>5. CopiesFit(q) /\ PoolFits(q)
  BY <1>2 DEF Labelled, StateFits
<1>6. CopiesFit(s)'
  BY <1>1, <1>3, <1>4, <1>5 DEF CopiesFit
<1>7. PoolFits(s)'
  BY <1>1, <1>3, <1>4, <1>5 DEF PoolFits, Shares, Parked
<1>8. StateFits(s)'
  BY <1>2, <1>6, <1>7 DEF StateFits
<1> QED
  BY <1>1, <1>2, <1>4, <1>8, UciMoves DEF Inv, Types

LEMMA SetConfigsKeep ==
  ASSUME Inv, SetConfig
  PROVE  Inv'
<1>1. /\ todo # <<>> /\ Head(todo).op = "config" /\ todo' = Tail(todo) /\ cfg' = Config(policy)
      /\ UNCHANGED <<machine, policy, threads, net, instances, source, mutex, bound, histories, workers,
                     access, terminated>>
  BY DEF SetConfig, Do, Done
<1>2. PICK q, s, r : Labelled(q, r) /\ s \in Label /\ Ok(Head(todo), q, s) /\ Path(Tail(todo), s, r)
  BY <1>1, UciLabels
<1>3. /\ q.inst = "full" /\ q.pool = "ready" /\ Accepted(q.policy)
      /\ s = [q EXCEPT !.inst = "moved", !.pool = "stale"]
  BY <1>1, <1>2 DEF Ok
<1>4. /\ s.inst = "moved" /\ s.made = q.made /\ s.pool = "stale"
      /\ s.threads = q.threads /\ s.policy = q.policy
  BY <1>2, <1>3 DEF Labelled, Label
<1>5. CopiesFit(q) /\ PoolFits(q)
  BY <1>2 DEF Labelled, StateFits
<1>6. CopiesFit(s)'
  BY <1>1, <1>3, <1>4, <1>5 DEF CopiesFit
<1>7. PoolFits(s)'
  BY <1>1, <1>3, <1>4, <1>5 DEF PoolFits, Shares, Parked
<1>8. StateFits(s)'
  BY <1>2, <1>6, <1>7 DEF StateFits
<1>9. Fits(cfg, machine)'
  <2>1. q.policy = policy
    BY <1>5 DEF PoolFits
  <2>2. machine \in Machines
    BY DEF Inv, Types
  <2>3. Fits(Config(policy), machine)
    BY <2>1, <2>2, <1>3, ConfigFits
  <2> QED
    BY <2>3, <1>1
<1> QED
  BY <1>1, <1>2, <1>8, <1>9, UciMoves DEF Inv, Types

LEMMA CopiesKeep ==
  ASSUME Inv, Copy
  PROVE  Inv'
<1> DEFINE o == Head(todo).net
<1>1. /\ todo # <<>> /\ Head(todo).op = "copy" /\ todo' = Tail(todo)
      /\ source' = (IF o = Absent THEN instances[1] ELSE o)
      /\ net' = (IF o = Absent THEN net ELSE o)
      /\ UNCHANGED <<machine, cfg, policy, threads, instances, mutex, bound, histories, workers, access,
                     terminated>>
  BY DEF Copy, Do, Done
<1>2. PICK q, s, r : Labelled(q, r) /\ s \in Label /\ Ok(Head(todo), q, s) /\ Path(Tail(todo), s, r)
  BY <1>1, UciLabels
<1>3. /\ o \in Nets \cup {Absent}
      /\ \/ q.inst = "full" /\ q.pool = "ready"
         \/ q.inst = "moved" /\ q.pool = "stale" /\ o = Absent
      /\ s = [q EXCEPT !.inst = "copied", !.pool = IF o = Absent THEN q.pool ELSE "old"]
  BY <1>1, <1>2 DEF Ok
<1> HIDE DEF o
<1>4. /\ s.inst = "copied" /\ s.made = q.made /\ s.pool = (IF o = Absent THEN q.pool ELSE "old")
      /\ s.threads = q.threads /\ s.policy = q.policy
  BY <1>2, <1>3 DEF Labelled, Label
<1>5. CopiesFit(q) /\ PoolFits(q)
  BY <1>2 DEF Labelled, StateFits
<1>6. CopiesFit(s)'
  <2>1. source' = net'
    BY <1>1, <1>3, <1>5 DEF CopiesFit
  <2> QED
    BY <2>1, <1>4 DEF CopiesFit
<1>7. Parked
  BY <1>3, <1>5 DEF PoolFits
<1>8. PoolFits(s)'
  <2>1. CASE o = Absent
    BY <2>1, <1>1, <1>3, <1>4, <1>5 DEF PoolFits, Shares, Parked
  <2>2. CASE o # Absent
    BY <2>2, <1>1, <1>3, <1>4, <1>5, <1>7 DEF PoolFits, Shares, Parked
  <2> QED
    BY <2>1, <2>2
<1>9. StateFits(s)'
  BY <1>2, <1>6, <1>8 DEF StateFits
<1>10. \A a \in Accessor : access[a].at = "none"
  BY <1>1, <1>7, NoAccess DEF Inv
<1>11. net' \in Nets
  BY <1>1, <1>3 DEF Inv, Types
<1> QED
  BY <1>1, <1>2, <1>9, <1>10, <1>11, UciMoves DEF Inv, Types

LEMMA EmptiesKeep ==
  ASSUME Inv, Empty
  PROVE  Inv'
<1>1. /\ todo # <<>> /\ Head(todo).op = "empty" /\ todo' = Tail(todo) /\ instances' = <<>>
      /\ access' = [a \in Accessor |->
           [access[a] EXCEPT !.live = access[a].at \notin {"build", "assign", "deref", "use"}]]
      /\ UNCHANGED <<machine, cfg, policy, threads, net, source, mutex, bound, histories, workers, terminated>>
  BY DEF Empty, Do, Done
<1>2. PICK q, s, r : Labelled(q, r) /\ s \in Label /\ Ok(Head(todo), q, s) /\ Path(Tail(todo), s, r)
  BY <1>1, UciLabels
<1>3. q.inst = "copied" /\ s = [q EXCEPT !.inst = "empty"]
  BY <1>1, <1>2 DEF Ok
<1>4. /\ s.inst = "empty" /\ s.made = q.made /\ s.pool = q.pool /\ s.threads = q.threads /\ s.policy = q.policy
  BY <1>2, <1>3 DEF Labelled, Label
<1>5. CopiesFit(q) /\ PoolFits(q)
  BY <1>2 DEF Labelled, StateFits
<1>6. Parked
  BY <1>3, <1>5 DEF PoolFits
<1>7. \A a \in Accessor : access[a].at = "none"
  BY <1>1, <1>6, NoAccess DEF Inv
<1>8. access' = access
  <2>1. access \in [Accessor -> Access] /\ \A a \in Accessor : access[a].live
    BY DEF Inv, Types, AccessFits
  <2>2. ASSUME NEW a \in Accessor
        PROVE  access'[a] = access[a]
    <3>1. access[a] \in Access /\ access[a].live = TRUE
      BY <2>1 DEF Access
    <3>2. access'[a] = [access[a] EXCEPT !.live = TRUE]
      BY <1>1, <1>7
    <3> QED
      BY <3>1, <3>2 DEF Access
  <2>3. access' = [a \in Accessor |-> access'[a]] /\ access = [a \in Accessor |-> access[a]]
    BY <1>1, <2>1
  <2> QED
    BY <2>2, <2>3
<1>9. StateFits(s)'
  BY <1>1, <1>2, <1>3, <1>4, <1>5 DEF StateFits, CopiesFit, PoolFits, Shares, Parked
<1>10. instances' \in Seq(Nets \cup {Absent})
  BY <1>1
<1> QED
  BY <1>1, <1>2, <1>7, <1>8, <1>9, <1>10, UciMoves DEF Inv, Types

LEMMA FirstsKeep ==
  ASSUME Inv, First
  PROVE  Inv'
<1>1. /\ todo # <<>> /\ Head(todo).op = "first" /\ todo' = Tail(todo) /\ instances' = <<source>>
      /\ UNCHANGED <<machine, cfg, policy, threads, net, source, mutex, bound, histories, workers, access,
                     terminated>>
  BY DEF First, Do, Done
<1>2. PICK q, s, r : Labelled(q, r) /\ s \in Label /\ Ok(Head(todo), q, s) /\ Path(Tail(todo), s, r)
  BY <1>1, UciLabels
<1>3. q.inst = "empty" /\ s = [q EXCEPT !.inst = "one"]
  BY <1>1, <1>2 DEF Ok
<1>4. /\ s.inst = "one" /\ s.made = q.made /\ s.pool = q.pool /\ s.threads = q.threads /\ s.policy = q.policy
  BY <1>2, <1>3 DEF Labelled, Label
<1>5. CopiesFit(q) /\ PoolFits(q)
  BY <1>2 DEF Labelled, StateFits
<1>6. \A a \in Accessor : access[a].at = "none"
  <2>1. Parked
    BY <1>3, <1>5 DEF PoolFits
  <2> QED
    BY <1>1, <2>1, NoAccess DEF Inv
<1>7. source = net /\ net \in Nets
  BY <1>5 DEF CopiesFit, Inv, Types
<1>8. StateFits(s)'
  BY <1>1, <1>2, <1>3, <1>4, <1>5, <1>7 DEF StateFits, CopiesFit, PoolFits, Shares, Parked
<1>9. instances' \in Seq(Nets \cup {Absent})
  BY <1>1, <1>7
<1> QED
  BY <1>1, <1>2, <1>6, <1>8, <1>9, UciMoves DEF Inv, Types

LEMMA InstancesResize ==
  ASSUME Inv, Resize
  PROVE  Inv'
<1>1. /\ todo # <<>> /\ Head(todo).op = "resize" /\ todo' = Tail(todo)
      /\ instances' = IF RequiresReplication(cfg)
                      THEN [n \in DOMAIN cfg.nodes |-> IF n = 1 THEN instances[1] ELSE Absent]
                      ELSE instances
      /\ UNCHANGED <<machine, cfg, policy, threads, net, source, mutex, bound, histories, workers, access,
                     terminated>>
  BY DEF Resize, Do, Done
<1>2. PICK q, s, r : Labelled(q, r) /\ s \in Label /\ Ok(Head(todo), q, s) /\ Path(Tail(todo), s, r)
  BY <1>1, UciLabels
<1>3. q.inst = "one" /\ s = [q EXCEPT !.inst = "full"]
  BY <1>1, <1>2 DEF Ok
<1>4. /\ s.inst = "full" /\ s.made = q.made /\ s.pool = q.pool /\ s.threads = q.threads /\ s.policy = q.policy
  BY <1>2, <1>3 DEF Labelled, Label
<1>5. CopiesFit(q) /\ PoolFits(q)
  BY <1>2 DEF Labelled, StateFits
<1>6. \A a \in Accessor : access[a].at = "none"
  <2>1. Parked
    BY <1>3, <1>5 DEF PoolFits
  <2> QED
    BY <1>1, <2>1, NoAccess DEF Inv
<1>7. instances = <<net>> /\ source = net /\ net \in Nets
  BY <1>3, <1>5 DEF CopiesFit, Inv, Types
<1>8. PICK l \in Nat : l > 0 /\ DOMAIN cfg.nodes = 1 .. l
  <2>1. cfg.nodes \in Seq(SUBSET Nat) /\ cfg.nodes # <<>>
    BY DEF Inv, Types, Fits, AreNodes
  <2> QED
    BY <2>1
<1>9. /\ instances' \in Seq(Nets \cup {Absent}) /\ instances' # <<>> /\ instances'[1] = net
      /\ \A n \in DOMAIN instances' : instances'[n] \in {net, Absent}
      /\ DOMAIN instances' = IF RequiresReplication(cfg) THEN DOMAIN cfg.nodes ELSE {1}
  <2>1. CASE RequiresReplication(cfg)
    <3> DEFINE f == [n \in 1 .. l |-> IF n = 1 THEN net ELSE Absent]
    <3>1. instances' = f
      BY <2>1, <1>1, <1>7, <1>8
    <3>2. /\ f \in Seq(Nets \cup {Absent}) /\ Len(f) = l /\ f[1] = net
          /\ \A n \in 1 .. l : f[n] \in {net, Absent}
      BY <1>7, <1>8
    <3> HIDE DEF f
    <3>3. f # <<>> /\ DOMAIN f = 1 .. l
      BY <3>2, <1>8
    <3> QED
      BY <2>1, <3>1, <3>2, <3>3, <1>8
  <2>2. CASE ~RequiresReplication(cfg)
    <3>1. instances' = <<net>>
      BY <2>2, <1>1, <1>7
    <3> QED
      BY <2>2, <3>1, <1>7
  <2> QED
    BY <2>1, <2>2
<1>10. CopiesFit(s)'
  <2>1. UNCHANGED <<net, source, cfg>> /\ source = net
    BY <1>1, <1>7
  <2> QED
    BY <2>1, <1>4, <1>9 DEF CopiesFit
<1>11. PoolFits(s)'
  BY <1>1, <1>4, <1>5 DEF PoolFits, Shares, Parked
<1>12. StateFits(s)'
  BY <1>2, <1>10, <1>11 DEF StateFits
<1> QED
  BY <1>1, <1>2, <1>6, <1>9, <1>12, UciMoves DEF Inv, Types

-----------------------------------------------------------------------------
(* The steps of the UCI thread that change the pool.                         *)

\* The histories that ThreadPool::set() shares out.
LEMMA SharedOut ==
  ASSUME NEW bs \in Seq(Nat \ {0}), NEW n \in Nat \ {0}, bs # <<>> => Len(bs) = n,
         NEW h, h = IF bs = <<>> THEN [m \in {1} |-> n] ELSE [m \in Range(bs) |-> Occupation(bs, m)]
  PROVE  /\ DOMAIN h \subseteq Nat \ {0}
         /\ \A m \in DOMAIN h : h[m] \in Nat
         /\ \A i \in 1 .. n : (IF bs = <<>> THEN 1 ELSE bs[i]) \in DOMAIN h
<1>1. CASE bs = <<>>
  BY <1>1
<1>2. CASE bs # <<>>
  <2>1. DOMAIN h = Range(bs) /\ \A m \in Range(bs) : h[m] = Occupation(bs, m)
    BY <1>2
  <2>2. \A m \in Range(bs) : m \in Nat \ {0}
    BY DEF Range
  <2>3. \A m \in Range(bs) : Occupation(bs, m) \in Nat
    BY OccupationType
  <2>4. ASSUME NEW i \in 1 .. n
        PROVE  bs[i] \in Range(bs)
    <3>1. i \in DOMAIN bs
      BY <1>2
    <3> QED
      BY <3>1 DEF Range
  <2> QED
    BY <1>2, <2>1, <2>2, <2>3, <2>4
<1> QED
  BY <1>1, <1>2

\* ThreadPool::set() spreads the threads over the nodes.
LEMMA DestroysKeep ==
  ASSUME Inv, Destroy
  PROVE  Inv'
<1>1. /\ todo # <<>> /\ Head(todo).op = "destroy" /\ todo' = Tail(todo) /\ workers' = <<>>
      /\ bound' = (IF Binds THEN Distribute(cfg.nodes, threads) ELSE <<>>)
      /\ histories' = (IF bound' = <<>> THEN [n \in {1} |-> threads]
                       ELSE [n \in Range(bound') |-> Occupation(bound', n)])
      /\ UNCHANGED <<machine, cfg, policy, threads, net, instances, source, mutex, access, terminated>>
  BY DEF Destroy, Do, Done
<1>2. PICK q, s, r : Labelled(q, r) /\ s \in Label /\ Ok(Head(todo), q, s) /\ Path(Tail(todo), s, r)
  BY <1>1, UciLabels
<1>3. q.inst = "full" /\ q.pool \in {"ready", "stale"} /\ s = [q EXCEPT !.pool = "making", !.made = 0]
  BY <1>1, <1>2 DEF Ok
<1>4. /\ s.inst = "full" /\ s.made = 0 /\ s.pool = "making" /\ s.threads = q.threads /\ s.policy = q.policy
  BY <1>2, <1>3 DEF Labelled, Label
<1>5. CopiesFit(q) /\ PoolFits(q)
  BY <1>2 DEF Labelled, StateFits
<1>6. \A a \in Accessor : access[a].at = "none"
  <2>1. Parked
    BY <1>3, <1>5 DEF PoolFits
  <2> QED
    BY <1>1, <2>1, NoAccess DEF Inv
<1>7. AreNodes(cfg.nodes) /\ threads \in Nat \ {0} /\ cfg.nodes \in Seq(SUBSET Nat)
  BY ReplicationAssumption DEF Inv, Types, Fits, AreNodes
<1>8. /\ bound' \in Seq(Nat \ {0})
      /\ bound' # <<>> => Len(bound') = threads /\ Spread(cfg.nodes, bound')
      /\ \A i \in DOMAIN bound' : bound'[i] \in DOMAIN cfg.nodes
  <2>1. CASE Binds
    <3> DEFINE d == Distribute(cfg.nodes, threads)
    <3>1. d \in [1 .. threads -> DOMAIN cfg.nodes] /\ Spread(cfg.nodes, d)
      BY <1>7, Distributed
    <3> HIDE DEF d
    <3>2. \A n \in DOMAIN cfg.nodes : n \in Nat \ {0}
      BY <1>7
    <3>3. d \in Seq(Nat \ {0}) /\ Len(d) = threads
      <4>1. d = [i \in 1 .. threads |-> d[i]] /\ \A i \in 1 .. threads : d[i] \in Nat \ {0}
        BY <3>1, <3>2
      <4> QED
        BY <4>1, <1>7
    <3>4. bound' = d
      BY <1>1, <2>1 DEF d
    <3> QED
      BY <3>1, <3>3, <3>4
  <2>2. CASE ~Binds
    <3>1. bound' = <<>>
      BY <1>1, <2>2
    <3> QED
      BY <3>1
  <2> QED
    BY <2>1, <2>2
<1>9. DOMAIN histories' \subseteq Nat \ {0}
  BY <1>1, <1>7, <1>8, SharedOut
<1>10. Types'
  <2>1. todo' \in Seq(Steps)
    BY <1>1 DEF Inv, Types
  <2>2. workers' \in Seq(Worker) /\ Len(workers') <= MaxThreads
    BY <1>1, ReplicationAssumption
  <2> QED
    BY <2>1, <2>2, <1>1, <1>8, <1>9 DEF Inv, Types
<1>11. WorkersFit' /\ AccessFits' /\ AccessNeeded'
  <2>1. Uci \in Accessor /\ \A b \in 1 .. MaxThreads : b \in Accessor
    BY ReplicationAssumption DEF Accessor, Uci
  <2> QED
    BY <2>1, <1>1, <1>6 DEF WorkersFit, Inv, AccessFits, AccessNeeded
<1>12. CopiesFit(s)'
  BY <1>1, <1>3, <1>4, <1>5 DEF CopiesFit
<1>13. PoolFits(s)'
  <2>1. Len(workers') = 0 /\ DOMAIN workers' = {}
    BY <1>1
  <2>2. Shares(threads)'
    <3>1. CASE bound' = <<>>
      BY <3>1, <1>1 DEF Shares
    <3>2. CASE bound' # <<>>
      BY <3>2, <1>1, <1>8 DEF Shares
    <3> QED
      BY <3>1, <3>2
  <2>3. 0 <= threads'
    BY <1>1, <1>7
  <2> QED
    BY <2>1, <2>2, <2>3, <1>1, <1>4, <1>5, <1>8 DEF PoolFits
<1>14. Labelled(s, r)'
  BY <1>1, <1>2, <1>12, <1>13 DEF Labelled, StateFits
<1> QED
  BY <1>10, <1>11, <1>14, InvFrom

\* The numbers of the threads before one on its node.
LEMMA IndexType ==
  ASSUME NEW i \in Nat
  PROVE  NumaThreadIndex(i) \in Nat
<1>1. {j \in 1 .. i - 1 : NodeOf(j) = NodeOf(i)} \in SUBSET (1 .. i - 1) /\ IsFiniteSet(1 .. i - 1)
  BY FS_Interval
<1> QED
  BY <1>1, FS_Subset, FS_CardinalityType DEF NumaThreadIndex

\* The new worker has the next index on its node.
LEMMA CreatesKeep ==
  ASSUME Inv, Create
  PROVE  Inv'
<1> DEFINE i == Head(todo).worker
           new == [token |-> NodeOf(i), index |-> NumaThreadIndex(i), total |-> histories[NodeOf(i)],
                   table |-> Absent, phase |-> "clear"]
<1>1. /\ todo # <<>> /\ Head(todo).op = "create" /\ Parked /\ todo' = Tail(todo)
      /\ workers' = Append(workers, new)
      /\ access' = [access EXCEPT ![i] = Reads(NodeOf(i))]
      /\ UNCHANGED <<machine, cfg, policy, threads, net, instances, source, mutex, bound, histories,
                     terminated>>
  BY DEF Create, Do, Done
<1>2. PICK q, s, r : Labelled(q, r) /\ s \in Label /\ Ok(Head(todo), q, s) /\ Path(Tail(todo), s, r)
  BY <1>1, UciLabels
<1>3. /\ q.inst = "full" /\ q.pool = "making" /\ i = q.made + 1 /\ i <= q.threads
      /\ s = [q EXCEPT !.made = q.made + 1]
  BY <1>1, <1>2 DEF Ok
<1> HIDE DEF i
<1>4. /\ s.inst = "full" /\ s.made = i /\ s.pool = "making" /\ s.threads = q.threads /\ s.policy = q.policy
  BY <1>2, <1>3 DEF Labelled, Label
<1>5. CopiesFit(q) /\ PoolFits(q) /\ q.made \in Nat
  BY <1>2 DEF Labelled, StateFits, Label
<1>6. workers \in Seq(Worker) /\ q.made = Len(workers) /\ q.threads = threads
  BY <1>5 DEF PoolFits, Inv, Types
<1>7. threads \in Nat \ {0} /\ threads <= MaxThreads /\ MaxThreads \in Nat
  BY ReplicationAssumption DEF Inv, Types
<1>8. i \in 1 .. threads /\ i \in 1 .. MaxThreads /\ i \in Nat /\ i = Len(workers) + 1
  BY <1>3, <1>5, <1>6, <1>7
<1>9. Shares(threads) /\ bound \in Seq(Nat \ {0})
  BY <1>3, <1>5 DEF PoolFits, Inv, Types
<1>10. /\ NodeOf(i) \in DOMAIN histories /\ histories[NodeOf(i)] \in Nat /\ NodeOf(i) \in Nat \ {0}
  <2>1. bound # <<>> => Len(bound) = threads
    BY <1>9 DEF Shares
  <2>2. histories = IF bound = <<>> THEN [m \in {1} |-> threads]
                    ELSE [m \in Range(bound) |-> Occupation(bound, m)]
    BY <1>9 DEF Shares
  <2>3. /\ DOMAIN histories \subseteq Nat \ {0}
        /\ \A m \in DOMAIN histories : histories[m] \in Nat
        /\ \A j \in 1 .. threads : (IF bound = <<>> THEN 1 ELSE bound[j]) \in DOMAIN histories
    BY <2>1, <2>2, <1>7, <1>9, SharedOut
  <2>4. NodeOf(i) = IF bound = <<>> THEN 1 ELSE bound[i]
    BY DEF NodeOf
  <2> QED
    BY <2>3, <2>4, <1>8
<1>11. new \in Worker
  BY <1>8, <1>10, IndexType DEF Worker
<1>12. /\ new.token = NodeOf(i) /\ new.index = NumaThreadIndex(i) /\ new.total = histories[NodeOf(i)]
       /\ new.phase = "clear"
  OBVIOUS
<1> HIDE DEF new
<1>13. /\ workers' \in Seq(Worker) /\ Len(workers') = i /\ workers'[i] = new
       /\ \A j \in DOMAIN workers : j \in DOMAIN workers' /\ workers'[j] = workers[j] /\ j # i
       /\ \A j \in DOMAIN workers' : j \in DOMAIN workers \/ j = i
       /\ i \in DOMAIN workers'
  BY <1>1, <1>6, <1>8, <1>11
<1>14. \A a \in Accessor : access[a].at = "none"
  BY <1>1, NoAccess DEF Inv
<1>15. i \in Accessor /\ i # Uci /\ Uci \in Accessor /\ \A b \in 1 .. MaxThreads : b \in Accessor
  BY <1>7, <1>8 DEF Accessor, Uci
<1>16. access' \in [Accessor -> Access] /\ AccessFits'
  BY <1>1, <1>10, <1>14, <1>15, OthersFit, ReadsIsAccess DEF Inv
<1>17. /\ access'[i].at = "check" /\ access'[i].node = NodeOf(i)
       /\ \A b \in Accessor : b # i => access'[b].at = "none"
  <2>1. access \in [Accessor -> Access]
    BY DEF Inv, Types
  <2>2. access'[i] = Reads(NodeOf(i)) /\ \A b \in Accessor : b # i => access'[b] = access[b]
    BY <2>1, <1>1, <1>15
  <2> QED
    BY <2>2, <1>10, <1>14, ReadsIsAccess
<1>18. Types'
  <2>1. todo' \in Seq(Steps)
    BY <1>1 DEF Inv, Types
  <2>2. Len(workers') <= MaxThreads
    BY <1>8, <1>13
  <2> QED
    BY <2>1, <2>2, <1>1, <1>13, <1>16 DEF Inv, Types
<1>19. WorkersFit'
  <2>1. \A j : NodeOf(j)' = NodeOf(j) /\ NumaThreadIndex(j)' = NumaThreadIndex(j)
    BY <1>1 DEF NodeOf, NumaThreadIndex
  <2>2. ASSUME NEW j \in DOMAIN workers'
        PROVE  /\ workers'[j].token = NodeOf(j)
               /\ workers'[j].index = NumaThreadIndex(j)
               /\ NodeOf(j) \in DOMAIN histories /\ workers'[j].total = histories[NodeOf(j)]
    <3>1. CASE j = i
      BY <3>1, <1>10, <1>12, <1>13
    <3>2. CASE j \in DOMAIN workers
      BY <3>2, <1>13 DEF Inv, WorkersFit
    <3> QED
      BY <3>1, <3>2, <1>13
  <2> QED
    BY <2>1, <2>2, <1>1 DEF WorkersFit
<1>20. AccessNeeded'
  <2>1. access'[Uci].at = "none"
    BY <1>15, <1>17
  <2>2. ASSUME NEW b \in 1 .. MaxThreads
        PROVE  /\ access'[b].at # "none" =>
                    /\ b \in DOMAIN workers' /\ workers'[b].phase # "parked"
                    /\ access'[b].node = workers'[b].token
               /\ b \in DOMAIN workers' => (workers'[b].phase = "clear" => access'[b].at # "none")
    <3>1. CASE b = i
      BY <3>1, <1>12, <1>13, <1>17
    <3>2. CASE b # i
      <4>1. access'[b].at = "none"
        BY <3>2, <1>15, <1>17
      <4>2. b \in DOMAIN workers' => workers'[b].phase = "parked"
        BY <3>2, <1>1, <1>13 DEF Parked
      <4> QED
        BY <4>1, <4>2
    <3> QED
      BY <3>1, <3>2
  <2> QED
    BY <2>1, <2>2 DEF AccessNeeded
<1>21. CopiesFit(s)'
  BY <1>1, <1>3, <1>4, <1>5 DEF CopiesFit
<1>22. PoolFits(s)'
  <2>1. ASSUME NEW j \in DOMAIN workers'
        PROVE  /\ workers'[j].phase # "search"
               /\ workers'[j].phase = "parked" => workers'[j].table = net'
    <3>1. CASE j = i
      BY <3>1, <1>12, <1>13
    <3>2. CASE j \in DOMAIN workers
      <4>1. workers[j].phase # "search" /\ (workers[j].phase = "parked" => workers[j].table = net)
        BY <3>2, <1>3, <1>5 DEF PoolFits
      <4> QED
        BY <4>1, <3>2, <1>1, <1>13
    <3> QED
      BY <3>1, <3>2, <1>13
  <2>2. Shares(threads)'
    BY <1>1, <1>9 DEF Shares
  <2>3. i <= threads'
    BY <1>1, <1>8
  <2> QED
    BY <2>1, <2>2, <2>3, <1>1, <1>3, <1>4, <1>5, <1>13 DEF PoolFits
<1>23. Labelled(s, r)'
  BY <1>1, <1>2, <1>21, <1>22 DEF Labelled, StateFits
<1> QED
  BY <1>16, <1>18, <1>19, <1>20, <1>23, InvFrom

\* All workers get a phase, and keep the rest.
LEMMA StartedAll ==
  ASSUME Types, WorkersFit, NEW phase \in {"clear", "search"}, workers' = StartAll(phase),
         UNCHANGED <<bound, histories>>
  PROVE  /\ workers' \in Seq(Worker) /\ Len(workers') = Len(workers) /\ DOMAIN workers' = DOMAIN workers
         /\ \A j \in DOMAIN workers : /\ workers'[j].token = workers[j].token
                                      /\ workers'[j].table = workers[j].table
                                      /\ workers'[j].phase = phase
         /\ WorkersFit'
<1>1. workers \in Seq(Worker) /\ \A j \in DOMAIN workers : workers[j] \in Worker
  BY DEF Types
<1>2. \A j \in DOMAIN workers :
        LET new == [workers[j] EXCEPT !.phase = phase]
        IN /\ new \in Worker /\ new.token = workers[j].token /\ new.index = workers[j].index
           /\ new.total = workers[j].total /\ new.table = workers[j].table /\ new.phase = phase
  BY <1>1 DEF Worker
<1>3. DOMAIN workers' = DOMAIN workers /\ \A j \in DOMAIN workers : workers'[j] = [workers[j] EXCEPT !.phase = phase]
  BY DEF StartAll
<1>4. \A j \in DOMAIN workers : /\ workers'[j] \in Worker
                                /\ workers'[j].token = workers[j].token
                                /\ workers'[j].index = workers[j].index
                                /\ workers'[j].total = workers[j].total
                                /\ workers'[j].table = workers[j].table
                                /\ workers'[j].phase = phase
  BY <1>2, <1>3
<1>5. workers' \in Seq(Worker) /\ Len(workers') = Len(workers)
  <2>1. workers' = [j \in 1 .. Len(workers) |-> workers'[j]]
    BY <1>1 DEF StartAll
  <2>2. \A j \in 1 .. Len(workers) : workers'[j] \in Worker
    BY <1>1, <1>4
  <2>3. Len(workers) \in Nat
    BY <1>1
  <2> QED
    BY <2>1, <2>2, <2>3
<1>6. \A j \in DOMAIN workers : NodeOf(j)' = NodeOf(j) /\ NumaThreadIndex(j)' = NumaThreadIndex(j)
  BY DEF NodeOf, NumaThreadIndex
<1>7. WorkersFit'
  BY <1>3, <1>4, <1>6 DEF WorkersFit
<1> QED
  BY <1>3, <1>4, <1>5, <1>7

\* All the threads start to clear themselves, and later to search.
LEMMA ClearsKeep ==
  ASSUME Inv, Clear
  PROVE  Inv'
<1>1. /\ todo # <<>> /\ Head(todo).op = "clear" /\ Parked /\ todo' = Tail(todo) /\ workers' = StartAll("clear")
      /\ access' = [a \in Accessor |-> IF a \in DOMAIN workers THEN Reads(workers[a].token) ELSE access[a]]
      /\ UNCHANGED <<machine, cfg, policy, threads, net, instances, source, mutex, bound, histories,
                     terminated>>
  BY DEF Clear, Do, Done
<1>2. PICK q, s, r : Labelled(q, r) /\ s \in Label /\ Ok(Head(todo), q, s) /\ Path(Tail(todo), s, r)
  BY <1>1, UciLabels
<1>3. /\ q.inst = "full"
      /\ q.pool = "old" \/ (q.pool = "making" /\ q.made = q.threads)
      /\ s = [q EXCEPT !.pool = "clearing"]
  BY <1>1, <1>2 DEF Ok
<1>4. /\ s.inst = "full" /\ s.made = q.made /\ s.pool = "clearing" /\ s.threads = q.threads /\ s.policy = q.policy
  BY <1>2, <1>3 DEF Labelled, Label, Ok
<1>5. CopiesFit(q) /\ PoolFits(q) /\ q.inst = "full"
  BY <1>1, <1>2 DEF Labelled, StateFits, Ok
<1>6. /\ workers' \in Seq(Worker) /\ Len(workers') = Len(workers) /\ DOMAIN workers' = DOMAIN workers
      /\ \A j \in DOMAIN workers : /\ workers'[j].token = workers[j].token
                                   /\ workers'[j].table = workers[j].table
                                   /\ workers'[j].phase = "clear"
      /\ WorkersFit'
  BY <1>1, StartedAll DEF Inv
<1>7. \A a \in Accessor : access[a].at = "none"
  BY <1>1, NoAccess DEF Inv
<1>8. ASSUME NEW j \in DOMAIN workers
      PROVE  Reads(workers[j].token) \in Access /\ Reads(workers[j].token).at = "check"
               /\ Reads(workers[j].token).node = workers[j].token /\ Reads(workers[j].token).live
  <2>1. workers[j] \in Worker
    BY DEF Inv, Types
  <2>2. workers[j].token \in Nat
    BY <2>1 DEF Worker
  <2> QED
    BY <2>2, ReadsIsAccess
<1>9. ASSUME NEW a \in Accessor
      PROVE  /\ access'[a] \in Access /\ access'[a].live
             /\ access'[a].at = IF a \in DOMAIN workers THEN "check" ELSE "none"
             /\ a \in DOMAIN workers => access'[a].node = workers[a].token
  <2>1. access[a] \in Access /\ access[a].live
    BY DEF Inv, Types, AccessFits
  <2>2. access'[a] = IF a \in DOMAIN workers THEN Reads(workers[a].token) ELSE access[a]
    BY <1>1
  <2> QED
    BY <2>1, <2>2, <1>7, <1>8
<1>10. access' \in [Accessor -> Access]
  <2>1. access' = [a \in Accessor |-> access'[a]]
    BY <1>1
  <2> QED
    BY <2>1, <1>9
<1>11. Types'
  <2>1. todo' \in Seq(Steps)
    BY <1>1 DEF Inv, Types
  <2> QED
    BY <2>1, <1>1, <1>6, <1>10 DEF Inv, Types
<1>12. AccessFits'
  <2> SUFFICES ASSUME NEW a \in Accessor
               PROVE  AccessIsFit(a)'
    BY DEF AccessFits, AccessIsFit
  <2>1. mutex # a
    BY <1>7 DEF Inv, AccessFits
  <2>2. access'[a].at \in {"check", "none"} /\ access'[a].live
    BY <1>9
  <2> QED
    BY <2>1, <2>2, <1>1 DEF AccessIsFit
<1>13. AccessNeeded'
  <2>1. Uci \in Accessor /\ Uci \notin DOMAIN workers /\ \A b \in 1 .. MaxThreads : b \in Accessor
    BY ReplicationAssumption DEF Accessor, Uci, Inv, Types
  <2>2. access'[Uci].at = "none"
    BY <2>1, <1>9
  <2>3. ASSUME NEW b \in 1 .. MaxThreads
        PROVE  /\ access'[b].at # "none" =>
                    /\ b \in DOMAIN workers' /\ workers'[b].phase # "parked"
                    /\ access'[b].node = workers'[b].token
               /\ b \in DOMAIN workers' => (workers'[b].phase = "clear" => access'[b].at # "none")
    <3>1. b \in Accessor
      BY <2>1
    <3>2. CASE b \in DOMAIN workers
      BY <3>1, <3>2, <1>6, <1>9
    <3>3. CASE b \notin DOMAIN workers
      BY <3>1, <3>3, <1>6, <1>9
    <3> QED
      BY <3>2, <3>3
  <2> QED
    BY <2>2, <2>3 DEF AccessNeeded
<1>14. CopiesFit(s)'
  BY <1>1, <1>4, <1>5 DEF CopiesFit
<1>15. PoolFits(s)'
  <2>1. \A i \in DOMAIN workers' : workers'[i].phase = "clear"
    BY <1>6
  <2>2. s.made > 0 => Shares(s.made)
    <3>1. CASE q.pool = "old"
      BY <3>1, <1>4, <1>5 DEF PoolFits
    <3>2. CASE q.pool = "making" /\ q.made = q.threads
      BY <3>2, <1>4, <1>5 DEF PoolFits
    <3> QED
      BY <3>1, <3>2, <1>3
  <2>3. s.made > 0 => Shares(s.made)'
    BY <2>2, <1>1 DEF Shares
  <2>4. q.pool # "stale"
    BY <1>3
  <2> QED
    BY <2>1, <2>3, <2>4, <1>1, <1>4, <1>5, <1>6 DEF PoolFits
<1>16. Labelled(s, r)'
  BY <1>1, <1>2, <1>14, <1>15 DEF Labelled, StateFits
<1> QED
  BY <1>6, <1>11, <1>12, <1>13, <1>16, InvFrom

LEMMA StartsSearchKeep ==
  ASSUME Inv, StartSearch
  PROVE  Inv'
<1>1. /\ todo # <<>> /\ Head(todo).op = "go" /\ todo' = Tail(todo) /\ workers' = StartAll("search")
      /\ UNCHANGED <<machine, cfg, policy, threads, net, instances, source, mutex, bound, histories, access,
                     terminated>>
  BY DEF StartSearch, Do, Done
<1>2. PICK q, s, r : Labelled(q, r) /\ s \in Label /\ Ok(Head(todo), q, s) /\ Path(Tail(todo), s, r)
  BY <1>1, UciLabels
<1>3. q.inst = "full" /\ q.pool = "ready" /\ s = [q EXCEPT !.pool = "busy"]
  BY <1>1, <1>2 DEF Ok
<1>4. /\ s.inst = "full" /\ s.made = q.made /\ s.pool = "busy" /\ s.threads = q.threads /\ s.policy = q.policy
  BY <1>2, <1>3 DEF Labelled, Label
<1>5. CopiesFit(q) /\ PoolFits(q)
  BY <1>2 DEF Labelled, StateFits
<1>6. /\ workers' \in Seq(Worker) /\ Len(workers') = Len(workers) /\ DOMAIN workers' = DOMAIN workers
      /\ \A j \in DOMAIN workers : /\ workers'[j].token = workers[j].token
                                   /\ workers'[j].table = workers[j].table
                                   /\ workers'[j].phase = "search"
      /\ WorkersFit'
  BY <1>1, StartedAll DEF Inv
<1>7. \A a \in Accessor : access[a].at = "none"
  <2>1. Parked
    BY <1>3, <1>5 DEF PoolFits
  <2> QED
    BY <1>1, <2>1, NoAccess DEF Inv
<1>8. Types' /\ AccessFits'
  <2>1. todo' \in Seq(Steps)
    BY <1>1 DEF Inv, Types
  <2> QED
    BY <2>1, <1>1, <1>6 DEF Inv, Types, AccessFits
<1>9. AccessNeeded'
  <2>1. Uci \in Accessor /\ \A b \in 1 .. MaxThreads : b \in Accessor
    BY ReplicationAssumption DEF Accessor, Uci
  <2>2. access'[Uci].at = "none" /\ \A b \in 1 .. MaxThreads : access'[b].at = "none"
    BY <2>1, <1>1, <1>7
  <2>3. \A b \in DOMAIN workers' : workers'[b].phase # "clear"
    BY <1>6
  <2> QED
    BY <2>2, <2>3 DEF AccessNeeded
<1>10. CopiesFit(s)'
  BY <1>1, <1>3, <1>4, <1>5 DEF CopiesFit
<1>11. PoolFits(s)'
  <2>1. \A i \in DOMAIN workers' : workers'[i].phase # "clear" /\ workers'[i].table = net'
    BY <1>1, <1>3, <1>5, <1>6 DEF PoolFits
  <2>2. s.made > 0 => Shares(s.made)'
    BY <1>1, <1>3, <1>4, <1>5 DEF PoolFits, Shares
  <2> QED
    BY <2>1, <2>2, <1>1, <1>3, <1>4, <1>5, <1>6 DEF PoolFits
<1>12. Labelled(s, r)'
  BY <1>1, <1>2, <1>10, <1>11 DEF Labelled, StateFits
<1> QED
  BY <1>6, <1>8, <1>9, <1>12, InvFrom

\* The engine starts on the nodes of the machine, with no copies and no pool.
LEMMA InitFits ==
  ASSUME Init
  PROVE  Inv
<1> DEFINE q == [inst |-> "empty", pool |-> "stale", made |-> 0, threads |-> 1, policy |-> "auto"]
<1>1. /\ machine \in Machines /\ cfg = Config("auto") /\ policy = "auto" /\ threads = 1 /\ net \in Nets
      /\ instances = <<>> /\ source = net /\ mutex = Nobody /\ bound = <<>> /\ histories = <<>>
      /\ workers = <<>> /\ access = [a \in Accessor |-> Idle] /\ terminated = FALSE
      /\ todo = <<Step("first"), Step("resize")>> \o ResizeThreads(1)
  BY DEF Init
<1>2. 1 \in 1 .. MaxThreads /\ "auto" \in Policies /\ "auto" \notin DOMAIN NodeLists
  BY ReplicationAssumption
<1>3. Fits(cfg, machine)
  <2>1. Accepted("auto")
    BY <1>2 DEF Accepted
  <2> QED
    BY <2>1, <1>1, ConfigFits
<1>4. q \in Label
  BY <1>2 DEF Label
<1>5. /\ q.inst = "empty" /\ q.pool = "stale" /\ q.made = 0 /\ q.threads = 1 /\ q.policy = "auto"
  OBVIOUS
<1> HIDE DEF q
<1>6. PICK r \in Label : todo \in Seq(Steps) /\ Path(todo, q, r) /\ Rests(r)
  BY <1>1, <1>4, <1>5, FirstLeads DEF Leads
<1>7. DOMAIN workers = {} /\ DOMAIN histories = {} /\ Len(workers) = 0
  BY <1>1
<1>8. \A a \in Accessor : access[a] = Idle
  BY <1>1
<1>9. Types
  <2>1. Len(workers) <= MaxThreads
    BY <1>7, ReplicationAssumption
  <2>2. instances \in Seq(Nets \cup {Absent}) /\ bound \in Seq(Nat \ {0}) /\ workers \in Seq(Worker)
    BY <1>1
  <2>3. access \in [Accessor -> Access]
    BY <1>1, IdleIsAccess
  <2> QED
    BY <2>1, <2>2, <2>3, <1>1, <1>2, <1>3, <1>6, <1>7 DEF Types
<1>10. WorkersFit
  BY <1>7 DEF WorkersFit
<1>11. AccessFits
  <2> SUFFICES ASSUME NEW a \in Accessor
               PROVE  /\ access[a].live
                      /\ access[a].at \in {"recheck", "build", "assign"} <=> mutex = a
                      /\ access[a].at \in {"build", "assign"} => instances[access[a].node] = Absent
                      /\ access[a].at \in {"deref", "use"} => instances[access[a].node] = net
                      /\ access[a].at \in {"assign", "use"} => access[a].net = net
    BY DEF AccessFits
  <2>1. mutex # a
    BY <1>1, ReplicationAssumption DEF Nobody, Accessor
  <2> QED
    BY <2>1, <1>8, IdleIsAccess
<1>12. AccessNeeded
  <2>1. Uci \in Accessor /\ \A a \in 1 .. MaxThreads : a \in Accessor
    BY ReplicationAssumption DEF Accessor, Uci
  <2> QED
    BY <2>1, <1>7, <1>8, IdleIsAccess DEF AccessNeeded
<1>13. StateFits(q)
  <2>1. CopiesFit(q)
    BY <1>1, <1>5 DEF CopiesFit
  <2>2. PoolFits(q)
    BY <1>1, <1>5, <1>7 DEF PoolFits, Parked
  <2> QED
    BY <2>1, <2>2, <1>4 DEF StateFits
<1> QED
  BY <1>4, <1>6, <1>9, <1>10, <1>11, <1>12, <1>13 DEF Inv

\* Every step keeps the invariant, if no export comes while threads search.
LEMMA NextKeeps ==
  ASSUME ~ExportInSearch, Inv, [Next]_vars
  PROVE  Inv'
<1>1. CASE Command
  BY <1>1, CommandsKeep
<1>2. CASE UciStep
  <2>1. Wait \/ Set \/ SetConfig \/ Copy \/ Empty \/ First \/ Resize
          \/ Destroy \/ Create \/ Clear \/ StartSearch \/ Ensure
    BY <1>2 DEF UciStep
  <2>2. CASE Wait \/ Set \/ SetConfig
    BY <2>2, WaitsKeep, SetsKeep, SetConfigsKeep
  <2>3. CASE Copy \/ Empty \/ First \/ Resize
    BY <2>3, CopiesKeep, EmptiesKeep, FirstsKeep, InstancesResize
  <2>4. CASE Destroy \/ Create \/ Clear
    BY <2>4, DestroysKeep, CreatesKeep, ClearsKeep
  <2>5. CASE StartSearch \/ Ensure
    BY <2>5, StartsSearchKeep, EnsuresKeep
  <2> QED
    BY <2>1, <2>2, <2>3, <2>4, <2>5
<1>3. ASSUME NEW a \in Accessor, AccessStep(a)
      PROVE  Inv'
  <2>1. Check(a) \/ CheckDuringAssignment(a) \/ Lock(a) \/ Recheck(a) \/ Build(a) \/ Assign(a)
          \/ Deref(a) \/ Use(a)
    BY <1>3 DEF AccessStep
  <2>2. CASE Check(a) \/ CheckDuringAssignment(a) \/ Lock(a) \/ Recheck(a)
    BY <2>2, ChecksKeep, TerminatingKeeps, LocksKeep, RechecksKeep
  <2>3. CASE Build(a) \/ Assign(a) \/ Deref(a)
    BY <2>3, BuildsKeep, AssignsKeep, DerefsKeep
  <2>4. CASE Use(a)
    BY <2>4, UciUseKeeps, WorkersUseKeeps
  <2> QED
    BY <2>1, <2>2, <2>3, <2>4
<1>4. ASSUME NEW i \in 1 .. MaxThreads, Evaluate(i) \/ FinishSearch(i)
      PROVE  Inv'
  BY <1>4, EvaluatesKeep, FinishesKeep
<1>5. CASE UNCHANGED vars
  <2>1. UNCHANGED <<machine, cfg, policy, threads, net, instances, source, mutex, bound, histories,
                    workers, access, todo, terminated>>
    BY <1>5 DEF vars
  <2>2. PICK q, r : Labelled(q, r)
    BY DEF Inv, Labelled
  <2>3. Labelled(q, r)'
    BY <2>1, <2>2, SameLabel
  <2>4. WorkersFit'
    BY <2>1, SameWorkers DEF Inv
  <2>5. Types' /\ AccessFits' /\ AccessNeeded'
    BY <2>1 DEF Inv, Types, AccessFits, AccessNeeded
  <2> QED
    BY <2>3, <2>4, <2>5, InvFrom
<1> QED
  BY <1>1, <1>2, <1>3, <1>4, <1>5 DEF Next, Exited

\* Commands, searches and lazy copies keep the invariant, whatever the order.
THEOREM SpecKeepsInv ==
  ASSUME ~ExportInSearch
  PROVE  Spec => []Inv
<1>1. Init => Inv
  BY InitFits
<1>2. Inv /\ [Next]_vars => Inv'
  BY NextKeeps
<1> QED
  BY <1>1, <1>2, PTL DEF Spec

\* Whatever NumaPolicy says, on every machine: no node is empty, none shares a
\* processor with another, and nodes of the system cover the affinity and keep
\* the processors of an L3 cache together.
THEOREM NodesAreSound ==
  ASSUME ~ExportInSearch
  PROVE  Spec => []ConfigIsSound
<1>1. Inv => ConfigIsSound
  BY FittingIsSound DEF Inv, Types
<1> QED
  BY <1>1, SpecKeepsInv, PTL

\* distribute_threads_among_numa_nodes() spreads the threads in proportion to the
\* processors, and the pool is spread over the configuration of now, not over one
\* that was replaced: no thread would have been better off on another node.
THEOREM ThreadsAreBalanced ==
  ASSUME ~ExportInSearch
  PROVE  Spec => []Balanced
<1>1. ASSUME Inv
      PROVE  Balanced
  <2> SUFFICES ASSUME bound # <<>>, todo = <<>>
               PROVE  Spread(cfg.nodes, bound)
    BY DEF Balanced, Spread
  <2>1. PICK q, r \in Label : StateFits(q) /\ Path(todo, q, r) /\ Rests(r)
    BY <1>1 DEF Inv
  <2>2. Rests(q)
    BY <2>1, LastLabel DEF Labelled
  <2> QED
    BY <2>1, <2>2 DEF Rests, StateFits, PoolFits
<1> QED
  BY <1>1, SpecKeepsInv, PTL

\* "They all must be identical": under every interleaving of accesses and commands
\* the copies of LazyNumaReplicatedSystemWide and the tables of the workers that
\* search are of the network that EvalFile named last.
THEOREM CopiesStayIdentical ==
  ASSUME ~ExportInSearch
  PROVE  Spec => []CopiesAgree
<1>1. ASSUME Inv
      PROVE  CopiesAgree
  <2>1. PICK q, r \in Label : Labelled(q, r)
    BY <1>1 DEF Inv, Labelled
  <2>2. q \in Label /\ CopiesFit(q) /\ PoolFits(q)
    BY <2>1 DEF Labelled, StateFits
  <2>3. ASSUME todo = <<>>
        PROVE  \A n \in DOMAIN instances : instances[n] \in {net, Absent}
    BY <2>1, <2>2, <2>3, LastLabel DEF Rests, CopiesFit
  <2>4. ASSUME NEW i \in DOMAIN workers, workers[i].phase = "search"
        PROVE  workers[i].table = net
    <3>1. q.pool \in {"busy", "ready", "old", "stale", "making", "clearing"}
      BY <2>2 DEF Label
    <3>2. q.pool \notin {"old", "stale"}
      BY <2>2, <2>4 DEF PoolFits, Parked
    <3>3. q.pool \notin {"making", "clearing"}
      BY <2>2, <2>4 DEF PoolFits
    <3> QED
      BY <3>1, <3>2, <3>3, <2>2 DEF PoolFits
  <2>5. \A a \in Accessor : access[a].at = "use" => access[a].net = net
    BY <1>1 DEF Inv, AccessFits
  <2> QED
    BY <2>3, <2>4, <2>5 DEF CopiesAgree
<1> QED
  BY <1>1, SpecKeepsInv, PTL

\* operator[] finds its index in range and the copy it returned is there for as
\* long as it is used, although the vector of copies is emptied and resized.
THEOREM ReferencesStayLive ==
  ASSUME ~ExportInSearch
  PROVE  Spec => []ReferencesLive
<1>1. ASSUME Inv
      PROVE  ReferencesLive
  <2>1. Types /\ AccessFits /\ AccessNeeded /\ WorkersFit
    BY <1>1 DEF Inv
  <2>2. PICK q, r \in Label : Labelled(q, r)
    BY <1>1 DEF Inv, Labelled
  <2>3. TypeOK
    <3>1. cfg.nodes \in Seq(SUBSET Nat) /\ cfg.nodes # <<>> /\ cfg.custom \in BOOLEAN
      BY <2>1 DEF Types, Fits, AreNodes
    <3>2. source \in Nets
      BY <2>1, <2>2 DEF Types, Labelled, StateFits, CopiesFit
    <3>3. DOMAIN access = Accessor /\ \A a \in Accessor : access[a] \in Access
      BY <2>1 DEF Types
    <3>4. \A a \in Accessor :
            /\ access[a].at \in {"none", "check", "lock", "recheck", "build", "assign", "deref", "use"}
            /\ access[a].net \in Nets \cup {Absent}
      BY <3>3 DEF Access
    <3> QED
      BY <3>1, <3>2, <3>3, <3>4, <2>1 DEF Types, TypeOK
  <2>4. TokenInRange
    <3> SUFFICES ASSUME NEW a \in Accessor, access[a].at = "check"
                 PROVE  access[a].node \in DOMAIN instances
      BY DEF TokenInRange
    <3> QED
      BY <2>1, <2>2, AccessInRange
  <2>5. \A a \in Accessor : access[a].live
    BY <2>1 DEF AccessFits
  <2> QED
    BY <2>3, <2>4, <2>5 DEF ReferencesLive
<1> QED
  BY <1>1, SpecKeepsInv, PTL

\* The elements of a set of numbers, counted by how many are smaller, have the
\* numbers from 0 on.
Below(T, j) == {k \in T : k < j}

Ranked(T) == {Cardinality(Below(T, j)) : j \in T} = 0 .. Cardinality(T) - 1

\* One more, that is larger than all.
LEMMA RankOneMore ==
  ASSUME NEW n \in Nat, NEW T \in SUBSET (1 .. n), Ranked(T)
  PROVE  Ranked(T \cup {n + 1})
<1> DEFINE U == T \cup {n + 1}
<1>1. n + 1 \notin T
  OBVIOUS
<1>2. IsFiniteSet(T) /\ Cardinality(T) \in Nat
  <2>1. IsFiniteSet(1 .. n)
    BY FS_Interval
  <2> QED
    BY <2>1, FS_Subset, FS_CardinalityType
<1>3. Cardinality(U) = Cardinality(T) + 1
  BY <1>1, <1>2, FS_AddElement
<1>4. \A j \in T : Below(U, j) = Below(T, j)
  BY DEF Below
<1>5. Below(U, n + 1) = T
  <2>1. \A k \in T : k < n + 1
    OBVIOUS
  <2>2. ~ (n + 1 < n + 1)
    OBVIOUS
  <2>3. \A k \in U : k < n + 1 <=> k \in T
    BY <2>1, <2>2
  <2> QED
    BY <2>3 DEF Below
<1>6. {Cardinality(Below(U, j)) : j \in U} = {Cardinality(Below(T, j)) : j \in T} \cup {Cardinality(T)}
  BY <1>4, <1>5
<1>7. PICK c \in Nat : c = Cardinality(T)
  BY <1>2
<1>8. 0 .. c = (0 .. c - 1) \cup {c} /\ (c + 1) - 1 = c
  OBVIOUS
<1> HIDE DEF U
<1>9. Ranked(U)
  BY <1>3, <1>6, <1>7, <1>8 DEF Ranked
<1> QED
  BY <1>9 DEF U

\* Hence the ranks of a set are the numbers from 0 on.
LEMMA RanksCount ==
  ASSUME NEW n \in Nat, NEW T \in SUBSET (1 .. n)
  PROVE  Ranked(T)
<1> DEFINE S == {m \in Nat : \A V \in SUBSET (1 .. m) : Ranked(V)}
<1>1. 0 \in S
  <2> SUFFICES ASSUME NEW V \in SUBSET (1 .. 0)
               PROVE  Ranked(V)
    OBVIOUS
  <2>1. V = {}
    OBVIOUS
  <2>2. Cardinality({}) = 0
    BY FS_EmptySet
  <2>3. 0 .. 0 - 1 = {}
    OBVIOUS
  <2> QED
    BY <2>1, <2>2, <2>3 DEF Ranked
<1>2. ASSUME NEW m \in Nat, m \in S
      PROVE  m + 1 \in S
  <2>1. \A V \in SUBSET (1 .. m) : Ranked(V)
    BY <1>2
  <2> SUFFICES ASSUME NEW V \in SUBSET (1 .. m + 1)
               PROVE  Ranked(V)
    OBVIOUS
  <2>2. CASE m + 1 \in V
    <3>1. V \ {m + 1} \in SUBSET (1 .. m) /\ V = (V \ {m + 1}) \cup {m + 1}
      BY <2>2
    <3>2. Ranked(V \ {m + 1})
      BY <2>1, <3>1
    <3>3. Ranked((V \ {m + 1}) \cup {m + 1})
      BY <3>1, <3>2, RankOneMore
    <3> QED
      BY <3>1, <3>3
  <2>3. CASE m + 1 \notin V
    <3>1. V \in SUBSET (1 .. m)
      BY <2>3
    <3> QED
      BY <2>1, <3>1
  <2> QED
    BY <2>2, <2>3
<1> HIDE DEF S
<1>3. n \in S
  BY <1>1, <1>2, Induction
<1> QED
  BY <1>3 DEF S

\* The threads that NodeOf sends to a node.
Sharing(n) == {j \in DOMAIN workers : NodeOf(j) = n}

\* counts[numaId]++ gives the workers of a node the indices from 0 on.
LEMMA IndicesCount ==
  ASSUME Types, WorkersFit, NEW n
  PROVE  {workers[j].index : j \in Sharing(n)} = 0 .. Cardinality(Sharing(n)) - 1
<1>1. Len(workers) \in Nat /\ DOMAIN workers = 1 .. Len(workers)
  BY DEF Types
<1>2. Sharing(n) \in SUBSET (1 .. Len(workers))
  BY <1>1 DEF Sharing
<1>3. \A j \in Sharing(n) : workers[j].index = Cardinality(Below(Sharing(n), j))
  <2> TAKE j \in Sharing(n)
  <2>1. j \in DOMAIN workers /\ NodeOf(j) = n
    BY DEF Sharing
  <2>2. workers[j].index = Cardinality({k \in 1 .. j - 1 : NodeOf(k) = NodeOf(j)})
    BY <2>1 DEF WorkersFit, NumaThreadIndex
  <2>3. {k \in 1 .. j - 1 : NodeOf(k) = NodeOf(j)} = Below(Sharing(n), j)
    BY <2>1, <1>1 DEF Sharing, Below
  <2> QED
    BY <2>2, <2>3
<1>4. {workers[j].index : j \in Sharing(n)} = {Cardinality(Below(Sharing(n), j)) : j \in Sharing(n)}
  BY <1>3
<1>5. Ranked(Sharing(n))
  BY <1>1, <1>2, RanksCount
<1> QED
  BY <1>4, <1>5 DEF Ranked

\* A pool that is complete has as many workers on a node as share its histories.
LEMMA SharesCount ==
  ASSUME Types, NEW i \in DOMAIN workers, Shares(Len(workers))
  PROVE  Cardinality(Sharing(NodeOf(i))) = histories[NodeOf(i)]
<1>1. Len(workers) \in Nat /\ DOMAIN workers = 1 .. Len(workers) /\ bound \in Seq(Nat \ {0})
  BY DEF Types
<1>2. CASE bound = <<>> /\ histories = [n \in {1} |-> Len(workers)]
  <2>1. NodeOf(i) = 1 /\ Sharing(1) = 1 .. Len(workers)
    BY <1>1, <1>2 DEF NodeOf, Sharing
  <2>2. Cardinality(1 .. Len(workers)) = Len(workers)
    <3>1. PICK l \in Nat : l = Len(workers) /\ l > 0
      <4>1. Len(workers) \in Nat /\ i \in 1 .. Len(workers)
        BY <1>1
      <4>2. Len(workers) > 0
        BY <4>1
      <4> QED
        BY <4>1, <4>2
    <3>2. Cardinality(1 .. l) = IF 1 > l THEN 0 ELSE l - 1 + 1
      BY <3>1, FS_Interval
    <3> QED
      BY <3>1, <3>2
  <2> QED
    BY <2>1, <2>2, <1>2
<1>3. CASE bound # <<>> /\ Len(bound) = Len(workers) /\ histories = [n \in Range(bound) |-> Occupation(bound, n)]
  <2>1. NodeOf(i) = bound[i] /\ bound[i] \in Range(bound)
    BY <1>1, <1>3 DEF NodeOf, Range
  <2>2. Sharing(bound[i]) = {j \in DOMAIN bound : bound[j] = bound[i]}
    BY <1>1, <1>3 DEF NodeOf, Sharing
  <2> QED
    BY <2>1, <2>2, <1>3 DEF Occupation
<1> QED
  BY <1>2, <1>3 DEF Shares

\* Worker::clear() of all the workers of a node clears the whole of their shared
\* histories, each element once: the indices are 0, 1, ... and, as soon as the pool
\* is complete, there are as many workers as the histories are divided into.
THEOREM HistoriesAreCleared ==
  ASSUME ~ExportInSearch
  PROVE  Spec => []HistoriesCleared
<1>1. ASSUME Inv
      PROVE  HistoriesCleared
  <2>1. Types /\ WorkersFit
    BY <1>1 DEF Inv
  <2>2. PICK q, r \in Label : Labelled(q, r)
    BY <1>1 DEF Inv, Labelled
  <2>3. ASSUME NEW i \in DOMAIN workers
        PROVE  {j \in DOMAIN workers : workers[j].token = workers[i].token} = Sharing(NodeOf(i))
    BY <2>1 DEF WorkersFit, Sharing
  <2>4. ASSUME NEW i \in DOMAIN workers
        PROVE  /\ workers[i].token = NodeOf(i) /\ NodeOf(i) \in DOMAIN histories
               /\ workers[i].total = histories[NodeOf(i)]
    BY <2>1 DEF WorkersFit
  <2>5. ASSUME NEW i \in DOMAIN workers
        PROVE  {workers[j].index : j \in Sharing(NodeOf(i))} = 0 .. Cardinality(Sharing(NodeOf(i))) - 1
    BY <2>1, IndicesCount
  <2>6. ASSUME NEW i \in DOMAIN workers, todo = <<>>
        PROVE  Cardinality(Sharing(NodeOf(i))) = histories[NodeOf(i)]
    <3>1. Rests(q) /\ PoolFits(q)
      BY <2>2, <2>6, LastLabel DEF Labelled, StateFits
    <3>2. Len(workers) \in Nat /\ Len(workers) > 0 /\ q.made = Len(workers) /\ q.pool # "making"
      BY <2>1, <2>6, <3>1 DEF Types, PoolFits, Rests
    <3> QED
      BY <2>1, <3>1, <3>2, SharesCount DEF PoolFits
  <2> QED
    BY <2>3, <2>4, <2>5, <2>6 DEF HistoriesCleared
<1> QED
  BY <1>1, SpecKeepsInv, PTL
===============================================================================
