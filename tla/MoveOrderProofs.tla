----------------------------- MODULE MoveOrderProofs -----------------------------
(***************************************************************************)
(* Iterative deepening, for any list of root moves, any values of the      *)
(* searches below them and any limits: what is reported at the end is what *)
(* was found.                                                              *)
(*                                                                         *)
(* LinesAreSound and ShownIsFinal speak of the end of the loop only, so    *)
(* DeepeningInv says what they need at every place in it: that the root    *)
(* moves are a permutation of those of the position (NoneIsMissing), that  *)
(* a score goes with its line (LinesFit), in which iteration and line each *)
(* was found (AllFoundBefore), which lines are exact and in order while    *)
(* nothing was stopped (FinishedAreExact, FinishedAreInOrder), that what   *)
(* was sent as final still stands (SentIsShown), and what is left of a     *)
(* search that was cut (CutIsGuarded).                                     *)
(***************************************************************************)
EXTENDS Deepening, MovePicker, FiniteSetTheorems, WellFoundedInduction, TLAPS

\* The root moves and what is stored with each
N == Len(RootMoves)
Scores == (-Infinite)..(Infinite - 1)
Places == [value : Int, at : Int \X Int]
Records ==
  [move : Range(RootMoves), score : Scores, uci : Int, previous : Scores, exact : BOOLEAN,
   lower : BOOLEAN, upper : BOOLEAN, pv : Places, previousPV : Places]

\* In the loop over the lines
OnLine == {"search", "judge", "show", "next"}

\* Types, and where the counters and the window are.
DeepeningTypes ==
  /\ limits \in Limits /\ rm \in [1..N -> Records]
  /\ last \in [move : Range(RootMoves) \cup {"none"}, score : Scores, pv : Places]
  /\ rootDepth \in 0..(MaxPly - 1) /\ pvIdx \in Nat \ {0}
  /\ alpha \in Int /\ beta \in Int /\ delta \in Int /\ best \in Int
  /\ uciPvSent \in BOOLEAN /\ stop \in BOOLEAN /\ cut \in BOOLEAN
  /\ pc \in OnLine \cup {"end", "iterate", "done"}
  /\ pc \in OnLine \cup {"end"} => rootDepth > 0
  /\ pc \in OnLine => pvIdx <= MultiPV
  /\ pc \in {"search", "judge"} => alpha >= -Infinite /\ beta > -Infinite /\ delta > 0
  /\ pc = "judge" /\ ~stop => best > -Infinite

\* What was sent as final is what there is, apart from bounds.
Core(lines) == [i \in DOMAIN lines |-> SubSeq(lines[i], 1, 3)]
SentIsShown ==
  limits.main /\ uciPvSent =>
    /\ pc \in {"next", "end", "iterate", "done"} /\ (pc = "next" => pvIdx = MultiPV)
    /\ Core(shown) = Core(Lines(rm))

\* Every root move is in the list.
NoneIsMissing == \A m \in Range(RootMoves) : \E i \in 1..N : rm[i].move = m

\* A score comes with its line, and if nothing was stopped a bound does too.
ItsLine(r) ==
  /\ r.score # -Infinite /\ ~IsBound(r) => r.pv.value = r.score
  /\ ~stop /\ r.score # -Infinite => r.pv.value = r.score
  /\ r.exact /\ r.previous # -Infinite => r.previousPV.value = r.previous
LinesFit == \A i \in 1..N : ItsLine(rm[i])

\* The last best move was a root move, with its line.
LastFits ==
  last.pv # NoLine =>
    last.move \in Range(RootMoves) /\ last.score # -Infinite /\ last.pv.value = last.score

\* Once an iteration is complete the first line has a score; ProbCut leaves it without one, but
\* above the window.
FirstIsScored ==
  rm[1].score = -Infinite =>
    /\ last.pv = NoLine
    /\ \/ stop \/ pc \in {"iterate", "done"}
       \/ pvIdx = 1 /\ (pc = "search" \/ (pc = "judge" /\ best >= beta))

\* While nothing was stopped, finished lines are exact, and one that came back within its
\* window.
FinishedAreExact ==
  ~stop =>
    /\ pc \in {"search", "judge"} => \A i \in 1..(pvIdx - 1) : ~IsBound(rm[i])
    /\ pc \in {"show", "next"} => \A i \in 1..pvIdx : ~IsBound(rm[i])
    /\ pc = "judge" /\ best > alpha /\ best < beta => ~IsBound(rm[pvIdx])
    /\ pc = "end" => ~IsBound(rm[1])

\* Where lines were found
FoundBefore(r) ==
  /\ r.pv.at[1] <= rootDepth /\ (rootDepth > 0 => r.previousPV.at[1] < rootDepth)
  /\ pc \in OnLine /\ r.pv.at[1] = rootDepth => r.pv.at[2] <= pvIdx
AllFoundBefore ==
  /\ \A i \in 1..N : FoundBefore(rm[i])
  /\ pc \in {"search", "judge"} =>
       \A i \in 1..(pvIdx - 1) : rm[i].pv.at[1] = rootDepth => rm[i].pv.at[2] < pvIdx
  /\ last.pv.at[1] <= rootDepth
  /\ pc \in OnLine \cup {"end"} => last.pv.at[1] < rootDepth

\* Places first to end are in order.
InOrderFrom(s, first, end) == \A i, j \in first..end : i < j => ~Before(s[j], s[i])

\* The finished lines are in order.
FinishedAreInOrder ==
  /\ pc \in {"search", "judge"} => InOrderFrom(rm, 1, pvIdx - 1)
  /\ pc \in {"show", "next"} => InOrderFrom(rm, 1, pvIdx)

\* A search that was cut has raised stop, and once its line was judged no exact loss in the
\* lines to be reported is from it.
CutIsGuarded ==
  cut =>
    /\ stop /\ pc # "search" /\ pvIdx <= MultiPV
    /\ (pc \in {"show", "next", "end"} /\ pvIdx > 1) \/ pc \in {"iterate", "done"} =>
         \A i \in 1..MultiPV :
           (pvIdx > 1 \/ i = 1) /\ IsExactLoss(rm[i]) => ~FromTheCutSearch(rm[i])

\* What holds at every place of iterative_deepening(): every part is needed to keep another one.
DeepeningInv ==
  /\ DeepeningTypes /\ SentIsShown /\ NoneIsMissing /\ LinesFit /\ LastFits /\ FirstIsScored
  /\ FinishedAreExact /\ AllFoundBefore /\ FinishedAreInOrder /\ CutIsGuarded /\ MateIsKept

\* t is s, sorted: the places from first to end are permuted by p, no other one is, and they
\* are in descending order.
IsSortedBy(p, t, s, n, first, end) ==
  /\ p \in [1..n -> 1..n]
  /\ t = [k \in 1..n |-> s[p[k]]]
  /\ \A k \in 1..n : p[k] \in first..end <=> k \in first..end
  /\ \A k \in 1..n : k \notin first..end => p[k] = k
  /\ \A i \in 1..n : \E k \in 1..n : p[k] = i
  /\ \A k, l \in first..end : k < l => ~Before(t[l], t[k])
IsSortOf(t, s, n, first, end) == \E p : IsSortedBy(p, t, s, n, first, end)

\* A root move that operator< can compare
Comparable(r) == r.score \in Int /\ r.previous \in Int

\* operator< is a strict weak order.
LEMMA BeforeOrder ==
  ASSUME NEW r, NEW s, NEW t, Comparable(r), Comparable(s), Comparable(t)
  PROVE  /\ ~Before(r, r) /\ (Before(r, s) => ~Before(s, r))
         /\ Before(r, s) /\ Before(s, t) => Before(r, t)
         /\ ~Before(r, s) /\ ~Before(s, t) => ~Before(r, t)
BY DEF Before, Comparable

\* Which of two places comes first in a stable sort, and how many come before one
AheadIn(s, i, j) == Before(s[i], s[j]) \/ (~Before(s[j], s[i]) /\ i < j)
RankIn(s, first, end, i) == Cardinality({j \in first..end : AheadIn(s, j, i)})

\* That order is total on the places.
LEMMA AheadOrder ==
  ASSUME NEW s, NEW first \in Int, NEW end \in Int, \A i \in first..end : Comparable(s[i]),
         NEW i \in first..end, NEW j \in first..end, NEW k \in first..end
  PROVE  /\ ~AheadIn(s, i, i) /\ (AheadIn(s, i, j) => ~AheadIn(s, j, i))
         /\ AheadIn(s, i, j) /\ AheadIn(s, j, k) => AheadIn(s, i, k)
         /\ i # j => AheadIn(s, i, j) \/ AheadIn(s, j, i)
<1>1. Comparable(s[i]) /\ Comparable(s[j]) /\ Comparable(s[k]) /\ i \in Int /\ j \in Int /\ k \in Int
  OBVIOUS
<1> QED
  BY <1>1 DEF AheadIn, Before, Comparable

\* The place that comes later has the higher rank.
LEMMA RankGrows ==
  ASSUME NEW s, NEW first \in Int, NEW end \in Int, \A i \in first..end : Comparable(s[i]),
         NEW i \in first..end, NEW j \in first..end, AheadIn(s, i, j)
  PROVE  /\ RankIn(s, first, end, i) \in Nat /\ RankIn(s, first, end, j) \in Nat
         /\ RankIn(s, first, end, i) < RankIn(s, first, end, j)
<1> DEFINE A == {x \in first..end : AheadIn(s, x, i)}
           B == {x \in first..end : AheadIn(s, x, j)}
<1>1. IsFiniteSet(A) /\ IsFiniteSet(B)
  <2>1. IsFiniteSet(first..end)
    BY FS_Interval
  <2>2. A \in SUBSET (first..end) /\ B \in SUBSET (first..end)
    OBVIOUS
  <2> HIDE DEF A, B
  <2> QED
    BY <2>1, <2>2, FS_Subset
<1>2. A \subseteq B /\ i \in B /\ i \notin A
  BY AheadOrder
<1>3. Cardinality(A) \in Nat /\ Cardinality(B) \in Nat /\ Cardinality(A) < Cardinality(B)
  <2> HIDE DEF A, B
  <2>1. Cardinality(A) <= Cardinality(B) /\ (Cardinality(B) = Cardinality(A) => B = A)
    BY <1>1, <1>2, FS_Subset
  <2>2. Cardinality(A) \in Nat /\ Cardinality(B) \in Nat
    BY <1>1, FS_CardinalityType
  <2> QED
    BY <1>2, <2>1, <2>2
<1> QED
  BY <1>3 DEF RankIn

\* A rank is the number of a place.
LEMMA RankRange ==
  ASSUME NEW s, NEW first \in Int, NEW end \in Int, \A i \in first..end : Comparable(s[i]),
         NEW i \in first..end
  PROVE  RankIn(s, first, end, i) + first \in first..end
<1> DEFINE A == {x \in first..end : AheadIn(s, x, i)}
<1>1. IsFiniteSet(first..end) /\ Cardinality(first..end) = end - first + 1
  BY FS_Interval
<1>2. A \in SUBSET (first..end) /\ i \notin A
  BY AheadOrder
<1>3. IsFiniteSet(A) /\ Cardinality(A) \in Nat /\ Cardinality(A) < end - first + 1
  <2> HIDE DEF A
  <2>1. IsFiniteSet(A) /\ Cardinality(A) <= Cardinality(first..end)
        /\ (Cardinality(first..end) = Cardinality(A) => first..end = A)
    BY <1>1, <1>2, FS_Subset
  <2>2. Cardinality(A) \in Nat
    BY <2>1, FS_CardinalityType
  <2> QED
    BY <1>1, <1>2, <2>1, <2>2
<1>4. RankIn(s, first, end, i) = Cardinality(A)
  BY DEF RankIn
<1> HIDE DEF A
<1> QED
  BY <1>3, <1>4

\* Each place has one that belongs there.
LEMMA RankOnto ==
  ASSUME NEW s, NEW first \in Int, NEW end \in Int, \A i \in first..end : Comparable(s[i]),
         NEW k \in first..end
  PROVE  \E i \in first..end : RankIn(s, first, end, i) + first = k
<1> DEFINE f == [i \in first..end |-> RankIn(s, first, end, i) + first]
<1>1. f \in [first..end -> first..end]
  BY RankRange
<1>2. ASSUME NEW i \in first..end, NEW j \in first..end, f[i] = f[j]
      PROVE  i = j
  <2>1. RankIn(s, first, end, i) \in Int /\ RankIn(s, first, end, j) \in Int
    <3>1. RankIn(s, first, end, i) + first \in Int /\ RankIn(s, first, end, j) + first \in Int
      BY RankRange
    <3>2. IsFiniteSet(first..end)
      BY FS_Interval
    <3>3. ASSUME NEW x PROVE RankIn(s, first, end, x) \in Nat
      <4>1. {y \in first..end : AheadIn(s, y, x)} \in SUBSET (first..end)
        OBVIOUS
      <4>2. IsFiniteSet({y \in first..end : AheadIn(s, y, x)})
        BY <3>2, <4>1, FS_Subset
      <4> QED
        BY <4>2, FS_CardinalityType DEF RankIn
    <3> QED
      BY <3>3
  <2>2. RankIn(s, first, end, i) = RankIn(s, first, end, j)
    BY <1>2, <2>1
  <2>3. ~AheadIn(s, i, j) /\ ~AheadIn(s, j, i)
    BY <2>2, <2>1, RankGrows
  <2> QED
    BY <2>3, AheadOrder
<1>3. f \in Injection(first..end, first..end)
  BY <1>1, <1>2 DEF Injection, IsInjective
<1>4. IsFiniteSet(first..end)
  BY FS_Interval
<1>5. f \in Surjection(first..end, first..end)
  <2> HIDE DEF f
  <2> QED
    BY <1>3, <1>4, FS_Injection
<1>6. PICK i \in first..end : f[i] = k
  BY <1>5 DEF Surjection
<1> QED
  BY <1>6

\* A rank is a number.
LEMMA RankInNat ==
  ASSUME NEW s, NEW first \in Int, NEW end \in Int, NEW i
  PROVE  RankIn(s, first, end, i) \in Nat
<1>1. IsFiniteSet(first..end)
  BY FS_Interval
<1>2. {y \in first..end : AheadIn(s, y, i)} \in SUBSET (first..end)
  OBVIOUS
<1>3. IsFiniteSet({y \in first..end : AheadIn(s, y, i)})
  BY <1>1, <1>2, FS_Subset
<1> QED
  BY <1>3, FS_CardinalityType DEF RankIn

\* Which one comes to place k
CameFrom(s, first, end, k) ==
  IF k \in first..end THEN CHOOSE i \in first..end : RankIn(s, first, end, i) = k - first ELSE k

\* The one that comes to place k has its rank.
LEMMA CameFromRank ==
  ASSUME NEW s, NEW first \in Int, NEW end \in Int, \A i \in first..end : Comparable(s[i]),
         NEW k \in first..end
  PROVE  /\ CameFrom(s, first, end, k) \in first..end
         /\ RankIn(s, first, end, CameFrom(s, first, end, k)) = k - first
<1>1. PICK i \in first..end : RankIn(s, first, end, i) + first = k
  BY RankOnto
<1>2. RankIn(s, first, end, i) = k - first
  BY <1>1, RankInNat
<1> QED
  BY <1>2 DEF CameFrom

\* Sorted() is a stable sort: a permutation of its range in descending order, which
\* leaves alone what is in order.
LEMMA SortedIsSort ==
  ASSUME NEW n \in Nat, NEW s, DOMAIN s = 1..n, NEW first \in 1..n, NEW end \in 1..n,
         \A i \in 1..n : Comparable(s[i])
  PROVE  /\ IsSortOf(Sorted(s, first, end), s, n, first, end)
         /\ s = [i \in 1..n |-> s[i]] /\ InOrderFrom(s, first, end) => Sorted(s, first, end) = s
<1> DEFINE t == Sorted(s, first, end)
           p == [k \in 1..n |-> CameFrom(s, first, end, k)]
<1>1. \A i \in first..end : Comparable(s[i]) /\ i \in 1..n
  OBVIOUS
<1>2. t = [k \in 1..n |-> s[CameFrom(s, first, end, k)]]
  <2>1. \A k \in 1..n : IF k \in first..end
            THEN s[CHOOSE i \in first..end : RankIn(s, first, end, i) = k - first] = s[CameFrom(s, first, end, k)]
            ELSE s[k] = s[CameFrom(s, first, end, k)]
    BY DEF CameFrom
  <2>2. t = [k \in 1..n |->
        IF k \in first..end THEN s[CHOOSE i \in first..end : RankIn(s, first, end, i) = k - first] ELSE s[k]]
    BY DEF Sorted, RankIn, AheadIn
  <2> QED
    BY <2>1, <2>2
<1>3. ASSUME NEW k \in first..end
      PROVE  p[k] \in first..end /\ RankIn(s, first, end, p[k]) = k - first
  <2>1. p[k] = CameFrom(s, first, end, k)
    BY <1>1
  <2>2. first \in Int /\ end \in Int
    OBVIOUS
  <2> HIDE DEF p
  <2>3. CameFrom(s, first, end, k) \in first..end
        /\ RankIn(s, first, end, CameFrom(s, first, end, k)) = k - first
    BY <2>2, <1>1, CameFromRank
  <2> QED
    BY <2>1, <2>3
<1>4. \A k \in 1..n : k \notin first..end => p[k] = k
  BY DEF CameFrom
<1>5. p \in [1..n -> 1..n]
  <2>1. \A k \in 1..n : p[k] \in 1..n
    BY <1>1, <1>3, <1>4
  <2> QED
    BY <2>1
<1>6. t = [k \in 1..n |-> s[p[k]]]
  BY <1>2
<1>a. first \in Int /\ end \in Int
  OBVIOUS
<1> HIDE DEF p, t
<1>b. ASSUME NEW x \in first..end, NEW y \in first..end, x # y
      PROVE  AheadIn(s, x, y) \/ AheadIn(s, y, x)
  BY <1>1, <1>a, <1>b, AheadOrder
<1>7. ASSUME NEW i \in 1..n PROVE \E k \in 1..n : p[k] = i
  <2>1. CASE i \in first..end
    <3>0. RankIn(s, first, end, i) \in Nat /\ RankIn(s, first, end, i) + first \in first..end
      BY <2>1, <1>1, <1>a, RankRange, RankInNat
    <3>1. PICK k \in first..end : RankIn(s, first, end, i) = k - first
      <4>1. RankIn(s, first, end, i) = (RankIn(s, first, end, i) + first) - first
        BY <3>0, <1>a
      <4> QED
        BY <3>0, <4>1
    <3>2. RankIn(s, first, end, p[k]) = RankIn(s, first, end, i) /\ p[k] \in first..end
      BY <3>1, <1>3
    <3>3. ~AheadIn(s, i, p[k]) /\ ~AheadIn(s, p[k], i)
      <4>1. AheadIn(s, i, p[k]) => RankIn(s, first, end, i) < RankIn(s, first, end, p[k])
        BY <3>2, <2>1, <1>1, <1>a, RankGrows
      <4>2. AheadIn(s, p[k], i) => RankIn(s, first, end, p[k]) < RankIn(s, first, end, i)
        BY <3>2, <2>1, <1>1, <1>a, RankGrows
      <4> QED
        BY <3>0, <3>2, <4>1, <4>2
    <3>4. p[k] = i
      BY <3>2, <3>3, <2>1, <1>b
    <3> QED
      BY <3>1, <3>4, <1>1
  <2>2. CASE i \notin first..end
    BY <2>2, <1>4
  <2> QED
    BY <2>1, <2>2
<1>8. ASSUME NEW k \in first..end, NEW l \in first..end, k < l
      PROVE  ~Before(t[l], t[k])
  <2>1. RankIn(s, first, end, p[k]) < RankIn(s, first, end, p[l])
    <3>1. k \in Int /\ l \in Int
      OBVIOUS
    <3> QED
      BY <1>3, <1>8, <3>1, <1>a
  <2>a. p[k] \in first..end /\ p[l] \in first..end
    BY <1>3
  <2>b. RankIn(s, first, end, p[k]) \in Nat /\ RankIn(s, first, end, p[l]) \in Nat
    BY <1>a, RankInNat
  <2>2. ~AheadIn(s, p[l], p[k])
    <3>1. AheadIn(s, p[l], p[k]) => RankIn(s, first, end, p[l]) < RankIn(s, first, end, p[k])
      BY <2>a, <1>1, <1>a, RankGrows
    <3> QED
      BY <2>1, <2>b, <3>1
  <2>3. AheadIn(s, p[k], p[l])
    <3>1. p[k] # p[l]
      BY <2>1, <2>b
    <3> QED
      BY <2>2, <3>1, <2>a, <1>b
  <2>4. t[l] = s[p[l]] /\ t[k] = s[p[k]] /\ Comparable(s[p[l]]) /\ Comparable(s[p[k]])
    BY <1>6, <1>1, <1>3
  <2>5. Before(s[p[k]], s[p[l]]) \/ ~Before(s[p[l]], s[p[k]])
    BY <2>3 DEF AheadIn
  <2>6. ~Before(s[p[l]], s[p[k]])
    BY <2>5, <2>4, BeforeOrder
  <2> QED
    BY <2>4, <2>6
<1>9. IsSortedBy(p, t, s, n, first, end)
  <2>1. \A k \in 1..n : p[k] \in first..end <=> k \in first..end
    BY <1>3, <1>4
  <2> QED
    BY <1>4, <1>5, <1>6, <1>7, <1>8, <2>1 DEF IsSortedBy
<1>10. ASSUME s = [i \in 1..n |-> s[i]], InOrderFrom(s, first, end)
       PROVE  t = s
  <2>1. ASSUME NEW i \in first..end PROVE RankIn(s, first, end, i) = i - first
    <3>1. ASSUME NEW j \in first..end
          PROVE  AheadIn(s, j, i) <=> j \in first..(i - 1)
      <4>1. j \in Int /\ i \in Int /\ Comparable(s[i]) /\ Comparable(s[j])
        BY <1>1
      <4>2. CASE j < i
        BY <4>1, <4>2, <1>10 DEF InOrderFrom, AheadIn
      <4>3. CASE j = i
        BY <4>3, <4>1, BeforeOrder DEF AheadIn
      <4>4. CASE i < j
        BY <4>1, <4>4, <1>10 DEF InOrderFrom, AheadIn
      <4> QED
        BY <4>1, <4>2, <4>3, <4>4
    <3>2. {j \in first..end : AheadIn(s, j, i)} = first..(i - 1)
      <4>1. first..(i - 1) \subseteq first..end
        OBVIOUS
      <4> QED
        BY <3>1, <4>1
    <3>3. Cardinality(first..(i - 1)) = i - first
      <4>1. i - 1 \in Int /\ first \in Int /\ first <= i
        OBVIOUS
      <4>2. Cardinality(first..(i - 1)) = IF first > i - 1 THEN 0 ELSE (i - 1) - first + 1
        BY <4>1, FS_Interval
      <4> QED
        BY <4>1, <4>2
    <3> QED
      BY <3>2, <3>3 DEF RankIn
  <2>2. ASSUME NEW k \in first..end PROVE p[k] = k
    <3>1. p[k] \in first..end
      BY <1>3
    <3>2. p[k] - first = k - first
      BY <3>1, <2>1, <1>3
    <3> QED
      BY <3>1, <3>2, <1>a
  <2>3. \A k \in 1..n : p[k] = k
    BY <2>2, <1>4
  <2>4. t = [k \in 1..n |-> s[k]]
    BY <1>6, <2>3
  <2> QED
    BY <2>4, <1>10
<1> QED
  BY <1>9, <1>10 DEF IsSortOf, t

\* std::min() and std::max()
LEMMA MinOfTwo ==
  ASSUME NEW a \in Int, NEW b \in Int
  PROVE  /\ Min({a, b}) \in {a, b} /\ Min({a, b}) <= a /\ Min({a, b}) <= b
         /\ Max({a, b}) \in {a, b} /\ Max({a, b}) >= a /\ Max({a, b}) >= b
<1>1. \E x \in {a, b} : \A y \in {a, b} : x <= y
  OBVIOUS
<1>2. \E x \in {a, b} : \A y \in {a, b} : x >= y
  OBVIOUS
<1> QED
  BY <1>1, <1>2 DEF Min, Max

\* What is assumed of the constants, as the steps below use it
LEMMA Constants ==
  /\ N \in Nat \ {0} /\ DOMAIN RootMoves = 1..N /\ \A i \in 1..N : RootMoves[i] \in Range(RootMoves)
  /\ MaxPly \in Nat /\ Growth \in Nat \ {0} /\ QuietDepth \in Nat /\ Decisive \in Nat /\ Infinite \in Nat
  /\ MaxPly > 1 /\ 0 < Decisive /\ Decisive < Infinite
  /\ \A l \in Limits :
       /\ l.values \subseteq (1 - Infinite)..(Infinite - 1)
       /\ l.multiPV \in Nat \ {0} /\ l.main \in BOOLEAN /\ l.timed \in BOOLEAN /\ l.pondering \in BOOLEAN
       /\ l.depth \in Nat /\ l.mate \in Nat
       /\ \A d \in 1..(MaxPly - 1) : l.windows[d] \subseteq Windows
<1>1. RootMoves \in Seq(Range(RootMoves)) /\ Len(RootMoves) > 0
  BY DeepeningAssumption
<1>2. N \in Nat \ {0} /\ DOMAIN RootMoves = 1..N /\ \A i \in 1..N : RootMoves[i] \in Range(RootMoves)
  <2> HIDE DEF N
  <2>1. N = Len(RootMoves)
    BY DEF N
  <2> QED
    BY <1>1, <2>1 DEF Range
<1>3. /\ MaxPly \in Nat /\ Growth \in Nat \ {0} /\ QuietDepth \in Nat /\ Decisive \in Nat /\ Infinite \in Nat
      /\ MaxPly > 1 /\ 0 < Decisive /\ Decisive < Infinite
  BY DeepeningAssumption
<1> QED
  BY <1>2, <1>3, DeepeningAssumption

\* There is a line to show, and no more than there are root moves.
LEMMA LinesShown ==
  ASSUME DeepeningTypes
  PROVE  /\ Len(rm) = N /\ DOMAIN rm = 1..N /\ N \in Nat \ {0}
         /\ MultiPV \in 1..N
<1>1. N \in Nat \ {0} /\ limits.multiPV \in Nat \ {0}
  BY Constants DEF DeepeningTypes
<1>2. rm \in [1..N -> Records]
  BY DEF DeepeningTypes
<1>3. Len(rm) = N /\ DOMAIN rm = 1..N
  BY <1>1, <1>2
<1>4. MultiPV \in 1..N
  <2>1. MultiPV = Min({limits.multiPV, N})
    BY <1>3 DEF MultiPV
  <2>2. Min({limits.multiPV, N}) \in {limits.multiPV, N} /\ Min({limits.multiPV, N}) <= N
    <3>1. limits.multiPV \in Int /\ N \in Int
      BY <1>1
    <3> QED
      BY <3>1, MinOfTwo
  <2> QED
    BY <1>1, <2>1, <2>2
<1> QED
  BY <1>1, <1>3, <1>4

\* The types of a root move
LEMMA RecordFacts ==
  ASSUME NEW r \in Records
  PROVE  /\ r.score \in Int /\ r.score >= -Infinite /\ r.previous \in Int /\ r.previous >= -Infinite
         /\ r.score \in Scores /\ r.previous \in Scores
         /\ Comparable(r) /\ r.move \in Range(RootMoves) /\ r.uci \in Int
         /\ r.exact \in BOOLEAN /\ r.lower \in BOOLEAN /\ r.upper \in BOOLEAN
         /\ r.pv \in Places /\ r.previousPV \in Places
<1>1. r.score \in Scores /\ r.previous \in Scores
  BY DEF Records
<1> QED
  BY <1>1, Constants DEF Records, Scores, Comparable

\* The types of a line
LEMMA PlaceFacts ==
  ASSUME NEW v \in Places
  PROVE  v.value \in Int /\ v.at \in Int \X Int /\ v.at[1] \in Int /\ v.at[2] \in Int
BY DEF Places

\* The empty line is one, found nowhere.
LEMMA NoLineIsPlace == NoLine \in Places /\ NoLine.at[1] = 0 /\ NoLine.at[2] = 0
BY Constants DEF NoLine, Places

\* The types hold at the start.
LEMMA TypesInit == DeepeningInit => DeepeningTypes
<1> SUFFICES ASSUME DeepeningInit PROVE DeepeningTypes
  OBVIOUS
<1>1. \A i \in 1..N : RootMove(RootMoves[i]) \in Records
  <2> SUFFICES ASSUME NEW i \in 1..N PROVE RootMove(RootMoves[i]) \in Records
    OBVIOUS
  <2>1. RootMoves[i] \in Range(RootMoves) /\ -Infinite \in Scores /\ -Infinite \in Int
    BY Constants DEF Scores
  <2> QED
    BY <2>1, NoLineIsPlace DEF RootMove, Records
<1>2. rm \in [1..N -> Records]
  BY <1>1, Constants DEF DeepeningInit
<1>3. last \in [move : Range(RootMoves) \cup {"none"}, score : Scores, pv : Places]
  BY NoLineIsPlace, Constants DEF DeepeningInit, Scores
<1>4. pc = "iterate" /\ pc \notin OnLine /\ rootDepth = 0 /\ pvIdx = 1 /\ limits \in Limits
  BY DEF DeepeningInit, OnLine
<1>5. 0 \in 0..(MaxPly - 1)
  BY Constants
<1>6. /\ alpha = 0 /\ beta = 0 /\ delta = 0 /\ best = 0
      /\ uciPvSent = FALSE /\ stop = FALSE /\ cut = FALSE
  BY DEF DeepeningInit
<1>7. /\ limits \in Limits /\ rootDepth \in 0..(MaxPly - 1) /\ pvIdx \in Nat \ {0}
      /\ alpha \in Int /\ beta \in Int /\ delta \in Int /\ best \in Int
  BY <1>4, <1>5, <1>6
<1>9. uciPvSent \in BOOLEAN /\ stop \in BOOLEAN /\ cut \in BOOLEAN
  BY <1>6, Zenon
<1>8. /\ pc \in OnLine \cup {"end", "iterate", "done"} /\ pc \notin OnLine \cup {"end"}
      /\ pc \notin {"search", "judge"}
  BY <1>4
<1> QED
  BY <1>2, <1>3, <1>7, <1>8, <1>9 DEF DeepeningTypes

\* The window of a new line is one.
LEMMA StartLineTypes ==
  ASSUME DeepeningTypes, NEW i \in Nat \ {0}, NEW d \in 1..(MaxPly - 1), StartLine(i, d)
  PROVE  /\ pvIdx' = i /\ pc' = "search"
         /\ alpha' \in Int /\ beta' \in Int /\ delta' \in Int
         /\ alpha' >= -Infinite /\ beta' > -Infinite /\ delta' > 0
<1>1. limits \in Limits /\ Infinite \in Nat /\ Infinite > 0
  BY Constants DEF DeepeningTypes
<1>2. PICK w \in limits.windows[d] : 
        /\ alpha' = Max({w.average - w.delta, -Infinite})
        /\ beta' = Min({w.average + w.delta, Infinite})
        /\ delta' = w.delta
  BY DEF StartLine
<1>3. w \in Windows
  BY <1>1, <1>2, Constants
<1>4. w.average \in Int /\ w.average >= -Infinite /\ w.delta \in Nat \ {0}
  BY <1>1, <1>3 DEF Windows
<1>5. w.average - w.delta \in Int /\ w.average + w.delta \in Int /\ -Infinite \in Int /\ Infinite \in Int
  BY <1>1, <1>4
<1>6. alpha' \in {w.average - w.delta, -Infinite} /\ alpha' >= -Infinite
  BY <1>2, <1>5, MinOfTwo
<1>7. beta' \in {w.average + w.delta, Infinite}
  BY <1>1, <1>2, <1>5, MinOfTwo
<1> QED
  BY <1>1, <1>2, <1>4, <1>5, <1>6, <1>7 DEF StartLine

\* A root move for the next iteration
IsRenewed(q, r, i) ==
  /\ q \in Records
  /\ q.move = r.move /\ q.score = r.score /\ q.uci = r.uci
  /\ q.lower = r.lower /\ q.upper = r.upper /\ q.pv = r.pv
  /\ q.previous = r.score /\ q.previousPV = r.pv /\ q.exact = (i <= MultiPV)

\* Renewed() gives such a root move.
LEMMA RenewedIs ==
  ASSUME NEW r \in Records, NEW i
  PROVE  IsRenewed(Renewed(r, i), r, i)
<1>1. (i <= MultiPV) \in BOOLEAN
  OBVIOUS
<1> QED
  BY <1>1 DEF Renewed, IsRenewed, Records

\* A new iteration keeps the types.
LEMMA TypesIterate == DeepeningTypes /\ Iterate => DeepeningTypes'
<1> SUFFICES ASSUME DeepeningTypes, Iterate PROVE DeepeningTypes'
  OBVIOUS
<1>1. /\ Len(rm) = N /\ DOMAIN rm = 1..N /\ N \in Nat \ {0} /\ MultiPV \in 1..N
      /\ \A i \in 1..N : rm[i] \in Records
  BY LinesShown DEF DeepeningTypes
<1>2. rm' = [i \in 1..N |-> Renewed(rm[i], i)]
  BY <1>1 DEF Iterate
<1>3. rm' \in [1..N -> Records]
  <2>1. \A i \in 1..N : Renewed(rm[i], i) \in Records
    BY <1>1, RenewedIs DEF IsRenewed
  <2> QED
    BY <1>2, <2>1
<1>4. rootDepth + 1 \in 1..(MaxPly - 1)
  <2>1. rootDepth \in Nat /\ MaxPly \in Nat /\ rootDepth + 1 < MaxPly
    BY Constants DEF DeepeningTypes, Iterate, GoesOn
  <2> QED
    BY <2>1
<1>5. /\ pvIdx' = 1 /\ pc' = "search"
      /\ alpha' \in Int /\ beta' \in Int /\ delta' \in Int
      /\ alpha' >= -Infinite /\ beta' > -Infinite /\ delta' > 0
  <2>1. StartLine(1, rootDepth + 1)
    BY DEF Iterate
  <2> QED
    BY <1>4, <2>1, StartLineTypes
<1>6. limits' = limits /\ MultiPV' = MultiPV /\ limits.main \in BOOLEAN
  <2>1. Len(rm') = N
    BY <1>1, <1>3
  <2> QED
    BY <2>1, <1>1, Constants DEF MultiPV, Iterate, DeepeningTypes
<1>7. uciPvSent' \in BOOLEAN
  BY <1>6 DEF Iterate, SentYet, DeepeningTypes
<1>8. rootDepth' \in 0..(MaxPly - 1) /\ rootDepth' > 0
  BY <1>4 DEF Iterate
<1>9. /\ limits' \in Limits /\ last' = last /\ best' = best /\ stop' = stop /\ cut' = cut
      /\ pvIdx' \in Nat \ {0} /\ pvIdx' <= MultiPV'
  BY <1>1, <1>5, <1>6 DEF Iterate, DeepeningTypes
<1>10. pc' \in OnLine /\ pc' # "judge"
  BY <1>5 DEF OnLine
<1> QED
  BY <1>3, <1>5, <1>7, <1>8, <1>9, <1>10 DEF DeepeningTypes

\* A set of natural numbers has a smallest one.
LEMMA SmallestOf ==
  ASSUME NEW T \in SUBSET Nat, T # {}
  PROVE  \E x \in T : \A y \in T : x <= y
<1> DEFINE R == {ss \in Nat \X Nat : ss[1] < ss[2]}
<1>1. IsWellFoundedOn(R, Nat)
  BY NatLessThanWellFounded DEF OpToRel
<1>2. PICK x \in T : \A y \in T : ~ (<<y, x>> \in R)
  <2> HIDE DEF R
  <2> QED
    BY <1>1, WFMin
<1>3. ASSUME NEW y \in T
      PROVE  x <= y
  <2>1. x \in Nat /\ y \in Nat
    OBVIOUS
  <2>2. ~ (y < x)
    BY <1>2, <2>1
  <2> QED
    BY <2>1, <2>2
<1> QED
  BY <1>3

\* Induction, over a set instead of a predicate.
LEMMA Induction ==
  ASSUME NEW S, 0 \in S, \A n \in Nat : n \in S => n + 1 \in S
  PROVE  \A n \in Nat : n \in S
<1> SUFFICES ASSUME NEW n \in Nat, n \notin S
             PROVE  FALSE
  OBVIOUS
<1> DEFINE T == {k \in Nat : k \notin S}
<1>1. PICK x \in T : \A y \in T : x <= y
  <2>1. T \in SUBSET Nat /\ T # {}
    OBVIOUS
  <2> HIDE DEF T
  <2> QED
    BY <2>1, SmallestOf
<1>2. x # 0 /\ x - 1 \in Nat /\ x - 1 \notin T
  BY <1>1
<1> QED
  BY <1>2

\* A recursion over 1 .. n has a solution; `step' gives the next value.
IsSolvable(n, D, base, step) ==
  \E f \in [0 .. n -> D] : f[0] = base /\ \A i \in 1 .. n : f[i] = step[<<f[i - 1], i>>]

\* Such a recursion has a solution, as there is one for every part 0 .. k.
LEMMA Recursion ==
  ASSUME NEW n \in Nat, NEW D, NEW base \in D, NEW step \in [D \X (1 .. n) -> D]
  PROVE  IsSolvable(n, D, base, step)
<1> DEFINE IsUpTo(f, k) == f[0] = base /\ \A i \in 1 .. k : f[i] = step[<<f[i - 1], i>>]
           S == {k \in Nat : k <= n => \E f \in [0 .. k -> D] : IsUpTo(f, k)}
<1>1. 0 \in S
  <2>1. [i \in 0 .. 0 |-> base] \in [0 .. 0 -> D] /\ IsUpTo([i \in 0 .. 0 |-> base], 0)
    OBVIOUS
  <2> QED
    BY <2>1
<1>2. ASSUME NEW k \in Nat, k \in S
      PROVE  k + 1 \in S
  <2> SUFFICES ASSUME k + 1 <= n
               PROVE  \E f \in [0 .. k + 1 -> D] : IsUpTo(f, k + 1)
    OBVIOUS
  <2>1. PICK f \in [0 .. k -> D] : IsUpTo(f, k)
    BY <1>2
  <2> DEFINE g == [i \in 0 .. k + 1 |-> IF i = k + 1 THEN step[<<f[k], k + 1>>] ELSE f[i]]
  <2>2. step[<<f[k], k + 1>>] \in D
    OBVIOUS
  <2>3. g \in [0 .. k + 1 -> D]
    BY <2>2
  <2>4. g[0] = base
    BY <2>1
  <2>5. ASSUME NEW i \in 1 .. k + 1
        PROVE  g[i] = step[<<g[i - 1], i>>]
    <3>1. g[i - 1] = f[i - 1]
      OBVIOUS
    <3>2. CASE i = k + 1
      <4>1. i - 1 = k /\ g[i] = step[<<f[k], i>>]
        BY <3>2
      <4> QED
        BY <3>1, <4>1
    <3>3. CASE i # k + 1
      <4>1. i \in 1 .. k /\ g[i] = f[i]
        BY <3>3
      <4> QED
        BY <3>1, <4>1, <2>1
    <3> QED
      BY <3>2, <3>3
  <2> QED
    BY <2>3, <2>4, <2>5
<1>3. n \in S
  <2> HIDE DEF S
  <2> QED
    BY <1>1, <1>2, Induction
<1> QED
  BY <1>3 DEF IsSolvable

-----------------------------------------------------------------------------
(* A search of the root *)

\* The lists of root moves with the best value so far, while they are searched.
Searching == [rm : [1..N -> Records], best : (-Infinite)..(Infinite - 1)]

\* A move with score v, a bound only outside the window from a to beta, and its line.
IsScored(q, r, v, a) ==
  /\ q \in Records
  /\ q.move = r.move /\ q.score = v /\ q.previous = r.previous /\ q.exact = r.exact
  /\ q.previousPV = r.previousPV /\ (v < beta => q.lower = FALSE) /\ (v > a => q.upper = FALSE)
  /\ q.pv.value = v /\ q.pv.at[1] = rootDepth /\ q.pv.at[2] = pvIdx

\* Scored() gives such a root move.
LEMMA ScoredIs ==
  ASSUME DeepeningTypes, NEW r \in Records, NEW v \in (1 - Infinite)..(Infinite - 1), NEW a \in Int
  PROVE  IsScored(Scored(r, v, a), r, v, a)
<1> DEFINE l == [value |-> v, at |-> <<rootDepth, pvIdx>>]
           u == IF v >= beta THEN beta ELSE IF v <= a THEN a ELSE v
<1>1. rootDepth \in Int /\ pvIdx \in Int /\ v \in Int /\ beta \in Int /\ Infinite \in Nat
  BY Constants DEF DeepeningTypes
<1>2. l \in Places /\ l.value = v /\ l.at[1] = rootDepth /\ l.at[2] = pvIdx
  BY <1>1 DEF Places
<1>3. u \in Int /\ v \in Scores
  BY <1>1 DEF Scores
<1>4. (v >= beta) \in BOOLEAN /\ (v < beta /\ v <= a) \in BOOLEAN
  OBVIOUS
<1>5. Scored(r, v, a) = [r EXCEPT !.score = v, !.lower = v >= beta, !.upper = v < beta /\ v <= a,
                                  !.uci = u, !.pv = l]
  BY DEF Scored
<1> DEFINE q == Scored(r, v, a)
<1> HIDE DEF l, u
<1>6. /\ q \in Records
      /\ q.move = r.move /\ q.score = v /\ q.previous = r.previous /\ q.exact = r.exact
      /\ q.previousPV = r.previousPV /\ q.lower = (v >= beta) /\ q.upper = (v < beta /\ v <= a)
      /\ q.pv = l
  BY <1>2, <1>3, <1>4, <1>5 DEF Records
<1>7. ASSUME v < beta PROVE q.lower = FALSE
  <2>1. (v >= beta) = FALSE
    BY <1>1, <1>7
  <2>2. q.lower = (v >= beta)
    BY <1>6
  <2> HIDE DEF q
  <2> QED
    BY <2>1, <2>2, Zenon
<1>8. ASSUME v > a PROVE q.upper = FALSE
  <2>1. (v < beta /\ v <= a) = FALSE
    BY <1>1, <1>8
  <2>2. q.upper = (v < beta /\ v <= a)
    BY <1>6
  <2> HIDE DEF q
  <2> QED
    BY <2>1, <2>2, Zenon
<1> HIDE DEF q
<1>9. IsScored(q, r, v, a)
  BY <1>2, <1>6, <1>7, <1>8 DEF IsScored
<1> QED
  BY <1>9 DEF q

\* A root move that did not beat alpha
Unscored(r) == [r EXCEPT !.score = -Infinite]
IsUnscored(q, r) ==
  /\ q \in Records /\ q.score = -Infinite
  /\ q.move = r.move /\ q.previous = r.previous /\ q.exact = r.exact
  /\ q.previousPV = r.previousPV /\ q.lower = r.lower /\ q.upper = r.upper /\ q.pv = r.pv

\* Only the score is lost.
LEMMA UnscoredIs ==
  ASSUME NEW r \in Records
  PROVE  IsUnscored(Unscored(r), r)
<1>1. -Infinite \in Scores
  BY Constants DEF Scores
<1> QED
  BY <1>1 DEF Unscored, IsUnscored, Records

\* What a move that was searched leaves behind: a score that beats what there was, or none.
IsAfter(s, r, i, v) ==
  \E q \in Records :
    /\ s.rm = [r.rm EXCEPT ![i] = q] /\ s.best = Max({r.best, v})
    /\ \/ /\ q = Scored(r.rm[i], v, Max({alpha, r.best}))
          /\ r.best = -Infinite \/ v > Max({alpha, r.best})
       \/ /\ q = Unscored(r.rm[i])
          /\ r.best # -Infinite /\ v <= Max({alpha, r.best})

\* AfterMove() gives such a list.
LEMMA AfterMoveIs ==
  ASSUME DeepeningTypes, NEW r \in Searching, NEW i \in 1..N, NEW v \in (1 - Infinite)..(Infinite - 1)
  PROVE  AfterMove(r, i, v) \in Searching /\ IsAfter(AfterMove(r, i, v), r, i, v)
<1>1. r.rm \in [1..N -> Records] /\ r.rm[i] \in Records /\ r.best \in (-Infinite)..(Infinite - 1)
  BY DEF Searching
<1>2. alpha \in Int /\ Infinite \in Nat
  BY Constants DEF DeepeningTypes
<1>3. r.best \in Int /\ v \in Int
  BY <1>1, <1>2
<1> DEFINE a == Max({alpha, r.best})
           q == IF r.best = -Infinite \/ v > a THEN Scored(r.rm[i], v, a) ELSE Unscored(r.rm[i])
           s == AfterMove(r, i, v)
<1>4. a \in Int
  BY <1>2, <1>3, MinOfTwo
<1>5. s = [rm |-> [r.rm EXCEPT ![i] = q], best |-> Max({r.best, v})]
  BY DEF AfterMove, Unscored
<1>6. q \in Records
  <2>1. Scored(r.rm[i], v, a) \in Records
    BY <1>1, <1>4, ScoredIs DEF IsScored
  <2>2. Unscored(r.rm[i]) \in Records
    BY <1>1, UnscoredIs DEF IsUnscored
  <2> QED
    BY <2>1, <2>2
<1>7. Max({r.best, v}) \in (-Infinite)..(Infinite - 1)
  <2>1. Max({r.best, v}) \in {r.best, v}
    BY <1>3, MinOfTwo
  <2> QED
    BY <2>1, <1>1, <1>2
<1>8. s.rm = [r.rm EXCEPT ![i] = q] /\ s.best = Max({r.best, v})
  BY <1>5
<1>9. s \in Searching
  <2> HIDE DEF q, s
  <2>1. [r.rm EXCEPT ![i] = q] \in [1..N -> Records]
    BY <1>1, <1>6
  <2> QED
    BY <2>1, <1>5, <1>7 DEF Searching
<1>10. \/ q = Scored(r.rm[i], v, a) /\ (r.best = -Infinite \/ v > a)
       \/ q = Unscored(r.rm[i]) /\ r.best # -Infinite /\ v <= a
  BY <1>3, <1>4
<1> HIDE DEF q, s
<1>11. IsAfter(s, r, i, v)
  BY <1>6, <1>8, <1>10 DEF IsAfter, a
<1> QED
  BY <1>9, <1>11 DEF s

\* The order of a search is one of the places from pvIdx on, that one first.
LEMMA OrderIs ==
  ASSUME DeepeningTypes, pc \in OnLine, NEW order \in Orders
  PROVE  /\ Len(order) \in 0..(N - pvIdx + 1) /\ order \in [1..Len(order) -> pvIdx..N]
         /\ DOMAIN order = 1..Len(order)
         /\ \A j, k \in 1..Len(order) : order[j] = order[k] => j = k
         /\ Len(order) > 0 => order[1] = pvIdx
         /\ pvIdx \in 1..N
<1>1. Len(rm) = N /\ N \in Nat \ {0} /\ pvIdx \in 1..N
  BY LinesShown DEF DeepeningTypes
<1>2. PICK n \in 0..(N - pvIdx + 1) : order \in [1..n -> pvIdx..N]
  BY <1>1 DEF Orders
<1>3. Len(order) = n
  BY <1>2
<1>4. \A j, k \in 1..n : order[j] = order[k] => j = k
  BY <1>2 DEF Orders, IsInjective
<1>5. n > 0 => order[1] = pvIdx
  <2>1. n > 0 => order # <<>>
    BY <1>2
  <2> QED
    BY <2>1 DEF Orders
<1> QED
  BY <1>1, <1>2, <1>3, <1>4, <1>5

\* The lists f of a search, one after each move
SearchFrom(f, n, order, values) ==
  /\ f \in [0..n -> Searching]
  /\ f[0] = [rm |-> rm, best |-> -Infinite]
  /\ \A k \in 1..n : f[k] = AfterMove(f[k - 1], order[k], values[k])

\* Searched() is such a sequence of lists: the recursion has a solution.
LEMMA SearchedIs ==
  ASSUME DeepeningTypes, pc \in OnLine, NEW order \in Orders, NEW values \in [DOMAIN order -> limits.values]
  PROVE  SearchFrom(Searched(order, values), Len(order), order, values)
<1> DEFINE n == Len(order)
           base == [rm |-> rm, best |-> -Infinite]
           Solves(g) == g = [k \in 0 .. n |-> IF k = 0 THEN base ELSE AfterMove(g[k - 1], order[k], values[k])]
           step == [p \in Searching \X (1 .. n) |-> AfterMove(p[1], order[p[2]], values[p[2]])]
<1>1. Searched(order, values) = CHOOSE g : Solves(g)
  BY DEF Searched
<1>2. /\ n \in Nat /\ order \in [1..n -> pvIdx..N] /\ DOMAIN order = 1..n
      /\ pvIdx \in 1..N
  BY OrderIs
<1>3. limits.values \subseteq (1 - Infinite)..(Infinite - 1)
  BY Constants DEF DeepeningTypes
<1>4. \A k \in 1..n : order[k] \in 1..N /\ values[k] \in (1 - Infinite)..(Infinite - 1)
  BY <1>2, <1>3
<1>5. base \in Searching
  BY Constants DEF Searching, DeepeningTypes
<1>6. ASSUME NEW r \in Searching, NEW k \in 1..n
      PROVE  AfterMove(r, order[k], values[k]) \in Searching
  BY <1>4, AfterMoveIs
<1> HIDE DEF n
<1>7. step \in [Searching \X (1 .. n) -> Searching]
  <2> SUFFICES ASSUME NEW p \in Searching \X (1 .. n)
               PROVE  AfterMove(p[1], order[p[2]], values[p[2]]) \in Searching
    OBVIOUS
  <2>1. p[1] \in Searching /\ p[2] \in 1..n
    OBVIOUS
  <2> QED
    BY <1>6, <2>1
<1>8. PICK f \in [0 .. n -> Searching] :
        f[0] = base /\ \A i \in 1 .. n : f[i] = AfterMove(f[i - 1], order[i], values[i])
  <2>1. PICK f \in [0 .. n -> Searching] : f[0] = base /\ \A i \in 1 .. n : f[i] = step[<<f[i - 1], i>>]
    <3> HIDE DEF step
    <3>1. IsSolvable(n, Searching, base, step)
      BY <1>2, <1>5, <1>7, Recursion
    <3> QED
      BY <3>1 DEF IsSolvable
  <2>2. ASSUME NEW i \in 1 .. n
        PROVE  f[i] = AfterMove(f[i - 1], order[i], values[i])
    <3> HIDE DEF base, Solves, step
    <3>0. i - 1 \in 0 .. n
      BY <1>2
    <3>1. f[i - 1] \in Searching /\ <<f[i - 1], i>> \in Searching \X (1 .. n)
      BY <3>0
    <3> USE DEF step
    <3> QED
      BY <3>1, <2>1
  <2> QED
    BY <2>1, <2>2
<1>9. PICK g : Solves(g) /\ g = (CHOOSE h : Solves(h))
  <2>1. f = [k \in 0 .. n |-> f[k]]
    OBVIOUS
  <2>2. \A k \in 0 .. n : f[k] = IF k = 0 THEN base ELSE AfterMove(f[k - 1], order[k], values[k])
    BY <1>8, <1>2
  <2>3. Solves(f)
    BY <2>1, <2>2
  <2> HIDE DEF Solves
  <2> QED
    BY <2>3
<1> DEFINE S == {k \in Nat : k <= n => g[k] \in Searching}
<1>10. g[0] = base /\ \A k \in 1 .. n : g[k] = AfterMove(g[k - 1], order[k], values[k])
  BY <1>9, <1>2
<1>11. 0 \in S
  BY <1>10, <1>5
<1>12. ASSUME NEW k \in Nat, k \in S
       PROVE  k + 1 \in S
  <2> SUFFICES ASSUME k + 1 <= n
               PROVE  g[k + 1] \in Searching
    OBVIOUS
  <2>1. g[k] \in Searching /\ k + 1 \in 1..n
    BY <1>12, <1>2
  <2>2. g[k + 1] = AfterMove(g[k], order[k + 1], values[k + 1])
    BY <1>10, <2>1
  <2> QED
    BY <2>1, <2>2, <1>6
<1>13. \A k \in Nat : k \in S
  <2> HIDE DEF S
  <2> QED
    BY <1>11, <1>12, Induction
<1>14. g \in [0..n -> Searching]
  <2>1. \A k \in 0..n : g[k] \in Searching
    BY <1>13, <1>2
  <2>2. g = [k \in 0..n |-> g[k]]
    BY <1>9
  <2> QED
    BY <2>1, <2>2
<1>15. SearchFrom(g, n, order, values)
  <2> HIDE DEF Solves
  <2> QED
    BY <1>10, <1>14 DEF SearchFrom
<1> HIDE DEF Solves
<1> QED
  BY <1>1, <1>9, <1>15 DEF n

\* A root move after the search, and what it was before.
SearchedAs(q, r) ==
  /\ q.move = r.move /\ q.previous = r.previous /\ q.exact = r.exact /\ q.previousPV = r.previousPV
  /\ \/ q = r
     \/ q.score = -Infinite /\ q.pv = r.pv
     \/ q.score > -Infinite /\ q.pv.value = q.score /\ q.pv.at[1] = rootDepth /\ q.pv.at[2] = pvIdx

\* While the root is searched: only the moves that were are another, one of them has the best value,
\* no one a better, and who is inside the window is exact.
RootSearch(s, order, k) ==
  /\ s \in Searching
  /\ \A j \in 1..N : SearchedAs(s.rm[j], rm[j])
  /\ \A j \in 1..N : (\A x \in 1..k : order[x] # j) => s.rm[j] = rm[j]
  /\ \A x \in 1..k :
       LET r == s.rm[order[x]]
       IN r.score # -Infinite => r.score <= s.best /\ (alpha < r.score /\ r.score < beta => ~IsBound(r))
  /\ k > 0 => s.best > -Infinite /\ s.rm[order[1]].score # -Infinite
  /\ k > 0 /\ s.best > alpha => \E x \in 1..k : s.rm[order[x]].score = s.best
  /\ k = 0 => s.best = -Infinite

\* One more move keeps that.
LEMMA RootSearchStep ==
  ASSUME DeepeningTypes, pc = "search", NEW order \in Orders, NEW k \in 1..Len(order),
         NEW s, RootSearch(s, order, k - 1), NEW v \in (1 - Infinite)..(Infinite - 1), NEW t \in Searching,
         IsAfter(t, s, order[k], v)
  PROVE  RootSearch(t, order, k)
<1>1. /\ order \in [1..Len(order) -> pvIdx..N] /\ Len(order) \in Nat
      /\ \A j, l \in 1..Len(order) : order[j] = order[l] => j = l
      /\ pvIdx \in 1..N /\ order[k] \in 1..N
  <2>1. pc \in OnLine
    BY DEF OnLine
  <2>2. /\ order \in [1..Len(order) -> pvIdx..N] /\ Len(order) \in 0..(N - pvIdx + 1)
        /\ \A j, l \in 1..Len(order) : order[j] = order[l] => j = l
        /\ pvIdx \in 1..N
    BY <2>1, OrderIs
  <2> QED
    BY <2>2
<1>2. PICK q \in Records :
        /\ t.rm = [s.rm EXCEPT ![order[k]] = q] /\ t.best = Max({s.best, v})
        /\ \/ /\ q = Scored(s.rm[order[k]], v, Max({alpha, s.best}))
              /\ s.best = -Infinite \/ v > Max({alpha, s.best})
           \/ /\ q = Unscored(s.rm[order[k]])
              /\ s.best # -Infinite /\ v <= Max({alpha, s.best})
  BY DEF IsAfter
<1> DEFINE a == Max({alpha, s.best})
           r == s.rm[order[k]]
<1>3. /\ s.rm \in [1..N -> Records] /\ s.best \in Int /\ s.best >= -Infinite /\ v \in Int /\ v > -Infinite
      /\ alpha \in Int /\ alpha >= -Infinite /\ beta \in Int /\ Infinite \in Nat
  BY Constants DEF RootSearch, Searching, DeepeningTypes
<1>4. a \in {alpha, s.best} /\ a >= alpha /\ a >= s.best /\ a \in Int
  BY <1>3, MinOfTwo
<1>5. t.best \in {s.best, v} /\ t.best >= s.best /\ t.best >= v /\ t.best \in Int
  <2>1. /\ Max({s.best, v}) \in {s.best, v} /\ Max({s.best, v}) >= s.best
        /\ Max({s.best, v}) >= v
    BY <1>3, MinOfTwo
  <2> QED
    BY <1>2, <1>3, <2>1
<1>6. r \in Records /\ r = rm[order[k]]
  <2>1. \A x \in 1..(k - 1) : order[x] # order[k]
    BY <1>1
  <2> QED
    BY <1>1, <1>3, <2>1 DEF RootSearch
<1>7. \A j \in 1..N : t.rm[j] = IF j = order[k] THEN q ELSE s.rm[j]
  BY <1>2, <1>3
<1> HIDE DEF a, r
<1>8. CASE q = Scored(r, v, a) /\ (s.best = -Infinite \/ v > a)
  <2>1. IsScored(q, r, v, a)
    BY <1>4, <1>6, <1>8, ScoredIs
  <2>2. SearchedAs(q, r)
    BY <2>1, <1>3 DEF SearchedAs, IsScored
  <2>3. s.best = -Infinite => a = alpha
    BY <1>4, <1>3
  <2>4. t.best = v
    BY <1>3, <1>4, <1>5, <1>8
  <2>5. alpha < v /\ v < beta => ~IsBound(q)
    <3> SUFFICES ASSUME alpha < v, v < beta
                 PROVE  ~IsBound(q)
      OBVIOUS
    <3>1. v < beta /\ v > a
      BY <2>3, <1>3, <1>4, <1>8
    <3>3. q.lower = FALSE /\ q.upper = FALSE
      BY <2>1, <3>1 DEF IsScored
    <3> QED
      BY <3>3 DEF IsBound
  <2>6. \A j \in 1..N : SearchedAs(t.rm[j], rm[j])
    BY <1>6, <1>7, <2>2 DEF RootSearch
  <2>7. \A j \in 1..N : (\A x \in 1..k : order[x] # j) => t.rm[j] = rm[j]
    BY <1>7 DEF RootSearch
  <2>8. ASSUME NEW x \in 1..k, t.rm[order[x]].score # -Infinite
        PROVE  /\ t.rm[order[x]].score <= t.best
               /\ alpha < t.rm[order[x]].score /\ t.rm[order[x]].score < beta => ~IsBound(t.rm[order[x]])
    <3>1. CASE x = k
      <4>1. t.rm[order[x]] = q
        BY <3>1, <1>1, <1>7
      <4> QED
        BY <4>1, <2>1, <2>4, <2>5, <1>3 DEF IsScored
    <3>2. CASE x # k
      <4>1. x \in 1..(k - 1) /\ order[x] # order[k] /\ order[x] \in 1..N
        BY <3>2, <1>1
      <4>2. t.rm[order[x]] = s.rm[order[x]] /\ s.rm[order[x]] \in Records
        BY <4>1, <1>7, <1>3
      <4>3. s.rm[order[x]].score \in Int
        BY <4>2, RecordFacts
      <4> QED
        BY <4>1, <4>2, <4>3, <1>5, <1>3, <2>8, SMTT(30) DEF RootSearch
    <3> QED
      BY <3>1, <3>2
  <2>9. /\ t.best > -Infinite /\ t.rm[order[1]].score # -Infinite
        /\ t.best > alpha => \E x \in 1..k : t.rm[order[x]].score = t.best
    <3>0. t.rm[order[1]].score # -Infinite
      <4>1. CASE k = 1
        BY <4>1, <1>1, <1>7, <2>1, <1>3 DEF IsScored
      <4>2. CASE k # 1
        <5>1. k - 1 > 0 /\ 1 \in 1..Len(order) /\ order[1] # order[k] /\ order[1] \in 1..N
          BY <4>2, <1>1
        <5> QED
          BY <5>1, <1>7 DEF RootSearch
      <4> QED
        BY <4>1, <4>2
    <3>1. k \in 1..k /\ t.rm[order[k]].score = t.best
      BY <1>1, <1>7, <2>1, <2>4 DEF IsScored
    <3> QED
      BY <3>0, <3>1, <2>4, <1>3
  <2>10. k > 0
    OBVIOUS
  <2> QED
    BY <2>6, <2>7, <2>8, <2>9, <2>10 DEF RootSearch
<1>9. CASE q = Unscored(r) /\ s.best # -Infinite /\ v <= a
  <2>1. IsUnscored(q, r)
    BY <1>6, <1>9, UnscoredIs
  <2>2. SearchedAs(q, r)
    BY <2>1 DEF SearchedAs, IsUnscored
  <2>6. \A j \in 1..N : SearchedAs(t.rm[j], rm[j])
    BY <1>6, <1>7, <2>2 DEF RootSearch
  <2>7. \A j \in 1..N : (\A x \in 1..k : order[x] # j) => t.rm[j] = rm[j]
    BY <1>7 DEF RootSearch
  <2>8. ASSUME NEW x \in 1..k, t.rm[order[x]].score # -Infinite
        PROVE  /\ t.rm[order[x]].score <= t.best
               /\ alpha < t.rm[order[x]].score /\ t.rm[order[x]].score < beta => ~IsBound(t.rm[order[x]])
    <3>1. x # k
      <4>1. x = k => t.rm[order[x]] = q
        BY <1>1, <1>7
      <4> QED
        BY <4>1, <2>1, <2>8 DEF IsUnscored
    <3>2. x \in 1..(k - 1) /\ order[x] # order[k] /\ order[x] \in 1..N
      BY <3>1, <1>1
    <3>3. t.rm[order[x]] = s.rm[order[x]] /\ s.rm[order[x]] \in Records
      BY <3>2, <1>7, <1>3
    <3>4. s.rm[order[x]].score \in Int
      BY <3>3, RecordFacts
    <3> QED
      BY <3>2, <3>3, <3>4, <1>5, <1>3, <2>8, SMTT(30) DEF RootSearch
  <2>9. /\ t.best > -Infinite /\ t.rm[order[1]].score # -Infinite
        /\ t.best > alpha => \E x \in 1..k : t.rm[order[x]].score = t.best
    <3>1. k - 1 > 0 /\ s.best > -Infinite
      BY <1>9, <1>3 DEF RootSearch
    <3>2. t.rm[order[1]].score # -Infinite
      <4>1. 1 \in 1..Len(order) /\ order[1] # order[k] /\ order[1] \in 1..N
        BY <3>1, <1>1
      <4> QED
        BY <3>1, <4>1, <1>7 DEF RootSearch
    <3>3. ASSUME t.best > alpha
          PROVE  \E x \in 1..k : t.rm[order[x]].score = t.best
      <4>1. t.best = s.best
        BY <3>3, <1>3, <1>4, <1>5, <1>9
      <4>2. PICK x \in 1..(k - 1) : s.rm[order[x]].score = s.best
        BY <3>1, <3>3, <4>1 DEF RootSearch
      <4>3. x \in 1..k /\ order[x] # order[k] /\ order[x] \in 1..N
        BY <4>2, <1>1
      <4>4. t.rm[order[x]].score = s.best
        BY <4>2, <4>3, <1>7
      <4> QED
        BY <4>1, <4>3, <4>4
    <3> QED
      BY <3>1, <3>2, <3>3, <1>3, <1>5
  <2>10. k > 0
    OBVIOUS
  <2> QED
    BY <2>6, <2>7, <2>8, <2>9, <2>10 DEF RootSearch
<1> QED
  BY <1>2, <1>8, <1>9 DEF a, r

\* So it holds after every move.
LEMMA RootSearchWhole ==
  ASSUME DeepeningTypes, pc = "search", NEW order \in Orders,
         NEW values \in [DOMAIN order -> limits.values]
  PROVE  RootSearch(Searched(order, values)[Len(order)], order, Len(order))
<1>1. PICK f : f = Searched(order, values)
  OBVIOUS
<1>2. PICK n : n = Len(order)
  OBVIOUS
<1>3. SearchFrom(f, n, order, values)
  <2>1. pc \in OnLine
    BY DEF OnLine
  <2> QED
    BY <1>1, <1>2, <2>1, SearchedIs
<1>4. /\ n \in Nat /\ order \in [1..n -> pvIdx..N] /\ DOMAIN order = 1..n /\ pvIdx \in 1..N
  <2>1. pc \in OnLine
    BY DEF OnLine
  <2> QED
    BY <2>1, OrderIs, <1>2
<1>5. limits.values \subseteq (1 - Infinite)..(Infinite - 1) /\ rm \in [1..N -> Records]
  BY Constants DEF DeepeningTypes
<1> DEFINE S == {k \in Nat : k <= n => RootSearch(f[k], order, k)}
<1>6. 0 \in S
  <2>1. f[0].rm = rm /\ f[0].best = -Infinite /\ f[0] \in Searching
    BY <1>3, <1>4 DEF SearchFrom
  <2>2. RootSearch(f[0], order, 0)
    BY <2>1 DEF RootSearch, SearchedAs
  <2> QED
    BY <2>2
<1>7. ASSUME NEW k \in Nat, k \in S
      PROVE  k + 1 \in S
  <2> SUFFICES ASSUME k + 1 <= n
               PROVE  RootSearch(f[k + 1], order, k + 1)
    OBVIOUS
  <2>1. RootSearch(f[k], order, k) /\ k + 1 \in 1..Len(order) /\ k \in 0..n /\ k + 1 \in 1..n
    BY <1>2, <1>4, <1>7
  <2>2. f[k + 1] = AfterMove(f[k], order[k + 1], values[k + 1])
    BY <1>3, <2>1 DEF SearchFrom
  <2>3. order[k + 1] \in 1..N /\ values[k + 1] \in (1 - Infinite)..(Infinite - 1) /\ f[k] \in Searching
    <3>1. order[k + 1] \in pvIdx..N
      BY <1>4, <2>1
    <3>2. order[k + 1] \in 1..N
      BY <3>1, <1>4
    <3>3. values[k + 1] \in limits.values
      BY <1>4, <2>1
    <3>4. f[k] \in Searching
      BY <1>3, <2>1 DEF SearchFrom
    <3> QED
      BY <3>2, <3>3, <3>4, <1>5
  <2>4. f[k + 1] \in Searching /\ IsAfter(f[k + 1], f[k], order[k + 1], values[k + 1])
    BY <2>2, <2>3, AfterMoveIs
  <2>5. RootSearch(f[k], order, (k + 1) - 1)
    BY <2>1
  <2> QED
    BY <2>1, <2>3, <2>4, <2>5, RootSearchStep
<1>8. \A k \in Nat : k \in S
  <2> HIDE DEF S
  <2> QED
    BY <1>6, <1>7, Induction
<1> QED
  BY <1>1, <1>2, <1>4, <1>8

\* What the step does: the moves of `order' were searched, which gave s, and the lists sorted
SearchGave(s, order) ==
  /\ order \in Orders /\ RootSearch(s, order, Len(order))
  /\ rm' = Sorted(s.rm, pvIdx, N) /\ IsSortOf(rm', s.rm, N, pvIdx, N)
  /\ stop => Len(order) = 0
  /\ cut' = ~(s.best >= beta \/ Len(order) = N - pvIdx + 1)
  /\ stop' = (stop \/ ~(s.best >= beta \/ Len(order) = N - pvIdx + 1))
  /\ best' \in Int
  /\ s.best >= beta => best' >= beta
  /\ s.best < beta => best' = s.best

\* What Search leaves is the sort of such a list.
LEMMA SearchGives ==
  ASSUME DeepeningTypes, Search
  PROVE  \E s, order : SearchGave(s, order)
<1>1. pc = "search" /\ Len(rm) = N /\ pvIdx \in 1..N /\ N \in 1..N /\ N \in Nat
  BY LinesShown DEF Search, DeepeningTypes, OnLine
<1>2. PICK order \in Orders :
        \E values \in [DOMAIN order -> limits.values] :
          LET n == Len(order)
              after == Searched(order, values)
              over == after[n].best >= beta \/ n = Len(rm) - pvIdx + 1
          IN /\ stop => n = 0
             /\ \A k \in 0..(n - 1) : after[k].best < beta
             /\ cut' = ~over /\ stop' = (stop \/ ~over)
             /\ rm' = Sorted(after[n].rm, pvIdx, Len(rm))
             /\ \E b \in IF after[n].best >= beta /\ ~IsDecisive(after[n].best)
                         THEN beta..after[n].best ELSE {after[n].best} : best' = b
  BY DEF Search
<1>a. PICK values \in [DOMAIN order -> limits.values] :
        LET n == Len(order)
            after == Searched(order, values)
            over == after[n].best >= beta \/ n = Len(rm) - pvIdx + 1
        IN /\ stop => n = 0
           /\ \A k \in 0..(n - 1) : after[k].best < beta
           /\ cut' = ~over /\ stop' = (stop \/ ~over)
           /\ rm' = Sorted(after[n].rm, pvIdx, Len(rm))
           /\ \E b \in IF after[n].best >= beta /\ ~IsDecisive(after[n].best)
                       THEN beta..after[n].best ELSE {after[n].best} : best' = b
  BY <1>2
<1>3. PICK s : s = Searched(order, values)[Len(order)]
  OBVIOUS
<1>4. RootSearch(s, order, Len(order))
  BY <1>1, <1>3, RootSearchWhole
<1>5. /\ stop => Len(order) = 0
      /\ cut' = ~(s.best >= beta \/ Len(order) = N - pvIdx + 1)
      /\ stop' = (stop \/ ~(s.best >= beta \/ Len(order) = N - pvIdx + 1))
      /\ rm' = Sorted(s.rm, pvIdx, N)
      /\ \E b \in IF s.best >= beta /\ ~IsDecisive(s.best) THEN beta..s.best ELSE {s.best} : best' = b
  BY <1>1, <1>a, <1>3
<1>6. s.best \in Int /\ beta \in Int /\ s.rm \in [1..N -> Records]
  BY <1>4, Constants DEF RootSearch, Searching, DeepeningTypes
<1>7. best' \in Int /\ (s.best >= beta => best' >= beta) /\ (s.best < beta => best' = s.best)
  BY <1>5, <1>6
<1>8. IsSortOf(rm', s.rm, N, pvIdx, N)
  <2>1. DOMAIN s.rm = 1..N /\ \A i \in 1..N : Comparable(s.rm[i])
    BY <1>6, RecordFacts
  <2> QED
    BY <1>1, <1>5, <2>1, SortedIsSort
<1> QED
  BY <1>4, <1>5, <1>7, <1>8 DEF SearchGave

\* All places were searched when the last move was.
LEMMA AllSearched ==
  ASSUME DeepeningTypes, pc = "search", NEW order \in Orders, Len(order) = N - pvIdx + 1,
         NEW j \in pvIdx..N
  PROVE  \E x \in 1..Len(order) : order[x] = j
<1>1. PICK n : n = Len(order)
  OBVIOUS
<1>2. /\ n \in Nat /\ order \in [1..n -> pvIdx..N] /\ pvIdx \in 1..N /\ N \in Nat
      /\ \A x, y \in 1..n : order[x] = order[y] => x = y
  <2>1. pc \in OnLine
    BY DEF OnLine
  <2>2. /\ Len(order) \in 0..(N - pvIdx + 1) /\ order \in [1..Len(order) -> pvIdx..N]
        /\ pvIdx \in 1..N /\ \A x, y \in 1..Len(order) : order[x] = order[y] => x = y
    BY <2>1, OrderIs
  <2>3. N \in Nat
    BY Constants
  <2> QED
    BY <2>2, <2>3, <1>1
<1>3. order \in Injection(1..n, pvIdx..N)
  BY <1>2 DEF Injection, IsInjective
<1>4. /\ IsFiniteSet(pvIdx..N) /\ Cardinality(pvIdx..N) = N - pvIdx + 1
      /\ Cardinality(1..n) = n
  <2>1. pvIdx \in Int /\ N \in Int /\ n \in Int /\ 1 \in Int
    BY <1>2
  <2>2. Cardinality(pvIdx..N) = (IF pvIdx > N THEN 0 ELSE N - pvIdx + 1) /\ IsFiniteSet(pvIdx..N)
    BY <2>1, FS_Interval
  <2>3. Cardinality(1..n) = (IF 1 > n THEN 0 ELSE n - 1 + 1)
    BY <2>1, FS_Interval
  <2> QED
    BY <1>2, <2>2, <2>3
<1>5. order \in Surjection(1..n, pvIdx..N)
  BY <1>1, <1>3, <1>4, FS_Injection
<1> QED
  BY <1>1, <1>5 DEF Surjection

\* What a sort keeps, for a property of places.
SortKept(t, s, n, first, end) ==
  /\ t \in [1..n -> Records]
  /\ \A k \in 1..n : \E i \in 1..n : t[k] = s[i]
  /\ \A i \in 1..n : \E k \in 1..n : t[k] = s[i]
  /\ \A k \in first..end : \E i \in first..end : t[k] = s[i]
  /\ \A i \in first..end : \E k \in first..end : t[k] = s[i]
  /\ \A k \in 1..n : k \notin first..end => t[k] = s[k]
  /\ InOrderFrom(t, first, end)

\* A stable sort keeps all that.
LEMMA SortKeeps ==
  ASSUME NEW n \in Nat, NEW s \in [1..n -> Records], NEW first \in 1..n, NEW end \in 1..n,
         NEW t, IsSortOf(t, s, n, first, end)
  PROVE  SortKept(t, s, n, first, end)
<1>1. PICK p : IsSortedBy(p, t, s, n, first, end)
  BY DEF IsSortOf
<1>2. /\ p \in [1..n -> 1..n] /\ t = [k \in 1..n |-> s[p[k]]]
      /\ \A k \in 1..n : p[k] \in first..end <=> k \in first..end
      /\ \A k \in 1..n : k \notin first..end => p[k] = k
      /\ \A i \in 1..n : \E k \in 1..n : p[k] = i
      /\ InOrderFrom(t, first, end)
  BY <1>1 DEF IsSortedBy, InOrderFrom
<1>3. \A k \in 1..n : t[k] = s[p[k]]
  BY <1>2
<1>4. t \in [1..n -> Records]
  <2>1. \A k \in 1..n : s[p[k]] \in Records
    BY <1>2
  <2> QED
    BY <1>2, <2>1
<1>5. /\ \A k \in 1..n : \E i \in 1..n : t[k] = s[i]
      /\ \A k \in 1..n : k \notin first..end => t[k] = s[k]
  BY <1>2, <1>3
<1>6. ASSUME NEW i \in 1..n PROVE \E k \in 1..n : t[k] = s[i]
  BY <1>2, <1>3
<1>7. ASSUME NEW k \in first..end PROVE \E i \in first..end : t[k] = s[i]
  <2>0. k \in 1..n
    OBVIOUS
  <2>1. k \in 1..n /\ p[k] \in first..end
    BY <1>2, <2>0
  <2> QED
    BY <2>1, <1>3
<1>8. ASSUME NEW i \in first..end PROVE \E k \in first..end : t[k] = s[i]
  <2>1. i \in 1..n
    OBVIOUS
  <2>2. PICK k \in 1..n : p[k] = i
    BY <1>2, <2>1
  <2>3. k \in first..end
    BY <1>2, <2>2
  <2> QED
    BY <2>2, <2>3, <1>3
<1> QED
  BY <1>2, <1>4, <1>5, <1>6, <1>7, <1>8 DEF SortKept

\* The first one is the best.
LEMMA SortFirst ==
  ASSUME NEW n \in Nat, NEW s \in [1..n -> Records], NEW first \in 1..n, NEW end \in 1..n,
         first <= end, NEW t, IsSortOf(t, s, n, first, end)
  PROVE  /\ \E i \in first..end : t[first] = s[i]
         /\ \A i \in first..end : s[i].score <= t[first].score
<1>1. SortKept(t, s, n, first, end)
  BY SortKeeps
<1>2. first \in first..end /\ first \in 1..n
  OBVIOUS
<1>3. \E i \in first..end : t[first] = s[i]
  BY <1>1, <1>2 DEF SortKept
<1>4. ASSUME NEW i \in first..end
      PROVE  s[i].score <= t[first].score
  <2>1. PICK k \in first..end : t[k] = s[i]
    BY <1>1 DEF SortKept
  <2>2. k \in 1..n
    OBVIOUS
  <2>3. t[k] \in Records /\ t[first] \in Records
    BY <1>1, <1>2, <2>2 DEF SortKept
  <2>4. t[k].score \in Int /\ t[first].score \in Int
    BY <2>3, RecordFacts
  <2>5. k # first => ~Before(t[k], t[first])
    BY <1>1, <1>2, <2>1 DEF InOrderFrom, SortKept
  <2> QED
    BY <2>1, <2>4, <2>5 DEF Before
<1> QED
  BY <1>3, <1>4

\* Where the search was, and what it left there.
LEMMA SearchPlaces ==
  ASSUME DeepeningTypes, Search
  PROVE  /\ rm' \in [1..N -> Records] /\ best' \in Int /\ stop' \in BOOLEAN /\ cut' \in BOOLEAN
         /\ stop => stop'
         /\ cut' => stop'
         /\ ~stop' => best' > -Infinite
         /\ \A k \in 1..N : \E i \in 1..N : SearchedAs(rm'[k], rm[i])
         /\ \A i \in 1..N : \E k \in 1..N : rm'[k].move = rm[i].move
         /\ \A k \in 1..(pvIdx - 1) : rm'[k] = rm[k]
         /\ rm'[pvIdx].score = -Infinite => (stop' \/ best' >= beta) /\ rm[pvIdx].score = -Infinite
         /\ ~stop' /\ best' > alpha /\ best' < beta => ~IsBound(rm'[pvIdx])
<1>1. PICK s, order : SearchGave(s, order)
  BY SearchGives
<1>2. PICK n : n = Len(order)
  OBVIOUS
<1>3. /\ pc = "search" /\ pc \in OnLine /\ rm \in [1..N -> Records] /\ Infinite \in Nat
      /\ beta \in Int /\ beta > -Infinite /\ alpha \in Int /\ alpha >= -Infinite
      /\ stop \in BOOLEAN /\ pvIdx \in 1..N /\ N \in 1..N /\ N \in Nat
  BY LinesShown, Constants DEF Search, OnLine, DeepeningTypes
<1>4. /\ n \in 0..(N - pvIdx + 1) /\ order \in [1..n -> pvIdx..N]
      /\ n > 0 => order[1] = pvIdx
  BY <1>1, <1>2, <1>3, OrderIs DEF SearchGave
<1>5. /\ RootSearch(s, order, n)
      /\ IsSortOf(rm', s.rm, N, pvIdx, N)
      /\ stop => n = 0
      /\ cut' = ~(s.best >= beta \/ n = N - pvIdx + 1)
      /\ stop' = (stop \/ ~(s.best >= beta \/ n = N - pvIdx + 1))
      /\ best' \in Int
      /\ s.best >= beta => best' >= beta
      /\ s.best < beta => best' = s.best
  BY <1>1, <1>2 DEF SearchGave
<1>6. s.rm \in [1..N -> Records] /\ s.best \in Int
  BY <1>5, <1>3 DEF RootSearch, Searching
<1>7. /\ rm' \in [1..N -> Records]
      /\ \A k \in 1..N : \E i \in 1..N : rm'[k] = s.rm[i]
      /\ \A i \in 1..N : \E k \in 1..N : rm'[k] = s.rm[i]
      /\ \A k \in 1..N : k \notin pvIdx..N => rm'[k] = s.rm[k]
  <2>1. SortKept(rm', s.rm, N, pvIdx, N)
    BY <1>3, <1>5, <1>6, SortKeeps
  <2> QED
    BY <2>1 DEF SortKept
<1>8. /\ \E i \in pvIdx..N : rm'[pvIdx] = s.rm[i]
      /\ \A i \in pvIdx..N : s.rm[i].score <= rm'[pvIdx].score
  <2>1. pvIdx <= N
    BY <1>3
  <2> QED
    BY <2>1, <1>3, <1>5, <1>6, SortFirst
<1>9. \A j \in 1..N : SearchedAs(s.rm[j], rm[j])
  BY <1>5 DEF RootSearch
<1>10. \A k \in 1..N : \E i \in 1..N : SearchedAs(rm'[k], rm[i])
  BY <1>7, <1>9
<1>11. ASSUME NEW i \in 1..N PROVE \E k \in 1..N : rm'[k].move = rm[i].move
  <2>1. s.rm[i].move = rm[i].move
    BY <1>9 DEF SearchedAs
  <2> QED
    BY <1>7, <2>1, ZenonT(30)
<1>12. ASSUME NEW k \in 1..(pvIdx - 1) PROVE rm'[k] = rm[k]
  <2>1. k \in 1..N /\ k \notin pvIdx..N
    BY <1>3
  <2>2. \A x \in 1..n : order[x] # k
    BY <1>4, <2>1
  <2>3. s.rm[k] = rm[k]
    BY <1>5, <2>1, <2>2 DEF RootSearch
  <2> QED
    BY <1>7, <2>1, <2>3
<1>13. (n = 0 => stop') /\ (stop => stop') /\ (cut' => stop')
       /\ (~stop' => s.best >= beta \/ n = N - pvIdx + 1)
  <2>1. n = 0 => s.best = -Infinite
    BY <1>5 DEF RootSearch
  <2>2. ASSUME n = 0 PROVE ~(s.best >= beta \/ n = N - pvIdx + 1)
    BY <2>1, <2>2, <1>3
  <2>3. (n = 0 => stop') /\ (stop => stop')
    BY <2>2, <1>5
  <2>4. cut' => stop'
    BY <1>5
  <2>5. ~stop' => s.best >= beta \/ n = N - pvIdx + 1
    BY <1>5
  <2> QED
    BY <2>3, <2>4, <2>5
<1>14. ASSUME rm'[pvIdx].score = -Infinite
       PROVE  stop' /\ rm[pvIdx].score = -Infinite
  <2>0. \A i \in 1..N : s.rm[i].score \in Int /\ s.rm[i].score >= -Infinite
    BY <1>6, RecordFacts
  <2>1. pvIdx \in pvIdx..N /\ s.rm[pvIdx].score = -Infinite
    BY <1>3, <1>8, <1>14, <2>0
  <2>2. n = 0
    BY <1>4, <1>5, <2>1 DEF RootSearch
  <2>3. s.rm[pvIdx] = rm[pvIdx]
    BY <1>3, <1>5, <2>2 DEF RootSearch
  <2> QED
    BY <1>13, <2>1, <2>2, <2>3
<1>15. ~stop' => best' > -Infinite
  <2>1. n > 0 => s.best > -Infinite
    BY <1>5 DEF RootSearch
  <2> QED
    BY <2>1, <1>3, <1>4, <1>5, <1>6, <1>13
<1>16. ASSUME ~stop', best' > alpha, best' < beta
       PROVE  ~IsBound(rm'[pvIdx])
  <2>1. s.best = best' /\ n = N - pvIdx + 1 /\ n > 0
    BY <1>3, <1>4, <1>5, <1>6, <1>13, <1>16
  <2>2. PICK x \in 1..n : s.rm[order[x]].score = s.best
    BY <2>1, <1>5, <1>16 DEF RootSearch
  <2>3. order[x] \in pvIdx..N
    BY <1>4
  <2>4. PICK i \in pvIdx..N : rm'[pvIdx] = s.rm[i]
    BY <1>8
  <2>5. PICK y \in 1..n : order[y] = i
    BY <1>1, <1>2, <1>3, <2>1, AllSearched DEF SearchGave
  <2>6. i \in 1..N /\ s.rm[i].score \in Int
    <3>1. i \in 1..N
      BY <1>3
    <3> QED
      BY <3>1, <1>6, RecordFacts
  <2>7. s.rm[i].score >= s.best
    BY <1>8, <2>2, <2>3, <2>4
  <2>8. s.rm[i].score # -Infinite /\ s.rm[i].score > alpha
    BY <1>3, <1>6, <1>16, <2>1, <2>6, <2>7
  <2>9. s.rm[i].score <= s.best /\ (alpha < s.rm[i].score /\ s.rm[i].score < beta => ~IsBound(s.rm[i]))
    BY <1>5, <2>5, <2>8 DEF RootSearch
  <2>10. s.rm[i].score < beta
    BY <1>3, <1>6, <1>16, <2>1, <2>6, <2>9
  <2> QED
    BY <2>4, <2>8, <2>9, <2>10
<1>17. stop' \in BOOLEAN /\ cut' \in BOOLEAN
  BY <1>5
<1> QED
  BY <1>5, <1>7, <1>10, <1>11, <1>12, <1>13, <1>14, <1>15, <1>16, <1>17

\* The same of a search that ended before the first move
LEMMA PrunedPlaces ==
  ASSUME DeepeningTypes, Pruned
  PROVE  /\ rm' \in [1..N -> Records] /\ best' \in Int /\ stop' \in BOOLEAN /\ cut' \in BOOLEAN
         /\ stop => stop'
         /\ cut' => stop'
         /\ ~stop' => best' > -Infinite
         /\ \A k \in 1..N : \E i \in 1..N : SearchedAs(rm'[k], rm[i])
         /\ \A i \in 1..N : \E k \in 1..N : rm'[k].move = rm[i].move
         /\ \A k \in 1..(pvIdx - 1) : rm'[k] = rm[k]
         /\ rm'[pvIdx].score = -Infinite => (stop' \/ best' >= beta) /\ rm[pvIdx].score = -Infinite
         /\ ~stop' /\ best' > alpha /\ best' < beta => ~IsBound(rm'[pvIdx])
<1>1. /\ pc = "search" /\ pc \in OnLine /\ rm \in [1..N -> Records] /\ Infinite \in Nat
      /\ beta \in Int /\ beta > -Infinite /\ stop \in BOOLEAN /\ Len(rm) = N
      /\ pvIdx \in 1..N /\ N \in 1..N /\ N \in Nat
  BY LinesShown, Constants DEF Pruned, OnLine, DeepeningTypes
<1>2. best' \in Int /\ best' >= beta /\ best' > -Infinite /\ ~(best' < beta)
  <2>1. best' \in beta..(Decisive - 1) /\ Decisive \in Nat
    BY Constants DEF Pruned
  <2> QED
    BY <1>1, <2>1
<1>3. IsSortOf(rm', rm, N, pvIdx, N)
  <2>1. DOMAIN rm = 1..N /\ \A i \in 1..N : Comparable(rm[i])
    BY <1>1, RecordFacts
  <2>2. rm' = Sorted(rm, pvIdx, N)
    BY <1>1 DEF Pruned
  <2> QED
    BY <1>1, <2>1, <2>2, SortedIsSort
<1>4. SortKept(rm', rm, N, pvIdx, N)
  BY <1>1, <1>3, SortKeeps
<1>5. /\ rm' \in [1..N -> Records]
      /\ \A k \in 1..N : \E i \in 1..N : rm'[k] = rm[i]
      /\ \A i \in 1..N : \E k \in 1..N : rm'[k] = rm[i]
      /\ \A k \in 1..N : k \notin pvIdx..N => rm'[k] = rm[k]
  BY <1>4 DEF SortKept
<1>6. \A k \in 1..N : \E i \in 1..N : SearchedAs(rm'[k], rm[i])
  BY <1>5 DEF SearchedAs
<1>7. \A i \in 1..N : \E k \in 1..N : rm'[k].move = rm[i].move
  BY <1>5, ZenonT(30)
<1>8. ASSUME NEW k \in 1..(pvIdx - 1) PROVE rm'[k] = rm[k]
  <2>1. k \in 1..N /\ k \notin pvIdx..N
    BY <1>1
  <2> QED
    BY <1>5, <2>1
<1>9. ASSUME rm'[pvIdx].score = -Infinite PROVE rm[pvIdx].score = -Infinite
  <2>1. pvIdx <= N /\ pvIdx \in pvIdx..N
    BY <1>1
  <2>2. rm[pvIdx].score <= rm'[pvIdx].score
    BY <1>1, <1>3, <2>1, SortFirst
  <2>3. rm[pvIdx].score \in Int /\ rm[pvIdx].score >= -Infinite
    BY <1>1, RecordFacts
  <2> QED
    BY <1>1, <1>9, <2>2, <2>3
<1>10. stop' = stop /\ cut' = stop
  BY DEF Pruned
<1> QED
  BY <1>1, <1>2, <1>5, <1>6, <1>7, <1>8, <1>9, <1>10

-----------------------------------------------------------------------------
(* Actions that leave the root moves alone *)

\* How many lines there are.
LEMMA SameLines ==
  ASSUME DeepeningTypes, limits' = limits, rm' \in [1..N -> Records]
  PROVE  MultiPV' = MultiPV /\ Len(rm') = N
<1>1. Len(rm') = N /\ Len(rm) = N
  BY LinesShown
<1> QED
  BY <1>1 DEF MultiPV

\* What most steps leave: the root moves and what was found before.
Kept == rm' = rm /\ last' = last /\ limits' = limits /\ rootDepth' = rootDepth /\ (stop => stop')

\* Then what says nothing of the place in the loop is kept.
LEMMA KeptLines ==
  ASSUME DeepeningTypes, Kept
  PROVE  /\ NoneIsMissing => NoneIsMissing'
         /\ LinesFit => LinesFit'
         /\ LastFits => LastFits'
         /\ MultiPV' = MultiPV
         /\ Lines(rm)' = Lines(rm)
<1>1. MultiPV' = MultiPV
  BY DEF Kept, MultiPV
<1>2. Lines(rm)' = Lines(rm)
  BY <1>1 DEF Kept, Lines
<1>3. LinesFit => LinesFit'
  BY DEF Kept, LinesFit, ItsLine, IsBound
<1> QED
  BY <1>1, <1>2, <1>3 DEF Kept, NoneIsMissing, LastFits

\* stop is raised by another thread.
LEMMA StopInv == DeepeningInv /\ Stop => DeepeningInv'
<1> SUFFICES ASSUME DeepeningInv, Stop PROVE DeepeningInv'
  OBVIOUS
<1>1. DeepeningTypes
  BY DEF DeepeningInv
<1>2. /\ Kept /\ pc' = pc /\ pvIdx' = pvIdx /\ alpha' = alpha /\ beta' = beta /\ delta' = delta
      /\ best' = best /\ uciPvSent' = uciPvSent /\ shown' = shown /\ stop' /\ stop' = TRUE /\ cut' = cut
  BY DEF Stop, Kept, window
<1>3. /\ NoneIsMissing' /\ LinesFit' /\ LastFits' /\ MultiPV' = MultiPV
      /\ Lines(rm)' = Lines(rm)
  BY <1>1, <1>2, KeptLines DEF DeepeningInv
<1>4. DeepeningTypes'
  <2>1. stop' \in BOOLEAN
    BY <1>2, Zenon
  <2> QED
    BY <1>1, <1>2, <1>3, <2>1 DEF DeepeningTypes, Kept
<1>5. SentIsShown'
  BY <1>2, <1>3 DEF DeepeningInv, SentIsShown, Kept
<1>6. FirstIsScored' /\ FinishedAreExact' /\ AllFoundBefore' /\ FinishedAreInOrder'
  <2>1. FirstIsScored'
    BY <1>2 DEF DeepeningInv, FirstIsScored, Kept
  <2>2. FinishedAreExact'
    BY <1>2 DEF FinishedAreExact
  <2>3. AllFoundBefore'
    BY <1>2 DEF DeepeningInv, AllFoundBefore, FoundBefore, Kept
  <2>4. FinishedAreInOrder'
    BY <1>2 DEF DeepeningInv, FinishedAreInOrder, Kept, InOrderFrom, Before
  <2> QED
    BY <2>1, <2>2, <2>3, <2>4
<1>7. CutIsGuarded'
  BY <1>2, <1>3 DEF DeepeningInv, CutIsGuarded, Kept, IsExactLoss, IsBound, FromTheCutSearch
<1>8. MateIsKept'
  BY <1>2 DEF DeepeningInv, MateIsKept, Kept, IsBound
<1> QED
  BY <1>3, <1>4, <1>5, <1>6, <1>7, <1>8 DEF DeepeningInv

\* The opponent played the move that was pondered on.
LEMMA PonderhitInv == DeepeningInv /\ Ponderhit => DeepeningInv'
<1> SUFFICES ASSUME DeepeningInv, Ponderhit PROVE DeepeningInv'
  OBVIOUS
<1>1. DeepeningTypes
  BY DEF DeepeningInv
<1>2. /\ Kept /\ pc' = pc /\ pvIdx' = pvIdx /\ alpha' = alpha /\ beta' = beta /\ delta' = delta
      /\ best' = best /\ uciPvSent' = uciPvSent /\ shown' = shown /\ stop' = stop /\ cut' = cut
  BY DEF Ponderhit, Kept, window
<1>3. /\ NoneIsMissing' /\ LinesFit' /\ LastFits' /\ MultiPV' = MultiPV
      /\ Lines(rm)' = Lines(rm)
  BY <1>1, <1>2, KeptLines DEF DeepeningInv
<1>4. DeepeningTypes'
  BY <1>1, <1>2, <1>3 DEF DeepeningTypes, Kept
<1>5. SentIsShown'
  BY <1>2, <1>3 DEF DeepeningInv, SentIsShown, Kept
<1>6. FirstIsScored'
  BY <1>2 DEF DeepeningInv, FirstIsScored, Kept
<1>7. FinishedAreExact'
  BY <1>2 DEF DeepeningInv, FinishedAreExact, Kept, IsBound
<1>8. AllFoundBefore'
  BY <1>2 DEF DeepeningInv, AllFoundBefore, FoundBefore, Kept
<1>9. FinishedAreInOrder'
  BY <1>2 DEF DeepeningInv, FinishedAreInOrder, Kept, InOrderFrom, Before
<1>10. CutIsGuarded'
  BY <1>2, <1>3 DEF DeepeningInv, CutIsGuarded, Kept, IsExactLoss, IsBound, FromTheCutSearch
<1>11. MateIsKept'
  BY <1>2 DEF DeepeningInv, MateIsKept, Kept, IsBound
<1> QED
  BY <1>3, <1>4, <1>5, <1>6, <1>7, <1>8, <1>9, <1>10, <1>11 DEF DeepeningInv

\* The end of the loop
LEMMA EndLoopInv == DeepeningInv /\ EndLoop => DeepeningInv'
<1> SUFFICES ASSUME DeepeningInv, EndLoop PROVE DeepeningInv'
  OBVIOUS
<1>1. DeepeningTypes
  BY DEF DeepeningInv
<1>2. /\ Kept /\ pc = "iterate" /\ pc' = "done"
      /\ pvIdx' = pvIdx /\ alpha' = alpha /\ beta' = beta /\ delta' = delta
      /\ best' = best /\ uciPvSent' = uciPvSent /\ shown' = shown /\ stop' = stop /\ cut' = cut
  BY DEF EndLoop, Kept, window
<1>3. /\ NoneIsMissing' /\ LinesFit' /\ LastFits' /\ MultiPV' = MultiPV
      /\ Lines(rm)' = Lines(rm)
  BY <1>1, <1>2, KeptLines DEF DeepeningInv
<1>4. DeepeningTypes'
  BY <1>1, <1>2, <1>3 DEF DeepeningTypes, Kept, OnLine
<1>5. SentIsShown'
  BY <1>2, <1>3 DEF DeepeningInv, SentIsShown, Kept
<1>6. FirstIsScored'
  <2>1. CASE stop
    BY <1>2, <2>1 DEF DeepeningInv, FirstIsScored, Kept
  <2>2. CASE ~stop
    BY <1>2, <2>2 DEF DeepeningInv, FirstIsScored, Kept
  <2> QED
    BY <2>1, <2>2
<1>7. FinishedAreExact'
  BY <1>2 DEF DeepeningInv, FinishedAreExact, Kept, IsBound
<1>8. AllFoundBefore'
  BY <1>2 DEF DeepeningInv, AllFoundBefore, FoundBefore, Kept, OnLine
<1>9. FinishedAreInOrder'
  BY <1>2 DEF DeepeningInv, FinishedAreInOrder, Kept, InOrderFrom, Before
<1>10. CutIsGuarded'
  BY <1>2, <1>3 DEF DeepeningInv, CutIsGuarded, Kept, IsExactLoss, IsBound, FromTheCutSearch
<1>11. MateIsKept'
  BY <1>2 DEF DeepeningInv, MateIsKept, Kept, IsBound
<1> QED
  BY <1>3, <1>4, <1>5, <1>6, <1>7, <1>8, <1>9, <1>10, <1>11 DEF DeepeningInv

\* A window stays open when it grows.
LEMMA WiderIs ==
  ASSUME delta \in Int, delta > 0
  PROVE  Wider \in Int /\ Wider > 0
<1>1. Growth \in Nat \ {0} /\ Infinite \in Nat /\ Infinite > 0
  BY Constants
<1>2. Growth * delta \in Int /\ Growth * delta > 0
  BY <1>1
<1>3. 2 * Infinite \in Int /\ 2 * Infinite > 0
  BY <1>1
<1>4. Wider \in {Growth * delta, 2 * Infinite}
  BY <1>2, <1>3, MinOfTwo DEF Wider
<1> QED
  BY <1>2, <1>3, <1>4

\* The window after a search that failed.
Repeats ==
  /\ Kept /\ pc = "judge" /\ ~stop /\ pc' = "search" /\ pvIdx' = pvIdx
  /\ best' = 0 /\ uciPvSent' = uciPvSent /\ stop' = stop /\ cut' = cut
  /\ alpha' \in Int /\ beta' \in Int /\ delta' \in Int
  /\ alpha' >= -Infinite /\ beta' > -Infinite /\ delta' > 0

\* A fail low is such a step.
LEMMA FailLowRepeats == DeepeningTypes /\ FailLow => Repeats
<1> SUFFICES ASSUME DeepeningTypes, FailLow PROVE Repeats
  OBVIOUS
<1>1. /\ pc = "judge" /\ ~stop /\ best <= alpha
      /\ beta' = alpha /\ alpha' = Max({best - delta, -Infinite}) /\ delta' = Wider
      /\ best' = 0 /\ pc' = "search" /\ Kept /\ pvIdx' = pvIdx
      /\ uciPvSent' = uciPvSent /\ stop' = stop /\ cut' = cut
  BY DEF FailLow, Kept
<1>2. /\ alpha \in Int /\ delta \in Int /\ best \in Int /\ delta > 0 /\ best > -Infinite
      /\ Infinite \in Nat
  BY <1>1, Constants DEF DeepeningTypes
<1>3. best - delta \in Int /\ -Infinite \in Int
  BY <1>2
<1>4. alpha' \in {best - delta, -Infinite} /\ alpha' >= -Infinite
  BY <1>1, <1>3, MinOfTwo
<1>5. delta' \in Int /\ delta' > 0
  BY <1>1, <1>2, WiderIs
<1> QED
  BY <1>1, <1>2, <1>3, <1>4, <1>5 DEF Repeats

\* So is a fail high.
LEMMA FailHighRepeats == DeepeningTypes /\ FailHigh => Repeats
<1> SUFFICES ASSUME DeepeningTypes, FailHigh PROVE Repeats
  OBVIOUS
<1>1. /\ pc = "judge" /\ ~stop /\ best > alpha /\ best >= beta
      /\ alpha' = Max({beta - delta, alpha}) /\ beta' = Min({best + delta, Infinite}) /\ delta' = Wider
      /\ best' = 0 /\ pc' = "search" /\ Kept /\ pvIdx' = pvIdx
      /\ uciPvSent' = uciPvSent /\ stop' = stop /\ cut' = cut
  BY DEF FailHigh, Kept
<1>2. /\ alpha \in Int /\ beta \in Int /\ delta \in Int /\ best \in Int /\ delta > 0
      /\ alpha >= -Infinite /\ Infinite \in Nat /\ Infinite > 0
  BY <1>1, Constants DEF DeepeningTypes
<1>3. beta - delta \in Int /\ best + delta \in Int /\ Infinite \in Int
  BY <1>2
<1>4. alpha' \in {beta - delta, alpha} /\ alpha' >= alpha
  BY <1>1, <1>2, <1>3, MinOfTwo
<1>5. beta' \in {best + delta, Infinite}
  BY <1>1, <1>3, MinOfTwo
<1>6. delta' \in Int /\ delta' > 0
  BY <1>1, <1>2, WiderIs
<1> QED
  BY <1>1, <1>2, <1>3, <1>4, <1>5, <1>6 DEF Repeats

\* Another search of the same line keeps the invariant.
LEMMA RepeatsInv == DeepeningInv /\ Repeats => DeepeningInv'
<1> SUFFICES ASSUME DeepeningInv, Repeats PROVE DeepeningInv'
  OBVIOUS
<1>1. DeepeningTypes
  BY DEF DeepeningInv
<1>2. Kept /\ pc = "judge" /\ pc' = "search" /\ ~stop /\ ~stop' /\ pvIdx' = pvIdx /\ cut' = cut
      /\ uciPvSent' = uciPvSent
  BY DEF Repeats
<1>3. /\ NoneIsMissing' /\ LinesFit' /\ LastFits' /\ MultiPV' = MultiPV
      /\ Lines(rm)' = Lines(rm)
  BY <1>1, <1>2, KeptLines DEF DeepeningInv
<1>4. DeepeningTypes'
  <2>1. stop' \in BOOLEAN
    BY <1>1 DEF Repeats, DeepeningTypes
  <2>2. best' \in Int
    BY DEF Repeats
  <2>3. pc' \in OnLine /\ pc \in OnLine
    BY <1>2 DEF OnLine
  <2> QED
    BY <1>1, <1>2, <1>3, <2>1, <2>2, <2>3 DEF DeepeningTypes, Kept, Repeats
<1>5. SentIsShown'
  BY <1>2, <1>3 DEF DeepeningInv, SentIsShown, Kept
<1>6. FirstIsScored'
  BY <1>2 DEF DeepeningInv, FirstIsScored, Kept
<1>7. FinishedAreExact'
  BY <1>2 DEF DeepeningInv, FinishedAreExact, Kept, IsBound
<1>8. AllFoundBefore'
  BY <1>2 DEF DeepeningInv, AllFoundBefore, FoundBefore, Kept, OnLine
<1>9. FinishedAreInOrder'
  BY <1>2 DEF DeepeningInv, FinishedAreInOrder, Kept, InOrderFrom, Before
<1>10. CutIsGuarded'
  BY <1>2 DEF DeepeningInv, CutIsGuarded
<1>11. MateIsKept'
  BY <1>2 DEF MateIsKept
<1> QED
  BY <1>3, <1>4, <1>5, <1>6, <1>7, <1>8, <1>9, <1>10, <1>11 DEF DeepeningInv

\* What is shown is what there is.
LEMMA ShowLineInv == DeepeningInv /\ ShowLine => DeepeningInv'
<1> SUFFICES ASSUME DeepeningInv, ShowLine PROVE DeepeningInv'
  OBVIOUS
<1>1. DeepeningTypes
  BY DEF DeepeningInv
<1>2. /\ Kept /\ pc = "show" /\ pc' = "next" /\ pvIdx' = pvIdx /\ alpha' = alpha /\ beta' = beta
      /\ delta' = delta /\ best' = best /\ stop' = stop /\ cut' = cut
      /\ \/ shown' = Lines(rm) /\ uciPvSent' = (pvIdx = MultiPV)
         \/ shown' = shown /\ uciPvSent' = uciPvSent
  BY DEF ShowLine, Kept, window
<1>3. /\ NoneIsMissing' /\ LinesFit' /\ LastFits' /\ MultiPV' = MultiPV
      /\ Lines(rm)' = Lines(rm)
  BY <1>1, <1>2, KeptLines DEF DeepeningInv
<1>4. DeepeningTypes'
  <2>1. uciPvSent' \in BOOLEAN
    BY <1>1, <1>2 DEF DeepeningTypes
  <2>2. pc' \in OnLine /\ pc \in OnLine /\ pc' # "search" /\ pc' # "judge"
    BY <1>2 DEF OnLine
  <2> QED
    BY <1>1, <1>2, <1>3, <2>1, <2>2 DEF DeepeningTypes, Kept
<1>5. SentIsShown'
  <2>1. CASE shown' = Lines(rm) /\ uciPvSent' = (pvIdx = MultiPV)
    BY <1>2, <1>3, <2>1 DEF SentIsShown, Core
  <2>2. CASE shown' = shown /\ uciPvSent' = uciPvSent
    BY <1>2, <1>3, <2>2 DEF DeepeningInv, SentIsShown, Kept
  <2> QED
    BY <1>2, <2>1, <2>2
<1>6. FirstIsScored'
  BY <1>2 DEF DeepeningInv, FirstIsScored, Kept
<1>7. FinishedAreExact'
  BY <1>2 DEF DeepeningInv, FinishedAreExact, Kept, IsBound
<1>8. AllFoundBefore'
  BY <1>2 DEF DeepeningInv, AllFoundBefore, FoundBefore, Kept, OnLine
<1>9. FinishedAreInOrder'
  BY <1>2 DEF DeepeningInv, FinishedAreInOrder, Kept, InOrderFrom, Before
<1>10. CutIsGuarded'
  BY <1>2, <1>3 DEF DeepeningInv, CutIsGuarded, Kept, IsExactLoss, IsBound, FromTheCutSearch
<1>11. MateIsKept'
  BY <1>2 DEF MateIsKept
<1> QED
  BY <1>3, <1>4, <1>5, <1>6, <1>7, <1>8, <1>9, <1>10, <1>11 DEF DeepeningInv

\* The next line begins with a search, of moves that are not finished.
LEMMA NextLineInv == DeepeningInv /\ NextLine => DeepeningInv'
<1> SUFFICES ASSUME DeepeningInv, NextLine PROVE DeepeningInv'
  OBVIOUS
<1>1. DeepeningTypes
  BY DEF DeepeningInv
<1>2. /\ Kept /\ pc = "next" /\ ~stop /\ ~stop' /\ pvIdx < MultiPV
      /\ best' = best /\ stop' = stop /\ cut' = cut /\ uciPvSent' = uciPvSent
      /\ StartLine(pvIdx + 1, rootDepth)
  BY DEF NextLine, Kept
<1>3. /\ NoneIsMissing' /\ LinesFit' /\ LastFits' /\ MultiPV' = MultiPV
      /\ Lines(rm)' = Lines(rm)
  BY <1>1, <1>2, KeptLines DEF DeepeningInv
<1>4. pvIdx \in Nat \ {0} /\ rootDepth \in 1..(MaxPly - 1) /\ MultiPV \in Nat
  <2>1. pc \in OnLine
    BY <1>2 DEF OnLine
  <2>2. MultiPV \in 1..N /\ N \in Nat
    BY <1>1, LinesShown
  <2> QED
    BY <1>1, <2>1, <2>2 DEF DeepeningTypes
<1>5. /\ pvIdx' = pvIdx + 1 /\ pc' = "search"
      /\ alpha' \in Int /\ beta' \in Int /\ delta' \in Int
      /\ alpha' >= -Infinite /\ beta' > -Infinite /\ delta' > 0
  <2>1. pvIdx + 1 \in Nat \ {0}
    BY <1>4
  <2> QED
    BY <1>1, <1>2, <1>4, <2>1, StartLineTypes
<1>6. DeepeningTypes'
  <2>1. pc' \in OnLine /\ pc' # "judge" /\ pvIdx' \in Nat \ {0} /\ pvIdx' <= MultiPV' /\ rootDepth' > 0
    BY <1>2, <1>3, <1>4, <1>5 DEF OnLine, Kept
  <2> QED
    BY <1>1, <1>2, <1>5, <2>1 DEF DeepeningTypes, Kept
<1>7. SentIsShown'
  BY <1>2, <1>4, <1>5 DEF DeepeningInv, SentIsShown, Kept
<1>8. FirstIsScored'
  BY <1>2 DEF DeepeningInv, FirstIsScored, Kept
<1>9. FinishedAreExact'
  <2>1. (pvIdx + 1) - 1 = pvIdx
    BY <1>4
  <2> QED
    BY <1>2, <1>5, <2>1 DEF DeepeningInv, FinishedAreExact, Kept, IsBound
<1>10. AllFoundBefore'
  <2>1. (pvIdx + 1) - 1 = pvIdx /\ pc \in OnLine
    BY <1>2, <1>4 DEF OnLine
  <2>2. \A i \in 1..N : /\ rm[i].pv.at[1] <= rootDepth /\ (rootDepth > 0 => rm[i].previousPV.at[1] < rootDepth)
                        /\ rm[i].pv.at[1] = rootDepth => rm[i].pv.at[2] <= pvIdx
    BY <2>1 DEF DeepeningInv, AllFoundBefore, FoundBefore
  <2>3. \A i \in 1..N : rm[i].pv.at[2] \in Int
    BY <1>1, RecordFacts, PlaceFacts DEF DeepeningTypes
  <2>4. \A i \in 1..N : rm[i].pv.at[1] = rootDepth => rm[i].pv.at[2] < pvIdx + 1 /\ rm[i].pv.at[2] <= pvIdx + 1
    BY <2>2, <2>3, <1>4
  <2>5. \A i \in 1..pvIdx : i \in 1..N
    <3>1. MultiPV \in 1..N /\ N \in Nat
      BY <1>1, LinesShown
    <3> QED
      BY <3>1, <1>2, <1>4
  <2>6. last.pv.at[1] <= rootDepth /\ last.pv.at[1] < rootDepth
    BY <2>1 DEF DeepeningInv, AllFoundBefore
  <2>7. \A i \in 1..N : FoundBefore(rm[i])'
    BY <1>2, <1>5, <2>2, <2>4 DEF FoundBefore, Kept
  <2>8. \A i \in 1..(pvIdx' - 1) : rm'[i].pv.at[1] = rootDepth' => rm'[i].pv.at[2] < pvIdx'
    BY <1>2, <1>5, <2>1, <2>4, <2>5 DEF Kept
  <2> QED
    BY <1>2, <2>6, <2>7, <2>8 DEF AllFoundBefore, Kept
<1>11. FinishedAreInOrder'
  <2>1. (pvIdx + 1) - 1 = pvIdx
    BY <1>4
  <2> QED
    BY <1>2, <1>5, <2>1 DEF DeepeningInv, FinishedAreInOrder, Kept, InOrderFrom, Before
<1>12. CutIsGuarded'
  BY <1>2 DEF DeepeningInv, CutIsGuarded
<1>13. MateIsKept'
  BY <1>5 DEF MateIsKept
<1> QED
  BY <1>3, <1>6, <1>7, <1>8, <1>9, <1>10, <1>11, <1>12, <1>13 DEF DeepeningInv

\* The last line of an iteration, or the one that was stopped
LEMMA LastLineInv == DeepeningInv /\ LastLine => DeepeningInv'
<1> SUFFICES ASSUME DeepeningInv, LastLine PROVE DeepeningInv'
  OBVIOUS
<1>1. DeepeningTypes
  BY DEF DeepeningInv
<1>2. /\ Kept /\ pc = "next" /\ pc' = "end" /\ pvIdx' = (IF stop THEN pvIdx ELSE pvIdx + 1)
      /\ alpha' = alpha /\ beta' = beta /\ delta' = delta /\ (stop \/ pvIdx = MultiPV)
      /\ best' = best /\ stop' = stop /\ cut' = cut /\ uciPvSent' = uciPvSent /\ shown' = shown
  BY DEF LastLine, Kept, window
<1>3. /\ NoneIsMissing' /\ LinesFit' /\ LastFits' /\ MultiPV' = MultiPV
      /\ Lines(rm)' = Lines(rm)
  BY <1>1, <1>2, KeptLines DEF DeepeningInv
<1>4. pc \in OnLine /\ pc' \notin OnLine /\ pvIdx \in Nat \ {0} /\ pvIdx' \in Nat \ {0}
  BY <1>1, <1>2 DEF OnLine, DeepeningTypes
<1>5. DeepeningTypes'
  <2>1. pc' \in OnLine \cup {"end", "iterate", "done"} /\ rootDepth > 0 /\ pc' \notin {"search", "judge"}
    BY <1>1, <1>2, <1>4 DEF DeepeningTypes
  <2> QED
    BY <1>1, <1>2, <1>4, <2>1 DEF DeepeningTypes, Kept
<1>6. SentIsShown'
  BY <1>2, <1>3 DEF DeepeningInv, SentIsShown, Kept
<1>7. FirstIsScored'
  BY <1>2 DEF DeepeningInv, FirstIsScored, Kept
<1>8. FinishedAreExact'
  <2>1. 1 \in 1..pvIdx
    BY <1>4
  <2> QED
    BY <1>2, <2>1 DEF DeepeningInv, FinishedAreExact, Kept, IsBound
<1>9. AllFoundBefore'
  BY <1>2, <1>4 DEF DeepeningInv, AllFoundBefore, FoundBefore, Kept
<1>10. FinishedAreInOrder'
  BY <1>2 DEF FinishedAreInOrder
<1>11. CutIsGuarded'
  <2>1. SUFFICES ASSUME cut' PROVE CutIsGuarded'
    BY DEF CutIsGuarded
  <2>2. stop /\ stop' /\ pvIdx' = pvIdx /\ pvIdx <= MultiPV
    BY <1>2, <2>1 DEF DeepeningInv, CutIsGuarded
  <2> QED
    BY <1>2, <1>3, <2>2 DEF DeepeningInv, CutIsGuarded, Kept, IsExactLoss, IsBound, FromTheCutSearch
<1>12. MateIsKept'
  BY <1>2 DEF MateIsKept
<1> QED
  BY <1>3, <1>5, <1>6, <1>7, <1>8, <1>9, <1>10, <1>11, <1>12 DEF DeepeningInv

\* The next iteration forgets no score and no line.
LEMMA IterateInv == DeepeningInv /\ Iterate => DeepeningInv'
<1> SUFFICES ASSUME DeepeningInv, Iterate PROVE DeepeningInv'
  OBVIOUS
<1>1. DeepeningTypes /\ DeepeningTypes'
  BY TypesIterate DEF DeepeningInv
<1>2. /\ ~stop /\ ~stop' /\ stop' = stop /\ last' = last /\ limits' = limits /\ rootDepth' = rootDepth + 1
      /\ cut' = cut /\ pc = "iterate" /\ pc' = "search" /\ pvIdx' = 1
      /\ uciPvSent' = (uciPvSent /\ ~limits.main)
  BY DEF Iterate, GoesOn, StartLine, SentYet
<1>3. /\ rm \in [1..N -> Records] /\ rm' = [i \in 1..N |-> Renewed(rm[i], i)] /\ rootDepth \in Nat
      /\ N \in Nat
  <2>1. DOMAIN rm = 1..N /\ N \in Nat
    BY <1>1, LinesShown
  <2> QED
    BY <1>1, <2>1, Constants DEF Iterate, DeepeningTypes
<1>4. \A i \in 1..N : IsRenewed(rm'[i], rm[i], i) /\ rm[i] \in Records
  BY <1>3, RenewedIs
<1>5. SentIsShown'
  <2>1. limits.main \in BOOLEAN
    BY <1>1, Constants DEF DeepeningTypes
  <2> QED
    BY <1>2, <2>1 DEF SentIsShown
<1>6. NoneIsMissing'
  BY <1>4 DEF DeepeningInv, NoneIsMissing, IsRenewed
<1>7. LinesFit'
  <2> SUFFICES ASSUME NEW i \in 1..N PROVE ItsLine(rm[i])'
    BY DEF LinesFit
  <2>1. ItsLine(rm[i])
    BY DEF DeepeningInv, LinesFit
  <2> QED
    BY <1>2, <1>4, <2>1 DEF ItsLine, IsRenewed, IsBound
<1>8. LastFits'
  BY <1>2 DEF DeepeningInv, LastFits
<1>9. FirstIsScored'
  <2>1. 1 \in 1..N
    BY <1>1, LinesShown
  <2> QED
    BY <1>2, <1>4, <2>1 DEF DeepeningInv, FirstIsScored, IsRenewed
<1>10. FinishedAreExact' /\ FinishedAreInOrder'
  BY <1>2 DEF FinishedAreExact, FinishedAreInOrder, InOrderFrom
<1>11. AllFoundBefore'
  <2>1. ASSUME NEW i \in 1..N PROVE FoundBefore(rm[i])'
    <3>1. rm[i].pv.at[1] <= rootDepth /\ rm[i].pv.at[1] \in Int
      BY <1>4, RecordFacts, PlaceFacts DEF DeepeningInv, AllFoundBefore, FoundBefore
    <3>2. rm'[i].pv = rm[i].pv /\ rm'[i].previousPV = rm[i].pv
      BY <1>4 DEF IsRenewed
    <3> QED
      BY <1>2, <1>3, <3>1, <3>2 DEF FoundBefore
  <2>2. last.pv.at[1] <= rootDepth /\ last.pv.at[1] \in Int
    BY <1>1, PlaceFacts DEF DeepeningInv, AllFoundBefore, DeepeningTypes
  <2> QED
    BY <1>2, <1>3, <2>1, <2>2 DEF AllFoundBefore
<1>12. CutIsGuarded'
  BY <1>2 DEF DeepeningInv, CutIsGuarded
<1>13. MateIsKept'
  BY <1>2 DEF MateIsKept
<1> QED
  BY <1>1, <1>5, <1>6, <1>7, <1>8, <1>9, <1>10, <1>11, <1>12, <1>13 DEF DeepeningInv

\* A search of the root, complete, cut short or pruned
LEMMA SearchInv == DeepeningInv /\ (Search \/ Pruned) => DeepeningInv'
<1> SUFFICES ASSUME DeepeningInv, Search \/ Pruned PROVE DeepeningInv'
  OBVIOUS
<1>1. DeepeningTypes
  BY DEF DeepeningInv
<1>2. /\ pc = "search" /\ pc' = "judge" /\ limits' = limits /\ rootDepth' = rootDepth /\ pvIdx' = pvIdx
      /\ alpha' = alpha /\ beta' = beta /\ delta' = delta /\ last' = last /\ uciPvSent' = uciPvSent
  BY DEF Search, Pruned, window
<1>3. /\ rm' \in [1..N -> Records] /\ best' \in Int /\ stop' \in BOOLEAN /\ cut' \in BOOLEAN
      /\ stop => stop'
      /\ cut' => stop'
      /\ ~stop' => best' > -Infinite
      /\ \A k \in 1..N : \E i \in 1..N : SearchedAs(rm'[k], rm[i])
      /\ \A i \in 1..N : \E k \in 1..N : rm'[k].move = rm[i].move
      /\ \A k \in 1..(pvIdx - 1) : rm'[k] = rm[k]
      /\ rm'[pvIdx].score = -Infinite => (stop' \/ best' >= beta) /\ rm[pvIdx].score = -Infinite
      /\ ~stop' /\ best' > alpha /\ best' < beta => ~IsBound(rm'[pvIdx])
  BY <1>1, SearchPlaces, PrunedPlaces
<1>4. MultiPV' = MultiPV
  BY <1>1, <1>2, <1>3, SameLines
<1>5. pc \in OnLine /\ pc' \in OnLine /\ pvIdx \in 1..N /\ rootDepth > 0 /\ rootDepth \in Nat
      /\ pvIdx <= MultiPV /\ rm \in [1..N -> Records]
  <2>1. MultiPV \in 1..N /\ N \in Nat
    BY <1>1, LinesShown
  <2> QED
    BY <1>1, <1>2, <2>1 DEF OnLine, DeepeningTypes
<1>6. DeepeningTypes'
  BY <1>1, <1>2, <1>3, <1>4, <1>5 DEF DeepeningTypes
<1>7. SentIsShown'
  BY <1>2 DEF DeepeningInv, SentIsShown
<1>8. NoneIsMissing'
  <2> SUFFICES ASSUME NEW m \in Range(RootMoves) PROVE \E i \in 1..N : rm'[i].move = m
    BY DEF NoneIsMissing
  <2>1. PICK i \in 1..N : rm[i].move = m
    BY DEF DeepeningInv, NoneIsMissing
  <2> QED
    BY <1>3, <2>1
<1>9. LinesFit'
  <2> SUFFICES ASSUME NEW k \in 1..N PROVE ItsLine(rm[k])'
    BY DEF LinesFit
  <2>1. PICK i \in 1..N : SearchedAs(rm'[k], rm[i])
    BY <1>3
  <2>2. ItsLine(rm[i])
    BY DEF DeepeningInv, LinesFit
  <2> QED
    BY <1>3, <2>1, <2>2 DEF ItsLine, SearchedAs, IsBound
<1>10. LastFits'
  BY <1>2 DEF DeepeningInv, LastFits
<1>11. FirstIsScored'
  <2>1. SUFFICES ASSUME rm'[1].score = -Infinite
                 PROVE  last.pv = NoLine /\ (stop' \/ (pvIdx = 1 /\ best' >= beta))
    BY <1>2 DEF FirstIsScored
  <2>2. CASE pvIdx = 1
    BY <1>2, <1>3, <2>1, <2>2 DEF DeepeningInv, FirstIsScored
  <2>3. CASE pvIdx # 1
    <3>1. rm[1].score = -Infinite
      <4>1. 1 \in 1..(pvIdx - 1)
        BY <1>5, <2>3
      <4> QED
        BY <1>3, <2>1, <4>1
    <3> QED
      BY <1>2, <1>3, <2>3, <3>1 DEF DeepeningInv, FirstIsScored
  <2> QED
    BY <2>2, <2>3
<1>12. FinishedAreExact'
  <2>1. SUFFICES ASSUME ~stop'
                 PROVE  /\ \A i \in 1..(pvIdx - 1) : ~IsBound(rm'[i])
                        /\ best' > alpha /\ best' < beta => ~IsBound(rm'[pvIdx])
    BY <1>2 DEF FinishedAreExact, IsBound
  <2>2. \A i \in 1..(pvIdx - 1) : ~IsBound(rm[i])
    BY <1>2, <1>3, <2>1 DEF DeepeningInv, FinishedAreExact
  <2> QED
    BY <1>3, <2>1, <2>2
<1>13. AllFoundBefore'
  <2>1. ASSUME NEW k \in 1..N PROVE FoundBefore(rm[k])'
    <3>1. PICK i \in 1..N : SearchedAs(rm'[k], rm[i])
      BY <1>3
    <3>2. FoundBefore(rm[i])
      BY DEF DeepeningInv, AllFoundBefore
    <3>3. rm'[k].pv = rm[i].pv \/ (rm'[k].pv.at[1] = rootDepth /\ rm'[k].pv.at[2] = pvIdx)
      BY <3>1 DEF SearchedAs
    <3>4. rm'[k].previousPV = rm[i].previousPV
      BY <3>1 DEF SearchedAs
    <3> QED
      BY <1>2, <1>5, <3>2, <3>3, <3>4 DEF FoundBefore
  <2>2. \A i \in 1..(pvIdx - 1) : rm'[i].pv.at[1] = rootDepth => rm'[i].pv.at[2] < pvIdx
    BY <1>2, <1>3 DEF DeepeningInv, AllFoundBefore
  <2> QED
    BY <1>2, <1>5, <2>1, <2>2 DEF DeepeningInv, AllFoundBefore
<1>14. FinishedAreInOrder'
  BY <1>2, <1>3, ZenonT(30) DEF DeepeningInv, FinishedAreInOrder, InOrderFrom, Before
<1>15. CutIsGuarded'
  BY <1>2, <1>3, <1>4, <1>5 DEF CutIsGuarded
<1>16. MateIsKept'
  BY <1>2 DEF MateIsKept
<1> QED
  BY <1>6, <1>7, <1>8, <1>9, <1>10, <1>11, <1>12, <1>13, <1>14, <1>15, <1>16 DEF DeepeningInv

-----------------------------------------------------------------------------
(* The end of a line *)

\* A root move that a stopped search has no say on, by the three ways out.
IsMistrusted(q, r, above) ==
  /\ q \in Records /\ q.move = r.move /\ q.exact = r.exact /\ q.previousPV = r.previousPV
  /\ \/ /\ r.previous # -Infinite /\ r.exact /\ r.previous <= above.score
        /\ q.score = r.previous /\ q.previous = -Infinite /\ q.pv = r.previousPV
     \/ /\ IsLoss(above.score) /\ q.score = above.score /\ q.previous = -Infinite
        /\ q.pv = NoLine /\ q.upper = TRUE
     \/ /\ ~IsLoss(above.score) /\ q.score = r.score /\ q.previous = r.previous
        /\ q.pv = r.pv /\ q.lower = TRUE

\* Mistrusted() takes one of them.
LEMMA MistrustedIs ==
  ASSUME NEW s, s[pvIdx] \in Records, s[pvIdx - 1] \in Records
  PROVE  IsMistrusted(Mistrusted(s), s[pvIdx], s[pvIdx - 1])
<1>1. PICK r : r = s[pvIdx]
  OBVIOUS
<1>2. PICK above : above = s[pvIdx - 1]
  OBVIOUS
<1>3. PICK q : q = Mistrusted(s)
  OBVIOUS
<1>4. -Infinite \in Scores /\ NoLine \in Places
  BY Constants, NoLineIsPlace DEF Scores
<1>5. above.score \in Scores /\ above.score \in Int /\ r.previousPV \in Places /\ r.previous \in Scores
      /\ r.previous \in Int /\ r \in Records
  BY <1>1, <1>2, RecordFacts
<1>6. CASE r.previous # -Infinite /\ r.exact /\ r.previous <= above.score
  <2>1. q = [r EXCEPT !.score = r.previous, !.uci = r.previous, !.previous = -Infinite,
                      !.pv = r.previousPV, !.lower = FALSE, !.upper = FALSE]
    BY <1>1, <1>2, <1>3, <1>6 DEF Mistrusted
  <2>2. /\ q \in Records /\ q.move = r.move /\ q.exact = r.exact /\ q.previousPV = r.previousPV
        /\ q.score = r.previous /\ q.previous = -Infinite /\ q.pv = r.previousPV
    BY <1>4, <1>5, <2>1 DEF Records
  <2>3. IsMistrusted(q, r, above)
    BY <1>6, <2>2 DEF IsMistrusted
  <2> QED
    BY <1>1, <1>2, <1>3, <2>3
<1>7. CASE ~(r.previous # -Infinite /\ r.exact /\ r.previous <= above.score) /\ IsLoss(above.score)
  <2>1. q = [r EXCEPT !.score = above.score, !.uci = above.score, !.previous = -Infinite,
                      !.pv = NoLine, !.upper = TRUE, !.lower = FALSE]
    BY <1>1, <1>2, <1>3, <1>7 DEF Mistrusted
  <2>2. /\ q \in Records /\ q.move = r.move /\ q.exact = r.exact /\ q.previousPV = r.previousPV
        /\ q.score = above.score /\ q.previous = -Infinite /\ q.pv = NoLine /\ q.upper = TRUE
    BY <1>4, <1>5, <2>1 DEF Records
  <2>3. IsMistrusted(q, r, above)
    BY <1>7, <2>2 DEF IsMistrusted
  <2> QED
    BY <1>1, <1>2, <1>3, <2>3
<1>8. CASE ~(r.previous # -Infinite /\ r.exact /\ r.previous <= above.score) /\ ~IsLoss(above.score)
  <2>1. q = [r EXCEPT !.upper = FALSE, !.lower = TRUE]
    BY <1>1, <1>2, <1>3, <1>8 DEF Mistrusted
  <2>2. /\ q \in Records /\ q.move = r.move /\ q.exact = r.exact /\ q.previousPV = r.previousPV
        /\ q.score = r.score /\ q.previous = r.previous /\ q.pv = r.pv /\ q.lower = TRUE
    BY <1>5, <2>1 DEF Records
  <2>3. IsMistrusted(q, r, above)
    BY <1>8, <2>2 DEF IsMistrusted
  <2> QED
    BY <1>1, <1>2, <1>3, <2>3
<1> QED
  BY <1>6, <1>7, <1>8

\* A score that is now a bound
Lowered(r) == [r EXCEPT !.lower = TRUE]
IsLowered(q, r) ==
  /\ q \in Records /\ q.lower = TRUE
  /\ q.move = r.move /\ q.score = r.score /\ q.uci = r.uci /\ q.previous = r.previous
  /\ q.exact = r.exact /\ q.pv = r.pv /\ q.previousPV = r.previousPV

\* Nothing else changes.
LEMMA LoweredIs ==
  ASSUME NEW r \in Records
  PROVE  IsLowered(Lowered(r), r)
BY DEF Lowered, IsLowered, Records

\* The places before the last sort of a line
IsGuarded(g) ==
  /\ g \in [1..N -> Records]
  /\ \A i \in 1..(pvIdx - 1) : g[i] = rm[i]
  /\ \A i \in (pvIdx + 1)..N : g[i] = rm[i] \/ (stop /\ IsLowered(g[i], rm[i]))
  /\ \/ g[pvIdx] = rm[pvIdx] /\ (stop /\ pvIdx > 1 => ~IsSuspect(rm))
     \/ stop /\ pvIdx > 1 /\ IsMistrusted(g[pvIdx], rm[pvIdx], rm[pvIdx - 1])
  /\ stop /\ pvIdx > 1 => \A i \in (pvIdx + 1)..MultiPV : ~IsExactLoss(g[i])

\* Guarded() gives such places.
LEMMA GuardedIs ==
  ASSUME DeepeningTypes, pc = "judge"
  PROVE  IsGuarded(IF stop /\ pvIdx > 1 THEN Guarded(rm) ELSE rm)
<1>1. /\ rm \in [1..N -> Records] /\ DOMAIN rm = 1..N /\ N \in Nat /\ pvIdx \in 1..N
      /\ MultiPV \in 1..N
  <2>1. pc \in OnLine
    BY DEF OnLine
  <2> QED
    BY <2>1, LinesShown DEF DeepeningTypes
<1>2. CASE ~(stop /\ pvIdx > 1)
  BY <1>1, <1>2 DEF IsGuarded
<1>3. CASE stop /\ pvIdx > 1
  <2>1. PICK g : g = Guarded(rm)
    OBVIOUS
  <2>2. rm[pvIdx] \in Records /\ rm[pvIdx - 1] \in Records
    BY <1>1, <1>3
  <2>3. IsMistrusted(Mistrusted(rm), rm[pvIdx], rm[pvIdx - 1])
    BY <2>2, MistrustedIs
  <2>4. DOMAIN g = 1..N /\ g = [i \in 1..N |-> g[i]]
    BY <1>1, <2>1 DEF Guarded
  <2>5. ASSUME NEW i \in 1..N
        PROVE  /\ i = pvIdx /\ IsSuspect(rm) => g[i] = Mistrusted(rm)
               /\ i > pvIdx /\ i <= MultiPV /\ IsExactLoss(rm[i]) => g[i] = Lowered(rm[i])
               /\ ~(i = pvIdx /\ IsSuspect(rm)) /\ ~(i > pvIdx /\ i <= MultiPV /\ IsExactLoss(rm[i])) =>
                    g[i] = rm[i]
    <3>0. i \in DOMAIN rm /\ ~(i = pvIdx /\ i > pvIdx)
      BY <1>1
    <3>1. g[i] = CASE i = pvIdx /\ IsSuspect(rm) -> Mistrusted(rm)
                   [] i > pvIdx /\ i <= MultiPV /\ IsExactLoss(rm[i]) -> Lowered(rm[i])
                   [] OTHER -> rm[i]
      BY <2>1, <3>0 DEF Guarded, Lowered
    <3> QED
      BY <3>0, <3>1
  <2>6. ASSUME NEW i \in 1..N
        PROVE  g[i] \in Records
    <3>1. rm[i] \in Records /\ Mistrusted(rm) \in Records /\ Lowered(rm[i]) \in Records
      BY <1>1, <2>3, LoweredIs DEF IsMistrusted, IsLowered
    <3> QED
      BY <2>5, <3>1
  <2>7. ASSUME NEW i \in 1..(pvIdx - 1) PROVE g[i] = rm[i]
    <3>1. i \in 1..N /\ i # pvIdx /\ ~(i > pvIdx)
      BY <1>1
    <3> QED
      BY <2>5, <3>1
  <2>8. ASSUME NEW i \in (pvIdx + 1)..N PROVE g[i] = rm[i] \/ IsLowered(g[i], rm[i])
    <3>1. i \in 1..N /\ i # pvIdx
      BY <1>1
    <3>2. IsLowered(Lowered(rm[i]), rm[i])
      BY <1>1, <3>1, LoweredIs
    <3> QED
      BY <2>5, <3>1, <3>2
  <2>9. \/ g[pvIdx] = rm[pvIdx] /\ ~IsSuspect(rm)
        \/ IsMistrusted(g[pvIdx], rm[pvIdx], rm[pvIdx - 1])
    <3>1. ~(pvIdx > pvIdx)
      BY <1>1
    <3> QED
      BY <1>1, <2>3, <2>5, <3>1
  <2>10. ASSUME NEW i \in (pvIdx + 1)..MultiPV PROVE ~IsExactLoss(g[i])
    <3>1. i \in 1..N /\ i # pvIdx /\ i > pvIdx /\ i <= MultiPV
      BY <1>1
    <3>2. CASE IsExactLoss(rm[i])
      <4>1. g[i].lower = TRUE
        <5>1. IsLowered(Lowered(rm[i]), rm[i])
          BY <1>1, <3>1, LoweredIs
        <5> QED
          BY <2>5, <3>1, <3>2, <5>1 DEF IsLowered
      <4> QED
        BY <4>1 DEF IsExactLoss, IsBound
    <3>3. CASE ~IsExactLoss(rm[i])
      BY <2>5, <3>1, <3>3
    <3> QED
      BY <3>2, <3>3
  <2>11. g \in [1..N -> Records]
    BY <2>4, <2>6
  <2>12. IsGuarded(g)
    BY <1>3, <2>7, <2>8, <2>9, <2>10, <2>11 DEF IsGuarded
  <2> QED
    BY <1>3, <2>1, <2>12
<1> QED
  BY <1>2, <1>3

\* What the end of a line makes of the root moves: g, sorted
EndedWith(g) ==
  /\ IsGuarded(g) /\ IsSortOf(rm', g, N, 1, pvIdx) /\ SortKept(rm', g, N, 1, pvIdx)
  /\ InOrderFrom(g, 1, pvIdx) => rm' = g

\* The end of a line gives such root moves.
LEMMA EndLineGives ==
  ASSUME DeepeningTypes, EndLine
  PROVE  \E g : EndedWith(g)
<1>1. PICK g : g = IF stop /\ pvIdx > 1 THEN Guarded(rm) ELSE rm
  OBVIOUS
<1>2. IsGuarded(g) /\ g \in [1..N -> Records]
  <2>1. pc = "judge"
    BY DEF EndLine
  <2>2. IsGuarded(g)
    BY <1>1, <2>1, GuardedIs
  <2> QED
    BY <2>2 DEF IsGuarded
<1>3. rm' = Sorted(g, 1, pvIdx)
  BY <1>1 DEF EndLine
<1>4. N \in Nat /\ 1 \in 1..N /\ pvIdx \in 1..N
  <2>1. pc \in OnLine
    BY DEF OnLine, EndLine
  <2> QED
    BY <2>1, LinesShown DEF DeepeningTypes
<1>5. DOMAIN g = 1..N /\ g = [i \in 1..N |-> g[i]] /\ \A i \in 1..N : Comparable(g[i])
  BY <1>2, RecordFacts
<1>6. /\ IsSortOf(rm', g, N, 1, pvIdx)
      /\ InOrderFrom(g, 1, pvIdx) => rm' = g
  BY <1>3, <1>4, <1>5, SortedIsSort
<1>7. SortKept(rm', g, N, 1, pvIdx)
  BY <1>2, <1>4, <1>6, SortKeeps
<1> QED
  BY <1>2, <1>6, <1>7 DEF EndedWith

\* The end of a line: the guard against losses that were not proved keeps the invariant.
LEMMA EndLineInv == DeepeningInv /\ EndLine => DeepeningInv'
<1> SUFFICES ASSUME DeepeningInv, EndLine PROVE DeepeningInv'
  OBVIOUS
<1>1. DeepeningTypes
  BY DEF DeepeningInv
<1>2. /\ pc = "judge" /\ pc' = "show" /\ limits' = limits /\ rootDepth' = rootDepth /\ pvIdx' = pvIdx
      /\ last' = last /\ uciPvSent' = uciPvSent /\ stop' = stop /\ cut' = cut
      /\ alpha' = 0 /\ beta' = 0 /\ delta' = 0 /\ best' = 0
      /\ stop \/ (best > alpha /\ best < beta)
  BY DEF EndLine
<1>3. PICK g : EndedWith(g)
  BY <1>1, EndLineGives
<1>4. /\ pc \in OnLine /\ pc' \in OnLine /\ pvIdx \in 1..N /\ N \in Nat /\ rootDepth > 0 /\ rootDepth \in Nat
      /\ pvIdx <= MultiPV /\ MultiPV \in 1..N /\ rm \in [1..N -> Records]
  BY <1>1, <1>2, LinesShown DEF OnLine, DeepeningTypes
<1>5. /\ g \in [1..N -> Records]
      /\ \A i \in 1..(pvIdx - 1) : g[i] = rm[i]
      /\ \A i \in (pvIdx + 1)..N : g[i] = rm[i] \/ (stop /\ IsLowered(g[i], rm[i]))
      /\ \/ g[pvIdx] = rm[pvIdx] /\ (stop /\ pvIdx > 1 => ~IsSuspect(rm))
         \/ stop /\ pvIdx > 1 /\ IsMistrusted(g[pvIdx], rm[pvIdx], rm[pvIdx - 1])
      /\ stop /\ pvIdx > 1 => \A i \in (pvIdx + 1)..MultiPV : ~IsExactLoss(g[i])
  BY <1>3 DEF EndedWith, IsGuarded
<1>6. /\ rm' \in [1..N -> Records]
      /\ \A k \in 1..N : \E i \in 1..N : rm'[k] = g[i]
      /\ \A i \in 1..N : \E k \in 1..N : rm'[k] = g[i]
      /\ \A k \in 1..pvIdx : \E i \in 1..pvIdx : rm'[k] = g[i]
      /\ \A k \in 1..N : k \notin 1..pvIdx => rm'[k] = g[k]
      /\ InOrderFrom(rm', 1, pvIdx)
  BY <1>3 DEF EndedWith, SortKept
<1>7. MultiPV' = MultiPV
  BY <1>1, <1>2, <1>6, SameLines
<1>8. \A i \in 1..N : \/ i \in 1..(pvIdx - 1) \/ i = pvIdx \/ i \in (pvIdx + 1)..N
  BY <1>4
<1>9. ASSUME NEW i \in 1..N
      PROVE  \/ g[i] = rm[i]
             \/ stop /\ IsLowered(g[i], rm[i])
             \/ stop /\ i = pvIdx /\ pvIdx > 1 /\ IsMistrusted(g[i], rm[i], rm[pvIdx - 1])
  BY <1>5, <1>8
<1>10. DeepeningTypes'
  BY <1>1, <1>2, <1>4, <1>6, <1>7 DEF DeepeningTypes
<1>11. SentIsShown'
  BY <1>2 DEF DeepeningInv, SentIsShown
<1>12. NoneIsMissing'
  <2> SUFFICES ASSUME NEW m \in Range(RootMoves) PROVE \E i \in 1..N : rm'[i].move = m
    BY DEF NoneIsMissing
  <2>1. PICK i \in 1..N : rm[i].move = m
    BY DEF DeepeningInv, NoneIsMissing
  <2>2. g[i].move = m
    BY <1>9, <2>1 DEF IsLowered, IsMistrusted
  <2> QED
    BY <1>6, <2>2
<1>13. LinesFit'
  <2> SUFFICES ASSUME NEW k \in 1..N PROVE ItsLine(rm[k])'
    BY DEF LinesFit
  <2>1. PICK i \in 1..N : rm'[k] = g[i]
    BY <1>6
  <2>2. ItsLine(rm[i])
    BY DEF DeepeningInv, LinesFit
  <2>3. CASE g[i] = rm[i]
    BY <1>2, <2>1, <2>2, <2>3 DEF ItsLine, IsBound
  <2>4. CASE stop /\ IsLowered(g[i], rm[i])
    BY <1>2, <2>1, <2>2, <2>4 DEF ItsLine, IsBound, IsLowered
  <2>5. CASE stop /\ IsMistrusted(g[i], rm[i], rm[pvIdx - 1])
    <3>1. g[i].score # -Infinite /\ ~IsBound(g[i]) => g[i].pv.value = g[i].score
      BY <2>2, <2>5 DEF ItsLine, IsBound, IsMistrusted
    <3>2. g[i].exact /\ g[i].previous # -Infinite => g[i].previousPV.value = g[i].previous
      BY <2>2, <2>5 DEF ItsLine, IsMistrusted
    <3> QED
      BY <1>2, <2>1, <2>5, <3>1, <3>2 DEF ItsLine, IsBound
  <2> QED
    BY <1>9, <2>3, <2>4, <2>5
<1>14. LastFits'
  BY <1>2 DEF DeepeningInv, LastFits
<1>15. FirstIsScored'
  <2> SUFFICES ASSUME rm'[1].score = -Infinite PROVE last.pv = NoLine /\ stop
    BY <1>2 DEF FirstIsScored
  <2>1. g[1] = rm[1]
    <3>1. CASE pvIdx = 1
      BY <1>5, <3>1
    <3>2. CASE pvIdx # 1
      <4>1. 1 \in 1..(pvIdx - 1)
        BY <1>4, <3>2
      <4> QED
        BY <1>5, <4>1
    <3> QED
      BY <3>1, <3>2
  <2>2. g[1].score <= rm'[1].score
    <3>1. 1 \in 1..N /\ 1 <= pvIdx /\ 1 \in 1..pvIdx
      BY <1>4
    <3>2. IsSortOf(rm', g, N, 1, pvIdx)
      BY <1>3 DEF EndedWith
    <3> QED
      BY <1>4, <1>5, <3>1, <3>2, SortFirst
  <2>3. rm[1].score \in Int /\ rm[1].score >= -Infinite
    <3>1. rm[1] \in Records
      BY <1>4
    <3> QED
      BY <3>1, RecordFacts
  <2>4. rm[1].score = -Infinite
    BY <2>1, <2>2, <2>3, Constants
  <2>5. best \in Int /\ beta \in Int /\ (best < beta => ~(best >= beta))
    BY <1>1 DEF DeepeningTypes
  <2> QED
    BY <1>2, <2>4, <2>5 DEF DeepeningInv, FirstIsScored
<1>16. FinishedAreExact'
  <2> SUFFICES ASSUME ~stop PROVE \A k \in 1..pvIdx : ~IsBound(rm'[k])
    BY <1>2 DEF FinishedAreExact, IsBound
  <2>1. \A i \in 1..(pvIdx - 1) : ~IsBound(rm[i])
    BY <1>2 DEF DeepeningInv, FinishedAreExact
  <2>2. ~IsBound(rm[pvIdx])
    BY <1>2 DEF DeepeningInv, FinishedAreExact
  <2>3. ASSUME NEW i \in 1..pvIdx PROVE ~IsBound(g[i])
    <3>1. i \in 1..N /\ (i = pvIdx \/ i \in 1..(pvIdx - 1))
      BY <1>4
    <3>2. g[i] = rm[i]
      BY <1>5, <3>1
    <3> QED
      BY <2>1, <2>2, <3>1, <3>2
  <2> QED
    BY <1>6, <2>3
<1>17. AllFoundBefore'
  <2>1. ASSUME NEW k \in 1..N PROVE FoundBefore(rm[k])'
    <3>1. PICK i \in 1..N : rm'[k] = g[i]
      BY <1>6
    <3>2. FoundBefore(rm[i])
      BY DEF DeepeningInv, AllFoundBefore
    <3>3. g[i].previousPV = rm[i].previousPV
      BY <1>9 DEF IsLowered, IsMistrusted
    <3>4. g[i].pv = rm[i].pv \/ g[i].pv = rm[i].previousPV \/ g[i].pv = NoLine
      BY <1>9 DEF IsLowered, IsMistrusted
    <3>5. rm[i].previousPV.at[1] < rootDepth /\ rm[i].previousPV.at[1] \in Int
      BY <1>4, <3>2, RecordFacts, PlaceFacts DEF FoundBefore
    <3>6. g[i].pv = rm[i].pv \/ g[i].pv.at[1] < rootDepth
      BY <1>4, <3>4, <3>5, NoLineIsPlace
    <3>7. g[i].pv.at[1] \in Int
      BY <1>5, RecordFacts, PlaceFacts
    <3>8. g[i].pv.at[1] <= rootDepth /\ (g[i].pv.at[1] = rootDepth => g[i].pv.at[2] <= pvIdx)
      BY <1>4, <3>2, <3>6, <3>7 DEF FoundBefore
    <3> QED
      BY <1>2, <3>1, <3>3, <3>5, <3>8 DEF FoundBefore
  <2> QED
    BY <1>2, <1>4, <2>1 DEF DeepeningInv, AllFoundBefore
<1>18. FinishedAreInOrder'
  BY <1>2, <1>6 DEF FinishedAreInOrder, InOrderFrom, Before
<1>19. CutIsGuarded'
  <2> SUFFICES ASSUME cut
               PROVE  /\ stop
                      /\ pvIdx > 1 => \A k \in 1..MultiPV : IsExactLoss(rm'[k]) => ~FromTheCutSearch(rm'[k])
    BY <1>2, <1>4, <1>7 DEF CutIsGuarded, IsExactLoss, IsBound, FromTheCutSearch
  <2>1. stop
    BY DEF DeepeningInv, CutIsGuarded
  <2>2. ASSUME pvIdx > 1, NEW i \in 1..pvIdx, IsExactLoss(g[i]), FromTheCutSearch(g[i])
        PROVE  FALSE
    <3>0. i \in 1..N /\ (i = pvIdx \/ i \in 1..(pvIdx - 1))
      BY <1>4
    <3>1. g[i].pv.at[1] = rootDepth /\ g[i].pv.at[2] = pvIdx
      BY <2>2 DEF FromTheCutSearch
    <3>2. CASE i \in 1..(pvIdx - 1)
      BY <1>2, <1>4, <1>5, <3>1, <3>2 DEF DeepeningInv, AllFoundBefore
    <3>3. CASE i = pvIdx
      <4>1. CASE g[pvIdx] = rm[pvIdx] /\ ~IsSuspect(rm)
        BY <2>2, <3>3, <4>1 DEF IsSuspect
      <4>2. CASE IsMistrusted(g[pvIdx], rm[pvIdx], rm[pvIdx - 1])
        <5>1. ~g[i].upper /\ ~g[i].lower
          BY <2>2 DEF IsExactLoss, IsBound
        <5>2. g[i].pv = rm[i].previousPV
          BY <3>3, <4>2, <5>1 DEF IsMistrusted
        <5>3. rm[i].previousPV.at[1] < rootDepth
          BY <1>4, <3>0 DEF DeepeningInv, AllFoundBefore, FoundBefore
        <5> QED
          BY <1>4, <3>1, <5>2, <5>3
      <4> QED
        BY <1>5, <2>1, <2>2, <4>1, <4>2
    <3> QED
      BY <3>0, <3>2, <3>3
  <2>3. ASSUME pvIdx > 1, NEW k \in 1..MultiPV, IsExactLoss(rm'[k])
        PROVE  ~FromTheCutSearch(rm'[k])
    <3>1. CASE k \in 1..pvIdx
      BY <1>6, <2>2, <2>3, <3>1
    <3>2. CASE k \notin 1..pvIdx
      <4>1. k \in 1..N /\ k \in (pvIdx + 1)..MultiPV
        BY <1>4, <3>2
      <4> QED
        BY <1>5, <1>6, <2>1, <2>3, <3>2, <4>1
    <3> QED
      BY <3>1, <3>2
  <2> QED
    BY <2>1, <2>3
<1>20. MateIsKept'
  BY <1>2 DEF MateIsKept
<1> QED
  BY <1>10, <1>11, <1>12, <1>13, <1>14, <1>15, <1>16, <1>17, <1>18, <1>19, <1>20 DEF DeepeningInv

\* Lines proved lost do not move: up to the line that was stopped the list is in order
\* as it is.
LEMMA EndLineKeepsLosses ==
  ASSUME DeepeningInv, EndLine, stop, NEW k \in 1..(pvIdx - 1), IsLoss(rm[k].score)
  PROVE  rm'[k] = rm[k]
<1>1. DeepeningTypes /\ pc = "judge"
  BY DEF DeepeningInv, EndLine
<1>2. PICK g : EndedWith(g)
  BY <1>1, EndLineGives
<1>3. pvIdx \in 1..N /\ N \in Nat /\ rm \in [1..N -> Records] /\ pvIdx > 1
  BY <1>1, LinesShown DEF OnLine, DeepeningTypes
<1> DEFINE above == rm[pvIdx - 1]
           r == rm[pvIdx]
<1>4. above \in Records /\ r \in Records /\ rm[k] \in Records /\ pvIdx - 1 \in 1..(pvIdx - 1)
  BY <1>3
<1>5. Comparable(above) /\ Comparable(r) /\ Comparable(rm[k]) /\ above.previous >= -Infinite
  BY <1>4, RecordFacts
<1>6. InOrderFrom(rm, 1, pvIdx - 1)
  BY <1>1 DEF DeepeningInv, FinishedAreInOrder
<1>7. above.score <= rm[k].score
  <2>1. k # pvIdx - 1 => ~Before(above, rm[k])
    BY <1>4, <1>6 DEF InOrderFrom
  <2> QED
    BY <1>5, <2>1 DEF Before, Comparable
<1>8. IsLoss(above.score)
  <2>1. Decisive \in Nat
    BY Constants
  <2> QED
    BY <1>5, <1>7, <2>1 DEF IsLoss, Comparable
<1>9. g \in [1..N -> Records] /\ \A i \in 1..(pvIdx - 1) : g[i] = rm[i]
  BY <1>2 DEF EndedWith, IsGuarded
<1>10. g[pvIdx] \in Records /\ Comparable(g[pvIdx])
  BY <1>3, <1>9, RecordFacts
<1>11. ~Before(g[pvIdx], above)
  <2>1. CASE g[pvIdx] = r /\ ~IsSuspect(rm)
    BY <1>8, <2>1 DEF IsSuspect
  <2>2. CASE IsMistrusted(g[pvIdx], r, above)
    <3>1. g[pvIdx].score <= above.score /\ g[pvIdx].previous = -Infinite
      BY <1>5, <1>8, <2>2 DEF IsMistrusted, Comparable
    <3> QED
      BY <1>5, <1>10, <3>1 DEF Before, Comparable
  <2> QED
    BY <1>2, <1>3, <2>1, <2>2 DEF EndedWith, IsGuarded
<1>12. InOrderFrom(g, 1, pvIdx)
  <2> SUFFICES ASSUME NEW i \in 1..pvIdx, NEW j \in 1..pvIdx, i < j
               PROVE  ~Before(g[j], g[i])
    BY DEF InOrderFrom
  <2>1. i \in 1..(pvIdx - 1) /\ g[i] = rm[i] /\ i \in 1..N
    BY <1>3, <1>9
  <2>2. CASE j # pvIdx
    <3>1. j \in 1..(pvIdx - 1) /\ g[j] = rm[j]
      BY <1>3, <1>9, <2>2
    <3> QED
      BY <1>6, <2>1, <3>1 DEF InOrderFrom
  <2>3. CASE j = pvIdx
    <3>1. i # pvIdx - 1 => ~Before(above, g[i])
      BY <1>3, <1>4, <1>6, <2>1 DEF InOrderFrom
    <3>2. Comparable(g[i]) /\ (i = pvIdx - 1 => g[i] = above)
      BY <1>9, <2>1, RecordFacts
    <3>3. ~Before(above, g[i])
      BY <1>5, <3>1, <3>2, BeforeOrder
    <3> QED
      BY <1>5, <1>10, <1>11, <2>3, <3>2, <3>3, BeforeOrder
  <2> QED
    BY <2>2, <2>3
<1>13. rm' = g
  BY <1>2, <1>12 DEF EndedWith
<1> QED
  BY <1>9, <1>13

-----------------------------------------------------------------------------
(* The end of an iteration *)

\* Where the elements are once one was moved to the front
IsMoved(t, s, i) ==
  /\ Len(t) = N /\ t \in Seq(Records) /\ t[1] = s[i]
  /\ \A k \in 2..i : t[k] = s[k - 1]
  /\ \A k \in (i + 1)..N : t[k] = s[k]

\* Two sequences in a row
LEMMA Joined ==
  ASSUME NEW S, NEW a \in Seq(S), NEW z \in Seq(S)
  PROVE  /\ a \o z \in Seq(S) /\ Len(a \o z) = Len(a) + Len(z)
         /\ \A k \in 1..Len(a) : (a \o z)[k] = a[k]
         /\ \A k \in 1..Len(z) : (a \o z)[Len(a) + k] = z[k]
OBVIOUS

\* move_to_front() does that.
LEMMA MovedIs ==
  ASSUME N \in Nat, NEW s \in [1..N -> Records], NEW i \in 1..N
  PROVE  IsMoved(MovedToFront(s, i), s, i)
<1> HIDE DEF N
<1>1. s \in Seq(Records) /\ Len(s) = N
  OBVIOUS
<1>2. PICK a \in Seq(Records) :
        a = SubSeq(s, 1, i - 1) /\ Len(a) = i - 1 /\ \A k \in 1..(i - 1) : a[k] = s[k]
  <2>1. /\ SubSeq(s, 1, i - 1) \in Seq(Records) /\ Len(SubSeq(s, 1, i - 1)) = i - 1
        /\ \A k \in 1..(i - 1) : SubSeq(s, 1, i - 1)[k] = s[k]
    BY <1>1
  <2> QED
    BY <2>1
<1>3. PICK z \in Seq(Records) :
        z = SubSeq(s, i + 1, N) /\ Len(z) = N - i /\ \A k \in 1..(N - i) : z[k] = s[i + k]
  <2>1. /\ SubSeq(s, i + 1, N) \in Seq(Records) /\ Len(SubSeq(s, i + 1, N)) = N - i
        /\ \A k \in 1..(N - i) : SubSeq(s, i + 1, N)[k] = s[i + k]
    BY <1>1
  <2> QED
    BY <2>1
<1>4. PICK y : y = a \o z
  OBVIOUS
<1>5. /\ y \in Seq(Records) /\ Len(y) = Len(a) + Len(z)
      /\ \A k \in 1..Len(a) : y[k] = a[k]
      /\ \A k \in 1..Len(z) : y[Len(a) + k] = z[k]
  <2>1. /\ a \o z \in Seq(Records) /\ Len(a \o z) = Len(a) + Len(z)
        /\ \A k \in 1..Len(a) : (a \o z)[k] = a[k]
        /\ \A k \in 1..Len(z) : (a \o z)[Len(a) + k] = z[k]
    BY Joined
  <2> QED
    BY <1>4, <2>1
<1>6. /\ y \in Seq(Records) /\ Len(y) = N - 1 /\ \A k \in 1..(i - 1) : y[k] = s[k]
      /\ \A k \in i..(N - 1) : y[k] = s[k + 1]
  <2>2. ASSUME NEW k \in i..(N - 1) PROVE y[k] = s[k + 1]
    <3>1. k - (i - 1) \in 1..(N - i) /\ i + (k - (i - 1)) = k + 1 /\ (i - 1) + (k - (i - 1)) = k
      OBVIOUS
    <3>2. y[k] = z[k - (i - 1)]
      BY <1>2, <1>3, <1>5, <3>1
    <3> QED
      BY <1>3, <3>1, <3>2
  <2> QED
    BY <1>2, <1>3, <1>5, <2>2
<1>7. PICK x \in Seq(Records) : x = <<s[i]>> /\ Len(x) = 1 /\ x[1] = s[i]
  <2>1. <<s[i]>> \in Seq(Records) /\ Len(<<s[i]>>) = 1 /\ <<s[i]>>[1] = s[i]
    BY <1>1
  <2> QED
    BY <2>1
<1>8. PICK t : t = x \o y
  OBVIOUS
<1>9. /\ t \in Seq(Records) /\ Len(t) = 1 + Len(y) /\ t[1] = s[i]
      /\ \A k \in 1..Len(y) : t[1 + k] = y[k]
  <2>1. /\ x \o y \in Seq(Records) /\ Len(x \o y) = Len(x) + Len(y)
        /\ \A k \in 1..Len(x) : (x \o y)[k] = x[k]
        /\ \A k \in 1..Len(y) : (x \o y)[Len(x) + k] = y[k]
    <3>1. y \in Seq(Records)
      BY <1>6
    <3> QED
      BY <3>1, Joined
  <2> QED
    BY <1>7, <1>8, <2>1
<1>10. MovedToFront(s, i) = t
  BY <1>1, <1>2, <1>3, <1>4, <1>7, <1>8 DEF MovedToFront, RemoveAt
<1>11. ASSUME NEW k \in 2..N PROVE t[k] = y[k - 1]
  <2>1. k - 1 \in 1..(N - 1) /\ 1 + (k - 1) = k
    OBVIOUS
  <2> QED
    BY <1>6, <1>9, <2>1
<1>12. ASSUME NEW k \in 2..i PROVE t[k] = s[k - 1]
  <2>1. k \in 2..N /\ k - 1 \in 1..(i - 1)
    OBVIOUS
  <2> QED
    BY <1>6, <1>11, <2>1
<1>13. ASSUME NEW k \in (i + 1)..N PROVE t[k] = s[k]
  <2>1. k \in 2..N /\ k - 1 \in i..(N - 1) /\ (k - 1) + 1 = k
    OBVIOUS
  <2> QED
    BY <1>6, <1>11, <2>1
<1>14. Len(t) = N
  BY <1>6, <1>9
<1> QED
  BY <1>9, <1>10, <1>12, <1>13, <1>14 DEF IsMoved

\* The last best move with its score and its line, for what the iteration made of it
IsRestored(q, r, b) ==
  /\ q \in Records /\ q.move = r.move /\ q.score = b.score /\ q.pv = b.pv
  /\ ~q.lower /\ ~q.upper
  /\ q.previous = r.previous /\ q.exact = r.exact /\ q.previousPV = r.previousPV

\* Restored() gives it.
LEMMA RestoredIs ==
  ASSUME NEW r \in Records, NEW b, b.score \in Scores, b.pv \in Places
  PROVE  IsRestored(Restored(r, b), r, b)
<1>1. b.score \in Int
  BY Constants DEF Scores
<1> QED
  BY <1>1 DEF Restored, IsRestored, Records

\* The move of place i is back in front.
IsBack(t, i, b) ==
  /\ t \in [1..N -> Records] /\ IsRestored(t[1], rm[i], b)
  /\ \A k \in 2..i : t[k] = rm[k - 1]
  /\ \A k \in (i + 1)..N : t[k] = rm[k]

\* A roll back brings back the root move of the last best move, which is one of them.
LEMMA RolledBackIs ==
  ASSUME DeepeningTypes, NoneIsMissing,
         NEW b, b.move \in Range(RootMoves), b.score \in Scores, b.pv \in Places
  PROVE  \E i \in 1..N : IsBack(RolledBack(b), i, b)
<1>1. /\ rm \in [1..N -> Records] /\ DOMAIN rm = 1..N /\ N \in Nat /\ 1 \in 1..N
  BY LinesShown DEF DeepeningTypes
<1>2. PICK i : i = CHOOSE j \in DOMAIN rm : rm[j].move = b.move
  OBVIOUS
<1>3. i \in 1..N
  <2>1. \E j \in DOMAIN rm : rm[j].move = b.move
    BY <1>1 DEF NoneIsMissing
  <2> QED
    BY <1>1, <1>2, <2>1
<1>4. PICK t : t = MovedToFront(rm, i)
  OBVIOUS
<1>5. IsMoved(t, rm, i)
  BY <1>1, <1>3, <1>4, MovedIs
<1>6. t \in [1..N -> Records]
  <2>1. t \in Seq(Records) /\ Len(t) = N
    BY <1>5 DEF IsMoved
  <2>2. PICK n \in Nat : n = N
    BY <1>1
  <2>3. t \in [1..n -> Records]
    BY <2>1, <2>2
  <2> QED
    BY <2>2, <2>3
<1>7. RolledBack(b) = [t EXCEPT ![1] = Restored(t[1], b)]
  BY <1>2, <1>4 DEF RolledBack
<1>8. IsRestored(Restored(t[1], b), rm[i], b) /\ Restored(t[1], b) \in Records
  <2>1. t[1] \in Records /\ t[1] = rm[i]
    BY <1>1, <1>5, <1>6 DEF IsMoved
  <2>2. IsRestored(Restored(t[1], b), rm[i], b)
    BY <2>1, RestoredIs
  <2> QED
    BY <2>2 DEF IsRestored
<1>9. \A q : q = Restored(t[1], b) =>
        /\ [t EXCEPT ![1] = q] \in [1..N -> Records]
        /\ [t EXCEPT ![1] = q][1] = q /\ \A k \in 2..N : [t EXCEPT ![1] = q][k] = t[k]
  BY <1>1, <1>6, <1>8
<1>10. RolledBack(b)[1] = Restored(t[1], b) /\ RolledBack(b) \in [1..N -> Records]
       /\ \A k \in 2..N : RolledBack(b)[k] = t[k]
  BY <1>7, <1>9
<1>11. ASSUME NEW k \in 2..i PROVE RolledBack(b)[k] = rm[k - 1]
  <2>1. k \in 2..N
    BY <1>1, <1>3
  <2> QED
    BY <1>5, <1>10, <2>1 DEF IsMoved
<1>12. ASSUME NEW k \in (i + 1)..N PROVE RolledBack(b)[k] = rm[k]
  <2>1. k \in 2..N
    BY <1>1, <1>3
  <2> QED
    BY <1>5, <1>10, <2>1 DEF IsMoved
<1>13. IsBack(RolledBack(b), i, b)
  BY <1>8, <1>10, <1>11, <1>12 DEF IsBack
<1> QED
  BY <1>3, <1>13

\* Sequences that begin alike
LEMMA SameStart ==
  ASSUME NEW S, NEW s \in Seq(S), NEW t \in Seq(S), Len(s) >= 3, Len(t) >= 3,
         \A k \in 1..3 : s[k] = t[k]
  PROVE  SubSeq(s, 1, 3) = SubSeq(t, 1, 3)
<1>1. /\ SubSeq(s, 1, 3) \in Seq(S) /\ Len(SubSeq(s, 1, 3)) = 3
      /\ SubSeq(t, 1, 3) \in Seq(S) /\ Len(SubSeq(t, 1, 3)) = 3
  OBVIOUS
<1>2. ASSUME NEW k \in 1..3 PROVE SubSeq(s, 1, 3)[k] = SubSeq(t, 1, 3)[k]
  OBVIOUS
<1> QED
  BY <1>1, <1>2

\* Of a line that is shown, the move, the score and the line are compared.
LEMMA BoundsAreNotCompared ==
  ASSUME NEW a, NEW b, NEW c, NEW d, NEW e, NEW f, NEW g
  PROVE  SubSeq(<<a, b, c, d, e>>, 1, 3) = SubSeq(<<a, b, c, f, g>>, 1, 3)
<1> DEFINE S == {a, b, c, d, e, f, g}
<1>1. <<a, b, c, d, e>> \in Seq(S) /\ <<a, b, c, f, g>> \in Seq(S)
  OBVIOUS
<1> HIDE DEF S
<1> DEFINE s == <<a, b, c, d, e>>
           t == <<a, b, c, f, g>>
<1>2. /\ Len(s) = 5 /\ s[1] = a /\ s[2] = b /\ s[3] = c
      /\ Len(t) = 5 /\ t[1] = a /\ t[2] = b /\ t[3] = c
  OBVIOUS
<1>3. s \in Seq(S) /\ t \in Seq(S)
  BY <1>1
<1> HIDE DEF s, t
<1>4. \A k \in 1..3 : s[k] = t[k]
  BY <1>2
<1>5. SubSeq(s, 1, 3) = SubSeq(t, 1, 3)
  BY <1>2, <1>3, <1>4, SameStart
<1> QED
  BY <1>5 DEF s, t

\* What EndIteration makes of the root moves: nothing, a bound of the first, or the last
\* best move is brought back.
Untouched == rm' = rm /\ ~AbortedLossSearch /\ (LastBest.pv # NoLine => ~Mistaken)
FirstLowered ==
  /\ AbortedLossSearch /\ LastBest.pv = NoLine
  /\ rm' \in [1..N -> Records] /\ IsLowered(rm'[1], rm[1])
  /\ \A k \in 2..N : rm'[k] = rm[k]
BroughtBack ==
  /\ Mistaken /\ LastBest.pv # NoLine
  /\ \E i \in 1..N : IsBack(rm', i, LastBest)

\* The best move of an iteration is a root move with its line, or none.
LEMMA LastBestIs ==
  ASSUME DeepeningInv, pc = "end"
  PROVE  /\ LastBest \in [move : Range(RootMoves) \cup {"none"}, score : Scores, pv : Places]
         /\ LastBest.pv # NoLine =>
              /\ LastBest.move \in Range(RootMoves) /\ LastBest.score # -Infinite
              /\ LastBest.pv.value = LastBest.score
         /\ LastBest.pv.at[1] <= rootDepth
<1>1. DeepeningTypes
  BY DEF DeepeningInv
<1>2. /\ rm[1] \in Records /\ 1 \in 1..N
      /\ last \in [move : Range(RootMoves) \cup {"none"}, score : Scores, pv : Places]
  BY <1>1, LinesShown DEF DeepeningTypes
<1>3. rm[1].move \in Range(RootMoves) /\ rm[1].score \in Scores /\ rm[1].pv \in Places
  BY <1>2, RecordFacts
<1>4. CASE LastBest = last
  BY <1>2, <1>4 DEF DeepeningInv, LastFits, AllFoundBefore
<1>5. CASE ~stop /\ LastBest = [move |-> rm[1].move, score |-> rm[1].score, pv |-> rm[1].pv]
  <2>1. LastBest.move = rm[1].move /\ LastBest.score = rm[1].score /\ LastBest.pv = rm[1].pv
    BY <1>5
  <2>2. rm[1].score # -Infinite
    BY <1>5 DEF DeepeningInv, FirstIsScored
  <2>3. rm[1].pv.value = rm[1].score
    BY <1>2, <1>5, <2>2 DEF DeepeningInv, LinesFit, ItsLine
  <2>4. rm[1].pv.at[1] <= rootDepth
    BY <1>2 DEF DeepeningInv, AllFoundBefore, FoundBefore
  <2>5. LastBest \in [move : Range(RootMoves) \cup {"none"}, score : Scores, pv : Places]
    BY <1>3, <1>5
  <2> QED
    BY <1>3, <2>1, <2>2, <2>3, <2>4, <2>5
<1> QED
  BY <1>4, <1>5 DEF LastBest

\* There is nothing else that it does.
LEMMA EndIterationGives ==
  ASSUME DeepeningInv, EndIteration
  PROVE  Untouched \/ FirstLowered \/ BroughtBack
<1>1. DeepeningTypes /\ pc = "end"
  BY DEF DeepeningInv, EndIteration
<1>2. /\ rm \in [1..N -> Records] /\ 1 \in 1..N /\ N \in Nat /\ rm[1] \in Records
  BY <1>1, LinesShown DEF DeepeningTypes
<1>3. AbortedLossSearch => Mistaken
  BY DEF Mistaken
<1>4. CASE Mistaken /\ LastBest.pv # NoLine
  <2>1. rm' = RolledBack(LastBest)
    BY <1>4 DEF EndIteration
  <2>2. LastBest.move \in Range(RootMoves) /\ LastBest.score \in Scores /\ LastBest.pv \in Places
    BY <1>1, <1>4, LastBestIs
  <2>3. \E i \in 1..N : IsBack(RolledBack(LastBest), i, LastBest)
    BY <1>1, <2>2, RolledBackIs DEF DeepeningInv
  <2> QED
    BY <1>4, <2>1, <2>3 DEF BroughtBack
<1>5. CASE ~(Mistaken /\ LastBest.pv # NoLine) /\ AbortedLossSearch
  <2>1. rm' = [rm EXCEPT ![1] = Lowered(rm[1])]
    BY <1>5 DEF EndIteration, Lowered
  <2>2. IsLowered(Lowered(rm[1]), rm[1])
    BY <1>2, LoweredIs
  <2>3. \A q : q = Lowered(rm[1]) /\ q \in Records =>
          /\ [rm EXCEPT ![1] = q] \in [1..N -> Records]
          /\ [rm EXCEPT ![1] = q][1] = q /\ \A k \in 2..N : [rm EXCEPT ![1] = q][k] = rm[k]
    BY <1>2
  <2>4. Lowered(rm[1]) \in Records
    BY <2>2 DEF IsLowered
  <2>5. rm' \in [1..N -> Records] /\ rm'[1] = Lowered(rm[1]) /\ \A k \in 2..N : rm'[k] = rm[k]
    BY <2>1, <2>3, <2>4
  <2> QED
    BY <1>3, <1>5, <2>2, <2>5 DEF FirstLowered
<1>6. CASE ~(Mistaken /\ LastBest.pv # NoLine) /\ ~AbortedLossSearch
  BY <1>6 DEF EndIteration, Untouched
<1> QED
  BY <1>4, <1>5, <1>6

\* The end of an iteration, with a roll back or without: the best move keeps its mate, and no
\* loss of a search that was cut comes back as exact.
LEMMA EndIterationInv == DeepeningInv /\ EndIteration => DeepeningInv'
<1> SUFFICES ASSUME DeepeningInv, EndIteration PROVE DeepeningInv'
  OBVIOUS
<1>1. DeepeningTypes
  BY DEF DeepeningInv
<1>2. /\ pc = "end" /\ pc' = "iterate" /\ last' = LastBest /\ limits' = limits /\ rootDepth' = rootDepth
      /\ pvIdx' = pvIdx /\ alpha' = alpha /\ beta' = beta /\ delta' = delta /\ best' = best
      /\ shown' = shown /\ cut' = cut /\ uciPvSent' = SentYet(Mistaken /\ LastBest.pv # NoLine)
  BY DEF EndIteration, window
<1>3. stop' \in BOOLEAN /\ (stop => stop')
  <2>1. PICK late \in BOOLEAN :
          LET found == stop \/ MateFound(rm')
              judges == limits.main /\ limits.timed /\ ~found /\ ~stopOnPonderhit
              enough == judges /\ (late \/ NothingBetter(rm'))
          IN stop' = (found \/ (judges /\ Len(rm) = 1) \/ (enough /\ ~ponder))
    BY DEF EndIteration
  <2>2. \E p, q, r : stop' = ((stop \/ p) \/ q \/ r)
    BY <2>1, Zenon
  <2>3. PICK p, q, r : stop' = ((stop \/ p) \/ q \/ r)
    BY <2>2
  <2> QED
    BY <2>3, Zenon
<1>4. Untouched \/ FirstLowered \/ BroughtBack
  BY EndIterationGives
<1>5. /\ rm \in [1..N -> Records] /\ 1 \in 1..N /\ N \in Nat /\ rm[1] \in Records
      /\ rootDepth \in Nat /\ rootDepth > 0 /\ pvIdx \in Nat \ {0} /\ MultiPV \in 1..N
      /\ pc \notin OnLine
  BY <1>1, <1>2, LinesShown DEF DeepeningTypes, OnLine
<1>6. rm' \in [1..N -> Records]
  BY <1>4, <1>5 DEF Untouched, FirstLowered, BroughtBack, IsBack
<1>7. MultiPV' = MultiPV
  BY <1>1, <1>2, <1>6, SameLines
<1>8. /\ LastBest \in [move : Range(RootMoves) \cup {"none"}, score : Scores, pv : Places]
      /\ LastBest.pv # NoLine =>
           /\ LastBest.move \in Range(RootMoves) /\ LastBest.score # -Infinite
           /\ LastBest.pv.value = LastBest.score
      /\ LastBest.pv.at[1] <= rootDepth
  BY <1>2, LastBestIs
<1>9. AbortedLossSearch => stop /\ pvIdx = 1 /\ Mistaken
  BY DEF AbortedLossSearch, Mistaken
<1>10. stop => LastBest = last
  BY DEF LastBest
<1>11. 1 \in 1..N /\ \A k \in 1..N : k = 1 \/ k \in 2..N
  BY <1>5
\* Where a root move comes from
<1>12. ASSUME NEW k \in 1..N
       PROVE  \E i \in 1..N :
                \/ rm'[k] = rm[i] /\ (i = k \/ (BroughtBack /\ i = k - 1)) /\ (k = 1 => Untouched)
                \/ k = 1 /\ i = 1 /\ FirstLowered /\ IsLowered(rm'[k], rm[i])
                \/ k = 1 /\ BroughtBack /\ IsRestored(rm'[k], rm[i], LastBest)
  <2>1. CASE Untouched
    BY <2>1 DEF Untouched
  <2>2. CASE FirstLowered
    BY <1>11, <2>2 DEF FirstLowered
  <2>3. CASE BroughtBack
    <3>1. PICK i \in 1..N : IsBack(rm', i, LastBest)
      BY <2>3 DEF BroughtBack
    <3>2. CASE k = 1
      BY <2>3, <3>1, <3>2 DEF IsBack
    <3>3. CASE k \in 2..i
      <4>1. rm'[k] = rm[k - 1] /\ k - 1 \in 1..N /\ k # 1
        BY <1>5, <3>1, <3>3 DEF IsBack
      <4> QED
        BY <2>3, <4>1
    <3>4. CASE k \in (i + 1)..N
      <4>1. rm'[k] = rm[k] /\ k # 1
        BY <3>1, <3>4 DEF IsBack
      <4> QED
        BY <4>1
    <3>5. k = 1 \/ k \in 2..i \/ k \in (i + 1)..N
      BY <1>5
    <3> QED
      BY <3>2, <3>3, <3>4, <3>5
  <2> QED
    BY <1>4, <2>1, <2>2, <2>3
<1>13. DeepeningTypes'
  <2>1. limits.main \in BOOLEAN /\ uciPvSent' \in BOOLEAN
    BY <1>1, <1>2, Constants DEF DeepeningTypes, SentYet
  <2>2. pc' \in OnLine \cup {"end", "iterate", "done"} /\ pc' \notin OnLine \cup {"end"}
        /\ pc' \notin {"search", "judge"} /\ pc' \notin OnLine /\ pc' # "judge"
    BY <1>2 DEF OnLine
  <2> QED
    BY <1>1, <1>2, <1>3, <1>6, <1>7, <1>8, <2>1, <2>2 DEF DeepeningTypes
<1>14. SentIsShown'
  <2> SUFFICES ASSUME limits.main, uciPvSent'
               PROVE  Core(shown) = Core(Lines(rm)')
    BY <1>2 DEF SentIsShown, Core
  <2>1. uciPvSent /\ ~BroughtBack
    BY <1>2 DEF SentYet, BroughtBack
  <2>2. Core(shown) = Core(Lines(rm))
    BY <2>1 DEF DeepeningInv, SentIsShown
  <2>3. CASE Untouched
    <3>1. Lines(rm)' = Lines(rm)
      BY <1>2, <1>7, <2>3 DEF Lines, Untouched
    <3> QED
      BY <2>2, <3>1
  <2>4. CASE FirstLowered
    <3>1. DOMAIN Lines(rm) = 1..MultiPV /\ DOMAIN Lines(rm)' = 1..MultiPV
      BY <1>7 DEF Lines
    <3>2. ASSUME NEW i \in 1..MultiPV
          PROVE  SubSeq(Lines(rm)[i], 1, 3) = SubSeq(Lines(rm)'[i], 1, 3)
      <4>0. i \in 1..N /\ i \in 1..MultiPV'
        BY <1>5, <1>7
      <4>1. /\ rm'[i].score = rm[i].score /\ rm'[i].move = rm[i].move /\ rm'[i].uci = rm[i].uci
            /\ rm'[i].pv = rm[i].pv /\ rm'[i].previous = rm[i].previous
            /\ rm'[i].previousPV = rm[i].previousPV
        BY <1>11, <2>4, <4>0 DEF FirstLowered, IsLowered
      <4>2. CASE rootDepth = 1 /\ i > 1 /\ rm[i].score = -Infinite
        <5>1. Lines(rm)[i] = <<>>
          BY <4>2 DEF Lines
        <5>2. Lines(rm)'[i] = <<>>
          BY <1>2, <4>0, <4>1, <4>2 DEF Lines
        <5> QED
          BY <5>1, <5>2
      <4>3. CASE ~(rootDepth = 1 /\ i > 1 /\ rm[i].score = -Infinite) /\ rm[i].score # -Infinite
        <5>1. Lines(rm)[i] = <<rm[i].move, rm[i].uci, rm[i].pv, rm[i].lower, rm[i].upper>>
          BY <4>3 DEF Lines
        <5>2. Lines(rm)'[i] = <<rm'[i].move, rm'[i].uci, rm'[i].pv, rm'[i].lower, rm'[i].upper>>
          BY <1>2, <4>0, <4>1, <4>3 DEF Lines
        <5>3. Lines(rm)'[i] = <<rm[i].move, rm[i].uci, rm[i].pv, rm'[i].lower, rm'[i].upper>>
          BY <4>1, <5>2
        <5>4. SubSeq(<<rm[i].move, rm[i].uci, rm[i].pv, rm[i].lower, rm[i].upper>>, 1, 3) =
              SubSeq(<<rm[i].move, rm[i].uci, rm[i].pv, rm'[i].lower, rm'[i].upper>>, 1, 3)
          BY BoundsAreNotCompared
        <5> QED
          BY <5>1, <5>3, <5>4, Zenon
      <4>4. CASE ~(rootDepth = 1 /\ i > 1 /\ rm[i].score = -Infinite) /\ rm[i].score = -Infinite
        <5>1. Lines(rm)[i] = <<rm[i].move, IF rm[i].previous = -Infinite THEN 0 ELSE rm[i].previous,
                               rm[i].previousPV, FALSE, FALSE>>
          BY <4>4 DEF Lines
        <5>2. Lines(rm)'[i] = <<rm'[i].move, IF rm'[i].previous = -Infinite THEN 0 ELSE rm'[i].previous,
                                rm'[i].previousPV, FALSE, FALSE>>
          BY <1>2, <4>0, <4>1, <4>4 DEF Lines
        <5> QED
          BY <4>1, <5>1, <5>2
      <4> QED
        BY <4>2, <4>3, <4>4
    <3>3. Core(Lines(rm)) = Core(Lines(rm)')
      BY <3>1, <3>2 DEF Core
    <3> QED
      BY <2>2, <3>3
  <2> QED
    BY <1>4, <2>1, <2>3, <2>4
<1>15. NoneIsMissing'
  <2> SUFFICES ASSUME NEW m \in Range(RootMoves) PROVE \E k \in 1..N : rm'[k].move = m
    BY DEF NoneIsMissing
  <2>1. PICK j \in 1..N : rm[j].move = m
    BY DEF DeepeningInv, NoneIsMissing
  <2>2. CASE Untouched
    BY <2>1, <2>2 DEF Untouched
  <2>3. CASE FirstLowered
    <3>1. rm'[j].move = rm[j].move
      BY <1>11, <2>3 DEF FirstLowered, IsLowered
    <3> QED
      BY <2>1, <3>1
  <2>4. CASE BroughtBack
    <3>1. PICK i \in 1..N : IsBack(rm', i, LastBest)
      BY <2>4 DEF BroughtBack
    <3>2. CASE j = i
      BY <1>11, <2>1, <3>1, <3>2 DEF IsBack, IsRestored
    <3>3. CASE j < i
      <4>1. j + 1 \in 2..i /\ j + 1 \in 1..N /\ (j + 1) - 1 = j
        BY <1>5, <3>3
      <4>2. rm'[j + 1] = rm[j]
        BY <3>1, <4>1 DEF IsBack
      <4> QED
        BY <2>1, <4>1, <4>2
    <3>4. CASE j > i
      <4>1. j \in (i + 1)..N
        BY <1>5, <3>4
      <4> QED
        BY <2>1, <3>1, <4>1 DEF IsBack
    <3>5. j = i \/ j < i \/ j > i
      BY <1>5
    <3> QED
      BY <3>2, <3>3, <3>4, <3>5
  <2> QED
    BY <1>4, <2>2, <2>3, <2>4
<1>16. LinesFit'
  <2> SUFFICES ASSUME NEW k \in 1..N PROVE ItsLine(rm[k])'
    BY DEF LinesFit
  <2>1. PICK i \in 1..N :
                \/ rm'[k] = rm[i]
                \/ FirstLowered /\ IsLowered(rm'[k], rm[i])
                \/ BroughtBack /\ IsRestored(rm'[k], rm[i], LastBest)
    BY <1>12
  <2>2. ItsLine(rm[i])
    BY DEF DeepeningInv, LinesFit
  <2>3. CASE rm'[k] = rm[i]
    BY <1>3, <2>2, <2>3 DEF ItsLine, IsBound
  <2>4. CASE FirstLowered /\ IsLowered(rm'[k], rm[i])
    BY <1>3, <1>9, <2>2, <2>4 DEF ItsLine, IsBound, IsLowered, FirstLowered
  <2>5. CASE BroughtBack /\ IsRestored(rm'[k], rm[i], LastBest)
    BY <1>8, <2>2, <2>5 DEF ItsLine, IsBound, IsRestored, BroughtBack
  <2> QED
    BY <2>1, <2>3, <2>4, <2>5
<1>17. LastFits'
  BY <1>2, <1>8 DEF LastFits
<1>18. FirstIsScored'
  <2> SUFFICES ASSUME rm'[1].score = -Infinite PROVE LastBest.pv = NoLine
    BY <1>2 DEF FirstIsScored
  <2>1. CASE BroughtBack
    BY <1>8, <2>1 DEF BroughtBack, IsBack, IsRestored
  <2>2. CASE Untouched \/ FirstLowered
    <3>1. rm[1].score = -Infinite
      BY <2>2 DEF Untouched, FirstLowered, IsLowered
    <3> QED
      BY <1>2, <1>10, <3>1 DEF DeepeningInv, FirstIsScored
  <2> QED
    BY <1>4, <2>1, <2>2
<1>19. FinishedAreExact' /\ FinishedAreInOrder'
  BY <1>2 DEF FinishedAreExact, FinishedAreInOrder
<1>20. AllFoundBefore'
  <2>1. ASSUME NEW k \in 1..N PROVE FoundBefore(rm[k])'
    <3>1. PICK i \in 1..N :
                \/ rm'[k] = rm[i]
                \/ IsLowered(rm'[k], rm[i])
                \/ IsRestored(rm'[k], rm[i], LastBest)
      BY <1>12
    <3>2. rm[i].pv.at[1] <= rootDepth /\ rm[i].previousPV.at[1] < rootDepth
      BY <1>5 DEF DeepeningInv, AllFoundBefore, FoundBefore
    <3>3. rm'[k].pv.at[1] <= rootDepth /\ rm'[k].previousPV.at[1] < rootDepth
      BY <1>8, <3>1, <3>2 DEF IsLowered, IsRestored
    <3>4. pc' \notin OnLine
      BY <1>2 DEF OnLine
    <3> QED
      BY <1>2, <3>3, <3>4 DEF FoundBefore
  <2>2. pc' \notin OnLine \cup {"end"} /\ pc' \notin {"search", "judge"}
    BY <1>2 DEF OnLine
  <2> QED
    BY <1>2, <1>8, <2>1, <2>2 DEF AllFoundBefore
<1>21. CutIsGuarded'
  <2> SUFFICES ASSUME cut
               PROVE  /\ stop' /\ pvIdx <= MultiPV
                      /\ \A k \in 1..MultiPV :
                           (pvIdx > 1 \/ k = 1) /\ IsExactLoss(rm'[k]) => ~FromTheCutSearch(rm'[k])
    BY <1>2, <1>7 DEF CutIsGuarded, IsExactLoss, IsBound, FromTheCutSearch
  <2>1. stop /\ pvIdx <= MultiPV
    BY DEF DeepeningInv, CutIsGuarded
  <2>2. pvIdx > 1 => \A k \in 1..MultiPV : IsExactLoss(rm[k]) => ~FromTheCutSearch(rm[k])
    BY <1>2 DEF DeepeningInv, CutIsGuarded
  <2>3. ASSUME NEW k \in 1..MultiPV, pvIdx > 1 \/ k = 1, IsExactLoss(rm'[k]), FromTheCutSearch(rm'[k])
        PROVE  FALSE
    <3>1. k \in 1..N
      BY <1>5
    <3>2. PICK i \in 1..N :
                \/ rm'[k] = rm[i] /\ (i = k \/ (BroughtBack /\ i = k - 1)) /\ (k = 1 => Untouched)
                \/ k = 1 /\ i = 1 /\ FirstLowered /\ IsLowered(rm'[k], rm[i])
                \/ k = 1 /\ BroughtBack /\ IsRestored(rm'[k], rm[i], LastBest)
      BY <1>12, <3>1
    <3>3. CASE rm'[k] = rm[i] /\ pvIdx > 1 /\ (i = k \/ i = k - 1)
      <4>1. i \in 1..MultiPV
        BY <1>5, <3>3
      <4> QED
        BY <2>2, <2>3, <3>3, <4>1
    <3>4. CASE k = 1 /\ rm'[k] = rm[i] /\ ~(pvIdx > 1) /\ i = k /\ Untouched
      <4>1. AbortedLossSearch
        <5>1. pvIdx = 1
          BY <1>5, <3>4
        <5> QED
          BY <2>1, <2>3, <3>4, <5>1 DEF AbortedLossSearch
      <4> QED
        BY <3>4, <4>1 DEF Untouched
    <3>5. CASE IsLowered(rm'[k], rm[i])
      BY <2>3, <3>5 DEF IsLowered, IsExactLoss, IsBound
    <3>6. CASE IsRestored(rm'[k], rm[i], LastBest)
      <4>1. rm'[k].pv = last.pv
        BY <1>10, <2>1, <3>6 DEF IsRestored
      <4>2. last.pv.at[1] < rootDepth
        BY <1>2 DEF DeepeningInv, AllFoundBefore
      <4> QED
        BY <1>5, <2>3, <4>1, <4>2 DEF FromTheCutSearch
    <3>7. k = 1 => k - 1 \notin 1..N
      BY <1>5
    <3> QED
      BY <2>3, <3>2, <3>3, <3>4, <3>5, <3>6, <3>7
  <2> QED
    BY <1>3, <2>1, <2>3
<1>22. MateIsKept'
  <2> SUFFICES ASSUME IsDecisive(LastBest.score), LastBest.pv # NoLine
               PROVE  AbsVal(rm'[1].score) >= AbsVal(LastBest.score) /\ ~IsBound(rm'[1])
    BY <1>2 DEF MateIsKept, IsDecisive, IsLoss, AbsVal, IsBound
  <2>0. LastBest.score \in Int /\ AbsVal(LastBest.score) \in Int
    <3>1. LastBest.score \in Scores
      BY <1>8
    <3>2. LastBest.score \in Int
      BY <3>1, Constants DEF Scores
    <3> QED
      BY <3>2 DEF AbsVal
  <2>1. CASE BroughtBack
    <3>1. rm'[1].score = LastBest.score /\ ~IsBound(rm'[1])
      BY <2>1 DEF BroughtBack, IsBack, IsRestored, IsBound
    <3> QED
      BY <2>0, <3>1
  <2>2. CASE FirstLowered
    BY <2>2 DEF FirstLowered
  <2>3. CASE Untouched
    <3>1. rm' = rm /\ ~Mistaken
      BY <2>3 DEF Untouched
    <3>2. CASE ~(stop \/ ForgottenMate)
      <4>1. LastBest.score = rm[1].score
        BY <3>2 DEF LastBest
      <4>2. ~IsBound(rm[1])
        BY <1>2, <3>2 DEF DeepeningInv, FinishedAreExact
      <4> QED
        BY <2>0, <3>1, <4>1, <4>2
    <3>3. CASE stop \/ ForgottenMate
      <4>1. LastBest = last
        BY <3>3 DEF LastBest
      <4>2. rm[1].score # -Infinite
        BY <1>2, <4>1 DEF DeepeningInv, FirstIsScored
      <4>3. ~ForgottenMate
        BY <3>1, <4>2 DEF Mistaken
      <4>4. last.score # -Infinite /\ IsDecisive(last.score)
        BY <1>8, <4>1
      <4>5. ~(AbsVal(rm[1].score) < AbsVal(last.score)) /\ ~IsBound(rm[1])
        BY <4>3, <4>4 DEF ForgottenMate
      <4>6. AbsVal(rm[1].score) \in Int
        BY <1>5, RecordFacts DEF AbsVal
      <4> QED
        BY <2>0, <3>1, <4>1, <4>5, <4>6
    <3> QED
      BY <3>2, <3>3
  <2> QED
    BY <1>4, <2>1, <2>2, <2>3
<1> QED
  BY <1>13, <1>14, <1>15, <1>16, <1>17, <1>18, <1>19, <1>20, <1>21, <1>22 DEF DeepeningInv

\* The invariant holds at the start.
LEMMA DeepeningInvInit == DeepeningInit => DeepeningInv
<1> SUFFICES ASSUME DeepeningInit PROVE DeepeningInv
  OBVIOUS
<1>1. DeepeningTypes
  BY TypesInit
<1>2. /\ rootDepth = 0 /\ pvIdx = 1 /\ last.pv = NoLine /\ last.score = -Infinite
      /\ uciPvSent = FALSE /\ stop = FALSE /\ cut = FALSE /\ pc = "iterate"
  BY DEF DeepeningInit
<1>3. rm = [i \in 1..N |-> RootMove(RootMoves[i])]
  BY Constants DEF DeepeningInit
<1>4. /\ \A i \in 1..N : /\ rm[i].move = RootMoves[i] /\ rm[i].score = -Infinite
                         /\ rm[i].pv = NoLine /\ rm[i].previousPV = NoLine
                         /\ ~rm[i].lower /\ ~rm[i].upper /\ ~rm[i].exact
  BY <1>3 DEF RootMove
<1>5. NoneIsMissing
  <2>1. \A m \in Range(RootMoves) : \E i \in 1..N : RootMoves[i] = m
    BY Constants DEF Range
  <2> QED
    BY <1>4, <2>1 DEF NoneIsMissing
<1>6. LinesFit
  BY <1>4 DEF LinesFit, ItsLine
<1>7. NoLine.at[1] = 0
  BY NoLineIsPlace
<1>8. AllFoundBefore
  BY <1>2, <1>4, <1>7 DEF AllFoundBefore, FoundBefore, OnLine
<1>9. SentIsShown /\ LastFits /\ FirstIsScored /\ FinishedAreExact /\ FinishedAreInOrder
  BY <1>2 DEF SentIsShown, LastFits, FirstIsScored, FinishedAreExact, FinishedAreInOrder
<1>10. CutIsGuarded /\ MateIsKept
  BY <1>2 DEF CutIsGuarded, MateIsKept
<1> QED
  BY <1>1, <1>5, <1>6, <1>8, <1>9, <1>10 DEF DeepeningInv

\* It says nothing of ponder and stopOnPonderhit.
LEMMA DeepeningInvStutter == DeepeningInv /\ UNCHANGED deepeningVars => DeepeningInv'
<1> SUFFICES ASSUME DeepeningInv, UNCHANGED deepeningVars PROVE DeepeningInv'
  OBVIOUS
<1>1. DeepeningTypes
  BY DEF DeepeningInv
<1>2. /\ Kept /\ pc' = pc /\ pvIdx' = pvIdx /\ alpha' = alpha /\ beta' = beta /\ delta' = delta
      /\ best' = best /\ uciPvSent' = uciPvSent /\ shown' = shown /\ stop' = stop /\ cut' = cut
  BY DEF deepeningVars, Kept, window
<1>3. /\ NoneIsMissing' /\ LinesFit' /\ LastFits' /\ MultiPV' = MultiPV
      /\ Lines(rm)' = Lines(rm)
  BY <1>1, <1>2, KeptLines DEF DeepeningInv
<1>4. DeepeningTypes'
  BY <1>1, <1>2, <1>3 DEF DeepeningTypes, Kept
<1>5. SentIsShown'
  BY <1>2, <1>3 DEF DeepeningInv, SentIsShown, Kept
<1>6. FirstIsScored'
  BY <1>2 DEF DeepeningInv, FirstIsScored, Kept
<1>7. FinishedAreExact'
  BY <1>2 DEF DeepeningInv, FinishedAreExact, Kept, IsBound
<1>8. AllFoundBefore'
  BY <1>2 DEF DeepeningInv, AllFoundBefore, FoundBefore, Kept
<1>9. FinishedAreInOrder'
  BY <1>2 DEF DeepeningInv, FinishedAreInOrder, Kept, InOrderFrom, Before
<1>10. CutIsGuarded'
  BY <1>2, <1>3 DEF DeepeningInv, CutIsGuarded, Kept, IsExactLoss, IsBound, FromTheCutSearch
<1>11. MateIsKept'
  BY <1>2 DEF DeepeningInv, MateIsKept, Kept, IsBound
<1> QED
  BY <1>3, <1>4, <1>5, <1>6, <1>7, <1>8, <1>9, <1>10, <1>11 DEF DeepeningInv

\* DeepeningInv is an invariant of iterative_deepening().
THEOREM DeepeningInvariant == DeepeningSpec => []DeepeningInv
<1>1. ASSUME DeepeningInv, DeepeningNext PROVE DeepeningInv'
  <2>1. ASSUME FailLow PROVE DeepeningInv'
    BY <1>1, <2>1, FailLowRepeats, RepeatsInv DEF DeepeningInv
  <2>2. ASSUME FailHigh PROVE DeepeningInv'
    BY <1>1, <2>2, FailHighRepeats, RepeatsInv DEF DeepeningInv
  <2> QED
    BY <1>1, <2>1, <2>2, IterateInv, EndLoopInv, SearchInv, EndLineInv, ShowLineInv, NextLineInv,
       LastLineInv, EndIterationInv, StopInv, PonderhitInv DEF DeepeningNext
<1> QED
  BY <1>1, DeepeningInvInit, DeepeningInvStutter, PTL DEF DeepeningSpec

\* When the main thread says that the lines it sent are the final ones, they are: no sort, no roll back
\* and no restored score came after them (uciPvSent in start_searching() and iterative_deepening()).
THEOREM FinalLinesAreShown == DeepeningSpec => []ShownIsFinal
<1>1. ASSUME DeepeningInv PROVE ShownIsFinal
  <2> SUFFICES ASSUME Ended, limits.main, uciPvSent
               PROVE  [i \in DOMAIN shown |-> SubSeq(shown[i], 1, 3)] =
                      [i \in 1..MultiPV |-> SubSeq(Lines(rm)[i], 1, 3)]
    BY DEF ShownIsFinal
  <2>1. Core(shown) = Core(Lines(rm))
    BY <1>1 DEF DeepeningInv, SentIsShown
  <2>2. DOMAIN Lines(rm) = 1..MultiPV
    BY DEF Lines
  <2>3. Core(Lines(rm)) = [i \in 1..MultiPV |-> SubSeq(Lines(rm)[i], 1, 3)]
    BY <2>2 DEF Core
  <2>4. Core(shown) = [i \in DOMAIN shown |-> SubSeq(shown[i], 1, 3)]
    BY DEF Core
  <2> QED
    BY <2>1, <2>3, <2>4
<1> QED
  BY <1>1, DeepeningInvariant, PTL

\* The report at the end of a search is sound: a score that is no bound has the line that proves it, a
\* search that was cut short leaves no exact loss in its lines, and a mate that was proved is not lost.
THEOREM ReportIsSound == DeepeningSpec => []LinesAreSound
<1>1. ASSUME DeepeningInv PROVE LinesAreSound
  <2>1. ScoreHasItsLine
    <3> SUFFICES ASSUME NEW i \in 1..MultiPV
                 PROVE  ItsLine(rm[i])
      BY DEF ScoreHasItsLine, ItsLine
    <3>1. i \in 1..N
      BY <1>1, LinesShown DEF DeepeningInv
    <3> QED
      BY <1>1, <3>1 DEF DeepeningInv, LinesFit
  <2>2. UnprovenLossesAreBounds
    BY <1>1 DEF DeepeningInv, CutIsGuarded, UnprovenLossesAreBounds, Ended, FromTheCutSearch
  <2>3. MateIsKept
    BY <1>1 DEF DeepeningInv, MateIsKept
  <2> QED
    BY <2>1, <2>2, <2>3 DEF LinesAreSound
<1> QED
  BY <1>1, DeepeningInvariant, PTL

\* When a line is stopped, the lines above it that are proved lost keep their places (the guard of
\* iterative_deepening() against an unfinished line that overtakes them).
THEOREM LossesAreNotOvertaken == DeepeningSpec => LossesKeepTheirPlace
<1> DEFINE Step == pc = "judge" /\ stop =>
                     \A k \in 1..(pvIdx - 1) : IsLoss(rm[k].score) => rm'[k] = rm[k]
<1>1. ASSUME DeepeningInv, DeepeningNext PROVE Step
  <2> SUFFICES ASSUME pc = "judge", stop,
                      NEW k \in 1..(pvIdx - 1), IsLoss(rm[k].score)
               PROVE  rm'[k] = rm[k]
    OBVIOUS
  <2>1. CASE EndLine
    BY <1>1, <2>1, EndLineKeepsLosses
  <2>2. CASE ~EndLine
    <3>1. Stop \/ Ponderhit
      BY <1>1, <2>2 DEF DeepeningNext, Iterate, EndLoop, Search, Pruned, FailLow, FailHigh, ShowLine,
         NextLine, LastLine, EndIteration
    <3> QED
      BY <3>1 DEF Stop, Ponderhit
  <2> QED
    BY <2>1, <2>2
<1>2. ASSUME DeepeningInv, [DeepeningNext]_deepeningVars PROVE [Step]_deepeningVars
  BY <1>1, <1>2
<1>3. DeepeningSpec => [][Step]_deepeningVars
  BY <1>2, DeepeningInvariant, PTL DEF DeepeningSpec
<1> QED
  BY <1>3 DEF LossesKeepTheirPlace

-----------------------------------------------------------------------------
(***************************************************************************)
(* The staged move picker, for any lists of moves, any scores and any      *)
(* exchanges.  GivesAllInOrder speaks of what was given; PickerInv says of *)
(* the array what will be: which places are left to be read at each stage  *)
(* and that they exist (BoundsMeet), the kind of move there (PlacesFit),   *)
(* that they are in order (LeftInOrder), come after all that was given     *)
(* (LeftFollows) and hold all that was not (NoneLost), so that a move that *)
(* is put back overwrites nothing that is still to come.                   *)
(***************************************************************************)

\* A move that BestFirst expects after those that are better
Sortable(n) == IsCapture(n) \/ kind = "evasion" \/ score[n] >= -3330 * depth

\* n may be given after m.
Follows(n, m) ==
  /\ m # n /\ (kind = "main" => Class(m) <= Class(n))
  /\ m # ttMove /\ (kind = "main" => Class(m) = Class(n)) /\ Sortable(n) => score[m] >= score[n]

\* n may stand behind m in the array.
Ranked(m, n) ==
  /\ m # n
  /\ (kind = "main" => (IsCapture(m) <=> IsCapture(n))) /\ Sortable(n) => score[m] >= score[n]

IsBad(n, class) == n # ttMove /\ Class(n) = class

\* The places of the array that are still to be given or judged
BadCaptures == 1 .. endBadCaptures - 1
BadQuiets == endBadCaptures .. endBadQuiets - 1
Unread == cur .. endCur - 1
Left ==
  {i \in 1 .. Len(moves) :
     \/ stage \in {"goodCapture", "goodQuiet"} /\ i \in BadCaptures
     \/ stage \in {"goodCapture", "badCapture", "all"} /\ i \in Unread
     \/ stage \in {"goodQuiet", "badCapture"} /\ ~skipQuiets /\ i \in BadQuiets
     \/ stage \in {"goodQuiet", "badQuiet"} /\ ~skipQuiets /\ i \in Unread}

MainStages == {"goodCapture", "goodQuiet", "badCapture", "badQuiet"}

PickerTypes ==
  /\ kind \in {"main", "qsearch", "evasion", "probcut"} /\ depth \in Nat
  /\ ttMove \in Generated \cup {NoMove} /\ (kind = "probcut" => ttMove \notin Range(Quiets))
  /\ score \in Scorings /\ seeGood \in SUBSET Range(Captures)
  /\ stage \in MainStages \cup {"tt", "init", "all", "done"}
  /\ (stage \in MainStages => kind = "main") /\ (stage = "all" => kind # "main")
  /\ moves \in Seq(Generated) /\ given \in Seq(Generated)
  /\ cur \in Nat \ {0} /\ endCur \in Nat /\ endBadCaptures \in Nat \ {0} /\ endBadQuiets \in Nat
  /\ skipQuiets \in BOOLEAN /\ calling \in BOOLEAN

\* Where the bounds are
BoundsMeet ==
  /\ stage = "goodCapture" =>
       endBadCaptures <= cur /\ cur <= endCur /\ endCur = Len(moves) + 1
  /\ stage \in {"goodQuiet", "badCapture"} => endBadCaptures <= Len(moves) + 1
  /\ stage = "goodQuiet" /\ ~skipQuiets =>
       endBadCaptures <= endBadQuiets /\ endBadQuiets <= cur /\ cur <= endCur /\ endCur = Len(moves) + 1
  /\ stage = "badCapture" => endCur = endBadCaptures /\ cur <= endCur
  /\ stage = "badCapture" /\ ~skipQuiets =>
       endBadCaptures <= endBadQuiets /\ endBadQuiets <= Len(moves) + 1
  /\ stage = "badQuiet" /\ ~skipQuiets =>
       cur <= endCur /\ endCur <= Len(moves) + 1
  /\ stage = "all" => cur <= endCur /\ endCur = Len(moves) + 1

\* Which moves stand where
PlacesFit ==
  /\ stage \in {"goodCapture", "goodQuiet"} => \A i \in BadCaptures : IsBad(moves[i], 3)
  /\ stage = "goodCapture" => \A i \in Unread : IsCapture(moves[i])
  /\ stage = "goodQuiet" /\ ~skipQuiets => \A i \in Unread : ~IsCapture(moves[i])
  /\ stage = "badCapture" => \A i \in Unread : IsBad(moves[i], 3)
  /\ stage \in {"goodQuiet", "badCapture"} /\ ~skipQuiets => \A i \in BadQuiets : IsBad(moves[i], 4)
  /\ stage = "badQuiet" /\ ~skipQuiets => \A i \in Unread : IsBad(moves[i], 4)
  /\ stage = "all" /\ kind # "evasion" => \A i \in Unread : IsCapture(moves[i])

LeftInOrder == \A i, j \in Left : i < j => Ranked(moves[i], moves[j])

\* What is left comes after what was given.
LeftFollows == \A m \in Range(given) : \A i \in Left : moves[i] = ttMove \/ Follows(moves[i], m)

\* The quiet moves of the main search are generated last, or never.
QuietsToCome ==
  IF stage = "goodCapture" \/ (kind = "main" /\ skipQuiets) THEN Range(Quiets) ELSE {}
NoneLost ==
  stage \notin {"tt", "init"} =>
    Wanted \subseteq Range(given) \cup {moves[i] : i \in Left} \cup QuietsToCome

\* The move of the table comes first, and before the quiet moves there are only good captures.
TTFirst ==
  /\ stage = "tt" => ttMove # NoMove /\ given = <<>>
  /\ stage = "init" => given = IF ttMove = NoMove THEN <<>> ELSE <<ttMove>>
  /\ stage # "tt" /\ ttMove # NoMove => ttMove \in Range(given)
  /\ stage = "goodCapture" => \A m \in Range(given) : Class(m) <= 1

GivenInOrder ==
  /\ Range(given) \subseteq Wanted
  /\ \A i, j \in DOMAIN given : i < j => Follows(given[j], given[i])

PickerInv ==
  /\ PickerTypes /\ BoundsMeet /\ PlacesFit /\ LeftInOrder /\ LeftFollows /\ NoneLost
  /\ TTFirst /\ GivenInOrder

-----------------------------------------------------------------------------
(* The sort.                                                                 *)

\* A part of a list of moves is sorted: the first `sortedEnd' of the first p moves are in
\* descending order, the others of them below the limit, and no move is lost.
Descends(a, sortedEnd) == \A i, j \in 1 .. sortedEnd : i < j => score[a[i]] >= score[a[j]]
Below(a, first, end, limit) == \A i \in first .. end : score[a[i]] < limit
IsPermuted(a, list0) ==
  /\ a \in [1 .. Len(list0) -> Range(list0)] /\ IsInjective(a)
  /\ \A i \in 1 .. Len(list0) : \E k \in 1 .. Len(list0) : a[k] = list0[i]
IsSortedUpTo(s, p, list0, limit) ==
  /\ s = [a |-> s.a, sortedEnd |-> s.sortedEnd]
  /\ IsPermuted(s.a, list0) /\ s.sortedEnd \in 1 .. p
  /\ Descends(s.a, s.sortedEnd) /\ Below(s.a, s.sortedEnd + 1, p, limit)

\* A list of moves to sort
IsList(list0) ==
  /\ list0 \in Seq(Range(list0)) /\ IsInjective(list0)
  /\ \A m \in Range(list0) : score[m] \in Int

\* The place for a move exists.
LEMMA PlaceIs ==
  ASSUME NEW b, NEW sortedEnd \in Nat \ {0}, NEW m, score[m] \in Int,
         \A i \in 1 .. sortedEnd : score[b[i]] \in Int,
         NEW q, q = PlaceFor(b, sortedEnd, m)
  PROVE  /\ q \in 1 .. sortedEnd /\ (q > 1 => score[b[q - 1]] >= score[m])
         /\ \A i \in q .. sortedEnd - 1 : score[b[i]] < score[m]
<1> DEFINE T == {x \in 1 .. sortedEnd : \A i \in x .. sortedEnd - 1 : score[b[i]] < score[m]}
           Fits(x) == /\ x > 1 => score[b[x - 1]] >= score[m]
                      /\ \A i \in x .. sortedEnd - 1 : score[b[i]] < score[m]
<1>1. sortedEnd \in T /\ T \in SUBSET Nat
  OBVIOUS
<1>2. PICK x \in T : \A y \in T : x <= y
  <2> HIDE DEF T
  <2> QED
    BY <1>1, SmallestOf
<1>3. ASSUME x > 1
      PROVE  score[b[x - 1]] >= score[m]
  <2>1. x - 1 \in 1 .. sortedEnd /\ x - 1 \notin T /\ x \in Int
    BY <1>2, <1>3
  <2>2. PICK i \in x - 1 .. sortedEnd - 1 : ~(score[b[i]] < score[m])
    BY <2>1
  <2>3. i = x - 1
    BY <2>1, <2>2, <1>2
  <2>4. score[b[x - 1]] \in Int
    BY <2>1
  <2> QED
    BY <2>2, <2>3, <2>4
<1>4. x \in 1 .. sortedEnd /\ Fits(x)
  BY <1>2, <1>3
<1>5. q = CHOOSE y \in 1 .. sortedEnd : Fits(y)
  BY DEF PlaceFor
<1>6. q \in 1 .. sortedEnd /\ Fits(q)
  <2> HIDE DEF Fits
  <2> QED
    BY <1>4, <1>5
<1> QED
  BY <1>6

\* One more move is read.
LEMMA InsertSorts ==
  ASSUME NEW list0, IsList(list0), NEW limit \in Int, NEW p \in 1 .. Len(list0), p > 1,
         NEW s, IsSortedUpTo(s, p - 1, list0, limit)
  PROVE  IsSortedUpTo(Insert(s, p, limit), p, list0, limit)
<1> DEFINE n == Len(list0)
           a == s.a
           sortedEnd == s.sortedEnd + 1
           m == a[p]
           b == [a EXCEPT ![p] = a[sortedEnd]]
           q == PlaceFor(b, sortedEnd, m)
           c == [i \in DOMAIN b |-> IF i \in q + 1 .. sortedEnd THEN b[i - 1] ELSE IF i = q THEN m ELSE b[i]]
           t == Insert(s, p, limit)
<1>1. n \in Nat /\ p \in 2 .. n /\ a \in [1 .. n -> Range(list0)] /\ s.sortedEnd \in 1 .. p - 1
  BY DEF IsList, IsSortedUpTo, IsPermuted
<1>2. \A i \in 1 .. n : score[a[i]] \in Int
  BY <1>1 DEF IsList
<1>3. CASE score[m] < limit
  <2>1. t = s
    BY <1>3 DEF Insert
  <2>2. Below(s.a, s.sortedEnd + 1, p, limit)
    BY <1>1, <1>3 DEF IsSortedUpTo, Below
  <2> QED
    BY <2>1, <2>2, <1>1 DEF IsSortedUpTo
<1>4. CASE ~(score[m] < limit)
  <2>1. t = [a |-> c, sortedEnd |-> sortedEnd]
    BY <1>4 DEF Insert
  <2>2. sortedEnd \in 2 .. p /\ b \in [1 .. n -> Range(list0)]
    BY <1>1
  <2>3. \A i \in 1 .. n : b[i] = IF i = p THEN a[sortedEnd] ELSE a[i]
    BY <1>1
  <2>4. /\ q \in 1 .. sortedEnd /\ (q > 1 => score[b[q - 1]] >= score[m])
        /\ \A i \in q .. sortedEnd - 1 : score[b[i]] < score[m]
    <3>1. \A i \in 1 .. sortedEnd : score[b[i]] \in Int
      <4>1. \A i \in 1 .. sortedEnd : b[i] \in Range(list0)
        BY <2>2, <1>1
      <4> QED
        BY <4>1 DEF IsList
    <3>2. score[m] \in Int /\ sortedEnd \in Nat \ {0}
      BY <1>1, <1>2
    <3> HIDE DEF b, sortedEnd, m, q
    <3> QED
      BY <3>1, <3>2, PlaceIs DEF q
  <2> HIDE DEF q
  <2> DEFINE At(i) == IF i \in q + 1 .. sortedEnd THEN i - 1 ELSE IF i = q THEN p
                      ELSE IF i = p THEN sortedEnd ELSE i
  <2>5. DOMAIN c = 1 .. n /\ c = [i \in 1 .. n |-> c[i]]
    BY <2>2
  <2>6. \A i \in 1 .. n : At(i) \in 1 .. n /\ c[i] = a[At(i)]
    <3> SUFFICES ASSUME NEW i \in 1 .. n
                 PROVE  At(i) \in 1 .. n /\ c[i] = a[At(i)]
      OBVIOUS
    <3>1. At(i) \in 1 .. n
      BY <2>2, <2>4, <1>1
    <3>2. c[i] = IF i \in q + 1 .. sortedEnd THEN b[i - 1] ELSE IF i = q THEN m ELSE b[i]
      BY <2>2
    <3>3. CASE i \in q + 1 .. sortedEnd
      <4>1. i - 1 \in 1 .. n /\ i - 1 # p
        BY <3>3, <2>4, <2>2, <1>1
      <4> QED
        BY <3>2, <3>3, <4>1, <2>3
    <3>4. CASE i \notin q + 1 .. sortedEnd
      <4>1. CASE i = q
        BY <3>1, <3>2, <3>4, <4>1
      <4>2. CASE i # q
        <5>1. c[i] = b[i] /\ At(i) = IF i = p THEN sortedEnd ELSE i
          BY <3>2, <3>4, <4>2
        <5>2. CASE i = p
          <6>1. At(i) = sortedEnd /\ b[i] = a[sortedEnd]
            BY <5>1, <5>2, <2>3
          <6> HIDE DEF At, c, b, sortedEnd
          <6> QED
            BY <3>1, <5>1, <6>1
        <5>3. CASE i # p
          <6>1. At(i) = i /\ b[i] = a[i]
            BY <5>1, <5>3, <2>3
          <6> HIDE DEF At, c, b
          <6> QED
            BY <3>1, <5>1, <6>1
        <5> QED
          BY <5>2, <5>3
      <4> QED
        BY <4>1, <4>2
    <3> QED
      BY <3>1, <3>3, <3>4
  <2>7. \A i, j \in 1 .. n : At(i) = At(j) => i = j
    <3> SUFFICES ASSUME NEW i \in 1 .. n, NEW j \in 1 .. n, At(i) = At(j)
                 PROVE  i = j
      OBVIOUS
    <3>1. \A k \in 1 .. n : At(k) =
            IF k = q THEN p ELSE IF k > q /\ k <= sortedEnd THEN k - 1 ELSE IF k = p THEN sortedEnd ELSE k
      <4>1. \A k \in 1 .. n : k \in q + 1 .. sortedEnd <=> k > q /\ k <= sortedEnd
        BY <2>2, <2>4, <1>1
      <4>2. q \in Int /\ sortedEnd \in Int /\ n \in Int
        BY <2>4, <1>1
      <4> HIDE DEF sortedEnd, n
      <4> QED
        BY <4>1, <4>2
    <3>2. i \in Int /\ j \in Int /\ p \in Int /\ q \in Int /\ sortedEnd \in Int /\ q <= sortedEnd /\ sortedEnd <= p
      BY <2>2, <2>4, <1>1
    <3> HIDE DEF At, sortedEnd
    <3> QED
      BY <3>1, <3>2
  <2>8. \A k \in 1 .. n : \E i \in 1 .. n : At(i) = k
    <3> SUFFICES ASSUME NEW k \in 1 .. n
                 PROVE  \E i \in 1 .. n : At(i) = k
      OBVIOUS
    <3> DEFINE i == IF k = p THEN q ELSE IF k \in q .. sortedEnd - 1 THEN k + 1 ELSE IF k = sortedEnd THEN p ELSE k
    <3>1. i \in 1 .. n /\ At(i) = k
      BY <2>2, <2>4, <1>1
    <3> HIDE DEF i, At
    <3> QED
      BY <3>1
  <2>9. IsPermuted(c, list0)
    <3>1. c \in [1 .. n -> Range(list0)]
      <4>1. \A i \in 1 .. n : c[i] \in Range(list0)
        <5> HIDE DEF At, c
        <5> QED
          BY <2>6, <1>1
      <4> HIDE DEF c
      <4> QED
        BY <4>1, <2>5
    <3>2. IsInjective(c)
      <4> SUFFICES ASSUME NEW i \in 1 .. n, NEW j \in 1 .. n, c[i] = c[j]
                   PROVE  i = j
        <5> HIDE DEF c
        <5> QED
          BY <2>5 DEF IsInjective
      <4>1. a[At(i)] = a[At(j)] /\ At(i) \in 1 .. n /\ At(j) \in 1 .. n
        <5> HIDE DEF At, c
        <5> QED
          BY <2>6
      <4>2. \A k, l \in 1 .. n : a[k] = a[l] => k = l
        BY <1>1 DEF IsSortedUpTo, IsPermuted, IsInjective
      <4>3. At(i) = At(j)
        <5> HIDE DEF At
        <5> QED
          BY <4>1, <4>2
      <4> HIDE DEF At
      <4> QED
        BY <4>3, <2>7
    <3>3. ASSUME NEW x \in 1 .. n
          PROVE  \E k \in 1 .. n : c[k] = list0[x]
      <4>1. PICK l \in 1 .. n : a[l] = list0[x]
        BY DEF IsSortedUpTo, IsPermuted
      <4>2. PICK k \in 1 .. n : At(k) = l
        <5> HIDE DEF At
        <5> QED
          BY <2>8
      <4>3. c[k] = a[l]
        <5> HIDE DEF At, c
        <5> QED
          BY <2>6, <4>2
      <4> HIDE DEF c, At
      <4> QED
        BY <4>1, <4>3
    <3> HIDE DEF c
    <3> QED
      BY <3>1, <3>2, <3>3 DEF IsPermuted
  <2>10. \A i, j \in 1 .. s.sortedEnd : i < j => score[a[i]] >= score[a[j]]
    BY DEF IsSortedUpTo, Descends
  <2>11. (q > 1 => score[a[q - 1]] >= score[m]) /\ \A i \in q .. sortedEnd - 1 : score[a[i]] < score[m]
    <3>1. q > 1 => q - 1 \in 1 .. n /\ q - 1 # p
      BY <2>4, <2>2, <1>1
    <3>2. \A i \in q .. sortedEnd - 1 : i \in 1 .. n /\ i # p
      BY <2>4, <2>2, <1>1, SMTT(30)
    <3> HIDE DEF b, sortedEnd, m
    <3> QED
      BY <3>1, <3>2, <2>3, <2>4
  <2>12. Descends(c, sortedEnd)
    <3> SUFFICES ASSUME NEW i \in 1 .. sortedEnd, NEW j \in 1 .. sortedEnd, i < j
                 PROVE  score[c[i]] >= score[c[j]]
      BY DEF Descends
    <3>1. i \in 1 .. n /\ j \in 1 .. n
      BY <2>2, <1>1
    <3>2. c[i] = a[At(i)] /\ c[j] = a[At(j)]
      <4> HIDE DEF At, c
      <4> QED
        BY <2>6, <3>1
    <3>3. ASSUME i # q, j # q
          PROVE  At(i) \in 1 .. s.sortedEnd /\ At(j) \in 1 .. s.sortedEnd /\ At(i) < At(j)
      <4>1. \A k \in 1 .. sortedEnd : k # q => At(k) = IF k < q THEN k ELSE k - 1
        BY <2>2, <2>4, <1>1, SMTT(30)
      <4>2. i \in 1 .. sortedEnd /\ j \in 1 .. sortedEnd /\ q \in 1 .. sortedEnd /\ sortedEnd = s.sortedEnd + 1 /\ s.sortedEnd \in Nat
        BY <2>4, <1>1
      <4> HIDE DEF At, sortedEnd
      <4> QED
        BY <3>3, <4>1, <4>2, SMTT(30)
    <3>4. CASE i # q /\ j # q
      <4> HIDE DEF At, c
      <4> QED
        BY <3>2, <3>3, <3>4, <2>10
    <3>5. CASE j = q
      <4>1. At(j) = p /\ At(i) = i /\ i \in 1 .. q - 1 /\ q - 1 \in 1 .. s.sortedEnd
        BY <3>5, <2>2, <2>4, <1>1
      <4>2. score[a[i]] >= score[a[q - 1]]
        <5>1. CASE i = q - 1
          BY <5>1, <1>2, <3>1
        <5>2. CASE i # q - 1
          <6>1. i \in 1 .. s.sortedEnd /\ q - 1 \in 1 .. s.sortedEnd /\ i < q - 1
            BY <5>2, <4>1, <2>4, <2>2, <1>1
          <6> QED
            BY <6>1, <2>10
        <5> QED
          BY <5>1, <5>2
      <4>3. score[a[i]] \in Int /\ score[a[q - 1]] \in Int /\ score[m] \in Int
        BY <4>1, <3>1, <1>2, <1>1, SMTT(30)
      <4>4. score[a[q - 1]] >= score[m]
        <5>1. q > 1
          BY <4>1, <2>4, <2>2, <1>1
        <5> HIDE DEF m
        <5> QED
          BY <5>1, <2>11
      <4>5. score[a[i]] >= score[m]
        <5> HIDE DEF m
        <5> QED
          BY <4>2, <4>3, <4>4
      <4> HIDE DEF At, c
      <4> QED
        BY <3>2, <4>1, <4>5
    <3>6. CASE i = q
      <4>1. At(i) = p /\ At(j) = j - 1 /\ j - 1 \in q .. sortedEnd - 1 /\ j - 1 \in 1 .. n
        BY <3>6, <2>2, <2>4, <1>1
      <4>2. score[a[j - 1]] < score[m] /\ score[a[j - 1]] \in Int /\ score[m] \in Int
        BY <4>1, <2>11, <1>2, <1>1
      <4>3. score[m] >= score[a[j - 1]]
        <5> HIDE DEF m
        <5> QED
          BY <4>2
      <4> HIDE DEF At, c
      <4> QED
        BY <3>2, <4>1, <4>3
    <3> QED
      BY <3>4, <3>5, <3>6
  <2>13. Below(c, sortedEnd + 1, p, limit)
    <3> SUFFICES ASSUME NEW i \in sortedEnd + 1 .. p
                 PROVE  score[c[i]] < limit
      BY DEF Below
    <3>1. i \in 1 .. n /\ At(i) \in sortedEnd .. p - 1
      BY <2>2, <2>4, <1>1, SMTT(30)
    <3>2. c[i] = a[At(i)]
      <4> HIDE DEF At, c
      <4> QED
        BY <2>6, <3>1
    <3>3. \A k \in sortedEnd .. p - 1 : score[a[k]] < limit
      BY DEF IsSortedUpTo, Below
    <3> HIDE DEF At, c
    <3> QED
      BY <3>1, <3>2, <3>3
  <2> HIDE DEF c
  <2> QED
    BY <2>1, <2>2, <2>9, <2>12, <2>13 DEF IsSortedUpTo
<1> QED
  BY <1>3, <1>4

\* What partial_insertion_sort() leaves: the moves of the list, and before each of the limit
\* and above none that is worse.
IsSortOfList(a, list0, limit) ==
  /\ IsPermuted(a, list0)
  /\ \A i, j \in 1 .. Len(list0) : i < j /\ score[a[j]] >= limit => score[a[i]] >= score[a[j]]

LEMMA PartialSort ==
  ASSUME NEW list0, IsList(list0), NEW limit \in Int
  PROVE  IsSortOfList(PartialInsertionSort(list0, limit), list0, limit)
<1> DEFINE n == Len(list0)
           base == [a |-> list0, sortedEnd |-> 1]
           D == [a : [1 .. n -> Range(list0)], sortedEnd : Nat]
           Solves(g) == g = [p \in 0 .. n |-> IF p <= 1 THEN base ELSE Insert(g[p - 1], p, limit)]
           Sorts(s, p) == IsSortedUpTo(s, p, list0, limit)
           step == [x \in D \X (1 .. n) |->
                      IF x[2] > 1 /\ Sorts(x[1], x[2] - 1) THEN Insert(x[1], x[2], limit) ELSE base]
<1>1. n \in Nat /\ list0 \in [1 .. n -> Range(list0)] /\ DOMAIN list0 = 1 .. n
  BY DEF IsList
<1>2. Inserted(list0, limit) = CHOOSE g : Solves(g)
  BY DEF Inserted
<1>3. base \in D
  BY <1>1
<1>4. ASSUME NEW s, NEW p \in Nat, Sorts(s, p)
      PROVE  s \in D
  <2>1. s = [a |-> s.a, sortedEnd |-> s.sortedEnd] /\ s.a \in [1 .. n -> Range(list0)] /\ s.sortedEnd \in 1 .. p
    BY <1>4 DEF IsSortedUpTo, IsPermuted
  <2>2. s.sortedEnd \in Nat
    BY <2>1
  <2> QED
    BY <2>1, <2>2
<1>5. ASSUME NEW s, NEW p \in 1 .. n, p > 1, Sorts(s, p - 1)
      PROVE  Sorts(Insert(s, p, limit), p)
  BY <1>5, InsertSorts
<1>6. 1 <= n => Sorts(base, 1)
  <2>1. IsInjective(list0)
    BY DEF IsList
  <2>2. IsPermuted(list0, list0)
    BY <1>1, <2>1 DEF IsPermuted
  <2> QED
    BY <2>2, <1>1 DEF IsSortedUpTo, Descends, Below
<1>7. step \in [D \X (1 .. n) -> D]
  <2> SUFFICES ASSUME NEW x \in D \X (1 .. n), x[2] > 1, Sorts(x[1], x[2] - 1)
               PROVE  Insert(x[1], x[2], limit) \in D
    BY <1>3
  <2>1. x[2] \in 1 .. n /\ x[2] \in Nat
    BY <1>1
  <2>2. Sorts(Insert(x[1], x[2], limit), x[2])
    <3> HIDE DEF Sorts, n, D
    <3> QED
      BY <1>5, <2>1
  <2> HIDE DEF Sorts, D, n
  <2> QED
    BY <2>1, <2>2, <1>4
<1>8. PICK f \in [0 .. n -> D] : f[0] = base /\ \A i \in 1 .. n : f[i] = step[<<f[i - 1], i>>]
  <2> HIDE DEF step, D, base, n
  <2>1. IsSolvable(n, D, base, step)
    BY <1>1, <1>3, <1>7, Recursion
  <2> QED
    BY <2>1 DEF IsSolvable
<1>9. ASSUME NEW i \in 1 .. n
      PROVE  f[i] = IF i > 1 /\ Sorts(f[i - 1], i - 1) THEN Insert(f[i - 1], i, limit) ELSE base
  <2>0. i - 1 \in 0 .. n
    BY <1>1
  <2> HIDE DEF base, Solves, step, D, Sorts, n
  <2>1. f[i - 1] \in D /\ <<f[i - 1], i>> \in D \X (1 .. n)
    BY <2>0
  <2> USE DEF step
  <2> QED
    BY <2>1, <1>8
<1> DEFINE S(g) == {k \in Nat : k + 1 <= n => Sorts(g[k + 1], k + 1)}
<1>10. ASSUME NEW g, 1 <= n => g[1] = base,
              \A k \in 1 .. n : k > 1 /\ Sorts(g[k - 1], k - 1) => g[k] = Insert(g[k - 1], k, limit)
       PROVE  \A k \in 1 .. n : Sorts(g[k], k)
  <2> HIDE DEF Sorts, base
  <2>1. 0 \in S(g)
    BY <1>6, <1>10
  <2>2. ASSUME NEW k \in Nat, k \in S(g)
        PROVE  k + 1 \in S(g)
    <3> SUFFICES ASSUME k + 2 <= n
                 PROVE  Sorts(g[k + 2], k + 2)
      OBVIOUS
    <3>1. Sorts(g[k + 1], k + 1) /\ k + 2 \in 1 .. n /\ k + 2 > 1 /\ (k + 2) - 1 = k + 1
      BY <2>2, <1>1
    <3>2. g[k + 2] = Insert(g[k + 1], k + 2, limit)
      BY <3>1, <1>10
    <3> HIDE DEF n
    <3> QED
      BY <3>1, <3>2, <1>5
  <2>3. \A k \in Nat : k \in S(g)
    <3> HIDE DEF S
    <3> QED
      BY <2>1, <2>2, Induction
  <2> TAKE k \in 1 .. n
  <2>4. k - 1 \in Nat /\ (k - 1) + 1 = k /\ k <= n
    BY <1>1
  <2>5. k - 1 \in S(g)
    <3> HIDE DEF S
    <3> QED
      BY <2>3, <2>4
  <2> HIDE DEF n
  <2> QED
    BY <2>4, <2>5
<1>11. \A k \in 1 .. n : Sorts(f[k], k)
  <2>1. 1 <= n => f[1] = base
    BY <1>9, <1>1
  <2>2. \A k \in 1 .. n : k > 1 /\ Sorts(f[k - 1], k - 1) => f[k] = Insert(f[k - 1], k, limit)
    <3> HIDE DEF Sorts, base, n
    <3> QED
      BY <1>9
  <2> HIDE DEF Sorts, base, n
  <2> QED
    BY <2>1, <2>2, <1>10
<1>12. PICK g : Solves(g) /\ g = (CHOOSE h : Solves(h))
  <2>1. f = [k \in 0 .. n |-> f[k]]
    OBVIOUS
  <2>2. ASSUME NEW k \in 0 .. n
        PROVE  f[k] = IF k <= 1 THEN base ELSE Insert(f[k - 1], k, limit)
    <3>1. CASE k = 0
      BY <3>1, <1>8
    <3>2. CASE k = 1
      <4>1. k \in 1 .. n /\ ~(k > 1)
        BY <3>2, <1>1
      <4> HIDE DEF base, Sorts, n
      <4> QED
        BY <4>1, <3>2, <1>9
    <3>3. CASE k > 1
      <4>1. k \in 1 .. n /\ k - 1 \in 1 .. n /\ ~(k <= 1)
        BY <3>3, <1>1
      <4> HIDE DEF base, Sorts, n
      <4> QED
        BY <4>1, <3>3, <1>9, <1>11
    <3> QED
      BY <3>1, <3>2, <3>3, <1>1
  <2>3. Solves(f)
    BY <2>1, <2>2
  <2> HIDE DEF Solves
  <2> QED
    BY <2>3
<1>13. g[0] = base /\ (1 <= n => g[1] = base)
       /\ \A k \in 1 .. n : k > 1 => g[k] = Insert(g[k - 1], k, limit)
  <2>1. \A k \in 0 .. n : g[k] = IF k <= 1 THEN base ELSE Insert(g[k - 1], k, limit)
    BY <1>12
  <2> HIDE DEF base, Solves
  <2> QED
    BY <2>1, <1>1
<1>14. \A k \in 1 .. n : Sorts(g[k], k)
  <2> HIDE DEF Sorts, base, n, Solves
  <2> QED
    BY <1>10, <1>13
<1>15. PartialInsertionSort(list0, limit) = g[n].a
  <2> HIDE DEF Solves
  <2> QED
    BY <1>2, <1>12 DEF PartialInsertionSort
<1>16. CASE n = 0
  <2>1. g[n].a = list0 /\ IsInjective(list0)
    BY <1>13, <1>16 DEF IsList
  <2> HIDE DEF Solves
  <2> QED
    BY <1>15, <1>16, <2>1, <1>1 DEF IsSortOfList, IsPermuted
<1>17. CASE n > 0
  <2>1. n \in 1 .. n
    BY <1>17, <1>1
  <2>2. Sorts(g[n], n)
    BY <2>1, <1>14
  <2> DEFINE a == g[n].a
             sortedEnd == g[n].sortedEnd
  <2>3. IsPermuted(a, list0) /\ sortedEnd \in 1 .. n /\ Descends(a, sortedEnd) /\ Below(a, sortedEnd + 1, n, limit)
    BY <2>2 DEF IsSortedUpTo
  <2>4. a \in [1 .. n -> Range(list0)] /\ \A i \in 1 .. n : score[a[i]] \in Int
    BY <2>3 DEF IsPermuted, IsList
  <2> HIDE DEF a, sortedEnd, Solves, Sorts
  <2>5. ASSUME NEW i \in 1 .. n, NEW j \in 1 .. n, i < j, score[a[j]] >= limit
        PROVE  score[a[i]] >= score[a[j]]
    <3>1. j <= sortedEnd
      <4> SUFFICES ASSUME ~(j <= sortedEnd)
                   PROVE  FALSE
        OBVIOUS
      <4>1. j \in sortedEnd + 1 .. n
        BY <2>3, <1>1
      <4>2. score[a[j]] < limit
        BY <4>1, <2>3 DEF Below
      <4> QED
        BY <4>2, <2>5, <2>4
    <3>2. i \in 1 .. sortedEnd /\ j \in 1 .. sortedEnd
      BY <3>1, <2>5, <2>3, <1>1
    <3> QED
      BY <3>2, <2>5, <2>3 DEF Descends
  <2> QED
    BY <1>15, <2>3, <2>5 DEF IsSortOfList, a
<1> QED
  BY <1>16, <1>17, <1>1

-----------------------------------------------------------------------------
(* Moves, lists and classes.                                                 *)

\* A function on 1 .. n is a sequence of length n.
LEMMA IsSeq ==
  ASSUME NEW R, NEW n \in Nat, NEW f \in [1 .. n -> R]
  PROVE  f \in Seq(R) /\ Len(f) = n
OBVIOUS

\* No capture is generated as a quiet move, and the lists can be sorted.
LEMMA ListsOfMoves ==
  ASSUME PickerTypes
  PROVE  /\ IsList(Captures) /\ IsList(Quiets) /\ IsList(Captures \o Quiets)
         /\ Range(Captures \o Quiets) = Generated
         /\ \A m \in Range(Quiets) : ~IsCapture(m)
         /\ NoMove \notin Generated
         /\ \A m \in Generated : score[m] \in Int /\ score[m] >= INT_MIN
<1>1. Captures \in Seq(Range(Captures)) /\ Quiets \in Seq(Range(Quiets))
      /\ IsInjective(Captures \o Quiets) /\ NoMove \notin Range(Captures \o Quiets)
  BY PickerAssumption
<1> DEFINE c == Len(Captures)
           q == Len(Quiets)
           both == Captures \o Quiets
<1>2. /\ c \in Nat /\ q \in Nat /\ DOMAIN Captures = 1 .. c /\ DOMAIN Quiets = 1 .. q
      /\ both \in Seq(Generated) /\ Len(both) = c + q /\ DOMAIN both = 1 .. c + q
      /\ \A i \in 1 .. c : both[i] = Captures[i]
      /\ \A i \in 1 .. q : both[c + i] = Quiets[i]
  <2>1. Captures \in Seq(Generated) /\ Quiets \in Seq(Generated)
    BY <1>1 DEF Generated
  <2> QED
    BY <2>1, <1>1
<1> HIDE DEF c, q, both
<1>3. Range(both) = Generated
  <2>1. ASSUME NEW m \in Range(Captures)
        PROVE  m \in Range(both)
    <3>1. PICK i \in 1 .. c : m = Captures[i]
      BY <1>2 DEF Range
    <3>2. i \in 1 .. c + q /\ both[i] = m
      BY <3>1, <1>2
    <3> QED
      BY <3>2, <1>2 DEF Range
  <2>2. ASSUME NEW m \in Range(Quiets)
        PROVE  m \in Range(both)
    <3>1. PICK i \in 1 .. q : m = Quiets[i]
      BY <1>2 DEF Range
    <3>2. c + i \in 1 .. c + q /\ both[c + i] = m
      BY <3>1, <1>2
    <3> QED
      BY <3>2, <1>2 DEF Range
  <2>3. \A m \in Range(both) : m \in Generated
    BY <1>2 DEF Range
  <2> QED
    BY <2>1, <2>2, <2>3 DEF Generated
<1>4. IsInjective(both)
  BY <1>1 DEF both
<1>5. ASSUME NEW m \in Range(Quiets), m \in Range(Captures)
      PROVE  FALSE
  <2>1. PICK i \in 1 .. c : m = Captures[i]
    BY <1>2, <1>5 DEF Range
  <2>2. PICK j \in 1 .. q : m = Quiets[j]
    BY <1>2, <1>5 DEF Range
  <2>3. i \in 1 .. c + q /\ c + j \in 1 .. c + q /\ i # c + j
    BY <2>1, <2>2, <1>2
  <2>4. both[i] = both[c + j]
    BY <2>1, <2>2, <1>2
  <2> QED
    BY <2>3, <2>4, <1>4, <1>2 DEF IsInjective
<1>6. IsInjective(Captures)
  <2> SUFFICES ASSUME NEW i \in 1 .. c, NEW j \in 1 .. c, Captures[i] = Captures[j]
               PROVE  i = j
    BY <1>2 DEF IsInjective
  <2>1. i \in 1 .. c + q /\ j \in 1 .. c + q /\ both[i] = both[j]
    BY <1>2
  <2> QED
    BY <2>1, <1>2, <1>4 DEF IsInjective
<1>7. IsInjective(Quiets)
  <2> SUFFICES ASSUME NEW i \in 1 .. q, NEW j \in 1 .. q, Quiets[i] = Quiets[j]
               PROVE  i = j
    BY <1>2 DEF IsInjective
  <2>1. c + i \in 1 .. c + q /\ c + j \in 1 .. c + q /\ both[c + i] = both[c + j]
    BY <1>2
  <2>2. c + i = c + j
    BY <2>1, <1>2, <1>4 DEF IsInjective
  <2> QED
    BY <2>2, <1>2
<1>8. \A m \in Generated : score[m] \in Int /\ score[m] >= INT_MIN
  <2> SUFFICES ASSUME NEW m \in Generated
               PROVE  score[m] \in Int /\ score[m] >= INT_MIN
    OBVIOUS
  <2>1. score[m] \in CaptureScores \cup QuietScores
    BY DEF PickerTypes, Scorings
  <2> QED
    BY <2>1, PickerAssumption
<1>9. IsList(Captures) /\ IsList(Quiets)
  BY <1>1, <1>6, <1>7, <1>8 DEF IsList, Generated
<1>10. IsList(both)
  BY <1>2, <1>3, <1>4, <1>8 DEF IsList
<1> QED
  BY <1>1, <1>3, <1>5, <1>8, <1>9, <1>10 DEF both, IsCapture

\* A sorted list in the array, behind what was there before place `from'
IsGenerated(t, from, list0, limit) ==
  /\ t \in Seq(Generated) /\ Len(t) = from - 1 + Len(list0) /\ Len(list0) \in Nat
  /\ \A i \in 1 .. from - 1 : t[i] = moves[i]
  /\ \A i \in from .. Len(t) : t[i] \in Range(list0)
  /\ \A m \in Range(list0) : \E i \in from .. Len(t) : t[i] = m
  /\ \A i, j \in from .. Len(t) : i < j =>
       t[i] # t[j] /\ (score[t[j]] >= limit => score[t[i]] >= score[t[j]])

LEMMA GenerateIs ==
  ASSUME PickerTypes, NEW from \in 1 .. Len(moves) + 1,
         NEW list0, IsList(list0), Range(list0) \subseteq Generated, NEW limit \in Int,
         NEW t, t = Generate(from, PartialInsertionSort(list0, limit))
  PROVE  IsGenerated(t, from, list0, limit)
<1> DEFINE a == PartialInsertionSort(list0, limit)
           n == Len(list0)
           l == from - 1 + n
<1>1. n \in Nat /\ l \in Nat /\ moves \in Seq(Generated) /\ DOMAIN list0 = 1 .. n
  BY DEF IsList, PickerTypes
<1>2. IsSortOfList(a, list0, limit)
  BY PartialSort
<1> HIDE DEF a
<1>3. /\ a \in [1 .. n -> Range(list0)] /\ Len(a) = n
      /\ \A i, j \in 1 .. n : a[i] = a[j] => i = j
      /\ \A i \in 1 .. n : \E k \in 1 .. n : a[k] = list0[i]
  BY <1>1, <1>2, IsSeq DEF IsSortOfList, IsPermuted, IsInjective
<1>4. t = [i \in 1 .. l |-> IF i < from THEN moves[i] ELSE a[i - from + 1]]
  BY <1>3 DEF Generate, a
<1>5. \A i \in from .. l : i \in 1 .. l /\ i - from + 1 \in 1 .. n /\ t[i] = a[i - from + 1]
  BY <1>1, <1>4
<1>6. \A i \in 1 .. from - 1 : t[i] = moves[i]
  BY <1>1, <1>4
<1>7. \A i \in 1 .. l : t[i] \in Generated
  <2> SUFFICES ASSUME NEW i \in 1 .. l
               PROVE  t[i] \in Generated
    OBVIOUS
  <2>1. CASE i < from
    BY <2>1, <1>4, <1>1
  <2>2. CASE ~(i < from)
    <3>1. i \in from .. l
      BY <2>2, <1>1
    <3> QED
      BY <3>1, <1>5, <1>3
  <2> QED
    BY <2>1, <2>2
<1>8. t \in Seq(Generated) /\ Len(t) = l
  <2>1. t \in [1 .. l -> Generated]
    BY <1>4, <1>7
  <2> QED
    BY <2>1, <1>1, IsSeq
<1>9. ASSUME NEW m \in Range(list0)
      PROVE  \E i \in from .. l : t[i] = m
  <2>1. PICK x \in 1 .. n : m = list0[x]
    BY <1>1 DEF Range
  <2>2. PICK k \in 1 .. n : a[k] = m
    BY <2>1, <1>3
  <2>3. from + k - 1 \in from .. l /\ (from + k - 1) - from + 1 = k
    BY <1>1
  <2>4. t[from + k - 1] = m
    BY <2>2, <2>3, <1>5
  <2> QED
    BY <2>3, <2>4
<1>10. ASSUME NEW i \in from .. l, NEW j \in from .. l, i < j
       PROVE  t[i] # t[j] /\ (score[t[j]] >= limit => score[t[i]] >= score[t[j]])
  <2> DEFINE x == i - from + 1
             y == j - from + 1
  <2>1. x \in 1 .. n /\ y \in 1 .. n /\ x < y /\ t[i] = a[x] /\ t[j] = a[y]
    BY <1>5, <1>10
  <2> HIDE DEF x, y
  <2>2. x # y
    BY <2>1
  <2> QED
    BY <2>1, <2>2, <1>2, <1>3 DEF IsSortOfList
<1>11. from .. Len(t) = from .. l
  BY <1>8
<1>12. \A i \in from .. l : t[i] \in Range(list0)
  BY <1>3, <1>5
<1> HIDE DEF l, n
<1>13. Len(t) = from - 1 + Len(list0) /\ Len(list0) \in Nat
  BY <1>1, <1>8 DEF l, n
<1> QED
  BY <1>6, <1>8, <1>9, <1>10, <1>11, <1>12, <1>13 DEF IsGenerated

\* What actions do not change
LEMMA SameInput ==
  ASSUME UNCHANGED input
  PROVE  /\ kind' = kind /\ depth' = depth /\ ttMove' = ttMove /\ score' = score /\ seeGood' = seeGood
         /\ Wanted' = Wanted
         /\ \A m : Class(m)' = Class(m)
         /\ \A m, class : IsBad(m, class)' = IsBad(m, class)
         /\ \A m, n : Follows(n, m)' = Follows(n, m) /\ Ranked(m, n)' = Ranked(m, n)
<1>1. kind' = kind /\ depth' = depth /\ ttMove' = ttMove /\ score' = score /\ seeGood' = seeGood
  BY DEF input
<1>2. Wanted' = Wanted
  BY <1>1 DEF Wanted
<1>3. \A m : Class(m)' = Class(m)
  BY <1>1 DEF Class
<1>4. \A m, class : IsBad(m, class)' = IsBad(m, class)
  BY <1>1, <1>3 DEF IsBad
<1>5. \A m, n : Follows(n, m)' = Follows(n, m)
  BY <1>1, <1>3 DEF Follows, Sortable
<1>6. \A m, n : Ranked(m, n)' = Ranked(m, n)
  BY <1>1 DEF Ranked, Sortable
<1> QED
  BY <1>1, <1>2, <1>3, <1>4, <1>5, <1>6

\* Classes by their meaning
LEMMA Classes ==
  ASSUME PickerTypes, NEW m
  PROVE  /\ Class(m) \in 0 .. 4 /\ (Class(m) = 0 <=> m = ttMove)
         /\ m # ttMove => (IsCapture(m) <=> Class(m) \in {1, 3}) /\ (Class(m) = 1 <=> m \in seeGood)
         /\ Class(m) = 2 => m # ttMove /\ ~IsCapture(m) /\ score[m] > GoodQuiet
         /\ m # ttMove /\ ~IsCapture(m) => Class(m) = IF score[m] > GoodQuiet THEN 2 ELSE 4
<1>1. seeGood \subseteq Range(Captures)
  BY DEF PickerTypes
<1>2. CASE m = ttMove
  BY <1>2 DEF Class
<1>3. CASE m # ttMove /\ IsCapture(m)
  <2>1. Class(m) = IF m \in seeGood THEN 1 ELSE 3
    BY <1>3 DEF Class
  <2> QED
    BY <1>3, <2>1
<1>4. CASE m # ttMove /\ ~IsCapture(m)
  <2>1. Class(m) = IF score[m] > GoodQuiet THEN 2 ELSE 4
    BY <1>4 DEF Class
  <2>2. m \notin seeGood
    BY <1>1, <1>4 DEF IsCapture
  <2> QED
    BY <1>4, <2>1, <2>2
<1> QED
  BY <1>2, <1>3, <1>4

-----------------------------------------------------------------------------
(* What is given.                                                            *)

\* One more move is given, which may follow all the others.
LEMMA GivenMore ==
  ASSUME PickerTypes, GivenInOrder, UNCHANGED input, NEW m \in Generated, m \in Wanted,
         given' = Append(given, m), \A x \in Range(given) : Follows(m, x)
  PROVE  /\ GivenInOrder' /\ Range(given)' = Range(given) \cup {m}
         /\ given' \in Seq(Generated)
<1> DEFINE n == Len(given)
<1>1. given \in Seq(Generated) /\ n \in Nat /\ DOMAIN given = 1 .. n
  BY DEF PickerTypes
<1>2. /\ given' \in Seq(Generated) /\ DOMAIN given' = 1 .. n + 1
      /\ \A i \in 1 .. n : given'[i] = given[i] /\ given'[n + 1] = m
      /\ given'[n + 1] = m
  BY <1>1
<1>3. \A i \in 1 .. n : given[i] \in Range(given)
  BY <1>1 DEF Range
<1>4. Range(given)' = Range(given) \cup {m}
  <2>1. \A x \in Range(given') : x \in Range(given) \cup {m}
    <3> SUFFICES ASSUME NEW i \in 1 .. n + 1
                 PROVE  given'[i] \in Range(given) \cup {m}
      BY <1>2 DEF Range
    <3>1. CASE i \in 1 .. n
      BY <3>1, <1>2, <1>3
    <3>2. CASE i = n + 1
      BY <3>2, <1>2
    <3> QED
      BY <3>1, <3>2, <1>1
  <2>2. ASSUME NEW x \in Range(given)
        PROVE  x \in Range(given')
    <3>1. PICK i \in 1 .. n : x = given[i]
      BY <1>1 DEF Range
    <3>2. i \in 1 .. n + 1 /\ given'[i] = x
      BY <3>1, <1>1, <1>2
    <3> QED
      BY <3>2, <1>2 DEF Range
  <2>3. m \in Range(given')
    <3>1. n + 1 \in 1 .. n + 1
      BY <1>1
    <3> QED
      BY <3>1, <1>2 DEF Range
  <2> QED
    BY <2>1, <2>2, <2>3
<1>5. Wanted' = Wanted /\ \A x, y : Follows(x, y)' = Follows(x, y)
  BY SameInput
<1>6. \A i, j \in DOMAIN given' : i < j => Follows(given'[j], given'[i])
  <2> SUFFICES ASSUME NEW i \in 1 .. n + 1, NEW j \in 1 .. n + 1, i < j
               PROVE  Follows(given'[j], given'[i])
    BY <1>2
  <2>1. i \in 1 .. n /\ given'[i] = given[i]
    BY <1>1, <1>2
  <2>2. CASE j = n + 1
    BY <2>1, <2>2, <1>2, <1>3
  <2>3. CASE j # n + 1
    <3>1. j \in 1 .. n /\ given'[j] = given[j]
      BY <2>3, <1>1, <1>2
    <3> QED
      BY <2>1, <3>1, <1>1 DEF GivenInOrder
  <2> QED
    BY <2>2, <2>3
<1>7. Range(given') \subseteq Wanted
  BY <1>4 DEF GivenInOrder
<1> QED
  BY <1>2, <1>4, <1>5, <1>6, <1>7 DEF GivenInOrder

\* Nothing is given.
LEMMA GivenKept ==
  ASSUME GivenInOrder, UNCHANGED <<input, given>>
  PROVE  GivenInOrder' /\ Range(given)' = Range(given)
<1>1. Wanted' = Wanted /\ \A x, y : Follows(x, y)' = Follows(x, y)
  BY SameInput
<1>2. given' = given
  OBVIOUS
<1>3. \A i, j \in DOMAIN given : Follows(given[j], given[i])' = Follows(given[j], given[i])
  BY <1>1, <1>2
<1> QED
  BY <1>1, <1>2, <1>3 DEF GivenInOrder

\* Before the array is generated nothing but the move of the table was given.
LEMMA PickerInvInit == PickerInit => PickerInv
<1> SUFFICES ASSUME PickerInit
             PROVE  PickerInv
  OBVIOUS
<1>1. PickerTypes
  <2>1. depth \in Nat /\ seeGood \in SUBSET Range(Captures) /\ score \in Scorings
    BY PickerAssumption DEF PickerInit
  <2>2. /\ kind \in {"main", "qsearch", "evasion", "probcut"} /\ ttMove \in Generated \cup {NoMove}
        /\ (kind = "probcut" => ttMove \notin Range(Quiets))
        /\ stage \in {"tt", "init"}
    BY DEF PickerInit
  <2>3. /\ moves = <<>> /\ given = <<>> /\ cur = 1 /\ endCur = 1 /\ endBadCaptures = 1
        /\ endBadQuiets = 1 /\ skipQuiets = FALSE /\ calling = FALSE
    BY DEF PickerInit
  <2>4. skipQuiets \in BOOLEAN /\ calling \in BOOLEAN
    BY <2>3
  <2>5. moves \in Seq(Generated) /\ given \in Seq(Generated)
    BY <2>3
  <2>6. cur \in Nat \ {0} /\ endCur \in Nat /\ endBadCaptures \in Nat \ {0} /\ endBadQuiets \in Nat
    BY <2>3
  <2> QED
    BY <2>1, <2>2, <2>4, <2>5, <2>6 DEF PickerTypes, MainStages
<1>2. NoMove \notin Generated
  BY <1>1, ListsOfMoves
<1>3. given = <<>> /\ Range(given) = {} /\ stage \in {"tt", "init"} /\ Left = {}
      /\ stage = (IF ttMove = NoMove THEN "init" ELSE "tt")
  BY DEF PickerInit, Left, Range
<1>4. BoundsMeet /\ PlacesFit
  BY <1>3 DEF BoundsMeet, PlacesFit
<1>5. LeftInOrder /\ LeftFollows /\ NoneLost
  BY <1>3 DEF LeftInOrder, LeftFollows, NoneLost
<1>6. TTFirst /\ GivenInOrder
  BY <1>3 DEF TTFirst, GivenInOrder
<1> QED
  BY <1>1, <1>4, <1>5, <1>6 DEF PickerInv

\* next_move() is called.
LEMMA CallInv == PickerInv /\ Call => PickerInv'
<1> SUFFICES ASSUME PickerInv, Call
             PROVE  PickerInv'
  OBVIOUS
<1> USE DEF PickerInv
<1>1. /\ UNCHANGED <<input, stage, skipQuiets, given>>
      /\ UNCHANGED <<moves, cur, endCur, endBadCaptures, endBadQuiets>>
      /\ UNCHANGED <<kind, depth, ttMove, score, seeGood>> /\ calling' \in BOOLEAN
  BY DEF Call, list, input
<1>2. PickerTypes'
  BY <1>1 DEF PickerTypes, Scorings
<1>3. Left' = Left /\ QuietsToCome' = QuietsToCome /\ BadCaptures' = BadCaptures
      /\ BadQuiets' = BadQuiets /\ Unread' = Unread
  BY <1>1 DEF Left, QuietsToCome, BadCaptures, BadQuiets, Unread
<1>4. GivenInOrder' /\ Range(given)' = Range(given)
  BY <1>1, GivenKept
<1>5. /\ Wanted' = Wanted /\ (\A m : Class(m)' = Class(m))
      /\ (\A m, class : IsBad(m, class)' = IsBad(m, class))
      /\ \A m, n : Follows(n, m)' = Follows(n, m) /\ Ranked(m, n)' = Ranked(m, n)
  BY <1>1, SameInput
<1>6. BoundsMeet' /\ TTFirst'
  BY <1>1, <1>4, <1>5 DEF BoundsMeet, TTFirst
<1>7. \A i : /\ (\A class : IsBad(moves[i], class)' = IsBad(moves[i], class))
             /\ \A j : Ranked(moves[i], moves[j])' = Ranked(moves[i], moves[j])
             /\ \A m : Follows(moves[i], m)' = Follows(moves[i], m)
  BY <1>1, <1>5
<1>8. PlacesFit'
  BY <1>1, <1>3, <1>7 DEF PlacesFit
<1>9. LeftInOrder'
  BY <1>3, <1>7 DEF LeftInOrder
<1>10. LeftFollows'
  BY <1>1, <1>3, <1>4, <1>7, ZenonT(30) DEF LeftFollows
<1>11. NoneLost'
  BY <1>1, <1>3, <1>4, <1>5 DEF NoneLost
<1> QED
  BY <1>2, <1>4, <1>6, <1>8, <1>9, <1>10, <1>11

\* What the types say of the array and its bounds
LEMMA BoundTypes ==
  ASSUME PickerTypes
  PROVE  /\ moves \in Seq(Generated) /\ DOMAIN moves = 1 .. Len(moves) /\ Len(moves) \in Nat
         /\ cur \in Nat \ {0} /\ endCur \in Nat /\ endBadCaptures \in Nat \ {0} /\ endBadQuiets \in Nat
         /\ \A i \in 1 .. Len(moves) : moves[i] \in Generated
BY DEF PickerTypes

\* Without the quiet moves less is left, and what falls away is a quiet move.
LEMMA SkipQuietMovesInv == PickerInv /\ SkipQuietMoves => PickerInv'
<1> SUFFICES ASSUME PickerInv, SkipQuietMoves
             PROVE  PickerInv'
  OBVIOUS
<1>0. /\ PickerTypes /\ BoundsMeet /\ PlacesFit /\ LeftInOrder /\ LeftFollows /\ NoneLost
      /\ TTFirst /\ GivenInOrder
  BY DEF PickerInv
<1>1. /\ UNCHANGED <<input, stage, calling, given>> /\ skipQuiets' = TRUE /\ ~skipQuiets
      /\ UNCHANGED <<moves, cur, endCur, endBadCaptures, endBadQuiets>>
      /\ UNCHANGED <<kind, depth, ttMove, score, seeGood>>
  BY <1>0 DEF SkipQuietMoves, list, input
<1>2. PickerTypes'
  BY <1>0, <1>1 DEF PickerTypes, Scorings
<1>3. BadCaptures' = BadCaptures /\ BadQuiets' = BadQuiets /\ Unread' = Unread
  BY <1>0, <1>1 DEF BadCaptures, BadQuiets, Unread
<1>4. GivenInOrder' /\ Range(given)' = Range(given)
  BY <1>0, <1>1, GivenKept
<1>5. /\ Wanted' = Wanted /\ (\A m : Class(m)' = Class(m))
      /\ (\A m, class : IsBad(m, class)' = IsBad(m, class))
      /\ \A m, n : Follows(n, m)' = Follows(n, m) /\ Ranked(m, n)' = Ranked(m, n)
  BY <1>0, <1>1, SameInput
<1>6. BoundsMeet' /\ TTFirst'
  BY <1>0, <1>1, <1>4, <1>5 DEF BoundsMeet, TTFirst
<1>7. \A i : /\ (\A class : IsBad(moves[i], class)' = IsBad(moves[i], class))
             /\ \A j : Ranked(moves[i], moves[j])' = Ranked(moves[i], moves[j])
             /\ \A m : Follows(moves[i], m)' = Follows(moves[i], m)
  BY <1>0, <1>1, <1>5
<1>8. PlacesFit'
  BY <1>0, <1>1, <1>3, <1>7 DEF PlacesFit
<1>9. \A i \in Left' : i \in Left
  BY <1>0, <1>1, <1>3 DEF Left
<1>10. LeftInOrder'
  BY <1>0, <1>7, <1>9 DEF LeftInOrder
<1>11. LeftFollows'
  BY <1>0, <1>1, <1>4, <1>7, <1>9 DEF LeftFollows
<1>12. ASSUME stage \notin {"tt", "init"}, NEW m \in Wanted, m \notin Range(given)
       PROVE  m \in {moves[i] : i \in Left'} \cup QuietsToCome'
  <2>1. m \in {moves[i] : i \in Left} \cup QuietsToCome
    BY <1>0, <1>12 DEF NoneLost
  <2>2. CASE m \in QuietsToCome
    BY <1>0, <2>2, <1>1 DEF QuietsToCome
  <2>3. CASE m \in {moves[i] : i \in Left}
    <3>1. PICK i \in Left : m = moves[i]
      BY <1>0, <2>3
    <3>2. CASE i \in Left'
      BY <1>0, <3>1, <3>2
    <3>3. CASE i \notin Left'
      <4>1. /\ \/ stage \in {"goodQuiet", "badCapture"} /\ i \in BadQuiets
               \/ stage \in {"goodQuiet", "badQuiet"} /\ i \in Unread
            /\ kind = "main"
        <5>1. \/ stage \in {"goodQuiet", "badCapture"} /\ i \in BadQuiets
              \/ stage \in {"goodQuiet", "badQuiet"} /\ i \in Unread
          BY <3>1, <3>3, <1>1, <1>3 DEF Left
        <5> QED
          BY <1>0, <5>1 DEF PickerTypes, MainStages
      <4>2. m = ttMove \/ ~IsCapture(m)
        BY <1>0, <4>1, <3>1, <1>1, Classes DEF PlacesFit, IsBad
      <4>3. i \in 1 .. Len(moves)
        BY DEF Left
      <4>4. m \in Generated
        BY <1>0, <4>3, <3>1, BoundTypes
      <4>5. m # ttMove
        <5>1. NoMove \notin Generated
          BY <1>0, ListsOfMoves
        <5> QED
          BY <1>0, <5>1, <4>1, <4>4, <1>12 DEF TTFirst
      <4>6. m \in Range(Quiets)
        BY <1>0, <4>2, <4>4, <4>5 DEF Generated, IsCapture
      <4> QED
        BY <1>0, <4>1, <4>6, <1>1 DEF QuietsToCome
    <3> QED
      BY <1>0, <3>2, <3>3
  <2> QED
    BY <1>0, <2>1, <2>2, <2>3
<1>13. NoneLost'
  BY <1>0, <1>1, <1>4, <1>5, <1>12 DEF NoneLost
<1> QED
  BY <1>2, <1>4, <1>6, <1>8, <1>10, <1>11, <1>13 DEF PickerInv

\* The move of the table is given.
LEMMA GiveTTMoveInv == PickerInv /\ GiveTTMove => PickerInv'
<1> SUFFICES ASSUME PickerInv, GiveTTMove
             PROVE  PickerInv'
  OBVIOUS
<1>0. /\ PickerTypes /\ BoundsMeet /\ PlacesFit /\ LeftInOrder /\ LeftFollows /\ NoneLost
      /\ TTFirst /\ GivenInOrder
  BY DEF PickerInv
<1>1. /\ UNCHANGED <<input, skipQuiets>> /\ stage = "tt" /\ stage' = "init"
      /\ UNCHANGED <<moves, cur, endCur, endBadCaptures, endBadQuiets>>
      /\ UNCHANGED <<kind, depth, ttMove, score, seeGood>>
      /\ calling' = FALSE /\ given' = Append(given, ttMove)
  BY <1>0 DEF GiveTTMove, Give, list, input
<1>2. ttMove # NoMove /\ given = <<>> /\ ttMove \in Generated
  BY <1>0, <1>1 DEF TTFirst, PickerTypes
<1>3. Range(given) = {} /\ given' = <<ttMove>>
  BY <1>0, <1>1, <1>2 DEF Range
<1>4. ttMove \in Wanted
  BY <1>0, <1>2, <1>1 DEF Wanted, PickerTypes
<1>5. GivenInOrder' /\ Range(given)' = {ttMove} /\ given' \in Seq(Generated)
  BY <1>0, <1>1, <1>2, <1>3, <1>4, GivenMore
<1>6. PickerTypes'
  BY <1>0, <1>1, <1>5 DEF PickerTypes, Scorings, MainStages
<1>7. TTFirst'
  BY <1>0, <1>1, <1>2, <1>3, <1>5 DEF TTFirst
<1>8. Left' = {}
  BY <1>0, <1>1 DEF Left
<1>9. BoundsMeet' /\ PlacesFit' /\ NoneLost'
  BY <1>0, <1>1 DEF BoundsMeet, PlacesFit, NoneLost
<1>10. LeftInOrder' /\ LeftFollows'
  BY <1>0, <1>8 DEF LeftInOrder, LeftFollows
<1> QED
  BY <1>5, <1>6, <1>7, <1>9, <1>10 DEF PickerInv

\* The stages that read the array, while it is not exhausted
IsReading ==
  /\ stage \in MainStages \cup {"all"} /\ cur < endCur
  /\ stage \in {"goodQuiet", "badQuiet"} => ~skipQuiets

\* The next place is read, and the array is left as it is.
Advances ==
  /\ IsReading /\ cur' = cur + 1
  /\ UNCHANGED <<input, stage, moves, endCur, endBadCaptures, endBadQuiets, skipQuiets>>
  /\ calling' \in BOOLEAN

\* A place that is read is one of those that were left.
LEMMA ReadsLeft ==
  ASSUME PickerInv, IsReading
  PROVE  /\ cur \in Left /\ cur \in 1 .. Len(moves) /\ moves[cur] \in Generated
         /\ \A i \in Left : i \in 1 .. Len(moves) /\ moves[i] \in Generated
         /\ moves[cur] = ttMove => ttMove \in Range(given)
<1>0. /\ PickerTypes /\ BoundsMeet /\ PlacesFit /\ LeftInOrder /\ LeftFollows /\ NoneLost
      /\ TTFirst /\ GivenInOrder
  BY DEF PickerInv
<1>1. /\ moves \in Seq(Generated) /\ DOMAIN moves = 1 .. Len(moves) /\ Len(moves) \in Nat
      /\ cur \in Nat \ {0} /\ endCur \in Nat /\ endBadCaptures \in Nat \ {0} /\ endBadQuiets \in Nat
      /\ \A i \in 1 .. Len(moves) : moves[i] \in Generated
  BY <1>0, BoundTypes
<1>2. stage \in MainStages \cup {"all"} /\ cur < endCur
      /\ (stage \in {"goodQuiet", "badQuiet"} => ~skipQuiets)
  BY DEF IsReading
<1>3. cur \in Left /\ cur \in 1 .. Len(moves)
  <2>1. endCur <= Len(moves) + 1
    <3>1. CASE stage \in {"goodCapture", "all", "goodQuiet", "badQuiet"}
      BY <1>0, <1>2, <3>1, <1>1 DEF BoundsMeet
    <3>2. CASE stage = "badCapture"
      BY <1>0, <3>2, <1>1 DEF BoundsMeet
    <3> QED
      BY <3>1, <3>2, <1>2 DEF MainStages
  <2>2. cur \in Unread /\ cur \in 1 .. Len(moves)
    BY <1>1, <1>2, <2>1 DEF Unread
  <2> QED
    BY <2>2, <1>2 DEF Left, MainStages
<1>4. \A i \in Left : i \in 1 .. Len(moves)
  BY DEF Left
<1>5. NoMove \notin Generated
  BY <1>0, ListsOfMoves
<1>6. stage # "tt"
  BY <1>2 DEF MainStages
<1> QED
  BY <1>0, <1>1, <1>3, <1>4, <1>5, <1>6 DEF TTFirst

\* What holds of the places still holds of those that are left then.
LEMMA PlacesKept ==
  ASSUME PickerInv, Advances
  PROVE  /\ BoundsMeet' /\ PlacesFit' /\ LeftInOrder' /\ Left' = Left \ {cur}
         /\ given' \in Seq(Generated) => PickerTypes'
         /\ QuietsToCome' = QuietsToCome
<1>0. /\ PickerTypes /\ BoundsMeet /\ PlacesFit /\ LeftInOrder /\ LeftFollows /\ NoneLost
      /\ TTFirst /\ GivenInOrder
  BY DEF PickerInv
<1>1. /\ UNCHANGED <<input, stage, moves, endCur, endBadCaptures, endBadQuiets, skipQuiets>>
      /\ UNCHANGED <<kind, depth, ttMove, score, seeGood>> /\ cur' = cur + 1 /\ cur < endCur
      /\ (stage \in {"goodQuiet", "badQuiet"} => ~skipQuiets)
      /\ calling' \in BOOLEAN /\ stage \in MainStages \cup {"all"}
  BY DEF Advances, IsReading, input
<1>2. cur \in Nat \ {0} /\ endCur \in Nat /\ endBadCaptures \in Nat \ {0} /\ endBadQuiets \in Nat
  BY <1>0, BoundTypes
<1>3. BadCaptures' = BadCaptures /\ BadQuiets' = BadQuiets /\ Unread' = Unread \ {cur}
  BY <1>1, <1>2 DEF BadCaptures, BadQuiets, Unread
<1>4. Left' = Left \ {cur}
  <2>1. stage \in {"goodCapture", "goodQuiet"} => endBadCaptures <= cur
    <3>1. CASE stage = "goodCapture"
      BY <1>0, <3>1 DEF BoundsMeet
    <3>2. CASE stage = "goodQuiet"
      <4>1. endBadCaptures <= endBadQuiets /\ endBadQuiets <= cur
        BY <1>0, <1>1, <3>2 DEF BoundsMeet
      <4> QED
        BY <4>1, <1>2
    <3> QED
      BY <3>1, <3>2
  <2>2. stage \in {"goodQuiet", "badCapture"} /\ ~skipQuiets => cur \notin BadQuiets
    <3>1. CASE stage = "goodQuiet" /\ ~skipQuiets
      <4>1. endBadQuiets <= cur
        BY <1>0, <3>1 DEF BoundsMeet
      <4> QED
        BY <4>1, <1>2 DEF BadQuiets
    <3>2. CASE stage = "badCapture"
      <4>1. endCur = endBadCaptures
        BY <1>0, <3>2 DEF BoundsMeet
      <4> QED
        BY <4>1, <1>1, <1>2 DEF BadQuiets
    <3> QED
      BY <3>1, <3>2
  <2>3. stage \in {"goodCapture", "goodQuiet"} => cur \notin BadCaptures
    BY <2>1, <1>2 DEF BadCaptures
  <2> QED
    BY <2>2, <2>3, <1>1, <1>3 DEF Left
<1>5. BoundsMeet'
  <2>1. stage' = stage /\ moves' = moves /\ endCur' = endCur /\ endBadCaptures' = endBadCaptures
        /\ endBadQuiets' = endBadQuiets /\ skipQuiets' = skipQuiets
    BY <1>1
  <2>2. cur <= cur' /\ cur' <= endCur
    BY <1>1, <1>2
  <2>3. \A x \in Nat : x <= cur => x <= cur'
    BY <1>1, <1>2
  <2> QED
    BY <1>0, <1>2, <2>1, <2>2, <2>3 DEF BoundsMeet
<1>6. /\ (\A m, class : IsBad(m, class)' = IsBad(m, class))
      /\ \A m, n : Ranked(m, n)' = Ranked(m, n)
  BY <1>0, <1>1, SameInput
<1>7. \A i : /\ (\A class : IsBad(moves[i], class)' = IsBad(moves[i], class))
             /\ \A j : Ranked(moves[i], moves[j])' = Ranked(moves[i], moves[j])
  BY <1>0, <1>1, <1>6
<1>8. PlacesFit'
  BY <1>0, <1>1, <1>3, <1>7 DEF PlacesFit
<1>9. LeftInOrder'
  BY <1>0, <1>4, <1>7 DEF LeftInOrder
<1>10. given' \in Seq(Generated) => PickerTypes'
  BY <1>0, <1>1, <1>2 DEF PickerTypes, Scorings
<1>11. QuietsToCome' = QuietsToCome
  BY <1>0, <1>1 DEF QuietsToCome
<1> QED
  BY <1>0, <1>4, <1>5, <1>8, <1>9, <1>10, <1>11

\* A place is passed by: the move there was given before, or is not asked for.
LEMMA PassBy ==
  ASSUME PickerInv, Advances, UNCHANGED given, moves[cur] \in Wanted => moves[cur] = ttMove
  PROVE  PickerInv'
<1>0. /\ PickerTypes /\ BoundsMeet /\ PlacesFit /\ LeftInOrder /\ LeftFollows /\ NoneLost
      /\ TTFirst /\ GivenInOrder
  BY DEF PickerInv
<1>1. /\ BoundsMeet' /\ PlacesFit' /\ LeftInOrder' /\ Left' = Left \ {cur}
      /\ PickerTypes' /\ QuietsToCome' = QuietsToCome
  BY <1>0, PlacesKept DEF PickerTypes
<1>2. UNCHANGED <<input, stage, moves>> /\ UNCHANGED <<kind, depth, ttMove, score, seeGood>> /\ IsReading
      /\ stage \notin {"tt", "init"}
  BY <1>0 DEF Advances, input, IsReading, MainStages
<1>3. GivenInOrder' /\ Range(given)' = Range(given)
  BY <1>0, <1>2, GivenKept
<1>4. /\ Wanted' = Wanted /\ (\A m : Class(m)' = Class(m)) /\ \A m, n : Follows(n, m)' = Follows(n, m)
  BY <1>0, <1>2, SameInput
<1>5. \A i : \A m : Follows(moves[i], m)' = Follows(moves[i], m)
  BY <1>0, <1>2, <1>4
<1>6. LeftFollows'
  BY <1>0, <1>1, <1>2, <1>3, <1>5, SMTT(30) DEF LeftFollows
<1>7. TTFirst'
  BY <1>0, <1>2, <1>3, <1>4 DEF TTFirst
<1>8. moves[cur] = ttMove => ttMove \in Range(given)
  BY <1>0, <1>2, ReadsLeft
<1>9. NoneLost'
  <2> SUFFICES ASSUME NEW m \in Wanted, m \notin Range(given), m \notin QuietsToCome
               PROVE  \E i \in Left : i # cur /\ m = moves[i]
    BY <1>0, <1>1, <1>2, <1>3, <1>4 DEF NoneLost
  <2>1. PICK i \in Left : m = moves[i]
    BY <1>0, <1>2 DEF NoneLost
  <2> QED
    BY <1>0, <2>1, <1>8
<1> QED
  BY <1>1, <1>3, <1>6, <1>7, <1>9 DEF PickerInv

\* What the stages hold of the place that is read
LEMMA SkipTTMoveInv == PickerInv /\ SkipTTMove => PickerInv'
<1> SUFFICES ASSUME PickerInv, SkipTTMove
             PROVE  PickerInv'
  OBVIOUS
<1>1. /\ stage \in {"goodCapture", "goodQuiet", "badCapture", "badQuiet", "all"}
      /\ cur < endCur /\ cur' = cur + 1 /\ calling' = calling
      /\ (stage \in {"goodQuiet", "badQuiet"} => ~skipQuiets)
      /\ UNCHANGED <<input, stage, moves, endCur, endBadCaptures, endBadQuiets, skipQuiets>>
      /\ UNCHANGED given /\ moves[cur] = ttMove
  BY DEF SkipTTMove
<1>2. calling' \in BOOLEAN
  BY <1>1 DEF PickerInv, PickerTypes
<1>3. Advances
  BY <1>1, <1>2 DEF Advances, IsReading, MainStages
<1> QED
  BY <1>1, <1>3, PassBy

LEMMA PassProbCutInv == PickerInv /\ PassProbCut => PickerInv'
<1> SUFFICES ASSUME PickerInv, PassProbCut
             PROVE  PickerInv'
  OBVIOUS
<1>1. /\ stage = "all" /\ cur < endCur /\ cur' = cur + 1 /\ calling' = calling
      /\ UNCHANGED <<input, stage, moves, endCur, endBadCaptures, endBadQuiets, skipQuiets>>
      /\ UNCHANGED given /\ kind = "probcut" /\ moves[cur] \notin seeGood
  BY DEF PassProbCut, Selecting
<1>2. calling' \in BOOLEAN
  BY <1>1 DEF PickerInv, PickerTypes
<1>3. Advances
  BY <1>1, <1>2 DEF Advances, IsReading
<1>4. moves[cur] \in Wanted => moves[cur] = ttMove
  BY <1>1 DEF Wanted
<1> QED
  BY <1>1, <1>3, <1>4, PassBy

-----------------------------------------------------------------------------
(* A move is given from the array.                                           *)

\* A move of a later class follows; so does one that stands behind, if its class is not
\* an earlier one.
LEMMA FollowsClass ==
  ASSUME PickerTypes, NEW m, NEW n, Class(m) < Class(n), kind = "main"
  PROVE  Follows(n, m)
<1>1. Class(m) \in 0 .. 4 /\ Class(n) \in 0 .. 4
  BY Classes
<1>2. Class(m) <= Class(n) /\ Class(m) # Class(n)
  BY <1>1
<1>3. m # n
  BY <1>2
<1> QED
  BY <1>2, <1>3 DEF Follows

LEMMA FollowsRanked ==
  ASSUME PickerTypes, NEW m, NEW n, Ranked(m, n), n # ttMove, kind = "main" => Class(m) <= Class(n)
  PROVE  Follows(n, m)
<1>1. m # n /\ ((kind = "main" => (IsCapture(m) <=> IsCapture(n))) /\ Sortable(n) => score[m] >= score[n])
  BY DEF Ranked
<1>2. ASSUME m # ttMove, kind = "main" => Class(m) = Class(n)
      PROVE  kind = "main" => (IsCapture(m) <=> IsCapture(n))
  BY <1>2, Classes
<1> QED
  BY <1>1, <1>2 DEF Follows

\* The move that is read is given.
LEMMA GiveRead ==
  ASSUME PickerInv, Advances, given' = Append(given, moves[cur]), moves[cur] # ttMove,
         moves[cur] \in Wanted,
         \A i \in Left : i # cur => moves[i] = ttMove \/ Follows(moves[i], moves[cur]),
         stage = "goodCapture" => Class(moves[cur]) <= 1
  PROVE  PickerInv'
<1>0. /\ PickerTypes /\ BoundsMeet /\ PlacesFit /\ LeftInOrder /\ LeftFollows /\ NoneLost
      /\ TTFirst /\ GivenInOrder
  BY DEF PickerInv
<1>1. /\ UNCHANGED <<input, stage, moves>> /\ UNCHANGED <<kind, depth, ttMove, score, seeGood>> /\ IsReading
      /\ stage \notin {"tt", "init"}
  BY DEF Advances, input, IsReading, MainStages
<1>2. cur \in Left /\ moves[cur] \in Generated
  BY <1>1, ReadsLeft
<1>3. \A x \in Range(given) : Follows(moves[cur], x)
  BY <1>0, <1>2 DEF LeftFollows
<1>4. GivenInOrder' /\ Range(given)' = Range(given) \cup {moves[cur]} /\ given' \in Seq(Generated)
  BY <1>0, <1>1, <1>2, <1>3, GivenMore
<1>5. /\ BoundsMeet' /\ PlacesFit' /\ LeftInOrder' /\ Left' = Left \ {cur}
      /\ PickerTypes' /\ QuietsToCome' = QuietsToCome
  BY <1>4, PlacesKept
<1>6. /\ Wanted' = Wanted /\ (\A m : Class(m)' = Class(m)) /\ \A m, n : Follows(n, m)' = Follows(n, m)
  BY <1>1, SameInput
<1>7. \A i : \A m : Follows(moves[i], m)' = Follows(moves[i], m)
  BY <1>1, <1>6
<1>8. LeftFollows'
  <2> SUFFICES ASSUME NEW m \in Range(given) \cup {moves[cur]}, NEW i \in Left, i # cur
               PROVE  moves[i] = ttMove \/ Follows(moves[i], m)
    BY <1>1, <1>4, <1>5, <1>7 DEF LeftFollows
  <2> QED
    BY <1>0 DEF LeftFollows
<1>9. TTFirst'
  BY <1>0, <1>1, <1>4, <1>6 DEF TTFirst
<1>10. NoneLost'
  <2> SUFFICES ASSUME NEW m \in Wanted, m \notin Range(given), m # moves[cur], m \notin QuietsToCome
               PROVE  \E i \in Left : i # cur /\ m = moves[i]
    BY <1>1, <1>4, <1>5, <1>6 DEF NoneLost
  <2>1. PICK i \in Left : m = moves[i]
    BY <1>0, <1>1 DEF NoneLost
  <2> QED
    BY <2>1
<1> QED
  BY <1>4, <1>5, <1>8, <1>9, <1>10 DEF PickerInv

\* The captures and the evasions, the losing captures, the bad quiet moves
LEMMA GiveRestInv == PickerInv /\ GiveRest => PickerInv'
<1> SUFFICES ASSUME PickerInv, GiveRest
             PROVE  PickerInv'
  OBVIOUS
<1>0. PickerTypes /\ BoundsMeet /\ PlacesFit /\ LeftInOrder
  BY DEF PickerInv
<1>1. /\ \/ stage = "badCapture"
         \/ stage = "badQuiet" /\ ~skipQuiets
         \/ stage = "all" /\ (kind = "probcut" => moves[cur] \in seeGood)
      /\ cur < endCur /\ moves[cur] # ttMove /\ cur' = cur + 1
      /\ calling' = FALSE /\ given' = Append(given, moves[cur])
      /\ UNCHANGED <<input, stage, moves, endCur, endBadCaptures, endBadQuiets, skipQuiets>>
  <2>1. /\ \/ Selecting("badCapture")
           \/ Selecting("badQuiet") /\ ~skipQuiets
           \/ Selecting("all") /\ (kind = "probcut" => moves[cur] \in seeGood)
        /\ cur' = cur + 1 /\ calling' = FALSE /\ given' = Append(given, moves[cur])
        /\ UNCHANGED <<input, stage, moves, endCur, endBadCaptures, endBadQuiets, skipQuiets>>
    BY DEF GiveRest, Give
  <2>2. \A s : Selecting(s) => stage = s /\ cur < endCur /\ moves[cur] # ttMove
    BY DEF Selecting
  <2> QED
    BY <2>1, <2>2
<1>2. Advances /\ IsReading
  BY <1>1 DEF Advances, IsReading, MainStages
<1>3. /\ cur \in Nat \ {0} /\ endCur \in Nat /\ endBadCaptures \in Nat \ {0} /\ endBadQuiets \in Nat
  BY <1>0, BoundTypes
<1>4. cur \in Left /\ moves[cur] \in Generated /\ \A i \in Left : i \in Nat
  BY <1>2, ReadsLeft
<1>5. cur \in Unread
  BY <1>1, <1>3 DEF Unread
<1>6. \A i \in Left : i > cur => Ranked(moves[cur], moves[i])
  BY <1>0, <1>4 DEF LeftInOrder
<1>7. ASSUME NEW i \in Unread, i # cur
      PROVE  i > cur
  BY <1>3, <1>7 DEF Unread
<1>8. /\ moves[cur] \in Wanted
      /\ \A i \in Left : i # cur => moves[i] = ttMove \/ Follows(moves[i], moves[cur])
  <2>1. CASE stage = "badCapture"
    <3>1. kind = "main" /\ IsBad(moves[cur], 3)
      BY <1>0, <1>5, <2>1 DEF PickerTypes, MainStages, PlacesFit
    <3>2. ASSUME NEW i \in Left, i # cur
          PROVE  Follows(moves[i], moves[cur])
      <4>1. i \in Unread \/ (i \in BadQuiets /\ ~skipQuiets)
        BY <2>1 DEF Left
      <4>2. CASE i \in Unread
        <5>1. IsBad(moves[i], 3) /\ Ranked(moves[cur], moves[i])
          BY <4>2, <3>2, <1>0, <1>6, <1>7, <2>1 DEF PlacesFit
        <5> QED
          BY <5>1, <3>1, <1>0, FollowsRanked DEF IsBad
      <4>3. CASE i \in BadQuiets /\ ~skipQuiets
        <5>1. IsBad(moves[i], 4)
          BY <4>3, <1>0, <2>1 DEF PlacesFit
        <5> QED
          BY <5>1, <3>1, <1>0, FollowsClass DEF IsBad
      <4> QED
        BY <4>1, <4>2, <4>3
    <3> QED
      BY <3>1, <3>2, <1>4 DEF Wanted
  <2>2. CASE stage = "badQuiet" /\ ~skipQuiets
    <3>1. kind = "main" /\ IsBad(moves[cur], 4)
      BY <1>0, <1>5, <2>2 DEF PickerTypes, MainStages, PlacesFit
    <3>2. ASSUME NEW i \in Left, i # cur
          PROVE  Follows(moves[i], moves[cur])
      <4>1. i \in Unread
        BY <2>2 DEF Left
      <4>2. IsBad(moves[i], 4) /\ Ranked(moves[cur], moves[i])
        BY <4>1, <3>2, <1>0, <1>6, <1>7, <2>2 DEF PlacesFit
      <4> QED
        BY <4>2, <3>1, <1>0, FollowsRanked DEF IsBad
    <3> QED
      BY <3>1, <3>2, <1>4 DEF Wanted
  <2>3. CASE stage = "all" /\ (kind = "probcut" => moves[cur] \in seeGood)
    <3>1. kind \in {"qsearch", "evasion", "probcut"}
      BY <1>0, <2>3 DEF PickerTypes
    <3>2. moves[cur] \in Wanted
      <4>1. kind # "evasion" => IsCapture(moves[cur])
        BY <1>0, <1>5, <2>3 DEF PlacesFit
      <4> QED
        BY <3>1, <4>1, <2>3, <1>4 DEF Wanted, IsCapture
    <3>3. ASSUME NEW i \in Left, i # cur
          PROVE  moves[i] = ttMove \/ Follows(moves[i], moves[cur])
      <4>1. i \in Unread
        BY <2>3 DEF Left
      <4>2. Ranked(moves[cur], moves[i])
        BY <4>1, <3>3, <1>6, <1>7
      <4> QED
        BY <4>2, <3>1, <1>0, FollowsRanked
    <3> QED
      BY <3>2, <3>3
  <2> QED
    BY <2>1, <2>2, <2>3, <1>1
<1>9. stage # "goodCapture"
  BY <1>1
<1> QED
  BY <1>1, <1>2, <1>8, <1>9, GiveRead

\* The move that is read goes to place p, behind all that is left there.
LEMMA PutBack ==
  ASSUME PickerInv, IsReading, UNCHANGED <<input, stage, skipQuiets, calling, given>>,
         NEW p \in 1 .. cur, \A i \in Left : i < cur => i < p,
         moves' = [moves EXCEPT ![p] = moves[cur]], Left' = (Left \ {cur}) \cup {p},
         cur' = cur + 1, endCur' \in Nat, endBadCaptures' \in Nat \ {0}, endBadQuiets' \in Nat,
         BoundsMeet', PlacesFit'
  PROVE  PickerInv'
<1>0. /\ PickerTypes /\ BoundsMeet /\ PlacesFit /\ LeftInOrder /\ LeftFollows /\ NoneLost
      /\ TTFirst /\ GivenInOrder
  BY DEF PickerInv
<1>1. /\ UNCHANGED <<kind, depth, ttMove, score, seeGood>> /\ UNCHANGED <<stage, skipQuiets, calling, given>>
      /\ stage \notin {"tt", "init"}
  BY DEF input, IsReading, MainStages
<1>2. /\ cur \in Left /\ cur \in 1 .. Len(moves) /\ moves[cur] \in Generated
      /\ \A i \in Left : i \in 1 .. Len(moves) /\ moves[i] \in Generated
  BY ReadsLeft
<1>3. /\ moves \in Seq(Generated) /\ DOMAIN moves = 1 .. Len(moves) /\ Len(moves) \in Nat
      /\ cur \in Nat \ {0}
  BY <1>0, BoundTypes
<1>4. p \in 1 .. Len(moves) /\ p <= cur
  BY <1>2, <1>3
<1>5. moves' \in Seq(Generated) /\ moves'[p] = moves[cur] /\ \A i \in 1 .. Len(moves) : i # p => moves'[i] = moves[i]
  BY <1>2, <1>3, <1>4
\* What is left was left before.
<1>6. ASSUME NEW i \in Left'
      PROVE  \/ i = p /\ moves'[i] = moves[cur]
             \/ i \in Left /\ i # cur /\ i # p /\ moves'[i] = moves[i]
  BY <1>2, <1>5, <1>6
<1>7. PickerTypes'
  BY <1>0, <1>1, <1>3, <1>5 DEF PickerTypes, Scorings
<1>8. /\ Wanted' = Wanted /\ (\A m : Class(m)' = Class(m))
      /\ \A m, n : Follows(n, m)' = Follows(n, m) /\ Ranked(m, n)' = Ranked(m, n)
  BY SameInput
<1>9. LeftInOrder'
  <2> SUFFICES ASSUME NEW i \in Left', NEW j \in Left', i < j
               PROVE  Ranked(moves'[i], moves'[j])
    <3>1. \A i, j : Ranked(moves'[i], moves'[j]) => Ranked(moves[i], moves[j])'
      BY <1>8
    <3> QED
      BY <3>1 DEF LeftInOrder
  <2>1. \A a, b \in Left : a < b => Ranked(moves[a], moves[b])
    BY <1>0 DEF LeftInOrder
  <2>2. CASE i = p
    <3>1. j \in Left /\ j # cur /\ moves'[j] = moves[j] /\ moves'[i] = moves[cur]
      BY <2>2, <1>6, <1>3
    <3>2. j \in Nat /\ j > p /\ ~(j < cur)
      <4>1. j \in Nat /\ (j < cur => j < p)
        BY <3>1, <1>2
      <4> QED
        BY <4>1, <2>2, <1>4
    <3>3. cur < j
      BY <3>1, <3>2, <1>3
    <3> QED
      BY <2>1, <3>1, <3>3, <1>2
  <2>3. CASE j = p
    <3>1. i \in Left /\ i # cur /\ moves'[i] = moves[i] /\ moves'[j] = moves[cur]
      BY <2>3, <1>6, <1>3
    <3>2. i < cur
      <4>1. i \in Nat
        BY <3>1, <1>2
      <4> QED
        BY <4>1, <2>3, <1>3, <1>4
    <3> QED
      BY <2>1, <3>1, <3>2, <1>2
  <2>4. CASE i # p /\ j # p
    <3>1. i \in Left /\ j \in Left /\ moves'[i] = moves[i] /\ moves'[j] = moves[j]
      BY <2>4, <1>6
    <3> QED
      BY <2>1, <3>1
  <2> QED
    BY <2>2, <2>3, <2>4
<1>10. ASSUME NEW i \in Left'
       PROVE  \E k \in Left : moves'[i] = moves[k]
  BY <1>6, <1>2
<1>11. GivenInOrder' /\ Range(given)' = Range(given)
  BY <1>0, <1>1, GivenKept
<1>12. LeftFollows'
  <2> SUFFICES ASSUME NEW m \in Range(given), NEW i \in Left'
               PROVE  moves'[i] = ttMove \/ Follows(moves'[i], m)
    <3>1. \A i, m : Follows(moves'[i], m) => Follows(moves[i], m)'
      BY <1>8
    <3> QED
      BY <3>1, <1>1, <1>11 DEF LeftFollows
  <2> QED
    BY <1>0, <1>10 DEF LeftFollows
<1>13. ASSUME NEW i \in Left
       PROVE  \E k \in Left' : moves'[k] = moves[i]
  <2>1. CASE i = cur
    BY <2>1, <1>5
  <2>2. CASE i # cur
    <3>1. i # p
      <4>1. i \in Nat /\ (i < cur => i < p)
        BY <1>2
      <4> QED
        BY <4>1, <2>2, <1>3, <1>4
    <3> QED
      BY <2>2, <3>1, <1>2, <1>5
  <2> QED
    BY <2>1, <2>2
<1>14. QuietsToCome' = QuietsToCome
  BY <1>1 DEF QuietsToCome
<1>15. NoneLost'
  <2> SUFFICES ASSUME NEW m \in Wanted, m \notin Range(given), m \notin QuietsToCome
               PROVE  \E k \in Left' : m = moves'[k]
    BY <1>8, <1>11, <1>14 DEF NoneLost
  <2>1. PICK i \in Left : m = moves[i]
    BY <1>0, <1>1 DEF NoneLost
  <2> QED
    BY <2>1, <1>13
<1>16. TTFirst'
  BY <1>0, <1>1, <1>8, <1>11 DEF TTFirst
<1> QED
  BY <1>7, <1>9, <1>11, <1>12, <1>15, <1>16 DEF PickerInv

\* A winning capture is given, a losing one put back.
LEMMA GoodCaptureInv == PickerInv /\ GoodCapture => PickerInv'
<1> SUFFICES ASSUME PickerInv, GoodCapture
             PROVE  PickerInv'
  OBVIOUS
<1>0. PickerTypes /\ BoundsMeet /\ PlacesFit /\ LeftInOrder
  BY DEF PickerInv
<1>1. /\ calling /\ stage = "goodCapture" /\ cur < endCur /\ moves[cur] # ttMove /\ cur' = cur + 1
      /\ UNCHANGED <<input, stage, endCur, endBadQuiets, skipQuiets>>
  BY DEF GoodCapture, Selecting
<1>2. IsReading /\ kind = "main"
  BY <1>0, <1>1 DEF IsReading, MainStages, PickerTypes
<1>3. /\ cur \in Nat \ {0} /\ endCur \in Nat /\ endBadCaptures \in Nat \ {0} /\ endBadQuiets \in Nat
      /\ Len(moves) \in Nat /\ DOMAIN moves = 1 .. Len(moves)
  BY <1>0, BoundTypes
<1>4. /\ cur \in Left /\ cur \in 1 .. Len(moves) /\ moves[cur] \in Generated
      /\ \A i \in Left : i \in 1 .. Len(moves)
  BY <1>2, ReadsLeft
<1>5. cur \in Unread
  BY <1>1, <1>3 DEF Unread
<1>6. IsCapture(moves[cur])
  BY <1>0, <1>1, <1>5 DEF PlacesFit
<1>7. endBadCaptures <= cur /\ cur <= endCur /\ endCur = Len(moves) + 1
  BY <1>0, <1>1 DEF BoundsMeet
<1>8. \A i \in Left : i \in BadCaptures \/ i \in Unread
  BY <1>1 DEF Left
<1>9. CASE moves[cur] \in seeGood
  <2>1. /\ calling' = FALSE /\ given' = Append(given, moves[cur])
        /\ UNCHANGED <<moves, endBadCaptures>>
    BY <1>9 DEF GoodCapture, Give
  <2>2. Advances
    BY <1>1, <1>2, <2>1 DEF Advances
  <2>3. Class(moves[cur]) = 1
    BY <1>0, <1>1, <1>9, Classes
  <2>4. ASSUME NEW i \in Left, i # cur, moves[i] # ttMove
        PROVE  Follows(moves[i], moves[cur])
    <3>1. CASE i \in BadCaptures
      <4>1. Class(moves[i]) = 3
        BY <3>1, <1>0, <1>1 DEF PlacesFit, IsBad
      <4> QED
        BY <4>1, <2>3, <1>0, <1>2, FollowsClass
    <3>2. CASE i \in Unread
      <4>1. cur < i
        BY <3>2, <2>4, <1>3 DEF Unread
      <4>2. Ranked(moves[cur], moves[i])
        BY <4>1, <1>0, <1>4 DEF LeftInOrder
      <4>3. Class(moves[i]) >= 1
        BY <1>0, <2>4, Classes
      <4> QED
        BY <4>2, <4>3, <2>3, <2>4, <1>0, FollowsRanked
    <3> QED
      BY <3>1, <3>2, <1>8
  <2>5. moves[cur] \in Wanted
    BY <1>2, <1>4 DEF Wanted
  <2> QED
    BY <1>1, <2>1, <2>2, <2>3, <2>4, <2>5, GiveRead
<1>10. CASE moves[cur] \notin seeGood
  <2>1. /\ moves' = [moves EXCEPT ![endBadCaptures] = moves[cur]]
        /\ endBadCaptures' = endBadCaptures + 1
        /\ UNCHANGED <<calling, given>>
    BY <1>10 DEF GoodCapture
  <2>2. Class(moves[cur]) = 3
    BY <1>1, <1>6, <1>10 DEF Class
  <2>3. BadCaptures' = BadCaptures \cup {endBadCaptures} /\ Unread' = Unread \ {cur}
        /\ cur \notin BadCaptures /\ endBadCaptures \notin Unread \ {cur}
    BY <1>1, <1>3, <1>7, <2>1 DEF BadCaptures, Unread
  <2>4. /\ Len(moves') = Len(moves) /\ endBadCaptures \in 1 .. cur /\ endBadCaptures \in 1 .. Len(moves)
        /\ moves'[endBadCaptures] = moves[cur]
        /\ \A i \in 1 .. Len(moves) : i # endBadCaptures => moves'[i] = moves[i]
    <3>1. endBadCaptures \in 1 .. cur /\ endBadCaptures \in 1 .. Len(moves)
      BY <1>3, <1>4, <1>7
    <3>2. moves \in Seq(Generated)
      BY <1>0, BoundTypes
    <3> QED
      BY <3>1, <3>2, <2>1, <1>3, <1>4
  <2>5. Left' = (Left \ {cur}) \cup {endBadCaptures}
    <3>1. Left = {i \in 1 .. Len(moves) : i \in BadCaptures \/ i \in Unread}
      BY <1>1 DEF Left
    <3>2. Left' = {i \in 1 .. Len(moves) : i \in BadCaptures' \/ i \in Unread'}
      BY <1>1, <2>4 DEF Left
    <3> QED
      BY <3>1, <3>2, <2>3, <2>4
  <2>6. \A i \in Left : i < cur => i < endBadCaptures
    BY <1>3, <1>8 DEF BadCaptures, Unread
  <2>7. \A m, class : IsBad(m, class)' = IsBad(m, class)
    BY <1>1, SameInput
  <2>8. BoundsMeet'
    <3>1. stage' = "goodCapture" /\ endBadCaptures' <= cur' /\ cur' <= endCur' /\ endCur' = Len(moves') + 1
      BY <1>1, <1>3, <1>7, <2>1, <2>4
    <3> QED
      BY <3>1 DEF BoundsMeet
  <2>9. PlacesFit'
    <3>1. ASSUME NEW i \in BadCaptures'
          PROVE  IsBad(moves[i], 3)'
      <4>1. CASE i = endBadCaptures
        BY <4>1, <2>4, <2>2, <2>7, <1>1 DEF IsBad
      <4>2. CASE i # endBadCaptures
        <5>1. i \in BadCaptures /\ i \in 1 .. Len(moves)
          BY <4>2, <2>3, <1>3, <1>4, <1>7 DEF BadCaptures
        <5>2. IsBad(moves[i], 3) /\ moves'[i] = moves[i]
          BY <5>1, <4>2, <1>0, <1>1, <2>4 DEF PlacesFit
        <5> QED
          BY <5>2, <2>7
      <4> QED
        BY <4>1, <4>2
    <3>2. ASSUME NEW i \in Unread'
          PROVE  IsCapture(moves'[i])
      <4>1. i \in Unread /\ i # endBadCaptures /\ i \in 1 .. Len(moves)
        BY <2>3, <1>3, <1>4, <1>7 DEF Unread
      <4>2. IsCapture(moves[i]) /\ moves'[i] = moves[i]
        BY <4>1, <1>0, <1>1, <2>4 DEF PlacesFit
      <4> QED
        BY <4>2
    <3>3. stage' = "goodCapture"
      BY <1>1
    <3> QED
      BY <3>1, <3>2, <3>3 DEF PlacesFit, IsCapture
  <2>10. endBadCaptures' \in Nat \ {0} /\ endCur' \in Nat /\ endBadQuiets' \in Nat
    BY <1>1, <1>3, <2>1
  <2> QED
    BY <1>1, <1>2, <2>1, <2>4, <2>5, <2>6, <2>8, <2>9, <2>10, PutBack
<1> QED
  BY <1>9, <1>10

\* A good quiet move is given, a bad one put back.
LEMMA GoodQuietMoveInv == PickerInv /\ GoodQuietMove => PickerInv'
<1> SUFFICES ASSUME PickerInv, GoodQuietMove
             PROVE  PickerInv'
  OBVIOUS
<1>0. PickerTypes /\ BoundsMeet /\ PlacesFit /\ LeftInOrder
  BY DEF PickerInv
<1>1. /\ calling /\ stage = "goodQuiet" /\ cur < endCur /\ moves[cur] # ttMove /\ cur' = cur + 1
      /\ UNCHANGED <<input, stage, endCur, endBadCaptures, skipQuiets>> /\ ~skipQuiets
  BY DEF GoodQuietMove, Selecting
<1>2. IsReading /\ kind = "main"
  BY <1>0, <1>1 DEF IsReading, MainStages, PickerTypes
<1>3. /\ cur \in Nat \ {0} /\ endCur \in Nat /\ endBadCaptures \in Nat \ {0} /\ endBadQuiets \in Nat
      /\ Len(moves) \in Nat /\ DOMAIN moves = 1 .. Len(moves)
  BY <1>0, BoundTypes
<1>4. /\ cur \in Left /\ cur \in 1 .. Len(moves) /\ moves[cur] \in Generated
      /\ \A i \in Left : i \in 1 .. Len(moves)
  BY <1>2, ReadsLeft
<1>5. cur \in Unread
  BY <1>1, <1>3 DEF Unread
<1>6. ~IsCapture(moves[cur])
  BY <1>0, <1>1, <1>5 DEF PlacesFit
<1>7. endBadCaptures <= endBadQuiets /\ endBadQuiets <= cur /\ cur <= endCur /\ endCur = Len(moves) + 1
  BY <1>0, <1>1 DEF BoundsMeet
<1>8. \A i \in Left : i \in BadCaptures \/ i \in BadQuiets \/ i \in Unread
  BY <1>1 DEF Left
<1>9. CASE QuietScore(moves[cur])
  <2>1. /\ calling' = FALSE /\ given' = Append(given, moves[cur])
        /\ UNCHANGED <<moves, endBadQuiets>>
    BY <1>9 DEF GoodQuietMove, Give
  <2>2. Advances
    BY <1>1, <1>2, <2>1 DEF Advances
  <2>3. Class(moves[cur]) = 2
    BY <1>1, <1>6, <1>9 DEF Class, QuietScore
  <2>4. ASSUME NEW i \in Left, i # cur, moves[i] # ttMove
        PROVE  Follows(moves[i], moves[cur])
    <3>1. CASE i \in BadCaptures
      <4>1. Class(moves[i]) = 3
        BY <3>1, <1>0, <1>1 DEF PlacesFit, IsBad
      <4> QED
        BY <4>1, <2>3, <1>0, <1>2, FollowsClass
    <3>2. CASE i \in BadQuiets
      <4>1. Class(moves[i]) = 4
        BY <3>2, <1>0, <1>1 DEF PlacesFit, IsBad
      <4> QED
        BY <4>1, <2>3, <1>0, <1>2, FollowsClass
    <3>3. CASE i \in Unread
      <4>1. cur < i
        BY <3>3, <2>4, <1>3 DEF Unread
      <4>2. Ranked(moves[cur], moves[i])
        BY <4>1, <1>0, <1>4 DEF LeftInOrder
      <4>3. ~IsCapture(moves[i])
        BY <3>3, <1>0, <1>1 DEF PlacesFit
      <4>4. Class(moves[i]) >= 2
        BY <4>3, <2>4 DEF Class
      <4> QED
        BY <4>2, <4>4, <2>3, <2>4, <1>0, FollowsRanked
    <3> QED
      BY <3>1, <3>2, <3>3, <1>8
  <2>5. moves[cur] \in Wanted
    BY <1>2, <1>4 DEF Wanted
  <2> QED
    BY <1>1, <2>1, <2>2, <2>4, <2>5, GiveRead
<1>10. CASE ~QuietScore(moves[cur])
  <2>1. /\ moves' = [moves EXCEPT ![endBadQuiets] = moves[cur]]
        /\ endBadQuiets' = endBadQuiets + 1
        /\ UNCHANGED <<calling, given>>
    BY <1>10 DEF GoodQuietMove
  <2>2. Class(moves[cur]) = 4
    BY <1>1, <1>6, <1>10 DEF Class, QuietScore
  <2>3. /\ BadQuiets' = BadQuiets \cup {endBadQuiets} /\ Unread' = Unread \ {cur}
        /\ BadCaptures' = BadCaptures
        /\ cur \notin BadQuiets /\ cur \notin BadCaptures
    BY <1>1, <1>3, <1>7, <2>1 DEF BadQuiets, BadCaptures, Unread
  <2>4. /\ Len(moves') = Len(moves) /\ endBadQuiets \in 1 .. cur /\ endBadQuiets \in 1 .. Len(moves)
        /\ moves'[endBadQuiets] = moves[cur]
        /\ \A i \in 1 .. Len(moves) : i # endBadQuiets => moves'[i] = moves[i]
    <3>1. endBadQuiets \in 1 .. cur /\ endBadQuiets \in 1 .. Len(moves)
      BY <1>3, <1>4, <1>7
    <3>2. moves \in Seq(Generated)
      BY <1>0, BoundTypes
    <3> QED
      BY <3>1, <3>2, <2>1, <1>3, <1>4
  <2>5. Left' = (Left \ {cur}) \cup {endBadQuiets}
    <3>1. Left = {i \in 1 .. Len(moves) : i \in BadCaptures \/ i \in BadQuiets \/ i \in Unread}
      BY <1>1 DEF Left
    <3>2. Left' = {i \in 1 .. Len(moves) : i \in BadCaptures' \/ i \in BadQuiets' \/ i \in Unread'}
      BY <1>1, <2>4 DEF Left
    <3> QED
      BY <3>1, <3>2, <2>3, <2>4
  <2>6. \A i \in Left : i < cur => i < endBadQuiets
    BY <1>3, <1>7, <1>8 DEF BadCaptures, BadQuiets, Unread
  <2>7. \A m, class : IsBad(m, class)' = IsBad(m, class)
    BY <1>1, SameInput
  <2>8. BoundsMeet'
    <3>1. /\ stage' = "goodQuiet" /\ cur' <= endCur' /\ endCur' = Len(moves') + 1
          /\ endBadCaptures' <= endBadQuiets' /\ endBadQuiets' <= cur' /\ endBadCaptures' <= Len(moves') + 1
      BY <1>1, <1>3, <1>7, <2>1, <2>4
    <3> QED
      BY <3>1 DEF BoundsMeet
  <2>9. PlacesFit'
    <3>1. ASSUME NEW i \in BadCaptures'
          PROVE  IsBad(moves[i], 3)'
      <4>1. i \in BadCaptures /\ i \in 1 .. Len(moves) /\ i # endBadQuiets
        <5>1. i \in BadCaptures
          BY <2>3
        <5>2. i \in 1 .. endBadCaptures - 1
          BY <5>1 DEF BadCaptures
        <5> QED
          BY <5>1, <5>2, <1>3, <1>4, <1>7
      <4>2. IsBad(moves[i], 3) /\ moves'[i] = moves[i]
        BY <4>1, <1>0, <1>1, <2>4 DEF PlacesFit
      <4> QED
        BY <4>2, <2>7
    <3>2. ASSUME NEW i \in BadQuiets'
          PROVE  IsBad(moves[i], 4)'
      <4>1. CASE i = endBadQuiets
        BY <4>1, <2>4, <2>2, <2>7, <1>1 DEF IsBad
      <4>2. CASE i # endBadQuiets
        <5>1. i \in BadQuiets /\ i \in 1 .. Len(moves)
          BY <4>2, <2>3, <1>3, <1>4, <1>7 DEF BadQuiets
        <5>2. IsBad(moves[i], 4) /\ moves'[i] = moves[i]
          BY <5>1, <4>2, <1>0, <1>1, <2>4 DEF PlacesFit
        <5> QED
          BY <5>2, <2>7
      <4> QED
        BY <4>1, <4>2
    <3>3. ASSUME NEW i \in Unread'
          PROVE  ~IsCapture(moves'[i])
      <4>1. i \in Unread /\ i # endBadQuiets /\ i \in 1 .. Len(moves)
        BY <2>3, <1>3, <1>4, <1>7 DEF Unread
      <4>2. ~IsCapture(moves[i]) /\ moves'[i] = moves[i]
        BY <4>1, <1>0, <1>1, <2>4 DEF PlacesFit
      <4> QED
        BY <4>2
    <3>4. stage' = "goodQuiet"
      BY <1>1
    <3> QED
      BY <3>1, <3>2, <3>3, <3>4 DEF PlacesFit, IsCapture
  <2>10. endBadCaptures' \in Nat \ {0} /\ endCur' \in Nat /\ endBadQuiets' \in Nat
    BY <1>1, <1>3, <2>1
  <2> QED
    BY <1>1, <1>2, <2>1, <2>4, <2>5, <2>6, <2>8, <2>9, <2>10, PutBack
<1> QED
  BY <1>9, <1>10

-----------------------------------------------------------------------------
(* From one list to the next.                                                *)

\* A stage ends or begins, and the same moves are left.
LEMMA StageEnds ==
  ASSUME PickerInv, UNCHANGED <<input, moves, given>>, Left' = Left, QuietsToCome' = QuietsToCome,
         stage \notin {"tt", "init"}, stage' \notin {"tt", "init", "goodCapture"},
         PickerTypes', BoundsMeet', PlacesFit'
  PROVE  PickerInv'
<1>0. LeftInOrder /\ LeftFollows /\ NoneLost /\ TTFirst /\ GivenInOrder
  BY DEF PickerInv
<1>1. UNCHANGED <<kind, depth, ttMove, score, seeGood>> /\ UNCHANGED <<moves, given>>
  BY DEF input
<1>2. GivenInOrder' /\ Range(given)' = Range(given)
  BY <1>0, GivenKept
<1>3. /\ Wanted' = Wanted
      /\ \A m, n : Follows(n, m)' = Follows(n, m) /\ Ranked(m, n)' = Ranked(m, n)
  BY SameInput
<1>4. \A i : /\ \A j : Ranked(moves[i], moves[j])' = Ranked(moves[i], moves[j])
             /\ \A m : Follows(moves[i], m)' = Follows(moves[i], m)
  BY <1>1, <1>3
<1>5. LeftInOrder'
  BY <1>0, <1>4 DEF LeftInOrder
<1>6. LeftFollows'
  BY <1>0, <1>1, <1>2, <1>4 DEF LeftFollows
<1>7. NoneLost'
  BY <1>0, <1>1, <1>2, <1>3 DEF NoneLost
<1>8. TTFirst'
  BY <1>0, <1>1, <1>2 DEF TTFirst
<1> QED
  BY <1>2, <1>5, <1>6, <1>7, <1>8 DEF PickerInv

\* Back to the losing captures
LEMMA BadCaptureInitInv == PickerInv /\ BadCaptureInit => PickerInv'
<1> SUFFICES ASSUME PickerInv, BadCaptureInit
             PROVE  PickerInv'
  OBVIOUS
<1>0. PickerTypes /\ BoundsMeet /\ PlacesFit
  BY DEF PickerInv
<1>1. /\ calling /\ stage = "goodQuiet" /\ (skipQuiets \/ cur >= endCur)
      /\ cur' = 1 /\ endCur' = endBadCaptures /\ stage' = "badCapture"
      /\ UNCHANGED <<input, moves, endBadCaptures, endBadQuiets, skipQuiets, calling, given>>
  BY DEF BadCaptureInit, Enter
<1>2. UNCHANGED <<kind, depth, ttMove, score, seeGood>> /\ kind = "main"
  BY <1>0, <1>1 DEF input, PickerTypes, MainStages
<1>3. /\ cur \in Nat \ {0} /\ endCur \in Nat /\ endBadCaptures \in Nat \ {0} /\ endBadQuiets \in Nat
      /\ Len(moves) \in Nat
  BY <1>0, BoundTypes
<1>4. PickerTypes'
  <2>1. cur' \in Nat \ {0} /\ endCur' \in Nat /\ endBadCaptures' \in Nat \ {0} /\ endBadQuiets' \in Nat
    BY <1>1, <1>3
  <2> QED
    BY <1>0, <1>1, <1>2, <2>1 DEF PickerTypes, Scorings, MainStages
<1>5. BadCaptures' = BadCaptures /\ BadQuiets' = BadQuiets /\ Unread' = BadCaptures
  BY <1>1 DEF BadCaptures, BadQuiets, Unread
<1>6. /\ endBadCaptures <= Len(moves) + 1
      /\ ~skipQuiets => endBadCaptures <= endBadQuiets /\ endBadQuiets <= cur /\ cur <= endCur /\ endCur = Len(moves) + 1
  BY <1>0, <1>1 DEF BoundsMeet
<1>7. BoundsMeet'
  <2>1. cur' <= endCur' /\ endCur' = endBadCaptures' /\ endBadCaptures' <= Len(moves') + 1
    BY <1>1, <1>3, <1>6
  <2>2. CASE skipQuiets
    BY <2>1, <2>2, <1>1 DEF BoundsMeet
  <2>3. CASE ~skipQuiets
    <3>1. endBadCaptures' <= endBadQuiets' /\ endBadQuiets' <= Len(moves') + 1
      BY <2>3, <1>1, <1>3, <1>6
    <3> QED
      BY <2>1, <3>1, <1>1 DEF BoundsMeet
  <2> QED
    BY <2>2, <2>3
<1>8. \A m, class : IsBad(m, class)' = IsBad(m, class)
  BY <1>1, SameInput
<1>9. \A i, class : IsBad(moves[i], class)' = IsBad(moves[i], class)
  BY <1>1, <1>8
<1>10. PlacesFit'
  BY <1>0, <1>1, <1>5, <1>9 DEF PlacesFit
<1>11. ~skipQuiets => Unread = {}
  <2> SUFFICES ASSUME ~skipQuiets
               PROVE  Unread = {}
    OBVIOUS
  <2>1. cur >= endCur
    BY <1>1
  <2> QED
    BY <2>1, <1>3 DEF Unread
<1>12. Left' = Left
  BY <1>1, <1>5, <1>11 DEF Left
<1>13. QuietsToCome' = QuietsToCome
  BY <1>1, <1>2 DEF QuietsToCome
<1> QED
  BY <1>1, <1>4, <1>7, <1>10, <1>12, <1>13, StageEnds

\* The bad quiet moves
LEMMA BadQuietInitInv == PickerInv /\ BadQuietInit => PickerInv'
<1> SUFFICES ASSUME PickerInv, BadQuietInit
             PROVE  PickerInv'
  OBVIOUS
<1>0. PickerTypes /\ BoundsMeet /\ PlacesFit
  BY DEF PickerInv
<1>1. /\ calling /\ stage = "badCapture" /\ cur >= endCur
      /\ cur' = endBadCaptures /\ endCur' = endBadQuiets /\ stage' = "badQuiet"
      /\ UNCHANGED <<input, moves, endBadCaptures, endBadQuiets, skipQuiets, calling, given>>
  BY DEF BadQuietInit, Enter
<1>2. UNCHANGED <<kind, depth, ttMove, score, seeGood>> /\ kind = "main"
  BY <1>0, <1>1 DEF input, PickerTypes, MainStages
<1>3. /\ cur \in Nat \ {0} /\ endCur \in Nat /\ endBadCaptures \in Nat \ {0} /\ endBadQuiets \in Nat
      /\ Len(moves) \in Nat
  BY <1>0, BoundTypes
<1>4. PickerTypes'
  <2>1. cur' \in Nat \ {0} /\ endCur' \in Nat /\ endBadCaptures' \in Nat \ {0} /\ endBadQuiets' \in Nat
    BY <1>1, <1>3
  <2> QED
    BY <1>0, <1>1, <1>2, <2>1 DEF PickerTypes, Scorings, MainStages
<1>5. BadCaptures' = BadCaptures /\ BadQuiets' = BadQuiets /\ Unread' = BadQuiets
  BY <1>1 DEF BadCaptures, BadQuiets, Unread
<1>6. BoundsMeet'
  <2>1. ~skipQuiets => endBadCaptures <= endBadQuiets /\ endBadQuiets <= Len(moves) + 1
    BY <1>0, <1>1 DEF BoundsMeet
  <2> QED
    BY <2>1, <1>1 DEF BoundsMeet
<1>7. \A m, class : IsBad(m, class)' = IsBad(m, class)
  BY <1>1, SameInput
<1>8. \A i, class : IsBad(moves[i], class)' = IsBad(moves[i], class)
  BY <1>1, <1>7
<1>9. PlacesFit'
  BY <1>0, <1>1, <1>5, <1>8 DEF PlacesFit
<1>10. Unread = {}
  BY <1>1, <1>3 DEF Unread
<1>11. Left' = Left
  BY <1>1, <1>5, <1>10 DEF Left
<1>12. QuietsToCome' = QuietsToCome
  BY <1>1, <1>2 DEF QuietsToCome
<1> QED
  BY <1>1, <1>4, <1>6, <1>9, <1>11, <1>12, StageEnds

\* Nothing is left.
LEMMA OutOfMovesInv == PickerInv /\ OutOfMoves => PickerInv'
<1> SUFFICES ASSUME PickerInv, OutOfMoves
             PROVE  PickerInv'
  OBVIOUS
<1>0. PickerTypes /\ BoundsMeet /\ PlacesFit
  BY DEF PickerInv
<1>1. /\ (stage = "badQuiet" /\ (skipQuiets \/ cur >= endCur)) \/ (stage = "all" /\ cur >= endCur)
      /\ calling' = FALSE /\ stage' = "done"
      /\ UNCHANGED <<input, moves, cur, endCur, endBadCaptures, endBadQuiets, skipQuiets, given>>
  BY DEF OutOfMoves, None, list
<1>2. UNCHANGED <<kind, depth, ttMove, score, seeGood>> /\ stage \in {"badQuiet", "all"}
  BY <1>1 DEF input
<1>3. cur \in Nat \ {0} /\ endCur \in Nat
  BY <1>0, BoundTypes
<1>4. PickerTypes'
  <2>1. calling' \in BOOLEAN /\ stage' \in MainStages \cup {"tt", "init", "all", "done"}
    BY <1>1
  <2> QED
    BY <1>0, <1>1, <1>2, <2>1 DEF PickerTypes, Scorings, MainStages
<1>5. BoundsMeet' /\ PlacesFit'
  BY <1>1 DEF BoundsMeet, PlacesFit
<1>6. Left = {}
  <2>1. CASE stage = "badQuiet" /\ skipQuiets
    BY <2>1 DEF Left
  <2>2. CASE cur >= endCur
    <3>1. Unread = {}
      BY <2>2, <1>3 DEF Unread
    <3> QED
      BY <3>1, <1>2 DEF Left
  <2> QED
    BY <2>1, <2>2, <1>1
<1>7. Left' = {}
  BY <1>1 DEF Left
<1>8. QuietsToCome' = QuietsToCome
  BY <1>1, <1>2 DEF QuietsToCome
<1> QED
  BY <1>1, <1>2, <1>4, <1>5, <1>6, <1>7, <1>8, StageEnds

\* The captures, or all the evasions, are generated and sorted.
LEMMA GenerateCapturesInv == PickerInv /\ GenerateCaptures => PickerInv'
<1> SUFFICES ASSUME PickerInv, GenerateCaptures
             PROVE  PickerInv'
  OBVIOUS
<1>0. PickerTypes /\ TTFirst /\ GivenInOrder
  BY DEF PickerInv
<1> DEFINE all == IF kind = "evasion" THEN Captures \o Quiets ELSE Captures
<1>1. /\ stage = "init" /\ moves' = Generate(1, PartialInsertionSort(all, INT_MIN)) /\ endCur' = Len(all) + 1
      /\ cur' = 1 /\ endBadCaptures' = 1 /\ stage' = (IF kind = "main" THEN "goodCapture" ELSE "all")
      /\ UNCHANGED <<input, endBadQuiets, skipQuiets, calling, given>>
  BY DEF GenerateCaptures, Enter
<1>2. UNCHANGED <<kind, depth, ttMove, score, seeGood>>
  BY <1>1 DEF input
<1>3. IsList(all) /\ Range(all) \subseteq Generated /\ NoMove \notin Generated
      /\ Range(all) = IF kind = "evasion" THEN Generated ELSE Range(Captures)
  BY <1>0, ListsOfMoves DEF Generated
<1>4. Len(moves) \in Nat /\ endBadQuiets \in Nat
  BY <1>0, BoundTypes
<1>5. INT_MIN \in Int /\ 1 \in 1 .. Len(moves) + 1
  BY <1>4 DEF INT_MIN
<1> HIDE DEF all
<1>6. /\ moves' \in Seq(Generated) /\ Len(moves') = Len(all) /\ Len(all) \in Nat
      /\ \A i \in 1 .. Len(moves') : moves'[i] \in Range(all)
      /\ \A m \in Range(all) : \E i \in 1 .. Len(moves') : moves'[i] = m
      /\ \A i, j \in 1 .. Len(moves') : i < j =>
           moves'[i] # moves'[j] /\ (score[moves'[j]] >= INT_MIN => score[moves'[i]] >= score[moves'[j]])
  <2>1. moves' = Generate(1, PartialInsertionSort(all, INT_MIN)) /\ Range(all) \subseteq Generated
    BY <1>1, <1>3
  <2>2. IsList(all)
    BY <1>3
  <2>3. IsGenerated(moves', 1, all, INT_MIN)
    BY <1>0, <1>5, <2>1, <2>2, GenerateIs
  <2> QED
    BY <2>3 DEF IsGenerated
<1>7. PickerTypes'
  <2>1. cur' \in Nat \ {0} /\ endCur' \in Nat /\ endBadCaptures' \in Nat \ {0} /\ endBadQuiets' \in Nat
    BY <1>1, <1>4, <1>6
  <2>2. /\ stage' \in MainStages \cup {"tt", "init", "all", "done"}
        /\ (stage' \in MainStages => kind' = "main") /\ (stage' = "all" => kind' # "main")
    BY <1>1, <1>2 DEF MainStages
  <2> QED
    BY <1>0, <1>1, <1>2, <1>6, <2>1, <2>2 DEF PickerTypes, Scorings
<1>8. stage' \in {"goodCapture", "all"} /\ (stage' = "goodCapture" => kind = "main") /\ (stage' = "all" => kind # "main")
  BY <1>1
<1>9. BadCaptures' = {} /\ Unread' = 1 .. Len(moves')
  BY <1>1, <1>6 DEF BadCaptures, Unread
<1>10. Left' = 1 .. Len(moves')
  BY <1>8, <1>9 DEF Left
<1>11. BoundsMeet'
  <2>1. endBadCaptures' <= cur' /\ cur' <= endCur' /\ endCur' = Len(moves') + 1
    BY <1>1, <1>6
  <2> QED
    BY <2>1, <1>8 DEF BoundsMeet
<1>12. PlacesFit'
  <2>1. kind # "evasion" => \A i \in Unread' : IsCapture(moves'[i])
    BY <1>3, <1>6, <1>9 DEF IsCapture
  <2> QED
    BY <2>1, <1>2, <1>8, <1>9 DEF PlacesFit, IsCapture
<1>13. /\ Wanted' = Wanted /\ (\A m : Class(m)' = Class(m))
       /\ \A m, n : Follows(n, m)' = Follows(n, m) /\ Ranked(m, n)' = Ranked(m, n)
  BY <1>1, SameInput
<1>14. \A i, j : Ranked(moves'[i], moves'[j]) => Ranked(moves[i], moves[j])'
  BY <1>13
<1>15. LeftInOrder'
  <2> SUFFICES ASSUME NEW i \in 1 .. Len(moves'), NEW j \in 1 .. Len(moves'), i < j
               PROVE  Ranked(moves'[i], moves'[j])
    BY <1>10, <1>14 DEF LeftInOrder
  <2>1. moves'[j] \in Generated
    BY <1>3, <1>6
  <2>2. score[moves'[j]] >= INT_MIN
    BY <2>1, <1>0, ListsOfMoves
  <2> QED
    BY <2>2, <1>6 DEF Ranked
<1>16. GivenInOrder' /\ Range(given)' = Range(given)
  BY <1>0, <1>1, GivenKept
<1>17. given = (IF ttMove = NoMove THEN <<>> ELSE <<ttMove>>)
  BY <1>0, <1>1 DEF TTFirst
<1>18. \A m \in Range(given) : m = ttMove
  BY <1>17 DEF Range
<1>19. Class(ttMove) = 0
  BY DEF Class
<1>20. LeftFollows'
  <2>1. \A i, m : Follows(moves'[i], m) => Follows(moves[i], m)'
    BY <1>13
  <2> SUFFICES ASSUME NEW i \in 1 .. Len(moves'), moves'[i] # ttMove
               PROVE  Follows(moves'[i], ttMove)
    BY <1>2, <1>10, <1>16, <1>18, <2>1 DEF LeftFollows
  <2>2. Class(moves'[i]) \in 0 .. 4
    BY <1>0, Classes
  <2> QED
    BY <2>2, <1>19 DEF Follows
<1>21. ttMove # NoMove => ttMove \in Range(given)
  BY <1>17 DEF Range
<1>22. NoneLost'
  <2> SUFFICES ASSUME NEW m \in Wanted, m \notin Range(given), m \notin QuietsToCome'
               PROVE  \E i \in Left' : m = moves'[i]
    BY <1>13, <1>16 DEF NoneLost
  <2>1. m \in Range(all)
    <3>1. kind \in {"main", "qsearch", "evasion", "probcut"} /\ seeGood \subseteq Range(Captures)
      BY <1>0 DEF PickerTypes
    <3>2. CASE kind = "main"
      <4>1. m \in Generated
        BY <3>2 DEF Wanted
      <4>2. m \notin Range(Quiets)
        BY <3>2, <1>1 DEF QuietsToCome
      <4> QED
        BY <4>1, <4>2, <3>2, <1>3 DEF Generated
    <3>3. CASE kind = "evasion"
      <4>1. m \in Generated
        BY <3>3 DEF Wanted
      <4> QED
        BY <4>1, <3>3, <1>3
    <3>4. CASE kind = "qsearch"
      <4>1. m \in Range(Captures) \cup ({ttMove} \ {NoMove})
        BY <3>4 DEF Wanted
      <4> QED
        BY <4>1, <3>4, <1>3, <1>21
    <3>5. CASE kind = "probcut"
      <4>1. m \in seeGood \cup ({ttMove} \ {NoMove})
        BY <3>5 DEF Wanted
      <4> QED
        BY <4>1, <3>1, <3>5, <1>3, <1>21
    <3> QED
      BY <3>1, <3>2, <3>3, <3>4, <3>5
  <2> QED
    BY <2>1, <1>6, <1>10
<1>23. TTFirst'
  <2>1. \A m \in Range(given) : Class(m) <= 1
    BY <1>18, <1>19
  <2> QED
    BY <2>1, <1>2, <1>8, <1>13, <1>16, <1>21 DEF TTFirst
<1> QED
  BY <1>7, <1>11, <1>12, <1>15, <1>16, <1>20, <1>22, <1>23 DEF PickerInv

\* The quiet moves are generated behind the losing captures, or skipped.
LEMMA QuietInitInv == PickerInv /\ QuietInit => PickerInv'
<1> SUFFICES ASSUME PickerInv, QuietInit
             PROVE  PickerInv'
  OBVIOUS
<1>0. /\ PickerTypes /\ BoundsMeet /\ PlacesFit /\ LeftInOrder /\ LeftFollows /\ NoneLost
      /\ TTFirst /\ GivenInOrder
  BY DEF PickerInv
<1> DEFINE limit == -3330 * depth
<1>1. /\ stage = "goodCapture" /\ cur >= endCur /\ stage' = "goodQuiet"
      /\ UNCHANGED <<input, skipQuiets, calling, given>>
      /\ IF skipQuiets THEN UNCHANGED <<moves, cur, endCur, endBadCaptures, endBadQuiets>>
         ELSE /\ moves' = Generate(endBadCaptures, PartialInsertionSort(Quiets, limit))
              /\ cur' = endBadCaptures /\ endBadQuiets' = endBadCaptures
              /\ endCur' = endBadCaptures + Len(Quiets) /\ UNCHANGED endBadCaptures
  BY DEF QuietInit, Enter, list
<1>2. UNCHANGED <<kind, depth, ttMove, score, seeGood>> /\ kind = "main"
  BY <1>0, <1>1 DEF input, PickerTypes, MainStages
<1>3. /\ cur \in Nat \ {0} /\ endCur \in Nat /\ endBadCaptures \in Nat \ {0} /\ endBadQuiets \in Nat
      /\ Len(moves) \in Nat
  BY <1>0, BoundTypes
<1>4. endBadCaptures <= cur /\ cur <= endCur /\ endCur = Len(moves) + 1
  BY <1>0, <1>1 DEF BoundsMeet
<1>5. endBadCaptures \in 1 .. Len(moves) + 1 /\ endBadCaptures <= Len(moves) + 1
  BY <1>3, <1>4
<1>6. Unread = {}
  BY <1>1, <1>3 DEF Unread
<1>7. Left = {i \in 1 .. Len(moves) : i \in BadCaptures} /\ BadCaptures = 1 .. endBadCaptures - 1
  BY <1>1, <1>6 DEF Left, BadCaptures
<1>8. QuietsToCome = Range(Quiets)
  BY <1>1 DEF QuietsToCome
<1>9. \A i \in BadCaptures : IsBad(moves[i], 3)
  BY <1>0, <1>1 DEF PlacesFit
<1>10. /\ Wanted' = Wanted /\ (\A m : Class(m)' = Class(m))
       /\ (\A m, class : IsBad(m, class)' = IsBad(m, class))
       /\ \A m, n : Follows(n, m)' = Follows(n, m) /\ Ranked(m, n)' = Ranked(m, n)
  BY <1>1, SameInput
<1>11. CASE skipQuiets
  <2>1. UNCHANGED <<moves, cur, endCur, endBadCaptures, endBadQuiets>> /\ skipQuiets'
    BY <1>1, <1>11
  <2>2. PickerTypes'
    <3>1. stage' \in MainStages \cup {"tt", "init", "all", "done"} /\ stage' # "all"
      BY <1>1 DEF MainStages
    <3> QED
      BY <1>0, <1>1, <1>2, <2>1, <3>1 DEF PickerTypes, Scorings
  <2>3. BadCaptures' = BadCaptures
    BY <2>1 DEF BadCaptures
  <2>4. BoundsMeet'
    BY <2>1, <1>1, <1>5 DEF BoundsMeet
  <2>5. \A i, class : IsBad(moves[i], class)' = IsBad(moves[i], class)
    BY <2>1, <1>10
  <2>6. PlacesFit'
    BY <1>1, <1>9, <2>1, <2>3, <2>5 DEF PlacesFit
  <2>7. Left' = Left
    BY <1>1, <1>7, <2>1, <2>3 DEF Left
  <2>8. QuietsToCome' = QuietsToCome
    BY <1>2, <1>8, <2>1 DEF QuietsToCome
  <2> QED
    BY <1>1, <2>1, <2>2, <2>4, <2>6, <2>7, <2>8, StageEnds
<1>12. CASE ~skipQuiets
  <2>1. /\ moves' = Generate(endBadCaptures, PartialInsertionSort(Quiets, limit))
        /\ cur' = endBadCaptures /\ endBadQuiets' = endBadCaptures
        /\ endCur' = endBadCaptures + Len(Quiets) /\ endBadCaptures' = endBadCaptures /\ ~skipQuiets'
    BY <1>1, <1>12
  <2>2. limit \in Int
    <3>1. depth \in Nat
      BY <1>0 DEF PickerTypes
    <3> QED
      BY <3>1
  <2>3. IsList(Quiets) /\ Range(Quiets) \subseteq Generated /\ \A m \in Range(Quiets) : ~IsCapture(m)
    BY <1>0, ListsOfMoves DEF Generated
  <2> HIDE DEF limit
  <2>4. /\ moves' \in Seq(Generated) /\ Len(moves') = endBadCaptures - 1 + Len(Quiets) /\ Len(Quiets) \in Nat
        /\ \A i \in 1 .. endBadCaptures - 1 : moves'[i] = moves[i]
        /\ \A i \in endBadCaptures .. Len(moves') : moves'[i] \in Range(Quiets)
        /\ \A m \in Range(Quiets) : \E i \in endBadCaptures .. Len(moves') : moves'[i] = m
        /\ \A i, j \in endBadCaptures .. Len(moves') : i < j =>
             moves'[i] # moves'[j] /\ (score[moves'[j]] >= limit => score[moves'[i]] >= score[moves'[j]])
    <3>1. IsGenerated(moves', endBadCaptures, Quiets, limit)
      BY <1>0, <1>5, <2>1, <2>2, <2>3, GenerateIs
    <3> QED
      BY <3>1 DEF IsGenerated
  <2>5. /\ Len(moves') \in Nat /\ endCur' = Len(moves') + 1 /\ cur' <= endCur'
        /\ endBadCaptures <= Len(moves') + 1
    BY <1>3, <2>1, <2>4
  <2>6. PickerTypes'
    <3>1. stage' \in MainStages \cup {"tt", "init", "all", "done"} /\ stage' # "all"
      BY <1>1 DEF MainStages
    <3>2. cur' \in Nat \ {0} /\ endCur' \in Nat /\ endBadCaptures' \in Nat \ {0} /\ endBadQuiets' \in Nat
      BY <1>3, <2>1, <2>5
    <3> QED
      BY <1>0, <1>1, <1>2, <2>4, <3>1, <3>2 DEF PickerTypes, Scorings
  <2>7. BadCaptures' = BadCaptures /\ BadQuiets' = {} /\ Unread' = endBadCaptures .. Len(moves')
    BY <1>3, <2>1, <2>5 DEF BadCaptures, BadQuiets, Unread
  <2>8. Left' = {i \in 1 .. Len(moves') : i \in BadCaptures \/ i \in endBadCaptures .. Len(moves')}
    BY <1>1, <2>1, <2>7 DEF Left
  <2>9. ASSUME NEW i \in Left'
        PROVE  \/ i \in Left /\ i < endBadCaptures /\ moves'[i] = moves[i] /\ IsBad(moves[i], 3)
               \/ i \in endBadCaptures .. Len(moves') /\ moves'[i] \in Range(Quiets)
    <3>1. CASE i \in BadCaptures
      <4>1. i \in 1 .. endBadCaptures - 1
        BY <3>1, <1>7
      <4>2. i \in 1 .. Len(moves) /\ i < endBadCaptures
        BY <4>1, <1>3, <1>5
      <4> QED
        BY <3>1, <4>1, <4>2, <1>7, <1>9, <2>4
    <3>2. CASE i \in endBadCaptures .. Len(moves')
      BY <3>2, <2>4
    <3> QED
      BY <3>1, <3>2, <2>8
  <2>10. BoundsMeet'
    <3>1. /\ endBadCaptures' <= endBadQuiets' /\ endBadQuiets' <= cur' /\ cur' <= endCur'
          /\ endCur' = Len(moves') + 1 /\ endBadCaptures' <= Len(moves') + 1
      BY <1>3, <2>1, <2>5
    <3> QED
      BY <3>1, <1>1 DEF BoundsMeet
  <2>11. PlacesFit'
    <3>1. ASSUME NEW i \in BadCaptures
          PROVE  IsBad(moves[i], 3)'
      <4>1. i \in 1 .. endBadCaptures - 1
        BY <1>7
      <4>2. IsBad(moves[i], 3) /\ moves'[i] = moves[i]
        BY <4>1, <1>9, <2>4
      <4> QED
        BY <4>2, <1>10
    <3>2. \A i \in Unread' : ~IsCapture(moves'[i])
      BY <2>3, <2>4, <2>7
    <3> QED
      BY <3>1, <3>2, <1>1, <2>7 DEF PlacesFit, IsCapture
  <2>12. LeftInOrder'
    <3>1. \A i, j : Ranked(moves'[i], moves'[j]) => Ranked(moves[i], moves[j])'
      BY <1>10
    <3> SUFFICES ASSUME NEW i \in Left', NEW j \in Left', i < j
                 PROVE  Ranked(moves'[i], moves'[j])
      BY <3>1 DEF LeftInOrder
    <3>2. CASE j \in Left /\ j < endBadCaptures /\ moves'[j] = moves[j]
      <4>1. i < endBadCaptures
        BY <3>2, <2>8, <1>3
      <4>2. i \in Left /\ moves'[i] = moves[i]
        BY <4>1, <2>9, <1>3
      <4> QED
        BY <3>2, <4>2, <1>0 DEF LeftInOrder
    <3>3. CASE j \in endBadCaptures .. Len(moves') /\ moves'[j] \in Range(Quiets)
      <4>1. CASE i \in Left /\ moves'[i] = moves[i] /\ IsBad(moves[i], 3)
        <5>1. IsCapture(moves'[i])
          BY <4>1, <1>0, Classes DEF IsBad
        <5>2. ~IsCapture(moves'[j])
          BY <3>3, <2>3
        <5> QED
          BY <5>1, <5>2, <1>2 DEF Ranked
      <4>2. CASE i \in endBadCaptures .. Len(moves') /\ moves'[i] \in Range(Quiets)
        <5>1. moves'[i] # moves'[j] /\ (score[moves'[j]] >= limit => score[moves'[i]] >= score[moves'[j]])
          BY <3>3, <4>2, <2>4
        <5>2. Sortable(moves'[j]) => score[moves'[j]] >= limit
          BY <3>3, <2>3, <1>2 DEF Sortable, limit
        <5> QED
          BY <5>1, <5>2 DEF Ranked
      <4> QED
        BY <4>1, <4>2, <2>9
    <3> QED
      BY <3>2, <3>3, <2>9
  <2>13. GivenInOrder' /\ Range(given)' = Range(given)
    BY <1>0, <1>1, GivenKept
  <2>14. LeftFollows'
    <3>1. \A i, m : Follows(moves'[i], m) => Follows(moves[i], m)'
      BY <1>10
    <3> SUFFICES ASSUME NEW m \in Range(given), NEW i \in Left', moves'[i] # ttMove
                 PROVE  Follows(moves'[i], m)
      BY <3>1, <1>2, <2>13 DEF LeftFollows
    <3>2. CASE i \in Left /\ moves'[i] = moves[i]
      BY <3>2, <1>0 DEF LeftFollows
    <3>3. CASE moves'[i] \in Range(Quiets)
      <4>1. Class(m) <= 1
        BY <1>0, <1>1 DEF TTFirst
      <4>2. Class(moves'[i]) >= 2
        <5>1. ~IsCapture(moves'[i])
          BY <3>3, <2>3
        <5> QED
          BY <5>1 DEF Class
      <4>3. Class(m) \in 0 .. 4 /\ Class(moves'[i]) \in 0 .. 4
        BY <1>0, Classes
      <4>4. Class(m) < Class(moves'[i])
        BY <4>1, <4>2, <4>3
      <4> QED
        BY <4>4, <1>0, <1>2, FollowsClass
    <3> QED
      BY <3>2, <3>3, <2>9
  <2>15. NoneLost'
    <3> SUFFICES ASSUME NEW m \in Wanted, m \notin Range(given)
                 PROVE  \E i \in Left' : m = moves'[i]
      BY <1>10, <2>13 DEF NoneLost
    <3>1. m \in {moves[i] : i \in Left} \cup Range(Quiets)
      BY <1>0, <1>1, <1>8 DEF NoneLost
    <3>2. CASE m \in Range(Quiets)
      <4>1. PICK i \in endBadCaptures .. Len(moves') : moves'[i] = m
        BY <3>2, <2>4
      <4>2. i \in 1 .. Len(moves')
        BY <1>3, <2>5
      <4> QED
        BY <4>1, <4>2, <2>8
    <3>3. CASE m \in {moves[i] : i \in Left}
      <4>1. PICK i \in Left : m = moves[i]
        BY <3>3
      <4>2. i \in BadCaptures /\ i \in 1 .. endBadCaptures - 1
        BY <1>7
      <4>3. i \in 1 .. Len(moves')
        BY <4>2, <1>3, <2>5
      <4> QED
        BY <4>1, <4>2, <4>3, <2>4, <2>8
    <3> QED
      BY <3>1, <3>2, <3>3
  <2>16. TTFirst'
    BY <1>0, <1>1, <1>2, <2>13 DEF TTFirst
  <2> QED
    BY <2>6, <2>10, <2>11, <2>12, <2>13, <2>14, <2>15, <2>16 DEF PickerInv
<1> QED
  BY <1>11, <1>12

\* Nothing happens.
LEMMA PickerInvStutter == PickerInv /\ UNCHANGED pickerVars => PickerInv'
<1> SUFFICES ASSUME PickerInv, UNCHANGED pickerVars
             PROVE  PickerInv'
  OBVIOUS
<1>1. /\ UNCHANGED <<kind, depth, ttMove, score, seeGood>> /\ UNCHANGED <<stage, skipQuiets, calling, given>>
      /\ UNCHANGED <<moves, cur, endCur, endBadCaptures, endBadQuiets>> /\ UNCHANGED input
  BY DEF pickerVars, input
<1>2. /\ Left' = Left /\ QuietsToCome' = QuietsToCome /\ BadCaptures' = BadCaptures
      /\ BadQuiets' = BadQuiets /\ Unread' = Unread
  BY <1>1 DEF Left, QuietsToCome, BadCaptures, BadQuiets, Unread
<1>3. /\ Wanted' = Wanted /\ (\A m : Class(m)' = Class(m))
      /\ (\A m, class : IsBad(m, class)' = IsBad(m, class))
      /\ \A m, n : Follows(n, m)' = Follows(n, m) /\ Ranked(m, n)' = Ranked(m, n)
  BY <1>1, SameInput
<1>4. \A i : /\ (\A class : IsBad(moves[i], class)' = IsBad(moves[i], class))
             /\ \A j : Ranked(moves[i], moves[j])' = Ranked(moves[i], moves[j])
             /\ \A m : Follows(moves[i], m)' = Follows(moves[i], m)
  BY <1>1, <1>3
<1>5. PickerTypes' /\ GivenInOrder' /\ Range(given)' = Range(given)
  BY <1>1, GivenKept DEF PickerInv, PickerTypes, Scorings
<1>6. BoundsMeet' /\ TTFirst'
  BY <1>1, <1>3, <1>5 DEF PickerInv, BoundsMeet, TTFirst
<1>7. PlacesFit'
  BY <1>1, <1>2, <1>4 DEF PickerInv, PlacesFit
<1>8. LeftInOrder'
  BY <1>2, <1>4 DEF PickerInv, LeftInOrder
<1>9. LeftFollows'
  BY <1>1, <1>2, <1>4, <1>5, ZenonT(30) DEF PickerInv, LeftFollows
<1>10. NoneLost'
  BY <1>1, <1>2, <1>3, <1>5 DEF PickerInv, NoneLost
<1> QED
  BY <1>5, <1>6, <1>7, <1>8, <1>9, <1>10 DEF PickerInv

-----------------------------------------------------------------------------
\* PickerInv is an invariant: whatever the generators give and however the moves are scored,
\* the places of the array that are still to be read hold what was not given yet, in its order.
THEOREM PickerInvariant == PickerSpec => []PickerInv
<1>1. PickerInv /\ [PickerNext]_pickerVars => PickerInv'
  <2> SUFFICES ASSUME PickerInv, [PickerNext]_pickerVars
               PROVE  PickerInv'
    OBVIOUS
  <2>1. CASE Call
    BY <2>1, CallInv
  <2>2. CASE SkipQuietMoves
    BY <2>2, SkipQuietMovesInv
  <2>3. CASE GiveTTMove
    BY <2>3, GiveTTMoveInv
  <2>4. CASE GenerateCaptures
    BY <2>4, GenerateCapturesInv
  <2>5. CASE SkipTTMove
    BY <2>5, SkipTTMoveInv
  <2>6. CASE GoodCapture
    BY <2>6, GoodCaptureInv
  <2>7. CASE QuietInit
    BY <2>7, QuietInitInv
  <2>8. CASE GoodQuietMove
    BY <2>8, GoodQuietMoveInv
  <2>9. CASE BadCaptureInit
    BY <2>9, BadCaptureInitInv
  <2>10. CASE GiveRest
    BY <2>10, GiveRestInv
  <2>11. CASE PassProbCut
    BY <2>11, PassProbCutInv
  <2>12. CASE BadQuietInit
    BY <2>12, BadQuietInitInv
  <2>13. CASE OutOfMoves
    BY <2>13, OutOfMovesInv
  <2>14. CASE UNCHANGED pickerVars
    BY <2>14, PickerInvStutter
  <2> QED
    BY <2>1, <2>2, <2>3, <2>4, <2>5, <2>6, <2>7, <2>8, <2>9, <2>10, <2>11, <2>12, <2>13, <2>14 DEF PickerNext
<1> QED
  BY <1>1, PickerInvInit, PTL DEF PickerSpec

\* What is given is what was promised.
LEMMA PromiseKept == PickerInv => GivesAllInOrder
<1> SUFFICES ASSUME PickerInv
             PROVE  GivesAllInOrder
  OBVIOUS
<1>1. PickerTypes /\ NoneLost /\ GivenInOrder
  BY DEF PickerInv
<1>2. Range(given) \subseteq Wanted /\ \A i, j \in DOMAIN given : i < j => Follows(given[j], given[i])
  BY <1>1 DEF GivenInOrder
<1>3. DOMAIN given = 1 .. Len(given) /\ Len(given) \in Nat
  BY <1>1 DEF PickerTypes
<1>4. IsInjective(given)
  <2> SUFFICES ASSUME NEW i \in DOMAIN given, NEW j \in DOMAIN given, given[i] = given[j], i # j
               PROVE  FALSE
    BY DEF IsInjective
  <2>1. i < j \/ j < i
    BY <1>3
  <2>2. \A m : ~Follows(m, m)
    BY DEF Follows
  <2> QED
    BY <2>1, <2>2, <1>2
<1>5. stage = "done" => Wanted \subseteq Range(given) \cup IF skipQuiets /\ kind = "main" THEN Range(Quiets) ELSE {}
  <2> SUFFICES ASSUME stage = "done"
               PROVE  Wanted \subseteq Range(given) \cup IF skipQuiets /\ kind = "main" THEN Range(Quiets) ELSE {}
    OBVIOUS
  <2>1. Left = {}
    BY DEF Left
  <2>2. Wanted \subseteq Range(given) \cup QuietsToCome
    BY <1>1, <2>1 DEF NoneLost
  <2> QED
    BY <2>2 DEF QuietsToCome
<1>6. BestFirst
  <2> SUFFICES ASSUME NEW i \in DOMAIN given, NEW j \in DOMAIN given, i < j
               PROVE  /\ kind = "main" => Class(given[i]) <= Class(given[j])
                      /\ (given[i] # ttMove /\ (kind = "main" => Class(given[i]) = Class(given[j])) /\ Sortable(given[j])) =>
                           score[given[i]] >= score[given[j]]
    BY DEF BestFirst, Sortable
  <2>1. Follows(given[j], given[i])
    BY <1>2
  <2> QED
    BY <2>1 DEF Follows
<1> QED
  BY <1>2, <1>4, <1>5, <1>6 DEF GivesAllInOrder, GivesEachOnce

\* next_move() (movepick.cpp) gives each move that was asked for once and no other, none
\* is missing in the end but the quiet moves that were skipped, and they come class by class,
\* the better first within one, although one array holds the captures, those that were put
\* back and the quiet moves.
THEOREM MovesComeInOrder == PickerSpec => []GivesAllInOrder
<1> QED
  BY PickerInvariant, PromiseKept, PTL
=============================================================================
