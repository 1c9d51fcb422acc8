------------------------ MODULE PositionHistoryProofs ------------------------
(***************************************************************************)
(* For every board, every start and every limit: the table of visited keys *)
(* counts the chain it was built along, with no counter wrapping round;    *)
(* rule_judge() looks for repetitions over exactly the quiet moves that    *)
(* led to the current state; the clock is the one of rule 60; and the      *)
(* verdict of rule_judge() is the one that the rules give.                 *)
(***************************************************************************)
EXTENDS PositionHistory, TLAPS, FiniteSetTheorems, SequenceTheorems, WellFoundedInduction

\* The plies of rule 60 with the checks added back, and Window, of any state.
Plies(x) == x.rule60 + Positive(x.check10["white"] - CheckLimit)
                     + Positive(x.check10["black"] - CheckLimit)
WindowOf(x) == IF Plies(x) < x.pliesFromNull THEN Plies(x) ELSE x.pliesFromNull

\* State i was reached by as many quiet moves as its window is long, and no more.
RunAt(i) ==
  LET w == WindowOf(states[i])
  IN /\ w <= i - 1
     /\ \A j \in i - w + 1 .. i : states[j].by = "quiet"
     /\ states[i - w].by # "quiet"

Runs == \A i \in 1 .. Len(states) : RunAt(i)

\* The moves that undo_move() can take back are among those that gamePly counts.
Made == Cardinality({i \in 1 .. Len(states) : states[i].by \in {"quiet", "capture"}})
PlyCountsMoves == Made <= gamePly

Counted == \A s \in Slots : filter[s] = Visits(s)

IInv == TypeOK /\ PlyCountsMoves /\ Counted /\ Runs

-----------------------------------------------------------------------------
(***************************************************************************)
(* The chain.                                                              *)
(***************************************************************************)

\* The chain is never empty, and the current state is its last.
LEMMA Current ==
  ASSUME TypeOK
  PROVE  /\ Len(states) \in Nat \ {0} /\ st = states[Len(states)] /\ st \in StateInfo
         /\ \A i \in 1 .. Len(states) : states[i] \in StateInfo
<1>1. Len(states) \in Nat \ {0} /\ \A i \in 1 .. Len(states) : states[i] \in StateInfo
  BY HistoryAssumption, ElementOfSeq, LenProperties DEF TypeOK
<1> QED
  BY <1>1 DEF st, Back

\* The key of a state is a board and the side to move.
LEMMA KeyFacts ==
  ASSUME NEW x \in StateInfo
  PROVE  /\ x.key \in Key /\ x.key[1] \in Board /\ x.key[2] \in Color
         /\ Slot[x.key] \in Slots /\ Other(x.key[2]) \in Color
         /\ \A b \in Board : <<b, Other(x.key[2])>> \in Key
<1>1. x.key \in Key
  BY DEF StateInfo
<1>2. x.key[1] \in Board /\ x.key[2] \in Color
  BY <1>1 DEF Key
<1>3. Slot[x.key] \in Slots
  BY <1>1 DEF Slots
<1>4. Other(x.key[2]) \in Color
  BY <1>2 DEF Other, Color
<1> QED
  BY <1>1, <1>2, <1>3, <1>4 DEF Key

\* A state is pushed.
LEMMA Pushed ==
  ASSUME TypeOK, NEW x \in StateInfo, states' = Append(states, x), Len(states) < MaxStates
  PROVE  /\ states' \in Seq(StateInfo) /\ Len(states') = Len(states) + 1
         /\ Len(states') \in 1 .. MaxStates
         /\ \A i \in 1 .. Len(states) : states'[i] = states[i]
         /\ states'[Len(states) + 1] = x
<1>1. states \in Seq(StateInfo) /\ Len(states) \in Nat \ {0} /\ MaxStates \in Nat
  BY Current, HistoryAssumption DEF TypeOK
<1>2. /\ states' \in Seq(StateInfo) /\ Len(states') = Len(states) + 1
      /\ \A i \in 1 .. Len(states) : states'[i] = states[i]
      /\ states'[Len(states) + 1] = x
  BY <1>1, AppendProperties
<1> QED
  BY <1>1, <1>2

\* A state is popped.
LEMMA Popped ==
  ASSUME TypeOK, states' = Front(states), Len(states) > 1
  PROVE  /\ states' \in Seq(StateInfo) /\ Len(states') = Len(states) - 1
         /\ Len(states') \in 1 .. MaxStates
         /\ \A i \in 1 .. Len(states) - 1 : states'[i] = states[i]
<1>1. states \in Seq(StateInfo) /\ Len(states) \in Nat \ {0} /\ MaxStates \in Nat
  BY Current, HistoryAssumption DEF TypeOK
<1>2. states' = SubSeq(states, 1, Len(states) - 1)
  BY DEF Front
<1>3. /\ states' \in Seq(StateInfo) /\ Len(states') = Len(states) - 1
      /\ \A i \in 1 .. Len(states) - 1 : states'[i] = states[i]
  BY <1>1, <1>2, SubSeqProperties
<1> QED
  BY <1>1, <1>3 DEF TypeOK

-----------------------------------------------------------------------------
(***************************************************************************)
(* Counting along the chain.                                               *)
(***************************************************************************)

\* One more element to look at counts for one at most.
LEMMA CountNext ==
  ASSUME NEW n \in Nat, NEW S
  PROVE  /\ Cardinality(S \cap (1 .. n)) \in Nat
         /\ Cardinality(S \cap (1 .. n)) \in 0 .. n
         /\ Cardinality(S \cap (1 .. n + 1)) =
              Cardinality(S \cap (1 .. n)) + IF n + 1 \in S THEN 1 ELSE 0
<1> DEFINE A == S \cap (1 .. n)
<1>1. IsFiniteSet(1 .. n) /\ Cardinality(1 .. n) = n
  BY FS_Interval
<1>2. IsFiniteSet(A) /\ Cardinality(A) \in Nat /\ Cardinality(A) <= n
  BY <1>1, FS_Subset, FS_CardinalityType
<1>3. CASE n + 1 \in S
  <2>1. S \cap (1 .. n + 1) = A \cup {n + 1} /\ n + 1 \notin A
    BY <1>3
  <2>2. Cardinality(A \cup {n + 1}) = Cardinality(A) + 1
    BY <1>2, <2>1, FS_AddElement
  <2> QED
    BY <1>2, <1>3, <2>1, <2>2
<1>4. CASE n + 1 \notin S
  <2>1. S \cap (1 .. n + 1) = A
    BY <1>4
  <2> QED
    BY <1>2, <1>4, <2>1
<1> QED
  BY <1>3, <1>4

\* A slot is visited no more often than there are states before the current one.
LEMMA VisitsBound ==
  ASSUME TypeOK, NEW s \in Slots
  PROVE  Visits(s) \in 0 .. Len(states) - 1
<1> DEFINE S == {i \in 1 .. Len(states) - 1 : Slot[states[i].key] = s}
<1>1. Len(states) - 1 \in Nat
  BY Current
<1>2. S = S \cap (1 .. Len(states) - 1)
  OBVIOUS
<1> QED
  BY <1>1, <1>2, CountNext DEF Visits

\* The current state joins the visited ones when another is pushed.
LEMMA VisitsPushed ==
  ASSUME TypeOK, NEW x \in StateInfo, states' = Append(states, x), Len(states) < MaxStates,
         NEW s \in Slots
  PROVE  Visits(s)' = Visits(s) + IF Slot[st.key] = s THEN 1 ELSE 0
<1> DEFINE n == Len(states) - 1
           S == {i \in 1 .. Len(states) : Slot[states[i].key] = s}
<1>1. n \in Nat /\ Len(states) = n + 1 /\ st = states[n + 1]
  BY Current
<1>2. {i \in 1 .. n : Slot[states[i].key] = s} = S \cap (1 .. n)
  BY <1>1
<1>3. {i \in 1 .. Len(states') - 1 : Slot[states'[i].key] = s} = S \cap (1 .. n + 1)
  BY <1>1, Pushed
<1>4. n + 1 \in S <=> Slot[st.key] = s
  BY <1>1
<1>5. /\ Cardinality(S \cap (1 .. n)) \in Nat
      /\ Cardinality(S \cap (1 .. n + 1)) =
           Cardinality(S \cap (1 .. n)) + IF n + 1 \in S THEN 1 ELSE 0
  <2>1. n \in Nat
    BY <1>1
  <2> HIDE DEF S, n
  <2> QED
    BY <2>1, CountNext, Zenon
<1>6. Visits(s) = Cardinality(S \cap (1 .. n))
  BY <1>2 DEF Visits
<1>7. Visits(s)' = Cardinality(S \cap (1 .. n + 1))
  BY <1>3 DEF Visits
<1> HIDE DEF S, n
<1> QED
  BY <1>4, <1>5, <1>6, <1>7

\* The state that becomes the current one leaves them when one is popped.
LEMMA VisitsPopped ==
  ASSUME TypeOK, states' = Front(states), Len(states) > 1, NEW s \in Slots
  PROVE  /\ Visits(s)' \in Nat
         /\ Visits(s) = Visits(s)' + IF Slot[Back(1).key] = s THEN 1 ELSE 0
<1> DEFINE n == Len(states) - 2
           S == {i \in 1 .. Len(states) - 1 : Slot[states[i].key] = s}
<1>1. n \in Nat /\ Len(states) = n + 2 /\ Back(1) = states[n + 1]
  BY Current DEF Back
<1>2. {i \in 1 .. Len(states) - 1 : Slot[states[i].key] = s} = S \cap (1 .. n + 1)
  BY <1>1
<1>3. {i \in 1 .. Len(states') - 1 : Slot[states'[i].key] = s} = S \cap (1 .. n)
  BY <1>1, Popped
<1>4. n + 1 \in S <=> Slot[Back(1).key] = s
  BY <1>1
<1>5. /\ Cardinality(S \cap (1 .. n)) \in Nat
      /\ Cardinality(S \cap (1 .. n + 1)) =
           Cardinality(S \cap (1 .. n)) + IF n + 1 \in S THEN 1 ELSE 0
  <2>1. n \in Nat
    BY <1>1
  <2> HIDE DEF S, n
  <2> QED
    BY <2>1, CountNext, Zenon
<1>6. Visits(s) = Cardinality(S \cap (1 .. n + 1))
  BY <1>2 DEF Visits
<1>7. Visits(s)' = Cardinality(S \cap (1 .. n))
  BY <1>3 DEF Visits
<1> HIDE DEF S, n
<1> QED
  BY <1>4, <1>5, <1>6, <1>7

\* The moves made, when a state is pushed.
LEMMA MadePushed ==
  ASSUME TypeOK, NEW x \in StateInfo, states' = Append(states, x), Len(states) < MaxStates
  PROVE  /\ Made \in Nat
         /\ Made' = Made + IF x.by \in {"quiet", "capture"} THEN 1 ELSE 0
<1> DEFINE n == Len(states)
           S == {i \in 1 .. n + 1 : states'[i].by \in {"quiet", "capture"}}
<1>1. n \in Nat
  BY Current
<1>2. {i \in 1 .. n : states[i].by \in {"quiet", "capture"}} = S \cap (1 .. n)
  BY <1>1, Pushed
<1>3. {i \in 1 .. Len(states') : states'[i].by \in {"quiet", "capture"}} = S \cap (1 .. n + 1)
  BY <1>1, Pushed
<1>4. n + 1 \in S <=> x.by \in {"quiet", "capture"}
  BY <1>1, Pushed
<1>5. /\ Cardinality(S \cap (1 .. n)) \in Nat
      /\ Cardinality(S \cap (1 .. n + 1)) =
           Cardinality(S \cap (1 .. n)) + IF n + 1 \in S THEN 1 ELSE 0
  <2>1. n \in Nat
    BY <1>1
  <2> HIDE DEF S, n
  <2> QED
    BY <2>1, CountNext, Zenon
<1>6. Made = Cardinality(S \cap (1 .. n))
  BY <1>2 DEF Made
<1>7. Made' = Cardinality(S \cap (1 .. n + 1))
  BY <1>3 DEF Made
<1> HIDE DEF S, n
<1> QED
  BY <1>4, <1>5, <1>6, <1>7

\* The moves made, when the current state is popped.
LEMMA MadePopped ==
  ASSUME TypeOK, states' = Front(states), Len(states) > 1
  PROVE  /\ Made' \in Nat
         /\ Made = Made' + IF st.by \in {"quiet", "capture"} THEN 1 ELSE 0
<1> DEFINE n == Len(states) - 1
           S == {i \in 1 .. Len(states) : states[i].by \in {"quiet", "capture"}}
<1>1. n \in Nat /\ Len(states) = n + 1 /\ st = states[n + 1]
  BY Current
<1>2. {i \in 1 .. Len(states) : states[i].by \in {"quiet", "capture"}} = S \cap (1 .. n + 1)
  BY <1>1
<1>3. {i \in 1 .. Len(states') : states'[i].by \in {"quiet", "capture"}} = S \cap (1 .. n)
  BY <1>1, Popped
<1>4. n + 1 \in S <=> st.by \in {"quiet", "capture"}
  BY <1>1
<1>5. /\ Cardinality(S \cap (1 .. n)) \in Nat
      /\ Cardinality(S \cap (1 .. n + 1)) =
           Cardinality(S \cap (1 .. n)) + IF n + 1 \in S THEN 1 ELSE 0
  <2>1. n \in Nat
    BY <1>1
  <2> HIDE DEF S, n
  <2> QED
    BY <2>1, CountNext, Zenon
<1>6. Made = Cardinality(S \cap (1 .. n + 1))
  BY <1>2 DEF Made
<1>7. Made' = Cardinality(S \cap (1 .. n))
  BY <1>3 DEF Made
<1> HIDE DEF S, n
<1> QED
  BY <1>4, <1>5, <1>6, <1>7

-----------------------------------------------------------------------------
(***************************************************************************)
(* The window.                                                             *)
(***************************************************************************)

\* The fields of a state that the window is computed from.
LEMMA WindowFacts ==
  ASSUME NEW x \in StateInfo
  PROVE  /\ x.rule60 \in Nat /\ x.pliesFromNull \in Nat
         /\ x.check10["white"] \in Nat /\ x.check10["black"] \in Nat
         /\ Plies(x) \in Nat /\ WindowOf(x) \in Nat
<1>1. x.rule60 \in Nat /\ x.pliesFromNull \in Nat /\ x.check10 \in [Color -> Nat]
  BY DEF StateInfo
<1>2. x.check10["white"] \in Nat /\ x.check10["black"] \in Nat
  BY <1>1 DEF Color
<1>3. CheckLimit \in Nat
  BY HistoryAssumption
<1>4. Plies(x) \in Nat
  BY <1>1, <1>2, <1>3 DEF Plies, Positive
<1> QED
  BY <1>1, <1>2, <1>4 DEF WindowOf

\* Whichever counter a quiet move goes to, the clock or the checks of a side, it adds one ply
\* to the window: checks are counted off the clock only once they are beyond the limit.
LEMMA OnePlyCounted ==
  ASSUME TypeOK, NEW us \in Color, NEW gives \in BOOLEAN
  PROVE  /\ NewCounters(us, gives).check10 \in [Color -> Nat]
         /\ NewCounters(us, gives).rule60 \in Nat
         /\ Plies(NewCounters(us, gives)) = Plies(st) + 1
<1> DEFINE them == Other(us)
           checked == IF gives THEN [st.check10 EXCEPT ![us] = @ + 1] ELSE st.check10
           within == gives => checked[us] <= CheckLimit
           answers == st.checkers /\ checked[them] > CheckLimit
           c10 == IF within /\ answers THEN [checked EXCEPT ![them] = @ + 1] ELSE checked
           r60 == IF within /\ ~answers THEN st.rule60 + 1 ELSE st.rule60
           Over(n) == Positive(n - CheckLimit)
<1>1. /\ st.check10 \in [Color -> Nat] /\ st.rule60 \in Nat
      /\ st.checkers \in BOOLEAN /\ CheckLimit \in Nat
  BY Current, HistoryAssumption DEF StateInfo
<1>2. them \in Color /\ Color = {us, them} /\ us # them
  BY DEF Other, Color
<1>3. checked \in [Color -> Nat] /\ c10 \in [Color -> Nat] /\ r60 \in Nat
  BY <1>1, <1>2
<1>4. \A n \in Nat : /\ Over(n) \in Nat
                     /\ n > CheckLimit => Over(n) = n - CheckLimit
                     /\ n <= CheckLimit => Over(n) = 0
  BY <1>1 DEF Positive
<1>5. r60 + Over(c10[us]) + Over(c10[them])
        = st.rule60 + Over(st.check10[us]) + Over(st.check10[them]) + 1
  <2> DEFINE a == st.check10[us]
             b == st.check10[them]
  <2>1. a \in Nat /\ b \in Nat
    BY <1>1, <1>2
  <2>2. checked[us] = (IF gives THEN a + 1 ELSE a) /\ checked[them] = b
    BY <1>1, <1>2
  <2>3. /\ c10[us] = checked[us]
        /\ c10[them] = IF within /\ answers THEN b + 1 ELSE b
    BY <1>2, <1>3, <2>2
  <2> SUFFICES r60 + Over(c10[us]) + Over(c10[them]) = st.rule60 + Over(a) + Over(b) + 1
    OBVIOUS
  <2> HIDE DEF a, b, c10, checked, Over, them
  <2>4. Over(a) \in Nat /\ Over(b) \in Nat
    BY <1>4, <2>1
  <2>5. CASE gives /\ a + 1 > CheckLimit
    <3>1. Over(a + 1) = Over(a) + 1
      <4>1. Over(a + 1) = a + 1 - CheckLimit
        BY <1>1, <1>4, <2>1, <2>5
      <4>2. Over(a) = a - CheckLimit
        BY <1>1, <1>4, <2>1, <2>5
      <4> QED
        BY <1>1, <2>1, <4>1, <4>2
    <3>2. ~within /\ c10[us] = a + 1 /\ c10[them] = b /\ r60 = st.rule60
      BY <1>1, <2>1, <2>2, <2>3, <2>5
    <3> QED
      BY <1>1, <2>4, <3>1, <3>2
  <2>6. CASE ~(gives /\ a + 1 > CheckLimit)
    <3>1. within /\ Over(checked[us]) = Over(a)
      BY <1>1, <1>4, <2>1, <2>2, <2>6
    <3>2. CASE answers
      <4>1. Over(b + 1) = Over(b) + 1
        <5>1. b > CheckLimit
          BY <2>2, <3>2
        <5>2. Over(b + 1) = b + 1 - CheckLimit
          BY <1>1, <1>4, <2>1, <5>1
        <5>3. Over(b) = b - CheckLimit
          BY <1>4, <2>1, <5>1
        <5> QED
          BY <1>1, <2>1, <5>2, <5>3
      <4>2. c10[them] = b + 1 /\ r60 = st.rule60
        BY <2>3, <3>1, <3>2
      <4> QED
        BY <1>1, <2>3, <2>4, <3>1, <4>1, <4>2
    <3>3. CASE ~answers
      <4>1. c10[them] = b /\ r60 = st.rule60 + 1
        BY <2>3, <3>1, <3>3
      <4> QED
        BY <1>1, <2>3, <2>4, <3>1, <4>1
    <3> QED
      BY <3>2, <3>3
  <2> QED
    BY <2>5, <2>6
<1>6. NewCounters(us, gives) = [check10 |-> c10, rule60 |-> r60]
  BY DEF NewCounters
<1> HIDE DEF c10, r60, checked
<1>7. /\ Plies(NewCounters(us, gives)) = r60 + Over(c10["white"]) + Over(c10["black"])
      /\ Plies(st) = st.rule60 + Over(st.check10["white"]) + Over(st.check10["black"])
  BY <1>6 DEF Plies
<1>8. /\ Over(c10["white"]) \in Nat /\ Over(c10["black"]) \in Nat
      /\ Over(st.check10["white"]) \in Nat /\ Over(st.check10["black"]) \in Nat
  BY <1>1, <1>3, <1>4 DEF Color
<1>9. (us = "white" /\ them = "black") \/ (us = "black" /\ them = "white")
  BY DEF Other, Color
<1> HIDE DEF Over, them
<1>10. Plies(NewCounters(us, gives)) = Plies(st) + 1
  BY <1>1, <1>3, <1>5, <1>7, <1>8, <1>9
<1> QED
  BY <1>3, <1>6, <1>10

\* A run is one state longer after a quiet move, and a new one otherwise.
LEMMA RunsPushed ==
  ASSUME TypeOK, Runs, NEW x \in StateInfo, states' = Append(states, x),
         Len(states) < MaxStates,
         WindowOf(x) = IF x.by = "quiet" THEN WindowOf(st) + 1 ELSE 0
  PROVE  Runs'
<1> DEFINE n == Len(states)
<1>1. n \in Nat \ {0} /\ st = states[n] /\ st \in StateInfo
      /\ \A i \in 1 .. n : states[i] \in StateInfo
  BY Current
<1>2. /\ Len(states') = n + 1 /\ states'[n + 1] = x
      /\ \A i \in 1 .. n : states'[i] = states[i]
  BY Pushed
<1> SUFFICES ASSUME NEW i \in 1 .. n + 1 PROVE RunAt(i)'
  BY <1>1, <1>2 DEF Runs
<1> HIDE DEF n
<1> DEFINE Run(s, w) == /\ w <= i - 1
                        /\ \A j \in i - w + 1 .. i : s[j].by = "quiet"
                        /\ s[i - w].by # "quiet"
<1>3. RunAt(i)' <=> Run(states', WindowOf(states'[i]))
  BY DEF RunAt, WindowOf, Plies
<1>4. CASE i \in 1 .. n
  <2>1. states'[i] = states[i] /\ WindowOf(states[i]) \in Nat
    BY <1>1, <1>2, <1>4, WindowFacts
  <2>2. Run(states, WindowOf(states[i]))
    BY <1>4 DEF Runs, RunAt, n
  <2> QED
    BY <1>1, <1>2, <1>3, <1>4, <2>1, <2>2
<1>5. CASE i = n + 1 /\ x.by # "quiet"
  <2>1. WindowOf(states'[i]) = 0
    BY <1>2, <1>5
  <2> QED
    BY <1>1, <1>2, <1>3, <1>5, <2>1
<1>6. CASE i = n + 1 /\ x.by = "quiet"
  <2> DEFINE w == WindowOf(st)
  <2>1. w \in Nat /\ WindowOf(states'[i]) = w + 1
    BY <1>1, <1>2, <1>6, WindowFacts
  <2>2. /\ w <= n - 1
        /\ \A j \in n - w + 1 .. n : states[j].by = "quiet"
        /\ states[n - w].by # "quiet"
    BY <1>1 DEF Runs, RunAt, n
  <2> HIDE DEF w
  <2>3. i - (w + 1) = n - w /\ w + 1 <= i - 1 /\ n - w \in 1 .. n
    BY <1>1, <1>6, <2>1, <2>2
  <2>4. states'[i - (w + 1)].by # "quiet"
    BY <1>2, <2>2, <2>3
  <2>5. ASSUME NEW j \in i - (w + 1) + 1 .. i
        PROVE  states'[j].by = "quiet"
    <3>1. w <= n - 1
      BY <2>2
    <3>2. j = n + 1 \/ (j \in n - w + 1 .. n /\ j \in 1 .. n)
      BY <1>1, <1>6, <2>1, <3>1
    <3> QED
      BY <1>2, <1>6, <2>2, <3>2
  <2> QED
    BY <1>3, <2>1, <2>3, <2>4, <2>5
<1> QED
  BY <1>1, <1>4, <1>5, <1>6

\* The runs that end before the current state do not depend on it.
LEMMA RunsPopped ==
  ASSUME TypeOK, Runs, states' = Front(states), Len(states) > 1
  PROVE  Runs'
<1> DEFINE n == Len(states) - 1
<1>1. n \in Nat \ {0} /\ Len(states) = n + 1 /\ \A i \in 1 .. n : states[i] \in StateInfo
  BY Current
<1>2. Len(states') = n /\ \A i \in 1 .. n : states'[i] = states[i]
  BY Popped
<1> SUFFICES ASSUME NEW i \in 1 .. n PROVE RunAt(i)'
  BY <1>2 DEF Runs
<1> HIDE DEF n
<1>3. states'[i] = states[i] /\ WindowOf(states[i]) \in Nat
  BY <1>1, <1>2, WindowFacts
<1>4. RunAt(i)
  BY <1>1 DEF Runs
<1> DEFINE w == WindowOf(states[i])
<1>5. /\ w <= i - 1
      /\ \A j \in i - w + 1 .. i : states[j].by = "quiet"
      /\ states[i - w].by # "quiet"
  BY <1>4 DEF RunAt
<1>6. RunAt(i)' <=> /\ w <= i - 1
                    /\ \A j \in i - w + 1 .. i : states'[j].by = "quiet"
                    /\ states'[i - w].by # "quiet"
  BY <1>3 DEF RunAt, WindowOf, Plies
<1> HIDE DEF w
<1>7. w \in Nat
  BY <1>3 DEF w
<1> QED
  BY <1>1, <1>2, <1>5, <1>6, <1>7

-----------------------------------------------------------------------------
(***************************************************************************)
(* The table.                                                              *)
(***************************************************************************)

\* Below its limit a counter of the table does not wrap round.
LEMMA NoWrap ==
  ASSUME NEW n \in Nat, n < Wrap
  PROVE  n % Wrap = n /\ n \in 0 .. Wrap - 1
  BY HistoryAssumption, SMT

\* Pushing a state counts the one it leaves.
LEMMA BumpPushed ==
  ASSUME TypeOK, Counted, NEW x \in StateInfo, states' = Append(states, x),
         Len(states) < MaxStates, filter' = Bump(st.key, 1)
  PROVE  filter' \in [Slots -> 0 .. Wrap - 1] /\ Counted'
<1> SUFFICES ASSUME NEW s \in Slots
             PROVE  filter'[s] = Visits(s)' /\ filter'[s] \in 0 .. Wrap - 1
  <2>1. filter' = [filter EXCEPT ![Slot[st.key]] = (filter[Slot[st.key]] + 1) % Wrap]
    BY DEF Bump
  <2>2. DOMAIN filter' = Slots /\ filter' = [s \in Slots |-> filter'[s]]
    BY <2>1 DEF TypeOK
  <2> QED
    BY <2>2 DEF Counted, Slots
<1>1. st \in StateInfo /\ Slot[st.key] \in Slots /\ Len(states) \in Nat \ {0}
  BY Current, KeyFacts
<1>2. filter[s] = Visits(s) /\ Visits(s) \in 0 .. Len(states) - 1
  BY VisitsBound DEF Counted
<1>3. Visits(s)' = Visits(s) + IF Slot[st.key] = s THEN 1 ELSE 0
  BY VisitsPushed
<1>4. filter'[s] = IF s = Slot[st.key] THEN (filter[s] + 1) % Wrap ELSE filter[s]
  BY DEF TypeOK, Bump
<1>5. Visits(s)' \in Nat /\ Visits(s)' < Wrap
  BY <1>1, <1>2, <1>3, HistoryAssumption
<1>6. Visits(s)' % Wrap = Visits(s)' /\ Visits(s)' \in 0 .. Wrap - 1
  BY <1>5, NoWrap, Zenon
<1> QED
  BY <1>2, <1>3, <1>4, <1>6

\* Popping one takes that back.
LEMMA BumpPopped ==
  ASSUME TypeOK, Counted, states' = Front(states), Len(states) > 1,
         filter' = Bump(Back(1).key, -1)
  PROVE  filter' \in [Slots -> 0 .. Wrap - 1] /\ Counted'
<1> SUFFICES ASSUME NEW s \in Slots
             PROVE  filter'[s] = Visits(s)' /\ filter'[s] \in 0 .. Wrap - 1
  <2>1. DOMAIN filter' = Slots /\ filter' = [s \in Slots |-> filter'[s]]
    BY DEF TypeOK, Bump
  <2> QED
    BY <2>1 DEF Counted, Slots
<1>1. Back(1) = states[Len(states) - 1] /\ Back(1) \in StateInfo /\ Slot[Back(1).key] \in Slots
  <2>1. Len(states) - 1 \in 1 .. Len(states)
    BY Current
  <2>2. Back(1) = states[Len(states) - 1] /\ Back(1) \in StateInfo
    BY <2>1, Current DEF Back
  <2> QED
    BY <2>2, KeyFacts
<1>2. filter[s] = Visits(s) /\ Visits(s) \in 0 .. Len(states) - 1
  BY VisitsBound DEF Counted
<1>3. /\ Visits(s)' \in Nat
      /\ Visits(s) = Visits(s)' + IF Slot[Back(1).key] = s THEN 1 ELSE 0
  BY VisitsPopped
<1>4. filter'[s] = IF s = Slot[Back(1).key] THEN (filter[s] + (-1)) % Wrap ELSE filter[s]
  BY DEF TypeOK, Bump
<1>5. Len(states) \in Nat /\ Len(states) <= MaxStates
  BY Current DEF TypeOK
<1>6. Visits(s)' < Wrap
  BY <1>2, <1>3, <1>5, HistoryAssumption
<1>7. Visits(s)' % Wrap = Visits(s)' /\ Visits(s)' \in 0 .. Wrap - 1
  BY <1>3, <1>6, NoWrap, Zenon
<1>8. CASE s = Slot[Back(1).key]
  <2>1. filter[s] + (-1) = Visits(s)'
    BY <1>2, <1>3, <1>8
  <2> QED
    BY <1>4, <1>7, <1>8, <2>1
<1>9. CASE s # Slot[Back(1).key]
  BY <1>2, <1>3, <1>4, <1>7, <1>9
<1> QED
  BY <1>8, <1>9

-----------------------------------------------------------------------------
(***************************************************************************)
(* The invariant.                                                          *)
(***************************************************************************)

\* A position that has been set up has visited nothing and made no move.
LEMMA InitIInv == Init => IInv
<1> SUFFICES ASSUME Init PROVE IInv
  OBVIOUS
<1>1. PICK f \in Start :
        /\ states = << [key |-> <<f[1], f[2]>>, checkers |-> <<f[1], f[2]>> \in InCheck,
                        check10 |-> [d \in Color |-> 0], rule60 |-> f[3],
                        pliesFromNull |-> 0, by |-> "set"] >>
        /\ gamePly = IF f[2] = "black" THEN 1 ELSE 0
  BY DEF Init
<1> DEFINE x == [key |-> <<f[1], f[2]>>, checkers |-> <<f[1], f[2]>> \in InCheck,
                 check10 |-> [d \in Color |-> 0], rule60 |-> f[3],
                 pliesFromNull |-> 0, by |-> "set"]
<1>2. x \in StateInfo
  <2>1. f \in Board \X Color \X (0 .. Rule60 - 1)
    BY HistoryAssumption
  <2>2. f[1] \in Board /\ f[2] \in Color /\ f[3] \in Nat
    BY <2>1, HistoryAssumption
  <2>3. <<f[1], f[2]>> \in Key
    BY <2>2 DEF Key
  <2> QED
    BY <2>2, <2>3 DEF StateInfo
<1>3. x.by = "set" /\ x.pliesFromNull = 0
  OBVIOUS
<1>4. states = <<x>>
  BY <1>1
<1> HIDE DEF x
<1>5. states \in Seq(StateInfo) /\ Len(states) = 1 /\ states[1] = x
  BY <1>2, <1>4
<1>6. TypeOK
  <2>1. filter \in [Slots -> 0 .. Wrap - 1]
    BY HistoryAssumption DEF Init
  <2>2. gamePly \in Nat
    BY <1>1
  <2>3. root = 0 /\ MaxStates \in Nat \ {0}
    BY HistoryAssumption DEF Init
  <2> QED
    BY <1>5, <2>1, <2>2, <2>3 DEF TypeOK
<1>7. PlyCountsMoves
  <2>1. {i \in 1 .. Len(states) : states[i].by \in {"quiet", "capture"}} = {}
    BY <1>3, <1>5
  <2>2. Made = 0
    BY <2>1, FS_EmptySet, Zenon DEF Made
  <2>3. gamePly \in Nat
    BY <1>6 DEF TypeOK
  <2> QED
    BY <2>2, <2>3 DEF PlyCountsMoves
<1>8. Counted
  <2> SUFFICES ASSUME NEW s \in Slots PROVE filter[s] = Visits(s)
    BY DEF Counted
  <2>1. {i \in 1 .. Len(states) - 1 : Slot[states[i].key] = s} = {}
    BY <1>5
  <2> QED
    BY <2>1, FS_EmptySet DEF Visits, Init
<1>9. Runs
  <2>1. WindowOf(x) = 0
    BY <1>2, <1>3, WindowFacts DEF WindowOf
  <2> QED
    BY <1>3, <1>5, <2>1 DEF Runs, RunAt
<1> QED
  BY <1>6, <1>7, <1>8, <1>9 DEF IInv

\* What do_move() and do_null_move() have in common.
LEMMA PushKeeps ==
  ASSUME IInv, NEW x \in StateInfo, states' = Append(states, x), Len(states) < MaxStates,
         filter' = Bump(st.key, 1), root' = root,
         gamePly' = gamePly + IF x.by \in {"quiet", "capture"} THEN 1 ELSE 0,
         WindowOf(x) = IF x.by = "quiet" THEN WindowOf(st) + 1 ELSE 0
  PROVE  IInv'
<1>1. TypeOK /\ PlyCountsMoves /\ Counted /\ Runs
  BY DEF IInv
<1>2. filter' \in [Slots -> 0 .. Wrap - 1] /\ Counted'
  BY <1>1, BumpPushed
<1>3. TypeOK'
  <2>1. /\ states' \in Seq(StateInfo) /\ Len(states') \in 1 .. MaxStates
        /\ Len(states') = Len(states) + 1
    BY <1>1, Pushed
  <2>2. gamePly' \in Nat /\ root' \in 0 .. Len(states')
    BY <1>1, <2>1, Current DEF TypeOK
  <2> QED
    BY <1>2, <2>1, <2>2 DEF TypeOK
<1>4. PlyCountsMoves'
  BY <1>1, MadePushed DEF PlyCountsMoves, TypeOK
<1>5. Runs'
  BY <1>1, RunsPushed
<1> QED
  BY <1>2, <1>3, <1>4, <1>5 DEF IInv

\* What undo_move() and undo_null_move() have in common.
LEMMA PopKeeps ==
  ASSUME IInv, states' = Front(states), root > 0, Len(states) > root,
         filter' = Bump(Back(1).key, -1), root' = root,
         gamePly' = gamePly - IF st.by \in {"quiet", "capture"} THEN 1 ELSE 0
  PROVE  IInv'
<1>1. TypeOK /\ PlyCountsMoves /\ Counted /\ Runs
  BY DEF IInv
<1>2. Len(states) > 1 /\ root \in Nat /\ gamePly \in Nat
  BY <1>1, Current DEF TypeOK
<1>3. filter' \in [Slots -> 0 .. Wrap - 1] /\ Counted'
  BY <1>1, <1>2, BumpPopped
<1>4. Made' \in Nat /\ Made' <= gamePly' /\ gamePly' \in Nat
  BY <1>1, <1>2, MadePopped DEF PlyCountsMoves
<1>5. TypeOK'
  <2>1. /\ states' \in Seq(StateInfo) /\ Len(states') \in 1 .. MaxStates
        /\ Len(states') = Len(states) - 1
    BY <1>1, <1>2, Popped
  <2>2. root' \in 0 .. Len(states')
    BY <1>1, <1>2, <2>1, Current DEF TypeOK
  <2> QED
    BY <1>3, <1>4, <2>1, <2>2 DEF TypeOK
<1>6. PlyCountsMoves'
  BY <1>4 DEF PlyCountsMoves
<1>7. Runs'
  BY <1>1, <1>2, RunsPopped
<1> QED
  BY <1>3, <1>5, <1>6, <1>7 DEF IInv

\* The state that do_move() pushes, and the counters it carries.
LEMMA DoMoveKeeps ==
  ASSUME IInv, NEW b \in Board, NEW by \in {"quiet", "capture"}, DoMove(b, by)
  PROVE  IInv'
<1> DEFINE us == st.key[2]
           key == <<b, Other(us)>>
           gives == key \in InCheck
           c == IF by = "capture" THEN NoCounters ELSE NewCounters(us, gives)
           x == [key |-> key, checkers |-> gives, check10 |-> c.check10, rule60 |-> c.rule60,
                 pliesFromNull |-> st.pliesFromNull + 1, by |-> by]
<1>1. TypeOK
  BY DEF IInv
<1>2. st \in StateInfo /\ us \in Color /\ key \in Key /\ gives \in BOOLEAN
  <2>1. st \in StateInfo
    BY <1>1, Current
  <2> QED
    BY <2>1, KeyFacts
<1>3. /\ c.check10 \in [Color -> Nat] /\ c.rule60 \in Nat
      /\ Plies(c) = IF by = "capture" THEN 0 ELSE Plies(st) + 1
  <2>1. CASE by = "capture"
    <3>1. c = [check10 |-> [d \in Color |-> 0], rule60 |-> 0]
      BY <2>1 DEF NoCounters
    <3>2. c.check10["white"] = 0 /\ c.check10["black"] = 0 /\ c.rule60 = 0
          /\ c.check10 \in [Color -> Nat]
      BY <3>1 DEF Color
    <3> HIDE DEF c
    <3>3. Plies(c) = 0
      BY <3>2, HistoryAssumption DEF Plies, Positive
    <3> QED
      BY <2>1, <3>2, <3>3
  <2>2. CASE by # "capture"
    BY <1>1, <1>2, <2>2, OnePlyCounted
  <2> QED
    BY <2>1, <2>2
<1> HIDE DEF c
<1>4. /\ Plies(st) \in Nat /\ st.pliesFromNull \in Nat
  BY <1>2, WindowFacts
<1>5. x \in StateInfo /\ x.by = by
  BY <1>2, <1>3, <1>4 DEF StateInfo
<1>6. Plies(x) = Plies(c) /\ x.pliesFromNull = st.pliesFromNull + 1
  BY DEF Plies
<1>7. WindowOf(x) = IF x.by = "quiet" THEN WindowOf(st) + 1 ELSE 0
  BY <1>3, <1>4, <1>5, <1>6 DEF WindowOf
<1>8. states' = Append(states, x)
  BY DEF DoMove, Push, c
<1>9. /\ Len(states) < MaxStates /\ filter' = Bump(st.key, 1)
      /\ gamePly' = gamePly + 1 /\ root' = root
  BY DEF DoMove
<1> HIDE DEF x
<1>10. gamePly' = gamePly + IF x.by \in {"quiet", "capture"} THEN 1 ELSE 0
  BY <1>5, <1>9
<1> QED
  BY <1>5, <1>7, <1>8, <1>9, <1>10, PushKeeps

\* A null move closes the window and leaves the counters alone.
LEMMA DoNullMoveKeeps ==
  ASSUME IInv, DoNullMove
  PROVE  IInv'
<1> DEFINE x == [key |-> <<st.key[1], Other(st.key[2])>>, checkers |-> st.checkers,
                 check10 |-> st.check10, rule60 |-> st.rule60,
                 pliesFromNull |-> 0, by |-> "null"]
<1>1. st \in StateInfo
  BY Current DEF IInv
<1>2. <<st.key[1], Other(st.key[2])>> \in Key
  BY <1>1, KeyFacts
<1>3. x \in StateInfo /\ x.by = "null" /\ x.pliesFromNull = 0
  BY <1>1, <1>2 DEF StateInfo
<1>4. states' = Append(states, x)
  BY DEF DoNullMove, Push
<1>5. /\ Len(states) < MaxStates /\ filter' = Bump(st.key, 1)
      /\ gamePly' = gamePly /\ root' = root
  BY DEF DoNullMove
<1> HIDE DEF x
<1>6. WindowOf(x) = 0
  BY <1>3, WindowFacts DEF WindowOf
<1>7. gamePly' = gamePly + IF x.by \in {"quiet", "capture"} THEN 1 ELSE 0
  BY <1>3, <1>5 DEF IInv, TypeOK
<1> QED
  BY <1>3, <1>4, <1>5, <1>6, <1>7, PushKeeps

\* Every step keeps the invariant.
LEMMA NextIInv == IInv /\ [Next]_vars => IInv'
<1> SUFFICES ASSUME IInv, [Next]_vars PROVE IInv'
  OBVIOUS
<1>0. TypeOK /\ gamePly \in Nat
  BY DEF IInv, TypeOK
<1>1. ASSUME NEW b \in Board, NEW by \in {"quiet", "capture"}, DoMove(b, by)
      PROVE  IInv'
  BY <1>1, DoMoveKeeps
<1>2. CASE UndoMove
  <2>1. gamePly' = gamePly - IF st.by \in {"quiet", "capture"} THEN 1 ELSE 0
    BY <1>2 DEF UndoMove
  <2> QED
    BY <1>2, <2>1, PopKeeps DEF UndoMove
<1>3. CASE DoNullMove
  BY <1>3, DoNullMoveKeeps
<1>4. CASE UndoNullMove
  <2>1. gamePly' = gamePly - IF st.by \in {"quiet", "capture"} THEN 1 ELSE 0
    BY <1>0, <1>4 DEF UndoNullMove
  <2> QED
    BY <1>4, <2>1, PopKeeps DEF UndoNullMove
<1>5. CASE StartThinking
  <2>1. states' = states /\ filter' = filter /\ gamePly' = gamePly
    BY <1>5 DEF StartThinking
  <2>2. TypeOK'
    BY <1>0, <1>5, <2>1, Current DEF TypeOK, StartThinking
  <2> QED
    BY <2>1, <2>2 DEF IInv, PlyCountsMoves, Made, Counted, Visits, Runs, RunAt, WindowOf, Plies
<1>6. CASE UNCHANGED vars
  BY <1>6 DEF IInv, TypeOK, PlyCountsMoves, Made, Counted, Visits, Runs, RunAt, WindowOf,
              Plies, vars
<1> QED
  BY <1>1, <1>2, <1>3, <1>4, <1>5, <1>6 DEF Next

\* position.cpp do_move(), undo_move(), do_null_move() and undo_null_move(): whatever is
\* played and taken back, the table of the keys counts in every slot the states of the chain
\* before the current one, so filter[key] tells rule_judge() truly whether to look for a
\* repetition, and no counter wraps round in a chain of 256 states.
THEOREM TableCountsVisits == Spec => []FilterCountsVisits
<1>1. IInv => FilterCountsVisits
  BY DEF IInv, Counted, FilterCountsVisits
<1> QED
  BY <1>1, InitIInv, NextIInv, PTL DEF Spec

\* The longest run of quiet moves, as the property counts it, is that of the current state.
LEMMA RunIsWindow ==
  ASSUME IInv
  PROVE  Window = QuietRun
<1> DEFINE n == Len(states)
           w == WindowOf(st)
           S == {m \in 0 .. Len(states) - 1 : \A k \in 0 .. m - 1 : Back(k).by = "quiet"}
<1>1. n \in Nat \ {0} /\ st = states[n] /\ st \in StateInfo
  BY Current DEF IInv
<1>2. w \in Nat
  BY <1>1, WindowFacts
<1>3. /\ w <= n - 1
      /\ \A j \in n - w + 1 .. n : states[j].by = "quiet"
      /\ states[n - w].by # "quiet"
  BY <1>1 DEF IInv, Runs, RunAt
<1>4. Window = w
  BY DEF Window, WindowOf, Plies
<1> HIDE DEF w
<1>5. w \in S
  <2>1. ASSUME NEW k \in 0 .. w - 1 PROVE Back(k).by = "quiet"
    BY <1>1, <1>2, <1>3 DEF Back
  <2> QED
    BY <1>1, <1>2, <1>3, <2>1
<1>6. ASSUME NEW m \in S PROVE w >= m
  <2>1. m \in Nat /\ \A k \in 0 .. m - 1 : Back(k).by = "quiet"
    OBVIOUS
  <2>2. Back(w).by # "quiet"
    BY <1>1, <1>2, <1>3 DEF Back
  <2> QED
    BY <1>2, <2>1, <2>2
<1>7. S \subseteq Int
  BY <1>1
<1>8. QuietRun = Max(S)
  BY DEF QuietRun
<1> HIDE DEF S
<1>9. Max(S) = w
  <2>1. Max(S) \in S /\ \A m \in S : Max(S) >= m
    BY <1>5, <1>6 DEF Max
  <2>2. w >= Max(S) /\ Max(S) >= w
    BY <1>5, <1>6, <2>1
  <2>3. Max(S) \in Int
    BY <1>7, <2>1
  <2> QED
    BY <1>2, <2>2, <2>3
<1> QED
  BY <1>4, <1>8, <1>9

\* rule_judge() looks back over rule60 and the checks beyond the limits, but no further than
\* the last null move: exactly the quiet moves that led to the current state, with whatever
\* checks and answers among them.  It never compares across a capture, which no repetition can
\* reach over, and never stops short of one that counts.
THEOREM WindowReachesQuietRun == Spec => []WindowIsQuietRun
<1>1. IInv => WindowIsQuietRun
  BY RunIsWindow DEF WindowIsQuietRun
<1> QED
  BY <1>1, InitIInv, NextIInv, PTL DEF Spec

-----------------------------------------------------------------------------
(***************************************************************************)
(* The clock.                                                              *)
(***************************************************************************)

\* The rule's own count of the chain h, as it was when its m-th state was the current one: the
\* plies after the last capture, the checks of side c among those up to i, the plies that
\* the clock passes over, and those that it counts.
After(h, j, m) == \A l \in j .. m : h[l].by # "capture"
ChecksOf(h, c, i, m) ==
  {j \in 2 .. i : h[j].by = "quiet" /\ After(h, j, m) /\ h[j - 1].key[2] = c /\ h[j].checkers}
Passes(h, i, m) ==
  \/ h[i].checkers /\ Cardinality(ChecksOf(h, h[i - 1].key[2], i, m)) > CheckLimit
  \/ h[i - 1].checkers /\ Cardinality(ChecksOf(h, h[i].key[2], i - 1, m)) > CheckLimit
Timed(h, m) == {i \in 2 .. m : h[i].by = "quiet" /\ After(h, i, m) /\ ~Passes(h, i, m)}

\* check10 counts the checks of a side up to the limit.  Beyond it the answers are counted in
\* as well, and all that is true of it is that it is beyond.
CheckCount(n, count) == IF n <= CheckLimit THEN count = n ELSE count > CheckLimit

ClockAt(h, m) ==
  /\ h[m].rule60 = Cardinality(Timed(h, m)) + IF After(h, 1, m) THEN h[1].rule60 ELSE 0
  /\ \A c \in Color : CheckCount(Cardinality(ChecksOf(h, c, m, m)), h[m].check10[c])
Clocks == \A m \in 1 .. Len(states) : ClockAt(states, m)

\* Only what comes after a state decides whether it is after the last capture.
LEMMA AfterNext ==
  ASSUME NEW h, NEW m \in Nat
  PROVE  /\ \A j \in 1 .. m : After(h, j, m + 1) <=> After(h, j, m) /\ h[m + 1].by # "capture"
         /\ After(h, m + 1, m + 1) <=> h[m + 1].by # "capture"
<1>1. ASSUME NEW j \in 1 .. m
      PROVE  After(h, j, m + 1) <=> After(h, j, m) /\ h[m + 1].by # "capture"
  <2>1. j .. m + 1 = (j .. m) \cup {m + 1}
    OBVIOUS
  <2> QED BY <2>1 DEF After
<1>2. m + 1 .. m + 1 = {m + 1}
  OBVIOUS
<1> QED BY <1>1, <1>2 DEF After

\* The checks of a side are finitely many.
LEMMA ChecksCount ==
  ASSUME NEW h, NEW c, NEW i \in Nat, NEW m \in Nat
  PROVE  /\ IsFiniteSet(ChecksOf(h, c, i, m)) /\ Cardinality(ChecksOf(h, c, i, m)) \in Nat
         /\ i = 0 \/ i = 1 => ChecksOf(h, c, i, m) = {} /\ Cardinality(ChecksOf(h, c, i, m)) = 0
<1>1. IsFiniteSet(2 .. i) /\ ChecksOf(h, c, i, m) \subseteq 2 .. i
  BY FS_Interval DEF ChecksOf
<1>2. IsFiniteSet(ChecksOf(h, c, i, m)) /\ Cardinality(ChecksOf(h, c, i, m)) \in Nat
  BY <1>1, FS_Subset, FS_CardinalityType
<1>3. i = 0 \/ i = 1 => ChecksOf(h, c, i, m) = {}
  BY DEF ChecksOf
<1> QED BY <1>2, <1>3, FS_EmptySet

\* A chain has the clock of any other that begins with the same states.
LEMMA SameClock ==
  ASSUME NEW h, NEW g, NEW m \in Nat \ {0}, \A l \in 1 .. m : g[l] = h[l]
  PROVE  ClockAt(g, m) <=> ClockAt(h, m)
<1>1. \A j \in 1 .. m : After(g, j, m) <=> After(h, j, m)
  BY DEF After
<1>2. ASSUME NEW c, NEW i \in 1 .. m PROVE ChecksOf(g, c, i, m) = ChecksOf(h, c, i, m)
  <2>1. \A j \in 2 .. i : g[j] = h[j] /\ g[j - 1] = h[j - 1] /\ (After(g, j, m) <=> After(h, j, m))
    BY <1>1
  <2> QED BY <2>1 DEF ChecksOf
<1>3. ASSUME NEW i \in 2 .. m PROVE Passes(g, i, m) <=> Passes(h, i, m)
  <2>1. g[i] = h[i] /\ g[i - 1] = h[i - 1] /\ i \in 1 .. m /\ i - 1 \in 1 .. m
    OBVIOUS
  <2> QED BY <1>2, <2>1 DEF Passes
<1>4. Timed(g, m) = Timed(h, m)
  <2>1. \A i \in 2 .. m : g[i] = h[i] /\ (After(g, i, m) <=> After(h, i, m))
    BY <1>1
  <2> QED BY <1>3, <2>1 DEF Timed
<1>5. g[1] = h[1] /\ g[m] = h[m] /\ (After(g, 1, m) <=> After(h, 1, m))
  BY <1>1
<1> QED BY <1>2, <1>4, <1>5 DEF ClockAt

\* A quiet move or a null move does not touch the plies before it.
LEMMA EarlierPlies ==
  ASSUME NEW h, NEW m \in Nat \ {0}, h[m + 1].by # "capture"
  PROVE  /\ \A c, i : i \in 1 .. m => ChecksOf(h, c, i, m + 1) = ChecksOf(h, c, i, m)
         /\ \A i \in 2 .. m : Passes(h, i, m + 1) <=> Passes(h, i, m)
<1>1. \A j \in 1 .. m : After(h, j, m + 1) <=> After(h, j, m)
  BY AfterNext
<1>2. ASSUME NEW c, NEW i \in 1 .. m PROVE ChecksOf(h, c, i, m + 1) = ChecksOf(h, c, i, m)
  <2>1. \A j \in 2 .. i : After(h, j, m + 1) <=> After(h, j, m)
    BY <1>1
  <2> QED BY <2>1 DEF ChecksOf
<1>3. ASSUME NEW i \in 2 .. m PROVE Passes(h, i, m + 1) <=> Passes(h, i, m)
  <2>1. i \in 1 .. m /\ i - 1 \in 1 .. m
    OBVIOUS
  <2> QED BY <1>2, <2>1 DEF Passes
<1> QED BY <1>2, <1>3

\* How a move that is no capture adds to the checks of its side and to the plies counted.
LEMMA ChecksNext ==
  ASSUME NEW h, NEW m \in Nat \ {0}, h[m + 1].by # "capture", NEW c
  PROVE  Cardinality(ChecksOf(h, c, m + 1, m + 1)) =
           Cardinality(ChecksOf(h, c, m, m))
             + IF h[m + 1].by = "quiet" /\ h[m].key[2] = c /\ h[m + 1].checkers THEN 1 ELSE 0
<1> DEFINE old == ChecksOf(h, c, m, m)
           gives == h[m + 1].by = "quiet" /\ h[m].key[2] = c /\ h[m + 1].checkers
<1>1. ChecksOf(h, c, m, m + 1) = old /\ IsFiniteSet(old) /\ m + 1 \notin old /\ Cardinality(old) \in Nat
  <2>1. m + 1 \notin old
    BY DEF ChecksOf
  <2>2. m \in 1 .. m /\ m \in Nat
    OBVIOUS
  <2>3. ChecksOf(h, c, m, m + 1) = old
    BY <2>2, EarlierPlies
  <2>4. IsFiniteSet(old) /\ Cardinality(old) \in Nat
    BY <2>2, ChecksCount
  <2> QED BY <2>1, <2>3, <2>4
<1>2. ChecksOf(h, c, m + 1, m + 1) = IF gives THEN old \cup {m + 1} ELSE old
  <2>1. 2 .. m + 1 = (2 .. m) \cup {m + 1} /\ (m + 1) - 1 = m
    OBVIOUS
  <2>2. After(h, m + 1, m + 1)
    BY AfterNext
  <2>3. ASSUME NEW j PROVE j \in ChecksOf(h, c, m + 1, m + 1) <=> j \in ChecksOf(h, c, m, m + 1) \/ (j = m + 1 /\ gives)
    BY <2>1, <2>2 DEF ChecksOf
  <2>4. PICK new : new = ChecksOf(h, c, m + 1, m + 1)
    OBVIOUS
  <2> HIDE DEF gives, old
  <2>5. \A j : j \in new <=> j \in old \/ (j = m + 1 /\ gives)
    BY <1>1, <2>3, <2>4
  <2>6. new = IF gives THEN old \cup {m + 1} ELSE old
    <3>1. gives => new = old \cup {m + 1}
      BY <2>5
    <3>2. ~gives => new = old
      BY <2>5
    <3> QED BY <3>1, <3>2
  <2> QED BY <2>4, <2>6
<1> HIDE DEF old, gives
<1>3. Cardinality(old \cup {m + 1}) = Cardinality(old) + 1
  BY <1>1, FS_AddElement
<1> QED BY <1>1, <1>2, <1>3 DEF gives, old

LEMMA TimedNext ==
  ASSUME NEW h, NEW m \in Nat \ {0}, h[m + 1].by # "capture"
  PROVE  /\ Cardinality(Timed(h, m)) \in Nat
         /\ Cardinality(Timed(h, m + 1)) =
              Cardinality(Timed(h, m))
                + IF h[m + 1].by = "quiet" /\ ~Passes(h, m + 1, m + 1) THEN 1 ELSE 0
<1> DEFINE old == Timed(h, m)
           counts == h[m + 1].by = "quiet" /\ ~Passes(h, m + 1, m + 1)
<1>1. IsFiniteSet(old) /\ m + 1 \notin old /\ Cardinality(old) \in Nat
  <2>1. m + 1 \notin old /\ old \subseteq 2 .. m /\ IsFiniteSet(2 .. m)
    BY FS_Interval DEF Timed
  <2> QED BY <2>1, FS_Subset, FS_CardinalityType
<1>2. Timed(h, m + 1) = IF counts THEN old \cup {m + 1} ELSE old
  <2>1. 2 .. m + 1 = (2 .. m) \cup {m + 1}
    OBVIOUS
  <2>2. After(h, m + 1, m + 1) /\ \A j \in 2 .. m : After(h, j, m + 1) <=> After(h, j, m)
    BY AfterNext
  <2>3. \A j \in 2 .. m : Passes(h, j, m + 1) <=> Passes(h, j, m)
    BY EarlierPlies
  <2>4. ASSUME NEW j PROVE j \in Timed(h, m + 1) <=> j \in old \/ (j = m + 1 /\ counts)
    BY <2>1, <2>2, <2>3 DEF Timed
  <2>5. PICK new : new = Timed(h, m + 1)
    OBVIOUS
  <2> HIDE DEF counts, old
  <2>6. \A j : j \in new <=> j \in old \/ (j = m + 1 /\ counts)
    BY <2>4, <2>5
  <2>7. new = IF counts THEN old \cup {m + 1} ELSE old
    <3>1. counts => new = old \cup {m + 1}
      BY <2>6
    <3>2. ~counts => new = old
      BY <2>6
    <3> QED BY <3>1, <3>2
  <2> QED BY <2>5, <2>7
<1> HIDE DEF old, counts
<1>3. Cardinality(old \cup {m + 1}) = Cardinality(old) + 1
  BY <1>1, FS_AddElement
<1> QED BY <1>1, <1>2, <1>3 DEF counts, old

\* A capture begins the count anew.
LEMMA ClockCaptured ==
  ASSUME NEW h, NEW m \in Nat \ {0}, h[m + 1].by = "capture"
  PROVE  /\ Cardinality(Timed(h, m + 1)) = 0 /\ ~After(h, 1, m + 1)
         /\ \A c : Cardinality(ChecksOf(h, c, m + 1, m + 1)) = 0
<1>1. \A j \in 1 .. m + 1 : ~After(h, j, m + 1)
  <2>1. \A j \in 1 .. m + 1 : j \in 1 .. m \/ j = m + 1
    OBVIOUS
  <2> QED BY <2>1, AfterNext
<1>2. Timed(h, m + 1) = {} /\ \A c : ChecksOf(h, c, m + 1, m + 1) = {}
  BY <1>1 DEF Timed, ChecksOf
<1> QED BY <1>1, <1>2, FS_EmptySet

\* The counters of do_move() follow the rule: they are right about a side that is within its
\* limit, and about the move that it has just made.
LEMMA CountersFollow ==
  ASSUME TypeOK, NEW us \in Color, NEW gives \in BOOLEAN, NEW a \in Nat, NEW b \in Nat,
         CheckCount(a, st.check10[us]), CheckCount(b, st.check10[Other(us)])
  PROVE  /\ CheckCount(a + IF gives THEN 1 ELSE 0, NewCounters(us, gives).check10[us])
         /\ CheckCount(b, NewCounters(us, gives).check10[Other(us)])
         /\ NewCounters(us, gives).rule60 =
              st.rule60 + IF (gives /\ a + 1 > CheckLimit) \/ (st.checkers /\ b > CheckLimit)
                          THEN 0 ELSE 1
<1> DEFINE them == Other(us)
           checked == IF gives THEN [st.check10 EXCEPT ![us] = @ + 1] ELSE st.check10
           within == gives => checked[us] <= CheckLimit
           answers == st.checkers /\ checked[them] > CheckLimit
           c10 == IF within /\ answers THEN [checked EXCEPT ![them] = @ + 1] ELSE checked
           r60 == IF within /\ ~answers THEN st.rule60 + 1 ELSE st.rule60
           p == st.check10[us]
           q == st.check10[them]
<1>1. /\ st.check10 \in [Color -> Nat] /\ st.rule60 \in Nat
      /\ st.checkers \in BOOLEAN /\ CheckLimit \in Nat
  BY Current, HistoryAssumption DEF StateInfo
<1>2. them \in Color /\ us # them /\ p \in Nat /\ q \in Nat
  BY <1>1 DEF Other, Color
<1>3. checked[us] = (IF gives THEN p + 1 ELSE p) /\ checked[them] = q /\ checked \in [Color -> Nat]
  BY <1>1, <1>2
<1>4. c10[us] = checked[us] /\ c10[them] = IF within /\ answers THEN q + 1 ELSE q
  BY <1>2, <1>3
<1>5. NewCounters(us, gives) = [check10 |-> c10, rule60 |-> r60]
  BY DEF NewCounters
<1>6. CheckCount(a, p) /\ CheckCount(b, q)
  OBVIOUS
<1> HIDE DEF p, q, c10, checked, them
<1>7. within <=> ~(gives /\ a + 1 > CheckLimit)
  BY <1>1, <1>2, <1>3, <1>6 DEF CheckCount
<1>8. answers <=> st.checkers /\ b > CheckLimit
  BY <1>1, <1>2, <1>3, <1>6 DEF CheckCount
<1> HIDE DEF within, answers
<1>9. CheckCount(a + IF gives THEN 1 ELSE 0, c10[us])
  BY <1>1, <1>2, <1>3, <1>4, <1>6 DEF CheckCount
<1>10. CheckCount(b, c10[them])
  BY <1>1, <1>2, <1>4, <1>6, <1>8 DEF CheckCount
<1>11. r60 = st.rule60 + IF (gives /\ a + 1 > CheckLimit) \/ (st.checkers /\ b > CheckLimit)
                         THEN 0 ELSE 1
  BY <1>1, <1>7, <1>8
<1> HIDE DEF r60
<1> QED BY <1>5, <1>9, <1>10, <1>11 DEF them

\* The state x follows the current one as do_move() and do_null_move() make it.
Follows(x) ==
  /\ x.by \in {"quiet", "capture", "null"}
  /\ x.by = "capture" => x.rule60 = 0 /\ x.check10 = [d \in Color |-> 0]
  /\ x.by = "null" => x.rule60 = st.rule60 /\ x.check10 = st.check10
  /\ x.by = "quiet" => /\ x.key[2] = Other(st.key[2])
                       /\ x.rule60 = NewCounters(st.key[2], x.checkers).rule60
                       /\ x.check10 = NewCounters(st.key[2], x.checkers).check10

LEMMA ClocksPushed ==
  ASSUME TypeOK, Clocks, NEW x \in StateInfo, Follows(x), states' = Append(states, x),
         Len(states) < MaxStates
  PROVE  Clocks'
<1> DEFINE m == Len(states)
<1>1. PICK h : h = states'
  OBVIOUS
<1>2. m \in Nat \ {0} /\ st = states[m] /\ st \in StateInfo
  BY Current
<1>3. Len(states') = m + 1 /\ h[m + 1] = x /\ \A i \in 1 .. m : h[i] = states[i]
  BY <1>1, Pushed
<1> SUFFICES ASSUME NEW i \in 1 .. m + 1 PROVE ClockAt(h, i)
  BY <1>1, <1>3 DEF Clocks
<1>4. ASSUME NEW j \in 1 .. m PROVE ClockAt(h, j)
  <2>1. ClockAt(states, j)
    BY <1>4 DEF Clocks
  <2>2. j \in Nat \ {0} /\ \A l \in 1 .. j : h[l] = states[l]
    BY <1>2, <1>3
  <2> QED BY <2>1, <2>2, SameClock
<1>5. h[m] = st /\ ClockAt(h, m)
  BY <1>2, <1>3, <1>4
<1>6. h[m + 1] = x
  BY <1>3
<1> HIDE DEF m
<1>7. x.by = "capture" => ClockAt(h, m + 1)
  <2> SUFFICES ASSUME x.by = "capture" PROVE ClockAt(h, m + 1)
    OBVIOUS
  <2>1. /\ Cardinality(Timed(h, m + 1)) = 0 /\ ~After(h, 1, m + 1)
        /\ \A c : Cardinality(ChecksOf(h, c, m + 1, m + 1)) = 0
    BY <1>2, <1>6, ClockCaptured
  <2>2. x.rule60 = 0 /\ \A c \in Color : x.check10[c] = 0
    BY DEF Follows
  <2>3. \A c \in Color : CheckCount(0, x.check10[c])
    BY <2>2, HistoryAssumption DEF CheckCount
  <2> QED BY <1>6, <2>1, <2>2, <2>3 DEF ClockAt
<1>8. x.by # "capture" =>
        /\ Cardinality(Timed(h, m)) \in Nat
        /\ Cardinality(Timed(h, m + 1)) =
             Cardinality(Timed(h, m)) + IF x.by = "quiet" /\ ~Passes(h, m + 1, m + 1) THEN 1 ELSE 0
        /\ After(h, 1, m + 1) <=> After(h, 1, m)
        /\ \A c : Cardinality(ChecksOf(h, c, m + 1, m + 1)) =
                    Cardinality(ChecksOf(h, c, m, m))
                      + IF x.by = "quiet" /\ st.key[2] = c /\ x.checkers THEN 1 ELSE 0
  <2> SUFFICES ASSUME x.by # "capture"
               PROVE  /\ Cardinality(Timed(h, m)) \in Nat
                      /\ Cardinality(Timed(h, m + 1)) =
                           Cardinality(Timed(h, m))
                             + IF x.by = "quiet" /\ ~Passes(h, m + 1, m + 1) THEN 1 ELSE 0
                      /\ After(h, 1, m + 1) <=> After(h, 1, m)
                      /\ \A c : Cardinality(ChecksOf(h, c, m + 1, m + 1)) =
                                  Cardinality(ChecksOf(h, c, m, m))
                                    + IF x.by = "quiet" /\ st.key[2] = c /\ x.checkers THEN 1 ELSE 0
    OBVIOUS
  <2>1. /\ Cardinality(Timed(h, m)) \in Nat
        /\ Cardinality(Timed(h, m + 1)) =
             Cardinality(Timed(h, m)) + IF x.by = "quiet" /\ ~Passes(h, m + 1, m + 1) THEN 1 ELSE 0
    BY <1>2, <1>6, TimedNext
  <2>2. After(h, 1, m + 1) <=> After(h, 1, m)
    <3>1. m \in Nat /\ 1 \in 1 .. m
      BY <1>2
    <3> QED BY <1>6, <3>1, AfterNext
  <2>3. ASSUME NEW c
        PROVE  Cardinality(ChecksOf(h, c, m + 1, m + 1)) =
                 Cardinality(ChecksOf(h, c, m, m))
                   + IF x.by = "quiet" /\ st.key[2] = c /\ x.checkers THEN 1 ELSE 0
    BY <1>2, <1>5, <1>6, ChecksNext
  <2> QED BY <2>1, <2>2, <2>3
<1>9. \A c : Cardinality(ChecksOf(h, c, m, m)) \in Nat
  BY <1>2, ChecksCount
<1>10. /\ st.rule60 = Cardinality(Timed(h, m)) + IF After(h, 1, m) THEN h[1].rule60 ELSE 0
       /\ \A c \in Color : CheckCount(Cardinality(ChecksOf(h, c, m, m)), st.check10[c])
  BY <1>5 DEF ClockAt
<1>11. x.by = "null" => ClockAt(h, m + 1)
  <2> SUFFICES ASSUME x.by = "null" PROVE ClockAt(h, m + 1)
    OBVIOUS
  <2>1. x.rule60 = st.rule60 /\ x.check10 = st.check10
    BY DEF Follows
  <2>2. /\ Cardinality(Timed(h, m + 1)) = Cardinality(Timed(h, m))
        /\ After(h, 1, m + 1) <=> After(h, 1, m)
        /\ \A c : Cardinality(ChecksOf(h, c, m + 1, m + 1)) = Cardinality(ChecksOf(h, c, m, m))
    BY <1>8, <1>9
  <2> QED BY <1>6, <1>10, <2>1, <2>2 DEF ClockAt
<1>12. x.by = "quiet" => ClockAt(h, m + 1)
  <2> SUFFICES ASSUME x.by = "quiet" PROVE ClockAt(h, m + 1)
    OBVIOUS
  <2> DEFINE us == st.key[2]
             them == Other(us)
             gives == x.checkers
             a == Cardinality(ChecksOf(h, us, m, m))
             b == Cardinality(ChecksOf(h, them, m, m))
             new == NewCounters(us, gives)
  <2>1. us \in Color /\ them \in Color /\ gives \in BOOLEAN /\ us # them /\ Color = {us, them}
    BY <1>2, KeyFacts DEF StateInfo, Other, Color
  <2>2. a \in Nat /\ b \in Nat
    BY <1>9
  <2>3. CheckCount(a, st.check10[us]) /\ CheckCount(b, st.check10[them])
    BY <1>10, <2>1
  <2>4. x.key[2] = them /\ x.rule60 = new.rule60 /\ x.check10 = new.check10
    BY DEF Follows
  <2> HIDE DEF us, gives, a, b, new
  <2>5. /\ CheckCount(a + IF gives THEN 1 ELSE 0, new.check10[us])
        /\ CheckCount(b, new.check10[them])
        /\ new.rule60 = st.rule60 + IF (gives /\ a + 1 > CheckLimit) \/ (st.checkers /\ b > CheckLimit)
                                    THEN 0 ELSE 1
    BY <2>1, <2>2, <2>3, CountersFollow DEF new
  <2> HIDE DEF them
  <2>6. /\ Cardinality(ChecksOf(h, us, m + 1, m + 1)) = a + IF gives THEN 1 ELSE 0
        /\ Cardinality(ChecksOf(h, them, m + 1, m + 1)) = b
    BY <1>8, <1>9, <2>1 DEF us, gives, a, b
  <2>7. Passes(h, m + 1, m + 1) <=> (gives /\ a + 1 > CheckLimit) \/ (st.checkers /\ b > CheckLimit)
    <3>1. ChecksOf(h, them, m, m + 1) = ChecksOf(h, them, m, m)
      BY <1>2, <1>6, EarlierPlies
    <3>2. (m + 1) - 1 = m
      BY <1>2
    <3>3. Passes(h, m + 1, m + 1) <=>
            \/ gives /\ Cardinality(ChecksOf(h, us, m + 1, m + 1)) > CheckLimit
            \/ st.checkers /\ Cardinality(ChecksOf(h, them, m, m + 1)) > CheckLimit
      BY <1>5, <1>6, <2>4, <3>2 DEF Passes, us, gives
    <3> QED BY <2>6, <3>1, <3>3 DEF b
  <2>8. x.rule60 = Cardinality(Timed(h, m + 1)) + IF After(h, 1, m + 1) THEN h[1].rule60 ELSE 0
    <3>1. PICK n \in Nat : n = Cardinality(Timed(h, m))
      BY <1>8
    <3>2. PICK o : o = IF After(h, 1, m) THEN h[1].rule60 ELSE 0
      OBVIOUS
    <3>3. o \in Nat
      <4>1. states[1] \in StateInfo /\ h[1] = states[1]
        BY <1>2, <1>3, Current DEF m
      <4> QED BY <3>2, <4>1, WindowFacts
    <3>4. Cardinality(Timed(h, m + 1)) = n + IF Passes(h, m + 1, m + 1) THEN 0 ELSE 1
      BY <1>8, <3>1
    <3>5. o = IF After(h, 1, m + 1) THEN h[1].rule60 ELSE 0
      BY <1>8, <3>2
    <3>6. st.rule60 = n + o
      BY <1>10, <3>1, <3>2
    <3>7. x.rule60 = n + o + IF Passes(h, m + 1, m + 1) THEN 0 ELSE 1
      BY <2>4, <2>5, <2>7, <3>6
    <3> QED BY <3>3, <3>4, <3>5, <3>7
  <2>9. \A c \in Color : CheckCount(Cardinality(ChecksOf(h, c, m + 1, m + 1)), x.check10[c])
    BY <2>1, <2>4, <2>5, <2>6
  <2> QED BY <1>6, <2>8, <2>9 DEF ClockAt
<1>13. x.by \in {"quiet", "capture", "null"}
  BY DEF Follows
<1>14. ClockAt(h, m + 1)
  BY <1>7, <1>11, <1>12, <1>13
<1> QED BY <1>2, <1>4, <1>14

LEMMA ClocksPopped ==
  ASSUME TypeOK, Clocks, states' = Front(states), Len(states) > 1
  PROVE  Clocks'
<1> DEFINE n == Len(states) - 1
<1>1. PICK h : h = states'
  OBVIOUS
<1>2. n \in Nat \ {0} /\ Len(h) = n /\ \A i \in 1 .. n : h[i] = states[i]
  BY <1>1, Current, Popped
<1> SUFFICES ASSUME NEW i \in 1 .. n PROVE ClockAt(h, i)
  BY <1>1, <1>2 DEF Clocks
<1>3. ClockAt(states, i)
  BY <1>2 DEF Clocks
<1>4. i \in Nat \ {0} /\ \A l \in 1 .. i : h[l] = states[l]
  BY <1>2
<1> QED BY <1>3, <1>4, SameClock

\* The clock of a position that has been set up is the one it was set up with.
LEMMA InitClocks == ASSUME Init PROVE Clocks
<1>1. TypeOK
  BY InitIInv DEF IInv
<1>2. Len(states) = 1 /\ st = states[1] /\ states[1].by = "set" /\ states[1].check10 = [d \in Color |-> 0]
  BY <1>1, Current DEF Init
<1>3. Timed(states, 1) = {} /\ After(states, 1, 1)
  <2>1. 1 .. 1 = {1} /\ 2 .. 1 = {}
    OBVIOUS
  <2> QED BY <1>2, <2>1 DEF Timed, After
<1>4. Cardinality(Timed(states, 1)) = 0
  BY <1>3, FS_EmptySet
<1>5. \A c \in Color : CheckCount(Cardinality(ChecksOf(states, c, 1, 1)), states[1].check10[c])
  <2>1. \A c : Cardinality(ChecksOf(states, c, 1, 1)) = 0
    BY ChecksCount
  <2> QED BY <1>2, <2>1, HistoryAssumption DEF CheckCount
<1>6. states[1].rule60 \in Nat
  BY <1>1, <1>2, Current, WindowFacts
<1>7. ClockAt(states, 1)
  BY <1>3, <1>4, <1>5, <1>6 DEF ClockAt
<1> QED BY <1>2, <1>7 DEF Clocks

LEMMA NextClocks == ASSUME IInv, Clocks, [Next]_vars PROVE Clocks'
<1>0. TypeOK /\ st \in StateInfo
  BY Current DEF IInv
<1>1. ASSUME NEW b \in Board, NEW by \in {"quiet", "capture"}, DoMove(b, by)
      PROVE  Clocks'
  <2> DEFINE us == st.key[2]
             key == <<b, Other(us)>>
             gives == key \in InCheck
             c == IF by = "capture" THEN NoCounters ELSE NewCounters(us, gives)
             x == [key |-> key, checkers |-> gives, check10 |-> c.check10, rule60 |-> c.rule60,
                   pliesFromNull |-> st.pliesFromNull + 1, by |-> by]
  <2>1. us \in Color /\ key \in Key /\ gives \in BOOLEAN /\ st.pliesFromNull \in Nat
    BY <1>0, KeyFacts, WindowFacts
  <2>2. c.check10 \in [Color -> Nat] /\ c.rule60 \in Nat
    <3>1. CASE by = "capture"
      BY <3>1 DEF NoCounters, Color
    <3>2. CASE by # "capture"
      BY <1>0, <2>1, <3>2, OnePlyCounted
    <3> QED BY <3>1, <3>2
  <2>3. x \in StateInfo
    <3> HIDE DEF c, gives
    <3> QED BY <2>1, <2>2 DEF StateInfo
  <2>4. /\ x.by = by /\ x.key[2] = Other(us) /\ x.checkers = gives /\ x.check10 = c.check10
        /\ x.rule60 = c.rule60
    OBVIOUS
  <2>5. states' = Append(states, x) /\ Len(states) < MaxStates
    BY <1>1 DEF DoMove, Push
  <2>6. by = "capture" => c.rule60 = 0 /\ c.check10 = [d \in Color |-> 0]
    BY DEF NoCounters
  <2>7. by = "quiet" => c = NewCounters(us, gives)
    OBVIOUS
  <2> HIDE DEF x, c, gives
  <2>8. Follows(x)
    BY <2>4, <2>6, <2>7 DEF Follows
  <2> QED BY <1>0, <2>3, <2>5, <2>8, ClocksPushed
<1>2. CASE UndoMove \/ UndoNullMove
  <2>1. states' = Front(states) /\ Len(states) > 1
    BY <1>0, <1>2, Current DEF UndoMove, UndoNullMove, TypeOK
  <2> QED BY <1>0, <2>1, ClocksPopped
<1>3. CASE DoNullMove
  <2> DEFINE x == [key |-> <<st.key[1], Other(st.key[2])>>, checkers |-> st.checkers,
                   check10 |-> st.check10, rule60 |-> st.rule60,
                   pliesFromNull |-> 0, by |-> "null"]
  <2>1. <<st.key[1], Other(st.key[2])>> \in Key
    BY <1>0, KeyFacts
  <2>2. x \in StateInfo
    BY <1>0, <2>1 DEF StateInfo
  <2>3. x.by = "null" /\ x.rule60 = st.rule60 /\ x.check10 = st.check10
    OBVIOUS
  <2>4. states' = Append(states, x) /\ Len(states) < MaxStates
    BY <1>3 DEF DoNullMove, Push
  <2> HIDE DEF x
  <2>5. Follows(x)
    BY <2>3 DEF Follows
  <2> QED BY <1>0, <2>2, <2>4, <2>5, ClocksPushed
<1>4. CASE StartThinking \/ UNCHANGED vars
  <2>1. states' = states
    BY <1>4 DEF StartThinking, vars
  <2> QED BY <2>1 DEF Clocks
<1> QED BY <1>1, <1>2, <1>3, <1>4 DEF Next

\* The clock that a state carries is the one the property reads off the chain.
LEMMA ClockOfCurrent == ASSUME TypeOK, Clocks PROVE ClockFollowsRule
<1> DEFINE n == Len(states)
           quiet == {i \in 2 .. n : MovedQuietly(i) /\ SinceCapture(i)}
<1>1. n \in Nat \ {0} /\ st = states[n] /\ ClockAt(states, n)
  BY Current DEF Clocks
<1>2. \A j : SinceCapture(j) <=> After(states, j, n)
  BY DEF SinceCapture, After
<1>3. \A c, i : Checks(c, i) = Cardinality(ChecksOf(states, c, i, n))
  <2>1. ASSUME NEW c, NEW i
        PROVE  {j \in 2 .. i : /\ MovedQuietly(j) /\ SinceCapture(j)
                               /\ Mover(j) = c /\ states[j].checkers} = ChecksOf(states, c, i, n)
    BY <1>2 DEF ChecksOf, MovedQuietly, Mover
  <2> QED BY <2>1 DEF Checks
<1>4. \A i : PassedOver(i) <=> Passes(states, i, n)
  BY <1>3 DEF PassedOver, Passes, Mover
<1>5. {i \in quiet : ~PassedOver(i)} = Timed(states, n)
  BY <1>2, <1>4 DEF Timed, MovedQuietly
<1>6. st.rule60 = Cardinality(Timed(states, n)) + IF SinceCapture(1) THEN states[1].rule60 ELSE 0
  BY <1>1, <1>2 DEF ClockAt
<1> QED BY <1>5, <1>6 DEF ClockFollowsRule

\* position.cpp do_move() and do_null_move(): rule60 counts the plies since the last capture but
\* for the checks of a side beyond its limit and the answers to them, whatever is taken back
\* and searched again, although check10 counts the answers as if they were checks.
THEOREM ClockIsTheRules == Spec => []ClockFollowsRule
<1>1. IInv /\ Clocks => ClockFollowsRule
  BY ClockOfCurrent DEF IInv
<1> QED BY <1>1, InitIInv, NextIInv, InitClocks, NextClocks, PTL DEF Spec

-----------------------------------------------------------------------------
(***************************************************************************)
(* Loops as recursive functions.                                           *)
(***************************************************************************)

\* Every set of natural numbers that has an element has a smallest one.
LEMMA SmallestOf ==
  ASSUME NEW T \in SUBSET Nat, T # {}
  PROVE  \E x \in T : \A y \in T : x <= y
<1> DEFINE R == {ss \in Nat \X Nat : ss[1] < ss[2]}
<1>1. IsWellFoundedOn(R, Nat)
  BY NatLessThanWellFounded DEF OpToRel
<1>2. PICK x \in T : \A y \in T : ~ (<<y, x>> \in R)
  <2> HIDE DEF R
  <2> QED
    BY <1>1, WFMin
<1>3. ASSUME NEW y \in T
      PROVE  x <= y
  <2>1. x \in Nat /\ y \in Nat
    OBVIOUS
  <2>2. ~ (y < x)
    BY <1>2, <2>1
  <2> QED
    BY <2>1, <2>2
<1> QED
  BY <1>3

\* Induction, over a set instead of a predicate.
LEMMA Induction ==
  ASSUME NEW S, 0 \in S, \A n \in Nat : n \in S => n + 1 \in S
  PROVE  \A n \in Nat : n \in S
<1> SUFFICES ASSUME NEW n \in Nat, n \notin S
             PROVE  FALSE
  OBVIOUS
<1> DEFINE T == {k \in Nat : k \notin S}
<1>1. PICK x \in T : \A y \in T : x <= y
  <2>1. T \in SUBSET Nat /\ T # {}
    OBVIOUS
  <2> HIDE DEF T
  <2> QED
    BY <2>1, SmallestOf
<1>2. x # 0 /\ x - 1 \in Nat /\ x - 1 \notin T
  BY <1>1
<1> QED
  BY <1>2

\* A recursion over 1 .. n has a solution; `step' gives the next value.
IsSolvable(n, D, base, step) ==
  \E f \in [0 .. n -> D] : f[0] = base /\ \A i \in 1 .. n : f[i] = step[<<f[i - 1], i>>]

\* Such a recursion has a solution, as there is one for every part 0 .. k.
LEMMA Recursion ==
  ASSUME NEW n \in Nat, NEW D, NEW base \in D, NEW step \in [D \X (1 .. n) -> D]
  PROVE  IsSolvable(n, D, base, step)
<1> DEFINE IsUpTo(f, k) == f[0] = base /\ \A i \in 1 .. k : f[i] = step[<<f[i - 1], i>>]
           S == {k \in Nat : k <= n => \E f \in [0 .. k -> D] : IsUpTo(f, k)}
<1>1. 0 \in S
  <2>1. [i \in 0 .. 0 |-> base] \in [0 .. 0 -> D] /\ IsUpTo([i \in 0 .. 0 |-> base], 0)
    OBVIOUS
  <2> QED
    BY <2>1
<1>2. ASSUME NEW k \in Nat, k \in S
      PROVE  k + 1 \in S
  <2> SUFFICES ASSUME k + 1 <= n
               PROVE  \E f \in [0 .. k + 1 -> D] : IsUpTo(f, k + 1)
    OBVIOUS
  <2>1. PICK f \in [0 .. k -> D] : IsUpTo(f, k)
    BY <1>2
  <2> DEFINE g == [i \in 0 .. k + 1 |-> IF i = k + 1 THEN step[<<f[k], k + 1>>] ELSE f[i]]
  <2>2. step[<<f[k], k + 1>>] \in D
    OBVIOUS
  <2>3. g \in [0 .. k + 1 -> D]
    BY <2>2
  <2>4. g[0] = base
    BY <2>1
  <2>5. ASSUME NEW i \in 1 .. k + 1
        PROVE  g[i] = step[<<g[i - 1], i>>]
    <3>1. g[i - 1] = f[i - 1]
      OBVIOUS
    <3>2. CASE i = k + 1
      <4>1. i - 1 = k /\ g[i] = step[<<f[k], i>>]
        BY <3>2
      <4> QED
        BY <3>1, <4>1
    <3>3. CASE i # k + 1
      <4>1. i \in 1 .. k /\ g[i] = f[i]
        BY <3>3
      <4> QED
        BY <3>1, <4>1, <2>1
    <3> QED
      BY <3>2, <3>3
  <2> QED
    BY <2>3, <2>4, <2>5
<1>3. n \in S
  <2> HIDE DEF S
  <2> QED
    BY <1>1, <1>2, Induction
<1> QED
  BY <1>3 DEF IsSolvable

\* A function that a definition unfolds to.
IsUnfolded(f, n, base, step) == f = [k \in 0 .. n |-> IF k = 0 THEN base ELSE step[<<f[k - 1], k>>]]

\* So a recursive function is the one that its definition says.
LEMMA Unfolded ==
  ASSUME NEW n \in Nat, NEW D, NEW base \in D, NEW step \in [D \X (1 .. n) -> D]
  PROVE  \E f \in [0 .. n -> D] : IsUnfolded(f, n, base, step)
<1>1. IsSolvable(n, D, base, step)
  BY Recursion
<1>2. PICK f \in [0 .. n -> D] : f[0] = base /\ \A i \in 1 .. n : f[i] = step[<<f[i - 1], i>>]
  BY <1>1 DEF IsSolvable
<1>3. ASSUME NEW k \in 0 .. n
      PROVE  f[k] = IF k = 0 THEN base ELSE step[<<f[k - 1], k>>]
  <2>1. k # 0 => k \in 1 .. n
    OBVIOUS
  <2> QED
    BY <1>2, <2>1
<1>4. f = [k \in 0 .. n |-> f[k]]
  BY <1>2
<1>5. f = [k \in 0 .. n |-> IF k = 0 THEN base ELSE step[<<f[k - 1], k>>]]
  BY <1>3, <1>4
<1> QED
  BY <1>2, <1>5 DEF IsUnfolded

\* The smallest repetition is one.
LEMMA MinOf ==
  ASSUME NEW T \in SUBSET Nat, T # {}
  PROVE  Min(T) \in T /\ \A y \in T : Min(T) <= y
<1>1. \E x \in T : \A y \in T : x <= y
  BY SmallestOf
<1> QED
  BY <1>1 DEF Min

-----------------------------------------------------------------------------
(***************************************************************************)
(* The sides take turns, and whoever has moved is not in check, so that    *)
(* a key tells who moves and whether there is a check.                     *)
(***************************************************************************)
IsLegal(x) ==
  /\ x.checkers <=> x.key \in InCheck
  /\ <<x.key[1], Other(x.key[2])>> \notin InCheck

Turns ==
  /\ \A i \in 1 .. Len(states) : IsLegal(states[i])
  /\ \A i \in 2 .. Len(states) : states[i].key[2] = Other(states[i - 1].key[2])

\* The other side of the other side.
LEMMA Others ==
  ASSUME NEW c \in Color
  PROVE  Other(c) \in Color /\ Other(c) # c /\ Other(Other(c)) = c /\ Color = {c, Other(c)}
BY DEF Other, Color

\* A position that is set up.
LEMMA InitTurns == ASSUME Init PROVE Turns
<1>1. PICK f \in Start :
        states = << [key |-> <<f[1], f[2]>>, checkers |-> <<f[1], f[2]>> \in InCheck,
                     check10 |-> [d \in Color |-> 0], rule60 |-> f[3],
                     pliesFromNull |-> 0, by |-> "set"] >>
  BY DEF Init
<1>2. Len(states) = 1 /\ states[1].key = <<f[1], f[2]>> /\ states[1].checkers = (<<f[1], f[2]>> \in InCheck)
  BY <1>1
<1>3. <<f[1], Other(f[2])>> \notin InCheck
  BY LegalAssumption
<1>4. IsLegal(states[1])
  <2>1. states[1].key[1] = f[1] /\ states[1].key[2] = f[2]
    BY <1>2
  <2>2. states[1].checkers <=> states[1].key \in InCheck
    BY <1>2
  <2> QED
    BY <2>1, <2>2, <1>3 DEF IsLegal
<1>5. \A i \in 1 .. 1 : i = 1
  OBVIOUS
<1>6. \A i \in 2 .. 1 : FALSE
  OBVIOUS
<1> QED
  BY <1>2, <1>4, <1>5, <1>6 DEF Turns

\* A state in which the other side moves, and whoever has moved is not in check, is pushed.
LEMMA TurnsPushed ==
  ASSUME TypeOK, Turns, NEW x \in StateInfo, states' = Append(states, x), Len(states) < MaxStates,
         IsLegal(x), x.key[2] = Other(st.key[2])
  PROVE  Turns'
<1>1. PICK n \in Nat : n > 0 /\ Len(states) = n /\ st = states[n]
  BY Current
<1>2. /\ Len(states') = n + 1 /\ \A i \in 1 .. n : states'[i] = states[i]
      /\ states'[n + 1] = x
  BY <1>1, Pushed
<1>3. ASSUME NEW i \in 1 .. n + 1
      PROVE  IsLegal(states'[i])
  <2>1. CASE i = n + 1
    BY <2>1, <1>2
  <2>2. CASE i # n + 1
    <3>1. i \in 1 .. n
      BY <2>2
    <3> QED
      BY <3>1, <1>1, <1>2 DEF Turns
  <2> QED
    BY <2>1, <2>2
<1>4. ASSUME NEW i \in 2 .. n + 1
      PROVE  states'[i].key[2] = Other(states'[i - 1].key[2])
  <2>1. i - 1 \in 1 .. n
    OBVIOUS
  <2>2. CASE i = n + 1
    <3>1. i - 1 = n
      BY <2>2
    <3> QED
      BY <2>1, <2>2, <3>1, <1>1, <1>2
  <2>3. CASE i # n + 1
    <3>1. i \in 2 .. n /\ i \in 1 .. n
      BY <2>3
    <3> QED
      BY <2>1, <3>1, <1>1, <1>2 DEF Turns
  <2> QED
    BY <2>2, <2>3
<1> QED
  BY <1>2, <1>3, <1>4 DEF Turns, IsLegal

\* Taking moves back needs no argument, as this is about every state of the chain.
LEMMA NextTurns == ASSUME IInv, Turns, [Next]_vars PROVE Turns'
<1>1. TypeOK
  BY DEF IInv
<1>2. st \in StateInfo /\ IsLegal(st) /\ Len(states) \in Nat \ {0}
  BY <1>1, Current DEF Turns
<1>3. ASSUME NEW b \in Board, NEW by \in {"quiet", "capture"}, DoMove(b, by)
      PROVE  Turns'
  <2> DEFINE us == st.key[2]
             key == <<b, Other(us)>>
             gives == key \in InCheck
             counters == IF by = "capture" THEN NoCounters ELSE NewCounters(us, gives)
             x == [key |-> key, checkers |-> gives, check10 |-> counters.check10, rule60 |-> counters.rule60,
                   pliesFromNull |-> st.pliesFromNull + 1, by |-> by]
  <2>1. states' = Append(states, x) /\ Len(states) < MaxStates /\ <<st.key[1], us, b>> \in Legal(by)
    BY <1>3 DEF DoMove, Push
  <2>2. us \in Color /\ Other(us) \in Color /\ Other(Other(us)) = us
    BY <1>2, KeyFacts, Others
  <2>3. x \in StateInfo
    <3>1. counters.check10 \in [Color -> Nat] /\ counters.rule60 \in Nat
      <4>1. gives \in BOOLEAN
        OBVIOUS
      <4>2. /\ NewCounters(us, gives).check10 \in [Color -> Nat]
            /\ NewCounters(us, gives).rule60 \in Nat
        <5> HIDE DEF gives, us
        <5> QED
          BY <1>1, <2>2, <4>1, OnePlyCounted
      <4>3. NoCounters.check10 \in [Color -> Nat] /\ NoCounters.rule60 \in Nat
        BY DEF NoCounters
      <4>4. counters = NoCounters \/ counters = NewCounters(us, gives)
        OBVIOUS
      <4> HIDE DEF counters, gives, us
      <4> QED
        BY <4>2, <4>3, <4>4
    <3>2. key \in Key /\ st.pliesFromNull + 1 \in Nat
      BY <1>2, KeyFacts DEF StateInfo
    <3> HIDE DEF counters, key, gives
    <3>3. gives \in BOOLEAN
      BY DEF gives
    <3> QED
      BY <3>1, <3>2, <3>3 DEF StateInfo
  <2>4. <<b, us>> \notin InCheck
    <3>1. <<st.key[1], us, b>> \in Quiet \cup Capture
      BY <2>1 DEF Legal
    <3> QED
      BY <3>1, LegalAssumption
  <2>5. x.key = key /\ x.checkers = gives /\ key[1] = b /\ key[2] = Other(us)
    OBVIOUS
  <2>6. IsLegal(x)
    <3> HIDE DEF x
    <3> QED
      BY <2>2, <2>4, <2>5 DEF IsLegal
  <2>7. x.key[2] = Other(st.key[2])
    BY <2>5
  <2> HIDE DEF x
  <2> QED
    BY <1>1, <2>1, <2>3, <2>6, <2>7, TurnsPushed
<1>4. CASE UndoMove \/ UndoNullMove
  <2>1. states' = Front(states) /\ Len(states) > 1
    BY <1>1, <1>2, <1>4 DEF UndoMove, UndoNullMove, TypeOK
  <2>2. PICK n \in Nat : n > 0 /\ Len(states) = n + 1
    <3>1. Len(states) - 1 \in Nat /\ Len(states) - 1 > 0 /\ Len(states) = (Len(states) - 1) + 1
      BY <1>2, <2>1
    <3> QED
      BY <3>1
  <2>3. Len(states') = n /\ \A i \in 1 .. n : states'[i] = states[i]
    <3>1. (n + 1) - 1 = n
      OBVIOUS
    <3> QED
      BY <1>1, <2>1, <2>2, <3>1, Popped
  <2>4. ASSUME NEW i \in 1 .. n
        PROVE  IsLegal(states'[i])
    <3>1. i \in 1 .. n + 1
      OBVIOUS
    <3> QED
      BY <3>1, <2>2, <2>3 DEF Turns
  <2>5. ASSUME NEW i \in 2 .. n
        PROVE  states'[i].key[2] = Other(states'[i - 1].key[2])
    <3>1. i \in 2 .. n + 1 /\ i \in 1 .. n /\ i - 1 \in 1 .. n
      OBVIOUS
    <3> QED
      BY <3>1, <2>2, <2>3 DEF Turns
  <2> QED
    BY <2>3, <2>4, <2>5 DEF Turns, IsLegal
<1>5. CASE DoNullMove
  <2> DEFINE x == [key |-> <<st.key[1], Other(st.key[2])>>, checkers |-> st.checkers,
                   check10 |-> st.check10, rule60 |-> st.rule60,
                   pliesFromNull |-> 0, by |-> "null"]
  <2>1. <<st.key[1], Other(st.key[2])>> \in Key /\ Other(Other(st.key[2])) = st.key[2]
    BY <1>2, KeyFacts, Others
  <2>2. x \in StateInfo
    BY <1>2, <2>1 DEF StateInfo
  <2>3. states' = Append(states, x) /\ Len(states) < MaxStates /\ ~st.checkers
    BY <1>5 DEF DoNullMove, Push
  <2>4. x.key = <<st.key[1], Other(st.key[2])>> /\ x.checkers = st.checkers
    OBVIOUS
  <2>5. st.key = <<st.key[1], st.key[2]>>
    BY <1>2, KeyFacts DEF Key
  <2> HIDE DEF x
  <2>6. x.key[1] = st.key[1] /\ x.key[2] = Other(st.key[2])
    BY <2>4
  <2>7. IsLegal(x)
    BY <1>2, <2>1, <2>3, <2>4, <2>5, <2>6 DEF IsLegal
  <2> QED
    BY <1>1, <2>2, <2>3, <2>6, <2>7, TurnsPushed
<1>6. CASE StartThinking \/ UNCHANGED vars
  <2>1. states' = states
    BY <1>6 DEF StartThinking, vars
  <2> QED
    BY <2>1 DEF Turns, IsLegal
<1> QED
  BY <1>3, <1>4, <1>5, <1>6 DEF Next

\* A number is even or odd.
LEMMA EvenOrOdd ==
  ASSUME NEW k \in Nat
  PROVE  \E n \in Nat : k = 2 * n \/ k = 2 * n + 1
<1> DEFINE S == {j \in Nat : \E n \in Nat : j = 2 * n \/ j = 2 * n + 1}
<1>1. 0 \in S
  <2>1. 0 = 2 * 0
    OBVIOUS
  <2> QED
    BY <2>1
<1>2. ASSUME NEW j \in Nat, j \in S
      PROVE  j + 1 \in S
  <2>1. PICK n \in Nat : j = 2 * n \/ j = 2 * n + 1
    BY <1>2
  <2>2. CASE j = 2 * n
    <3>1. j + 1 = 2 * n + 1
      BY <2>2
    <3> QED
      BY <3>1
  <2>3. CASE j = 2 * n + 1
    <3>1. n + 1 \in Nat /\ j + 1 \in Nat /\ j + 1 = 2 * (n + 1)
      BY <2>3
    <3>2. \E m \in Nat : j + 1 = 2 * m \/ j + 1 = 2 * m + 1
      BY <3>1
    <3> QED
      BY <3>1, <3>2
  <2> QED
    BY <2>1, <2>2, <2>3
<1>3. k \in S
  <2> HIDE DEF S
  <2> QED
    BY <1>1, <1>2, Induction
<1> QED
  BY <1>3

\* The states of the chain, counted from the current one.
LEMMA BackFacts ==
  ASSUME TypeOK, Turns, NEW k \in 0 .. Len(states) - 1
  PROVE  /\ Back(k) \in StateInfo /\ IsLegal(Back(k))
         /\ k + 1 <= Len(states) - 1 => Back(k).key[2] = Other(Back(k + 1).key[2])
<1>1. PICK n \in Nat : n > 0 /\ n = Len(states)
  BY Current
<1>2. n - k \in 1 .. n
  BY <1>1
<1>3. Back(k) = states[n - k] /\ Back(k + 1) = states[n - (k + 1)]
  BY <1>1 DEF Back
<1>4. Back(k) \in StateInfo /\ IsLegal(Back(k))
  BY <1>1, <1>2, <1>3, Current DEF Turns
<1>5. ASSUME k + 1 <= n - 1
      PROVE  Back(k).key[2] = Other(Back(k + 1).key[2])
  <2>1. n - k \in 2 .. n /\ n - k - 1 = n - (k + 1)
    BY <1>1, <1>5
  <2> QED
    BY <1>1, <1>3, <2>1 DEF Turns
<1> QED
  BY <1>1, <1>4, <1>5

\* The side to move made every second move before: the other side made the last one.
LEMMA Sides ==
  ASSUME TypeOK, Turns, NEW n \in Nat
  PROVE  /\ 2 * n <= Len(states) - 1 => Back(2 * n).key[2] = st.key[2]
         /\ 2 * n + 1 <= Len(states) - 1 => Back(2 * n + 1).key[2] = Other(st.key[2])
<1> DEFINE us == st.key[2]
           Side(j) == /\ 2 * j <= Len(states) - 1 => Back(2 * j).key[2] = us
                      /\ 2 * j + 1 <= Len(states) - 1 => Back(2 * j + 1).key[2] = Other(us)
           S == {j \in Nat : Side(j)}
<1>1. Len(states) \in Nat \ {0} /\ st = Back(0) /\ us \in Color
  BY Current, KeyFacts DEF st
<1>2. ASSUME NEW k \in 0 .. Len(states) - 1, k + 1 <= Len(states) - 1
      PROVE  Back(k + 1).key[2] \in Color /\ Back(k + 1).key[2] = Other(Back(k).key[2])
  <2>1. k + 1 \in 0 .. Len(states) - 1
    BY <1>1, <1>2
  <2>2. Back(k + 1).key[2] \in Color
    BY <2>1, BackFacts, KeyFacts
  <2>3. Back(k).key[2] = Other(Back(k + 1).key[2])
    BY <1>2, BackFacts
  <2> QED
    BY <2>2, <2>3, Others
<1>3. 0 \in S
  <2>1. 2 * 0 = 0 /\ 2 * 0 + 1 = 1 /\ 0 + 1 = 1 /\ 0 \in 0 .. Len(states) - 1
    BY <1>1
  <2>2. 1 <= Len(states) - 1 => Back(1).key[2] = Other(us)
    BY <1>1, <1>2, <2>1
  <2> QED
    BY <1>1, <2>1, <2>2
<1>4. ASSUME NEW j \in Nat, j \in S
      PROVE  j + 1 \in S
  <2>0. 2 * (j + 1) = 2 * j + 1 + 1 /\ 2 * (j + 1) + 1 = 2 * j + 2 + 1 /\ 2 * j + 2 = 2 * j + 1 + 1 /\ 2 * j + 1 \in Nat
    OBVIOUS
  <2>1. ASSUME 2 * j + 2 <= Len(states) - 1
        PROVE  Back(2 * j + 2).key[2] = us
    <3>1. 2 * j + 1 \in 0 .. Len(states) - 1 /\ 2 * j + 1 <= Len(states) - 1 /\ 2 * j + 1 + 1 <= Len(states) - 1
      BY <1>1, <2>1
    <3>2. Back(2 * j + 1).key[2] = Other(us)
      BY <1>4, <3>1
    <3>3. Back(2 * j + 1 + 1).key[2] = Other(Other(us))
      BY <1>2, <3>1, <3>2
    <3> QED
      BY <1>1, <2>0, <3>3, Others
  <2>2. ASSUME 2 * j + 2 + 1 <= Len(states) - 1
        PROVE  Back(2 * j + 2 + 1).key[2] = Other(us)
    <3>1. 2 * j + 2 \in 0 .. Len(states) - 1 /\ 2 * j + 2 <= Len(states) - 1
      BY <1>1, <2>2
    <3>2. Back(2 * j + 2).key[2] = us
      BY <2>1, <3>1
    <3> QED
      BY <1>2, <2>2, <3>1, <3>2
  <2>3. Side(j + 1)
    <3>1. 2 * (j + 1) = 2 * j + 2
      OBVIOUS
    <3> QED
      BY <2>1, <2>2, <3>1
  <2> QED
    BY <2>3
<1>5. n \in S
  <2> HIDE DEF S
  <2> QED
    BY <1>3, <1>4, Induction
<1> QED
  BY <1>5

\* The window lies in the chain, and is the run of quiet moves.
LEMMA InWindow ==
  ASSUME IInv
  PROVE  Window \in 0 .. Len(states) - 1 /\ QuietRun = Window
<1>1. Len(states) \in Nat \ {0} /\ st = states[Len(states)] /\ st \in StateInfo
  BY Current DEF IInv
<1>2. Window = WindowOf(st) /\ WindowOf(st) \in Nat
  BY <1>1, WindowFacts DEF Window, WindowOf, Plies
<1>3. Len(states) \in 1 .. Len(states)
  BY <1>1
<1>4. RunAt(Len(states))
  BY <1>3 DEF IInv, Runs
<1>5. WindowOf(st) <= Len(states) - 1
  BY <1>1, <1>4 DEF RunAt
<1> QED
  BY <1>1, <1>2, <1>5, RunIsWindow

\* A repetition is a position with the same side to move.
LEMMA RepeatsEven ==
  ASSUME IInv, Turns, NEW k \in Repeats
  PROVE  /\ k \in 4 .. Window /\ Back(k).key = st.key
         /\ \E n \in Nat \ {0} : k = 2 * n + 2
<1>1. k \in 4 .. Window /\ Back(k).key = st.key
  BY InWindow DEF Repeats
<1>2. TypeOK /\ Len(states) \in Nat \ {0} /\ Window \in 0 .. Len(states) - 1 /\ st.key[2] \in Color
  BY Current, InWindow, KeyFacts DEF IInv
<1>3. PICK n \in Nat : k = 2 * n \/ k = 2 * n + 1
  <2>1. k \in Nat
    BY <1>1
  <2> QED
    BY <2>1, EvenOrOdd
<1>4. k # 2 * n + 1
  <2> SUFFICES ASSUME k = 2 * n + 1
               PROVE  FALSE
    OBVIOUS
  <2>1. 2 * n + 1 <= Len(states) - 1
    BY <1>1, <1>2
  <2>2. Back(k).key[2] = Other(st.key[2])
    BY <1>2, <2>1, Sides
  <2> QED
    BY <1>1, <1>2, <2>2, Others
<1>5. n - 1 \in Nat \ {0} /\ k = 2 * (n - 1) + 2
  BY <1>1, <1>2, <1>3, <1>4
<1> QED
  BY <1>1, <1>5

\* The same key, the same check.
LEMMA SameCheck ==
  ASSUME TypeOK, Turns, NEW k \in 0 .. Len(states) - 1, Back(k).key = st.key
  PROVE  Back(k).checkers <=> st.checkers
<1>1. IsLegal(Back(k)) /\ IsLegal(st)
  <2>1. 0 \in 0 .. Len(states) - 1
    BY Current
  <2> QED
    BY <2>1, BackFacts DEF st
<1> QED
  BY <1>1 DEF IsLegal

-----------------------------------------------------------------------------
(***************************************************************************)
(* What the sides have done on the last plies.                             *)
(***************************************************************************)
\* The opponent, or the side to move, has given check with each of the last moves.
IsTheirs(n) == \A j \in 0 .. n : Back(2 * j).checkers
IsOurs(n) == \A j \in 0 .. n : Back(2 * j + 1).checkers

\* The moves that the rules look at are those that the loop does.
LEMMA EveryCheck ==
  ASSUME TypeOK, Turns, NEW n \in Nat, 2 * n + 2 <= Len(states) - 1
  PROVE  /\ EveryMove(st.key[2], 2 * n + 2, LAMBDA j : Back(j).checkers) <=> IsOurs(n)
         /\ EveryMove(Other(st.key[2]), 2 * n + 2, LAMBDA j : Back(j).checkers) <=> IsTheirs(n)
<1> DEFINE us == st.key[2]
           k == 2 * n + 2
           Every(c) == \A j \in 0 .. k - 1 : Back(j + 1).key[2] = c => Back(j).checkers
<1>1. Len(states) \in Nat \ {0} /\ us \in Color /\ Other(us) # us
  BY Current, KeyFacts, Others
<1>2. ASSUME NEW j \in 0 .. n
      PROVE  /\ 2 * j \in 0 .. k - 1 /\ 2 * j + 1 \in 0 .. k - 1
             /\ Back(2 * j + 1).key[2] = Other(us) /\ Back(2 * j + 1 + 1).key[2] = us
  <2>1. 2 * j \in 0 .. k - 1 /\ 2 * j + 1 \in 0 .. k - 1
    BY <1>1
  <2>2. j + 1 \in Nat /\ 2 * (j + 1) = 2 * j + 1 + 1 /\ 2 * j + 1 <= Len(states) - 1 /\ 2 * (j + 1) <= Len(states) - 1
    BY <1>1
  <2>3. Back(2 * j + 1).key[2] = Other(us)
    BY <2>2, Sides
  <2>4. Back(2 * (j + 1)).key[2] = us
    BY <2>2, Sides
  <2> QED
    BY <2>1, <2>2, <2>3, <2>4
<1>3. ASSUME NEW j \in 0 .. k - 1
      PROVE  \E m \in 0 .. n : j = 2 * m \/ j = 2 * m + 1
  <2>0. j \in Nat
    OBVIOUS
  <2>1. PICK m \in Nat : j = 2 * m \/ j = 2 * m + 1
    BY <2>0, EvenOrOdd
  <2>2. m \in 0 .. n
    BY <2>1
  <2> QED
    BY <2>1, <2>2
<1>4. Every(us) <=> IsOurs(n)
  <2>1. ASSUME Every(us), NEW m \in 0 .. n
        PROVE  Back(2 * m + 1).checkers
    BY <1>2, <2>1
  <2>2. ASSUME IsOurs(n), NEW j \in 0 .. k - 1, Back(j + 1).key[2] = us
        PROVE  Back(j).checkers
    <3>1. PICK m \in 0 .. n : j = 2 * m \/ j = 2 * m + 1
      BY <1>3
    <3>2. j # 2 * m
      BY <1>1, <1>2, <2>2
    <3> QED
      BY <2>2, <3>1, <3>2 DEF IsOurs
  <2> HIDE DEF k, us
  <2> QED
    BY <2>1, <2>2 DEF IsOurs
<1>5. Every(Other(us)) <=> IsTheirs(n)
  <2>1. ASSUME Every(Other(us)), NEW m \in 0 .. n
        PROVE  Back(2 * m).checkers
    BY <1>2, <2>1
  <2>2. ASSUME IsTheirs(n), NEW j \in 0 .. k - 1, Back(j + 1).key[2] = Other(us)
        PROVE  Back(j).checkers
    <3>1. PICK m \in 0 .. n : j = 2 * m \/ j = 2 * m + 1
      BY <1>3
    <3>2. j # 2 * m + 1
      BY <1>1, <1>2, <2>2
    <3> QED
      BY <2>2, <3>1, <3>2 DEF IsTheirs
  <2> HIDE DEF k, us
  <2> QED
    BY <2>1, <2>2 DEF IsTheirs
<1>6. \A c : EveryMove(c, k, LAMBDA j : Back(j).checkers) <=> Every(c)
  BY DEF EveryMove
<1> HIDE DEF Every
<1> QED
  BY <1>4, <1>5, <1>6

\* What a side may have begun to chase with each of its moves on the last i plies.
Begun(c, i) == {p \in Piece : \A j \in 0 .. i - 1 : Back(j + 1).key[2] = c => p \in NewChase(j)}

Walk == [chase : [Color -> SUBSET Piece], over : BOOLEAN]

\* Where the walk of detect_chases() stands after i plies.
IsWalked(w, i) ==
  /\ w \in Walk
  /\ w.over => /\ \A c \in Color : w.chase[c] = {}
               /\ \/ \E j \in 0 .. i - 1 : Back(j).checkers
                  \/ \A c \in Color : Begun(c, i) = {}
  /\ ~w.over => /\ \A j \in 0 .. i - 1 : ~Back(j).checkers
                /\ \A c \in Color : w.chase[c] = Begun(c, i)

\* One ply more.
LEMMA BegunNext ==
  ASSUME NEW c, NEW i \in Nat
  PROVE  Begun(c, i + 1) = IF Back(i + 1).key[2] = c THEN Begun(c, i) \cap NewChase(i) ELSE Begun(c, i)
<1>1. \A j : j \in 0 .. i + 1 - 1 <=> j \in 0 .. i - 1 \/ j = i
  OBVIOUS
<1> QED
  BY <1>1 DEF Begun

\* The walk one ply further back.
LEMMA Rolled ==
  ASSUME TypeOK, Turns, NEW i \in Nat, i + 1 <= Len(states) - 1, NEW w, IsWalked(w, i)
  PROVE  IsWalked(Roll(w, i), i + 1)
<1>0. PICK v : v = Roll(w, i)
  OBVIOUS
<1> SUFFICES IsWalked(v, i + 1)
  BY <1>0
<1> DEFINE mover == Back(i + 1).key[2]
<1>1. mover \in Color
  <2>1. i + 1 \in 0 .. Len(states) - 1
    BY Current
  <2> QED
    BY <2>1, BackFacts, KeyFacts
<1>2. /\ Other(mover) \in Color /\ Other(mover) # mover
      /\ \A c \in Color : c = mover \/ c = Other(mover)
  BY <1>1, Others
<1>3. /\ Begun(mover, i + 1) = Begun(mover, i) \cap NewChase(i)
      /\ \A c \in Color : c # mover => Begun(c, i + 1) = Begun(c, i)
      /\ \A c \in Color : Begun(c, i) = {} => Begun(c, i + 1) = {}
  BY BegunNext
<1>4. \A j : j \in 0 .. i + 1 - 1 <=> j \in 0 .. i - 1 \/ j = i
  OBVIOUS
<1>5. w \in Walk /\ w.over \in BOOLEAN /\ w.chase \in [Color -> SUBSET Piece]
  BY DEF IsWalked, Walk
<1> HIDE DEF mover
<1>6. CASE w.over
  <2>1. v = w
    BY <1>0, <1>6 DEF Roll
  <2> QED
    BY <1>3, <1>4, <1>6, <2>1 DEF IsWalked
<1>7. CASE ~w.over /\ Back(i).checkers
  <2>1. v = [chase |-> [c \in Color |-> {}], over |-> TRUE]
    BY <1>0, <1>7 DEF Roll
  <2>2. v \in Walk /\ v.over /\ \A c \in Color : v.chase[c] = {}
    BY <2>1 DEF Walk
  <2>3. i \in 0 .. i + 1 - 1
    OBVIOUS
  <2> QED
    BY <1>7, <2>2, <2>3 DEF IsWalked
<1>8. CASE ~w.over /\ ~Back(i).checkers /\ w.chase[mover] # {}
  <2>1. v = [w EXCEPT !.chase[mover] = w.chase[mover] \cap NewChase(i)]
    BY <1>0, <1>8 DEF Roll, mover
  <2>2. v \in Walk /\ ~v.over /\ v.chase = [w.chase EXCEPT ![mover] = w.chase[mover] \cap NewChase(i)]
    <3>1. v = [chase |-> [w.chase EXCEPT ![mover] = w.chase[mover] \cap NewChase(i)], over |-> w.over]
      BY <2>1, <1>5 DEF Walk
    <3>2. [w.chase EXCEPT ![mover] = w.chase[mover] \cap NewChase(i)] \in [Color -> SUBSET Piece]
      BY <1>1, <1>5
    <3> QED
      BY <1>5, <1>8, <3>1, <3>2 DEF Walk
  <2>3. \A c \in Color : v.chase[c] = Begun(c, i + 1)
    <3>1. v.chase[mover] = w.chase[mover] \cap NewChase(i)
      BY <1>1, <1>5, <2>2
    <3>2. \A c \in Color : c # mover => v.chase[c] = w.chase[c]
      BY <1>5, <2>2
    <3>3. \A c \in Color : w.chase[c] = Begun(c, i)
      BY <1>8 DEF IsWalked
    <3> QED
      BY <1>1, <1>3, <3>1, <3>2, <3>3
  <2>4. \A j \in 0 .. i + 1 - 1 : ~Back(j).checkers
    BY <1>4, <1>8 DEF IsWalked
  <2>5. v \in Walk /\ ~v.over
    BY <2>2
  <2> QED
    BY <2>3, <2>4, <2>5 DEF IsWalked
<1>9. CASE ~w.over /\ ~Back(i).checkers /\ w.chase[mover] = {}
  <2>1. v = [w EXCEPT !.over = w.chase[Other(mover)] = {}]
    BY <1>0, <1>9 DEF Roll, mover
  <2>2. v \in Walk /\ v.chase = w.chase /\ (v.over <=> w.chase[Other(mover)] = {})
    <3>1. v = [chase |-> w.chase, over |-> w.chase[Other(mover)] = {}]
      BY <2>1, <1>5 DEF Walk
    <3> QED
      BY <1>5, <3>1 DEF Walk
  <2>3. \A c \in Color : w.chase[c] = Begun(c, i)
    BY <1>9 DEF IsWalked
  <2>4. \A c \in Color : v.chase[c] = Begun(c, i + 1)
    BY <1>1, <1>3, <1>9, <2>2, <2>3
  <2>5. \A j \in 0 .. i + 1 - 1 : ~Back(j).checkers
    BY <1>4, <1>9 DEF IsWalked
  <2>6. v.over => \A c \in Color : v.chase[c] = {}
    BY <1>2, <1>9, <2>2
  <2> QED
    BY <2>2, <2>4, <2>5, <2>6 DEF IsWalked
<1> QED
  BY <1>6, <1>7, <1>8, <1>9

\* What detect_chases() finds, without a walk.
Chasing(d) ==
  LET Pursues(c) == Begun(c, d) # {}
  IN IF \E j \in 0 .. d - 1 : Back(j).checkers THEN "draw"
     ELSE Verdict(Pursues(st.key[2]), Pursues(Other(st.key[2])))

\* The walk ends early only where nothing more can change.
LEMMA ChasesDetected ==
  ASSUME TypeOK, Turns, NEW d \in 1 .. Len(states) - 1
  PROVE  DetectChases(d) = Chasing(d)
<1> DEFINE base == [chase |-> [c \in Color |-> Piece], over |-> FALSE]
           D(i) == {w \in Walk : IsWalked(w, i)}
           Solves(g) == g = [n \in 0 .. d |-> IF n = 0 THEN base ELSE Roll(g[n - 1], n - 1)]
<1>1. Len(states) \in Nat /\ d \in Nat /\ st.key[2] \in Color
  BY Current, KeyFacts
<1>2. base \in Walk /\ IsWalked(base, 0)
  <2>1. base \in Walk /\ ~base.over /\ \A c \in Color : base.chase[c] = Piece
    BY DEF Walk
  <2>2. \A c \in Color : Begun(c, 0) = Piece
    BY DEF Begun
  <2>3. \A j \in 0 .. 0 - 1 : FALSE
    OBVIOUS
  <2> HIDE DEF base
  <2> QED
    BY <2>1, <2>2, <2>3 DEF IsWalked
<1>3. \A w \in Walk, n \in 1 .. d : Roll(w, n - 1) \in Walk
  <2> SUFFICES ASSUME NEW w \in Walk, NEW n \in 1 .. d
               PROVE  Roll(w, n - 1) \in Walk
    OBVIOUS
  <2> DEFINE k == n - 1
             mover == Back(k + 1).key[2]
  <2>1. w.over \in BOOLEAN /\ w.chase \in [Color -> SUBSET Piece] /\ w = [chase |-> w.chase, over |-> w.over]
    BY DEF Walk
  <2>2. mover \in Color
    <3>1. k + 1 \in 0 .. Len(states) - 1
      BY <1>1
    <3> HIDE DEF k
    <3> QED
      BY <3>1, BackFacts, KeyFacts
  <2>3. [chase |-> [c \in Color |-> {}], over |-> TRUE] \in Walk
    BY DEF Walk
  <2>4. ASSUME NEW v, v = [w EXCEPT !.chase[mover] = w.chase[mover] \cap NewChase(k)]
        PROVE  v \in Walk
    <3> HIDE DEF mover, k
    <3>1. v = [chase |-> [w.chase EXCEPT ![mover] = w.chase[mover] \cap NewChase(k)], over |-> w.over]
      BY <2>1, <2>4 DEF Walk
    <3>2. [w.chase EXCEPT ![mover] = w.chase[mover] \cap NewChase(k)] \in [Color -> SUBSET Piece]
      BY <2>1, <2>2
    <3> QED
      BY <2>1, <3>1, <3>2 DEF Walk
  <2>5. [w EXCEPT !.over = w.chase[Other(mover)] = {}] \in Walk
    <3> HIDE DEF mover, k
    <3> QED
      BY <2>1 DEF Walk
  <2>6. Roll(w, k) \in {w, [chase |-> [c \in Color |-> {}], over |-> TRUE],
                        [w EXCEPT !.chase[mover] = w.chase[mover] \cap NewChase(k)],
                        [w EXCEPT !.over = w.chase[Other(mover)] = {}]}
    BY DEF Roll
  <2> HIDE DEF mover, k
  <2>7. Roll(w, k) \in Walk
    BY <2>3, <2>4, <2>5, <2>6
  <2> QED
    BY <2>7 DEF k
<1>4. PICK f : Solves(f)
  <2> DEFINE step == [p \in Walk \X (1 .. d) |-> Roll(p[1], p[2] - 1)]
  <2>1. step \in [Walk \X (1 .. d) -> Walk]
    BY <1>3
  <2>2. PICK f \in [0 .. d -> Walk] : IsUnfolded(f, d, base, step)
    <3> HIDE DEF step, base
    <3> QED
      BY <1>1, <1>2, <2>1, Unfolded
  <2>3. ASSUME NEW k \in 0 .. d
        PROVE  f[k] = IF k = 0 THEN base ELSE Roll(f[k - 1], k - 1)
    <3>1. k # 0 => k - 1 \in 0 .. d /\ k \in 1 .. d
      BY <1>1
    <3>2. k # 0 => <<f[k - 1], k>> \in Walk \X (1 .. d)
      BY <3>1
    <3>3. k # 0 => step[<<f[k - 1], k>>] = Roll(f[k - 1], k - 1)
      BY <3>2
    <3>4. f[k] = IF k = 0 THEN base ELSE step[<<f[k - 1], k>>]
      <4> HIDE DEF step, base
      <4> QED
        BY <2>2 DEF IsUnfolded
    <3> QED
      BY <3>3, <3>4
  <2>4. f = [k \in 0 .. d |-> f[k]]
    <3> HIDE DEF step, base
    <3> QED
      BY <2>2
  <2>5. Solves(f)
    <3> HIDE DEF base
    <3> QED
      BY <2>3, <2>4
  <2> HIDE DEF Solves
  <2> QED
    BY <2>5
<1>5. PICK g : Solves(g) /\ g = (CHOOSE h : Solves(h))
  <2> HIDE DEF Solves
  <2> QED
    BY <1>4
<1>6. g[0] = base /\ \A n \in 1 .. d : g[n] = Roll(g[n - 1], n - 1)
  <2>1. Solves(g)
    <3> HIDE DEF Solves
    <3> QED
      BY <1>5
  <2> HIDE DEF base
  <2>2. \A n \in 0 .. d : g[n] = IF n = 0 THEN base ELSE Roll(g[n - 1], n - 1)
    BY <2>1
  <2> QED
    BY <1>1, <2>2
<1> DEFINE S == {n \in Nat : n <= d => IsWalked(g[n], n)}
<1>7. 0 \in S
  BY <1>2, <1>6
<1>8. ASSUME NEW n \in Nat, n \in S
      PROVE  n + 1 \in S
  <2> SUFFICES ASSUME n + 1 <= d
               PROVE  IsWalked(g[n + 1], n + 1)
    OBVIOUS
  <2>1. n + 1 \in 1 .. d /\ n + 1 - 1 = n /\ n + 1 <= Len(states) - 1 /\ n <= d
    BY <1>1
  <2>2. g[n + 1] = Roll(g[n], n)
    BY <1>6, <2>1
  <2>3. IsWalked(g[n], n)
    BY <1>8, <2>1
  <2> QED
    BY <2>1, <2>2, <2>3, Rolled
<1>9. IsWalked(g[d], d)
  <2>1. d \in S
    <3> HIDE DEF S
    <3> QED
      BY <1>1, <1>7, <1>8, Induction
  <2> QED
    BY <1>1, <2>1
<1>10. DetectChases(d) = Verdict(g[d].chase[st.key[2]] # {}, g[d].chase[Other(st.key[2])] # {})
  BY <1>5 DEF DetectChases
<1>11. st.key[2] \in Color /\ Other(st.key[2]) \in Color
  BY <1>1, Others
<1>12. CASE g[d].over
  <2>1. DetectChases(d) = "draw"
    BY <1>9, <1>10, <1>11, <1>12 DEF IsWalked, Verdict
  <2> QED
    BY <1>9, <1>11, <1>12, <2>1 DEF IsWalked, Chasing, Verdict
<1>13. CASE ~g[d].over
  BY <1>9, <1>10, <1>11, <1>13 DEF IsWalked, Chasing
<1> QED
  BY <1>12, <1>13

\* What the loop finds at a repetition is the sentence of the rules.
LEMMA Judging ==
  ASSUME TypeOK, Turns, NEW n \in Nat, 2 * n + 2 <= Len(states) - 1, Back(2 * n + 2).key = st.key
  PROVE  /\ Sentence(2 * n + 2) = IF ~IsTheirs(n) /\ ~IsOurs(n) THEN DetectChases(2 * n + 2)
                                  ELSE Verdict(IsOurs(n), IsTheirs(n))
         /\ IsTheirs(n + 1) <=> IsTheirs(n)
<1>1. PICK k \in 1 .. Len(states) - 1 : k = 2 * n + 2
  <2>1. 2 * n + 2 \in 1 .. Len(states) - 1
    BY Current
  <2> QED
    BY <2>1
<1>2. PICK us \in Color : us = st.key[2]
  BY Current, KeyFacts
<1>3. Color = {us, Other(us)}
  BY Others
<1>4. /\ EveryMove(us, k, LAMBDA j : Back(j).checkers) <=> IsOurs(n)
      /\ EveryMove(Other(us), k, LAMBDA j : Back(j).checkers) <=> IsTheirs(n)
  BY <1>1, <1>2, EveryCheck
<1>5. \A c : EveryMove(c, k, LAMBDA j : Back(j).checkers)
               <=> \A j \in 0 .. k - 1 : Back(j + 1).key[2] = c => Back(j).checkers
  BY DEF EveryMove
<1>6. DetectChases(k) = Chasing(k)
  BY ChasesDetected
<1>7. \A c : (\E p \in Piece : EveryMove(c, k, LAMBDA j : p \in NewChase(j))) <=> Begun(c, k) # {}
  BY DEF EveryMove, Begun
<1>8. Sentence(k) = IF ~IsTheirs(n) /\ ~IsOurs(n) THEN DetectChases(k)
                    ELSE Verdict(IsOurs(n), IsTheirs(n))
  <2> DEFINE E(c) == \A j \in 0 .. k - 1 : Back(j + 1).key[2] = c => Back(j).checkers
             P(c) == Begun(c, k) # {}
  <2>1. Sentence(k) = IF \E c \in Color : E(c) THEN Verdict(E(us), E(Other(us)))
                      ELSE IF \E j \in 0 .. k - 1 : Back(j).checkers THEN "draw"
                      ELSE Verdict(P(us), P(Other(us)))
    BY <1>2 DEF Sentence, EveryMove, Begun
  <2>2. (E(us) <=> IsOurs(n)) /\ (E(Other(us)) <=> IsTheirs(n))
    BY <1>4, <1>5
  <2>3. Chasing(k) = IF \E j \in 0 .. k - 1 : Back(j).checkers THEN "draw"
                     ELSE Verdict(P(us), P(Other(us)))
    BY <1>2 DEF Chasing
  <2> HIDE DEF E, P
  <2> QED
    BY <1>3, <1>6, <2>1, <2>2, <2>3 DEF Verdict
<1>9. IsTheirs(n + 1) <=> IsTheirs(n)
  <2>1. \A j : j \in 0 .. n + 1 <=> j \in 0 .. n \/ j = n + 1
    OBVIOUS
  <2>2. 2 * (n + 1) = k /\ 2 * 0 = 0 /\ 0 \in 0 .. n
    BY <1>1
  <2>3. Back(k).checkers <=> Back(0).checkers
    <3>1. k \in 0 .. Len(states) - 1 /\ Back(k).key = st.key
      BY <1>1
    <3> QED
      BY <3>1, SameCheck DEF st
  <2> QED
    BY <2>1, <2>2, <2>3 DEF IsTheirs
<1> QED
  BY <1>1, <1>8, <1>9

-----------------------------------------------------------------------------
(***************************************************************************)
(* The loop over the repetitions.                                          *)
(***************************************************************************)
IsOursIn(n) == \A j \in 0 .. n : 2 * j + 1 <= Window => Back(2 * j + 1).checkers

\* The first repetition, and the one after it.
IsFirst(f) == f \in Repeats /\ \A k \in Repeats : f <= k
IsSecond(f, g) == g \in Repeats /\ g # f /\ \A k \in Repeats : k = f \/ g <= k

Results == {"none", "draw", "loss", "win"}

Seen == [done : BOOLEAN, over : BOOLEAN, result : Results, cnt : Nat, them : BOOLEAN, us : BOOLEAN]

\* No repetition up to i plies back, or one that has not ended the loop.
IsOpen(s, i, ply) ==
  \/ s.cnt = 0 /\ s.result = "none" /\ \A k \in Repeats : k > i
  \/ \E f \in Repeats :
       /\ s.cnt = 1 /\ f <= i /\ \A k \in Repeats : k = f \/ k > i
       /\ s.result = IF ply > f THEN Sentence(f) ELSE "none"
       /\ ply > f => Sentence(f) # "draw" /\ filter[Slot[st.key]] > 1

\* The loop has ended as the rules say.
IsClosed(s, ply) ==
  \E f \in Repeats :
    /\ IsFirst(f)
    /\ \/ ply > f /\ Sentence(f) = "draw" /\ s.over /\ s.result = "draw"
       \/ /\ ~(ply > f /\ Sentence(f) = "draw")
          /\ \E g \in Repeats : IsSecond(f, g) /\ s.over /\ s.result = Sentence(g)
       \/ /\ ply > f /\ Sentence(f) # "draw" /\ filter[Slot[st.key]] <= 1
          /\ s.result = Sentence(f) /\ (s.over <=> Inevitable(f))

\* Where the loop of rule_judge() stands after the state 2 * m + 2 plies back.
IsLooked(s, m, ply) ==
  /\ s \in Seen
  /\ s.done => IsClosed(s, ply)
  /\ ~s.done => /\ ~s.over
                /\ s.them <=> IsTheirs(m + 1)
                /\ s.us <=> IsOursIn(m + 1)
                /\ IsOpen(s, 2 * m + 2, ply)

\* A verdict.
LEMMA Verdicts ==
  ASSUME NEW d, NEW a, NEW b
  PROVE  Verdict(a, b) \in Results /\ DetectChases(d) \in Results
BY DEF Verdict, DetectChases, Results

\* What one turn of the loop does.
LEMMA OneLook ==
  ASSUME IInv, Turns, NEW m \in Nat, 2 * m + 4 <= Window, NEW ply \in Int,
         NEW s, IsLooked(s, m, ply)
  PROVE  IsLooked(Look(s, 2 * m + 4, ply), m + 1, ply)
<1>0. PICK v, i : v = Look(s, i, ply) /\ i = 2 * m + 4
  OBVIOUS
<1> SUFFICES IsLooked(v, m + 1, ply)
  BY <1>0
<1> DEFINE them == s.them /\ Back(i).checkers
           same == Back(i).key = st.key
           cnt == s.cnt + IF same THEN 1 ELSE 0
           judged == cnt > s.cnt /\ (cnt = 2 \/ ply > i)
           result == IF ~judged THEN s.result
                     ELSE IF ~them /\ ~s.us THEN DetectChases(i)
                     ELSE Verdict(s.us, them)
           final == judged /\ (result = "draw" \/ cnt = 2)
           last == judged /\ ~final /\ filter[Slot[st.key]] <= 1
           forced == /\ last
                     /\ st.rule60 < Rule60
                     /\ Back(1).key = Back(i + 1).key
                     /\ \A j \in 2 .. i - 1 : filter[Slot[Back(j).key]] <= 1
           us == s.us /\ (i + 1 <= Window => Back(i + 1).checkers)
<1>1. v = IF s.done THEN s
          ELSE [done |-> final \/ last, over |-> final \/ forced, result |-> result,
                cnt |-> cnt, them |-> them, us |-> us]
  BY <1>0 DEF Look
<1>2. CASE s.done
  BY <1>1, <1>2 DEF IsLooked
<1>3. CASE ~s.done
  <2>0. TypeOK /\ Window \in 0 .. Len(states) - 1 /\ QuietRun = Window /\ Len(states) \in Nat
    BY InWindow, Current DEF IInv
  <2>1. i \in Nat /\ i = 2 * (m + 1) + 2 /\ i = 2 * (m + 2) /\ m + 1 \in Nat /\ i \in 0 .. Len(states) - 1
    BY <1>0, <2>0
  <2>2. s \in Seen /\ s.cnt \in Nat /\ s.result \in Results /\ s.us \in BOOLEAN /\ s.them \in BOOLEAN
    BY DEF IsLooked, Seen
  <2>3. /\ s.them <=> IsTheirs(m + 1)
        /\ s.us <=> IsOursIn(m + 1)
        /\ IsOpen(s, 2 * m + 2, ply)
    BY <1>3 DEF IsLooked
  <2>4. them <=> IsTheirs(m + 2)
    <3>1. \A j : j \in 0 .. m + 2 <=> j \in 0 .. m + 1 \/ j = m + 2
      OBVIOUS
    <3> QED
      BY <2>1, <2>3, <3>1 DEF IsTheirs
  <2>5. us <=> IsOursIn(m + 2)
    <3>1. \A j : j \in 0 .. m + 2 <=> j \in 0 .. m + 1 \/ j = m + 2
      OBVIOUS
    <3>2. 2 * (m + 2) + 1 = i + 1
      BY <2>1
    <3> QED
      BY <2>1, <2>3, <3>1, <3>2 DEF IsOursIn
  <2>6. IsOurs(m + 1) <=> s.us
    <3>1. \A j \in 0 .. m + 1 : 2 * j + 1 <= Window
      BY <2>0
    <3> QED
      BY <2>3, <3>1 DEF IsOurs, IsOursIn
  <2>7. v = [done |-> final \/ last, over |-> final \/ forced, result |-> result,
             cnt |-> cnt, them |-> them, us |-> us]
    BY <1>1, <1>3
  <2>8. /\ v.done <=> final \/ last
        /\ v.over <=> final \/ forced
        /\ v.result = result /\ v.cnt = cnt
        /\ v.them <=> them
        /\ v.us <=> us
    <3> HIDE DEF final, last, forced, them, us, result, cnt
    <3> QED
      BY <2>7
  <2>9. cnt \in Nat /\ result \in Results
    <3>1. cnt \in Nat
      BY <2>2
    <3>2. result \in Results
      <4> HIDE DEF judged, them
      <4> QED
        BY <2>2, Verdicts
    <3> QED
      BY <3>1, <3>2
  <2>10. v \in Seen
    <3>1. (final \/ last) \in BOOLEAN /\ (final \/ forced) \in BOOLEAN /\ them \in BOOLEAN /\ us \in BOOLEAN
      <4> HIDE DEF judged, result, cnt
      <4> QED
        OBVIOUS
    <3> HIDE DEF final, last, forced, them, us, result, cnt
    <3> QED
      BY <2>7, <2>9, <3>1 DEF Seen
  <2>11. \A k \in Repeats : k > 2 * m + 2 => k = i \/ k > i
    <3>1. ASSUME NEW k \in Repeats, k > 2 * m + 2
          PROVE  k = i \/ k > i
      <4>1. PICK n \in Nat \ {0} : k = 2 * n + 2
        BY RepeatsEven
      <4> QED
        BY <2>1, <3>1, <4>1
    <3> QED
      BY <3>1
  <2>12. i \in Repeats <=> same
    BY <2>0, <2>1 DEF Repeats
  <2>13. same => /\ Sentence(i) = IF ~them /\ ~s.us THEN DetectChases(i) ELSE Verdict(s.us, them)
                 /\ them <=> IsTheirs(m + 1)
    <3> SUFFICES ASSUME same
                 PROVE  /\ Sentence(i) = IF ~them /\ ~s.us THEN DetectChases(i) ELSE Verdict(s.us, them)
                        /\ them <=> IsTheirs(m + 1)
      OBVIOUS
    <3>1. 2 * (m + 1) + 2 <= Len(states) - 1 /\ Back(2 * (m + 1) + 2).key = st.key /\ m + 1 + 1 = m + 2
      BY <2>0, <2>1
    <3>2. /\ Sentence(2 * (m + 1) + 2) = IF ~IsTheirs(m + 1) /\ ~IsOurs(m + 1) THEN DetectChases(2 * (m + 1) + 2)
                                         ELSE Verdict(IsOurs(m + 1), IsTheirs(m + 1))
          /\ IsTheirs(m + 2) <=> IsTheirs(m + 1)
      BY <2>0, <2>1, <3>1, Judging
    <3> HIDE DEF them, same
    <3> QED
      BY <2>1, <2>4, <2>6, <3>2 DEF Verdict
  <2>14. \A j \in 2 .. i - 1 : filter[Slot[Back(j).key]] = Visits(Slot[Back(j).key])
    <3>1. ASSUME NEW j \in 2 .. i - 1
          PROVE  filter[Slot[Back(j).key]] = Visits(Slot[Back(j).key])
      <4>1. j \in 0 .. Len(states) - 1
        BY <2>0, <2>1
      <4> QED
        BY <2>0, <4>1, BackFacts, KeyFacts DEF IInv, Counted
    <3> QED
      BY <3>1
  <2>15. filter[Slot[st.key]] = Visits(Slot[Back(0).key])
    BY <2>0, Current, KeyFacts DEF IInv, Counted, st
  <2>16. last => (forced <=> Inevitable(i))
    <3>1. \A j : j \in {0} \cup 2 .. i - 1 <=> j = 0 \/ j \in 2 .. i - 1
      OBVIOUS
    <3>2. last => Visits(Slot[Back(0).key]) <= 1
      BY <2>15
    <3> HIDE DEF last
    <3> QED
      BY <2>14, <3>1, <3>2 DEF Inevitable
  <2>17. \A k \in Repeats : k \in Nat
    BY <2>0 DEF Repeats
  <2>18. filter[Slot[st.key]] \in Nat
    BY <2>0, Current, KeyFacts, HistoryAssumption DEF TypeOK
  <2>20. (v.them <=> IsTheirs(m + 2)) /\ (v.us <=> IsOursIn(m + 2)) /\ m + 1 + 1 = m + 2
    BY <2>4, <2>5, <2>8
  <2>21. ASSUME v.done => IsClosed(v, ply), ~v.done => ~v.over /\ IsOpen(v, i, ply)
         PROVE  IsLooked(v, m + 1, ply)
    BY <2>1, <2>10, <2>20, <2>21 DEF IsLooked
  <2> HIDE DEF them, us, forced
  <2>22. CASE ~same
    <3>1. cnt = s.cnt
      BY <2>2, <2>22
    <3>2. ~judged /\ ~final /\ ~last
      BY <2>2, <3>1
    <3>3. ~forced /\ result = s.result
      BY <3>2 DEF forced
    <3>4. ~v.done /\ ~v.over /\ v.cnt = s.cnt /\ v.result = s.result
      <4> HIDE DEF cnt, final, last, result
      <4> QED
        BY <2>8, <3>1, <3>2, <3>3
    <3>5. \A k \in Repeats : k > 2 * m + 2 => k > i
      BY <2>11, <2>12, <2>22
    <3>6. \A k \in Repeats : k <= 2 * m + 2 => k <= i
      BY <2>1, RepeatsEven
    <3> HIDE DEF cnt, final, last, result, judged, same
    <3>7. IsOpen(v, i, ply)
      BY <2>3, <3>4, <3>5, <3>6 DEF IsOpen
    <3> QED
      BY <2>21, <3>4, <3>7
  <2>23. CASE same
    <3>1. cnt = s.cnt + 1 /\ i \in Repeats
      BY <2>12, <2>23
    <3>2. judged <=> cnt = 2 \/ ply > i
      BY <2>2, <3>1
    <3>3. judged => result = Sentence(i)
      BY <2>13, <2>23 DEF them
    <3>4. CASE s.cnt = 0 /\ s.result = "none" /\ \A k \in Repeats : k > 2 * m + 2
      <4>1. \A k \in Repeats : i <= k
        BY <2>1, <2>11, <2>17, <3>4
      <4>2. IsFirst(i) /\ cnt = 1 /\ cnt # 2
        BY <3>1, <3>4, <4>1 DEF IsFirst
      <4>3. \A k \in Repeats : k = i \/ k > i
        BY <2>11, <3>4
      <4> HIDE DEF cnt, result, judged, same
      <4>4. CASE ~(ply > i)
        <5>1. ~judged
          BY <3>2, <4>2, <4>4
        <5>2. ~final /\ ~last /\ result = s.result
          BY <5>1 DEF result
        <5>3. ~forced
          BY <5>2 DEF forced
        <5>4. ~v.done /\ ~v.over /\ v.cnt = 1 /\ v.result = "none"
          BY <2>8, <3>4, <4>2, <5>2, <5>3
        <5>5. IsOpen(v, i, ply)
          BY <2>1, <3>1, <4>3, <4>4, <5>4 DEF IsOpen
        <5> QED
          BY <2>21, <5>4, <5>5
      <4>5. CASE ply > i
        <5>1. judged /\ result = Sentence(i)
          BY <3>2, <3>3, <4>5
        <5>2. final <=> Sentence(i) = "draw"
          BY <4>2, <5>1
        <5>3. last <=> ~final /\ filter[Slot[st.key]] <= 1
          BY <5>1
        <5>4. forced => last
          BY DEF forced
        <5> HIDE DEF final, last
        <5>5. CASE final
          <6>1. v.done /\ v.over /\ v.result = "draw"
            BY <2>8, <5>1, <5>2, <5>5
          <6>2. IsClosed(v, ply)
            BY <3>1, <4>2, <4>5, <5>2, <5>5, <6>1 DEF IsClosed
          <6> QED
            BY <2>21, <6>1, <6>2
        <5>6. CASE last
          <6>1. v.done /\ v.result = Sentence(i) /\ (v.over <=> Inevitable(i))
            BY <2>8, <2>16, <5>1, <5>3, <5>6
          <6>2. IsClosed(v, ply)
            BY <3>1, <4>2, <4>5, <5>2, <5>3, <5>6, <6>1 DEF IsClosed
          <6> QED
            BY <2>21, <6>1, <6>2
        <5>7. CASE ~final /\ ~last
          <6>1. ~v.done /\ ~v.over /\ v.cnt = 1 /\ v.result = Sentence(i)
            BY <2>8, <4>2, <5>1, <5>4, <5>7
          <6>2. filter[Slot[st.key]] > 1
            BY <2>18, <5>3, <5>7
          <6>3. IsOpen(v, i, ply)
            BY <2>1, <3>1, <4>3, <4>5, <5>2, <5>7, <6>1, <6>2 DEF IsOpen
          <6> QED
            BY <2>21, <6>1, <6>3
        <5> QED
          BY <5>5, <5>6, <5>7
      <4> QED
        BY <4>4, <4>5
    <3>5. CASE \E f \in Repeats :
                 /\ s.cnt = 1 /\ f <= 2 * m + 2 /\ \A k \in Repeats : k = f \/ k > 2 * m + 2
                 /\ s.result = IF ply > f THEN Sentence(f) ELSE "none"
                 /\ ply > f => Sentence(f) # "draw" /\ filter[Slot[st.key]] > 1
      <4>1. PICK f \in Repeats :
                 /\ s.cnt = 1 /\ f <= 2 * m + 2 /\ \A k \in Repeats : k = f \/ k > 2 * m + 2
                 /\ s.result = IF ply > f THEN Sentence(f) ELSE "none"
                 /\ ply > f => Sentence(f) # "draw" /\ filter[Slot[st.key]] > 1
        BY <3>5
      <4>2. cnt = 2 /\ judged
        BY <3>1, <3>2, <4>1
      <4>3. final /\ result = Sentence(i)
        BY <3>3, <4>2
      <4>4. f \in Nat /\ f < i
        BY <2>1, <2>17, <4>1
      <4>5. IsFirst(f)
        BY <2>17, <4>1, <4>4 DEF IsFirst
      <4>6. IsSecond(f, i)
        BY <2>1, <2>11, <2>17, <3>1, <4>1, <4>4 DEF IsSecond
      <4> HIDE DEF cnt, result, judged, same, final, last
      <4>7. v.done /\ v.over /\ v.result = Sentence(i)
        BY <2>8, <4>3
      <4>8. IsClosed(v, ply)
        BY <3>1, <4>1, <4>5, <4>6, <4>7 DEF IsClosed
      <4> QED
        BY <2>21, <4>7, <4>8
    <3> QED
      BY <2>3, <3>4, <3>5 DEF IsOpen
  <2> QED
    BY <2>22, <2>23
<1> QED
  BY <1>2, <1>3

\* A turn of the loop keeps its types.
LEMMA LookTyped ==
  ASSUME NEW s \in Seen, NEW i, NEW ply
  PROVE  Look(s, i, ply) \in Seen
<1>0. PICK v : v = Look(s, i, ply)
  OBVIOUS
<1> DEFINE them == s.them /\ Back(i).checkers
           cnt == s.cnt + IF Back(i).key = st.key THEN 1 ELSE 0
           judged == cnt > s.cnt /\ (cnt = 2 \/ ply > i)
           result == IF ~judged THEN s.result
                     ELSE IF ~them /\ ~s.us THEN DetectChases(i)
                     ELSE Verdict(s.us, them)
           final == judged /\ (result = "draw" \/ cnt = 2)
           last == judged /\ ~final /\ filter[Slot[st.key]] <= 1
           forced == /\ last
                     /\ st.rule60 < Rule60
                     /\ Back(1).key = Back(i + 1).key
                     /\ \A j \in 2 .. i - 1 : filter[Slot[Back(j).key]] <= 1
           us == s.us /\ (i + 1 <= Window => Back(i + 1).checkers)
           t == [done |-> final \/ last, over |-> final \/ forced, result |-> result,
                 cnt |-> cnt, them |-> them, us |-> us]
<1>1. v = IF s.done THEN s ELSE t
  BY <1>0 DEF Look
<1>2. t \in Seen
  <2>1. s.cnt \in Nat /\ s.result \in Results
    BY DEF Seen
  <2>2. cnt \in Nat
    BY <2>1
  <2>3. result \in Results
    <3> HIDE DEF judged, them
    <3> QED
      BY <2>1, Verdicts
  <2>4. (final \/ last) \in BOOLEAN /\ (final \/ forced) \in BOOLEAN /\ them \in BOOLEAN /\ us \in BOOLEAN
    <3> HIDE DEF judged, result, cnt
    <3> QED
      OBVIOUS
  <2> HIDE DEF final, last, forced, them, us, result, cnt
  <2> QED
    BY <2>2, <2>3, <2>4 DEF Seen
<1> HIDE DEF t
<1> QED
  BY <1>0, <1>1, <1>2

\* The loop over the whole window.
LEMMA AllLooked ==
  ASSUME IInv, Turns, NEW ply \in Int, Window >= 4, filter[Slot[st.key]] >= 1
  PROVE  \E m \in Nat : Window <= 2 * m + 3 /\ IsLooked(Repetition(ply), m, ply)
<1> DEFINE m == Window \div 2 - 1
           base == [done |-> FALSE, over |-> FALSE, result |-> "none", cnt |-> 0,
                    them |-> st.checkers /\ Back(2).checkers, us |-> Back(1).checkers /\ Back(3).checkers]
           Solves(g) == g = [n \in 0 .. m |-> IF n = 0 THEN base ELSE Look(g[n - 1], 2 * n + 2, ply)]
<1>1. Window \in Nat /\ TypeOK /\ Window <= Len(states) - 1
  BY InWindow, Current DEF IInv
<1>2. m \in Nat /\ 2 * m + 2 <= Window /\ Window <= 2 * m + 3
  BY <1>1
<1>3. base \in Seen /\ IsLooked(base, 0, ply)
  <2>1. base \in Seen
    BY DEF Seen, Results
  <2>2. /\ ~base.done /\ ~base.over /\ base.cnt = 0 /\ base.result = "none"
        /\ base.them <=> Back(0).checkers /\ Back(2).checkers
        /\ base.us <=> Back(1).checkers /\ Back(3).checkers
    BY DEF st
  <2>3. \A j : j \in 0 .. 0 + 1 <=> j = 0 \/ j = 1
    OBVIOUS
  <2>4. 2 * 0 = 0 /\ 2 * 1 = 2 /\ 2 * 0 + 1 = 1 /\ 2 * 1 + 1 = 3 /\ 1 <= Window /\ 3 <= Window
    BY <1>1
  <2>5. (base.them <=> IsTheirs(0 + 1)) /\ (base.us <=> IsOursIn(0 + 1))
    <3> HIDE DEF base
    <3> QED
      BY <2>2, <2>3, <2>4 DEF IsTheirs, IsOursIn
  <2>6. \A k \in Repeats : k > 2 * 0 + 2
    BY InWindow DEF Repeats
  <2>7. IsOpen(base, 2 * 0 + 2, ply)
    <3> HIDE DEF base
    <3> QED
      BY <2>2, <2>6 DEF IsOpen
  <2> HIDE DEF base
  <2> QED
    BY <2>1, <2>2, <2>5, <2>7 DEF IsLooked
<1> HIDE DEF m
<1>4. PICK f : Solves(f)
  <2> DEFINE step == [p \in Seen \X (1 .. m) |-> Look(p[1], 2 * p[2] + 2, ply)]
  <2>1. step \in [Seen \X (1 .. m) -> Seen]
    BY LookTyped
  <2>2. PICK f \in [0 .. m -> Seen] : IsUnfolded(f, m, base, step)
    <3> HIDE DEF step, base
    <3> QED
      BY <1>2, <1>3, <2>1, Unfolded
  <2>3. ASSUME NEW k \in 0 .. m
        PROVE  f[k] = IF k = 0 THEN base ELSE Look(f[k - 1], 2 * k + 2, ply)
    <3>1. k # 0 => k - 1 \in 0 .. m /\ k \in 1 .. m
      BY <1>2
    <3>2. k # 0 => <<f[k - 1], k>> \in Seen \X (1 .. m)
      BY <3>1
    <3>3. k # 0 => step[<<f[k - 1], k>>] = Look(f[k - 1], 2 * k + 2, ply)
      BY <3>2
    <3>4. f[k] = IF k = 0 THEN base ELSE step[<<f[k - 1], k>>]
      <4> HIDE DEF step, base
      <4> QED
        BY <2>2 DEF IsUnfolded
    <3> HIDE DEF step, base
    <3> QED
      BY <3>3, <3>4
  <2>4. f = [k \in 0 .. m |-> f[k]]
    <3> HIDE DEF step, base
    <3> QED
      BY <2>2
  <2>5. Solves(f)
    <3> HIDE DEF base
    <3> QED
      BY <2>3, <2>4
  <2> HIDE DEF Solves
  <2> QED
    BY <2>5
<1>5. PICK g : Solves(g) /\ g = (CHOOSE h : Solves(h))
  <2> HIDE DEF Solves
  <2> QED
    BY <1>4
<1>6. g[0] = base /\ \A n \in 1 .. m : g[n] = Look(g[n - 1], 2 * n + 2, ply)
  <2>1. Solves(g)
    <3> HIDE DEF Solves
    <3> QED
      BY <1>5
  <2> HIDE DEF base
  <2>2. \A n \in 0 .. m : g[n] = IF n = 0 THEN base ELSE Look(g[n - 1], 2 * n + 2, ply)
    BY <2>1
  <2> QED
    BY <1>2, <2>2
<1> DEFINE S == {n \in Nat : n <= m => IsLooked(g[n], n, ply)}
<1>7. 0 \in S
  <2> HIDE DEF base
  <2> QED
    BY <1>3, <1>6
<1>8. ASSUME NEW n \in Nat, n \in S
      PROVE  n + 1 \in S
  <2> SUFFICES ASSUME n + 1 <= m
               PROVE  IsLooked(g[n + 1], n + 1, ply)
    OBVIOUS
  <2>1. n + 1 \in 1 .. m /\ n + 1 - 1 = n /\ 2 * (n + 1) + 2 = 2 * n + 4 /\ 2 * n + 4 <= Window /\ n <= m
    BY <1>1, <1>2
  <2>2. g[n + 1] = Look(g[n], 2 * n + 4, ply)
    <3> HIDE DEF base
    <3> QED
      BY <1>6, <2>1
  <2>3. IsLooked(g[n], n, ply)
    BY <1>8, <2>1
  <2> QED
    BY <2>1, <2>2, <2>3, OneLook
<1>9. IsLooked(g[m], m, ply)
  <2>1. m \in S
    <3> HIDE DEF S
    <3> QED
      BY <1>2, <1>7, <1>8, Induction
  <2> QED
    BY <1>2, <2>1
<1>10. Repetition(ply) = g[m]
  BY <1>5 DEF Repetition, m
<1> QED
  BY <1>2, <1>9, <1>10

-----------------------------------------------------------------------------
(***************************************************************************)
(* The ruling.                                                             *)
(***************************************************************************)
\* Each repetition is a visit to the slot of the current key.
LEMMA RepeatsVisit ==
  ASSUME IInv, NEW f \in Repeats
  PROVE  /\ filter[Slot[st.key]] \in Nat /\ filter[Slot[st.key]] = Visits(Slot[Back(0).key])
         /\ filter[Slot[st.key]] >= 1
         /\ \A k \in Repeats : k # f => filter[Slot[st.key]] > 1
<1> DEFINE n == Len(states)
           V == {i \in 1 .. n - 1 : Slot[states[i].key] = Slot[st.key]}
<1>1. TypeOK /\ n \in Nat /\ Window \in 0 .. n - 1 /\ QuietRun = Window
  BY InWindow, Current DEF IInv
<1>2. filter[Slot[st.key]] = Visits(Slot[st.key]) /\ filter[Slot[st.key]] \in Nat
  BY <1>1, Current, KeyFacts, HistoryAssumption DEF IInv, Counted, TypeOK
<1>3. Visits(Slot[st.key]) = Cardinality(V) /\ st = Back(0)
  BY DEF Visits, st
<1>4. IsFiniteSet(V)
  <2>1. IsFiniteSet(1 .. n - 1) /\ V \subseteq 1 .. n - 1
    BY <1>1, FS_Interval
  <2> HIDE DEF V
  <2> QED
    BY <2>1, FS_Subset
<1>5. ASSUME NEW k \in Repeats
      PROVE  n - k \in V /\ k \in Nat
  <2>1. k \in 4 .. Window /\ Back(k).key = st.key
    BY <1>1 DEF Repeats
  <2> QED
    BY <1>1, <2>1 DEF Back
<1>6. n - f \in V /\ f \in Nat
  BY <1>5
<1>7. Cardinality(V) \in Nat /\ Cardinality(V) # 0
  <2> HIDE DEF V
  <2> QED
    BY <1>4, <1>6, FS_EmptySet, FS_CardinalityType
<1>8. ASSUME NEW k \in Repeats, k # f
      PROVE  Cardinality(V) # 1
  <2>1. n - k \in V /\ n - k # n - f
    BY <1>1, <1>5, <1>6, <1>8
  <2> HIDE DEF V
  <2> QED
    BY <1>4, <1>6, <2>1, FS_Singleton
<1> HIDE DEF V
<1> QED
  BY <1>2, <1>3, <1>7, <1>8

\* How often the current position is repeated.
LEMMA Folds ==
  ASSUME IInv
  PROVE  /\ Repeats \in SUBSET Nat
         /\ Repeats = {} => Cardinality(Repeats) = 0
         /\ \A f \in Repeats : IsFirst(f) => Min(Repeats) = f
         /\ \A f \in Repeats : Repeats = {f} => Cardinality(Repeats) = 1 /\ IsFirst(f)
         /\ \A f, g \in Repeats : IsSecond(f, g) => /\ Cardinality(Repeats) >= 2
                                                    /\ Min(Repeats \ {f}) = g
<1>1. Repeats \in SUBSET Nat /\ IsFiniteSet(Repeats)
  <2>1. QuietRun \in Nat
    BY InWindow
  <2>2. Repeats \subseteq 4 .. QuietRun /\ IsFiniteSet(4 .. QuietRun)
    BY <2>1, FS_Interval DEF Repeats
  <2>3. 4 .. QuietRun \subseteq Nat
    BY <2>1
  <2> QED
    BY <2>2, <2>3, FS_Subset
<1>2. Repeats = {} => Cardinality(Repeats) = 0
  BY FS_EmptySet
<1>3. ASSUME NEW f \in Repeats, IsFirst(f)
      PROVE  Min(Repeats) = f
  <2>1. Min(Repeats) \in Repeats /\ Min(Repeats) <= f
    BY <1>1, <1>3, MinOf
  <2>2. f <= Min(Repeats) /\ f \in Nat /\ Min(Repeats) \in Nat
    BY <1>1, <1>3, <2>1 DEF IsFirst
  <2> QED
    BY <2>1, <2>2
<1>4. ASSUME NEW f \in Repeats, Repeats = {f}
      PROVE  Cardinality(Repeats) = 1 /\ IsFirst(f)
  <2>1. f \in Nat
    BY <1>1
  <2> QED
    BY <1>4, <2>1, FS_Singleton DEF IsFirst
<1>5. ASSUME NEW f \in Repeats, NEW g \in Repeats, IsSecond(f, g)
      PROVE  Cardinality(Repeats) >= 2 /\ Min(Repeats \ {f}) = g
  <2>1. Repeats \ {f} \in SUBSET Nat /\ Repeats \ {f} # {} /\ g \in Repeats \ {f}
    BY <1>1, <1>5 DEF IsSecond
  <2>2. PICK h : h = Min(Repeats \ {f})
    OBVIOUS
  <2>3. h \in Repeats \ {f} /\ \A y \in Repeats \ {f} : h <= y
    BY <2>1, <2>2, MinOf
  <2>4. h \in Repeats /\ h # f /\ h <= g
    BY <2>1, <2>3
  <2>5. g <= h /\ g \in Nat /\ h \in Nat
    BY <1>1, <1>5, <2>4 DEF IsSecond
  <2>6. h = g
    BY <2>4, <2>5
  <2>7. Cardinality(Repeats) \in Nat /\ Cardinality(Repeats) # 0 /\ Cardinality(Repeats) # 1
    BY <1>1, <2>1, FS_EmptySet, FS_Singleton, FS_CardinalityType
  <2> QED
    BY <2>2, <2>6, <2>7
<1> QED
  BY <1>1, <1>2, <1>3, <1>4, <1>5

\* What is left to rule on when there is no second repetition.
LEMMA NoSecond ==
  ASSUME NEW ply, ~(Cardinality(Repeats) >= 2), NEW f, f = Min(Repeats)
  PROVE  Ruling(ply) = IF Repeats # {} /\ ply > f /\ Sentence(f) = "draw"
                       THEN [over |-> TRUE, result |-> "draw"]
                       ELSE IF Repeats # {} /\ ply > f /\ Inevitable(f)
                       THEN [over |-> TRUE, result |-> Sentence(f)]
                       ELSE IF st.rule60 >= Rule60
                       THEN [over |-> TRUE, result |-> IF CanMove THEN "draw" ELSE "loss"]
                       ELSE [over |-> FALSE,
                             result |-> IF Repeats # {} /\ ply > f THEN Sentence(f) ELSE "none"]
BY DEF Ruling

\* rule_judge() after the loop over the repetitions.
LEMMA AfterLoop ==
  ASSUME NEW ply, NEW s, s = Repetition(ply)
  PROVE  RuleJudge(ply) = IF ~s.over /\ st.rule60 >= Rule60
                          THEN [over |-> TRUE, result |-> IF CanMove THEN "draw" ELSE "loss"]
                          ELSE [over |-> s.over, result |-> s.result]
BY DEF RuleJudge

\* The ruling on a position that is not repeated.
LEMMA NotRepeated ==
  ASSUME IInv, NEW ply \in Int, Repeats = {}, NEW s, s = Repetition(ply),
         s.over = FALSE, s.result = "none"
  PROVE  RuleJudge(ply) = Ruling(ply)
<1>1. ~(Cardinality(Repeats) >= 2)
  BY Folds
<1>2. Ruling(ply) = IF st.rule60 >= Rule60
                    THEN [over |-> TRUE, result |-> IF CanMove THEN "draw" ELSE "loss"]
                    ELSE [over |-> FALSE, result |-> "none"]
  BY <1>1, NoSecond
<1> QED
  BY <1>2, AfterLoop

\* The ruling on a position that has been repeated once.
LEMMA RepeatedOnce ==
  ASSUME IInv, NEW ply \in Int, NEW f, Repeats = {f}, NEW s, s = Repetition(ply),
         \/ ply > f /\ Sentence(f) = "draw" /\ s.over /\ s.result = "draw"
         \/ ply > f /\ Sentence(f) # "draw" /\ s.result = Sentence(f) /\ (s.over <=> Inevitable(f))
         \/ ~(ply > f) /\ s.result = "none" /\ ~s.over,
         s.over \in BOOLEAN
  PROVE  RuleJudge(ply) = Ruling(ply)
<1>1. ~(Cardinality(Repeats) >= 2) /\ f = Min(Repeats) /\ Repeats # {}
  <2>1. f \in Repeats
    OBVIOUS
  <2>2. Cardinality(Repeats) = 1 /\ IsFirst(f)
    BY <2>1, Folds
  <2> QED
    BY <2>1, <2>2, Folds
<1>2. Ruling(ply) = IF ply > f /\ Sentence(f) = "draw" THEN [over |-> TRUE, result |-> "draw"]
                    ELSE IF ply > f /\ Inevitable(f) THEN [over |-> TRUE, result |-> Sentence(f)]
                    ELSE IF st.rule60 >= Rule60
                    THEN [over |-> TRUE, result |-> IF CanMove THEN "draw" ELSE "loss"]
                    ELSE [over |-> FALSE, result |-> IF ply > f THEN Sentence(f) ELSE "none"]
  BY <1>1, NoSecond
<1>3. CASE ply > f /\ Sentence(f) = "draw" /\ s.over /\ s.result = "draw"
  <2>1. s.over = TRUE
    BY <1>3
  <2> QED
    BY <1>2, <1>3, <2>1, AfterLoop
<1>4. CASE ply > f /\ Sentence(f) # "draw" /\ s.result = Sentence(f) /\ (s.over <=> Inevitable(f))
  <2>1. CASE Inevitable(f)
    <3>1. s.over = TRUE
      BY <1>4, <2>1
    <3> QED
      BY <1>2, <1>4, <2>1, <3>1, AfterLoop
  <2>2. CASE ~Inevitable(f)
    <3>1. s.over = FALSE
      BY <1>4, <2>2
    <3> QED
      BY <1>2, <1>4, <2>2, <3>1, AfterLoop
  <2> QED
    BY <2>1, <2>2
<1>5. CASE ~(ply > f) /\ s.result = "none" /\ ~s.over
  <2>1. s.over = FALSE
    BY <1>5
  <2> QED
    BY <1>2, <1>5, <2>1, AfterLoop
<1> QED
  BY <1>3, <1>4, <1>5

\* The ruling on a position that has been repeated more often.
LEMMA RepeatedTwice ==
  ASSUME IInv, NEW ply \in Int, NEW f, NEW g, IsFirst(f), IsSecond(f, g),
         NEW s, s = Repetition(ply), s.over = TRUE,
         \/ ply > f /\ Sentence(f) = "draw" /\ s.result = "draw"
         \/ ~(ply > f /\ Sentence(f) = "draw") /\ s.result = Sentence(g)
  PROVE  RuleJudge(ply) = Ruling(ply)
<1>1. f \in Repeats /\ g \in Repeats
  BY DEF IsFirst, IsSecond
<1>2. Cardinality(Repeats) >= 2 /\ Min(Repeats) = f /\ Min(Repeats \ {f}) = g
  BY <1>1, Folds
<1>3. RuleJudge(ply) = [over |-> TRUE, result |-> s.result]
  BY DEF RuleJudge
<1>4. Ruling(ply) = IF ply > f /\ Sentence(f) = "draw" THEN [over |-> TRUE, result |-> "draw"]
                    ELSE [over |-> TRUE, result |-> Sentence(g)]
  BY <1>1, <1>2 DEF Ruling
<1> QED
  BY <1>3, <1>4

\* A position that is repeated more than once has a second repetition.
LEMMA SecondOf ==
  ASSUME IInv, NEW f \in Repeats, Repeats # {f}
  PROVE  \E g \in Repeats : IsSecond(f, g)
<1>1. Repeats \ {f} \in SUBSET Nat /\ Repeats \ {f} # {}
  BY Folds
<1>2. PICK g \in Repeats \ {f} : \A y \in Repeats \ {f} : g <= y
  BY <1>1, SmallestOf
<1> QED
  BY <1>2 DEF IsSecond

\* The loop ends open, or closed as the rules say: the ruling follows in each case.
LEMMA Judged ==
  ASSUME IInv, Turns, NEW ply \in Int
  PROVE  RuleJudge(ply) = Ruling(ply)
<1>1. PICK s : s = Repetition(ply)
  OBVIOUS
<1>2. CASE ~(Window >= 4 /\ filter[Slot[st.key]] >= 1)
  <2>1. Repeats = {}
    <3> SUFFICES ASSUME NEW k \in Repeats
                 PROVE  FALSE
      OBVIOUS
    <3>1. k \in 4 .. Window /\ Window \in Nat
      BY InWindow DEF Repeats
    <3>2. filter[Slot[st.key]] >= 1
      BY RepeatsVisit
    <3> QED
      BY <1>2, <3>1, <3>2
  <2>2. s.over = FALSE /\ s.result = "none"
    BY <1>1, <1>2 DEF Repetition, Nothing
  <2> QED
    BY <1>1, <2>1, <2>2, NotRepeated
<1>3. CASE Window >= 4 /\ filter[Slot[st.key]] >= 1
  <2>1. PICK m \in Nat : Window <= 2 * m + 3 /\ IsLooked(s, m, ply)
    BY <1>1, <1>3, AllLooked
  <2>2. s \in Seen /\ s.over \in BOOLEAN
    BY <2>1 DEF IsLooked, Seen
  <2>3. \A k \in Repeats : k \in Nat /\ k <= 2 * m + 2
    <3> SUFFICES ASSUME NEW k \in Repeats
                 PROVE  k \in Nat /\ k <= 2 * m + 2
      OBVIOUS
    <3>1. PICK n \in Nat \ {0} : k = 2 * n + 2
      BY RepeatsEven
    <3>2. k <= Window /\ Window \in Nat
      BY RepeatsEven, InWindow
    <3> QED
      BY <2>1, <3>1, <3>2
  <2>4. CASE ~s.done
    <3>1. ~s.over /\ IsOpen(s, 2 * m + 2, ply)
      BY <2>1, <2>4 DEF IsLooked
    <3>2. CASE s.cnt = 0 /\ s.result = "none" /\ \A k \in Repeats : k > 2 * m + 2
      <4>1. Repeats = {}
        BY <2>3, <3>2
      <4>2. s.over = FALSE
        BY <2>2, <3>1
      <4> QED
        BY <1>1, <3>2, <4>1, <4>2, NotRepeated
    <3>3. CASE \E f \in Repeats :
                 /\ s.cnt = 1 /\ f <= 2 * m + 2 /\ \A k \in Repeats : k = f \/ k > 2 * m + 2
                 /\ s.result = IF ply > f THEN Sentence(f) ELSE "none"
                 /\ ply > f => Sentence(f) # "draw" /\ filter[Slot[st.key]] > 1
      <4>1. PICK f \in Repeats :
                 /\ \A k \in Repeats : k = f \/ k > 2 * m + 2
                 /\ s.result = IF ply > f THEN Sentence(f) ELSE "none"
                 /\ ply > f => Sentence(f) # "draw" /\ filter[Slot[st.key]] > 1
        BY <3>3
      <4>2. Repeats = {f}
        BY <2>3, <4>1
      <4>3. ply > f => ~Inevitable(f)
        <5>1. filter[Slot[st.key]] \in Nat /\ filter[Slot[st.key]] = Visits(Slot[Back(0).key])
          BY RepeatsVisit
        <5> QED
          BY <4>1, <5>1 DEF Inevitable
      <4>4. CASE ply > f
        BY <1>1, <2>2, <3>1, <4>1, <4>2, <4>3, <4>4, RepeatedOnce
      <4>5. CASE ~(ply > f)
        BY <1>1, <2>2, <3>1, <4>1, <4>2, <4>5, RepeatedOnce
      <4> QED
        BY <4>4, <4>5
    <3> QED
      BY <3>1, <3>2, <3>3 DEF IsOpen
  <2>5. CASE s.done
    <3>1. PICK f \in Repeats :
            /\ IsFirst(f)
            /\ \/ ply > f /\ Sentence(f) = "draw" /\ s.over /\ s.result = "draw"
               \/ /\ ~(ply > f /\ Sentence(f) = "draw")
                  /\ \E g \in Repeats : IsSecond(f, g) /\ s.over /\ s.result = Sentence(g)
               \/ /\ ply > f /\ Sentence(f) # "draw" /\ filter[Slot[st.key]] <= 1
                  /\ s.result = Sentence(f) /\ (s.over <=> Inevitable(f))
      BY <2>1, <2>5 DEF IsLooked, IsClosed
    <3>2. CASE ply > f /\ Sentence(f) = "draw" /\ s.over /\ s.result = "draw"
      <4>1. CASE Repeats = {f}
        BY <1>1, <2>2, <3>2, <4>1, RepeatedOnce
      <4>2. CASE Repeats # {f}
        <5>1. PICK g \in Repeats : IsSecond(f, g)
          BY <4>2, SecondOf
        <5>2. s.over = TRUE
          BY <2>2, <3>2
        <5> QED
          BY <1>1, <3>1, <3>2, <5>1, <5>2, RepeatedTwice
      <4> QED
        BY <4>1, <4>2
    <3>3. CASE /\ ~(ply > f /\ Sentence(f) = "draw")
               /\ \E g \in Repeats : IsSecond(f, g) /\ s.over /\ s.result = Sentence(g)
      <4>1. PICK g \in Repeats : IsSecond(f, g) /\ s.over /\ s.result = Sentence(g)
        BY <3>3
      <4>2. s.over = TRUE
        BY <2>2, <4>1
      <4> QED
        BY <1>1, <3>1, <3>3, <4>1, <4>2, RepeatedTwice
    <3>4. CASE /\ ply > f /\ Sentence(f) # "draw" /\ filter[Slot[st.key]] <= 1
               /\ s.result = Sentence(f) /\ (s.over <=> Inevitable(f))
      <4>1. Repeats = {f}
        <5> SUFFICES ASSUME NEW k \in Repeats, k # f
                     PROVE  FALSE
          OBVIOUS
        <5>1. filter[Slot[st.key]] \in Nat /\ filter[Slot[st.key]] > 1
          BY RepeatsVisit
        <5> QED
          BY <3>4, <5>1
      <4> QED
        BY <1>1, <2>2, <3>4, <4>1, RepeatedOnce
    <3> QED
      BY <3>1, <3>2, <3>3, <3>4
  <2> QED
    BY <2>4, <2>5
<1> QED
  BY <1>2, <1>3

\* position.cpp rule_judge() and detect_chases(): the verdict that the search hears is the one
\* that the rules, read off the chain, give: on the first and the second repetition, on which
\* side has given check or begun a chase with each of its moves, and on rule 60, although the
\* loop carries its flags from one repetition to the next and stops as soon as it may.
THEOREM JudgementIsTheRules == Spec => []JudgedByTheRules
<1>1. ASSUME IInv, Turns
      PROVE  JudgedByTheRules
  <2>1. Len(states) - root \in Int
    BY <1>1, Current DEF IInv, TypeOK
  <2> QED
    BY <1>1, <2>1, Judged DEF JudgedByTheRules
<1>2. IInv /\ Turns => JudgedByTheRules
  BY <1>1
<1> QED
  BY <1>2, InitIInv, NextIInv, InitTurns, NextTurns, PTL DEF Spec
=============================================================================
