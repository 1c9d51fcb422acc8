--------------------------- MODULE SearchValuesProofs ---------------------------
(***************************************************************************)
(* For every ply, counter, entry and bonus: mate scores survive the hash   *)
(* table or are given up towards a draw, never turned round; a corrected   *)
(* evaluation claims no mate; and an update keeps an entry within its      *)
(* bounds and moves it the way of the bonus.  For any number of threads    *)
(* and whatever they found, the vote plays a proved mate, the shortest,    *)
(* and otherwise a move with the most votes.  For all clocks, increments,   *)
(* options and searches the time for a move fits the clock, the budget of   *)
(* nodes never comes back, and check_time() is never late by more than 512  *)
(* calls.                                                                   *)
(***************************************************************************)
EXTENDS HistoryEntry, BestThread, TimeManagement, TLAPS

\* What value_to_tt() stores fits in the 16 bits of an entry, is not the mark of a
\* value that is missing, and is a win or a loss when the value was.
THEOREM StoredValueIsValid ==
  ASSUME NEW ply \in 0 .. MAX_PLY, NEW v \in ValuesAt(ply)
  PROVE  /\ Fits16(value_to_tt(v, ply))
         /\ value_to_tt(v, ply) # VALUE_NONE
         /\ is_win(value_to_tt(v, ply)) <=> is_win(v)
         /\ is_loss(value_to_tt(v, ply)) <=> is_loss(v)
<1> DEFINE w == value_to_tt(v, ply)
<1>1. /\ VALUE_MATE_IN_MAX_PLY = 31754 /\ VALUE_MATED_IN_MAX_PLY = -31754
      /\ ply \in 0 .. 246 /\ v \in ply - 32000 .. 32000 - ply
  BY SMT DEF ValuesAt, MAX_PLY, VALUE_MATE, VALUE_MATE_IN_MAX_PLY, VALUE_MATED_IN_MAX_PLY
<1>2. w = (IF v >= 31754 THEN v + ply ELSE IF v <= -31754 THEN v - ply ELSE v)
  BY <1>1, SMT DEF value_to_tt, is_win, is_loss
<1> HIDE DEF w
<1>3. /\ w \in Int /\ -32000 <= w /\ w <= 32000
      /\ (w >= 31754 <=> v >= 31754) /\ (w <= -31754 <=> v <= -31754)
  BY <1>1, <1>2, SMT
<1>4. Fits16(w) /\ w # VALUE_NONE
  BY <1>3, SMT DEF Fits16, VALUE_NONE
<1>5. (is_win(w) <=> is_win(v)) /\ (is_loss(w) <=> is_loss(v))
  BY <1>1, <1>3, SMT DEF is_win, is_loss
<1> QED
  BY <1>4, <1>5 DEF w

\* A value comes back from the table at the same distance from the root as it was,
\* or, when it is a mate too far away, as the largest or smallest value that is none.
THEOREM RoundTrip ==
  ASSUME NEW ply \in 0 .. MAX_PLY, NEW v \in ValuesAt(ply), NEW r60c \in Nat
  PROVE  LET w == value_from_tt(value_to_tt(v, ply), ply, r60c)
         IN \/ w = v
            \/ is_win(v) /\ w = VALUE_MATE_IN_MAX_PLY - 1
            \/ is_loss(v) /\ w = VALUE_MATED_IN_MAX_PLY + 1
BY SMT DEF ValuesAt, value_to_tt, value_from_tt, is_win, is_loss, MAX_PLY, VALUE_NONE, VALUE_MATE,
     VALUE_MATE_IN_MAX_PLY, VALUE_MATED_IN_MAX_PLY

\* A win or loss read from the table, at a node of any other ply than the one it was
\* stored from, is over before the 60-move rule can be claimed, and the value names
\* a mate no nearer than the node itself.
THEOREM ClaimsAreInTime ==
  ASSUME NEW from \in 0 .. MAX_PLY, NEW v \in ValuesAt(from),
         NEW ply \in 0 .. MAX_PLY, NEW r60c \in Nat
  PROVE  LET w == value_from_tt(value_to_tt(v, from), ply, r60c)
         IN /\ w \in ValuesAt(ply)
            /\ is_win(w) => VALUE_MATE - w <= 120 - r60c + ply
            /\ is_loss(w) => VALUE_MATE + w <= 120 - r60c + ply
BY SMT DEF ValuesAt, value_to_tt, value_from_tt, is_win, is_loss, MAX_PLY, VALUE_NONE, VALUE_MATE,
     VALUE_MATE_IN_MAX_PLY, VALUE_MATED_IN_MAX_PLY

-----------------------------------------------------------------------------
(* The quotient of a product.                                               *)

LEMMA DivisionFacts ==
  ASSUME NEW n \in Nat, NEW d \in Nat \ {0}
  PROVE  n \div d \in Nat /\ d * (n \div d) <= n /\ n < d * (n \div d) + d
BY SMT

\* The share v * a / d of two numbers up to d is at most either, and leaves d no less
\* than v + a.
LEMMA Share ==
  ASSUME NEW d \in Nat \ {0}, NEW v \in 0 .. d, NEW a \in 0 .. d
  PROVE  /\ (v * a) \div d \in 0 .. v
         /\ (v * a) \div d <= a
         /\ v + a - (v * a) \div d <= d
<1> DEFINE q == (v * a) \div d
<1>1. v * a \in Nat
  BY SMT
<1>2. q \in Nat /\ d * q <= v * a /\ v * a < d * q + d
  BY <1>1, DivisionFacts
<1> HIDE DEF q
<1>3. v * a <= d * v /\ v * a <= d * a
  BY SMT
<1>4. q <= v
  <2>1. d * q <= d * v
    BY <1>1, <1>2, <1>3, SMT
  <2> QED
    BY <2>1, <1>2, SMT
<1>5. q <= a
  <2>1. d * q <= d * a
    BY <1>1, <1>2, <1>3, SMT
  <2> QED
    BY <2>1, <1>2, SMT
<1>6. v + a - q <= d
  <2>1. (d - v) * (d - a) >= 0
    BY SMT
  <2>2. (d - v) * (d - a) = d * (d - v - a) + v * a
    BY SMT
  <2>3. d * (d - v - a) + d * q + d > 0
    BY <2>1, <2>2, <1>1, <1>2, SMT
  <2>4. d * (d - v - a + q + 1) > 0
    BY <2>3, <1>2, SMT
  <2>5. d - v - a + q + 1 > 0
    BY <2>4, <1>2, SMT
  <2> QED
    BY <2>5, <1>2, SMT
<1> QED
  BY <1>2, <1>4, <1>5, <1>6, SMT DEF q

\* The quotient of a product with an entry, rounded towards zero.
LEMMA SignedShare ==
  ASSUME NEW d \in Nat \ {0}, NEW v \in -d .. d, NEW a \in 0 .. d
  PROVE  LET q == Quotient(v * a, d)
         IN /\ q \in Int
            /\ v >= 0 => q \in 0 .. v /\ q <= a /\ v + a - q <= d
            /\ v <= 0 => q \in v .. 0 /\ -a <= q /\ -d <= v - a - q
<1>1. CASE v >= 0
  <2>1. v * a >= 0
    BY <1>1, SMT
  <2>2. Quotient(v * a, d) = (v * a) \div d
    BY <2>1 DEF Quotient
  <2>3. (v = 0) => (v * a) \div d = 0
    BY <1>1, Share, SMT
  <2> QED
    BY <1>1, <2>2, <2>3, Share, SMT
<1>2. CASE v < 0
  <2> DEFINE w == -v
  <2>1. w \in 0 .. d
    BY <1>2, SMT
  <2>2. v * a = -(w * a) /\ w * a \in Nat
    BY <1>2, SMT
  <2>3. /\ (w * a) \div d \in 0 .. w
        /\ (w * a) \div d <= a
        /\ w + a - (w * a) \div d <= d
    BY <2>1, Share
  <2>4. Quotient(v * a, d) = -((w * a) \div d)
    <3>1. CASE v * a >= 0
      <4>1. w * a = 0
        BY <2>2, <3>1, SMT
      <4> QED
        BY <4>1, <2>2, SMT DEF Quotient
    <3>2. CASE ~(v * a >= 0)
      <4>1. -(v * a) = w * a
        BY <2>2, SMT
      <4> QED
        BY <4>1, <3>2 DEF Quotient
    <3> QED
      BY <3>1, <3>2
  <2> HIDE DEF w
  <2>5. v = -w
    BY SMT DEF w
  <2> QED
    BY <1>2, <2>1, <2>3, <2>4, <2>5, SMT
<1> QED
  BY <1>1, <1>2, SMT

\* An update by any bonus keeps an entry within its bounds, the assertion at the end of
\* operator<<(), and moves it in the direction of the bonus if it moves it at all.
THEOREM UpdateStaysInRange ==
  ASSUME NEW d \in Nat \ {0}, NEW v \in -d .. d, NEW b0 \in Int
  PROVE  /\ Updated(v, b0, d) \in -d .. d
         /\ b0 >= 0 => Updated(v, b0, d) >= v
         /\ b0 <= 0 => Updated(v, b0, d) <= v
<1> DEFINE b == Clamp(b0, -d, d)
           a == Abs(b)
           q == Quotient(v * a, d)
<1>1. b \in -d .. d /\ (b0 >= 0 => b >= 0) /\ (b0 <= 0 => b <= 0)
  BY SMT DEF Clamp
<1>2. a \in 0 .. d /\ (b >= 0 => a = b) /\ (b <= 0 => a = -b)
  BY <1>1, SMT DEF Abs
<1>3. /\ q \in Int
      /\ v >= 0 => q \in 0 .. v /\ q <= a /\ v + a - q <= d
      /\ v <= 0 => q \in v .. 0 /\ -a <= q /\ -d <= v - a - q
  BY <1>2, SignedShare
<1>4. Updated(v, b0, d) = v + b - q
  BY DEF Updated
<1> HIDE DEF b, a, q
<1> QED
  BY <1>1, <1>2, <1>3, <1>4, SMT

\* The product of an update overflows for no entry: the static_assert of StatsEntry keeps
\* the square of d within an int.
THEOREM UpdateFits ==
  ASSUME NEW d \in Nat \ {0}, Fits32(d * d), NEW v \in -d .. d, NEW b0 \in Int
  PROVE  Fits32(v * Abs(Clamp(b0, -d, d)))
<1> DEFINE a == Abs(Clamp(b0, -d, d))
<1>1. a \in 0 .. d
  BY SMT DEF Abs, Clamp
<1> HIDE DEF a
<1>2. v * a <= d * a /\ -(d * a) <= v * a
  BY <1>1, SMT
<1>3. d * a <= d * d /\ d * a \in Nat /\ v * a \in Int
  BY <1>1, SMT
<1> DEFINE p == v * a
           s == d * a
           t == d * d
<1>4. p <= s /\ -s <= p /\ s <= t /\ s \in Nat /\ p \in Int /\ Fits32(t)
  BY <1>2, <1>3, SMT
<1> HIDE DEF p, s, t
<1>5. Fits32(p)
  BY <1>4, SMT DEF Fits32
<1> QED
  BY <1>5 DEF a, p

\* The entries of the correction histories never overflow their weighted sum, which
\* moves an evaluation by at most 333.
THEOREM CorrectionIsSmall ==
  ASSUME NEW pcv \in -CORRECTION_HISTORY_LIMIT .. CORRECTION_HISTORY_LIMIT,
         NEW micv \in -CORRECTION_HISTORY_LIMIT .. CORRECTION_HISTORY_LIMIT,
         NEW wnpcv \in -CORRECTION_HISTORY_LIMIT .. CORRECTION_HISTORY_LIMIT,
         NEW bnpcv \in -CORRECTION_HISTORY_LIMIT .. CORRECTION_HISTORY_LIMIT,
         NEW cnt2 \in -CORRECTION_HISTORY_LIMIT .. CORRECTION_HISTORY_LIMIT,
         NEW cnt4 \in -CORRECTION_HISTORY_LIMIT .. CORRECTION_HISTORY_LIMIT,
         NEW move \in BOOLEAN
  PROVE  LET cv == correction_value(pcv, micv, wnpcv, bnpcv, cnt2, cnt4, move)
         IN Fits32(cv) /\ -333 <= Quotient(cv, 131072) /\ Quotient(cv, 131072) <= 333
<1> DEFINE cv == correction_value(pcv, micv, wnpcv, bnpcv, cnt2, cnt4, move)
<1>1. cv \in Int /\ -43766784 <= cv /\ cv <= 43766784
  <2>1. CASE move
    BY <2>1, SMT DEF correction_value, CORRECTION_HISTORY_LIMIT
  <2>2. CASE ~move
    BY <2>2, SMT DEF correction_value, CORRECTION_HISTORY_LIMIT
  <2> QED
    BY <2>1, <2>2, SMT
<1> HIDE DEF cv
<1>2. Fits32(cv)
  BY <1>1, SMT DEF Fits32
<1>3. -333 <= Quotient(cv, 131072) /\ Quotient(cv, 131072) <= 333
  BY <1>1, SMT DEF Quotient
<1> QED
  BY <1>2, <1>3, SMT DEF cv

\* A corrected evaluation is a value that claims no mate, whatever was evaluated and
\* however it was corrected.
THEOREM CorrectedIsNoMate ==
  ASSUME NEW v \in Int, NEW cv \in Int
  PROVE  LET w == to_corrected_static_eval(v, cv)
         IN w \in Int /\ ~is_win(w) /\ ~is_loss(w)
<1>1. Quotient(cv, 131072) \in Int
  BY SMT DEF Quotient
<1> QED
  BY <1>1, SMT DEF to_corrected_static_eval, Clamp, is_win, is_loss, MAX_PLY, VALUE_MATE,
     VALUE_MATE_IN_MAX_PLY, VALUE_MATED_IN_MAX_PLY

-----------------------------------------------------------------------------
(* An entry that several threads update at once.                            *)

\* Nothing a thread has read is out of bounds either, or its update might be.
EntryInv ==
  /\ StaysInBounds
  /\ val \in [Thread -> -D .. D]
  /\ bonus \in [Thread -> Int]

LEMMA InitBounds == EntryBounded /\ EntryInit => EntryInv
BY SMT DEF EntryBounded, EntryInit, EntryInv, StaysInBounds

LEMMA NextBounds == EntryBounded /\ EntryInv /\ [EntryNext]_entryVars => EntryInv'
<1> SUFFICES ASSUME EntryBounded, EntryInv, [EntryNext]_entryVars
             PROVE  EntryInv'
  OBVIOUS
<1> USE DEF EntryInv, StaysInBounds, EntryBounded
<1>1. ASSUME NEW t \in Thread, NEW b \in Int, Read(t, b)
      PROVE  EntryInv'
  BY <1>1, SMT DEF Read
<1>2. ASSUME NEW t \in Thread, Store(t)
      PROVE  EntryInv'
  <2>1. val[t] \in -D .. D /\ bonus[t] \in Int
    BY <1>2, Zenon DEF Store
  <2>2. Updated(val[t], bonus[t], D) \in -D .. D
    BY <2>1, UpdateStaysInRange
  <2> QED
    BY <1>2, <2>2, Zenon DEF Store
<1>3. CASE Clear
  BY <1>3, SMT DEF Clear
<1>4. CASE UNCHANGED entryVars
  BY <1>4, Zenon DEF entryVars
<1> QED
  BY <1>1, <1>2, <1>3, <1>4, Zenon DEF EntryNext

\* For any number of threads, any bound and any bonuses, the shared entry keeps within its
\* bound although its update is not atomic.
THEOREM SharedEntryInBounds ==
  ASSUME EntryBounded
  PROVE  EntrySpec => []StaysInBounds
<1>1. EntryInv => StaysInBounds
  BY Zenon DEF EntryInv
<1> QED
  BY <1>1, InitBounds, NextBounds, PTL DEF EntrySpec

-----------------------------------------------------------------------------
(*****************************************************************************)
(* The vote of the threads                                                   *)
(*****************************************************************************)

VoteTypes ==
  /\ loop \in {"min", "vote", "choose", "done"}
  /\ th \in Threads /\ best \in Threads
  /\ minScore \in Int
  /\ votes \in [Moves -> Int]

\* The threads that the loop of a name has dealt with, in its turn or for good.
Seen(name, later) ==
  IF loop = name THEN 1 .. th - 1 ELSE IF loop \in later THEN Threads ELSE {}
MinSeen == Seen("min", {"vote", "choose", "done"})
VoteSeen == Seen("vote", {"choose", "done"})
ChooseSeen == Seen("choose", {"done"})

Lowest == \A t \in MinSeen : minScore <= line[t].score
Counted ==
  /\ \A m \in Moves : votes[m] >= 0
  /\ \A t \in VoteSeen : votes[line[t].move] >= 14
ShortestSeen ==
  \A t \in ChooseSeen : Decisive(t) =>
    Decisive(best) /\ Abs(line[t].score) <= Abs(line[best].score)
MostSeen ==
  ~Decisive(best) => \A t \in ChooseSeen : ~is_loss(line[t].score) => ~Outvotes(t, best)
LosesFirst == ~Decisive(best) => (is_loss(line[best].score) => best = 1)

VoteInv == VoteTypes /\ Lowest /\ Counted /\ ShortestSeen /\ MostSeen /\ LosesFirst

-----------------------------------------------------------------------------

\* What a line holds.
LEMMA LineFacts ==
  ASSUME Finished, NEW t \in Threads
  PROVE  /\ line[t].move \in Moves /\ line[t].score \in Int /\ line[t].length \in Nat
         /\ Abs(line[t].score) \in Nat
<1>1. line[t] \in Line
  BY DEF Finished
<1>2. line[t].move \in Moves /\ line[t].score \in Int /\ line[t].length \in Nat
  BY <1>1 DEF Line
<1> QED
  BY <1>2, SMT DEF Abs

\* Having outvoted a thread that outvoted another is to outvote that one.
LEMMA OutvotesIsTransitive ==
  ASSUME Finished, VoteTypes, NEW s \in Threads, NEW t \in Threads, NEW b \in Threads,
         ~Outvotes(s, b), Outvotes(t, b)
  PROVE  ~Outvotes(s, t)
<1>1. votes[line[s].move] \in Int /\ votes[line[t].move] \in Int /\ votes[line[b].move] \in Int
  BY LineFacts DEF VoteTypes
<1>2. line[s].length \in Nat /\ line[t].length \in Nat /\ line[b].length \in Nat
  BY LineFacts
<1> QED
  BY <1>1, <1>2, SMT DEF Outvotes

\* A thread does not outvote itself.
LEMMA OutvotesIsStrict ==
  ASSUME Finished, VoteTypes, NEW t \in Threads
  PROVE  ~Outvotes(t, t)
<1>1. votes[line[t].move] \in Int /\ line[t].length \in Nat
  BY LineFacts DEF VoteTypes
<1> QED
  BY <1>1, SMT DEF Outvotes

LEMMA VoteInvInit == Finished /\ BestInit => VoteInv
<1> SUFFICES ASSUME Finished, BestInit
             PROVE  VoteInv
  OBVIOUS
<1>1. 1 \in Threads
  BY SMT DEF Finished, Threads
<1>2. VoteTypes
  BY <1>1, SMT DEF BestInit, VoteTypes, VALUE_INFINITE
<1>3. MinSeen = {} /\ VoteSeen = {} /\ ChooseSeen = {}
  BY SMT DEF BestInit, MinSeen, VoteSeen, ChooseSeen, Seen
<1>4. \A m \in Moves : votes[m] >= 0
  BY SMT DEF BestInit
<1> QED
  BY <1>2, <1>3, <1>4 DEF VoteInv, Lowest, Counted, ShortestSeen, MostSeen, LosesFirst, BestInit

\* After a step, a loop has seen one thread more.
LEMMA AdvanceSees ==
  ASSUME Finished, VoteTypes, NEW next, Advance(next), next # loop
  PROVE  /\ th' \in Threads /\ loop' \in {loop, next}
         /\ \/ loop' = loop /\ 1 .. th' - 1 = (1 .. th - 1) \cup {th}
            \/ loop' = next /\ th' = 1 /\ Threads = (1 .. th - 1) \cup {th}
<1>1. N \in Nat \ {0} /\ th \in 1 .. N
  BY DEF Finished, VoteTypes, Threads
<1>2. CASE th < N
  BY <1>1, <1>2, SMT DEF Advance, Threads
<1>3. CASE ~(th < N)
  BY <1>1, <1>3, SMT DEF Advance, Threads
<1> QED
  BY <1>2, <1>3

LEMMA FindMinKeeps ==
  ASSUME Finished, VoteInv, FindMin
  PROVE  VoteInv'
<1>1. /\ th' \in Threads /\ loop' \in {"min", "vote"}
      /\ MinSeen' = MinSeen \cup {th} /\ VoteSeen' = {} /\ ChooseSeen' = {}
  <2>1. loop = "min" /\ Advance("vote") /\ VoteTypes
    BY DEF FindMin, VoteInv
  <2> QED
    BY <2>1, AdvanceSees, SMT DEF MinSeen, VoteSeen, ChooseSeen, Seen
<1>2. line[th].score \in Int /\ minScore \in Int /\ th \in Threads
  BY LineFacts DEF VoteInv, VoteTypes
<1>3. minScore' \in Int /\ minScore' <= minScore /\ minScore' <= line[th].score
  BY <1>2, SMT DEF FindMin
<1>4. VoteTypes'
  BY <1>1, <1>3 DEF FindMin, VoteTypes, VoteInv
<1>5. Lowest'
  <2> SUFFICES ASSUME NEW t \in MinSeen'
               PROVE  minScore' <= line[t].score
    BY DEF Lowest
  <2>1. t \in Threads
    <3>1. MinSeen \subseteq Threads
      BY <1>2, SMT DEF MinSeen, Seen, Threads, Finished
    <3> QED
      BY <3>1, <1>1, <1>2
  <2>2. line[t].score \in Int
    BY <2>1, LineFacts
  <2> QED
    BY <1>1, <1>2, <1>3, <2>2, SMT DEF Lowest, VoteInv
<1> QED
  BY <1>1, <1>4, <1>5 DEF FindMin, VoteInv, Counted, ShortestSeen, MostSeen, LosesFirst

LEMMA VoteKeeps ==
  ASSUME Finished, VoteInv, Vote
  PROVE  VoteInv'
<1>1. /\ th' \in Threads /\ loop' \in {"vote", "choose"}
      /\ MinSeen = Threads /\ MinSeen' = Threads
      /\ VoteSeen' = VoteSeen \cup {th} /\ ChooseSeen' = {}
  <2>1. loop = "vote" /\ Advance("choose") /\ VoteTypes
    BY DEF Vote, VoteInv
  <2> QED
    BY <2>1, AdvanceSees, SMT DEF MinSeen, VoteSeen, ChooseSeen, Seen
<1>2. th \in Threads /\ line[th].move \in Moves /\ line[th].score \in Int /\ minScore \in Int
  BY LineFacts DEF VoteInv, VoteTypes
<1> DEFINE n == line[th].score - minScore + 14
<1>3. n \in Int /\ n >= 14
  BY <1>1, <1>2, SMT DEF VoteInv, Lowest
<1>4. votes' = [votes EXCEPT ![line[th].move] = @ + n]
  BY DEF Vote
<1> HIDE DEF n
<1>5. votes' \in [Moves -> Int]
  BY <1>2, <1>3, <1>4, SMT DEF VoteInv, VoteTypes
<1>6. \A m \in Moves : votes'[m] >= votes[m] /\ (m = line[th].move => votes'[m] >= votes[m] + 14)
  BY <1>2, <1>3, <1>4, SMT DEF VoteInv, VoteTypes
<1>7. VoteTypes'
  BY <1>1, <1>5 DEF Vote, VoteInv, VoteTypes
<1>8. Counted'
  <2>1. \A m \in Moves : votes[m] \in Int /\ votes[m] >= 0 /\ votes'[m] \in Int
    BY <1>5 DEF VoteInv, VoteTypes, Counted
  <2>2. \A m \in Moves : votes'[m] >= 0
    BY <2>1, <1>6, SMT
  <2>3. ASSUME NEW t \in VoteSeen'
        PROVE  votes'[line[t].move] >= 14
    <3>1. t \in Threads
      <4>1. VoteSeen \subseteq Threads
        BY <1>2, SMT DEF VoteSeen, Seen, Threads, Finished
      <4> QED
        BY <4>1, <1>1, <1>2
    <3>2. line[t].move \in Moves
      BY <3>1, LineFacts
    <3>3. CASE t = th
      BY <3>2, <3>3, <2>1, <1>6, SMT
    <3>4. CASE t \in VoteSeen
      BY <3>2, <3>4, <2>1, <1>6, SMT DEF VoteInv, Counted
    <3> QED
      BY <3>3, <3>4, <1>1
  <2> QED
    BY <2>2, <2>3 DEF Counted
<1> QED
  BY <1>1, <1>7, <1>8 DEF Vote, VoteInv, Lowest, ShortestSeen, MostSeen, LosesFirst

LEMMA ChooseKeeps ==
  ASSUME Finished, VoteInv, Choose
  PROVE  VoteInv'
<1>1. /\ th' \in Threads /\ loop' \in {"choose", "done"}
      /\ MinSeen = Threads /\ MinSeen' = Threads
      /\ VoteSeen = Threads /\ VoteSeen' = Threads
      /\ ChooseSeen' = ChooseSeen \cup {th}
  <2>1. loop = "choose" /\ Advance("done") /\ VoteTypes
    BY DEF Choose, VoteInv
  <2> QED
    BY <2>1, AdvanceSees, SMT DEF MinSeen, VoteSeen, ChooseSeen, Seen
<1>2. th \in Threads /\ best \in Threads /\ VoteTypes
  BY DEF VoteInv, VoteTypes
<1>3. ChooseSeen \subseteq Threads
  BY <1>2, SMT DEF ChooseSeen, Seen, Threads, Finished
<1>4. best' = (IF Better(th, best) THEN th ELSE best) /\ votes' = votes /\ minScore' = minScore
  BY DEF Choose
<1>5. VoteTypes'
  BY <1>1, <1>2, <1>4 DEF VoteTypes
<1>6. Lowest' /\ Counted'
  BY <1>1, <1>4 DEF VoteInv, Lowest, Counted
<1>7. \A t \in Threads : Abs(line[t].score) \in Nat
  BY LineFacts
<1>8. \A s, t : Outvotes(s, t)' <=> Outvotes(s, t)
  BY <1>4 DEF Outvotes
<1>9. CASE Decisive(best)
  <2>1. Decisive(best') /\ Abs(line[best].score) <= Abs(line[best'].score)
    BY <1>2, <1>4, <1>7, <1>9, SMT DEF Better, Shorter
  <2>2. Decisive(th) => Abs(line[th].score) <= Abs(line[best'].score)
    BY <1>2, <1>4, <1>7, <1>9, SMT DEF Better, Shorter
  <2>3. best' \in Threads
    BY <1>2, <1>4
  <2>4. ShortestSeen'
    <3> SUFFICES ASSUME NEW t \in ChooseSeen', Decisive(t)
                 PROVE  Abs(line[t].score) <= Abs(line[best'].score)
      BY <2>1 DEF ShortestSeen, Decisive
    <3>1. CASE t = th
      BY <3>1, <2>2
    <3>2. CASE t \in ChooseSeen
      <4>1. Abs(line[t].score) <= Abs(line[best].score)
        BY <3>2 DEF VoteInv, ShortestSeen
      <4> QED
        BY <4>1, <2>1, <2>3, <3>2, <1>2, <1>3, <1>7, SMT
    <3> QED
      BY <3>1, <3>2, <1>1
  <2>5. MostSeen' /\ LosesFirst'
    BY <2>1 DEF MostSeen, LosesFirst, Decisive
  <2> QED
    BY <1>5, <1>6, <2>4, <2>5 DEF VoteInv
<1>10. CASE ~Decisive(best)
  <2>1. \A t \in ChooseSeen : ~Decisive(t)
    BY <1>10 DEF VoteInv, ShortestSeen
  <2>2. CASE Decisive(th)
    <3>1. best' = th
      BY <1>4, <1>10, <2>2 DEF Better
    <3>2. ShortestSeen'
      BY <1>1, <1>2, <1>7, <2>1, <2>2, <3>1, SMT DEF ShortestSeen, Decisive
    <3>3. MostSeen' /\ LosesFirst'
      BY <3>1, <2>2 DEF MostSeen, LosesFirst, Decisive
    <3> QED
      BY <1>5, <1>6, <3>2, <3>3 DEF VoteInv
  <2>3. CASE ~Decisive(th)
    <3>1. best' = IF ~is_loss(line[th].score) /\ Outvotes(th, best) THEN th ELSE best
      BY <1>4, <1>10, <2>3 DEF Better
    <3>2. ShortestSeen'
      <4>1. \A t \in ChooseSeen' : ~Decisive(t)
        BY <1>1, <2>1, <2>3
      <4> QED
        BY <4>1 DEF ShortestSeen, Decisive
    <3>3. \A t \in ChooseSeen : ~is_loss(line[t].score) => ~Outvotes(t, best)
      BY <1>10 DEF VoteInv, MostSeen
    <3>4. \A t \in ChooseSeen' : ~is_loss(line[t].score) => ~Outvotes(t, best')
      <4> SUFFICES ASSUME NEW t \in ChooseSeen', ~is_loss(line[t].score)
                   PROVE  ~Outvotes(t, best')
        OBVIOUS
      <4>1. CASE t = th
        BY <4>1, <3>1, <1>2, OutvotesIsStrict
      <4>2. CASE t \in ChooseSeen
        <5>1. ~Outvotes(t, best) /\ t \in Threads
          BY <4>2, <3>3, <1>3
        <5> QED
          BY <5>1, <3>1, <1>2, OutvotesIsTransitive
      <4> QED
        BY <4>1, <4>2, <1>1
    <3>5. MostSeen'
      BY <3>4, <1>8 DEF MostSeen
    <3>6. LosesFirst'
      BY <3>1, <1>10 DEF LosesFirst, VoteInv
    <3> QED
      BY <1>5, <1>6, <3>2, <3>5, <3>6 DEF VoteInv
  <2> QED
    BY <2>2, <2>3
<1> QED
  BY <1>9, <1>10

LEMMA VoteInvNext == Finished /\ VoteInv /\ [BestNext]_bestVars => VoteInv'
<1> SUFFICES ASSUME Finished, VoteInv, [BestNext]_bestVars
             PROVE  VoteInv'
  OBVIOUS
<1>1. CASE UNCHANGED bestVars
  BY <1>1 DEF bestVars, VoteInv, VoteTypes, Lowest, Counted, ShortestSeen, MostSeen, LosesFirst, MinSeen,
     VoteSeen, ChooseSeen, Seen, Outvotes, Decisive
<1> QED
  BY <1>1, FindMinKeeps, VoteKeeps, ChooseKeeps DEF BestNext

-----------------------------------------------------------------------------

\* Among any number of threads, the shortest mate that one of them has proved is played.
THEOREM ProvedMateIsPlayed ==
  ASSUME Finished
  PROVE  BestSpec => []ProvedMatesWin
<1>1. VoteInv => ProvedMatesWin
  BY DEF VoteInv, ShortestSeen, ChooseSeen, Seen, ProvedMatesWin
<1> QED
  BY <1>1, VoteInvInit, VoteInvNext, PTL DEF BestSpec

\* Among any number of threads with nothing proved, a move with the most votes is played.
THEOREM MostVotesArePlayed ==
  ASSUME Finished
  PROVE  BestSpec => []MostVotesWin
<1>1. VoteInv => MostVotesWin
  BY DEF VoteInv, MostSeen, LosesFirst, ChooseSeen, Seen, MostVotesWin
<1> QED
  BY <1>1, VoteInvInit, VoteInvNext, PTL DEF BestSpec

\* For any scores, each move that a thread votes for counts at least one vote.
THEOREM VotesNeverCancel ==
  ASSUME Finished
  PROVE  BestSpec => []VotesCount
<1>1. VoteInv => VotesCount
  BY DEF VoteInv, Counted, VoteSeen, Seen, VotesCount
<1> QED
  BY <1>1, VoteInvInit, VoteInvNext, PTL DEF BestSpec
-------------------------------------------------------------------------------
(***************************************************************************)
(* TimeManagement.                                                         *)
(***************************************************************************)

\* What the variables hold.
TypeOK ==
  /\ availableNodes \in Int /\ optimumTime \in Int /\ maximumTime \in Int
  /\ originalTimeAdjust \in Int /\ originalTimeAdjust <= MaxAdjust
  /\ callsCnt \in 0 .. 512 /\ overdue \in Nat
  /\ now \in Nat /\ nodes \in Nat
  /\ limits.time \in Int /\ limits.inc \in Nat /\ limits.nodes \in Nat
  /\ limits.npmsec \in Nat

\* What is overdue has been counted down: the number of calls to the next look and the number
\* of calls that came too late are never more than 512 together.
CountedDown == overdue + Larger(callsCnt, 1) <= 512

-----------------------------------------------------------------------------
(* The arithmetic of init().                                                *)

\* A part of a clock, rounded towards zero, is no more than the clock, or than one.
LEMMA PartOfClock ==
  ASSUME NEW c \in Int, NEW part \in Nat, NEW whole \in Nat \ {0}, part <= whole
  PROVE  Quotient(part * c, whole) \in Int /\ Quotient(part * c, whole) <= Larger(1, c)
<1>1. CASE c >= 0
  <2> DEFINE n == part * c
             q == n \div whole
  <2>1. n \in Nat /\ n <= whole * c
    BY <1>1, SMT
  <2>2. Quotient(n, whole) = q
    BY <2>1, SMT DEF Quotient
  <2>3. q \in Nat /\ whole * q <= n
    BY <2>1, SMT
  <2> HIDE DEF q, n
  <2>4. whole * q <= whole * c
    BY <2>1, <2>3, <1>1, SMT
  <2>5. q <= c
    BY <2>4, <2>3, <1>1, SMT
  <2> QED
    BY <2>2, <2>3, <2>5, <1>1, SMT DEF Larger, n
<1>2. CASE c < 0
  <2> DEFINE m == -(part * c)
  <2>1. m \in Nat /\ part * c = -m
    BY <1>2, SMT
  <2>2. m \div whole \in Nat
    <3> HIDE DEF m
    <3> QED
      BY <2>1, SMT
  <2>3. Quotient(part * c, whole) = IF m = 0 THEN 0 \div whole ELSE -(m \div whole)
    <3> HIDE DEF m
    <3> QED
      BY <2>1, SMT DEF Quotient
  <2>4. 0 \div whole = 0
    BY SMT
  <2> HIDE DEF m
  <2> QED
    BY <2>2, <2>3, <2>4, <1>2, SMT DEF Larger
<1> QED
  BY <1>1, <1>2, SMT

\* What caps the optimum is within the clock.
LEMMA CapFits ==
  ASSUME NEW c \in Int, NEW adjust \in Int, adjust <= 400
  PROVE  /\ Quotient(22 * c, 25) \in Int /\ Quotient(22 * c, 25) <= Larger(1, c)
         /\ Quotient(8237 * c, 10000) \in Int /\ Quotient(8237 * c, 10000) <= Larger(1, c)
         /\ adjust >= 0 => /\ Quotient(20577 * adjust * c, 10000000) \in Int
                           /\ Quotient(20577 * adjust * c, 10000000) <= Larger(1, c)
         /\ Larger(1, c) \in Int /\ 1 <= Larger(1, c)
<1>1. Quotient(22 * c, 25) \in Int /\ Quotient(22 * c, 25) <= Larger(1, c)
  BY PartOfClock, SMT
<1>2. Quotient(8237 * c, 10000) \in Int /\ Quotient(8237 * c, 10000) <= Larger(1, c)
  BY PartOfClock, SMT
<1>3. ASSUME adjust >= 0
      PROVE  /\ Quotient(20577 * adjust * c, 10000000) \in Int
             /\ Quotient(20577 * adjust * c, 10000000) <= Larger(1, c)
  <2> DEFINE part == 20577 * adjust
  <2>1. part \in Nat /\ part <= 10000000
    BY <1>3, SMT
  <2> HIDE DEF part
  <2>2. /\ Quotient(part * c, 10000000) \in Int
        /\ Quotient(part * c, 10000000) <= Larger(1, c)
    BY <2>1, PartOfClock, SMT
  <2> QED
    BY <2>2, SMT DEF part
<1>4. Larger(1, c) \in Int /\ 1 <= Larger(1, c)
  BY SMT DEF Larger
<1> QED
  BY <1>1, <1>2, <1>3, <1>4, SMT

\* The bounds that init() may choose, when all its conversions are defined.
LEMMA ChosenBounds ==
  ASSUME Bounded, NEW go \in Commands, NEW o \in Options, NEW adjust \in Int, adjust <= 400,
         availableNodes \in Int, NEW opt \in Int, NEW max \in Int,
         IsOptimum(opt, go, o, adjust), IsMaximum(max, opt, go, o), ~Undefined(go, o, adjust)
  PROVE  /\ Clock(go, o) \in Int
         /\ 1 <= opt /\ opt <= max /\ max <= Larger(1, Clock(go, o))
<1> DEFINE c == Clock(go, o)
           top == Larger(1, c)
           cap == Cap(go, o, adjust)
           rest == Quotient(8237 * c, 10000)
           ov == moveOverhead(o)
<1>1. go.time \in Int /\ o.nodestime \in Nat /\ o.overhead \in Nat
  BY DEF Bounded, Command, Setting
<1>2. c \in Int
  BY <1>1, SMT DEF Clock, Budget
<1>3. ov \in Nat
  BY <1>1, SMT DEF moveOverhead
<1>4. 1 <= opt /\ opt <= Larger(1, cap)
  BY DEF IsOptimum
<1>5. opt <= max /\ max <= Larger(opt, rest - ov)
  BY DEF IsMaximum
<1>6. cap = IF go.movestogo # 0 THEN Quotient(22 * c, 25)
            ELSE IF adjust < 0 THEN 0 ELSE Quotient(20577 * adjust * c, 10000000)
  BY DEF Cap
<1> HIDE DEF c
<1>7. top \in Int /\ 1 <= top /\ rest \in Int /\ rest <= top
  BY <1>2, CapFits
<1>8. cap \in Int /\ cap <= top
  <2> HIDE DEF cap
  <2>1. CASE go.movestogo # 0
    BY <2>1, <1>2, <1>6, CapFits
  <2>2. CASE go.movestogo = 0 /\ adjust < 0
    <3>1. cap = 0
      BY <2>2, <1>6
    <3> QED
      BY <3>1, <1>7, SMT
  <2>3. CASE go.movestogo = 0 /\ adjust >= 0
    <3>1. cap = Quotient(20577 * adjust * c, 10000000)
      BY <2>3, <1>6, SMT
    <3> QED
      BY <3>1, <2>3, <1>2, CapFits
  <2> QED
    BY <2>1, <2>2, <2>3, SMT
<1> HIDE DEF top, rest, cap, ov
<1>9. opt <= top
  BY <1>4, <1>7, <1>8, SMT DEF Larger
<1>10. max <= top
  BY <1>3, <1>5, <1>7, <1>9, SMT DEF Larger
<1> QED
  BY <1>2, <1>4, <1>5, <1>10 DEF top, c

-----------------------------------------------------------------------------
(* The steps.                                                               *)

LEMMA InitSound == Bounded /\ Init => TypeOK /\ MoveFitsTheClock /\ CountedDown
BY SMT DEF Bounded, Init, TypeOK, MoveFitsTheClock, CountedDown, NoLimits, Larger

\* A command's search begins with bounds that fit.
LEMMA StartSound ==
  ASSUME Bounded, TypeOK, MoveFitsTheClock, CountedDown,
         NEW go \in Commands, NEW o \in Options, NEW adjust \in -50 .. MaxAdjust,
         NEW opt \in Int, NEW max \in Int, Start(go, o, adjust, opt, max)
  PROVE  TypeOK' /\ MoveFitsTheClock' /\ CountedDown'
<1>1. /\ go.time \in Int /\ go.inc \in Nat /\ go.nodes \in Nat
      /\ o.nodestime \in Nat /\ o.overhead \in Nat
  BY DEF Bounded, Command, Setting
<1>2. MaxAdjust \in Int /\ MaxAdjust <= 400 /\ adjust \in Int /\ adjust <= MaxAdjust
  BY SMT DEF Bounded
<1> DEFINE a == Adjusted(go, adjust)
<1>3. a \in Int /\ a <= MaxAdjust
  BY <1>2, SMT DEF Adjusted, TypeOK
<1>4. Clock(go, o) \in Int /\ Budget(go, o) \in Int
  BY <1>1, SMT DEF Clock, Budget, TypeOK
<1>5. limits'.time = (IF go.time = 0 THEN 0 ELSE Clock(go, o)) /\ limits'.time \in Int
  BY <1>4 DEF Start
<1>6. limits'.inc \in Nat /\ limits'.nodes \in Nat /\ limits'.npmsec \in Nat
  <2>1. go.inc * (IF go.time # 0 /\ o.nodestime # 0 THEN o.nodestime ELSE 1) \in Nat
    BY <1>1, SMT
  <2> QED
    BY <1>1, <2>1 DEF Start
<1>7. CASE InitUntimed(go)
  <2>1. TypeOK'
    BY <1>5, <1>6, <1>7 DEF TypeOK, Start, InitUntimed
  <2>2. ~limits'.fresh
    BY <1>7 DEF Start, InitUntimed
  <2>3. MoveFitsTheClock'
    BY <2>2 DEF MoveFitsTheClock
  <2>4. CountedDown'
    <3>1. overdue' = 0 /\ callsCnt' = callsCnt
      BY DEF Start
    <3>2. Larger(callsCnt, 1) \in 1 .. 512
      BY SMT DEF TypeOK, Larger
    <3> QED
      BY <3>1, <3>2, SMT DEF CountedDown
  <2> QED
    BY <2>1, <2>3, <2>4
<1>8. CASE InitTimed(go, o, adjust, opt, max)
  <2>1. Quotient(opt, 4) \in Int
    BY SMT DEF Quotient
  <2>2. optimumTime' \in Int /\ maximumTime' = max
    BY <2>1, <1>8, SMT DEF InitTimed
  <2>3. TypeOK'
    BY <1>3, <1>4, <1>5, <1>6, <1>8, <2>2, SMT DEF TypeOK, Start, InitTimed
  <2>4. MoveFitsTheClock'
    <3> SUFFICES ASSUME limits'.fits
                 PROVE  /\ 1 <= maximumTime' /\ maximumTime' <= Larger(1, limits'.time)
                        /\ 1 <= optimumTime' /\ optimumTime' <= maximumTime' + maximumTime' \div 4
      BY DEF MoveFitsTheClock, Larger
    <3>1. go.time # 0 /\ ~Undefined(go, o, a)
      BY <1>8 DEF Start, InitTimed
    <3>2. IsOptimum(opt, go, o, a) /\ IsMaximum(max, opt, go, o)
      BY <1>8 DEF InitTimed
    <3>3. 1 <= opt /\ opt <= max /\ max <= Larger(1, Clock(go, o))
      BY <1>2, <1>3, <3>1, <3>2, ChosenBounds, SMT DEF TypeOK
    <3>4. limits'.time = Clock(go, o)
      BY <1>5, <3>1
    <3>5. optimumTime' = opt \/ optimumTime' = opt + opt \div 4
      BY <1>8, <3>3, SMT DEF InitTimed, Quotient
    <3>6. opt \div 4 <= max \div 4 /\ opt \div 4 \in Nat
      BY <3>3, SMT
    <3> QED
      BY <2>2, <3>3, <3>4, <3>5, <3>6, SMT
  <2> QED
    BY <2>3, <2>4, SMT DEF Start, CountedDown, TypeOK, Larger
<1> QED
  BY <1>7, <1>8 DEF Start

\* Everything else.
LEMMA NextSound ==
  Bounded /\ TypeOK /\ MoveFitsTheClock /\ CountedDown /\ [Next]_vars
    => TypeOK' /\ MoveFitsTheClock' /\ CountedDown'
<1> SUFFICES ASSUME Bounded, TypeOK, MoveFitsTheClock, CountedDown, [Next]_vars
             PROVE  TypeOK' /\ MoveFitsTheClock' /\ CountedDown'
  OBVIOUS
<1>1. CASE NewGame
  BY <1>1, SMT DEF NewGame, TypeOK, MoveFitsTheClock, CountedDown, Larger, Bounded
<1>2. CASE \E go \in Commands, o \in Options, adjust \in -50 .. MaxAdjust, opt \in Int, max \in Int :
             Start(go, o, adjust, opt, max)
  BY <1>2, StartSound
<1>3. CASE Work
  <2>1. now' \in Nat /\ nodes' \in Nat
    BY <1>3, SMT DEF Work, TypeOK
  <2> QED
    BY <1>3, <2>1 DEF Work, tm, TypeOK, MoveFitsTheClock, CountedDown
<1>4. CASE CountDown
  <2>1. callsCnt' = callsCnt - 1 /\ callsCnt' > 0 /\ callsCnt' \in 0 .. 512
    BY <1>4, SMT DEF CountDown, TypeOK
  <2>2. overdue' = overdue + 1 \/ overdue' = 0
    BY <1>4 DEF CountDown
  <2>3. TypeOK'
    BY <1>4, <2>1, <2>2, SMT DEF CountDown, tm, TypeOK
  <2>4. CountedDown'
    BY <2>1, <2>2, SMT DEF CountedDown, TypeOK, Larger
  <2> QED
    BY <1>4, <2>3, <2>4 DEF CountDown, tm, MoveFitsTheClock
<1>5. CASE Look
  <2>1. Calls \in 0 .. 512
    BY SMT DEF Calls, Smaller, TypeOK
  <2>2. callsCnt' \in 0 .. 512 /\ overdue' = 0
    BY <1>5, <2>1 DEF Look
  <2>3. Larger(callsCnt', 1) \in 1 .. 512
    BY <2>2, SMT DEF Larger
  <2>4. CountedDown'
    BY <2>2, <2>3, SMT DEF CountedDown
  <2> QED
    BY <1>5, <2>2, <2>4 DEF Look, tm, TypeOK, MoveFitsTheClock
<1>6. CASE IterationEnds \/ FailLow \/ PonderHit \/ StopCommand \/ UNCHANGED vars
  BY <1>6 DEF IterationEnds, FailLow, PonderHit, StopCommand, vars, tm, TypeOK, MoveFitsTheClock,
     CountedDown
<1>7. CASE Finish
  <2>1. availableNodes' \in Int
    BY <1>7, SMT DEF Finish, TypeOK, Larger
  <2> QED
    BY <1>7, <2>1 DEF Finish, TypeOK, MoveFitsTheClock, CountedDown
<1> QED
  BY <1>1, <1>2, <1>3, <1>4, <1>5, <1>6, <1>7 DEF Next

\* For all commands, options and results of the formulas: as long as its conversions are defined
\* the maximum time for a move is at least one and at most what the clock shows, and the optimum
\* is at most that, or a quarter more with the option Ponder.
THEOREM MoveAlwaysFits ==
  ASSUME Bounded
  PROVE  Spec => []MoveFitsTheClock
<1> QED
  BY InitSound, NextSound, PTL DEF Spec

\* For all commands, whatever callsCnt an earlier search left: a search with a reason to stop
\* is stopped within 512 calls of check_time().
THEOREM StoppedInTime ==
  ASSUME Bounded
  PROVE  Spec => []StopsInTime
<1>1. TypeOK /\ CountedDown => StopsInTime
  BY SMT DEF TypeOK, CountedDown, StopsInTime, Larger
<1> QED
  BY <1>1, InitSound, NextSound, PTL DEF Spec

-----------------------------------------------------------------------------
(* The budget.                                                              *)

\* Clocks that a budget may be computed from.
NoDebts == \A go \in Commands : go.time >= 0

\* For all games played in nodes: the budget never runs below nothing, and is computed once.
THEOREM BudgetNeverRefilled ==
  ASSUME Bounded, NoDebts
  PROVE  Spec => []BudgetIsKept
<1> DEFINE Inv == TypeOK /\ MoveFitsTheClock /\ CountedDown /\ BudgetIsKept
<1>1. Init => Inv
  BY InitSound, SMT DEF Init, BudgetIsKept
<1>2. Inv /\ [Next]_vars => Inv'
  <2> SUFFICES ASSUME Inv, [Next]_vars
               PROVE  BudgetIsKept'
    BY NextSound
  <2>1. ASSUME NEW go \in Commands, NEW o \in Options, NEW adjust, NEW opt, NEW max,
               Start(go, o, adjust, opt, max)
        PROVE  BudgetIsKept'
    <3>1. go.time \in Nat /\ o.nodestime \in Nat
      BY SMT DEF Bounded, NoDebts, Command, Setting
    <3>2. Budget(go, o) \in Nat
      BY <3>1, SMT DEF Budget, TypeOK, BudgetIsKept
    <3>3. limits'.npmsec = IF go.time = 0 THEN 0 ELSE o.nodestime
      BY <2>1 DEF Start
    <3>4. CASE InitUntimed(go)
      BY <2>1, <3>3, <3>4, SMT DEF InitUntimed, BudgetIsKept
    <3>5. CASE InitTimed(go, o, adjust, opt, max)
      BY <3>2, <3>3, <3>5, SMT DEF InitTimed, BudgetIsKept
    <3> QED
      BY <2>1, <3>4, <3>5 DEF Start
  <2>2. CASE NewGame
    BY <2>2, SMT DEF NewGame, BudgetIsKept
  <2>3. CASE Finish
    BY <2>3, SMT DEF Finish, BudgetIsKept, TypeOK, Larger
  <2>4. CASE Work \/ CountDown \/ Look \/ IterationEnds \/ FailLow \/ PonderHit \/ StopCommand
             \/ UNCHANGED vars
    BY <2>4 DEF Work, CountDown, Look, IterationEnds, FailLow, PonderHit, StopCommand, vars, tm,
       BudgetIsKept
  <2> QED
    BY <2>1, <2>2, <2>3, <2>4 DEF Next
<1>3. Inv => BudgetIsKept
  OBVIOUS
<1> QED
  BY <1>1, <1>2, <1>3, PTL DEF Spec
================================================================================
