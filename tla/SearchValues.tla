------------------------------ MODULE SearchValues ------------------------------
(***************************************************************************)
(* The whole-number arithmetic behind a search value: what the hash table  *)
(* keeps of a mate score, how histories correct an evaluation, and how an  *)
(* entry of a history is updated.  Pure functions of search.cpp, history.h *)
(* and types.h; TLAPS proves of them what SearchValuesProofs states.        *)
(***************************************************************************)
EXTENDS Integers

MAX_PLY == 246
VALUE_NONE == 32002
VALUE_INFINITE == 32001
VALUE_MATE == 32000
VALUE_MATE_IN_MAX_PLY == VALUE_MATE - MAX_PLY
VALUE_MATED_IN_MAX_PLY == -VALUE_MATE_IN_MAX_PLY
CORRECTION_HISTORY_LIMIT == 1024

\* Numbers that an i16 and an int can hold.
Fits16(n) == n \in Int /\ -32768 <= n /\ n <= 32767
Fits32(n) == n \in Int /\ -2147483647 - 1 <= n /\ n <= 2147483647

is_win(v) == v >= VALUE_MATE_IN_MAX_PLY
is_loss(v) == v <= VALUE_MATED_IN_MAX_PLY

\* Division of C++, which rounds towards zero; d is positive.
Quotient(n, d) == IF n >= 0 THEN n \div d ELSE -((-n) \div d)

Abs(n) == IF n >= 0 THEN n ELSE -n
Clamp(n, low, high) == IF n < low THEN low ELSE IF n > high THEN high ELSE n

-----------------------------------------------------------------------------
(* Mate scores in the hash table: distances from the root become distances   *)
(* from the node and back.                                                   *)

value_to_tt(v, ply) == IF is_win(v) THEN v + ply ELSE IF is_loss(v) THEN v - ply ELSE v

\* A mate too far away for the 60-move rule is not believed.
value_from_tt(v, ply, r60c) ==
  IF v = VALUE_NONE THEN VALUE_NONE
  ELSE IF is_win(v)
    THEN IF VALUE_MATE - v > 120 - r60c THEN VALUE_MATE_IN_MAX_PLY - 1 ELSE v - ply
  ELSE IF is_loss(v)
    THEN IF VALUE_MATE + v > 120 - r60c THEN VALUE_MATED_IN_MAX_PLY + 1 ELSE v + ply
  ELSE v

\* The values that a node `ply' moves from the root may return.
ValuesAt(ply) == ply - VALUE_MATE .. VALUE_MATE - ply

-----------------------------------------------------------------------------
(* The evaluation and the histories that correct it.                         *)

\* `move' is FALSE when the last move was none or null; the arguments are entries.
correction_value(pcv, micv, wnpcv, bnpcv, cnt2, cnt4, move) ==
  4547 * pcv + 3804 * micv + 8213 * (wnpcv + bnpcv)
  + (IF move THEN 8982 * (cnt2 + cnt4) ELSE 71856)

to_corrected_static_eval(v, cv) ==
  Clamp(v + Quotient(cv, 131072), VALUE_MATED_IN_MAX_PLY + 1, VALUE_MATE_IN_MAX_PLY - 1)

\* operator<<() of an entry that keeps within -D and D, once it has been read.
Updated(val, bonus, D) ==
  LET clampedBonus == Clamp(bonus, -D, D)
  IN val + clampedBonus - Quotient(val * Abs(clampedBonus), D)
================================================================================
