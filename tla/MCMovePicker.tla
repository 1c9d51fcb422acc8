----------------------------- MODULE MCMovePicker -----------------------------
(* Three captures and three quiet moves, with scores on both sides of the    *)
(* limits: -3330 sorts quiet moves at depth 1, -16650 at depth 5.            *)
EXTENDS MovePicker

CONSTANTS c1, c2, c3, q1, q2, q3

MCCaptures == <<c1, c2, c3>>
MCQuiets == <<q1, q2, q3>>
MCCaptureScores == {1, 2}
MCQuietScores == {-15000, -5000, 7}
MCDepths == {0, 1, 5}
=============================================================================
