---- MODULE SearchValues ----
(* The scores of the search.  A mate is worth VALUE_MATE less the plies it  *)
(* takes, counted from the root in the search and from the position itself *)
(* in the transposition table.  Below the mates are the wins that the      *)
(* tablebases prove, and below these the ordinary scores.                  *)
EXTENDS Integers

CONSTANTS VALUE_MATE,   \* 32000
          MAX_PLY,      \* 246
          RULE50        \* 100: the plies after which the game is a draw

ASSUME ScoreAssumption ==
    /\ VALUE_MATE \in Nat /\ MAX_PLY \in Nat \ {0} /\ RULE50 \in Nat
    /\ VALUE_MATE > 3 * MAX_PLY + 1

VALUE_INFINITE == VALUE_MATE + 1
VALUE_NONE == VALUE_MATE + 2
VALUE_MATE_IN_MAX_PLY == VALUE_MATE - MAX_PLY
VALUE_TB == VALUE_MATE_IN_MAX_PLY - 1
VALUE_TB_WIN_IN_MAX_PLY == VALUE_TB - MAX_PLY
Value == (-VALUE_INFINITE)..VALUE_INFINITE

is_valid(v) == v # VALUE_NONE
is_win(v) == v >= VALUE_TB_WIN_IN_MAX_PLY
is_loss(v) == v <= -VALUE_TB_WIN_IN_MAX_PLY
is_decisive(v) == is_win(v) \/ is_loss(v)
is_mate(v) == v >= VALUE_MATE_IN_MAX_PLY
is_mated(v) == v <= -VALUE_MATE_IN_MAX_PLY
mate_in(ply) == VALUE_MATE - ply
mated_in(ply) == -VALUE_MATE + ply

\* A score counted from the position, and back without any doubts.
value_to_tt(v, ply) == IF is_win(v) THEN v + ply ELSE IF is_loss(v) THEN v - ply ELSE v
FromHere(v, ply) == IF is_win(v) THEN v - ply ELSE IF is_loss(v) THEN v + ply ELSE v

\* A win of the table may come too late: the game could be drawn before.
TooLate(v, r50c) ==
    \/ is_mate(v) /\ VALUE_MATE - v > RULE50 - r50c
    \/ VALUE_TB - v > RULE50 - r50c

\* Mutant: mates are trusted however far they are.
MatesTrusted(v, ply, r50c) == IF is_valid(v) THEN FromHere(v, ply) ELSE VALUE_NONE

value_from_tt(v, ply, r50c) ==
    IF ~is_valid(v) THEN VALUE_NONE
    ELSE IF is_win(v) /\ TooLate(v, r50c) THEN VALUE_TB_WIN_IN_MAX_PLY - 1
    ELSE IF is_loss(v) /\ TooLate(-v, r50c) THEN -VALUE_TB_WIN_IN_MAX_PLY + 1
    ELSE FromHere(v, ply)
====
