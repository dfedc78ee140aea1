---- MODULE ChessRules ----
(* The laws of chess, written on the board alone: the reference that the   *)
(* bitboard code of modules Position and MoveGen is checked against.  No   *)
(* attack table, pin mask or check mask of the program is used here.       *)
EXTENDS Position

DeltaFile(s, t) == file_of(t) - file_of(s)
DeltaRank(s, t) == rank_of(t) - rank_of(s)
Distance(s, t) == Max({Abs(DeltaFile(s, t)), Abs(DeltaRank(s, t))})
Straight(s, t) == DeltaFile(s, t) = 0 \/ DeltaRank(s, t) = 0
Diagonal(s, t) == Abs(DeltaFile(s, t)) = Abs(DeltaRank(s, t))
\* The squares strictly between two squares of one line.
Between(s, t) == LET step == (t - s) \div Distance(s, t)
                 IN  {s + k * step : k \in 1..(Distance(s, t) - 1)}
Open(b, s, t) == \A x \in Between(s, t) : b[x] = NO_PIECE
Forward(c) == IF c = WHITE THEN 1 ELSE -1
Owner(b, s, c) == b[s] # NO_PIECE /\ color_of(b[s]) = c

\* The piece on s attacks t.
Hits(b, s, t) ==
    /\ s # t
    /\ CASE type_of(b[s]) = PAWN   -> /\ Abs(DeltaFile(s, t)) = 1
                                      /\ DeltaRank(s, t) = Forward(color_of(b[s]))
         [] type_of(b[s]) = KNIGHT -> {Abs(DeltaFile(s, t)), Abs(DeltaRank(s, t))} = {1, 2}
         [] type_of(b[s]) = KING   -> Distance(s, t) = 1
         [] type_of(b[s]) = ROOK   -> Straight(s, t) /\ Open(b, s, t)
         [] type_of(b[s]) = BISHOP -> Diagonal(s, t) /\ Open(b, s, t)
         [] OTHER -> (Straight(s, t) \/ Diagonal(s, t)) /\ Open(b, s, t)
Attacked(b, t, c) == \E s \in Squares : Owner(b, s, c) /\ Hits(b, s, t)
KingOf(b, c) == CHOOSE s \in Squares : b[s] = make_piece(c, KING)
InCheck(b, c) == Attacked(b, KingOf(b, c), Opp(c))

\* The board after a move.
After(b, m) ==
    LET us == color_of(b[m.from])
    IN  CASE m.type = "CASTLING" ->
               LET side6 == m.to > m.from
                   home == IF us = WHITE THEN 0 ELSE 56
                   lifted == [b EXCEPT ![m.from] = NO_PIECE, ![m.to] = NO_PIECE]
               IN  [lifted EXCEPT ![home + (IF side6 THEN 6 ELSE 2)] = make_piece(us, KING),
                                  ![home + (IF side6 THEN 5 ELSE 3)] = make_piece(us, ROOK)]
          [] m.type = "EN_PASSANT" ->
               [b EXCEPT ![m.from] = NO_PIECE, ![m.to] = b[m.from],
                         ![make_square(file_of(m.to), rank_of(m.from))] = NO_PIECE]
          [] m.type = "PROMOTION" ->
               [b EXCEPT ![m.from] = NO_PIECE, ![m.to] = make_piece(us, m.promotion)]
          [] OTHER -> [b EXCEPT ![m.from] = NO_PIECE, ![m.to] = b[m.from]]

\* A pawn's move with its promotions.
PawnMove(c, s, t) ==
    IF relative_rank(c, t) = 7 THEN {PromotionTo(s, t, pt) : pt \in KNIGHT..QUEEN} ELSE {Move(s, t)}
\* pushed: the square a pawn has just passed over, or SQ_NONE.
PawnMoves(b, us, s, pushed) ==
    LET step == 8 * Forward(us)
        one  == {t \in {s + step} : b[t] = NO_PIECE}
        two  == {t \in {s + 2 * step} : relative_rank(us, s) = 1 /\ one # {} /\ b[t] = NO_PIECE}
        hits == {t \in Squares : Hits(b, s, t)}
    IN  UNION {PawnMove(us, s, t) : t \in one \cup two \cup {x \in hits : Owner(b, x, Opp(us))}}
          \cup {MoveOf(s, t, "EN_PASSANT") : t \in hits \cap {pushed}}

\* The king and a rook that have not moved change places: nothing stands in
\* their way and the king neither leaves, crosses nor enters an attacked square.
Spanned(s, t) == IF s < t THEN s..t ELSE t..s
Castles(b, us, s, rooks) ==
    LET home == IF us = WHITE THEN 0 ELSE 56
        kto(r) == home + (IF r > s THEN 6 ELSE 2)
        rto(r) == home + (IF r > s THEN 5 ELSE 3)
        free(r) == \A x \in (Spanned(s, kto(r)) \cup Spanned(r, rto(r))) \ {s, r} : b[x] = NO_PIECE
        safe(r) == \A x \in (Spanned(s, kto(r)) \ {kto(r)}) \cup {s} :
                      ~InCheck([b EXCEPT ![s] = NO_PIECE, ![x] = make_piece(us, KING)], us)
    IN  {MoveOf(s, r, "CASTLING") : r \in {x \in rooks : free(x) /\ safe(x)}}

RuleMoves(b, us, pushed, rooks) ==
    LET men == {s \in Squares : Owner(b, s, us)}
        of1(s) == IF type_of(b[s]) = PAWN THEN PawnMoves(b, us, s, pushed)
                  ELSE {Move(s, t) : t \in {x \in Squares : ~Owner(b, x, us) /\ Hits(b, s, x)}}
                         \cup (IF type_of(b[s]) = KING THEN Castles(b, us, s, rooks) ELSE {})
    IN  {m \in UNION {of1(s) : s \in men} : ~InCheck(After(b, m), us)}
====
