---- MODULE MCChess ----
(* Chess positions to walk from.  Pieces are coded as in Bitboards: white *)
(* from pawn 1 to king 6, black from 9 to 14; squares from a1 = 0 to h8.   *)
EXTENDS ChessProperties

\* men: the pieces with their squares.
Fen(men, stm, rights, ep, r50, fm, c960) ==
    [board |-> [s \in Squares |-> IF \E x \in men : x[2] = s
                                 THEN (CHOOSE x \in men : x[2] = s)[1] ELSE NO_PIECE],
     side |-> stm, castling |-> rights, ep |-> ep, rule50 |-> r50, fullmove |-> fm,
     chess960 |-> c960]
\* only: the moves that may be done, {} if all; evals: how many evaluations.
WalkFrom(start, only, plies, nulls, evals) ==
    [fen |-> start, only |-> only, plies |-> plies, nulls |-> nulls, evals |-> evals]

\* Pins, captures, castling on both sides and double pushes.
\* r3k2r/p1ppqpb1/bn2pnp1/3PN3/1p2P3/2N2Q1p/PPPBBPPP/R3K2R w KQkq - 0 1
BusyLine ==
    WalkFrom(Fen({<<4, 0>>, <<6, 4>>, <<4, 7>>, <<1, 8>>, <<1, 9>>, <<1, 10>>, <<3, 11>>, <<3, 12>>, <<1,
         13>>, <<1, 14>>, <<1, 15>>, <<2, 18>>, <<5, 21>>, <<9, 23>>, <<9, 25>>, <<1, 28>>, <<1,
         35>>, <<2, 36>>, <<11, 40>>, <<10, 41>>, <<9, 44>>, <<10, 45>>, <<9, 46>>, <<9, 48>>, <<9,
         50>>, <<9, 51>>, <<13, 52>>, <<9, 53>>, <<11, 54>>, <<12, 56>>, <<14, 60>>, <<12, 63>>}, 0,
         <<<<0, 8>>, <<0, 9>>, <<1, 8>>, <<1, 9>>>>, 64, 0, 1, FALSE),
     {}, 1, TRUE, 0)

\* En passant captures that would uncover a rook on the rank.
\* 8/2p5/3p4/KP5r/1R3p1k/8/4P1P1/8 w - - 0 1
RankPinLine ==
    WalkFrom(Fen({<<1, 12>>, <<1, 14>>, <<4, 25>>, <<9, 29>>, <<14, 31>>, <<6, 32>>, <<1, 33>>, <<12, 39>>,
         <<9, 43>>, <<9, 50>>}, 0, <<>>, 64, 0, 1, FALSE),
     {}, 2, TRUE, 0)

\* A double push that opens a line, and captures along a pin.
\* 8/8/7B/1k3p2/4p3/8/3P1P2/4K3 w - - 0 1
DiagonalPinLine ==
    WalkFrom(Fen({<<6, 4>>, <<1, 11>>, <<1, 13>>, <<9, 28>>, <<14, 33>>, <<9, 37>>, <<3, 47>>}, 0, <<>>, 64,
         0, 1, FALSE),
     {}, 2, FALSE, 0)

\* Promotions with and without a capture, by both sides.
\* 1n2k3/P1P5/8/8/8/8/1p4p1/R3K2N w Q - 0 1
PromotionsLine ==
    WalkFrom(Fen({<<4, 0>>, <<6, 4>>, <<2, 7>>, <<9, 9>>, <<9, 14>>, <<1, 48>>, <<1, 50>>, <<10, 57>>, <<14,
         60>>}, 0, <<<<0, 9>>>>, 64, 0, 1, FALSE),
     {}, 2, FALSE, 0)

\* A check and an en passant square at once.
\* 4k3/8/8/1b1pP3/8/8/4r3/2BRK3 w - d6 0 1
EvasionsLine ==
    WalkFrom(Fen({<<3, 2>>, <<4, 3>>, <<6, 4>>, <<12, 12>>, <<11, 33>>, <<9, 35>>, <<1, 36>>, <<14, 60>>},
         0, <<>>, 43, 0, 1, FALSE),
     {}, 2, FALSE, 0)

\* Chess960: the castling rook keeps a check from the king.
\* 4k3/8/8/8/8/8/5n2/qRK3R1 w BG - 0 1
RookPinnedLine ==
    WalkFrom(Fen({<<13, 0>>, <<4, 1>>, <<6, 2>>, <<4, 6>>, <<10, 13>>, <<14, 60>>}, 0, <<<<0, 1>>, <<0,
         6>>>>, 64, 0, 1, TRUE),
     {}, 1, FALSE, 0)

\* Chess960: king and rook change places, or one stays.
\* 1r1k1r2/8/8/8/8/8/8/1RK4R w Bfb - 12 30
CrossingLine ==
    WalkFrom(Fen({<<4, 1>>, <<6, 2>>, <<4, 7>>, <<12, 57>>, <<14, 59>>, <<12, 61>>}, 0, <<<<0, 1>>, <<1,
         5>>, <<1, 1>>>>, 64, 12, 30, TRUE),
     {}, 2, FALSE, 0)

\* Exchanges with batteries and pinned pieces.
\* 3r2k1/3r1pp1/4n3/3p4/2P1P1b1/5N2/3R1P2/3RQ1K1 w - - 20 40
ExchangesLine ==
    WalkFrom(Fen({<<4, 3>>, <<5, 4>>, <<6, 6>>, <<4, 11>>, <<1, 13>>, <<2, 21>>, <<1, 26>>, <<1, 28>>, <<11,
         30>>, <<9, 35>>, <<10, 44>>, <<12, 51>>, <<9, 53>>, <<9, 54>>, <<12, 59>>, <<14, 62>>}, 0,
         <<>>, 64, 20, 40, FALSE),
     {}, 1, FALSE, 0)

\* Moves to and fro, with another way round a pawn.
\* 6k1/8/8/8/8/R7/P7/6K1 w - - 7 30
ShuffleLine ==
    WalkFrom(Fen({<<6, 6>>, <<1, 8>>, <<4, 16>>, <<14, 62>>}, 0, <<>>, 64, 7, 30, FALSE),
     {<<16, 17>>, <<17, 1>>, <<1, 0>>, <<17, 16>>, <<0, 1>>, <<62, 63>>, <<63, 62>>}, 7, TRUE, 0)

\* King moves within a half of the board and to the other, and castling.
\* r3k2r/pppq1ppp/2n5/8/8/2N5/PPPQ1PPP/R3K2R w KQkq - 0 1
KingsLine ==
    WalkFrom(Fen({<<4, 0>>, <<6, 4>>, <<4, 7>>, <<1, 8>>, <<1, 9>>, <<1, 10>>, <<5, 11>>, <<1, 13>>, <<1,
         14>>, <<1, 15>>, <<2, 18>>, <<10, 42>>, <<9, 48>>, <<9, 49>>, <<9, 50>>, <<13, 51>>, <<9,
         53>>, <<9, 54>>, <<9, 55>>, <<12, 56>>, <<14, 60>>, <<12, 63>>}, 0, <<<<0, 8>>, <<0, 9>>,
         <<1, 8>>, <<1, 9>>>>, 64, 0, 1, FALSE),
     {<<4, 3>>, <<4, 7>>, <<60, 59>>, <<11, 51>>, <<60, 51>>}, 3, FALSE, 2)

\* Captures, pairs of pawns broken up, and a null move, with threats through them.
\* 2r1k3/1p1q1p2/2n1b3/p2pP3/P1PP1B2/2N2Q2/1P3P2/2R1K3 w - - 0 1
ThreatsLine ==
    WalkFrom(Fen({<<4, 2>>, <<6, 4>>, <<1, 9>>, <<1, 13>>, <<2, 18>>, <<5, 21>>, <<1, 24>>, <<1, 26>>, <<1,
         27>>, <<3, 29>>, <<9, 32>>, <<9, 35>>, <<1, 36>>, <<10, 42>>, <<11, 44>>, <<9, 49>>, <<13,
         51>>, <<9, 53>>, <<12, 58>>, <<14, 60>>}, 0, <<>>, 64, 0, 1, FALSE),
     {<<26, 35>>, <<44, 35>>, <<53, 37>>, <<36, 45>>}, 3, TRUE, 2)

\* Endgames: the leading men are the pawns, three men that are the only ones of their
\* kind, or the two kings; with as many men on both sides the colors are alike.
\* 8/8/8/3k4/8/2K5/1R6/5r2 b - - 0 1
RookEndgameLine ==
    WalkFrom(Fen({<<4, 9>>, <<6, 18>>, <<14, 35>>, <<12, 5>>}, 1, <<>>, 64, 0, 1, FALSE),
     {<<5, 61>>, <<35, 36>>}, 1, FALSE, 0)
\* 7k/8/8/8/3n4/3b4/2R5/1K6 w - - 0 1
MinorsEndgameLine ==
    WalkFrom(Fen({<<6, 1>>, <<4, 10>>, <<11, 19>>, <<10, 27>>, <<14, 63>>}, 0, <<>>, 64, 0, 1, FALSE),
     {<<1, 0>>, <<10, 8>>}, 1, FALSE, 0)
\* 8/8/1k6/8/8/2N2N2/8/K7 w - - 0 1
KnightsEndgameLine ==
    WalkFrom(Fen({<<6, 0>>, <<2, 18>>, <<2, 21>>, <<14, 41>>}, 0, <<>>, 64, 0, 1, FALSE),
     {<<18, 28>>, <<0, 9>>}, 1, FALSE, 0)
\* 8/6PP/8/3k4/1p6/4K3/8/8 w - - 0 1
PawnsEndgameLine ==
    WalkFrom(Fen({<<6, 20>>, <<9, 25>>, <<14, 35>>, <<1, 54>>, <<1, 55>>}, 0, <<>>, 64, 0, 1, FALSE),
     {<<54, 62>>, <<20, 21>>}, 1, FALSE, 0)
\* 8/8/8/3k4/1P6/6n1/6P1/4K3 w - - 0 1
PawnPairEndgameLine ==
    WalkFrom(Fen({<<6, 4>>, <<1, 14>>, <<10, 22>>, <<1, 25>>, <<14, 35>>}, 0, <<>>, 64, 0, 1, FALSE),
     {<<25, 33>>, <<4, 3>>}, 1, FALSE, 0)
\* 8/8/8/8/8/k7/3p4/K7 b - - 0 1
PromotionEndgameLine ==
    WalkFrom(Fen({<<6, 0>>, <<9, 11>>, <<14, 16>>}, 1, <<>>, 64, 0, 1, FALSE),
     {<<11, 3>>}, 1, FALSE, 0)

\* The men that lead in ascending or in descending order, encoded first or last.
MCLayouts(t) ==
    LET number(pc) == IF type_of(pc) = KING THEN 1 ELSE t.code[1 + color_of(pc)][type_of(pc)]
        kinds == {pc \in Pieces : number(pc) > 0}
        class(pc) == IF t.hasPawns
                     THEN IF pc = make_piece(t.leadColor, PAWN) THEN 0 ELSE IF type_of(pc) = PAWN THEN 1 ELSE 2
                     ELSE IF number(pc) = 1 THEN 0 ELSE 1
        ordered(sign) == SetToSortSeq(kinds, LAMBDA x, y : class(x) < class(y)
                                                \/ (class(x) = class(y) /\ sign * x < sign * y))
        all(sign) == FoldLeft(LAMBDA seq, pc : seq \o [i \in 1..number(pc) |-> pc], <<>>, ordered(sign))
        last(seq) == Max(Range(GroupsOf(t, [pieces |-> seq]))) - 1
    IN  {[pieces |-> all(1), order |-> <<0, 1>>],
         [pieces |-> all(-1), order |-> <<last(all(-1)), last(all(-1)) - 1>>]}

\* Some history: moves of all the classes the thresholds make.
MCHistory(p) ==
    [m \in PseudoLegal(p) \cup generate(p, "CAPTURES") \cup generate(p, "QUIETS") |->
       (((m.from * 7 + m.to * 13) * 997) % 40001) - 30000]
\* No hash move, one of another position, a capture or some other move.
MCHashMoves(p) ==
    LET all == PseudoLegal(p)
    IN  {NoMove, Move(0, 63)} \cup {CHOOSE m \in x : TRUE : x \in {{m \in all : capture_stage(p, m)},
                                            {m \in all : ~capture_stage(p, m)}} \ {{}}}

MCScenarios == {BusyLine, RankPinLine, DiagonalPinLine, PromotionsLine, EvasionsLine, RookPinnedLine,
    CrossingLine, ExchangesLine, ShuffleLine, KingsLine, ThreatsLine,
    RookEndgameLine, MinorsEndgameLine, KnightsEndgameLine, PawnsEndgameLine, PawnPairEndgameLine,
    PromotionEndgameLine}
====
