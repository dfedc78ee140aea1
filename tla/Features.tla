---- MODULE Features ----
(* The inputs of the evaluation network: which features a position has, as *)
(* seen by each side, and which of them a move changes.  A feature is the  *)
(* index of its weights, computed as the program computes it: king and     *)
(* piece squares (HalfKAv2_hm) in one table, threats (FullThreats) and     *)
(* pairs of pawns (PP_3Wide) one after the other in another.               *)
EXTENDS MoveGen

\* Mutant: the ranks are not mirrored.
MirroredFilesOnly(s, files, perspective) ==
    make_square(IF files THEN 7 - file_of(s) ELSE file_of(s), rank_of(s))

Mirrored(s, files, perspective) ==
    make_square(IF files THEN 7 - file_of(s) ELSE file_of(s),
                IF perspective = BLACK THEN 7 - rank_of(s) ELSE rank_of(s))

(* ---- HalfKAv2_hm ---- *)

PS_NB == 11 * 64
PieceSquareIndex(perspective, pc) ==
    IF type_of(pc) = KING THEN 640
    ELSE 64 * (2 * (type_of(pc) - 1) + (IF color_of(pc) = perspective THEN 0 ELSE 1))
KingBucket(s) == PS_NB * (4 * (7 - rank_of(s)) + Min({file_of(s), 7 - file_of(s)}))
HalfKA(perspective, s, pc, ksq) ==
    Mirrored(s, file_of(ksq) < 4, perspective) + PieceSquareIndex(perspective, pc)
      + KingBucket(Mirrored(ksq, FALSE, perspective))
requires_refresh(dp, perspective) == dp.pc = make_piece(perspective, KING)

\* The changed features: what is removed, what is added.
ChangedHalfKA(perspective, ksq, dp) ==
    [removed |-> {HalfKA(perspective, dp.from, dp.pc, ksq)}
                   \cup {HalfKA(perspective, x[2], x[1], ksq) : x \in dp.remove},
     added   |-> {HalfKA(perspective, s, dp.pc, ksq) : s \in {dp.to} \ {SQ_NONE}}
                   \cup {HalfKA(perspective, x[2], x[1], ksq) : x \in dp.add}]

(* ---- FullThreats ---- *)

numValidTargets(pc) == <<4, 10, 8, 8, 10, 0>>[type_of(pc)]
\* The threats of each attacker type on each attacked type have this rank
\* among those of the attacker; -1: there is no such feature.
ThreatMap == << <<-1, 0, -1, 1, -1, -1>>, <<0, 1, 2, 3, 4, -1>>, <<0, 1, 2, 3, -1, -1>>,
                <<0, 1, 2, 3, -1, -1>>, <<0, 1, 2, 3, 4, -1>>, <<-1, -1, -1, -1, -1, -1>> >>

AttacksOf == [pc \in Pieces |-> [s \in Squares |->
    IF type_of(pc) # PAWN THEN PseudoAttacks[type_of(pc)][s] ELSE PawnAttacks[color_of(pc)][s]]]
CountedAttacks(pc, s) ==
    IF type_of(pc) = PAWN /\ s \notin 8..55 THEN 0 ELSE Cardinality(AttacksOf[pc][s])
\* offsets: the attacks from the lower squares; and of all squares.
ThreatOffsets == [pc \in Pieces |-> [s \in 0..64 |->
    MapThenSumSet(LAMBDA t : CountedAttacks(pc, t), 0..(s - 1))]]
CumulativeOffset == [pc \in Pieces |->
    MapThenSumSet(LAMBDA x : numValidTargets(x) * ThreatOffsets[x][64],
                  {x \in Pieces : x < pc})]
ThreatDimensions == 59808

\* A pair of the same type threatens both ways: one of the two is left out.
Excluded(attacker, attacked, ascending) ==
    LET at == type_of(attacker)  dt == type_of(attacked)
    IN  \/ ThreatMap[at][dt] < 0
        \/ ascending /\ at = dt /\ (color_of(attacker) # color_of(attacked) \/ at # PAWN)

\* Threat(...): the feature as a set, empty if it is excluded.
Threat(perspective, attacker, from, to, attacked, ksq) ==
    LET turn(pc) == make_piece((color_of(pc) + perspective) % 2, type_of(pc))
        a == turn(attacker)
        d == turn(attacked)
        f == Mirrored(from, file_of(ksq) >= 4, perspective)
        t == Mirrored(to, file_of(ksq) >= 4, perspective)
        rank == Cardinality({s \in AttacksOf[a][f] : s < t})
        slot == color_of(d) * (numValidTargets(a) \div 2) + ThreatMap[type_of(a)][type_of(d)]
    IN  IF Excluded(a, d, f < t) THEN {}
        ELSE {CumulativeOffset[a] + slot * ThreatOffsets[a][64] + ThreatOffsets[a][f] + rank}

\* The threats of a position: <<attacker, from, to, attacked>>.
AllThreats(p) ==
    LET targets(pt) == CASE pt = PAWN -> by(p, {KNIGHT, ROOK})
                         [] pt \in {KNIGHT, QUEEN} -> by(p, PAWN..QUEEN)
                         [] OTHER -> by(p, {PAWN, KNIGHT, BISHOP, ROOK})
        attacks(s) == IF type_of(p.board[s]) = PAWN THEN PawnAttacks[color_of(p.board[s])][s]
                      ELSE attacks_bb(type_of(p.board[s]), s, pieces(p))
    IN  UNION {{<<p.board[s], s, t, p.board[t]>> : t \in attacks(s) \cap targets(type_of(p.board[s]))} :
                 s \in pieces(p) \ by(p, {KING})}
ActiveThreats(perspective, p) ==
    UNION {Threat(perspective, x[1], x[2], x[3], x[4], king(p, perspective)) : x \in AllThreats(p)}

\* The changed features, one set per change of the board.
ChangedThreats(perspective, ksq, dts) ==
    [i \in DOMAIN dts |->
       LET those(add) == UNION {Threat(perspective, d[1], d[3], d[4], d[2], ksq) :
                                  d \in {x \in dts[i] : x[5] = add}}
       IN  [removed |-> those(FALSE), added |-> those(TRUE)]]

(* ---- PP_3Wide ---- *)

make_pawn_id(c, s) == 48 * c + s - 8
PawnPair(perspective, c, from, to, pairedColor, ksq) ==
    LET id(col, s) == make_pawn_id((col + perspective) % 2,
                                   Mirrored(s, file_of(ksq) >= 4, perspective))
        ids == {id(c, from), id(pairedColor, to)}
    IN  (Max(ids) * (Max(ids) - 1)) \div 2 + Min(ids) + ThreatDimensions

\* The pairs among the pawns of both colors that have a member in updated.
Pairs(perspective, ksq, pawns, updated) ==
    LET colorOf(s) == IF s \in pawns[BLACK] THEN BLACK ELSE WHITE
    IN  UNION {{PawnPair(perspective, colorOf(s), s, t, colorOf(t), ksq) :
                  t \in PawnPairBB[s] \cap (pawns[WHITE] \cup pawns[BLACK])} : s \in updated}
ActivePairs(perspective, p) ==
    LET pawns == [c \in Colors |-> of(p, c, {PAWN})]
    IN  Pairs(perspective, king(p, perspective), pawns, pawns[WHITE] \cup pawns[BLACK])

\* Mutant: a pawn that is taken by a pawn is not seen to have changed.
PairsByOccupancy(perspective, ksq, before, after) ==
    LET all(x) == x[WHITE] \cup x[BLACK]
    IN  [removed |-> Pairs(perspective, ksq, before, all(before) \ all(after)),
         added   |-> Pairs(perspective, ksq, after, all(after) \ all(before))]

\* A pawn that changed its square or its color belongs to either side of the change.
ChangedPairs(perspective, ksq, before, after) ==
    LET fresh(new, old) == (new[WHITE] \ old[WHITE]) \cup (new[BLACK] \ old[BLACK])
    IN  [removed |-> Pairs(perspective, ksq, before, fresh(before, after)),
         added   |-> Pairs(perspective, ksq, after, fresh(after, before))]
====
