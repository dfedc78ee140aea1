---- MODULE MoveGen ----
(* generate<Type>: the pseudo-legal moves of a position by kind, the legal *)
(* ones, and the questions of class Position that need them.  The move     *)
(* lists are sets: the generators are tested for the moves they hold, and  *)
(* MovePicker for the order they are tried in.                             *)
EXTENDS Position

GenTypes == {"CAPTURES", "QUIETS", "EVASIONS", "NON_EVASIONS"}

\* Mutant: the underpromotions that take are quiet moves.
UnderpromotionsQuiet(type, from, to, enemy) ==
    LET all == type \in {"EVASIONS", "NON_EVASIONS"}
    IN  {PromotionTo(from, to, QUEEN) : x \in IF type = "CAPTURES" \/ all THEN {1} ELSE {}}
          \cup {PromotionTo(from, to, pt) :
                  pt \in IF all \/ type = "QUIETS" THEN {ROOK, BISHOP, KNIGHT} ELSE {}}

\* The promotions of a pawn that moves from from to to, an enemy taken or not.
make_promotions(type, from, to, enemy) ==
    LET all == type \in {"EVASIONS", "NON_EVASIONS"}
    IN  {PromotionTo(from, to, QUEEN) : x \in {1} \cap (IF type = "CAPTURES" \/ all THEN {1} ELSE {})}
          \cup {PromotionTo(from, to, pt) :
                  pt \in IF all \/ type = (IF enemy THEN "CAPTURES" ELSE "QUIETS")
                         THEN {ROOK, BISHOP, KNIGHT} ELSE {}}

generate_pawn_moves(p, type, target) ==
    LET us == p.sideToMove
        up == pawn_push(us)
        sides == {up + EAST, up - EAST}
        free == Squares \ pieces(p)
        enemies == IF type = "EVASIONS" THEN p.st.checkersBB ELSE p.byColorBB[Opp(us)]
        blocks(b) == IF type = "EVASIONS" THEN b \cap target ELSE b
        pawns == of(p, us, {PAWN})
        on7 == {s \in pawns : relative_rank(us, s) = 6}
        not7 == pawns \ on7
        single == shift(not7, up) \cap free
        double == shift({s \in single : relative_rank(us, s) = 2}, up) \cap free
        splat(b, d) == {Move(s - d, s) : s \in b}
        pushes == splat(blocks(single), up) \cup splat(blocks(double), 2 * up)
        promotions ==
            UNION ({make_promotions(type, x[1] - x[2], x[1], TRUE) :
                      x \in {y \in (Squares \X sides) : y[1] \in shift(on7, y[2]) \cap enemies}}
                   \cup {make_promotions(type, s - up, s, FALSE) :
                           s \in blocks(shift(on7, up) \cap free)})
        captures == UNION {splat(shift(not7, d) \cap enemies, d) : d \in sides}
        \* Taking en passant does not help against a discovered check.
        ep == p.st.epSquare
        enPassant == IF ep = SQ_NONE \/ (type = "EVASIONS" /\ ep + up \in target) THEN {}
                     ELSE {MoveOf(s, ep, "EN_PASSANT") : s \in not7 \cap PawnAttacks[Opp(us)][ep]}
    IN  promotions \cup (IF type = "CAPTURES" THEN {} ELSE pushes)
          \cup (IF type = "QUIETS" THEN {} ELSE captures \cup enPassant)

generate_moves(p, pt, target) ==
    UNION {{Move(s, t) : t \in attacks_bb(pt, s, pieces(p)) \cap target} :
             s \in of(p, p.sideToMove, {pt})}

castling_impeded(p, cr) == pieces(p) \cap p.castlingPath[cr] # {}

generate(p, type) ==
    LET us == p.sideToMove
        ksq == king(p, us)
        target == CASE type = "EVASIONS" -> BetweenBB[ksq][lsb(p.st.checkersBB)]
                    [] type = "NON_EVASIONS" -> Squares \ p.byColorBB[us]
                    [] type = "CAPTURES" -> p.byColorBB[Opp(us)]
                    [] type = "QUIETS" -> Squares \ pieces(p)
        kingTarget == IF type = "EVASIONS" THEN Squares \ p.byColorBB[us] ELSE target
        others == generate_pawn_moves(p, type, target)
                    \cup UNION {generate_moves(p, pt, target) : pt \in KNIGHT..QUEEN}
        castles == {MoveOf(ksq, p.castlingRookSquare[cr], "CASTLING") :
                      cr \in {x \in AnyCastling(us) \cap p.st.castlingRights :
                                ~castling_impeded(p, x)}}
    IN  (IF type = "EVASIONS" /\ Cardinality(p.st.checkersBB) > 1 THEN {} ELSE others)
          \cup {Move(ksq, t) : t \in PseudoAttacks[KING][ksq] \cap kingTarget}
          \cup (IF type \in {"QUIETS", "NON_EVASIONS"} THEN castles ELSE {})

PseudoLegal(p) == generate(p, IF p.st.checkersBB # {} THEN "EVASIONS" ELSE "NON_EVASIONS")

\* Mutant: en passant captures are taken for ordinary pawn moves.
NeedsLegalNoEp(p, m) ==
    \/ m.from \in p.st.blockersForKing[p.sideToMove] \cap p.byColorBB[p.sideToMove]
    \/ m.from = king(p, p.sideToMove) /\ m.type # "CASTLING"

\* generate<LEGAL>: the moves that might leave the king in check are tested.
NeedsLegal(p, m) ==
    \/ m.from \in p.st.blockersForKing[p.sideToMove] \cap p.byColorBB[p.sideToMove]
    \/ m.from = king(p, p.sideToMove)
    \/ m.type = "EN_PASSANT"
LegalMoves(p) == {m \in PseudoLegal(p) : NeedsLegal(p, m) => legal(p, m)}

\* Mutant: a check is not looked at.
PseudoLegalInCheck(p, m) ==
    /\ m.type = "NORMAL"
    /\ p.board[m.from] # NO_PIECE /\ color_of(p.board[m.from]) = p.sideToMove
    /\ Move(m.from, m.to) \in generate(p, "NON_EVASIONS")

\* pseudo_legal: is any 16-bit pattern, read from the shared hash table, a move
\* of this position?
pseudo_legal(p, m) ==
    LET us == p.sideToMove
        pc == p.board[m.from]
        up == pawn_push(us)
        free(s) == p.board[s] = NO_PIECE
    IN  IF m.type # "NORMAL" THEN m \in PseudoLegal(p)
        ELSE /\ pc # NO_PIECE /\ color_of(pc) = us
             /\ m.to \notin p.byColorBB[us]
             /\ IF type_of(pc) = PAWN
                THEN /\ rank_of(m.to) \notin {0, 7}
                     /\ \/ m.to \in PawnAttacks[us][m.from] \cap p.byColorBB[Opp(us)]
                        \/ m.from + up = m.to /\ free(m.to)
                        \/ /\ m.from + 2 * up = m.to /\ relative_rank(us, m.from) = 1
                           /\ free(m.to) /\ free(m.to - up)
                ELSE m.to \in attacks_bb(type_of(pc), m.from, pieces(p))
             /\ (p.st.checkersBB # {} /\ type_of(pc) # KING) =>
                   /\ Cardinality(p.st.checkersBB) = 1
                   /\ m.to \in BetweenBB[king(p, us)][lsb(p.st.checkersBB)]

is_draw(p, ply) ==
    \/ p.st.rule50 > 99 /\ (p.st.checkersBB = {} \/ LegalMoves(p) # {})
    \/ is_repetition(p, ply)

(* ---- Static exchange evaluation ---- *)

\* The pieces of side stm that may take: no pinned one while a pinner stands.
MayTake(p, stm, attackers, occupied) ==
    (attackers \cap p.byColorBB[stm])
      \ (IF p.st.pinners[Opp(stm)] \cap occupied # {} THEN p.st.blockersForKing[stm] ELSE {})
LeastValuable(p, taking) == Min({pt \in PieceTypes : taking \cap p.byTypeBB[pt] # {}})

\* Mutant: nothing joins from behind.
NoXRay(p, to, pt, attackers, occupied) == attackers \cap occupied

\* The attackers once a piece of type pt has left: those behind it join.
XRay(p, to, pt, attackers, occupied) ==
    (attackers
       \cup (IF pt \in {PAWN, BISHOP, QUEEN}
             THEN attacks_bb(BISHOP, to, occupied) \cap by(p, {BISHOP, QUEEN}) ELSE {})
       \cup (IF pt \in {ROOK, QUEEN}
             THEN attacks_bb(ROOK, to, occupied) \cap by(p, {ROOK, QUEEN}) ELSE {}))
    \cap occupied

\* The loop, from what it holds when side stm is to take: whether it ends in res.
SeeStates(p) ==
    {x \in [occupied : SUBSET Squares, stm : Colors, attackers : SUBSET pieces(p), swap : Int, res : {0, 1}] :
       x.attackers \subseteq x.occupied}
SeeState(occupied, stm, attackers, swap, res) ==
    [occupied |-> occupied, stm |-> stm, attackers |-> attackers, swap |-> swap, res |-> res]
SeeLoop(p, to) ==
    LET see[x \in SeeStates(p)] ==
          LET taking  == MayTake(p, x.stm, x.attackers, x.occupied)
              pt      == LeastValuable(p, taking)
              newRes  == 1 - x.res
              newSwap == PieceValue[pt] - x.swap
              left    == x.occupied \ {lsb(taking \cap p.byTypeBB[pt])}
          IN  IF taking = {} THEN x.res = 1
              ELSE IF pt = KING THEN (x.attackers \ p.byColorBB[x.stm] # {}) # (newRes = 1)
              ELSE IF newSwap < newRes /\ pt # QUEEN THEN newRes = 1
              ELSE see[SeeState(left, Opp(x.stm), XRay(p, to, pt, x.attackers, left), newSwap, newRes)]
    IN  see

see_ge(p, m, threshold) ==
    LET swap0 == PieceValue[p.board[m.to]] - threshold
        swap1 == PieceValue[p.board[m.from]] - swap0
        occupied == SymDiff(SymDiff(pieces(p), {m.from}), {m.to})
    IN  IF m.type # "NORMAL" THEN 0 >= threshold
        ELSE /\ swap0 >= 0
             /\ swap1 <= 0 \/ SeeLoop(p, m.to)[SeeState(occupied, Opp(p.sideToMove),
                                  attackers_to(p, m.to, occupied) \cap occupied, swap1, 1)]

====
