---- MODULE Position ----
(* class Position: a board kept in four redundant forms, and a chain of    *)
(* StateInfo records, one per move done, whose hash keys and check data    *)
(* are updated move by move.  A position is a record p; p.st is the        *)
(* current StateInfo and p.prev the earlier ones, the latest last.         *)
(*                                                                         *)
(* A Zobrist key is the set of the random numbers it is the XOR of, so two *)
(* keys are equal only if the program's would be whatever the random       *)
(* numbers are.                                                            *)
EXTENDS Bitboards, Sequences, SequencesExt

PieceValue == [pc \in Pieces \cup {NO_PIECE} |->
    CASE type_of(pc) = PAWN -> 208 [] type_of(pc) = KNIGHT -> 781
      [] type_of(pc) = BISHOP -> 825 [] type_of(pc) = ROOK -> 1276
      [] type_of(pc) = QUEEN -> 2538 [] OTHER -> 0]

KING_SIDE(c)  == IF c = WHITE THEN 1 ELSE 4
QUEEN_SIDE(c) == IF c = WHITE THEN 2 ELSE 8
AnyCastling(c) == {KING_SIDE(c), QUEEN_SIDE(c)}
AllCastling == {1, 2, 4, 8}

(* ---- Zobrist keys ---- *)

\* Mutant: a pawn has a number on its last rank too.
PromotingCounted(pc, s) == FALSE

\* Pawns on these squares promote: their number is 0.
Promoting(pc, s) == type_of(pc) = PAWN /\ relative_rank(color_of(pc), s) = 7
psq(pc, s) == IF pc = NO_PIECE \/ Promoting(pc, s) THEN {} ELSE {<<pc, s>>}
enpassant(s) == IF s = SQ_NONE THEN {} ELSE {<<16, file_of(s)>>}
castling(rights) == {<<17, SumSet(rights)>>}
side == {<<18, 0>>}
noPawns == {<<19, 0>>}
make_key(n) == {<<20, n>>}
\* The number of the copy n of a piece, in the material key.
copyOf(pc, n) == {<<pc, 8 + n>>}

XorAll(keys) == FoldSeq(SymDiff, {}, keys)

\* cuckoo: the key differences of the reversible moves, with their squares.
Cuckoo == {<<psq(x[1], x[2]) \cup psq(x[1], x[3]) \cup side, x[2], x[3]>> :
             x \in {y \in (Pieces \X Squares \X Squares) :
                      /\ type_of(y[1]) # PAWN /\ y[2] < y[3]
                      /\ y[3] \in PseudoAttacks[type_of(y[1])][y[2]]}}

(* ---- The board ---- *)

pieces(p) == p.byTypeBB[ALL_PIECES]
by(p, pts) == UNION {p.byTypeBB[pt] : pt \in pts}
of(p, c, pts) == p.byColorBB[c] \cap by(p, pts)
king(p, c) == lsb(of(p, c, {KING}))
count(p, c, pt) == p.pieceCount[make_piece(c, pt)]

can_slider_threat(pc, slider) == type_of(pc) # QUEEN \/ type_of(slider) = QUEEN

\* Sliding pieces that attack s.
SlidersOn(p, s) == (attacks_bb(BISHOP, s, pieces(p)) \cap by(p, {BISHOP, QUEEN}))
                     \cup (attacks_bb(ROOK, s, pieces(p)) \cap by(p, {ROOK, QUEEN}))

\* The threats of sliders that a piece which comes to s cuts (putPiece) or, by
\* leaving it, lets through.
process_sliders(p, sliders, putPiece, s, noRaysContaining) ==
    LET pieceBehind(q, ray) ==
            {t \in ray \cap (attacks_bb(QUEEN, s, pieces(p)) \ by(p, {KING})) :
                /\ ~(noRaysContaining \subseteq ray)
                /\ p.board[t] # NO_PIECE /\ can_slider_threat(p.board[t], p.board[q])}
    IN  UNION {{<<p.board[q], p.board[t], q, t, ~putPiece>> : t \in pieceBehind(q, RayPassBB[q][s])} :
                 q \in sliders}

\* The threats of piece pc on s and on it, sliders those that see s.
DirectThreats(p, sliders, pc, s) ==
    LET pt       == type_of(pc)
        targets  == CASE pt = PAWN -> by(p, {KNIGHT, ROOK})
                      [] pt \in {BISHOP, ROOK} -> by(p, {PAWN, KNIGHT, BISHOP, ROOK})
                      [] OTHER -> pieces(p) \ by(p, {KING})
        attacked == IF pt = PAWN THEN PawnAttacks[color_of(pc)][s] ELSE attacks_bb(pt, s, pieces(p))
        pawns    == UNION {PawnAttacks[c][s] \cap of(p, Opp(c), {PAWN}) : c \in Colors}
        incoming == (PseudoAttacks[KNIGHT][s] \cap by(p, {KNIGHT}))
                      \cup (IF pt \in {KNIGHT, ROOK} THEN pawns ELSE {})
                      \cup {q \in sliders : can_slider_threat(pc, p.board[q])}
    IN  {<<pc, p.board[t], s, t>> : t \in attacked \cap targets}
          \cup {<<p.board[q], pc, q, s>> : q \in incoming}

\* The threats that appear (putPiece) or disappear with piece pc on s:
\* <<piece, threatened, its square, the other's square, add>>.
update_piece_threats(p, sliders, pc, putPiece, s, computeRay, noRaysContaining) ==
    (IF computeRay THEN process_sliders(p, sliders, putPiece, s, noRaysContaining) ELSE {})
      \cup (IF type_of(pc) = KING THEN {}
            ELSE {Append(x, putPiece) : x \in DirectThreats(p, sliders, pc, s)})

\* dts: the threats a move changes, one set per change of the board.
Noted(p, dirty, pc, putPiece, s, computeRay, noRaysContaining) ==
    IF dirty
    THEN [p EXCEPT !.dts = Append(@, update_piece_threats(p, SlidersOn(p, s), pc, putPiece, s,
                                                          computeRay, noRaysContaining))]
    ELSE p

Filled(p, pc, s) ==
    [p EXCEPT !.board[s] = pc,
              !.byTypeBB[ALL_PIECES] = @ \cup {s},
              !.byTypeBB[type_of(pc)] = @ \cup {s},
              !.byColorBB[color_of(pc)] = @ \cup {s},
              !.pieceCount[pc] = @ + 1,
              !.pieceCount[make_piece(color_of(pc), ALL_PIECES)] = @ + 1]
put_piece(p, pc, s, dirty) == Noted(Filled(p, pc, s), dirty, pc, TRUE, s, TRUE, Squares)

Emptied(p, pc, s) ==
    [p EXCEPT !.board[s] = NO_PIECE,
              !.byTypeBB[ALL_PIECES] = @ \ {s},
              !.byTypeBB[type_of(pc)] = @ \ {s},
              !.byColorBB[color_of(pc)] = @ \ {s},
              !.pieceCount[pc] = @ - 1,
              !.pieceCount[make_piece(color_of(pc), ALL_PIECES)] = @ - 1]
remove_piece(p, s, dirty) ==
    Emptied(Noted(p, dirty, p.board[s], FALSE, s, TRUE, Squares), p.board[s], s)

Shifted(p, pc, from, to) ==
    [p EXCEPT !.byTypeBB[ALL_PIECES] = SymDiff(@, {from, to}),
              !.byTypeBB[type_of(pc)] = SymDiff(@, {from, to}),
              !.byColorBB[color_of(pc)] = SymDiff(@, {from, to}),
              !.board[from] = NO_PIECE, !.board[to] = pc]
move_piece(p, from, to, dirty) ==
    LET noted(q, put, s) == Noted(q, dirty, p.board[from], put, s, TRUE, {from, to})
    IN  noted(Shifted(noted(p, FALSE, from), p.board[from], from, to), TRUE, to)

swap_piece(p, s, pc, dirty) ==
    LET old == p.board[s]
        noted(q, x, put) == Noted(q, dirty, x, put, s, FALSE, Squares)
    IN  noted(Filled(noted(Emptied(p, old, s), old, FALSE), pc, s), pc, TRUE)

(* ---- Attacks and checks ---- *)

attackers_to(p, s, occupied) ==
    (attacks_bb(ROOK, s, occupied) \cap by(p, {ROOK, QUEEN}))
      \cup (attacks_bb(BISHOP, s, occupied) \cap by(p, {BISHOP, QUEEN}))
      \cup (PawnAttacks[BLACK][s] \cap of(p, WHITE, {PAWN}))
      \cup (PawnAttacks[WHITE][s] \cap of(p, BLACK, {PAWN}))
      \cup (PseudoAttacks[KNIGHT][s] \cap by(p, {KNIGHT}))
      \cup (PseudoAttacks[KING][s] \cap by(p, {KING}))

attackers_to_exist(p, s, occupied, c) ==
    \/ attacks_bb(ROOK, s, occupied) \cap of(p, c, {ROOK, QUEEN}) # {}
    \/ attacks_bb(BISHOP, s, occupied) \cap of(p, c, {BISHOP, QUEEN}) # {}
    \/ PawnAttacks[Opp(c)][s] \cap of(p, c, {PAWN}) # {}
    \/ PseudoAttacks[KNIGHT][s] \cap of(p, c, {KNIGHT}) # {}
    \/ PseudoAttacks[KING][s] \cap of(p, c, {KING}) # {}

\* The pieces that alone keep one of the snipers from king c, and the snipers
\* so kept from it by a piece of color c.
BlockersOf(p, c, ksq, snipers) ==
    LET between(q) == BetweenBB[ksq][q] \cap (pieces(p) \ snipers)
        alone == {q \in snipers : Cardinality(between(q)) = 1}
    IN  [blockers |-> UNION {between(q) : q \in alone},
         pinners  |-> {q \in alone : between(q) \cap p.byColorBB[c] # {}}]
update_slider_blockers(p, c) ==
    LET ksq == king(p, c)
    IN  BlockersOf(p, c, ksq,
                   ((PseudoAttacks[ROOK][ksq] \cap by(p, {QUEEN, ROOK}))
                      \cup (PseudoAttacks[BISHOP][ksq] \cap by(p, {QUEEN, BISHOP})))
                     \cap p.byColorBB[Opp(c)])

WithCheckInfo(p, ksq, info) ==
    [p EXCEPT
       !.st.blockersForKing = [c \in Colors |-> info[c].blockers],
       !.st.pinners = [c \in Colors |-> info[Opp(c)].pinners],
       !.st.checkSquares = [pt \in PieceTypes |->
           CASE pt = PAWN -> PawnAttacks[Opp(p.sideToMove)][ksq]
             [] pt = KING -> {}
             [] OTHER -> attacks_bb(pt, ksq, pieces(p))]]
set_check_info(p) ==
    WithCheckInfo(p, king(p, Opp(p.sideToMove)), [c \in Colors |-> update_slider_blockers(p, c)])

(* ---- Setting a position up ---- *)

\* A FEN string, parsed: the piece on every square, the side to move, the
\* castling letters as <<color, token>> (a file, or one of these two), the en
\* passant square or SQ_NONE, the two counters, and the UCI_Chess960 option.
TOKEN_K == 8
TOKEN_Q == 9

EmptyPosition(chess960) ==
    [board |-> [s \in Squares |-> NO_PIECE],
     byTypeBB |-> [pt \in {ALL_PIECES} \cup PieceTypes |-> {}],
     byColorBB |-> [c \in Colors |-> {}],
     pieceCount |-> [pc \in 0..15 |-> 0],
     castlingRightsMask |-> [s \in Squares |-> {}],
     castlingRookSquare |-> [cr \in AllCastling |-> 0],
     castlingPath |-> [cr \in AllCastling |-> {}],
     gamePly |-> 0, sideToMove |-> WHITE, chess960 |-> chess960, prev |-> <<>>, dts |-> <<>>,
     st |-> [materialKey |-> {}, pawnKey |-> {}, minorPieceKey |-> {},
             nonPawnKey |-> [c \in Colors |-> {}], nonPawnMaterial |-> [c \in Colors |-> 0],
             castlingRights |-> {}, rule50 |-> 0, pliesFromNull |-> 0, epSquare |-> SQ_NONE,
             key |-> {}, checkersBB |-> {}, blockersForKing |-> [c \in Colors |-> {}],
             pinners |-> [c \in Colors |-> {}], checkSquares |-> [pt \in PieceTypes |-> {}],
             capturedPiece |-> NO_PIECE, repetition |-> 0]]

\* A FEN string as it was parsed, before anything of it is judged.
IsFen(f) ==
    /\ f.board \in [Squares -> Pieces \cup {NO_PIECE}] /\ f.side \in Colors
    /\ f.castling \in Seq(Colors \X (0..9)) /\ f.ep \in 0..SQ_NONE
    /\ f.rule50 \in Int /\ f.fullmove \in Int

\* The pieces of the squares below n put down.
PutPieces(f) ==
    LET placed[n \in 0..64] ==
          IF n = 0 THEN EmptyPosition(f.chess960)
          ELSE IF f.board[n - 1] = NO_PIECE THEN placed[n - 1]
          ELSE put_piece(placed[n - 1], f.board[n - 1], n - 1, FALSE)
    IN  placed[64]

Additional(p, c) == Max({count(p, c, KNIGHT) - 2, 0}) + Max({count(p, c, BISHOP) - 2, 0})
                      + Max({count(p, c, ROOK) - 2, 0}) + Max({count(p, c, QUEEN) - 1, 0})
PlacementError(p) ==
    \/ Cardinality(pieces(p)) > 32
    \/ by(p, {PAWN}) \cap (0..7 \cup 56..63) # {}
    \/ \E c \in Colors : count(p, c, KING) # 1 \/ count(p, c, PAWN) > 8
                            \/ Additional(p, c) > 8 - count(p, c, PAWN)

set_castling_right(p, c, rfrom) ==
    LET kfrom == king(p, c)
        cr    == IF kfrom < rfrom THEN KING_SIDE(c) ELSE QUEEN_SIDE(c)
        kto   == relative_square(c, IF cr = KING_SIDE(c) THEN 6 ELSE 2)
        rto   == relative_square(c, IF cr = KING_SIDE(c) THEN 5 ELSE 3)
    IN  [p EXCEPT !.st.castlingRights = @ \cup {cr},
                  !.castlingRightsMask[kfrom] = @ \cup {cr},
                  !.castlingRightsMask[rfrom] = @ \cup {cr},
                  !.castlingRookSquare[cr] = rfrom,
                  !.castlingPath[cr] = (BetweenBB[rfrom][rto] \cup BetweenBB[kfrom][kto])
                                         \ {kfrom, rfrom}]

\* One castling letter: the outermost rook on that side of the king, or the
\* rook on that file; ignored unless both pieces are in place.
CastlingToken(p, c, token) ==
    LET rook    == make_piece(c, ROOK)
        scan(i) == relative_square(c, IF token = TOKEN_K THEN 7 - i ELSE i)
        kings   == {i \in 0..6 : p.board[scan(i)] = make_piece(c, KING)}
        rooks   == {i \in 0..6 : p.board[scan(i)] = rook /\ \A k \in kings : i < k}
        inner   == {s \in {relative_square(c, i) : i \in 1..6} : p.board[s] = make_piece(c, KING)}
        rsq     == IF token \in {TOKEN_K, TOKEN_Q} THEN {scan(Min(r)) : r \in {rooks} \ {{}}}
                   ELSE {s \in {relative_square(c, token)} : p.board[s] = rook}
        ksq     == IF token \in {TOKEN_K, TOKEN_Q} THEN kings ELSE inner
    IN  IF ksq = {} \/ rsq = {} THEN p ELSE set_castling_right(p, c, lsb(rsq))

\* The castling letters, one after the other.
CastlingTokens(f, p) ==
    LET given[i \in 0..Len(f.castling)] ==
          IF i = 0 THEN p ELSE CastlingToken(given[i - 1], f.castling[i][1], f.castling[i][2])
    IN  given[Len(f.castling)]

\* The en passant square is kept only if a pawn can take without leaving its
\* king in check.
EnPassantSquare(p, ep) ==
    LET us     == p.sideToMove
        pawns  == PawnAttacks[Opp(us)][ep] \cap of(p, us, {PAWN})
        target == of(p, Opp(us), {PAWN}) \cap {ep + pawn_push(Opp(us))}
        occ(s) == ((pieces(p) \ target) \cup {ep}) \ {s}
        legalEP == \E s \in pawns :
            attackers_to(p, king(p, us), occ(s)) \cap (p.byColorBB[Opp(us)] \ target) = {}
    IN  IF /\ ep # SQ_NONE /\ pawns # {} /\ target # {} /\ legalEP
           /\ pieces(p) \cap {ep, ep + pawn_push(us)} = {}
        THEN ep ELSE SQ_NONE

compute_material_key(p) ==
    UNION {copyOf(x[1], x[2]) : x \in {y \in Pieces \X (0..9) : y[2] < p.pieceCount[y[1]]}}

set_state(p) ==
    LET on(S) == UNION {psq(p.board[s], s) : s \in S}
        nonPawn(c) == p.byColorBB[c] \ by(p, {PAWN})
    IN  [set_check_info(p) EXCEPT
           !.st.key = XorAll(<<on(pieces(p)), enpassant(p.st.epSquare),
                               IF p.sideToMove = BLACK THEN side ELSE {},
                               castling(p.st.castlingRights)>>),
           !.st.pawnKey = noPawns \cup on(by(p, {PAWN})),
           !.st.minorPieceKey = on(by(p, {KNIGHT, BISHOP})),
           !.st.nonPawnKey = [c \in Colors |-> on(nonPawn(c))],
           !.st.nonPawnMaterial =
               [c \in Colors |-> MapThenSumSet(LAMBDA s : PieceValue[p.board[s]], nonPawn(c))],
           !.st.checkersBB = attackers_to(p, king(p, p.sideToMove), pieces(p))
                               \cap p.byColorBB[Opp(p.sideToMove)],
           !.st.materialKey = compute_material_key(p)]

\* Position::set: the position, or an error (the empty board).
FenError == EmptyPosition(FALSE)
WithState(f, rights) ==
    set_state([rights EXCEPT
        !.st.epSquare = EnPassantSquare(rights, f.ep), !.st.rule50 = f.rule50,
        !.gamePly = Max({2 * (f.fullmove - 1), 0}) + f.side])
Refused(f, placed, p) ==
    \/ PlacementError(placed)
    \/ Len(f.castling) > 4
    \/ f.ep # SQ_NONE /\ rank_of(f.ep) # (IF f.side = WHITE THEN 5 ELSE 2)
    \/ f.rule50 \notin 0..32767
    \/ f.fullmove \notin 0..100000
    \/ attackers_to_exist(p, king(p, Opp(f.side)), pieces(p), f.side)
Accepted(f, placed, p) == IF Refused(f, placed, p) THEN FenError ELSE p
SetFrom(f, placed) ==
    Accepted(f, placed, WithState(f, CastlingTokens(f, placed)))
set(f) == SetFrom(f, [PutPieces(f) EXCEPT !.sideToMove = f.side])

fen(p) ==
    LET letter(cr) == IF p.chess960 THEN file_of(p.castlingRookSquare[cr])
                      ELSE IF cr \in {1, 4} THEN TOKEN_K ELSE TOKEN_Q
    IN  [board |-> p.board, side |-> p.sideToMove, chess960 |-> p.chess960, ep |-> p.st.epSquare,
         castling |-> [i \in 1..Cardinality(p.st.castlingRights) |->
             LET cr == SetToSortSeq(p.st.castlingRights, <)[i]
             IN  <<IF cr > 2 THEN BLACK ELSE WHITE, letter(cr)>>],
         rule50 |-> p.st.rule50,
         fullmove |-> 1 + Max({p.gamePly - p.sideToMove, 0}) \div 2]

\* flip: the same position with the colors exchanged, through its FEN string.
FlipPiece(pc) == IF pc = NO_PIECE THEN NO_PIECE ELSE make_piece(Opp(color_of(pc)), type_of(pc))
flip(p) ==
    LET f == fen(p)
        mirror(s) == IF s = SQ_NONE THEN s ELSE relative_square(BLACK, s)
    IN  set([f EXCEPT !.board = [s \in Squares |-> FlipPiece(f.board[mirror(s)])],
                      !.side = Opp(@), !.ep = mirror(@),
                      !.castling = [i \in DOMAIN @ |-> <<Opp(@[i][1]), @[i][2]>>]])

(* ---- Making and taking back moves ---- *)

\* A Move; castling is "the king takes its rook".
Move(from, to) == [from |-> from, to |-> to, type |-> "NORMAL", promotion |-> KNIGHT]
MoveOf(from, to, type) == [Move(from, to) EXCEPT !.type = type]
PromotionTo(from, to, pt) == [from |-> from, to |-> to, type |-> "PROMOTION", promotion |-> pt]

\* The StateInfo i plies back.
Back(p, i) == IF i = 0 THEN p.st ELSE p.prev[Len(p.prev) + 1 - i]

\* How far back a position may recur.
Reversible(p) == Min({p.st.rule50, p.st.pliesFromNull})

\* Where castling puts the king and the rook.
CastlingKing(us, m) == relative_square(us, IF m.to > m.from THEN 6 ELSE 2)
CastlingRook(us, m) == relative_square(us, IF m.to > m.from THEN 5 ELSE 3)

\* Mutant: the pieces are moved one after the other.
CastlingInTurn(p, us, m, Do) ==
    LET kfrom == m.from  rfrom == m.to
        kto == CastlingKing(us, m)  rto == CastlingRook(us, m)
        rook(q) == put_piece(remove_piece(q, IF Do THEN rfrom ELSE rto, Do),
                             make_piece(us, ROOK), IF Do THEN rto ELSE rfrom, Do)
    IN  rook(put_piece(remove_piece(p, IF Do THEN kfrom ELSE kto, Do),
                       make_piece(us, KING), IF Do THEN kto ELSE kfrom, Do))

\* do_castling: both pieces are removed before either is put down.
do_castling(p, us, m, Do) ==
    LET kfrom == m.from  rfrom == m.to
        kto == CastlingKing(us, m)  rto == CastlingRook(us, m)
        put(q) == put_piece(put_piece(q, make_piece(us, KING), IF Do THEN kto ELSE kfrom, Do),
                            make_piece(us, ROOK), IF Do THEN rto ELSE rfrom, Do)
    IN  put(remove_piece(remove_piece(p, IF Do THEN kfrom ELSE kto, Do),
                         IF Do THEN rfrom ELSE rto, Do))

\* Mutant: the square is recorded after every double push a pawn can answer.
DoublePushAlways(p, old, us, from, to) ==
    LET ep == to - pawn_push(us)
    IN  IF Abs(to - from) = 16 /\ PawnAttacks[us][ep] \cap of(p, Opp(us), {PAWN}) # {}
        THEN ep ELSE SQ_NONE

\* A double push gives an en passant square only if some pawn may take: the
\* pins are those of the position before the push.
DoublePushSquare(p, old, us, from, to) ==
    LET them   == Opp(us)
        ep     == to - pawn_push(us)
        pawns  == PawnAttacks[us][ep] \cap of(p, them, {PAWN})
        ksq    == king(p, them)
        notBlockers == Squares \ old.blockersForKing[them]
        noDiscovery == from \in notBlockers \/ file_of(from) = file_of(ksq)
    IN  IF /\ Abs(to - from) = 16 /\ noDiscovery
           /\ pawns \cap (notBlockers \cup LineBB[ep][ksq]) # {}
        THEN ep ELSE SQ_NONE

\* The distance to the previous occurrence of the position, negative if that
\* one was a repetition itself.
Repetition(p) ==
    LET seen == {i \in 4..Reversible(p) : i % 2 = 0 /\ Back(p, i).key = p.st.key}
    IN  IF seen = {} THEN 0
        ELSE IF Back(p, Min(seen)).repetition # 0 THEN -Min(seen) ELSE Min(seen)

\* What a move takes and where, what it puts down and where.
Captured(p, m) == CASE m.type = "EN_PASSANT" -> make_piece(Opp(p.sideToMove), PAWN)
                    [] m.type = "CASTLING" -> NO_PIECE
                    [] OTHER -> p.board[m.to]
CaptureSquare(us, m) == IF m.type = "EN_PASSANT" THEN m.to - pawn_push(us) ELSE m.to
PutDown(p, m) == IF m.type = "PROMOTION" THEN make_piece(p.sideToMove, m.promotion)
                 ELSE p.board[m.from]
MovedTo(us, m) == IF m.type = "CASTLING" THEN CastlingKing(us, m) ELSE m.to

\* The first changes of the board: a castling, or the pawn taken en passant.
Begun(p, m) ==
    CASE m.type = "CASTLING" -> do_castling(p, p.sideToMove, m, TRUE)
      [] m.type = "EN_PASSANT" -> remove_piece(p, CaptureSquare(p.sideToMove, m), TRUE)
      [] OTHER -> p

\* The new StateInfo of move m in p, computed while the board is that of q.
NewState(p, m, q, epSquare) ==
    LET us == p.sideToMove  them == Opp(us)  old == p.st
        from == m.from  to == MovedTo(us, m)
        pc == p.board[from]  toPc == PutDown(p, m)
        captured == Captured(p, m)  capsq == CaptureSquare(us, m)
        promotes == m.type = "PROMOTION"
        rook     == make_piece(us, ROOK)
        rights   == old.castlingRights \ (p.castlingRightsMask[from] \cup p.castlingRightsMask[to])
        \* What leaves, arrives and moves, as changes of the keys.
        gone(keep(_))  == IF captured # NO_PIECE /\ keep(captured) THEN psq(captured, capsq) ELSE {}
        moved(keep(_)) == IF keep(pc) THEN SymDiff(psq(pc, from), psq(pc, to)) ELSE {}
        made(keep(_))  == IF promotes /\ keep(toPc) THEN psq(toPc, to) ELSE {}
        swung    == IF m.type = "CASTLING"
                    THEN SymDiff(psq(rook, m.to), psq(rook, CastlingRook(us, m))) ELSE {}
        any(x)   == TRUE
        minor(x) == type_of(x) \in {KNIGHT, BISHOP}
        pawn(x)  == type_of(x) = PAWN
        other(x) == type_of(x) # PAWN
        worth(x) == IF other(x) THEN PieceValue[x] ELSE 0
    IN  [old EXCEPT
            !.key = XorAll(<<@, side, swung, gone(any), moved(any), made(any),
                             enpassant(old.epSquare), enpassant(epSquare),
                             castling(old.castlingRights), castling(rights)>>),
            !.pawnKey = XorAll(<<@, gone(pawn), moved(pawn)>>),
            !.minorPieceKey = XorAll(<<@, gone(minor), moved(minor), made(minor)>>),
            !.nonPawnKey = [@ EXCEPT ![them] = SymDiff(@, gone(other)),
                                     ![us] = XorAll(<<@, swung, moved(other), made(any)>>)],
            !.nonPawnMaterial = [@ EXCEPT ![them] = @ - worth(captured),
                                          ![us] = @ + (IF promotes THEN PieceValue[toPc] ELSE 0)],
            !.materialKey = XorAll(<<@,
                IF captured = NO_PIECE THEN {}
                ELSE copyOf(captured, q.pieceCount[captured] - (IF m.type = "EN_PASSANT" THEN 0 ELSE 1)),
                IF promotes THEN copyOf(toPc, q.pieceCount[toPc]) ELSE {},
                IF promotes THEN copyOf(pc, q.pieceCount[pc] - 1) ELSE {}>>),
            !.castlingRights = rights, !.epSquare = epSquare,
            !.rule50 = IF captured # NO_PIECE \/ pawn(pc) THEN 0 ELSE @ + 1,
            !.pliesFromNull = @ + 1, !.capturedPiece = captured, !.repetition = 0]

\* The board of q when the move is done on it.
Moved(p, m, q) ==
    LET from == m.from  pc == p.board[from]  toPc == PutDown(p, m)
    IN  IF m.type = "CASTLING" THEN q
        ELSE IF Captured(p, m) # NO_PIECE /\ m.type # "EN_PASSANT"
        THEN swap_piece(remove_piece(q, from, TRUE), m.to, toPc, TRUE)
        ELSE IF pc = toPc THEN move_piece(q, from, m.to, TRUE)
        ELSE put_piece(remove_piece(q, from, TRUE), toPc, m.to, TRUE)

\* The other side is to move on board r.
Passed(p, r, st, givesCheck) ==
    LET us == p.sideToMove
        checkers == IF givesCheck
                    THEN attackers_to(r, king(r, Opp(us)), pieces(r)) \cap r.byColorBB[us] ELSE {}
    IN  set_check_info([r EXCEPT !.st = [st EXCEPT !.checkersBB = checkers],
                                 !.prev = Append(p.prev, p.st), !.gamePly = p.gamePly + 1,
                                 !.sideToMove = Opp(us), !.dts = <<>>])

\* The new position, and what the move changed, for the evaluation.
Recorded(p, m, dts, t) ==
    LET us == p.sideToMove  captured == Captured(p, m)  rook == make_piece(us, ROOK)
        castles == m.type = "CASTLING"  promotes == m.type = "PROMOTION"
    IN  [pos |-> [t EXCEPT !.st.repetition = Repetition(t)],
         dts |-> dts,
         dp |-> [pc |-> p.board[m.from], from |-> m.from,
                 to |-> IF promotes THEN SQ_NONE ELSE MovedTo(us, m),
                 remove |-> IF captured # NO_PIECE THEN {<<captured, CaptureSquare(us, m)>>}
                            ELSE IF castles THEN {<<rook, m.to>>} ELSE {},
                 add |-> IF promotes THEN {<<PutDown(p, m), m.to>>}
                         ELSE IF castles THEN {<<rook, CastlingRook(us, m)>>} ELSE {}],
         before |-> [c \in Colors |-> of(p, c, {PAWN})],
         after |-> [c \in Colors |-> of(t, c, {PAWN})]]

\* Position::do_move: the position, and what it records for the evaluation.
do_move(p, m, givesCheck) ==
    LET epSquare(q) == IF type_of(p.board[m.from]) = PAWN
                       THEN DoublePushSquare(q, p.st, p.sideToMove, m.from, m.to) ELSE SQ_NONE
        end(q, r) == Recorded(p, m, r.dts, Passed(p, r, NewState(p, m, q, epSquare(q)), givesCheck))
        then(q)   == end(q, Moved(p, m, q))
    IN  then(Begun([p EXCEPT !.dts = <<>>], m))

undo_move(p, m) ==
    LET us == Opp(p.sideToMove)
        q  == [p EXCEPT !.sideToMove = us]
        back(r) == move_piece(r, m.to, m.from, FALSE)
        given(r) == IF p.st.capturedPiece = NO_PIECE THEN r
                    ELSE put_piece(r, p.st.capturedPiece, CaptureSquare(us, m), FALSE)
        board == CASE m.type = "CASTLING" -> do_castling(q, us, m, FALSE)
                   [] m.type = "PROMOTION" ->
                        given(back(swap_piece(q, m.to, make_piece(us, PAWN), FALSE)))
                   [] OTHER -> given(back(q))
    IN  [board EXCEPT !.st = Last(p.prev), !.prev = Front(p.prev), !.gamePly = p.gamePly - 1]

do_null_move(p) ==
    LET q == set_check_info([p EXCEPT
                 !.prev = Append(@, p.st), !.sideToMove = Opp(@),
                 !.st.key = XorAll(<<@, enpassant(p.st.epSquare), side>>),
                 !.st.epSquare = SQ_NONE, !.st.pliesFromNull = 0,
                 !.st.capturedPiece = NO_PIECE])
    IN  [q EXCEPT !.st.repetition = 0]

undo_null_move(p) ==
    [p EXCEPT !.st = Last(p.prev), !.prev = Front(@), !.sideToMove = Opp(@)]

(* ---- Questions about moves ---- *)

capture(p, m) == IF m.type \in {"NORMAL", "PROMOTION"} THEN p.board[m.to] # NO_PIECE
                 ELSE m.type = "EN_PASSANT"
capture_stage(p, m) == capture(p, m) \/ (m.type = "PROMOTION" /\ m.promotion = QUEEN)

\* Tests whether a pseudo-legal move is legal.
legal(p, m) ==
    LET us == p.sideToMove
        to == IF m.type = "CASTLING" THEN CastlingKing(us, m) ELSE m.to
        path == (IF to > m.from THEN m.from..to ELSE to..m.from) \ {m.from}
        blockers == p.st.blockersForKing[us]
    IN  IF m.type = "CASTLING"
        THEN /\ \A s \in path : ~attackers_to_exist(p, s, pieces(p), Opp(us))
             /\ p.chess960 => m.to \notin blockers
        ELSE IF type_of(p.board[m.from]) = KING
        THEN ~attackers_to_exist(p, to, SymDiff(pieces(p), {m.from}), Opp(us))
        ELSE m.from \in blockers => king(p, us) \in LineBB[m.from][to]

\* Mutant: only direct and discovered checks are seen.
GivesPlainCheck(p, m) ==
    LET us == p.sideToMove
    IN  \/ m.to \in p.st.checkSquares[type_of(p.board[m.from])]
        \/ /\ m.from \in p.st.blockersForKing[Opp(us)]
           /\ king(p, Opp(us)) \notin LineBB[m.from][m.to] \/ m.type = "CASTLING"

\* Tests whether a pseudo-legal move gives a check.
gives_check(p, m) ==
    LET us == p.sideToMove
        ksq == king(p, Opp(us))
        capsq == make_square(file_of(m.to), rank_of(m.from))
        occ == (pieces(p) \ {m.from, capsq}) \cup {m.to}
    IN  \/ m.to \in p.st.checkSquares[type_of(p.board[m.from])]
        \/ /\ m.from \in p.st.blockersForKing[Opp(us)]
           /\ ksq \notin LineBB[m.from][m.to] \/ m.type = "CASTLING"
        \/ /\ m.from \notin p.st.blockersForKing[Opp(us)]
           /\ CASE m.type = "NORMAL" -> FALSE
                [] m.type = "PROMOTION" ->
                     ksq \in attacks_bb(m.promotion, m.to, SymDiff(pieces(p), {m.from}))
                [] m.type = "EN_PASSANT" ->
                     \/ attacks_bb(ROOK, ksq, occ) \cap of(p, us, {QUEEN, ROOK}) # {}
                     \/ attacks_bb(BISHOP, ksq, occ) \cap of(p, us, {QUEEN, BISHOP}) # {}
                [] OTHER -> CastlingRook(us, m) \in p.st.checkSquares[ROOK]

(* ---- Repetitions ---- *)

is_repetition(p, ply) == p.st.repetition # 0 /\ p.st.repetition < ply

has_repeated(p) == \E i \in 0..(Reversible(p) - 4) : Back(p, i).repetition # 0

\* Mutant: the squares between are not looked at.
UpcomingThroughPieces(p, ply) ==
    \E i \in 3..Reversible(p) :
      /\ i % 2 = 1
      /\ \E x \in Cuckoo : x[1] = SymDiff(p.st.key, Back(p, i).key)
      /\ ply > i \/ Back(p, i).repetition # 0

\* Is there a move that repeats a position?  other is what the opponent's
\* pieces have changed: nothing, if the difference is a move of ours.
upcoming_repetition(p, ply) ==
    LET end == Reversible(p)
        other[i \in 1..end] ==
            IF i = 1 THEN XorAll(<<p.st.key, Back(p, 1).key, side>>)
            ELSE IF i % 2 = 0 THEN {}
            ELSE XorAll(<<other[i - 2], Back(p, i - 1).key, Back(p, i).key, side>>)
    IN  \E i \in 3..end :
          /\ i % 2 = 1 /\ other[i] = {}
          /\ \E x \in Cuckoo :
               /\ x[1] = SymDiff(p.st.key, Back(p, i).key)
               /\ StrictlyBetween[x[2]][x[3]] \cap pieces(p) = {}
          /\ ply > i \/ Back(p, i).repetition # 0

\* The key the transposition table is probed with: as the 50-move counter
\* rises, equal positions are told apart.
adjust_key50(k, rule50) == IF rule50 < 14 THEN k ELSE SymDiff(k, make_key((rule50 - 14) \div 8))
key(p) == adjust_key50(p.st.key, p.st.rule50)
====
