---- MODULE Bitboards ----
(* The board's geometry and its attack tables.  A Bitboard is the set of   *)
(* its squares; a table the program fills at startup or at compile time is *)
(* a constant function.                                                    *)
EXTENDS Integers, FiniteSets, FiniteSetsExt

Squares == 0..63
SQ_NONE == 64
WHITE == 0
BLACK == 1
Colors == {WHITE, BLACK}
Opp(c) == 1 - c

PAWN == 1
KNIGHT == 2
BISHOP == 3
ROOK == 4
QUEEN == 5
KING == 6
PieceTypes == PAWN..KING
ALL_PIECES == 0
NO_PIECE == 0
make_piece(c, pt) == 8 * c + pt
type_of(pc) == pc % 8
color_of(pc) == pc \div 8
Pieces == {make_piece(c, pt) : c \in Colors, pt \in PieceTypes}

file_of(s) == s % 8
rank_of(s) == s \div 8
make_square(f, r) == 8 * r + f
relative_rank(c, s) == IF c = WHITE THEN rank_of(s) ELSE 7 - rank_of(s)
relative_square(c, s) == IF c = WHITE THEN s ELSE make_square(file_of(s), 7 - rank_of(s))

NORTH == 8
EAST == 1
pawn_push(c) == IF c = WHITE THEN NORTH ELSE -NORTH

Abs(n) == IF n < 0 THEN -n ELSE n

\* The squares of b moved by d, those that would wrap around a border dropped.
shift(b, d) == {s + d : s \in {x \in b : x + d \in Squares
                                         /\ Abs(file_of(x + d) - file_of(x)) <= 1}}
\* The target square of the given step, as a set; empty if it leaves the board.
safe_destination(s, step) ==
    {t \in {s + step} : t \in Squares /\ Abs(file_of(s) - file_of(t)) <= 2}

RookDirections == {NORTH, -NORTH, EAST, -EAST}
BishopDirections == {NORTH + EAST, EAST - NORTH, -NORTH - EAST, NORTH - EAST}

\* The squares reached from s in direction d when nothing stands in the way,
\* and those up to and including the first occupied one.
Ray[s \in Squares, d \in RookDirections \cup BishopDirections] ==
    UNION {{t} \cup Ray[t, d] : t \in safe_destination(s, d)}
UpToOccupied(ray, s, occupied) ==
    {t \in ray : \A u \in ray \cap occupied : Abs(t - s) <= Abs(u - s)}
sliding_attack(pt, s, occupied) ==
    UNION {UpToOccupied(Ray[s, d], s, occupied) :
              d \in IF pt = ROOK THEN RookDirections ELSE BishopDirections}

PawnAttacks == [c \in Colors |-> [s \in Squares |->
    shift({s}, pawn_push(c) + EAST) \cup shift({s}, pawn_push(c) - EAST)]]

PseudoAttacks == [pt \in KNIGHT..KING |-> [s \in Squares |->
    CASE pt = KNIGHT -> UNION {safe_destination(s, d) : d \in {-17, -15, -10, -6, 6, 10, 15, 17}}
      [] pt = KING   -> UNION {safe_destination(s, d) : d \in {-9, -8, -7, -1, 1, 7, 8, 9}}
      [] OTHER -> UNION {sliding_attack(slider, s, {}) :
                            slider \in IF pt = QUEEN THEN {ROOK, BISHOP} ELSE {pt}}]]

\* line_mask: the other squares of a line through s.
line_mask(s, d) == UNION {Ray[s, x] : x \in {d, -d}}
Lines(pt) == IF pt = ROOK THEN {NORTH, EAST} ELSE {NORTH + EAST, NORTH - EAST}

reverse_bb(b) == {63 - s : s \in b}
\* b - square_bb(s) on 64 bits, where s is not in b: the borrow is taken from
\* the next square of b, or runs out of the word.
MinusSquare(b, s) ==
    LET above == {t \in b : t > s}
        bit   == CHOOSE t \in above : \A u \in above : t <= u
    IN  IF above = {} THEN b \cup s..63 ELSE (b \ {bit}) \cup s..(bit - 1)

\* Mutant: the backward subtraction is not reversed back.
HyperbolaUnreversed(s, occupied, mask) ==
    LET o   == occupied \cap mask
        fwd == MinusSquare(o, s)
        rev == MinusSquare(reverse_bb(o), 63 - s)
    IN  SymDiff(fwd, rev) \cap mask

\* Hyperbola quintessence: the attack along one line by two subtractions.
hyperbola(s, occupied, mask) ==
    LET o   == occupied \cap mask
        fwd == MinusSquare(o, s)
        rev == MinusSquare(reverse_bb(o), 63 - s)
    IN  SymDiff(fwd, reverse_bb(rev)) \cap mask

magic_attacks_bb(pt, s, occupied) ==
    UNION {hyperbola(s, occupied, line_mask(s, d)) : d \in Lines(pt)}

SliderOf(s, t) == {pt \in {BISHOP, ROOK} : t \in PseudoAttacks[pt][s]}

\* line_bb: the whole line through two aligned squares; between_bb: the squares
\* strictly between, and the second one in any case; ray_pass_bb: the squares
\* behind the second one as seen from the first, and the second one.
LineBB == [s \in Squares |-> [t \in Squares |->
    UNION {(PseudoAttacks[pt][s] \cap PseudoAttacks[pt][t]) \cup {s, t} : pt \in SliderOf(s, t)}]]
BetweenBB == [s \in Squares |-> [t \in Squares |->
    {t} \cup UNION {sliding_attack(pt, s, {t}) \cap sliding_attack(pt, t, {s}) :
                        pt \in SliderOf(s, t)}]]
RayPassBB == [s \in Squares |-> [t \in Squares |->
    UNION {PseudoAttacks[pt][s] \cap (sliding_attack(pt, t, {s}) \cup {t}) :
                        pt \in SliderOf(s, t)}]]

\* The squares strictly between two on one line: what the attack table, looked
\* up by occupancy, depends on.
StrictlyBetween == [s \in Squares |-> [t \in Squares |->
    {u \in Squares : \E d \in RookDirections \cup BishopDirections :
        t \in Ray[u, d] /\ u \in Ray[s, d]}]]

\* How the tables fit together: lines to different sides share no square, what
\* is between two squares of a line is on that line, and a pawn that takes in
\* passing takes on its own rank.
ASSUME LinesAreApart ==
    \A s \in Squares :
      /\ \A pt \in KNIGHT..KING : PseudoAttacks[pt][s] \subseteq Squares \ {s}
      /\ PseudoAttacks[QUEEN][s] = PseudoAttacks[ROOK][s] \cup PseudoAttacks[BISHOP][s]
      /\ PseudoAttacks[ROOK][s] \cap PseudoAttacks[BISHOP][s] = {}
      /\ PseudoAttacks[KNIGHT][s] \cap PseudoAttacks[QUEEN][s] = {}
      /\ \A c \in Colors : PawnAttacks[c][s] \subseteq PseudoAttacks[BISHOP][s]
      /\ \A pt \in {BISHOP, ROOK} : \A t \in PseudoAttacks[pt][s] :
            StrictlyBetween[s][t] \subseteq PseudoAttacks[pt][s]
ASSUME BetweenIsClear ==
    \A s \in Squares :
      /\ \A t \in Squares : /\ t \in BetweenBB[s][t]
                            /\ BetweenBB[s][t] \subseteq (StrictlyBetween[s][t] \cap Squares) \cup {t}
      /\ \A t \in PawnAttacks[WHITE][s] \cup PawnAttacks[BLACK][s]
                     \cup PseudoAttacks[KNIGHT][s] \cup PseudoAttacks[KING][s] :
           StrictlyBetween[s][t] = {}
ASSUME PassedRank ==
    \A c \in Colors : \A s \in Squares : \A t \in PawnAttacks[c][s] :
       make_square(file_of(s), rank_of(t)) = s + pawn_push(c)

\* The attack of a piece on s when the squares of occupied are taken.
attacks_bb(pt, s, occupied) ==
    {t \in PseudoAttacks[pt][s] : pt \in BISHOP..QUEEN => StrictlyBetween[s][t] \cap occupied = {}}

\* pawn_pair_bb: where a pawn makes a pair with one on s.
PawnPairBB == [s \in Squares |->
    {t \in 8..55 : t # s /\ Abs(file_of(t) - file_of(s)) <= 1}]

lsb(b) == Min(b)
msb(b) == Max(b)
====
