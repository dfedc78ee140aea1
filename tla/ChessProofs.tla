---- MODULE ChessProofs ----
(* A walk through positions keeps them: do_move makes what the rules make,  *)
(* undo_move gives back what was, see_ge compares exchanges, and a picker    *)
(* emits every move once; for every FEN string, line of moves, hash move and *)
(* history, as long as no king is taken.                                     *)
EXTENDS ChessProperties, FiniteSetTheorems, SequenceTheorems, WellFoundedInduction,
        NaturalsInduction, TLAPS

(* ---- Colors, pieces and squares ---- *)

\* There are two colors, each the opponent of the other.
LEMMA Sides == \A c \in Colors : Opp(c) \in Colors /\ Opp(c) # c /\ Opp(Opp(c)) = c /\ Colors = {c, Opp(c)}
BY DEF Colors, Opp, WHITE, BLACK

\* A piece is taken apart into its color and type and made of them again.
LEMMA PieceParts ==
    /\ NO_PIECE \notin Pieces
    /\ \A pc \in Pieces : /\ pc \in Int /\ type_of(pc) \in PieceTypes /\ color_of(pc) \in Colors
                          /\ make_piece(color_of(pc), type_of(pc)) = pc
    /\ \A c \in Colors, pt \in PieceTypes :
         /\ make_piece(c, pt) \in Pieces
         /\ type_of(make_piece(c, pt)) = pt /\ color_of(make_piece(c, pt)) = c
<1>. USE DEF PieceTypes, PAWN, KING, Colors, WHITE, BLACK, make_piece, type_of, color_of, NO_PIECE
<1>1. \A c \in Colors, pt \in PieceTypes : make_piece(c, pt) \in Int /\ make_piece(c, pt) # 0
  OBVIOUS
<1>2. \A c \in Colors, pt \in PieceTypes : type_of(make_piece(c, pt)) = pt /\ color_of(make_piece(c, pt)) = c
  OBVIOUS
<1>3. \A pc \in Pieces : \E c \in Colors, pt \in PieceTypes : pc = make_piece(c, pt)
  BY DEF Pieces
<1>4. \A c \in Colors, pt \in PieceTypes : make_piece(c, pt) \in Pieces
  BY DEF Pieces
<1>. QED BY <1>1, <1>2, <1>3, <1>4

\* A set of natural numbers has a least one.
LEMMA Smallest ==
    ASSUME NEW T, T \subseteq Nat, T # {}
    PROVE  \E x \in T : \A y \in T : x <= y
<1>1. PICK R : IsWellFoundedOn(R, Nat) /\ \A x, y \in Nat : <<x, y>> \in R <=> x < y
  <2>1. \A x, y \in Nat : <<x, y>> \in OpToRel(<, Nat) <=> x < y
    BY DEF OpToRel
  <2>. QED BY <2>1, NatLessThanWellFounded, Zenon
<1>2. PICK x \in T : \A y \in T : <<y, x>> \notin R
  <2>1. IsWellFoundedOn(R, Nat)
    BY <1>1
  <2>2. \E x \in T : \A y \in T : ~(<<y, x>> \in R)
    BY <2>1, WFMin, Zenon
  <2>. QED BY <2>2
<1>3. \A y \in T : ~(y < x)
  BY <1>1, <1>2
<1>. QED BY <1>3

\* The least element is one of the set.
LEMMA LeastIsIn ==
    ASSUME NEW T, T \subseteq Nat, T # {}
    PROVE  Min(T) \in T /\ \A x \in T : Min(T) <= x
<1>1. \E x \in T : \A y \in T : x <= y
  BY Smallest
<1>. QED BY <1>1 DEF Min

\* A set of numbers that holds 0 and with every one the next holds them all.
LEMMA Numbers ==
    ASSUME NEW T, 0 \in T, \A n \in Nat : n \in T => n + 1 \in T
    PROVE  Nat \subseteq T
<1>1. SUFFICES ASSUME Nat \ T # {}
               PROVE  FALSE
  OBVIOUS
<1>2. PICK x \in Nat \ T : \A y \in Nat \ T : x <= y
  BY <1>1, Smallest
<1>3. x # 0 /\ x - 1 \in Nat
  OBVIOUS
<1>4. x - 1 \in T
  BY <1>2, <1>3
<1>. QED BY <1>3, <1>4

\* f[x] is out[x] where the recursion is done, and otherwise made of x and of f[next[x]];
\* the measure m falls from x to next[x].
Recurs2(f, S, done, out, next, G) ==
    \A x \in S : f[x] = IF done[x] THEN out[x] ELSE G[<<x, f[next[x]]>>]
Falls(S, m, done, next) == \A x \in S : ~done[x] => m[next[x]] < m[x]
\* Where f and g agree because they do at next[x].
Follow(S, done, next, f, g) == \A x \in S : done[x] \/ f[next[x]] = g[next[x]] => f[x] = g[x]

\* A function defined by recursion along a measure exists.
LEMMA Recursion ==
    ASSUME NEW S, NEW V, NEW v \in V, NEW N \in Nat,
           NEW m \in [S -> 0..N], NEW done \in [S -> BOOLEAN], NEW out \in [S -> V],
           NEW next \in [S -> S], NEW G \in [S \X V -> V], Falls(S, m, done, next)
    PROVE  \E f \in [S -> V] : Recurs2(f, S, done, out, next, G)
<1>. DEFINE Eq(f, x) == f[x] = IF done[x] THEN out[x] ELSE G[<<x, f[next[x]]>>]
            T == {n \in Nat : \E f \in [S -> V] : \A x \in S : m[x] < n => Eq(f, x)}
<1>1. 0 \in T
  <2>1. [x \in S |-> v] \in [S -> V]
    OBVIOUS
  <2>2. \A x \in S : ~(m[x] < 0)
    OBVIOUS
  <2>. QED BY <2>1, <2>2
<1>2. ASSUME NEW n \in Nat, n \in T
      PROVE  n + 1 \in T
  <2>1. PICK f \in [S -> V] : \A x \in S : m[x] < n => Eq(f, x)
    BY <1>2
  <2>. DEFINE g == [x \in S |-> IF m[x] < n THEN f[x]
                                ELSE IF done[x] THEN out[x] ELSE G[<<x, f[next[x]]>>]]
  <2>2. g \in [S -> V]
    OBVIOUS
  <2>3. ASSUME NEW x \in S, m[x] < n + 1
        PROVE  Eq(g, x)
    <3>1. CASE done[x]
      BY <2>1, <3>1
    <3>2. CASE ~done[x]
      <4>1. m[next[x]] < n
        BY <2>3, <3>2 DEF Falls
      <4>2. g[next[x]] = f[next[x]]
        BY <4>1
      <4>3. g[x] = G[<<x, f[next[x]]>>]
        BY <2>1, <3>2
      <4>. QED BY <3>2, <4>2, <4>3
    <3>. QED BY <3>1, <3>2
  <2>. HIDE DEF g
  <2>. QED BY <2>2, <2>3
<1>3. N + 1 \in T
  <2>. HIDE DEF T
  <2>. QED BY <1>1, <1>2, Numbers
<1>4. PICK f \in [S -> V] : \A x \in S : m[x] < N + 1 => Eq(f, x)
  BY <1>3
<1>5. \A x \in S : m[x] < N + 1
  OBVIOUS
<1>. QED BY <1>4, <1>5 DEF Recurs2

\* Two functions that agree where the recursion is done, and at x if at next[x], agree.
LEMMA RecursionIsUnique ==
    ASSUME NEW S, NEW N \in Nat, NEW m \in [S -> 0..N], NEW done \in [S -> BOOLEAN],
           NEW next \in [S -> S], Falls(S, m, done, next), NEW f, NEW g,
           Follow(S, done, next, f, g)
    PROVE  \A x \in S : f[x] = g[x]
<1>. DEFINE T == {n \in Nat : \A x \in S : m[x] < n => f[x] = g[x]}
<1>1. 0 \in T
  OBVIOUS
<1>2. ASSUME NEW n \in Nat, n \in T
      PROVE  n + 1 \in T
  <2>1. ASSUME NEW x \in S, m[x] < n + 1, ~done[x]
        PROVE  f[x] = g[x]
    <3>1. m[next[x]] < n
      BY <2>1 DEF Falls
    <3>2. f[next[x]] = g[next[x]]
      BY <1>2, <3>1
    <3>. QED BY <3>2 DEF Follow
  <2>2. ASSUME NEW x \in S, done[x]
        PROVE  f[x] = g[x]
    BY <2>2 DEF Follow
  <2>. QED BY <2>1, <2>2
<1>3. N + 1 \in T
  <2>. HIDE DEF T
  <2>. QED BY <1>1, <1>2, Numbers
<1>4. \A x \in S : m[x] < N + 1
  OBVIOUS
<1>. QED BY <1>3, <1>4

(* ---- Exchanges: who attacks the square, before and after a capture ---- *)

\* The type and the color boards hold what the board says.
BoardsAgree(p) ==
    /\ p.board \in [Squares -> Pieces \cup {NO_PIECE}]
    /\ p.byTypeBB = [pt \in {ALL_PIECES} \cup PieceTypes |->
          {s \in Squares : p.board[s] # NO_PIECE /\ pt \in {ALL_PIECES, type_of(p.board[s])}}]
    /\ p.byColorBB = [c \in Colors |-> {s \in Squares : p.board[s] # NO_PIECE /\ color_of(p.board[s]) = c}]

\* What the type and color boards of a position hold, told from its board.
LEMMA Men ==
    ASSUME NEW p, BoardsAgree(p)
    PROVE  /\ pieces(p) = {s \in Squares : p.board[s] # NO_PIECE}
           /\ \A pt \in PieceTypes :
                p.byTypeBB[pt] = {s \in Squares : p.board[s] # NO_PIECE /\ type_of(p.board[s]) = pt}
           /\ \A c \in Colors : p.byColorBB[c] = {s \in Squares : p.board[s] # NO_PIECE /\ color_of(p.board[s]) = c}
           /\ \A s \in pieces(p) : /\ p.board[s] \in Pieces
                                   /\ type_of(p.board[s]) \in PieceTypes /\ color_of(p.board[s]) \in Colors
<1>1. ALL_PIECES \notin PieceTypes /\ ALL_PIECES \in {ALL_PIECES} \cup PieceTypes
  BY DEF ALL_PIECES, PieceTypes, PAWN, KING
<1>2. pieces(p) = {s \in Squares : p.board[s] # NO_PIECE}
  BY <1>1 DEF BoardsAgree, pieces
<1>3. \A pt \in PieceTypes : p.byTypeBB[pt] = {s \in Squares : p.board[s] # NO_PIECE /\ type_of(p.board[s]) = pt}
  BY <1>1 DEF BoardsAgree
<1>4. \A s \in pieces(p) : p.board[s] \in Pieces
  BY <1>2 DEF BoardsAgree
<1>. QED BY <1>2, <1>3, <1>4, PieceParts DEF BoardsAgree

\* The types of pieces are six different numbers.
LEMMA Kinds ==
    /\ PieceTypes = {PAWN, KNIGHT, BISHOP, ROOK, QUEEN, KING}
    /\ KNIGHT..KING = {KNIGHT, BISHOP, ROOK, QUEEN, KING}
    /\ BISHOP..QUEEN = {BISHOP, ROOK, QUEEN}
    /\ PAWN # KNIGHT /\ PAWN # BISHOP /\ PAWN # ROOK /\ PAWN # QUEEN /\ PAWN # KING
    /\ KNIGHT # BISHOP /\ KNIGHT # ROOK /\ KNIGHT # QUEEN /\ KNIGHT # KING
    /\ BISHOP # ROOK /\ BISHOP # QUEEN /\ BISHOP # KING
    /\ ROOK # QUEEN /\ ROOK # KING /\ QUEEN # KING
    /\ PieceTypes \subseteq Nat
BY DEF PieceTypes, PAWN, KNIGHT, BISHOP, ROOK, QUEEN, KING

\* Sides of an exchange
LEMMA TypesApart ==
    ASSUME NEW p, BoardsAgree(p)
    PROVE  /\ \A pt \in PieceTypes : p.byTypeBB[pt] \subseteq pieces(p)
           /\ pieces(p) \subseteq Squares
           /\ \A s \in pieces(p) : \E pt \in PieceTypes : s \in p.byTypeBB[pt]
           /\ \A pt, qt \in PieceTypes : pt # qt => p.byTypeBB[pt] \cap p.byTypeBB[qt] = {}
           /\ \A c \in Colors : /\ p.byColorBB[c] \subseteq pieces(p)
                                /\ p.byColorBB[c] \cap p.byColorBB[Opp(c)] = {}
                                /\ pieces(p) = p.byColorBB[c] \cup p.byColorBB[Opp(c)]
BY Men, Sides

\* The men of two types are those of the one and those of the other.
LEMMA ByTwo ==
    ASSUME NEW p, NEW a, NEW b
    PROVE  by(p, {a, b}) = p.byTypeBB[a] \cup p.byTypeBB[b] /\ by(p, {a}) = p.byTypeBB[a]
BY DEF by

\* The attackers of a square are men of the board that stand elsewhere.
LEMMA AttackersAreMen ==
    ASSUME NEW p, BoardsAgree(p), NEW to \in Squares, NEW O
    PROVE  attackers_to(p, to, O) \subseteq pieces(p) \ {to}
<1>1. \A pt \in KNIGHT..KING : attacks_bb(pt, to, O) \subseteq PseudoAttacks[pt][to]
  BY DEF attacks_bb
<1>2. /\ attacks_bb(ROOK, to, O) \subseteq Squares \ {to} /\ attacks_bb(BISHOP, to, O) \subseteq Squares \ {to}
      /\ PseudoAttacks[KNIGHT][to] \subseteq Squares \ {to} /\ PseudoAttacks[KING][to] \subseteq Squares \ {to}
      /\ PawnAttacks[WHITE][to] \subseteq Squares \ {to} /\ PawnAttacks[BLACK][to] \subseteq Squares \ {to}
  BY <1>1, Kinds, LinesAreApart DEF Colors
<1>3. \A pt \in PieceTypes : p.byTypeBB[pt] \subseteq pieces(p)
  BY TypesApart
<1>4. /\ by(p, {ROOK, QUEEN}) \subseteq pieces(p) /\ by(p, {BISHOP, QUEEN}) \subseteq pieces(p)
      /\ by(p, {PAWN}) \subseteq pieces(p) /\ by(p, {KNIGHT}) \subseteq pieces(p) /\ by(p, {KING}) \subseteq pieces(p)
  BY <1>3, Kinds DEF by
<1>. QED BY <1>2, <1>4 DEF attackers_to, of

\* A slider's attack changes only with the occupancy of its own lines.
LEMMA OtherLines ==
    ASSUME NEW to \in Squares, NEW O, NEW s, NEW pt \in {BISHOP, ROOK}
    PROVE  /\ attacks_bb(pt, to, O) \subseteq attacks_bb(pt, to, O \ {s})
           /\ s \notin PseudoAttacks[pt][to] => attacks_bb(pt, to, O \ {s}) = attacks_bb(pt, to, O)
<1>1. pt \in BISHOP..QUEEN
  BY Kinds
<1>2. \A t \in PseudoAttacks[pt][to] : StrictlyBetween[to][t] \subseteq PseudoAttacks[pt][to]
  BY LinesAreApart
<1>. QED BY <1>1, <1>2 DEF attacks_bb

\* The attackers after a capture are those left and those that join from behind.
LEMMA JoinFromBehind ==
    ASSUME NEW p, BoardsAgree(p), NEW to \in Squares, NEW O, NEW pt \in PieceTypes \ {KING},
           NEW s \in attackers_to(p, to, O) \cap O, s \in p.byTypeBB[pt]
    PROVE  XRay(p, to, pt, attackers_to(p, to, O) \cap O, O \ {s}) = attackers_to(p, to, O \ {s}) \cap (O \ {s})
<1>. DEFINE B(X) == attacks_bb(BISHOP, to, X)
            R(X) == attacks_bb(ROOK, to, X)
            BQ == p.byTypeBB[BISHOP] \cup p.byTypeBB[QUEEN]
            RQ == p.byTypeBB[ROOK] \cup p.byTypeBB[QUEEN]
            Rest == (PawnAttacks[BLACK][to] \cap of(p, WHITE, {PAWN}))
                      \cup (PawnAttacks[WHITE][to] \cap of(p, BLACK, {PAWN}))
                      \cup (PseudoAttacks[KNIGHT][to] \cap p.byTypeBB[KNIGHT])
                      \cup (PseudoAttacks[KING][to] \cap p.byTypeBB[KING])
            L == O \ {s}
<1>0. /\ by(p, {ROOK, QUEEN}) = RQ /\ by(p, {BISHOP, QUEEN}) = BQ
      /\ by(p, {KNIGHT}) = p.byTypeBB[KNIGHT] /\ by(p, {KING}) = p.byTypeBB[KING]
  BY DEF by
<1>1. \A X : attackers_to(p, to, X) = (R(X) \cap RQ) \cup (B(X) \cap BQ) \cup Rest
  BY <1>0, Zenon DEF attackers_to
<1>2. R(O) \subseteq R(L) /\ B(O) \subseteq B(L)
  BY OtherLines
<1>3. /\ s \notin PseudoAttacks[ROOK][to] => R(L) = R(O)
      /\ s \notin PseudoAttacks[BISHOP][to] => B(L) = B(O)
  BY OtherLines
<1>4. XRay(p, to, pt, attackers_to(p, to, O) \cap O, L)
        = ((attackers_to(p, to, O) \cap O)
             \cup (IF pt \in {PAWN, BISHOP, QUEEN} THEN B(L) \cap BQ ELSE {})
             \cup (IF pt \in {ROOK, QUEEN} THEN R(L) \cap RQ ELSE {})) \cap L
  BY ByTwo DEF XRay
<1>5. \A qt \in PieceTypes : qt # pt => s \notin p.byTypeBB[qt]
  BY TypesApart
<1>6. /\ B(O) \subseteq PseudoAttacks[BISHOP][to] /\ R(O) \subseteq PseudoAttacks[ROOK][to]
      /\ of(p, WHITE, {PAWN}) \subseteq p.byTypeBB[PAWN] /\ of(p, BLACK, {PAWN}) \subseteq p.byTypeBB[PAWN]
  BY ByTwo DEF attacks_bb, of
<1>7. /\ PseudoAttacks[QUEEN][to] = PseudoAttacks[ROOK][to] \cup PseudoAttacks[BISHOP][to]
      /\ PseudoAttacks[ROOK][to] \cap PseudoAttacks[BISHOP][to] = {}
      /\ PseudoAttacks[KNIGHT][to] \cap PseudoAttacks[QUEEN][to] = {}
      /\ PawnAttacks[WHITE][to] \subseteq PseudoAttacks[BISHOP][to]
      /\ PawnAttacks[BLACK][to] \subseteq PseudoAttacks[BISHOP][to]
  BY LinesAreApart DEF Colors
<1>. HIDE DEF B, R, Rest
<1>8. s \in (R(O) \cap RQ) \cup (B(O) \cap BQ) \cup Rest
  BY <1>1
<1>9. /\ pt \notin {PAWN, BISHOP, QUEEN} => B(L) = B(O)
      /\ pt \notin {ROOK, QUEEN} => R(L) = R(O)
  BY <1>3, <1>5, <1>6, <1>7, <1>8, Kinds DEF Rest
<1>. QED BY <1>1, <1>2, <1>4, <1>9

(* ---- The full value of an exchange ---- *)

\* The greater of two numbers.
LEMMA MaxOfTwo ==
    ASSUME NEW a \in Int, NEW b \in Int
    PROVE  Max({a, b}) = IF a >= b THEN a ELSE b
<1>1. \E x \in {a, b} : \A y \in {a, b} : x >= y
  OBVIOUS
<1>2. Max({a, b}) \in {a, b} /\ \A y \in {a, b} : Max({a, b}) >= y
  BY <1>1 DEF Max
<1>. QED BY <1>2

\* The values of the pieces are natural numbers, the queen's the greatest and
\* the king's 0.
LEMMA Values ==
    /\ \A pc \in Pieces \cup {NO_PIECE} : PieceValue[pc] \in 0..PieceValue[QUEEN]
    /\ PieceValue[KING] = 0
    /\ PieceTypes \subseteq Pieces \cup {NO_PIECE}
<1>. USE DEF PieceTypes, PAWN, KNIGHT, BISHOP, ROOK, QUEEN, KING, Colors, WHITE, BLACK
<1>1. \A pt \in PieceTypes : make_piece(WHITE, pt) = pt
  BY DEF make_piece
<1>2. PieceTypes \subseteq Pieces \cup {NO_PIECE}
  BY <1>1 DEF Pieces
<1>3. type_of(QUEEN) = QUEEN /\ type_of(KING) = KING
  BY DEF type_of
<1>4. PieceValue[QUEEN] = 2538 /\ PieceValue[KING] = 0
  BY <1>2, <1>3 DEF PieceValue
<1>5. \A pc \in Pieces \cup {NO_PIECE} : PieceValue[pc] \in 0..2538
  BY DEF PieceValue
<1>. QED BY <1>2, <1>4, <1>5

\* The least valuable taker is one of the takers.
LEMMA Taker ==
    ASSUME NEW p, BoardsAgree(p), NEW taking \in SUBSET pieces(p), taking # {}
    PROVE  /\ LeastValuable(p, taking) \in PieceTypes
           /\ lsb(taking \cap p.byTypeBB[LeastValuable(p, taking)])
                \in taking \cap p.byTypeBB[LeastValuable(p, taking)]
<1>. DEFINE T == {pt \in PieceTypes : taking \cap p.byTypeBB[pt] # {}}
<1>1. T # {} /\ T \subseteq Nat
  BY TypesApart, Kinds
<1>2. Min(T) \in T
  BY <1>1, LeastIsIn
<1>3. LeastValuable(p, taking) \in T
  BY <1>2 DEF LeastValuable
<1>4. taking \cap p.byTypeBB[LeastValuable(p, taking)] \subseteq Nat
  BY TypesApart DEF Squares
<1>5. Min(taking \cap p.byTypeBB[LeastValuable(p, taking)]) \in taking \cap p.byTypeBB[LeastValuable(p, taking)]
  BY <1>3, <1>4, LeastIsIn
<1>. QED BY <1>3, <1>5 DEF lsb

\* A set of squares has at most 64 of them, fewer without one of its own.
LEMMA SquaresFinite ==
    ASSUME NEW O \in SUBSET Squares
    PROVE  /\ Cardinality(O) \in 0..64
           /\ \A s \in O : Cardinality(O \ {s}) = Cardinality(O) - 1
<1>1. IsFiniteSet(Squares) /\ Cardinality(Squares) = 64
  <2>1. PICK a \in Int, b \in Int : a = 0 /\ b = 63
    OBVIOUS
  <2>2. Squares = a..b
    BY <2>1 DEF Squares
  <2>3. IsFiniteSet(a..b) /\ Cardinality(a..b) = IF a > b THEN 0 ELSE b - a + 1
    BY FS_Interval
  <2>. QED BY <2>1, <2>2, <2>3
<1>2. IsFiniteSet(O) /\ Cardinality(O) <= 64
  BY <1>1, FS_Subset
<1>3. Cardinality(O) \in Nat
  BY <1>2, FS_CardinalityType
<1>4. \A s \in O : Cardinality(O \ {s}) = Cardinality(O) - 1
  BY <1>2, FS_RemoveElement
<1>. QED BY <1>2, <1>3, <1>4

\* Who may take on to in an exchange, and what is left when the least valuable has.
Attacking(p, to, occupied) == attackers_to(p, to, occupied) \cap occupied
Takers(p, to, c, occupied) == MayTake(p, c, Attacking(p, to, occupied), occupied)
Cheapest(p, to, c, occupied) == LeastValuable(p, Takers(p, to, c, occupied))
Left(p, to, c, occupied) ==
    occupied \ {lsb(Takers(p, to, c, occupied) \cap p.byTypeBB[Cheapest(p, to, c, occupied)])}
Stops(p, to, c, occupied) ==
    \/ Takers(p, to, c, occupied) = {}
    \/ /\ Cheapest(p, to, c, occupied) = KING
       /\ Attacking(p, to, occupied) \cap p.byColorBB[Opp(c)] # {}

\* After a capture of an exchange fewer men stand: one attacker of the type
\* that took has gone.
LEMMA LeftIsLess ==
    ASSUME NEW p, BoardsAgree(p), NEW to \in Squares, NEW c \in Colors, NEW O \in SUBSET Squares,
           Takers(p, to, c, O) # {}
    PROVE  /\ Cheapest(p, to, c, O) \in PieceTypes
           /\ Left(p, to, c, O) \in SUBSET O
           /\ Cardinality(Left(p, to, c, O)) < Cardinality(O)
           /\ \E s \in Attacking(p, to, O) \cap p.byTypeBB[Cheapest(p, to, c, O)] : Left(p, to, c, O) = O \ {s}
<1>. DEFINE taking == Takers(p, to, c, O)
            s == lsb(taking \cap p.byTypeBB[Cheapest(p, to, c, O)])
<1>1. taking \subseteq Attacking(p, to, O) /\ Attacking(p, to, O) \subseteq pieces(p) \cap O
  BY AttackersAreMen DEF Takers, MayTake, Attacking
<1>2. Cheapest(p, to, c, O) \in PieceTypes /\ s \in taking \cap p.byTypeBB[Cheapest(p, to, c, O)]
  BY <1>1, Taker DEF Cheapest
<1>3. Left(p, to, c, O) = O \ {s} /\ s \in O
  BY <1>1, <1>2 DEF Left
<1>4. Cardinality(O \ {s}) = Cardinality(O) - 1 /\ Cardinality(O) \in 0..64
  BY <1>3, SquaresFinite
<1>. QED BY <1>1, <1>2, <1>3, <1>4

\* The recursive function Exchange satisfies its equation, since fewer men stand
\* with every capture.
LEMMA ExchangeEquation ==
    ASSUME NEW p, BoardsAgree(p), NEW to \in Squares
    PROVE  \A x \in Exchanges :
             /\ Exchange(p, to)[x] \in Int
             /\ Exchange(p, to)[x] =
                  IF Stops(p, to, x.c, x.occupied) THEN 0
                  ELSE Max({0, x.standing - Exchange(p, to)[[c |-> Opp(x.c),
                              standing |-> PieceValue[Cheapest(p, to, x.c, x.occupied)],
                              occupied |-> Left(p, to, x.c, x.occupied)]]})
<1>. DEFINE Next1(x) == [c |-> Opp(x.c), standing |-> PieceValue[Cheapest(p, to, x.c, x.occupied)],
                         occupied |-> Left(p, to, x.c, x.occupied)]
            Body(v, x) == IF Stops(p, to, x.c, x.occupied) THEN 0 ELSE Max({0, x.standing - v[Next1(x)]})
            F == CHOOSE v : v = [x \in Exchanges |-> Body(v, x)]
<1>1. Exchange(p, to) = F
  BY Zenon DEF Exchange, Stops, Takers, Attacking, Cheapest, Left
<1>. DEFINE N == 64
            m == [x \in Exchanges |-> Cardinality(x.occupied)]
            done == [x \in Exchanges |-> Stops(p, to, x.c, x.occupied)]
            out == [x \in Exchanges |-> 0]
            next == [x \in Exchanges |-> IF done[x] THEN x ELSE Next1(x)]
            G == [y \in Exchanges \X Int |-> IF 0 >= y[1].standing - y[2] THEN 0 ELSE y[1].standing - y[2]]
<1>2. \A x \in Exchanges : x.c \in Colors /\ x.standing \in Int /\ x.occupied \in SUBSET Squares
  BY DEF Exchanges
<1>3. \A x \in Exchanges : ~Stops(p, to, x.c, x.occupied) =>
         Next1(x) \in Exchanges /\ Cardinality(Next1(x).occupied) < Cardinality(x.occupied)
  <2>1. SUFFICES ASSUME NEW x \in Exchanges, ~Stops(p, to, x.c, x.occupied)
                 PROVE  Next1(x) \in Exchanges /\ Cardinality(Next1(x).occupied) < Cardinality(x.occupied)
    OBVIOUS
  <2>2. Takers(p, to, x.c, x.occupied) # {}
    BY <2>1 DEF Stops
  <2>3. /\ Cheapest(p, to, x.c, x.occupied) \in PieceTypes
        /\ Left(p, to, x.c, x.occupied) \in SUBSET Squares
        /\ Cardinality(Left(p, to, x.c, x.occupied)) < Cardinality(x.occupied)
    BY <1>2, <2>2, LeftIsLess
  <2>4. PieceValue[Cheapest(p, to, x.c, x.occupied)] \in Int /\ Opp(x.c) \in Colors
    BY <1>2, <2>3, Values, Sides
  <2>. QED BY <2>3, <2>4 DEF Exchanges
<1>4. N \in Nat /\ m \in [Exchanges -> 0..N]
  BY <1>2, SquaresFinite
<1>5. done \in [Exchanges -> BOOLEAN] /\ out \in [Exchanges -> Int] /\ 0 \in Int
  BY DEF Stops
<1>6. next \in [Exchanges -> Exchanges]
  BY <1>3
<1>7. G \in [Exchanges \X Int -> Int]
  BY <1>2
<1>8. Falls(Exchanges, m, done, next)
  BY <1>3 DEF Falls
<1>9. PICK f : f \in [Exchanges -> Int] /\ Recurs2(f, Exchanges, done, out, next, G)
  <2>. HIDE DEF N, m, done, out, next, G
  <2>. QED BY <1>4, <1>5, <1>6, <1>7, <1>8, Recursion
<1>10. f = [x \in Exchanges |-> Body(f, x)]
  <2>1. ASSUME NEW x \in Exchanges
        PROVE  f[x] = Body(f, x)
    <3>0. f[x] = IF done[x] THEN out[x] ELSE G[<<x, f[next[x]]>>]
      BY <1>9 DEF Recurs2
    <3>1. CASE Stops(p, to, x.c, x.occupied)
      BY <3>0, <3>1
    <3>2. CASE ~Stops(p, to, x.c, x.occupied)
      <4>1. Next1(x) \in Exchanges /\ next[x] = Next1(x)
        BY <1>3, <3>2
      <4>2. f[Next1(x)] \in Int /\ x.standing \in Int
        BY <1>2, <1>9, <4>1
      <4>3. f[x] = G[<<x, f[Next1(x)]>>]
        BY <3>0, <3>2, <4>1
      <4>4. f[x] = IF 0 >= x.standing - f[Next1(x)] THEN 0 ELSE x.standing - f[Next1(x)]
        BY <4>2, <4>3
      <4>5. f[x] = Max({0, x.standing - f[Next1(x)]})
        <5>. HIDE DEF Next1
        <5>. QED BY <4>2, <4>4, MaxOfTwo
      <4>. QED BY <3>2, <4>5
    <3>. QED BY <3>1, <3>2
  <2>. HIDE DEF Body
  <2>. QED BY <1>9, <2>1
<1>11. F = [x \in Exchanges |-> Body(F, x)]
  <2>. HIDE DEF Body
  <2>. QED BY <1>10
<1>12. \A x \in Exchanges : F[x] = Body(F, x)
  <2>. HIDE DEF Body, F
  <2>. QED BY <1>11
<1>13. \A x \in Exchanges : F[x] = f[x]
  <2>1. \A x \in Exchanges : f[x] = Body(f, x)
    <3>. HIDE DEF Body
    <3>. QED BY <1>10
  <2>2. Follow(Exchanges, done, next, F, f)
    <3>1. SUFFICES ASSUME NEW x \in Exchanges, done[x] \/ F[next[x]] = f[next[x]]
                   PROVE  F[x] = f[x]
      BY DEF Follow
    <3>2. F[x] = Body(F, x) /\ f[x] = Body(f, x)
      BY <1>12, <2>1
    <3>3. CASE Stops(p, to, x.c, x.occupied)
      BY <3>2, <3>3
    <3>4. CASE ~Stops(p, to, x.c, x.occupied)
      <4>1. F[Next1(x)] = f[Next1(x)]
        BY <3>1, <3>4
      <4>. QED BY <3>2, <3>4, <4>1
    <3>. QED BY <3>3, <3>4
  <2>. HIDE DEF F, N, m, done, next
  <2>. QED BY <1>4, <1>5, <1>6, <1>8, <2>2, RecursionIsUnique
<1>. QED BY <1>1, <1>9, <1>12, <1>13

(* ---- The loop of see_ge ---- *)

\* The loop of see_ge at a state: the takers, the least valuable of them, and what its capture leaves.
SeeTakers(p, x) == MayTake(p, x.stm, x.attackers, x.occupied)
SeeCheapest(p, x) == LeastValuable(p, SeeTakers(p, x))
SeeLeft(p, x) == x.occupied \ {lsb(SeeTakers(p, x) \cap p.byTypeBB[SeeCheapest(p, x)])}
SeeSwap(p, x) == PieceValue[SeeCheapest(p, x)] - x.swap
SeeEnds(p, x) ==
    \/ SeeTakers(p, x) = {}
    \/ SeeCheapest(p, x) = KING
    \/ SeeSwap(p, x) < 1 - x.res /\ SeeCheapest(p, x) # QUEEN
SeeAnswer(p, x) ==
    IF SeeTakers(p, x) = {} THEN x.res = 1
    ELSE IF SeeCheapest(p, x) = KING THEN (x.attackers \ p.byColorBB[x.stm] # {}) # (1 - x.res = 1)
    ELSE 1 - x.res = 1
SeeNext(p, to, x) ==
    SeeState(SeeLeft(p, x), Opp(x.stm), XRay(p, to, SeeCheapest(p, x), x.attackers, SeeLeft(p, x)),
             SeeSwap(p, x), 1 - x.res)

\* Another pass of the loop of see_ge has fewer men standing than the last.
LEMMA SeeNextIsLess ==
    ASSUME NEW p, BoardsAgree(p), NEW to \in Squares, NEW x \in SeeStates(p), SeeTakers(p, x) # {}
    PROVE  /\ SeeCheapest(p, x) \in PieceTypes
           /\ SeeNext(p, to, x) \in SeeStates(p)
           /\ Cardinality(SeeNext(p, to, x).occupied) < Cardinality(x.occupied)
           /\ \E s \in x.attackers \cap p.byTypeBB[SeeCheapest(p, x)] : SeeLeft(p, x) = x.occupied \ {s}
<1>. DEFINE s == lsb(SeeTakers(p, x) \cap p.byTypeBB[SeeCheapest(p, x)])
            joined == XRay(p, to, SeeCheapest(p, x), x.attackers, SeeLeft(p, x))
<1>1. /\ x.occupied \in SUBSET Squares /\ x.stm \in Colors /\ x.attackers \in SUBSET pieces(p)
      /\ x.swap \in Int /\ x.res \in {0, 1} /\ x.attackers \subseteq x.occupied
  BY DEF SeeStates
<1>2. SeeTakers(p, x) \subseteq x.attackers
  BY DEF SeeTakers, MayTake
<1>3. SeeCheapest(p, x) \in PieceTypes /\ s \in SeeTakers(p, x) \cap p.byTypeBB[SeeCheapest(p, x)]
  BY <1>1, <1>2, Taker DEF SeeCheapest
<1>4. SeeLeft(p, x) = x.occupied \ {s} /\ s \in x.occupied
  BY <1>1, <1>2, <1>3 DEF SeeLeft
<1>5. Cardinality(x.occupied \ {s}) = Cardinality(x.occupied) - 1 /\ Cardinality(x.occupied) \in 0..64
  BY <1>1, <1>4, SquaresFinite
<1>6. joined \subseteq SeeLeft(p, x)
  BY DEF XRay
<1>7. joined \subseteq pieces(p)
  <2>1. by(p, {BISHOP, QUEEN}) \subseteq pieces(p) /\ by(p, {ROOK, QUEEN}) \subseteq pieces(p)
    BY TypesApart, Kinds DEF by
  <2>. QED BY <1>1, <2>1 DEF XRay
<1>8. SeeSwap(p, x) \in Int /\ 1 - x.res \in {0, 1} /\ Opp(x.stm) \in Colors
  <2>1. PieceValue[SeeCheapest(p, x)] \in Int
    BY <1>3, Values
  <2>. QED BY <1>1, <2>1, Sides DEF SeeSwap
<1>9. SeeLeft(p, x) \in SUBSET Squares
  BY <1>1, <1>4
<1>10. SeeNext(p, to, x) \in SeeStates(p)
  BY <1>6, <1>7, <1>8, <1>9 DEF SeeStates, SeeNext, SeeState
<1>11. SeeNext(p, to, x).occupied = x.occupied \ {s}
  BY <1>4 DEF SeeNext, SeeState
<1>. QED BY <1>2, <1>3, <1>4, <1>5, <1>10, <1>11

\* The recursive function SeeLoop satisfies its equation.
LEMMA SeeEquation ==
    ASSUME NEW p, BoardsAgree(p), NEW to \in Squares
    PROVE  \A x \in SeeStates(p) :
             SeeLoop(p, to)[x] = IF SeeEnds(p, x) THEN SeeAnswer(p, x) ELSE SeeLoop(p, to)[SeeNext(p, to, x)]
<1>. DEFINE Body(v, x) == IF SeeTakers(p, x) = {} THEN x.res = 1
                          ELSE IF SeeCheapest(p, x) = KING
                               THEN (x.attackers \ p.byColorBB[x.stm] # {}) # (1 - x.res = 1)
                          ELSE IF SeeSwap(p, x) < 1 - x.res /\ SeeCheapest(p, x) # QUEEN THEN 1 - x.res = 1
                          ELSE v[SeeNext(p, to, x)]
            F == CHOOSE v : v = [x \in SeeStates(p) |-> Body(v, x)]
<1>1. SeeLoop(p, to) = F
  BY Zenon DEF SeeLoop, SeeTakers, SeeCheapest, SeeLeft, SeeSwap, SeeNext
<1>. DEFINE S == SeeStates(p)
            N == 64
            m == [x \in S |-> Cardinality(x.occupied)]
            done == [x \in S |-> SeeEnds(p, x)]
            out == [x \in S |-> SeeAnswer(p, x)]
            next == [x \in S |-> IF done[x] THEN x ELSE SeeNext(p, to, x)]
            G == [y \in S \X BOOLEAN |-> y[2]]
<1>2. \A x \in S : x.occupied \in SUBSET Squares
  BY DEF SeeStates
<1>3. \A x \in S : ~SeeEnds(p, x) =>
         SeeNext(p, to, x) \in S /\ Cardinality(SeeNext(p, to, x).occupied) < Cardinality(x.occupied)
  BY SeeNextIsLess DEF SeeEnds
<1>4. N \in Nat /\ m \in [S -> 0..N]
  BY <1>2, SquaresFinite
<1>5. done \in [S -> BOOLEAN] /\ out \in [S -> BOOLEAN] /\ TRUE \in BOOLEAN
  BY DEF SeeEnds, SeeAnswer
<1>6. next \in [S -> S]
  BY <1>3
<1>7. G \in [S \X BOOLEAN -> BOOLEAN]
  OBVIOUS
<1>8. Falls(S, m, done, next)
  BY <1>3 DEF Falls
<1>9. PICK f : f \in [S -> BOOLEAN] /\ Recurs2(f, S, done, out, next, G)
  <2>. HIDE DEF S, N, m, done, out, next, G
  <2>. QED BY <1>4, <1>5, <1>6, <1>7, <1>8, Recursion
<1>10. f = [x \in S |-> Body(f, x)]
  <2>1. ASSUME NEW x \in S
        PROVE  f[x] = Body(f, x)
    <3>1. f[x] = IF done[x] THEN out[x] ELSE G[<<x, f[next[x]]>>]
      BY <1>9 DEF Recurs2
    <3>2. CASE SeeEnds(p, x)
      <4>1. f[x] = SeeAnswer(p, x)
        BY <3>1, <3>2
      <4>. QED BY <3>2, <4>1 DEF SeeEnds, SeeAnswer
    <3>3. CASE ~SeeEnds(p, x)
      <4>1. SeeNext(p, to, x) \in S /\ next[x] = SeeNext(p, to, x)
        BY <1>3, <3>3
      <4>2. f[SeeNext(p, to, x)] \in BOOLEAN
        BY <1>9, <4>1
      <4>3. f[x] = f[SeeNext(p, to, x)]
        BY <3>1, <3>3, <4>1, <4>2
      <4>. QED BY <3>3, <4>3 DEF SeeEnds
    <3>. QED BY <3>2, <3>3
  <2>. HIDE DEF Body
  <2>. QED BY <1>9, <2>1
<1>11. F = [x \in S |-> Body(F, x)]
  <2>. HIDE DEF Body
  <2>. QED BY <1>10
<1>12. \A x \in S : F[x] = Body(F, x)
  <2>. HIDE DEF Body, F
  <2>. QED BY <1>11
<1>13. \A x \in S : Body(F, x) = IF SeeEnds(p, x) THEN SeeAnswer(p, x) ELSE F[SeeNext(p, to, x)]
  <2>. HIDE DEF F
  <2>. QED BY DEF SeeEnds, SeeAnswer
<1>. QED
  <2>. HIDE DEF Body, F
  <2>. QED BY <1>1, <1>12, <1>13

(* ---- The loop and the full value compared ---- *)

\* The pinners are pieces that stand.
PinnersStand(p) == \A c \in Colors : p.st.pinners[c] \subseteq pieces(p)

\* What side c wins by taking.
Taken(p, to, c, standing, occupied) ==
    Exchange(p, to)[[c |-> c, standing |-> standing, occupied |-> occupied]]

\* What is won by a capture, by what the opponent wins after it.
LEMMA TakenEquation ==
    ASSUME NEW p, BoardsAgree(p), NEW to \in Squares,
           NEW c \in Colors, NEW S \in Int, NEW O \in SUBSET Squares
    PROVE  /\ Taken(p, to, c, S, O) \in Int
           /\ Taken(p, to, c, S, O) =
                IF Stops(p, to, c, O) THEN 0
                ELSE Max({0, S - Taken(p, to, Opp(c), PieceValue[Cheapest(p, to, c, O)], Left(p, to, c, O))})
<1>. DEFINE x == [c |-> c, standing |-> S, occupied |-> O]
<1>1. x \in Exchanges /\ x.c = c /\ x.standing = S /\ x.occupied = O
  BY DEF Exchanges
<1>. HIDE DEF x
<1>2. Exchange(p, to)[x] = Taken(p, to, c, S, O)
  BY DEF x, Taken
<1>3. /\ Exchange(p, to)[x] \in Int
      /\ Exchange(p, to)[x] =
                  IF Stops(p, to, x.c, x.occupied) THEN 0
                  ELSE Max({0, x.standing - Exchange(p, to)[[c |-> Opp(x.c),
                              standing |-> PieceValue[Cheapest(p, to, x.c, x.occupied)],
                              occupied |-> Left(p, to, x.c, x.occupied)]]})
  BY <1>1, ExchangeEquation
<1>. QED BY <1>1, <1>2, <1>3 DEF Taken

\* Nobody loses by the right to take, nor wins more than what stands there.
LEMMA TakenBounds ==
    ASSUME NEW p, BoardsAgree(p), NEW to \in Squares,
           NEW c \in Colors, NEW S \in Nat, NEW O \in SUBSET Squares
    PROVE  Taken(p, to, c, S, O) \in 0..S
<1>1. \A d \in Colors, s \in Int, o \in SUBSET Squares : Taken(p, to, d, s, o) \in Nat
  <2>1. SUFFICES ASSUME NEW d \in Colors, NEW s \in Int, NEW o \in SUBSET Squares
                 PROVE  Taken(p, to, d, s, o) \in Nat
    OBVIOUS
  <2>. DEFINE next == Taken(p, to, Opp(d), PieceValue[Cheapest(p, to, d, o)], Left(p, to, d, o))
  <2>2. CASE Stops(p, to, d, o)
    <3>1. Taken(p, to, d, s, o) = 0
      BY <2>2, TakenEquation, Zenon
    <3>. QED BY <3>1
  <2>3. CASE ~Stops(p, to, d, o)
    <3>1. Takers(p, to, d, o) # {}
      BY <2>3 DEF Stops
    <3>2. /\ Opp(d) \in Colors /\ Left(p, to, d, o) \in SUBSET Squares
          /\ PieceValue[Cheapest(p, to, d, o)] \in Int
      BY <3>1, LeftIsLess, Sides, Values
    <3>3. next \in Int
      BY <3>2, TakenEquation
    <3>4. Taken(p, to, d, s, o) = Max({0, s - next})
      BY <2>3, TakenEquation
    <3>. HIDE DEF next
    <3>. QED BY <3>3, <3>4, MaxOfTwo
  <2>. QED BY <2>2, <2>3
<1>. DEFINE next == Taken(p, to, Opp(c), PieceValue[Cheapest(p, to, c, O)], Left(p, to, c, O))
<1>2. CASE Stops(p, to, c, O)
  <2>1. S \in Int
    OBVIOUS
  <2>2. Taken(p, to, c, S, O) = 0
    BY <1>2, <2>1, TakenEquation, Zenon
  <2>. QED BY <2>2
<1>3. CASE ~Stops(p, to, c, O)
  <2>1. Takers(p, to, c, O) # {}
    BY <1>3 DEF Stops
  <2>2. /\ Opp(c) \in Colors /\ Left(p, to, c, O) \in SUBSET Squares
        /\ PieceValue[Cheapest(p, to, c, O)] \in Int
    BY <2>1, LeftIsLess, Sides, Values
  <2>3. next \in Nat
    BY <1>1, <2>2
  <2>4. Taken(p, to, c, S, O) = Max({0, S - next})
    BY <1>3, TakenEquation
  <2>. HIDE DEF next
  <2>. QED BY <2>3, <2>4, MaxOfTwo
<1>. QED BY <1>2, <1>3

\* The loop at x and the exchange that goes on with a piece worth standing on to.
Corresponds(p, to, x, standing) ==
    /\ to \in x.occupied => to \notin pieces(p)
    /\ x.attackers = Attacking(p, to, x.occupied)
    /\ standing \in 0..PieceValue[QUEEN]
    /\ x.res <= x.swap /\ 1 - x.res <= standing - x.swap
\* The loop answers whether the exchange reaches what is asked.
Compares(p, to, x, standing) ==
    SeeLoop(p, to)[x] = IF x.res = 1 THEN Taken(p, to, x.stm, standing, x.occupied \ {to}) <= standing - x.swap
                        ELSE Taken(p, to, x.stm, standing, x.occupied \ {to}) >= standing - x.swap

\* The square of the exchange itself does not matter.
LEMMA SquareAside ==
    ASSUME NEW p, BoardsAgree(p), PinnersStand(p), NEW to \in Squares, NEW c \in Colors,
           NEW O \in SUBSET Squares, to \in O => to \notin pieces(p)
    PROVE  /\ Attacking(p, to, O \ {to}) = Attacking(p, to, O)
           /\ Takers(p, to, c, O \ {to}) = MayTake(p, c, Attacking(p, to, O), O)
<1>1. attackers_to(p, to, O \ {to}) = attackers_to(p, to, O)
  <2>1. \A pt \in {ROOK, BISHOP} : attacks_bb(pt, to, O \ {to}) = attacks_bb(pt, to, O)
    <3>1. \A pt \in {BISHOP, ROOK} : \A t \in PseudoAttacks[pt][to] : to \notin StrictlyBetween[to][t]
      BY LinesAreApart, Kinds
    <3>. QED BY <3>1 DEF attacks_bb
  <2>. QED BY <2>1 DEF attackers_to
<1>2. Attacking(p, to, O \ {to}) = Attacking(p, to, O)
  BY <1>1, AttackersAreMen DEF Attacking
<1>3. p.st.pinners[Opp(c)] \cap (O \ {to}) # {} <=> p.st.pinners[Opp(c)] \cap O # {}
  BY Sides DEF PinnersStand
<1>. QED BY <1>2, <1>3 DEF Takers, MayTake

\* Loop and exchange have the same men take, and stop for the same reasons.
LEMMA SameCapture ==
    ASSUME NEW p, BoardsAgree(p), PinnersStand(p), NEW to \in Squares, NEW x \in SeeStates(p), NEW S,
           Corresponds(p, to, x, S)
    PROVE  /\ Takers(p, to, x.stm, x.occupied \ {to}) = SeeTakers(p, x)
           /\ Cheapest(p, to, x.stm, x.occupied \ {to}) = SeeCheapest(p, x)
           /\ Left(p, to, x.stm, x.occupied \ {to}) = SeeLeft(p, x) \ {to}
           /\ Stops(p, to, x.stm, x.occupied \ {to}) <=>
                \/ SeeTakers(p, x) = {}
                \/ SeeCheapest(p, x) = KING /\ x.attackers \ p.byColorBB[x.stm] # {}
<1>1. /\ x.occupied \in SUBSET Squares /\ x.stm \in Colors /\ x.attackers \in SUBSET pieces(p)
      /\ x.swap \in Int /\ x.res \in {0, 1} /\ x.attackers \subseteq x.occupied
  BY DEF SeeStates
<1>2. to \in x.occupied => to \notin pieces(p)
  BY DEF Corresponds
<1>3. x.attackers = Attacking(p, to, x.occupied)
  BY DEF Corresponds
<1>4. /\ Attacking(p, to, x.occupied \ {to}) = Attacking(p, to, x.occupied)
      /\ Takers(p, to, x.stm, x.occupied \ {to}) = SeeTakers(p, x)
  BY <1>1, <1>2, <1>3, SquareAside DEF SeeTakers
<1>5. Cheapest(p, to, x.stm, x.occupied \ {to}) = SeeCheapest(p, x)
  BY <1>4 DEF Cheapest, SeeCheapest
<1>6. Left(p, to, x.stm, x.occupied \ {to}) = SeeLeft(p, x) \ {to}
  BY <1>4, <1>5 DEF Left, SeeLeft
<1>7. x.attackers \cap p.byColorBB[Opp(x.stm)] # {} <=> x.attackers \ p.byColorBB[x.stm] # {}
  BY <1>1, TypesApart
<1>. QED BY <1>3, <1>4, <1>5, <1>6, <1>7 DEF Stops

\* One pass of the loop, when the side to take does: the comparison is turned around.
LEMMA PassCorresponds ==
    ASSUME NEW p, BoardsAgree(p), PinnersStand(p), NEW to \in Squares, NEW x \in SeeStates(p), NEW S,
           Corresponds(p, to, x, S), ~SeeEnds(p, x)
    PROVE  Corresponds(p, to, SeeNext(p, to, x), PieceValue[SeeCheapest(p, x)])
<1>. DEFINE pt == SeeCheapest(p, x)
            y == SeeNext(p, to, x)
<1>1. /\ x.occupied \in SUBSET Squares /\ x.attackers \in SUBSET pieces(p)
      /\ x.swap \in Int /\ x.res \in {0, 1}
  BY DEF SeeStates
<1>2. /\ to \in x.occupied => to \notin pieces(p)
      /\ x.attackers = Attacking(p, to, x.occupied)
      /\ S \in 0..PieceValue[QUEEN] /\ x.res <= x.swap /\ 1 - x.res <= S - x.swap
  BY DEF Corresponds
<1>3. pt \in PieceTypes \ {KING} /\ \E s \in x.attackers \cap p.byTypeBB[pt] : SeeLeft(p, x) = x.occupied \ {s}
  BY SeeNextIsLess DEF SeeEnds
<1>4. PICK s \in x.attackers \cap p.byTypeBB[pt] : SeeLeft(p, x) = x.occupied \ {s}
  BY <1>3
<1>5. y.occupied = x.occupied \ {s} /\ y.swap = PieceValue[pt] - x.swap /\ y.res = 1 - x.res
  BY <1>4 DEF SeeNext, SeeState, SeeSwap
<1>6. y.attackers = Attacking(p, to, y.occupied)
  <2>1. y.attackers = XRay(p, to, pt, attackers_to(p, to, x.occupied) \cap x.occupied, x.occupied \ {s})
    BY <1>2, <1>4 DEF SeeNext, SeeState, Attacking
  <2>2. s \in attackers_to(p, to, x.occupied) \cap x.occupied /\ s \in p.byTypeBB[pt]
    BY <1>2, <1>4 DEF Attacking
  <2>3. pt \in PieceTypes \ {KING}
    BY <1>3
  <2>. HIDE DEF pt, y
  <2>4. XRay(p, to, pt, attackers_to(p, to, x.occupied) \cap x.occupied, x.occupied \ {s})
          = attackers_to(p, to, x.occupied \ {s}) \cap (x.occupied \ {s})
    BY <2>2, <2>3, JoinFromBehind
  <2>. QED BY <1>5, <2>1, <2>4 DEF Attacking
<1>7. PieceValue[pt] \in 0..PieceValue[QUEEN] /\ PieceValue[QUEEN] \in Int
  BY <1>3, Values, Kinds
<1>8. y.res <= y.swap /\ 1 - y.res <= PieceValue[pt] - y.swap
  <2>1. ~(PieceValue[pt] - x.swap < 1 - x.res) \/ pt = QUEEN
    BY DEF SeeEnds, SeeSwap
  <2>. HIDE DEF pt, y
  <2>. QED BY <1>1, <1>2, <1>5, <1>7, <2>1
<1>. QED BY <1>2, <1>5, <1>6, <1>7, <1>8 DEF Corresponds

\* The loop of see_ge answers what comparing the value of the exchange would,
\* by induction over the men that still stand.
LEMMA LoopCompares ==
    ASSUME NEW p, BoardsAgree(p), PinnersStand(p), NEW to \in Squares
    PROVE  \A x \in SeeStates(p), S \in Int : Corresponds(p, to, x, S) => Compares(p, to, x, S)
<1>. DEFINE T == {n \in Nat : \A x \in SeeStates(p), S \in Int :
                     Cardinality(x.occupied) < n /\ Corresponds(p, to, x, S) => Compares(p, to, x, S)}
<1>1. \A x \in SeeStates(p) : Cardinality(x.occupied) \in 0..64
  BY SquaresFinite DEF SeeStates
<1>2. 0 \in T
  BY <1>1
<1>3. ASSUME NEW n \in Nat, n \in T
      PROVE  n + 1 \in T
  <2>1. SUFFICES ASSUME NEW x \in SeeStates(p), NEW S \in Int, Cardinality(x.occupied) < n + 1,
                        Corresponds(p, to, x, S)
                 PROVE  Compares(p, to, x, S)
    OBVIOUS
  <2>. DEFINE pt == SeeCheapest(p, x)
              E == x.occupied \ {to}
              V == Taken(p, to, x.stm, S, E)
              W == Taken(p, to, Opp(x.stm), PieceValue[pt], SeeLeft(p, x) \ {to})
  <2>2. /\ x.occupied \in SUBSET Squares /\ x.stm \in Colors /\ x.attackers \in SUBSET pieces(p)
        /\ x.swap \in Int /\ x.res \in {0, 1} /\ Opp(x.stm) \in Colors
    BY Sides DEF SeeStates
  <2>3. /\ S \in 0..PieceValue[QUEEN] /\ x.res <= x.swap /\ 1 - x.res <= S - x.swap
    BY <2>1 DEF Corresponds
  <2>4. E \in SUBSET Squares /\ S \in Nat
    BY <2>2, <2>3, Values
  <2>5. V = IF Stops(p, to, x.stm, E) THEN 0
            ELSE Max({0, S - Taken(p, to, Opp(x.stm), PieceValue[Cheapest(p, to, x.stm, E)], Left(p, to, x.stm, E))})
    <3>. DEFINE c == x.stm
    <3>1. c \in Colors /\ S \in Int
      BY <2>2, <2>4
    <3>. HIDE DEF c, E, V, pt, W
    <3>2. Taken(p, to, c, S, E) =
            IF Stops(p, to, c, E) THEN 0
            ELSE Max({0, S - Taken(p, to, Opp(c), PieceValue[Cheapest(p, to, c, E)], Left(p, to, c, E))})
      BY <2>4, <3>1, TakenEquation
    <3>. QED BY <3>2 DEF c, V
  <2>6. /\ Cheapest(p, to, x.stm, E) = pt /\ Left(p, to, x.stm, E) = SeeLeft(p, x) \ {to}
        /\ Stops(p, to, x.stm, E) <=>
             SeeTakers(p, x) = {} \/ (pt = KING /\ x.attackers \ p.byColorBB[x.stm] # {})
    BY <2>1, SameCapture
  <2>7. SeeLoop(p, to)[x] = IF SeeEnds(p, x) THEN SeeAnswer(p, x) ELSE SeeLoop(p, to)[SeeNext(p, to, x)]
    BY SeeEquation
  <2>8. CASE Stops(p, to, x.stm, E)
    <3>1. V = 0
      BY <2>5, <2>8
    <3>2. SeeEnds(p, x) /\ SeeAnswer(p, x) = (x.res = 1)
      BY <2>2, <2>6, <2>8 DEF SeeEnds, SeeAnswer
    <3>3. SeeLoop(p, to)[x] = (x.res = 1)
      BY <2>7, <3>2
    <3>. HIDE DEF V
    <3>4. SeeLoop(p, to)[x] = IF x.res = 1 THEN V <= S - x.swap ELSE V >= S - x.swap
      BY <2>2, <2>3, <3>1, <3>3
    <3>. QED BY <3>4 DEF V, Compares
  <2>9. CASE ~Stops(p, to, x.stm, E)
    <3>1. SeeTakers(p, x) # {} /\ (pt = KING => ~(x.attackers \ p.byColorBB[x.stm] # {}))
      BY <2>6, <2>9
    <3>2. /\ pt \in PieceTypes /\ SeeNext(p, to, x) \in SeeStates(p)
          /\ Cardinality(SeeNext(p, to, x).occupied) < Cardinality(x.occupied)
      BY <3>1, SeeNextIsLess
    <3>3. PieceValue[pt] \in Nat /\ SeeLeft(p, x) \ {to} \in SUBSET Squares
      <4>1. PieceValue[pt] \in 0..PieceValue[QUEEN]
        BY <3>2, Values
      <4>. QED BY <2>2, <4>1 DEF SeeLeft
    <3>4. W \in 0..PieceValue[pt]
      BY <2>2, <3>3, TakenBounds
    <3>5. V = Max({0, S - W})
      BY <2>5, <2>6, <2>9
    <3>6. V = IF 0 >= S - W THEN 0 ELSE S - W
      <4>. HIDE DEF W, V
      <4>. QED BY <2>4, <3>3, <3>4, <3>5, MaxOfTwo
    <3>. SUFFICES SeeLoop(p, to)[x] = IF x.res = 1 THEN V <= S - x.swap ELSE V >= S - x.swap
      BY DEF Compares
    <3>7. CASE pt = KING
      <4>1. SeeEnds(p, x) /\ SeeAnswer(p, x) = (x.res = 0)
        BY <2>2, <3>1, <3>7 DEF SeeEnds, SeeAnswer
      <4>2. SeeLoop(p, to)[x] = (x.res = 0)
        BY <2>7, <4>1
      <4>3. PieceValue[pt] = 0
        BY <3>7, Values
      <4>. HIDE DEF W, V, pt
      <4>4. W = 0
        BY <3>4, <4>3
      <4>. QED BY <2>2, <2>3, <2>4, <3>6, <4>2, <4>4
    <3>8. CASE pt # KING /\ SeeSwap(p, x) < 1 - x.res /\ pt # QUEEN
      <4>1. SeeEnds(p, x) /\ SeeAnswer(p, x) = (x.res = 0)
        BY <2>2, <3>1, <3>8 DEF SeeEnds, SeeAnswer
      <4>2. SeeLoop(p, to)[x] = (x.res = 0)
        BY <2>7, <4>1
      <4>3. PieceValue[pt] - x.swap < 1 - x.res
        BY <3>8 DEF SeeSwap
      <4>. HIDE DEF W, V, pt
      <4>. QED BY <2>2, <2>3, <2>4, <3>3, <3>4, <3>6, <4>2, <4>3
    <3>9. CASE pt # KING /\ (SeeSwap(p, x) >= 1 - x.res \/ pt = QUEEN)
      <4>. DEFINE y == SeeNext(p, to, x)
      <4>1. ~SeeEnds(p, x)
        <5>1. SeeSwap(p, x) \in Int
          BY <2>2, <3>3 DEF SeeSwap
        <5>. QED BY <2>2, <3>1, <3>9, <5>1 DEF SeeEnds
      <4>2. Corresponds(p, to, y, PieceValue[pt])
        BY <2>1, <4>1, PassCorresponds
      <4>3. Cardinality(y.occupied) < n
        BY <1>1, <2>1, <3>2
      <4>4. Compares(p, to, y, PieceValue[pt])
        BY <1>3, <3>2, <3>3, <4>2, <4>3
      <4>5. y.stm = Opp(x.stm) /\ y.occupied = SeeLeft(p, x) /\ y.swap = PieceValue[pt] - x.swap /\ y.res = 1 - x.res
        BY DEF SeeNext, SeeState, SeeSwap
      <4>6. SeeLoop(p, to)[y] = IF 1 - x.res = 1 THEN W <= PieceValue[pt] - (PieceValue[pt] - x.swap)
                                ELSE W >= PieceValue[pt] - (PieceValue[pt] - x.swap)
        BY <4>4, <4>5 DEF Compares
      <4>7. SeeLoop(p, to)[x] = SeeLoop(p, to)[y]
        BY <2>7, <4>1
      <4>. HIDE DEF W, V, pt, y
      <4>. QED BY <2>2, <2>3, <2>4, <3>3, <3>4, <3>6, <4>6, <4>7
    <3>. QED
      <4>1. SeeSwap(p, x) \in Int
        BY <2>2, <3>3 DEF SeeSwap
      <4>. QED BY <2>2, <3>7, <3>8, <3>9, <4>1
  <2>. QED BY <2>8, <2>9
<1>4. ASSUME NEW x \in SeeStates(p), NEW S \in Int, Corresponds(p, to, x, S)
      PROVE  Compares(p, to, x, S)
  <2>1. 65 \in T
    <3>. HIDE DEF T
    <3>. QED BY <1>2, <1>3, Numbers
  <2>2. Cardinality(x.occupied) < 65
    BY <1>1
  <2>. QED BY <1>4, <2>1, <2>2
<1>. QED BY <1>4

\* see_ge says of every capture or quiet move whether the exchange it starts is worth the threshold.
LEMMA SeeComparesTheExchange ==
    ASSUME NEW p, BoardsAgree(p), PinnersStand(p), p.sideToMove \in Colors,
           NEW m, m.type = "NORMAL", m.from \in pieces(p), m.to \in Squares \ {m.from}, NEW t \in Int
    PROVE  ExchangeOf(p, m) \in Int /\ see_ge(p, m, t) = (ExchangeOf(p, m) >= t)
<1>. DEFINE mover == p.sideToMove
            occupied == SymDiff(SymDiff(pieces(p), {m.from}), {m.to})
            captured == PieceValue[p.board[m.to]]
            moved == PieceValue[p.board[m.from]]
            swap0 == captured - t
            swap1 == moved - swap0
            x == SeeState(occupied, Opp(mover), attackers_to(p, m.to, occupied) \cap occupied, swap1, 1)
            V == Taken(p, m.to, Opp(mover), moved, pieces(p) \ {m.from, m.to})
<1>1. /\ m.from \in Squares /\ m.to \in Squares /\ m.from # m.to
      /\ pieces(p) \subseteq Squares /\ Opp(mover) \in Colors
  BY TypesApart, Sides
<1>2. captured \in 0..PieceValue[QUEEN] /\ moved \in 0..PieceValue[QUEEN] /\ PieceValue[QUEEN] \in Int
  <2>1. p.board[m.from] \in Pieces \cup {NO_PIECE} /\ p.board[m.to] \in Pieces \cup {NO_PIECE}
    BY <1>1 DEF BoardsAgree
  <2>2. QUEEN \in Pieces \cup {NO_PIECE}
    BY Values, Kinds
  <2>. QED BY <2>1, <2>2, Values
<1>3. ExchangeOf(p, m) = captured - V
  BY DEF ExchangeOf, Taken
<1>4. V \in 0..moved
  <2>1. moved \in Nat /\ pieces(p) \ {m.from, m.to} \in SUBSET Squares
    BY <1>1, <1>2
  <2>. HIDE DEF moved
  <2>. QED BY <1>1, <2>1, TakenBounds
<1>5. see_ge(p, m, t) = (swap0 >= 0 /\ (swap1 <= 0 \/ SeeLoop(p, m.to)[x]))
  BY DEF see_ge
<1>6. /\ occupied \subseteq Squares /\ occupied \ {m.to} = pieces(p) \ {m.from, m.to}
      /\ m.to \in occupied => m.to \notin pieces(p)
  BY <1>1 DEF SymDiff
<1>7. swap1 \in Int /\ swap0 \in Int
  BY <1>2
<1>8. ASSUME swap0 >= 0, swap1 > 0
      PROVE  SeeLoop(p, m.to)[x] = (V <= moved - swap1)
  <2>1. attackers_to(p, m.to, occupied) \subseteq pieces(p)
    BY <1>1, AttackersAreMen
  <2>2. x \in SeeStates(p)
    BY <1>1, <1>6, <1>7, <2>1 DEF SeeStates, SeeState
  <2>3. /\ x.occupied = occupied /\ x.stm = Opp(mover) /\ x.swap = swap1 /\ x.res = 1
        /\ x.attackers = Attacking(p, m.to, occupied)
    BY DEF SeeState, Attacking
  <2>. HIDE DEF x
  <2>4. Corresponds(p, m.to, x, moved)
    <3>1. 1 <= swap1 /\ 0 <= moved - swap1
      BY <1>2, <1>7, <1>8
    <3>. HIDE DEF occupied, moved, swap1
    <3>. QED BY <1>2, <1>6, <2>3, <3>1 DEF Corresponds
  <2>5. Compares(p, m.to, x, moved)
    <3>1. moved \in Int
      BY <1>2
    <3>. HIDE DEF moved
    <3>. QED BY <1>1, <2>2, <2>4, <3>1, LoopCompares
  <2>. HIDE DEF occupied, moved, swap1
  <2>. QED BY <1>6, <2>3, <2>5 DEF Compares
<1>9. swap0 = captured - t /\ swap1 = moved - swap0
  OBVIOUS
<1>. HIDE DEF V, x, captured, moved, swap0, swap1
<1>10. CASE ~(swap0 >= 0)
  BY <1>2, <1>3, <1>4, <1>5, <1>9, <1>10
<1>11. CASE swap0 >= 0 /\ swap1 <= 0
  BY <1>2, <1>3, <1>4, <1>5, <1>9, <1>11
<1>12. CASE swap0 >= 0 /\ swap1 > 0
  <2>1. see_ge(p, m, t) = (V <= moved - swap1)
    <3>1. SeeLoop(p, m.to)[x] = (V <= moved - swap1)
      BY <1>8, <1>12
    <3>2. ~(swap1 <= 0)
      BY <1>7, <1>12
    <3>3. see_ge(p, m, t) = (swap0 >= 0 /\ (swap1 <= 0 \/ (V <= moved - swap1)))
      BY <1>5, <3>1, Zenon
    <3>. QED BY <1>12, <3>2, <3>3
  <2>. QED BY <1>2, <1>3, <1>4, <1>9, <2>1
<1>. QED BY <1>7, <1>10, <1>11, <1>12

(* ---- The four forms of the board, changed square by square ---- *)

\* Boards, and the other three forms told from them.
Boards == [Squares -> Pieces \cup {NO_PIECE}]
ByType(b) == [pt \in {ALL_PIECES} \cup PieceTypes |->
                {s \in Squares : b[s] # NO_PIECE /\ pt \in {ALL_PIECES, type_of(b[s])}}]
ByColor(b) == [c \in Colors |-> {s \in Squares : b[s] # NO_PIECE /\ color_of(b[s]) = c}]
Counted(b, pc) == {s \in Squares : b[s] # NO_PIECE /\ pc \in {b[s], make_piece(color_of(b[s]), ALL_PIECES)}}
Counts(b) == [pc \in 0..15 |-> Cardinality(Counted(b, pc))]
\* The fields of a position.
Fields == {"board", "byTypeBB", "byColorBB", "pieceCount", "castlingRightsMask", "castlingRookSquare",
           "castlingPath", "gamePly", "sideToMove", "chess960", "prev", "dts", "st"}
IsPosition(p) == p = [x \in Fields |-> p[x]]
\* All of a position but its board.
Frame(q, p) ==
    /\ q.castlingRightsMask = p.castlingRightsMask /\ q.castlingRookSquare = p.castlingRookSquare
    /\ q.castlingPath = p.castlingPath /\ q.gamePly = p.gamePly /\ q.sideToMove = p.sideToMove
    /\ q.chess960 = p.chess960 /\ q.prev = p.prev /\ q.st = p.st
\* The four forms of the board agree.
Whole(p) ==
    /\ IsPosition(p) /\ p.board \in Boards
    /\ p.byTypeBB = ByType(p.board) /\ p.byColorBB = ByColor(p.board) /\ p.pieceCount = Counts(p.board)
\* q is p with another board.
WithBoard(q, p, b) == Whole(q) /\ Frame(q, p) /\ q.board = b
\* ... and, unless it notes what it changes, nothing noted.
Rebuilt(q, p, b, dirty) == WithBoard(q, p, b) /\ (~dirty => q.dts = p.dts)

\* The codes of the pieces and of a color's total are different counters.
LEMMA PieceCodes ==
    /\ \A pc \in Pieces : /\ pc \in 0..15 /\ make_piece(color_of(pc), ALL_PIECES) \in 0..15
                          /\ pc # make_piece(color_of(pc), ALL_PIECES)
    /\ ALL_PIECES \notin PieceTypes
    /\ \A pc, q \in Pieces : /\ pc # make_piece(color_of(q), ALL_PIECES)
                             /\ make_piece(color_of(pc), ALL_PIECES) = make_piece(color_of(q), ALL_PIECES)
                                 => color_of(pc) = color_of(q)
<1>. USE DEF ALL_PIECES, PieceTypes, PAWN, KING, Colors, WHITE, BLACK, make_piece
<1>1. \A pc \in Pieces : pc = 8 * color_of(pc) + type_of(pc) /\ type_of(pc) \in 1..6 /\ color_of(pc) \in {0, 1}
  BY PieceParts DEF make_piece
<1>. HIDE DEF Pieces, color_of, type_of
<1>. QED BY <1>1

\* The squares a piece stands on are finitely many.
LEMMA CountsAreNat ==
    ASSUME NEW b, NEW pc
    PROVE  IsFiniteSet(Counted(b, pc)) /\ Cardinality(Counted(b, pc)) \in Nat
<1>1. Counted(b, pc) \subseteq Squares
  BY DEF Counted
<1>2. IsFiniteSet(Squares)
  <2>1. PICK m \in Int, n \in Int : m = 0 /\ n = 63
    OBVIOUS
  <2>2. Squares = m..n
    BY <2>1 DEF Squares
  <2>. QED BY <2>2, FS_Interval
<1>3. IsFiniteSet(Counted(b, pc))
  BY <1>1, <1>2, FS_Subset
<1>. QED BY <1>3, FS_CardinalityType

\* A piece more on an empty square.
LEMMA CountsWithMore ==
    ASSUME NEW b \in Boards, NEW s \in Squares, b[s] = NO_PIECE, NEW pc \in Pieces, NEW x
    PROVE  LET b2 == [b EXCEPT ![s] = pc]
           IN  Cardinality(Counted(b2, x)) = Cardinality(Counted(b, x))
                  + IF x \in {pc, make_piece(color_of(pc), ALL_PIECES)} THEN 1 ELSE 0
<1>. DEFINE b2 == [b EXCEPT ![s] = pc]
<1>1. s \notin Counted(b, x)
  BY DEF Counted
<1>2. CASE x \in {pc, make_piece(color_of(pc), ALL_PIECES)}
  <2>1. Counted(b2, x) = Counted(b, x) \cup {s}
    BY <1>2, PieceParts DEF Counted, Boards
  <2>2. Cardinality(Counted(b, x) \cup {s}) = Cardinality(Counted(b, x)) + 1
    BY <1>1, CountsAreNat, FS_AddElement
  <2>. QED BY <1>2, <2>1, <2>2
<1>3. CASE x \notin {pc, make_piece(color_of(pc), ALL_PIECES)}
  <2>1. Counted(b2, x) = Counted(b, x)
    BY <1>3, <1>1 DEF Counted, Boards
  <2>. QED BY <1>3, <2>1, CountsAreNat
<1>. QED BY <1>2, <1>3

\* A piece put on an empty square changes all four forms of the board alike.
LEMMA FilledIs ==
    ASSUME NEW p, Whole(p), NEW s \in Squares, p.board[s] = NO_PIECE, NEW pc \in Pieces
    PROVE  WithBoard(Filled(p, pc, s), p, [p.board EXCEPT ![s] = pc]) /\ Filled(p, pc, s).dts = p.dts
<1>. DEFINE b == p.board
            b2 == [b EXCEPT ![s] = pc]
            total == make_piece(color_of(pc), ALL_PIECES)
            q == Filled(p, pc, s)
<1>0. /\ pc # NO_PIECE /\ type_of(pc) \in PieceTypes /\ color_of(pc) \in Colors
      /\ pc \in 0..15 /\ total \in 0..15 /\ pc # total /\ ALL_PIECES \notin PieceTypes
      /\ IsPosition(p) /\ b \in Boards
  BY PieceParts, PieceCodes DEF Whole
<1>1. [[ByType(b) EXCEPT ![ALL_PIECES] = @ \cup {s}] EXCEPT ![type_of(pc)] = @ \cup {s}] = ByType(b2)
  BY <1>0 DEF ByType, Boards
<1>2. [ByColor(b) EXCEPT ![color_of(pc)] = @ \cup {s}] = ByColor(b2)
  BY <1>0 DEF ByColor, Boards
<1>3. [[Counts(b) EXCEPT ![pc] = @ + 1] EXCEPT ![total] = @ + 1] = Counts(b2)
  <2>1. \A x \in 0..15 : Cardinality(Counted(b2, x)) = Cardinality(Counted(b, x)) + IF x \in {pc, total} THEN 1 ELSE 0
    BY <1>0, CountsWithMore
  <2>2. \A x \in 0..15 : Cardinality(Counted(b, x)) \in Nat
    BY CountsAreNat
  <2>. HIDE DEF b2, total, b
  <2>. QED BY <1>0, <2>1, <2>2 DEF Counts
<1>4. IsPosition(q)
  BY <1>0 DEF Filled, IsPosition
<1>5. Frame(q, p) /\ q.dts = p.dts
  BY <1>0 DEF Filled, IsPosition, Fields, Frame
<1>6. q.board = b2
  BY <1>0 DEF Filled, IsPosition, Fields
<1>7. q.byTypeBB = [[p.byTypeBB EXCEPT ![ALL_PIECES] = @ \cup {s}] EXCEPT ![type_of(pc)] = @ \cup {s}]
  BY <1>0 DEF Filled, IsPosition, Fields
<1>8. q.byColorBB = [p.byColorBB EXCEPT ![color_of(pc)] = @ \cup {s}]
  BY <1>0 DEF Filled, IsPosition, Fields
<1>9. q.pieceCount = [[p.pieceCount EXCEPT ![pc] = @ + 1] EXCEPT ![total] = @ + 1]
  BY <1>0 DEF Filled, IsPosition, Fields
<1>10. b2 \in Boards
  BY <1>0 DEF Boards
<1>. HIDE DEF q, b2, total
<1>. QED BY <1>1, <1>2, <1>3, <1>4, <1>5, <1>6, <1>7, <1>8, <1>9, <1>10 DEF WithBoard, Whole, b2, q

\* A square emptied.
LEMMA EmptiedIs ==
    ASSUME NEW p, Whole(p), NEW s \in Squares, p.board[s] # NO_PIECE
    PROVE  /\ WithBoard(Emptied(p, p.board[s], s), p, [p.board EXCEPT ![s] = NO_PIECE])
           /\ Emptied(p, p.board[s], s).dts = p.dts
<1>. DEFINE b == p.board
            pc == b[s]
            b2 == [b EXCEPT ![s] = NO_PIECE]
            total == make_piece(color_of(pc), ALL_PIECES)
            q == Emptied(p, pc, s)
<1>a. pc \in Pieces /\ b \in Boards /\ IsPosition(p)
  BY DEF Whole, Boards
<1>0. /\ pc # NO_PIECE /\ type_of(pc) \in PieceTypes /\ color_of(pc) \in Colors
      /\ pc \in 0..15 /\ total \in 0..15 /\ pc # total /\ ALL_PIECES \notin PieceTypes
  BY <1>a, PieceParts, PieceCodes
<1>10. b2 \in Boards /\ b2[s] = NO_PIECE /\ b = [b2 EXCEPT ![s] = pc]
  BY <1>a DEF Boards
<1>1. [[ByType(b) EXCEPT ![ALL_PIECES] = @ \ {s}] EXCEPT ![type_of(pc)] = @ \ {s}] = ByType(b2)
  BY <1>0, <1>a DEF ByType, Boards
<1>2. [ByColor(b) EXCEPT ![color_of(pc)] = @ \ {s}] = ByColor(b2)
  BY <1>0, <1>a DEF ByColor, Boards
<1>3. [[Counts(b) EXCEPT ![pc] = @ - 1] EXCEPT ![total] = @ - 1] = Counts(b2)
  <2>1. \A x \in 0..15 : Cardinality(Counted(b, x)) = Cardinality(Counted(b2, x)) + IF x \in {pc, total} THEN 1 ELSE 0
    <3>. HIDE DEF b2
    <3>. QED BY <1>a, <1>10, CountsWithMore
  <2>2. \A x \in 0..15 : Cardinality(Counted(b2, x)) \in Nat
    BY CountsAreNat
  <2>. HIDE DEF b2, total, b, pc
  <2>. QED BY <1>0, <2>1, <2>2 DEF Counts
<1>4. IsPosition(q)
  BY <1>a DEF Emptied, IsPosition
<1>5. Frame(q, p) /\ q.dts = p.dts
  BY <1>a DEF Emptied, IsPosition, Fields, Frame
<1>6. q.board = b2
  BY <1>a DEF Emptied, IsPosition, Fields
<1>. HIDE DEF pc
<1>7. q.byTypeBB = [[p.byTypeBB EXCEPT ![ALL_PIECES] = @ \ {s}] EXCEPT ![type_of(pc)] = @ \ {s}]
  BY <1>a, <1>0 DEF Emptied, IsPosition, Fields
<1>8. q.byColorBB = [p.byColorBB EXCEPT ![color_of(pc)] = @ \ {s}]
  BY <1>a, <1>0 DEF Emptied, IsPosition, Fields
<1>9. q.pieceCount = [[p.pieceCount EXCEPT ![pc] = @ - 1] EXCEPT ![total] = @ - 1]
  BY <1>a, <1>0 DEF Emptied, IsPosition, Fields
<1>. HIDE DEF q, b2, total
<1>. QED BY <1>1, <1>2, <1>3, <1>4, <1>5, <1>6, <1>7, <1>8, <1>9, <1>10 DEF WithBoard, Whole, b2, q, pc

\* A piece moved to an empty square.
LEMMA ShiftedIs ==
    ASSUME NEW p, Whole(p), NEW from \in Squares, NEW to \in Squares,
           p.board[from] # NO_PIECE, p.board[to] = NO_PIECE
    PROVE  /\ WithBoard(Shifted(p, p.board[from], from, to), p,
                        [p.board EXCEPT ![from] = NO_PIECE, ![to] = p.board[from]])
           /\ Shifted(p, p.board[from], from, to).dts = p.dts
<1>. DEFINE b == p.board
            pc == b[from]
            b1 == [b EXCEPT ![from] = NO_PIECE]
            b2 == [b1 EXCEPT ![to] = pc]
            q == Shifted(p, pc, from, to)
<1>a. pc \in Pieces /\ b \in Boards /\ IsPosition(p) /\ from # to
  BY DEF Whole, Boards
<1>0. /\ pc # NO_PIECE /\ type_of(pc) \in PieceTypes /\ color_of(pc) \in Colors /\ ALL_PIECES \notin PieceTypes
  BY <1>a, PieceParts, PieceCodes
<1>10. /\ b1 \in Boards /\ b1[from] = NO_PIECE /\ b = [b1 EXCEPT ![from] = pc] /\ b1[to] = NO_PIECE
       /\ b2 \in Boards /\ b2[from] = NO_PIECE /\ b2[to] = pc
       /\ \A s \in Squares \ {from, to} : b2[s] = b[s]
  BY <1>a DEF Boards
<1>1. [[ByType(b) EXCEPT ![ALL_PIECES] = SymDiff(@, {from, to})]
                  EXCEPT ![type_of(pc)] = SymDiff(@, {from, to})] = ByType(b2)
  <2>. DEFINE T == [[ByType(b) EXCEPT ![ALL_PIECES] = SymDiff(@, {from, to})]
                            EXCEPT ![type_of(pc)] = SymDiff(@, {from, to})]
  <2>. HIDE DEF b2, pc
  <2>1. \A pt \in {ALL_PIECES} \cup PieceTypes :
           T[pt] = IF pt \in {ALL_PIECES, type_of(pc)} THEN SymDiff(ByType(b)[pt], {from, to}) ELSE ByType(b)[pt]
    BY <1>0 DEF ByType
  <2>2. \A pt \in {ALL_PIECES, type_of(pc)} : SymDiff(ByType(b)[pt], {from, to}) = ByType(b2)[pt]
    BY <1>0, <1>10, <1>a DEF ByType, SymDiff, pc
  <2>3. \A pt \in PieceTypes \ {ALL_PIECES, type_of(pc)} : ByType(b)[pt] = ByType(b2)[pt]
    BY <1>0, <1>10, <1>a DEF ByType, pc
  <2>4. \A pt \in {ALL_PIECES} \cup PieceTypes : T[pt] = ByType(b2)[pt]
    BY <2>1, <2>2, <2>3, <1>0
  <2>5. T = [pt \in {ALL_PIECES} \cup PieceTypes |-> T[pt]]
    BY DEF ByType
  <2>6. ByType(b2) = [pt \in {ALL_PIECES} \cup PieceTypes |-> ByType(b2)[pt]]
    BY DEF ByType
  <2>. HIDE DEF T
  <2>. QED BY <2>4, <2>5, <2>6 DEF T
<1>2. [ByColor(b) EXCEPT ![color_of(pc)] = SymDiff(@, {from, to})] = ByColor(b2)
  <2>. HIDE DEF b2, pc
  <2>1. SymDiff(ByColor(b)[color_of(pc)], {from, to}) = ByColor(b2)[color_of(pc)]
    BY <1>0, <1>10, <1>a DEF ByColor, SymDiff, pc
  <2>2. \A c \in Colors \ {color_of(pc)} : ByColor(b)[c] = ByColor(b2)[c]
    BY <1>0, <1>10, <1>a DEF ByColor, pc
  <2>3. ByColor(b2) = [c \in Colors |-> ByColor(b2)[c]] /\ ByColor(b) = [c \in Colors |-> ByColor(b)[c]]
    BY DEF ByColor
  <2>. QED BY <2>1, <2>2, <2>3
<1>3. Counts(b) = Counts(b2)
  <2>1. \A x \in 0..15 : Cardinality(Counted(b2, x)) = Cardinality(Counted(b, x))
    <3>1. ASSUME NEW x
          PROVE  Cardinality(Counted(b, x))
                   = Cardinality(Counted(b1, x)) + IF x \in {pc, make_piece(color_of(pc), ALL_PIECES)} THEN 1 ELSE 0
      <4>1. Cardinality(Counted([b1 EXCEPT ![from] = pc], x))
              = Cardinality(Counted(b1, x)) + IF x \in {pc, make_piece(color_of(pc), ALL_PIECES)} THEN 1 ELSE 0
        <5>1. b1 \in Boards /\ b1[from] = NO_PIECE /\ pc \in Pieces /\ from \in Squares
          BY <1>a, <1>10
        <5>. HIDE DEF b1, pc
        <5>. QED BY <5>1, CountsWithMore
      <4>. HIDE DEF b1, b2, b, pc
      <4>. QED BY <4>1, <1>10
    <3>2. ASSUME NEW x
          PROVE  Cardinality(Counted(b2, x))
                   = Cardinality(Counted(b1, x)) + IF x \in {pc, make_piece(color_of(pc), ALL_PIECES)} THEN 1 ELSE 0
      <4>1. b2 = [b1 EXCEPT ![to] = pc]
        OBVIOUS
      <4>2. b1 \in Boards /\ b1[to] = NO_PIECE /\ pc \in Pieces /\ to \in Squares
        BY <1>a, <1>10
      <4>3. Cardinality(Counted([b1 EXCEPT ![to] = pc], x)) =
               Cardinality(Counted(b1, x)) + IF x \in {pc, make_piece(color_of(pc), ALL_PIECES)} THEN 1 ELSE 0
        <5>. HIDE DEF b1, pc
        <5>. QED BY <4>2, CountsWithMore
      <4>. HIDE DEF b1, b2, pc
      <4>. QED BY <4>1, <4>3
    <3>. QED BY <3>1, <3>2
  <2>. HIDE DEF b2
  <2>. QED BY <2>1 DEF Counts
<1>4. IsPosition(q)
  BY <1>a DEF Shifted, IsPosition
<1>5. Frame(q, p) /\ q.dts = p.dts
  BY <1>a DEF Shifted, IsPosition, Fields, Frame
<1>6. q.board = b2
  BY <1>a DEF Shifted, IsPosition, Fields
<1>. HIDE DEF pc
<1>7. q.byTypeBB = [[p.byTypeBB EXCEPT ![ALL_PIECES] = SymDiff(@, {from, to})]
                       EXCEPT ![type_of(pc)] = SymDiff(@, {from, to})]
  BY <1>a, <1>0 DEF Shifted, IsPosition, Fields
<1>8. q.byColorBB = [p.byColorBB EXCEPT ![color_of(pc)] = SymDiff(@, {from, to})]
  BY <1>a, <1>0 DEF Shifted, IsPosition, Fields
<1>9. q.pieceCount = p.pieceCount
  BY <1>a, <1>0 DEF Shifted, IsPosition, Fields
<1>. HIDE DEF q, b2
<1>. QED BY <1>1, <1>2, <1>3, <1>4, <1>5, <1>6, <1>7, <1>8, <1>9, <1>10 DEF WithBoard, Whole, b2, b1, q, pc

\* Noting dirty threats leaves the board as it is.
LEMMA NotedIs ==
    ASSUME NEW p, Whole(p), NEW dirty \in BOOLEAN, NEW pc, NEW put, NEW s, NEW ray, NEW none
    PROVE  Rebuilt(Noted(p, dirty, pc, put, s, ray, none), p, p.board, dirty)
<1>1. CASE ~dirty
  BY <1>1 DEF Noted, WithBoard, Rebuilt, Frame
<1>2. CASE dirty
  <2>. DEFINE q == Noted(p, dirty, pc, put, s, ray, none)
              d == Append(p.dts, update_piece_threats(p, SlidersOn(p, s), pc, put, s, ray, none))
  <2>1. q = [p EXCEPT !.dts = d]
    BY <1>2 DEF Noted
  <2>. HIDE DEF d, q
  <2>2. IsPosition(q) /\ Frame(q, p)
    BY <2>1 DEF Whole, IsPosition, Fields, Frame
  <2>3. q.board = p.board /\ q.byTypeBB = p.byTypeBB /\ q.byColorBB = p.byColorBB /\ q.pieceCount = p.pieceCount
    BY <2>1 DEF Whole, IsPosition, Fields
  <2>. QED BY <1>2, <2>2, <2>3 DEF Whole, WithBoard, Rebuilt, q
<1>. QED BY <1>1, <1>2

(* ---- put_piece, remove_piece, move_piece and swap_piece ---- *)

\* Two changes of the board, one after the other.
LEMMA Chained ==
    ASSUME NEW p, NEW q, NEW r, NEW b, NEW c, NEW dirty \in BOOLEAN, Rebuilt(q, p, b, dirty), Rebuilt(r, q, c, dirty)
    PROVE  Rebuilt(r, p, c, dirty)
BY DEF Rebuilt, WithBoard, Frame

\* put_piece keeps the four forms of the board in agreement.
LEMMA PutPieceIs ==
    ASSUME NEW p, Whole(p), NEW s \in Squares, p.board[s] = NO_PIECE, NEW pc \in Pieces, NEW dirty \in BOOLEAN
    PROVE  Rebuilt(put_piece(p, pc, s, dirty), p, [p.board EXCEPT ![s] = pc], dirty)
<1>. DEFINE r == Filled(p, pc, s)
<1>1. Rebuilt(r, p, [p.board EXCEPT ![s] = pc], dirty)
  BY FilledIs DEF Rebuilt
<1>2. put_piece(p, pc, s, dirty) = Noted(r, dirty, pc, TRUE, s, TRUE, Squares)
  BY DEF put_piece
<1>. HIDE DEF r
<1>3. Whole(r)
  BY <1>1 DEF Rebuilt, WithBoard
<1>4. Rebuilt(put_piece(p, pc, s, dirty), r, r.board, dirty)
  BY <1>2, <1>3, NotedIs
<1>5. r.board = [p.board EXCEPT ![s] = pc]
  BY <1>1 DEF Rebuilt, WithBoard
<1>. QED BY <1>1, <1>4, <1>5, Chained

\* remove_piece keeps the four forms of the board in agreement.
LEMMA RemovePieceIs ==
    ASSUME NEW p, Whole(p), NEW s \in Squares, p.board[s] # NO_PIECE, NEW dirty \in BOOLEAN
    PROVE  Rebuilt(remove_piece(p, s, dirty), p, [p.board EXCEPT ![s] = NO_PIECE], dirty)
<1>. DEFINE r == Noted(p, dirty, p.board[s], FALSE, s, TRUE, Squares)
            q == Emptied(r, r.board[s], s)
<1>1. Rebuilt(r, p, p.board, dirty)
  BY NotedIs
<1>. HIDE DEF r
<1>2. Whole(r) /\ r.board = p.board
  BY <1>1 DEF Rebuilt, WithBoard
<1>3. Rebuilt(q, r, [p.board EXCEPT ![s] = NO_PIECE], dirty)
  BY <1>2, EmptiedIs DEF Rebuilt
<1>4. remove_piece(p, s, dirty) = q
  BY <1>2 DEF remove_piece, r
<1>. HIDE DEF q
<1>. QED BY <1>1, <1>3, <1>4, Chained

\* move_piece keeps the four forms of the board in agreement.
LEMMA MovePieceIs ==
    ASSUME NEW p, Whole(p), NEW from \in Squares, NEW to \in Squares,
           p.board[from] # NO_PIECE, p.board[to] = NO_PIECE, NEW dirty \in BOOLEAN
    PROVE  Rebuilt(move_piece(p, from, to, dirty), p,
                   [p.board EXCEPT ![from] = NO_PIECE, ![to] = p.board[from]], dirty)
<1>. DEFINE b2 == [p.board EXCEPT ![from] = NO_PIECE, ![to] = p.board[from]]
            r == Noted(p, dirty, p.board[from], FALSE, from, TRUE, {from, to})
            t == Shifted(r, r.board[from], from, to)
            q == Noted(t, dirty, p.board[from], TRUE, to, TRUE, {from, to})
<1>1. Rebuilt(r, p, p.board, dirty)
  BY NotedIs
<1>. HIDE DEF r
<1>2. Whole(r) /\ r.board = p.board
  BY <1>1 DEF Rebuilt, WithBoard
<1>3. Rebuilt(t, r, b2, dirty)
  BY <1>2, ShiftedIs DEF Rebuilt
<1>4. move_piece(p, from, to, dirty) = q
  BY <1>2 DEF move_piece, r
<1>. HIDE DEF t, b2
<1>5. Whole(t) /\ t.board = b2
  BY <1>3 DEF Rebuilt, WithBoard
<1>6. Rebuilt(q, t, b2, dirty)
  BY <1>5, NotedIs
<1>7. Rebuilt(t, p, b2, dirty)
  BY <1>1, <1>3, Chained
<1>. HIDE DEF q
<1>8. Rebuilt(q, p, b2, dirty)
  BY <1>6, <1>7, Chained
<1>. QED BY <1>1, <1>3, <1>4, <1>6, <1>8 DEF b2

\* swap_piece keeps the four forms of the board in agreement.
LEMMA SwapPieceIs ==
    ASSUME NEW p, Whole(p), NEW s \in Squares, p.board[s] # NO_PIECE, NEW pc \in Pieces, NEW dirty \in BOOLEAN
    PROVE  Rebuilt(swap_piece(p, s, pc, dirty), p, [p.board EXCEPT ![s] = pc], dirty)
<1>. DEFINE b1 == [p.board EXCEPT ![s] = NO_PIECE]
            b2 == [p.board EXCEPT ![s] = pc]
            old == p.board[s]
            r == Emptied(p, old, s)
            t == Noted(r, dirty, old, FALSE, s, FALSE, Squares)
            u == Filled(t, pc, s)
            q == Noted(u, dirty, pc, TRUE, s, FALSE, Squares)
<1>0. swap_piece(p, s, pc, dirty) = q
  BY DEF swap_piece
<1>1. Rebuilt(r, p, b1, dirty)
  BY EmptiedIs DEF Rebuilt
<1>. HIDE DEF r
<1>2. Whole(r) /\ r.board = b1
  BY <1>1 DEF Rebuilt, WithBoard
<1>3. Rebuilt(t, r, b1, dirty)
  <2>. HIDE DEF b1
  <2>. QED BY <1>2, NotedIs
<1>. HIDE DEF t
<1>4. Whole(t) /\ t.board = b1 /\ b1[s] = NO_PIECE /\ [b1 EXCEPT ![s] = pc] = b2
  BY <1>3 DEF Rebuilt, WithBoard, Whole, Boards
<1>5. Rebuilt(u, t, b2, dirty)
  <2>. HIDE DEF b1, b2
  <2>. QED BY <1>4, FilledIs DEF Rebuilt
<1>. HIDE DEF u, b1, b2
<1>6. Whole(u) /\ u.board = b2
  BY <1>5 DEF Rebuilt, WithBoard
<1>7. Rebuilt(q, u, b2, dirty)
  BY <1>6, NotedIs
<1>. HIDE DEF q
<1>8. Rebuilt(q, p, b2, dirty)
  BY <1>1, <1>3, <1>5, <1>7, Chained
<1>. QED BY <1>0, <1>1, <1>3, <1>5, <1>7, <1>8 DEF b2

(* ---- A move that fits the board ---- *)

\* Where castling takes king and rook from, and puts them.
CastlesOn(b, mover, m) ==
    /\ b[m.from] = make_piece(mover, KING) /\ b[m.to] = make_piece(mover, ROOK)
    /\ CastlingKing(mover, m) \in Squares /\ CastlingRook(mover, m) \in Squares
    /\ \A s \in {CastlingKing(mover, m), CastlingRook(mover, m)} \ {m.from, m.to} : b[s] = NO_PIECE
\* A pawn that may take the one beside it in passing.
TakesInPassing(b, mover, m) ==
    /\ type_of(b[m.from]) = PAWN /\ b[m.to] = NO_PIECE
    /\ m.to - pawn_push(mover) \in Squares /\ b[m.to - pawn_push(mover)] = make_piece(Opp(mover), PAWN)
    /\ make_square(file_of(m.to), rank_of(m.from)) = m.to - pawn_push(mover)
\* A move of side c that the board b allows, pins and checks aside.
Fits(b, mover, m) ==
    /\ m.from \in Squares /\ m.to \in Squares /\ m.from # m.to
    /\ b[m.from] # NO_PIECE /\ color_of(b[m.from]) = mover
    /\ \/ m.type = "NORMAL"
       \/ m.type = "PROMOTION" /\ m.promotion \in KNIGHT..QUEEN /\ type_of(b[m.from]) = PAWN
       \/ m.type = "EN_PASSANT" /\ TakesInPassing(b, mover, m)
       \/ m.type = "CASTLING" /\ CastlesOn(b, mover, m)
    /\ m.type # "CASTLING" /\ b[m.to] # NO_PIECE => color_of(b[m.to]) = Opp(mover)

\* Forgetting the dirty threats leaves the board as it is.
LEMMA FieldsKept ==
    ASSUME NEW p, Whole(p)
    PROVE  LET q == [p EXCEPT !.dts = <<>>]
           IN  WithBoard(q, p, p.board) /\ q.dts = <<>>
<1>. DEFINE q == [p EXCEPT !.dts = <<>>]
<1>2. IsPosition(q) /\ Frame(q, p) /\ q.dts = <<>>
  BY DEF Whole, IsPosition, Fields, Frame
<1>3. q.board = p.board /\ q.byTypeBB = p.byTypeBB /\ q.byColorBB = p.byColorBB /\ q.pieceCount = p.pieceCount
  BY DEF Whole, IsPosition, Fields
<1>. QED BY <1>2, <1>3 DEF Whole, WithBoard

\* Castling puts king and rook on two different squares of the first rank.
LEMMA CastlingSquares ==
    ASSUME NEW mover \in Colors, NEW m
    PROVE  /\ CastlingKing(mover, m) = (IF mover = WHITE THEN 0 ELSE 56) + (IF m.to > m.from THEN 6 ELSE 2)
           /\ CastlingRook(mover, m) = (IF mover = WHITE THEN 0 ELSE 56) + (IF m.to > m.from THEN 5 ELSE 3)
           /\ CastlingKing(mover, m) # CastlingRook(mover, m)
           /\ CastlingKing(mover, m) \in Squares /\ CastlingRook(mover, m) \in Squares
<1>1. /\ relative_square(mover, 6) = (IF mover = WHITE THEN 0 ELSE 56) + 6
      /\ relative_square(mover, 2) = (IF mover = WHITE THEN 0 ELSE 56) + 2
      /\ relative_square(mover, 5) = (IF mover = WHITE THEN 0 ELSE 56) + 5
      /\ relative_square(mover, 3) = (IF mover = WHITE THEN 0 ELSE 56) + 3
  BY DEF relative_square, make_square, file_of, rank_of
<1>. QED BY <1>1 DEF CastlingKing, CastlingRook, Squares, WHITE

\* do_castling, done or undone, changes king and rook even where one of them
\* goes to the square of the other.
LEMMA CastledIs ==
    ASSUME NEW p, Whole(p), NEW mover \in Colors, NEW m, NEW Do \in BOOLEAN,
           NEW k \in Squares, NEW r \in Squares, NEW kk \in Squares, NEW rr \in Squares,
           k # r, kk # rr,
           IF Do THEN /\ k = m.from /\ r = m.to /\ kk = CastlingKing(mover, m) /\ rr = CastlingRook(mover, m)
                 ELSE /\ kk = m.from /\ rr = m.to /\ k = CastlingKing(mover, m) /\ r = CastlingRook(mover, m),
           p.board[k] # NO_PIECE, p.board[r] # NO_PIECE,
           \A s \in {kk, rr} \ {k, r} : p.board[s] = NO_PIECE
    PROVE  Rebuilt(do_castling(p, mover, m, Do), p,
                   [p.board EXCEPT ![k] = NO_PIECE, ![r] = NO_PIECE,
                                   ![kk] = make_piece(mover, KING), ![rr] = make_piece(mover, ROOK)], Do)
<1>. DEFINE K == make_piece(mover, KING)
            R == make_piece(mover, ROOK)
            b1 == [p.board EXCEPT ![k] = NO_PIECE]
            b2 == [b1 EXCEPT ![r] = NO_PIECE]
            b3 == [b2 EXCEPT ![kk] = K]
            b4 == [b3 EXCEPT ![rr] = R]
            q1 == remove_piece(p, k, Do)
            q2 == remove_piece(q1, r, Do)
            q3 == put_piece(q2, K, kk, Do)
            q4 == put_piece(q3, R, rr, Do)
<1>0. K \in Pieces /\ R \in Pieces
  BY PieceParts, Kinds
<1>1. do_castling(p, mover, m, Do) = q4
  <2>1. CASE Do
    BY <2>1 DEF do_castling
  <2>2. CASE ~Do
    BY <2>2 DEF do_castling
  <2>. QED BY <2>1, <2>2
<1>2. p.board \in Boards
  BY DEF Whole
<1>3. /\ b1[r] # NO_PIECE /\ b2[kk] = NO_PIECE /\ b3[rr] = NO_PIECE
  BY <1>2 DEF Boards
<1>. HIDE DEF K, R
<1>4. Rebuilt(q1, p, b1, Do)
  BY RemovePieceIs
<1>. HIDE DEF b1, q1
<1>5. Whole(q1) /\ q1.board = b1
  BY <1>4 DEF Rebuilt, WithBoard
<1>6. Rebuilt(q2, q1, b2, Do)
  BY <1>3, <1>5, RemovePieceIs
<1>. HIDE DEF b2, q2
<1>7. Whole(q2) /\ q2.board = b2
  BY <1>6 DEF Rebuilt, WithBoard
<1>8. Rebuilt(q3, q2, b3, Do)
  BY <1>0, <1>3, <1>7, PutPieceIs
<1>. HIDE DEF b3, q3
<1>9. Whole(q3) /\ q3.board = b3
  BY <1>8 DEF Rebuilt, WithBoard
<1>10. Rebuilt(q4, q3, b4, Do)
  BY <1>0, <1>3, <1>9, PutPieceIs
<1>. HIDE DEF b4, q4
<1>11. Rebuilt(q4, p, b4, Do)
  BY <1>4, <1>6, <1>8, <1>10, Chained
<1>12. b4 = [p.board EXCEPT ![k] = NO_PIECE, ![r] = NO_PIECE, ![kk] = K, ![rr] = R]
  BY DEF b4, b3, b2, b1
<1>. QED BY <1>1, <1>11, <1>12 DEF K, R

(* ---- do_move makes the board the rules make ---- *)

\* Two changes of the board that note dirty threats.
LEMMA ChainedNoting ==
    ASSUME NEW p, NEW q, NEW r, NEW b, NEW c, Rebuilt(q, p, b, TRUE), Rebuilt(r, q, c, TRUE)
    PROVE  Rebuilt(r, p, c, TRUE)
BY DEF Rebuilt, WithBoard, Frame

\* The four types of moves are different.
LEMMA TypesAreFour ==
    /\ "NORMAL" # "PROMOTION" /\ "NORMAL" # "EN_PASSANT" /\ "NORMAL" # "CASTLING"
    /\ "PROMOTION" # "EN_PASSANT" /\ "PROMOTION" # "CASTLING" /\ "EN_PASSANT" # "CASTLING"
OBVIOUS

\* What a pawn promotes to is a piece of its color, and no pawn.
LEMMA PromotedPieces ==
    ASSUME NEW mover \in Colors, NEW pt \in KNIGHT..KING
    PROVE  /\ make_piece(mover, pt) \in Pieces /\ type_of(make_piece(mover, pt)) # PAWN
           /\ type_of(make_piece(mover, pt)) = pt /\ color_of(make_piece(mover, pt)) = mover
<1>1. pt \in PieceTypes /\ pt # PAWN
  BY DEF PieceTypes, PAWN, KNIGHT, KING
<1>. QED BY <1>1, PieceParts

\* do_move's board after castling is the one the rules make.
LEMMA CastlingAfter ==
    ASSUME NEW p, Whole(p), p.sideToMove \in Colors, NEW m, m.type = "CASTLING",
           Fits(p.board, p.sideToMove, m), NEW q, WithBoard(q, p, p.board)
    PROVE  WithBoard(Moved(p, m, Begun(q, m)), p, After(p.board, m))
<1>. DEFINE mover == p.sideToMove
            kk == CastlingKing(mover, m)
            rr == CastlingRook(mover, m)
            r == do_castling(q, mover, m, TRUE)
            b == p.board
            b4 == [b EXCEPT ![m.from] = NO_PIECE, ![m.to] = NO_PIECE,
                            ![kk] = make_piece(mover, KING), ![rr] = make_piece(mover, ROOK)]
<1>1. /\ CastlesOn(b, mover, m) /\ m.from # m.to /\ m.from \in Squares /\ m.to \in Squares
      /\ b[m.from] # NO_PIECE /\ color_of(b[m.from]) = mover
  BY TypesAreFour DEF Fits
<1>2. /\ kk # rr /\ kk \in Squares /\ rr \in Squares
      /\ kk = (IF mover = WHITE THEN 0 ELSE 56) + (IF m.to > m.from THEN 6 ELSE 2)
      /\ rr = (IF mover = WHITE THEN 0 ELSE 56) + (IF m.to > m.from THEN 5 ELSE 3)
  BY CastlingSquares
<1>3. Whole(q) /\ q.board = b /\ q.sideToMove = mover
  BY DEF WithBoard, Frame
<1>4. Moved(p, m, Begun(q, m)) = r
  <2>1. Begun(q, m) = r
    BY <1>3 DEF Begun
  <2>. HIDE DEF r
  <2>2. Moved(p, m, r) = r
    BY DEF Moved
  <2>. QED BY <2>1, <2>2
<1>5. b[m.to] # NO_PIECE
  BY <1>1, PieceParts, Kinds DEF CastlesOn
<1>6. \A s \in {kk, rr} \ {m.from, m.to} : b[s] = NO_PIECE
  BY <1>1 DEF CastlesOn
<1>7. Rebuilt(r, q, b4, TRUE)
  <2>. HIDE DEF kk, rr, r, b, mover
  <2>1. /\ q.board[m.from] # NO_PIECE /\ q.board[m.to] # NO_PIECE
        /\ \A s \in {kk, rr} \ {m.from, m.to} : q.board[s] = NO_PIECE
    BY <1>1, <1>3, <1>5, <1>6
  <2>2. mover \in Colors
    BY DEF mover
  <2>3. Rebuilt(do_castling(q, mover, m, TRUE), q,
                   [q.board EXCEPT ![m.from] = NO_PIECE, ![m.to] = NO_PIECE,
                                   ![kk] = make_piece(mover, KING), ![rr] = make_piece(mover, ROOK)], TRUE)
    BY <1>1, <1>2, <1>3, <2>1, <2>2, CastledIs DEF kk, rr
  <2>. QED BY <1>3, <2>3 DEF r
<1>8. After(b, m) = b4
  <2>1. After(b, m) =
          LET side6 == m.to > m.from
              home == IF mover = WHITE THEN 0 ELSE 56
              lifted == [b EXCEPT ![m.from] = NO_PIECE, ![m.to] = NO_PIECE]
          IN  [lifted EXCEPT ![home + (IF side6 THEN 6 ELSE 2)] = make_piece(mover, KING),
                             ![home + (IF side6 THEN 5 ELSE 3)] = make_piece(mover, ROOK)]
    BY <1>1 DEF After
  <2>. HIDE DEF b, kk, rr, mover
  <2>. QED BY <2>1, <1>2
<1>. HIDE DEF r, b4
<1>. QED BY <1>3, <1>4, <1>7, <1>8 DEF Rebuilt, WithBoard, Frame

\* do_move's board after a plain move, a capture or a promotion.
LEMMA OtherAfter ==
    ASSUME NEW p, Whole(p), p.sideToMove \in Colors, NEW m, m.type \in {"NORMAL", "PROMOTION"},
           Fits(p.board, p.sideToMove, m), NEW q, WithBoard(q, p, p.board)
    PROVE  WithBoard(Moved(p, m, Begun(q, m)), p, After(p.board, m))
<1>. DEFINE mover == p.sideToMove
            b == p.board
            pc == b[m.from]
            put == PutDown(p, m)
            r == Moved(p, m, Begun(q, m))
            q1 == remove_piece(q, m.from, TRUE)
            b1 == [b EXCEPT ![m.from] = NO_PIECE]
            b2 == [b1 EXCEPT ![m.to] = put]
<1>1. /\ m.from # m.to /\ m.from \in Squares /\ m.to \in Squares
      /\ b[m.from] # NO_PIECE /\ color_of(b[m.from]) = mover
      /\ m.type = "PROMOTION" => m.promotion \in KNIGHT..QUEEN
      /\ b \in Boards /\ pc \in Pieces
  BY TypesAreFour DEF Fits, Whole, Boards
<1>2. put \in Pieces
  <2>1. CASE m.type = "PROMOTION"
    <3>1. m.promotion \in KNIGHT..KING
      BY <1>1, <2>1 DEF KNIGHT, QUEEN, KING
    <3>. QED BY <3>1, <2>1, PromotedPieces DEF PutDown
  <2>2. CASE m.type # "PROMOTION"
    BY <2>2, <1>1 DEF PutDown
  <2>. QED BY <2>1, <2>2
<1>3. Whole(q) /\ q.board = b /\ q.sideToMove = mover
  BY DEF WithBoard, Frame
<1>4. After(b, m) = b2
  <2>1. CASE m.type = "PROMOTION"
    BY <2>1, <1>1, TypesAreFour DEF After, PutDown
  <2>2. CASE m.type = "NORMAL"
    BY <2>2, <1>1, TypesAreFour DEF After, PutDown
  <2>. QED BY <2>1, <2>2
<1>5. Rebuilt(r, q, b2, TRUE)
  <2>1. Begun(q, m) = q
    BY TypesAreFour DEF Begun
  <2>2. Rebuilt(q1, q, b1, TRUE)
    BY <1>1, <1>3, RemovePieceIs
  <2>3. r = IF b[m.to] # NO_PIECE THEN swap_piece(q1, m.to, put, TRUE)
            ELSE IF pc = put THEN move_piece(q, m.from, m.to, TRUE)
            ELSE put_piece(q1, put, m.to, TRUE)
    <3>1. /\ m.type # "CASTLING" /\ m.type # "EN_PASSANT"
          /\ Captured(p, m) = b[m.to] /\ r = Moved(p, m, q)
      BY <2>1, TypesAreFour DEF Captured
    <3>. HIDE DEF r
    <3>2. CASE b[m.to] # NO_PIECE
      BY <3>1, <3>2 DEF Moved
    <3>3. CASE b[m.to] = NO_PIECE
      BY <3>1, <3>3 DEF Moved
    <3>. QED BY <3>2, <3>3
  <2>4. b1[m.to] = b[m.to]
    BY <1>1 DEF Boards
  <2>. HIDE DEF r, put, q1, b1
  <2>5. Whole(q1) /\ q1.board = b1
    BY <2>2 DEF Rebuilt, WithBoard
  <2>6. CASE b[m.to] # NO_PIECE
    <3>1. Rebuilt(swap_piece(q1, m.to, put, TRUE), q1, b2, TRUE)
      BY <1>1, <1>2, <2>4, <2>5, <2>6, SwapPieceIs
    <3>. HIDE DEF b2
    <3>. QED BY <2>2, <2>3, <2>6, <3>1, ChainedNoting
  <2>7. CASE b[m.to] = NO_PIECE /\ pc = put
    <3>1. Rebuilt(move_piece(q, m.from, m.to, TRUE), q, b2, TRUE)
      BY <1>1, <1>3, <2>7, MovePieceIs DEF b1
    <3>. QED BY <2>3, <2>7, <3>1
  <2>8. CASE b[m.to] = NO_PIECE /\ pc # put
    <3>1. Rebuilt(put_piece(q1, put, m.to, TRUE), q1, b2, TRUE)
      BY <1>1, <1>2, <2>4, <2>5, <2>8, PutPieceIs
    <3>. HIDE DEF b2
    <3>. QED BY <2>2, <2>3, <2>8, <3>1, ChainedNoting
  <2>. QED BY <2>6, <2>7, <2>8
<1>. HIDE DEF r, b2
<1>. QED BY <1>3, <1>4, <1>5 DEF Rebuilt, WithBoard, Frame, r

\* do_move's board after a capture en passant.
LEMMA PassingAfter ==
    ASSUME NEW p, Whole(p), p.sideToMove \in Colors, NEW m, m.type = "EN_PASSANT",
           Fits(p.board, p.sideToMove, m), NEW q, WithBoard(q, p, p.board)
    PROVE  WithBoard(Moved(p, m, Begun(q, m)), p, After(p.board, m))
<1>. DEFINE mover == p.sideToMove
            b == p.board
            cap == m.to - pawn_push(mover)
            r == Moved(p, m, Begun(q, m))
            q1 == remove_piece(q, cap, TRUE)
            b1 == [b EXCEPT ![cap] = NO_PIECE]
            b2 == [b1 EXCEPT ![m.from] = NO_PIECE, ![m.to] = b[m.from]]
<1>1. /\ m.from # m.to /\ m.from \in Squares /\ m.to \in Squares
      /\ b[m.from] # NO_PIECE /\ color_of(b[m.from]) = mover
      /\ TakesInPassing(b, mover, m) /\ b \in Boards
  BY TypesAreFour DEF Fits, Whole
<1>2. Whole(q) /\ q.board = b /\ q.sideToMove = mover
  BY DEF WithBoard, Frame
<1>3. /\ cap \in Squares /\ b[cap] # NO_PIECE /\ color_of(b[cap]) # mover /\ b[m.to] = NO_PIECE
      /\ make_square(file_of(m.to), rank_of(m.from)) = cap
  BY <1>1, PieceParts, Kinds, Sides DEF TakesInPassing
<1>. HIDE DEF cap
<1>4. cap # m.from /\ cap # m.to
  BY <1>1, <1>3
<1>5. After(b, m) = b2
  <2>1. After(b, m) = [b EXCEPT ![m.from] = NO_PIECE, ![m.to] = b[m.from], ![cap] = NO_PIECE]
    BY <1>3, TypesAreFour DEF After
  <2>. QED BY <2>1, <1>1, <1>3, <1>4 DEF Boards
<1>6. Begun(q, m) = q1 /\ r = move_piece(q1, m.from, m.to, TRUE)
  <2>1. CaptureSquare(mover, m) = cap
    BY DEF CaptureSquare, cap
  <2>. QED BY <2>1, <1>2, TypesAreFour DEF Begun, Moved, Captured, PutDown
<1>. HIDE DEF r
<1>7. Rebuilt(q1, q, b1, TRUE)
  BY <1>2, <1>3, RemovePieceIs
<1>8. b1[m.from] = b[m.from] /\ b1[m.to] = NO_PIECE
  BY <1>1, <1>3, <1>4 DEF Boards
<1>. HIDE DEF q1, b1
<1>9. Whole(q1) /\ q1.board = b1
  BY <1>7 DEF Rebuilt, WithBoard
<1>10. Rebuilt(r, q1, b2, TRUE)
  BY <1>1, <1>6, <1>8, <1>9, MovePieceIs
<1>. HIDE DEF b2
<1>11. Rebuilt(r, q, b2, TRUE)
  BY <1>7, <1>10, ChainedNoting
<1>. QED BY <1>2, <1>5, <1>11 DEF Rebuilt, WithBoard, Frame, r

\* do_move's board is what the rules make of the move.
LEMMA BoardAfter ==
    ASSUME NEW p, Whole(p), p.sideToMove \in Colors, NEW m,
           Fits(p.board, p.sideToMove, m), NEW q, WithBoard(q, p, p.board)
    PROVE  WithBoard(Moved(p, m, Begun(q, m)), p, After(p.board, m))
<1>1. m.type \in {"NORMAL", "PROMOTION", "EN_PASSANT", "CASTLING"}
  BY DEF Fits
<1>. QED BY <1>1, CastlingAfter, OtherAfter, PassingAfter

(* ---- undo_move gives the board back ---- *)

\* A capture taken back, or none.
LEMMA GivenBack ==
    ASSUME NEW r, Whole(r), NEW cap \in Pieces \cup {NO_PIECE}, NEW s \in Squares, r.board[s] = NO_PIECE
    PROVE  Rebuilt(IF cap = NO_PIECE THEN r ELSE put_piece(r, cap, s, FALSE), r, [r.board EXCEPT ![s] = cap], FALSE)
<1>1. CASE cap = NO_PIECE
  <2>1. [r.board EXCEPT ![s] = cap] = r.board
    BY <1>1 DEF Whole, Boards
  <2>. QED BY <1>1, <2>1 DEF Rebuilt, WithBoard, Frame
<1>2. CASE cap # NO_PIECE
  <2>1. cap \in Pieces
    BY <1>2
  <2>. QED BY <1>2, <2>1, PutPieceIs
<1>. QED BY <1>1, <1>2

\* Two changes of the board that note nothing.
LEMMA ChainedQuietly ==
    ASSUME NEW p, NEW q, NEW r, NEW b, NEW c, Rebuilt(q, p, b, FALSE), Rebuilt(r, q, c, FALSE)
    PROVE  Rebuilt(r, p, c, FALSE)
BY DEF Rebuilt, WithBoard, Frame

\* The board before the move.
BoardBack(q, mover, m, cap) ==
    LET back(r) == move_piece(r, m.to, m.from, FALSE)
        given(r) == IF cap = NO_PIECE THEN r ELSE put_piece(r, cap, CaptureSquare(mover, m), FALSE)
    IN  CASE m.type = "CASTLING" -> do_castling(q, mover, m, FALSE)
          [] m.type = "PROMOTION" -> given(back(swap_piece(q, m.to, make_piece(mover, PAWN), FALSE)))
          [] OTHER -> given(back(q))

\* Castling taken back on the board.
LEMMA CastlingUndone ==
    ASSUME NEW b \in Boards, NEW mover \in Colors, NEW m, m.type = "CASTLING", Fits(b, mover, m),
           NEW q, Whole(q), q.board = After(b, m)
    PROVE  Rebuilt(BoardBack(q, mover, m, NO_PIECE), q, b, FALSE)
<1>. DEFINE kk == CastlingKing(mover, m)
            rr == CastlingRook(mover, m)
            K == make_piece(mover, KING)
            R == make_piece(mover, ROOK)
            a == [b EXCEPT ![m.from] = NO_PIECE, ![m.to] = NO_PIECE, ![kk] = K, ![rr] = R]
            b4 == [a EXCEPT ![kk] = NO_PIECE, ![rr] = NO_PIECE, ![m.from] = K, ![m.to] = R]
<1>1. /\ CastlesOn(b, mover, m) /\ m.from # m.to /\ m.from \in Squares /\ m.to \in Squares
      /\ b[m.from] # NO_PIECE /\ color_of(b[m.from]) = mover
  BY TypesAreFour DEF Fits
<1>2. /\ kk # rr /\ kk \in Squares /\ rr \in Squares
      /\ kk = (IF mover = WHITE THEN 0 ELSE 56) + (IF m.to > m.from THEN 6 ELSE 2)
      /\ rr = (IF mover = WHITE THEN 0 ELSE 56) + (IF m.to > m.from THEN 5 ELSE 3)
  BY CastlingSquares
<1>3. After(b, m) = a
  <2>1. After(b, m) =
          LET side6 == m.to > m.from
              home == IF mover = WHITE THEN 0 ELSE 56
              lifted == [b EXCEPT ![m.from] = NO_PIECE, ![m.to] = NO_PIECE]
          IN  [lifted EXCEPT ![home + (IF side6 THEN 6 ELSE 2)] = K, ![home + (IF side6 THEN 5 ELSE 3)] = R]
    BY <1>1 DEF After
  <2>. HIDE DEF kk, rr
  <2>. QED BY <2>1, <1>2
<1>4. /\ b[m.from] = K /\ b[m.to] = R /\ K \in Pieces /\ R \in Pieces /\ K # NO_PIECE /\ R # NO_PIECE
      /\ \A s \in {kk, rr} \ {m.from, m.to} : b[s] = NO_PIECE
  BY <1>1, PieceParts, Kinds DEF CastlesOn
<1>5. a[kk] = K /\ a[rr] = R /\ \A s \in {m.from, m.to} \ {kk, rr} : a[s] = NO_PIECE
  <2>. HIDE DEF kk, rr, K, R
  <2>. QED BY <1>1, <1>2 DEF Boards
<1>6. b4 = b
  <2>. HIDE DEF kk, rr, K, R
  <2>1. \A s \in Squares : b4[s] = b[s]
    <3>1. \A s \in Squares \ {m.from, m.to, kk, rr} : a[s] = b[s] /\ b4[s] = a[s]
      BY DEF Boards
    <3>2. b4[m.from] = K /\ b4[m.to] = R
      BY <1>1 DEF Boards
    <3>3. \A s \in {kk, rr} \ {m.from, m.to} : b4[s] = NO_PIECE
      BY <1>1, <1>2 DEF Boards
    <3>. QED BY <1>4, <3>1, <3>2, <3>3
  <2>. QED BY <2>1 DEF Boards
<1>7. BoardBack(q, mover, m, NO_PIECE) = do_castling(q, mover, m, FALSE)
  BY DEF BoardBack
<1>8. Rebuilt(do_castling(q, mover, m, FALSE), q, b4, FALSE)
  <2>. HIDE DEF kk, rr, a
  <2>1. q.board = a /\ q.board[kk] # NO_PIECE /\ q.board[rr] # NO_PIECE
        /\ \A s \in {m.from, m.to} \ {kk, rr} : q.board[s] = NO_PIECE
    BY <1>3, <1>4, <1>5
  <2>2. Rebuilt(do_castling(q, mover, m, FALSE), q,
                [q.board EXCEPT ![kk] = NO_PIECE, ![rr] = NO_PIECE, ![m.from] = K, ![m.to] = R], FALSE)
    BY <1>1, <1>2, <2>1, CastledIs DEF kk, rr
  <2>. QED BY <2>1, <2>2
<1>. HIDE DEF b4
<1>. QED BY <1>6, <1>7, <1>8

\* A plain move, a capture or a promotion taken back on the board.
LEMMA OtherUndone ==
    ASSUME NEW b \in Boards, NEW mover \in Colors, NEW m, m.type = "NORMAL" \/ m.type = "PROMOTION",
           Fits(b, mover, m),
           NEW q, Whole(q), q.board = After(b, m), NEW cap, cap = b[m.to]
    PROVE  Rebuilt(BoardBack(q, mover, m, cap), q, b, FALSE)
<1>. DEFINE pc == b[m.from]
            a == q.board
            q0 == IF m.type = "PROMOTION" THEN swap_piece(q, m.to, make_piece(mover, PAWN), FALSE) ELSE q
            b0 == [a EXCEPT ![m.to] = pc]
            q1 == move_piece(q0, m.to, m.from, FALSE)
            b1 == [b0 EXCEPT ![m.to] = NO_PIECE, ![m.from] = pc]
            q2 == IF cap = NO_PIECE THEN q1 ELSE put_piece(q1, cap, m.to, FALSE)
            b2 == [b1 EXCEPT ![m.to] = cap]
<1>1. /\ m.from # m.to /\ m.from \in Squares /\ m.to \in Squares /\ pc \in Pieces /\ pc # NO_PIECE
      /\ m.type = "PROMOTION" => m.promotion \in KNIGHT..QUEEN /\ pc = make_piece(mover, PAWN)
      /\ cap \in Pieces \cup {NO_PIECE} /\ NO_PIECE \notin Pieces
  <2>1. m.type = "PROMOTION" => m.promotion \in KNIGHT..QUEEN /\ type_of(pc) = PAWN
    BY TypesAreFour DEF Fits
  <2>2. pc \in Pieces /\ color_of(pc) = mover /\ m.from # m.to /\ m.from \in Squares /\ m.to \in Squares
    BY DEF Fits, Boards
  <2>3. cap \in Pieces \cup {NO_PIECE}
    BY <2>2 DEF Boards
  <2>. HIDE DEF pc
  <2>. QED BY <2>1, <2>2, <2>3, PieceParts
<1>2. BoardBack(q, mover, m, cap) = q2
  BY TypesAreFour DEF BoardBack, CaptureSquare
<1>3. /\ a = [b EXCEPT ![m.from] = NO_PIECE, ![m.to] = a[m.to]] /\ a[m.to] \in Pieces
      /\ (m.type = "NORMAL" => a[m.to] = pc)
  <2>1. CASE m.type = "PROMOTION"
    <3>1. m.promotion \in KNIGHT..KING
      BY <1>1, <2>1 DEF KNIGHT, QUEEN, KING
    <3>2. color_of(b[m.from]) = mover
      BY DEF Fits
    <3>3. a = [b EXCEPT ![m.from] = NO_PIECE, ![m.to] = make_piece(mover, m.promotion)]
      BY <2>1, <3>2, TypesAreFour DEF After
    <3>4. make_piece(mover, m.promotion) \in Pieces
      BY <3>1, PromotedPieces
    <3>. QED BY <1>1, <2>1, <3>3, <3>4, TypesAreFour DEF Boards
  <2>2. CASE m.type = "NORMAL"
    <3>1. a = [b EXCEPT ![m.from] = NO_PIECE, ![m.to] = b[m.from]]
      BY <2>2, TypesAreFour DEF After
    <3>. QED BY <1>1, <3>1 DEF Boards
  <2>. QED BY <2>1, <2>2
<1>. HIDE DEF a
<1>4. Rebuilt(q0, q, b0, FALSE)
  <2>1. CASE m.type = "PROMOTION"
    <3>1. a[m.to] # NO_PIECE
      BY <1>1, <1>3
    <3>. QED BY <1>1, <2>1, <3>1, SwapPieceIs DEF a
  <2>2. CASE m.type = "NORMAL"
    <3>1. b0 = a
      BY <1>1, <1>3, <2>2 DEF Boards
    <3>2. q0 = q
      BY <2>2, TypesAreFour
    <3>. HIDE DEF q0, b0
    <3>. QED BY <3>1, <3>2 DEF Rebuilt, WithBoard, Frame, a
  <2>. QED BY <2>1, <2>2
<1>5. b0 \in Boards /\ b0[m.to] = pc /\ b0[m.from] = NO_PIECE /\ \A s \in Squares \ {m.from, m.to} : b0[s] = b[s]
  BY <1>1, <1>3 DEF Boards
<1>. HIDE DEF q0, b0, pc
<1>6. Whole(q0) /\ q0.board = b0
  BY <1>4 DEF Rebuilt, WithBoard
<1>7. Rebuilt(q1, q0, b1, FALSE)
  BY <1>1, <1>5, <1>6, MovePieceIs
<1>8. b1 \in Boards /\ b1[m.to] = NO_PIECE /\ b1[m.from] = pc /\ \A s \in Squares \ {m.from, m.to} : b1[s] = b[s]
  BY <1>1, <1>5 DEF Boards
<1>. HIDE DEF q1, b1
<1>9. Whole(q1) /\ q1.board = b1
  BY <1>7 DEF Rebuilt, WithBoard
<1>10. b2 = b
  <2>1. b2[m.to] = b[m.to] /\ b2[m.from] = b[m.from] /\ \A s \in Squares \ {m.from, m.to} : b2[s] = b[s]
    BY <1>1, <1>8 DEF Boards, pc
  <2>. QED BY <2>1, <1>8 DEF Boards
<1>11. Rebuilt(q2, q1, b2, FALSE)
  <2>. QED BY <1>1, <1>8, <1>9, GivenBack
<1>. HIDE DEF q2, b2
<1>12. Rebuilt(q2, q, b2, FALSE)
  BY <1>4, <1>7, <1>11, ChainedQuietly
<1>. QED BY <1>2, <1>10, <1>12

\* A capture en passant taken back on the board.
LEMMA PassingUndone ==
    ASSUME NEW b \in Boards, NEW mover \in Colors, NEW m, m.type = "EN_PASSANT", Fits(b, mover, m),
           NEW q, Whole(q), q.board = After(b, m)
    PROVE  Rebuilt(BoardBack(q, mover, m, make_piece(Opp(mover), PAWN)), q, b, FALSE)
<1>. DEFINE cap == make_piece(Opp(mover), PAWN)
            sq == m.to - pawn_push(mover)
            pc == b[m.from]
            a == q.board
            q1 == move_piece(q, m.to, m.from, FALSE)
            b1 == [a EXCEPT ![m.to] = NO_PIECE, ![m.from] = pc]
            q2 == IF cap = NO_PIECE THEN q1 ELSE put_piece(q1, cap, sq, FALSE)
            b2 == [b1 EXCEPT ![sq] = cap]
<1>1. /\ m.from # m.to /\ m.from \in Squares /\ m.to \in Squares /\ pc \in Pieces /\ pc # NO_PIECE
      /\ cap \in Pieces \cup {NO_PIECE} /\ sq \in Squares /\ b[sq] = cap /\ b[m.to] = NO_PIECE
      /\ make_square(file_of(m.to), rank_of(m.from)) = sq /\ sq # m.to /\ sq # m.from
  <2>1. TakesInPassing(b, mover, m) /\ pc \in Pieces /\ color_of(pc) = mover
        /\ m.from # m.to /\ m.from \in Squares /\ m.to \in Squares /\ pc # NO_PIECE
    BY TypesAreFour DEF Fits, Boards
  <2>2. cap \in Pieces /\ color_of(cap) # mover /\ NO_PIECE \notin Pieces
    BY PieceParts, Kinds, Sides
  <2>3. sq \in Squares /\ b[sq] = cap /\ b[m.to] = NO_PIECE /\ make_square(file_of(m.to), rank_of(m.from)) = sq
    BY <2>1 DEF TakesInPassing
  <2>. HIDE DEF cap, sq, pc
  <2>4. sq # m.to /\ sq # m.from
    BY <2>1, <2>2, <2>3 DEF pc
  <2>. QED BY <2>1, <2>2, <2>3, <2>4
<1>2. BoardBack(q, mover, m, cap) = q2
  BY TypesAreFour DEF BoardBack, CaptureSquare
<1>. HIDE DEF sq, cap
<1>3. a = [b EXCEPT ![m.from] = NO_PIECE, ![m.to] = pc, ![sq] = NO_PIECE]
  BY <1>1, TypesAreFour DEF After
<1>. HIDE DEF pc, a
<1>4. a[m.to] = pc /\ a[m.from] = NO_PIECE /\ a[sq] = NO_PIECE /\ a \in Boards
      /\ \A s \in Squares \ {m.from, m.to, sq} : a[s] = b[s]
  BY <1>1, <1>3 DEF Boards
<1>5. Rebuilt(q1, q, b1, FALSE)
  BY <1>1, <1>4, MovePieceIs DEF a
<1>6. b1[sq] = NO_PIECE /\ b1 \in Boards /\ b1[m.from] = pc /\ b1[m.to] = NO_PIECE
      /\ \A s \in Squares \ {m.from, m.to, sq} : b1[s] = b[s]
  BY <1>1, <1>4 DEF Boards
<1>. HIDE DEF q1, b1
<1>7. Whole(q1) /\ q1.board = b1
  BY <1>5 DEF Rebuilt, WithBoard
<1>8. b2 = b
  <2>1. \A s \in Squares : b2[s] = b[s]
    BY <1>1, <1>6 DEF Boards, pc
  <2>. QED BY <2>1, <1>6 DEF Boards
<1>9. Rebuilt(q2, q1, b2, FALSE)
  BY <1>1, <1>6, <1>7, GivenBack
<1>. HIDE DEF q2, b2
<1>10. Rebuilt(q2, q, b2, FALSE)
  BY <1>5, <1>9, ChainedQuietly
<1>. QED BY <1>2, <1>8, <1>10 DEF cap

(* ---- The state that goes with a position ---- *)

\* The fields of a StateInfo.
StateFields == {"materialKey", "pawnKey", "minorPieceKey", "nonPawnKey", "nonPawnMaterial", "castlingRights",
                "rule50", "pliesFromNull", "epSquare", "key", "checkersBB", "blockersForKing", "pinners",
                "checkSquares", "capturedPiece", "repetition"}
IsState(st) == DOMAIN st = StateFields
\* q is p with another StateInfo.
WithSt(q, p) ==
    /\ IsPosition(q) /\ q.board = p.board /\ q.byTypeBB = p.byTypeBB /\ q.byColorBB = p.byColorBB
    /\ q.pieceCount = p.pieceCount /\ q.castlingRightsMask = p.castlingRightsMask
    /\ q.castlingRookSquare = p.castlingRookSquare /\ q.castlingPath = p.castlingPath
    /\ q.gamePly = p.gamePly /\ q.sideToMove = p.sideToMove /\ q.chess960 = p.chess960
    /\ q.prev = p.prev /\ q.dts = p.dts
\* What set_check_info does not compute.
KeptInfo(st, old) ==
    /\ st.castlingRights = old.castlingRights /\ st.epSquare = old.epSquare
    /\ st.checkersBB = old.checkersBB /\ st.capturedPiece = old.capturedPiece

\* Another StateInfo leaves the rest of the position.
LEMMA StIs ==
    ASSUME NEW p, IsPosition(p), NEW st
    PROVE  WithSt([p EXCEPT !.st = st], p) /\ [p EXCEPT !.st = st].st = st
<1>1. IsPosition([p EXCEPT !.st = st])
  BY DEF IsPosition
<1>. QED BY <1>1 DEF IsPosition, Fields, WithSt

\* What set_check_info writes, whatever it has found.
LEMMA CheckInfoIs ==
    ASSUME NEW p, IsPosition(p), IsState(p.st), NEW ksq, NEW info
    PROVE  LET q == WithCheckInfo(p, ksq, info)
           IN  /\ WithSt(q, p) /\ IsState(q.st) /\ KeptInfo(q.st, p.st)
               /\ q.st.pinners = [c \in Colors |-> info[Opp(c)].pinners]
<1>. DEFINE q == WithCheckInfo(p, ksq, info)
            a == [c \in Colors |-> info[c].blockers]
            b == [c \in Colors |-> info[Opp(c)].pinners]
            d == [pt \in PieceTypes |->
                     CASE pt = PAWN -> PawnAttacks[Opp(p.sideToMove)][ksq]
                       [] pt = KING -> {}
                       [] OTHER -> attacks_bb(pt, ksq, pieces(p))]
            st == [p.st EXCEPT !.blockersForKing = a, !.pinners = b, !.checkSquares = d]
<1>1. q = [p EXCEPT !.st.blockersForKing = a, !.st.pinners = b, !.st.checkSquares = d]
  BY DEF WithCheckInfo
<1>. HIDE DEF q, a, b, d
<1>2. WithSt(q, p)
  BY <1>1 DEF WithSt, IsPosition, Fields
<1>3. q.st = st
  BY <1>1 DEF IsPosition, Fields
<1>4. IsState(st)
  BY DEF IsState
<1>5. KeptInfo(st, p.st) /\ st.pinners = b
  BY DEF IsState, StateFields, KeptInfo
<1>. HIDE DEF st
<1>. QED BY <1>2, <1>3, <1>4, <1>5 DEF q, b

\* The pinners found stand on the board.
LEMMA SetCheckInfoIs ==
    ASSUME NEW p, Whole(p), IsState(p.st)
    PROVE  LET q == set_check_info(p)
           IN  WithSt(q, p) /\ IsState(q.st) /\ KeptInfo(q.st, p.st) /\ PinnersStand(q)
<1>. DEFINE info == [c \in Colors |-> update_slider_blockers(p, c)]
            ksq == king(p, Opp(p.sideToMove))
            q == WithCheckInfo(p, ksq, info)
<1>1. set_check_info(p) = q
  BY DEF set_check_info
<1>2. ASSUME NEW c \in Colors
      PROVE  info[c].pinners \subseteq pieces(p)
  <2>. DEFINE snipers == ((PseudoAttacks[ROOK][king(p, c)] \cap by(p, {QUEEN, ROOK}))
                            \cup (PseudoAttacks[BISHOP][king(p, c)] \cap by(p, {QUEEN, BISHOP})))
                           \cap p.byColorBB[Opp(c)]
  <2>1. info[c] = BlockersOf(p, c, king(p, c), snipers)
    BY DEF update_slider_blockers
  <2>2. snipers \subseteq pieces(p)
    <3>1. p.byColorBB[Opp(c)] \subseteq pieces(p)
      BY Sides, ALL_PIECES \in {ALL_PIECES} \cup PieceTypes DEF Whole, ByColor, ByType, pieces
    <3>. QED BY <3>1
  <2>. HIDE DEF snipers, info
  <2>3. BlockersOf(p, c, king(p, c), snipers).pinners \subseteq snipers
    BY DEF BlockersOf
  <2>. QED BY <2>1, <2>2, <2>3
<1>. HIDE DEF info, ksq
<1>3. WithSt(q, p) /\ IsState(q.st) /\ KeptInfo(q.st, p.st) /\ q.st.pinners = [c \in Colors |-> info[Opp(c)].pinners]
  BY CheckInfoIs DEF Whole
<1>. HIDE DEF q
<1>4. pieces(q) = pieces(p)
  BY <1>3 DEF WithSt, pieces
<1>5. PinnersStand(q)
  BY <1>2, <1>3, <1>4, Sides DEF PinnersStand
<1>. QED BY <1>1, <1>3, <1>5

\* The castling rights left after a move.
RightsAfter(p, m) ==
    p.st.castlingRights \ (p.castlingRightsMask[m.from] \cup p.castlingRightsMask[MovedTo(p.sideToMove, m)])

\* The StateInfo do_move begins with: the rights and the en passant square.
LEMMA NewStateIs ==
    ASSUME NEW p, IsState(p.st), NEW m, NEW q, NEW ep
    PROVE  LET st == NewState(p, m, q, ep)
           IN  /\ IsState(st) /\ st.castlingRights = RightsAfter(p, m)
               /\ st.epSquare = ep /\ st.capturedPiece = Captured(p, m)
<1>. DEFINE st == NewState(p, m, q, ep)
<1>1. DOMAIN st = StateFields
  BY DEF NewState, IsState
<1>2. st.castlingRights = RightsAfter(p, m)
  BY DEF NewState, IsState, StateFields, RightsAfter
<1>3. st.epSquare = ep
  BY DEF NewState, IsState, StateFields
<1>4. st.capturedPiece = Captured(p, m)
  BY DEF NewState, IsState, StateFields
<1>. HIDE DEF st
<1>. QED BY <1>1, <1>2, <1>3, <1>4 DEF IsState, st

\* t is what Passed makes of the changed board r of p.
PassedOn(t, p, r, st) ==
    /\ Whole(t) /\ t.board = r.board /\ IsState(t.st) /\ PinnersStand(t)
    /\ t.castlingRightsMask = r.castlingRightsMask
    /\ t.castlingRookSquare = r.castlingRookSquare /\ t.castlingPath = r.castlingPath
    /\ t.chess960 = r.chess960 /\ t.dts = <<>>
    /\ t.gamePly = p.gamePly + 1 /\ t.sideToMove = Opp(p.sideToMove) /\ t.prev = Append(p.prev, p.st)
    /\ t.st.castlingRights = st.castlingRights /\ t.st.epSquare = st.epSquare
    /\ t.st.capturedPiece = st.capturedPiece
    /\ \/ t.st.checkersBB = {}
       \/ t.st.checkersBB = attackers_to(t, king(t, t.sideToMove), pieces(t)) \cap t.byColorBB[p.sideToMove]

\* The other side is to move.
LEMMA PassedIs ==
    ASSUME NEW p, NEW r, Whole(r), NEW st, IsState(st), NEW g \in BOOLEAN, NEW mover, mover = p.sideToMove
    PROVE  PassedOn(Passed(p, r, st, g), p, r, st)
<1>. DEFINE checkers == IF g THEN attackers_to(r, king(r, Opp(mover)), pieces(r)) \cap r.byColorBB[mover] ELSE {}
            st1 == [st EXCEPT !.checkersBB = checkers]
            prev == Append(p.prev, p.st)
            ply == p.gamePly + 1
            u == [r EXCEPT !.st = st1, !.prev = prev, !.gamePly = ply, !.sideToMove = Opp(mover), !.dts = <<>>]
            t == set_check_info(u)
<1>1. Passed(p, r, st, g) = t
  BY DEF Passed
<1>. HIDE DEF checkers
<1>2. /\ IsState(st1) /\ st1.checkersBB = checkers
      /\ st1.castlingRights = st.castlingRights /\ st1.epSquare = st.epSquare /\ st1.capturedPiece = st.capturedPiece
  BY DEF IsState, StateFields
<1>. HIDE DEF st1, prev, ply
<1>3. /\ u.castlingRightsMask = r.castlingRightsMask
      /\ u.castlingRookSquare = r.castlingRookSquare /\ u.castlingPath = r.castlingPath
      /\ u.chess960 = r.chess960 /\ u.dts = <<>> /\ u.gamePly = ply /\ u.sideToMove = Opp(mover)
      /\ u.prev = prev /\ u.st = st1
  BY DEF Whole, IsPosition, Fields
<1>4. /\ u.board = r.board /\ u.byTypeBB = r.byTypeBB /\ u.byColorBB = r.byColorBB /\ u.pieceCount = r.pieceCount
  BY DEF Whole, IsPosition, Fields
<1>5. IsPosition(u)
  BY DEF Whole, IsPosition
<1>. HIDE DEF u
<1>6. Whole(u)
  BY <1>4, <1>5 DEF Whole
<1>7. WithSt(t, u) /\ IsState(t.st) /\ KeptInfo(t.st, st1) /\ PinnersStand(t)
  BY <1>2, <1>3, <1>6, SetCheckInfoIs
<1>. HIDE DEF t
<1>8. Whole(t) /\ t.board = r.board /\ t.byTypeBB = r.byTypeBB /\ t.byColorBB = r.byColorBB
  BY <1>4, <1>6, <1>7 DEF Whole, WithSt
<1>9. attackers_to(t, king(t, Opp(mover)), pieces(t)) \cap t.byColorBB[mover] =
      attackers_to(r, king(r, Opp(mover)), pieces(r)) \cap r.byColorBB[mover]
  BY <1>8 DEF attackers_to, king, pieces, of, by
<1>10. t.st.checkersBB = checkers
  BY <1>2, <1>7 DEF KeptInfo
<1>11. /\ t.castlingRightsMask = r.castlingRightsMask
       /\ t.castlingRookSquare = r.castlingRookSquare /\ t.castlingPath = r.castlingPath
       /\ t.chess960 = r.chess960 /\ t.dts = <<>> /\ t.gamePly = ply /\ t.sideToMove = Opp(mover)
       /\ t.prev = prev
  BY <1>3, <1>7 DEF WithSt
<1>12. t.st.castlingRights = st.castlingRights /\ t.st.epSquare = st.epSquare /\ t.st.capturedPiece = st.capturedPiece
  BY <1>2, <1>7 DEF KeptInfo
<1>13. \/ checkers = {}
       \/ checkers = attackers_to(t, king(t, Opp(mover)), pieces(t)) \cap t.byColorBB[mover]
  BY <1>9 DEF checkers
<1>. QED BY <1>1, <1>7, <1>8, <1>10, <1>11, <1>12, <1>13 DEF prev, ply, PassedOn

(* ---- do_move and undo_move as wholes ---- *)

\* A position with its dirty threats forgotten, the move begun.
Begins(p, m) == Begun([p EXCEPT !.dts = <<>>], m)
\* The en passant square do_move leaves.
EpAfter(p, m) ==
    IF type_of(p.board[m.from]) = PAWN
    THEN DoublePushSquare(Begins(p, m), p.st, p.sideToMove, m.from, m.to) ELSE SQ_NONE
\* t is what do_move makes of p, up to the keys.
Follows(t, p, m) ==
    /\ Whole(t) /\ t.board = After(p.board, m) /\ IsState(t.st) /\ PinnersStand(t)
    /\ t.castlingRightsMask = p.castlingRightsMask
    /\ t.castlingRookSquare = p.castlingRookSquare /\ t.castlingPath = p.castlingPath
    /\ t.chess960 = p.chess960 /\ t.dts = <<>>
    /\ t.gamePly = p.gamePly + 1 /\ t.sideToMove = Opp(p.sideToMove) /\ t.prev = Append(p.prev, p.st)
    /\ t.st.castlingRights = RightsAfter(p, m) /\ t.st.epSquare = EpAfter(p, m)
    /\ t.st.capturedPiece = Captured(p, m)
    /\ \/ t.st.checkersBB = {}
       \/ t.st.checkersBB = attackers_to(t, king(t, t.sideToMove), pieces(t)) \cap t.byColorBB[p.sideToMove]

\* The repetition distance, written last, disturbs none of this.
LEMMA RepetitionSet ==
    ASSUME NEW p, NEW m, NEW t, Follows(t, p, m), NEW n
    PROVE  Follows([t EXCEPT !.st.repetition = n], p, m)
<1>. DEFINE u == [t EXCEPT !.st.repetition = n]
            st == [t.st EXCEPT !.repetition = n]
<1>0. IsPosition(t) /\ IsState(t.st)
  BY DEF Follows, Whole
<1>1. WithSt(u, t)
  BY <1>0 DEF WithSt, IsPosition, Fields
<1>2. u.st = st
  BY <1>0 DEF IsPosition, Fields
<1>3. IsState(st) /\ KeptInfo(st, t.st) /\ st.pinners = t.st.pinners
  BY <1>0 DEF IsState, StateFields, KeptInfo
<1>. HIDE DEF st, u
<1>4. /\ Whole(u) /\ u.board = t.board /\ u.byTypeBB = t.byTypeBB /\ u.byColorBB = t.byColorBB
      /\ u.sideToMove = t.sideToMove
  BY <1>1 DEF Whole, WithSt, Follows
<1>5. /\ pieces(u) = pieces(t)
      /\ attackers_to(u, king(u, u.sideToMove), pieces(u)) = attackers_to(t, king(t, t.sideToMove), pieces(t))
  BY <1>4 DEF attackers_to, king, pieces, of, by
<1>6. PinnersStand(u)
  BY <1>2, <1>3, <1>5 DEF PinnersStand, Follows
<1>7. u.st.checkersBB = t.st.checkersBB /\ u.st.castlingRights = t.st.castlingRights
      /\ u.st.epSquare = t.st.epSquare /\ u.st.capturedPiece = t.st.capturedPiece /\ IsState(u.st)
  BY <1>2, <1>3 DEF KeptInfo
<1>. QED BY <1>1, <1>4, <1>5, <1>6, <1>7 DEF Follows, WithSt, u

\* do_move makes the position the rules make, with all four forms of the board,
\* the rights, the en passant square and the chain of StateInfo in their places.
LEMMA DoMoveIs ==
    ASSUME NEW p, Whole(p), IsState(p.st), p.sideToMove \in Colors, NEW m,
           Fits(p.board, p.sideToMove, m), NEW g \in BOOLEAN
    PROVE  Follows(do_move(p, m, g).pos, p, m)
<1>. DEFINE mover == p.sideToMove
            q0 == [p EXCEPT !.dts = <<>>]
            q == Begun(q0, m)
            r == Moved(p, m, q)
            ep == EpAfter(p, m)
            st == NewState(p, m, q, ep)
            t == Passed(p, r, st, g)
<1>1. do_move(p, m, g).pos = [t EXCEPT !.st.repetition = Repetition(t)]
  <2>1. do_move(p, m, g) = Recorded(p, m, r.dts, t)
    BY DEF do_move, EpAfter, Begins
  <2>. HIDE DEF t, r
  <2>2. Recorded(p, m, r.dts, t).pos = [t EXCEPT !.st.repetition = Repetition(t)]
    BY DEF Recorded
  <2>. QED BY <2>1, <2>2
<1>2. WithBoard(q0, p, p.board)
  BY FieldsKept
<1>. HIDE DEF q0
<1>3. WithBoard(r, p, After(p.board, m))
  BY <1>2, BoardAfter
<1>. HIDE DEF r, q, ep
<1>4. /\ IsState(st) /\ st.castlingRights = RightsAfter(p, m)
      /\ st.epSquare = ep /\ st.capturedPiece = Captured(p, m)
  BY NewStateIs
<1>. HIDE DEF st
<1>5. Whole(r)
  BY <1>3 DEF WithBoard
<1>6. PassedOn(t, p, r, st)
  BY <1>4, <1>5, PassedIs
<1>. HIDE DEF t
<1>7. Follows(t, p, m)
  BY <1>3, <1>4, <1>6 DEF Follows, WithBoard, Frame, ep, PassedOn
<1>. QED BY <1>1, <1>7, RepetitionSet

\* Two positions with the same fields are the same.
LEMMA SamePosition ==
    ASSUME NEW p, NEW q, IsPosition(p), IsPosition(q),
           p.board = q.board, p.byTypeBB = q.byTypeBB, p.byColorBB = q.byColorBB,
           p.pieceCount = q.pieceCount, p.castlingRightsMask = q.castlingRightsMask,
           p.castlingRookSquare = q.castlingRookSquare, p.castlingPath = q.castlingPath,
           p.gamePly = q.gamePly, p.sideToMove = q.sideToMove, p.chess960 = q.chess960,
           p.prev = q.prev, p.dts = q.dts, p.st = q.st
    PROVE  p = q
<1>1. \A x \in Fields : p[x] = q[x]
  BY DEF Fields
<1>. QED BY <1>1 DEF IsPosition

\* What was appended to a sequence last is taken off first.
LEMMA SequenceEnds ==
    ASSUME NEW S, NEW s \in Seq(S), NEW e
    PROVE  Last(Append(s, e)) = e /\ Front(Append(s, e)) = s
<1>. DEFINE T == S \cup {e}
            t == Append(s, e)
<1>1. s \in Seq(T) /\ e \in T
  BY SeqMonotonic
<1>2. /\ t \in Seq(T) /\ Len(t) = Len(s) + 1 /\ t[Len(t)] = e
      /\ \A i \in 1..Len(s) : t[i] = s[i]
      /\ Len(s) \in Nat
  BY <1>1, AppendProperties, LenProperties
<1>3. Last(t) = e
  BY <1>2 DEF Last
<1>4. Front(t) = s
  <2>1. Front(t) = SubSeq(t, 1, Len(s))
    BY <1>2 DEF Front
  <2>2. Front(t) = [i \in 1..Len(s) |-> t[i]]
    BY <1>2, <2>1
  <2>3. s = [i \in 1..Len(s) |-> s[i]]
    BY <1>1, LenProperties
  <2>. QED BY <1>2, <2>2, <2>3
<1>. QED BY <1>3, <1>4

\* The board is given back, whatever the type of the move.
LEMMA MoveUndone ==
    ASSUME NEW b \in Boards, NEW mover \in Colors, NEW m, Fits(b, mover, m),
           NEW q, Whole(q), q.board = After(b, m), NEW cap,
           IF m.type = "CASTLING" THEN cap = NO_PIECE
           ELSE IF m.type = "EN_PASSANT" THEN cap = make_piece(Opp(mover), PAWN) ELSE cap = b[m.to]
    PROVE  Rebuilt(BoardBack(q, mover, m, cap), q, b, FALSE)
<1>1. CASE m.type = "CASTLING"
  BY <1>1, CastlingUndone
<1>2. CASE m.type = "EN_PASSANT"
  BY <1>2, PassingUndone
<1>3. CASE m.type = "NORMAL" \/ m.type = "PROMOTION"
  <2>1. cap = b[m.to]
    BY <1>3, TypesAreFour
  <2>. QED BY <1>3, <2>1, OtherUndone
<1>. QED BY <1>1, <1>2, <1>3 DEF Fits

\* Taking a move back restores every field.
LEMMA UndoMoveIs ==
    ASSUME NEW p, Whole(p), p.sideToMove \in Colors, p.gamePly \in Int, NEW S, p.prev \in Seq(S),
           NEW m, Fits(p.board, p.sideToMove, m), NEW t, Follows(t, p, m)
    PROVE  undo_move(t, m) = [p EXCEPT !.dts = <<>>]
<1>. DEFINE mover == p.sideToMove
            b == p.board
            q == [t EXCEPT !.sideToMove = mover]
            cap == Captured(p, m)
            r == BoardBack(q, mover, m, cap)
            u == [r EXCEPT !.st = p.st, !.prev = p.prev, !.gamePly = p.gamePly]
            v == [p EXCEPT !.dts = <<>>]
<1>1. /\ Whole(t) /\ t.board = After(b, m) /\ mover \in Colors /\ b \in Boards
      /\ Opp(t.sideToMove) = mover /\ Last(t.prev) = p.st /\ Front(t.prev) = p.prev /\ t.gamePly - 1 = p.gamePly
      /\ t.st.capturedPiece = cap /\ t.dts = <<>>
  BY Sides, SequenceEnds DEF Follows, Whole
<1>2. undo_move(t, m) = u
  BY <1>1 DEF undo_move, BoardBack
<1>3. /\ Whole(q) /\ q.board = After(b, m) /\ q.sideToMove = mover /\ q.dts = <<>>
      /\ q.castlingRightsMask = p.castlingRightsMask
      /\ q.castlingRookSquare = p.castlingRookSquare /\ q.castlingPath = p.castlingPath
      /\ q.chess960 = p.chess960
  <2>1. IsPosition(q)
    BY <1>1 DEF Whole, IsPosition
  <2>2. /\ q.board = t.board /\ q.byTypeBB = t.byTypeBB /\ q.byColorBB = t.byColorBB /\ q.pieceCount = t.pieceCount
        /\ q.sideToMove = mover /\ q.dts = <<>>
        /\ q.castlingRightsMask = t.castlingRightsMask
        /\ q.castlingRookSquare = t.castlingRookSquare /\ q.castlingPath = t.castlingPath
        /\ q.chess960 = t.chess960
    BY <1>1 DEF Whole, IsPosition, Fields
  <2>. HIDE DEF q
  <2>. QED BY <1>1, <2>1, <2>2 DEF Follows, Whole
<1>. HIDE DEF q
<1>4. Rebuilt(r, q, b, FALSE)
  <2>1. IF m.type = "CASTLING" THEN cap = NO_PIECE
        ELSE IF m.type = "EN_PASSANT" THEN cap = make_piece(Opp(mover), PAWN) ELSE cap = b[m.to]
    BY DEF Captured
  <2>2. Fits(b, mover, m)
    OBVIOUS
  <2>. HIDE DEF b, mover, cap
  <2>. QED BY <1>1, <1>3, <2>1, <2>2, MoveUndone
<1>. HIDE DEF r
<1>5. /\ Whole(r) /\ r.board = b /\ r.dts = <<>> /\ r.sideToMove = mover
      /\ r.castlingRightsMask = p.castlingRightsMask
      /\ r.castlingRookSquare = p.castlingRookSquare /\ r.castlingPath = p.castlingPath
      /\ r.chess960 = p.chess960
  BY <1>3, <1>4 DEF Rebuilt, WithBoard, Frame
<1>6. IsPosition(u)
  BY <1>5 DEF Whole, IsPosition
<1>7. /\ u.board = b /\ u.byTypeBB = r.byTypeBB /\ u.byColorBB = r.byColorBB /\ u.pieceCount = r.pieceCount
      /\ u.dts = <<>> /\ u.sideToMove = mover
      /\ u.castlingRightsMask = p.castlingRightsMask
      /\ u.castlingRookSquare = p.castlingRookSquare /\ u.castlingPath = p.castlingPath
      /\ u.chess960 = p.chess960 /\ u.st = p.st /\ u.prev = p.prev /\ u.gamePly = p.gamePly
  BY <1>5 DEF Whole, IsPosition, Fields
<1>8. WithBoard(v, p, b) /\ v.dts = <<>>
  BY FieldsKept
<1>. HIDE DEF u, v
<1>9. /\ IsPosition(v) /\ v.byTypeBB = r.byTypeBB /\ v.byColorBB = r.byColorBB
      /\ v.pieceCount = r.pieceCount /\ v.board = b
  BY <1>5, <1>8 DEF WithBoard, Whole
<1>10. u = v
  BY <1>6, <1>7, <1>8, <1>9, SamePosition DEF WithBoard, Frame
<1>. QED BY <1>2, <1>10 DEF v

(* ---- What makes a position sound ---- *)

\* No color has two kings.
OneKing(b) == \A c \in Colors, s, t \in Squares :
    b[s] = make_piece(c, KING) /\ b[t] = make_piece(c, KING) => s = t
\* Color c has a king.
Stands(p, c) == of(p, c, {KING}) # {}
\* The king on k may castle with the rook of the right cr: both stand there, what
\* has to be empty is in the right's path, and a move of either loses the right.
CastlesFrom(p, c, cr, k) ==
    /\ p.board[k] = make_piece(c, KING)
    /\ p.castlingRookSquare[cr] \in Squares /\ p.board[p.castlingRookSquare[cr]] = make_piece(c, ROOK)
    /\ LET m == MoveOf(k, p.castlingRookSquare[cr], "CASTLING")
       IN  {CastlingKing(c, m), CastlingRook(c, m)} \ {m.from, m.to} \subseteq p.castlingPath[cr]
    /\ cr \in p.castlingRightsMask[k] /\ cr \in p.castlingRightsMask[p.castlingRookSquare[cr]]
\* Every right left belongs to such a king and rook.
CastlingKept(p) ==
    \A c \in Colors : \A cr \in AnyCastling(c) \cap p.st.castlingRights :
      \E k \in Squares : CastlesFrom(p, c, cr, k)
\* Behind the en passant square stands the pawn that has passed over it.
PassingKept(p) ==
    p.st.epSquare # SQ_NONE =>
      /\ p.st.epSquare \in Squares /\ p.board[p.st.epSquare] = NO_PIECE
      /\ p.st.epSquare - pawn_push(p.sideToMove) \in Squares
      /\ p.board[p.st.epSquare - pawn_push(p.sideToMove)] = make_piece(Opp(p.sideToMove), PAWN)
\* The checkers, if any, are the attackers of the king.
CheckersKept(p) ==
    \/ p.st.checkersBB = {}
    \/ p.st.checkersBB = attackers_to(p, king(p, p.sideToMove), pieces(p)) \cap p.byColorBB[Opp(p.sideToMove)]
\* What do_move and undo_move rest on.
Sound(p) ==
    /\ Whole(p) /\ IsState(p.st) /\ PinnersStand(p) /\ p.sideToMove \in Colors /\ p.gamePly \in Int
    /\ p.dts = <<>> /\ \E S : p.prev \in Seq(S)
    /\ OneKing(p.board) /\ CastlingKept(p) /\ PassingKept(p) /\ CheckersKept(p)

\* A whole position has type and color boards that agree with its board.
LEMMA WholeAgrees == ASSUME NEW p, Whole(p) PROVE BoardsAgree(p)
BY DEF Whole, BoardsAgree, Boards, ByType, ByColor

\* A king that stands is found, and is the only one of its color.
LEMMA KingIs ==
    ASSUME NEW p, Whole(p), NEW c \in Colors, Stands(p, c)
    PROVE  /\ king(p, c) \in Squares /\ p.board[king(p, c)] = make_piece(c, KING)
           /\ OneKing(p.board) => \A k \in Squares : p.board[k] = make_piece(c, KING) => k = king(p, c)
<1>. DEFINE T == of(p, c, {KING})
<1>1. T = {s \in Squares : p.board[s] # NO_PIECE /\ color_of(p.board[s]) = c /\ type_of(p.board[s]) = KING}
  BY WholeAgrees, Men, Kinds DEF of, by
<1>2. T \subseteq Nat /\ T # {}
  BY <1>1 DEF Squares, Stands
<1>3. king(p, c) \in T
  <2>. HIDE DEF T
  <2>1. Min(T) \in T
    BY <1>2, LeastIsIn
  <2>. QED BY <2>1 DEF king, lsb, T
<1>4. \A s \in T : p.board[s] = make_piece(c, KING)
  BY <1>1, PieceParts DEF Whole, Boards
<1>. QED BY <1>1, <1>3, <1>4 DEF OneKing

\* Squares no man of one's own stands on.
Enterable(p) == {s \in Squares : p.board[s] # NO_PIECE => color_of(p.board[s]) = Opp(p.sideToMove)}

\* Checkers are men of the opponent, and between the king and the first of them
\* no man of one's own stands: an evasion may block or take there.
LEMMA CheckersAre ==
    ASSUME NEW p, Sound(p), Stands(p, p.sideToMove), p.st.checkersBB # {}
    PROVE  /\ p.st.checkersBB \subseteq p.byColorBB[Opp(p.sideToMove)]
           /\ BetweenBB[king(p, p.sideToMove)][lsb(p.st.checkersBB)] \subseteq Enterable(p)
<1>. DEFINE c == p.sideToMove
            ksq == king(p, c)
            C == p.st.checkersBB
            q == lsb(C)
<1>1. /\ c \in Colors /\ Whole(p) /\ ksq \in Squares /\ C \subseteq attackers_to(p, ksq, pieces(p))
      /\ C \subseteq p.byColorBB[Opp(c)]
  BY KingIs DEF Sound, CheckersKept
<1>2. p.byColorBB[Opp(c)] \subseteq pieces(p) /\ pieces(p) = {s \in Squares : p.board[s] # NO_PIECE}
      /\ p.byColorBB[Opp(c)] = {s \in Squares : p.board[s] # NO_PIECE /\ color_of(p.board[s]) = Opp(c)}
  BY <1>1, WholeAgrees, Men, Sides
<1>. HIDE DEF C, c, ksq
<1>3. q \in C
  <2>1. C \subseteq Nat /\ C # {}
    BY <1>1, <1>2 DEF C, Squares
  <2>. QED BY <2>1, LeastIsIn DEF lsb
<1>. HIDE DEF q
<1>4. StrictlyBetween[ksq][q] \cap pieces(p) = {}
  <2>1. \/ q \in attacks_bb(ROOK, ksq, pieces(p)) \/ q \in attacks_bb(BISHOP, ksq, pieces(p))
        \/ q \in PawnAttacks[WHITE][ksq] \cup PawnAttacks[BLACK][ksq]
                     \cup PseudoAttacks[KNIGHT][ksq] \cup PseudoAttacks[KING][ksq]
    BY <1>1, <1>3 DEF attackers_to
  <2>. QED BY <2>1, <1>1, BetweenIsClear, Kinds DEF attacks_bb
<1>5. BetweenBB[ksq][q] \subseteq (StrictlyBetween[ksq][q] \cap Squares) \cup {q}
  BY <1>1, <1>2, <1>3, BetweenIsClear
<1>6. BetweenBB[ksq][q] \subseteq Enterable(p)
  BY <1>1, <1>2, <1>3, <1>4, <1>5 DEF Enterable, c
<1>. QED BY <1>1, <1>6 DEF C, c, ksq, q

\* The fields of a move, by how it was made.
LEMMA MoveFields ==
    /\ \A a, b : /\ Move(a, b).from = a /\ Move(a, b).to = b /\ Move(a, b).type = "NORMAL"
    /\ \A a, b, t : /\ MoveOf(a, b, t).from = a /\ MoveOf(a, b, t).to = b /\ MoveOf(a, b, t).type = t
    /\ \A a, b, pt : /\ PromotionTo(a, b, pt).from = a /\ PromotionTo(a, b, pt).to = b
                     /\ PromotionTo(a, b, pt).type = "PROMOTION" /\ PromotionTo(a, b, pt).promotion = pt
BY DEF Move, MoveOf, PromotionTo

\* A shifted square comes from the one a step before.
LEMMA ShiftIs ==
    ASSUME NEW b \in SUBSET Squares, NEW d \in Int, NEW t \in shift(b, d)
    PROVE  t \in Squares /\ t - d \in b
<1>1. PICK s \in b : t = s + d /\ s + d \in Squares
  BY DEF shift
<1>. QED BY <1>1 DEF Squares

\* A double push passes over an empty square.
DoublePush(p, m) ==
    /\ m.type = "NORMAL" /\ m.to - pawn_push(p.sideToMove) \in Squares
    /\ p.board[m.to - pawn_push(p.sideToMove)] = NO_PIECE
\* A move that fits the position.
MoveFits(p, m) ==
    /\ Fits(p.board, p.sideToMove, m)
    /\ type_of(p.board[m.from]) = PAWN /\ Abs(m.to - m.from) = 16 => DoublePush(p, m)

\* A move of a man of one's own to a square without one.
LEMMA OrdinaryFits ==
    ASSUME NEW p, Whole(p), p.sideToMove \in Colors, NEW m, m.type = "NORMAL",
           m.from \in p.byColorBB[p.sideToMove], m.to \in Enterable(p)
    PROVE  Fits(p.board, p.sideToMove, m)
<1>1. m.from \in Squares /\ p.board[m.from] # NO_PIECE /\ color_of(p.board[m.from]) = p.sideToMove
  BY WholeAgrees, Men
<1>. QED BY <1>1, Sides DEF Fits, Enterable

(* ---- The generated moves fit a sound position ---- *)

\* The squares of a pawn step.
LEMMA PawnSteps ==
    ASSUME NEW c \in Colors, NEW s \in Squares, NEW t \in PawnAttacks[c][s]
    PROVE  t \in Squares /\ t - s \in {pawn_push(c) + EAST, pawn_push(c) - EAST}
<1>1. t \in shift({s}, pawn_push(c) + EAST) \cup shift({s}, pawn_push(c) - EAST)
  BY DEF PawnAttacks
<1>2. pawn_push(c) \in Int /\ EAST \in Int
  BY DEF pawn_push, NORTH, EAST
<1>. QED BY <1>1, <1>2 DEF shift, Squares

\* Pawns of the two colors go opposite ways, a rank at a step.
LEMMA PushIs == \A c \in Colors : pawn_push(c) \in {8, -8} /\ pawn_push(Opp(c)) = -pawn_push(c) /\ EAST = 1
BY Sides DEF pawn_push, NORTH, EAST, Colors, Opp, WHITE, BLACK

\* A promotion fits the board.
LEMMA PromotionFits ==
    ASSUME NEW p, Whole(p), p.sideToMove \in Colors,
           NEW s \in of(p, p.sideToMove, {PAWN}), NEW t \in Enterable(p),
           t - s \in {7, 8, 9, -7, -8, -9},
           NEW m, \E pt \in {QUEEN, ROOK, BISHOP, KNIGHT} : m = PromotionTo(s, t, pt)
    PROVE  MoveFits(p, m)
<1>1. \E pt \in {QUEEN, ROOK, BISHOP, KNIGHT} : m = PromotionTo(s, t, pt)
  OBVIOUS
<1>2. m.from = s /\ m.to = t /\ m.type = "PROMOTION" /\ m.promotion \in KNIGHT..QUEEN
  BY <1>1, MoveFields DEF KNIGHT, BISHOP, ROOK, QUEEN
<1>3. s \in Squares /\ p.board[s] # NO_PIECE /\ color_of(p.board[s]) = p.sideToMove /\ type_of(p.board[s]) = PAWN
  BY WholeAgrees, Men, Kinds DEF of, by
<1>4. t \in Squares /\ s # t /\ Abs(t - s) # 16
  BY <1>3 DEF Abs, Enterable, Squares
<1>. QED BY <1>2, <1>3, <1>4, Sides, TypesAreFour DEF MoveFits, Fits, Enterable

\* A generated pawn move fits the board: single and double pushes, captures,
\* promotions and captures en passant.
LEMMA PawnMovesFit ==
    ASSUME NEW p, Sound(p), Stands(p, p.sideToMove),
           NEW type \in {"EVASIONS", "NON_EVASIONS"}, type = "EVASIONS" => p.st.checkersBB # {},
           NEW target, NEW m \in generate_pawn_moves(p, type, target)
    PROVE  MoveFits(p, m)
<1>. DEFINE c == p.sideToMove
            up == pawn_push(c)
            sds == {up + EAST, up - EAST}
            free == Squares \ pieces(p)
            enemies == IF type = "EVASIONS" THEN p.st.checkersBB ELSE p.byColorBB[Opp(c)]
            blocks(b) == IF type = "EVASIONS" THEN b \cap target ELSE b
            pawns == of(p, c, {PAWN})
            on7 == {s \in pawns : relative_rank(c, s) = 6}
            not7 == pawns \ on7
            single == shift(not7, up) \cap free
            third == {s \in single : relative_rank(c, s) = 2}
            double == shift(third, up) \cap free
            ep == p.st.epSquare
<1>1. \/ \E x \in Squares \X sds : /\ x[1] \in shift(on7, x[2]) \cap enemies
                                   /\ m \in make_promotions(type, x[1] - x[2], x[1], TRUE)
      \/ \E s \in shift(on7, up) \cap free : m \in make_promotions(type, s - up, s, FALSE)
      \/ \E s \in single : m = Move(s - up, s)
      \/ \E s \in double : m = Move(s - 2 * up, s)
      \/ \E d \in sds : \E s \in shift(not7, d) \cap enemies : m = Move(s - d, s)
      \/ ep # SQ_NONE /\ \E s \in not7 \cap PawnAttacks[Opp(c)][ep] : m = MoveOf(s, ep, "EN_PASSANT")
  <2>. DEFINE splat(b, d) == {Move(s - d, s) : s \in b}
              pushes == splat(blocks(single), up) \cup splat(blocks(double), 2 * up)
              promotions ==
                UNION ({make_promotions(type, x[1] - x[2], x[1], TRUE) :
                          x \in {y \in (Squares \X sds) : y[1] \in shift(on7, y[2]) \cap enemies}}
                       \cup {make_promotions(type, s - up, s, FALSE) :
                               s \in blocks(shift(on7, up) \cap free)})
              captures == UNION {splat(shift(not7, d) \cap enemies, d) : d \in sds}
              enPassant == IF ep = SQ_NONE \/ (type = "EVASIONS" /\ ep + up \in target) THEN {}
                           ELSE {MoveOf(s, ep, "EN_PASSANT") : s \in not7 \cap PawnAttacks[Opp(c)][ep]}
  <2>1. generate_pawn_moves(p, type, target) =
           promotions \cup (IF type = "CAPTURES" THEN {} ELSE pushes)
             \cup (IF type = "QUIETS" THEN {} ELSE captures \cup enPassant)
    BY DEF generate_pawn_moves
  <2>. HIDE DEF up, sds, free, enemies, on7, not7, single, double, ep
  <2>2. ASSUME m \in promotions
        PROVE  \/ \E x \in Squares \X sds : /\ x[1] \in shift(on7, x[2]) \cap enemies
                                             /\ m \in make_promotions(type, x[1] - x[2], x[1], TRUE)
               \/ \E s \in shift(on7, up) \cap free : m \in make_promotions(type, s - up, s, FALSE)
    <3>1. PICK M : /\ m \in M
                   /\ \/ M \in {make_promotions(type, x[1] - x[2], x[1], TRUE) :
                              x \in {y \in (Squares \X sds) : y[1] \in shift(on7, y[2]) \cap enemies}}
                      \/ M \in {make_promotions(type, s - up, s, FALSE) :
                               s \in blocks(shift(on7, up) \cap free)}
      BY <2>2
    <3>. QED BY <3>1
  <2>3. ASSUME m \in pushes
        PROVE  (\E s \in single : m = Move(s - up, s)) \/ (\E s \in double : m = Move(s - 2 * up, s))
    BY <2>3
  <2>4. ASSUME m \in captures
        PROVE  \E d \in sds : \E s \in shift(not7, d) \cap enemies : m = Move(s - d, s)
    BY <2>4
  <2>5. ASSUME m \in enPassant
        PROVE  ep # SQ_NONE /\ \E s \in not7 \cap PawnAttacks[Opp(c)][ep] : m = MoveOf(s, ep, "EN_PASSANT")
    BY <2>5
  <2>. HIDE DEF promotions, pushes, captures, enPassant, c
  <2>6. m \in promotions \/ m \in pushes \/ m \in captures \/ m \in enPassant
    BY <2>1
  <2>. QED BY <2>2, <2>3, <2>4, <2>5, <2>6
<1>2. /\ c \in Colors /\ Whole(p) /\ up \in {8, -8} /\ sds \subseteq {7, 9, -7, -9}
      /\ sds \subseteq Int /\ up \in Int
  BY PushIs DEF Sound
<1>3. /\ pieces(p) = {s \in Squares : p.board[s] # NO_PIECE}
      /\ pawns = {s \in Squares : p.board[s] # NO_PIECE /\ color_of(p.board[s]) = c /\ type_of(p.board[s]) = PAWN}
      /\ pawns \subseteq p.byColorBB[c]
      /\ \A e \in Colors : p.byColorBB[e] = {s \in Squares : p.board[s] # NO_PIECE /\ color_of(p.board[s]) = e}
  BY <1>2, WholeAgrees, Men, Kinds DEF of, by
<1>4. enemies \subseteq Enterable(p) /\ free \subseteq Enterable(p)
  <2>1. enemies \subseteq p.byColorBB[Opp(c)]
    BY CheckersAre
  <2>. HIDE DEF enemies
  <2>. QED BY <1>2, <1>3, <2>1, Sides DEF Enterable
<1>5. on7 \in SUBSET Squares /\ not7 \in SUBSET Squares /\ third \in SUBSET Squares
      /\ on7 \subseteq pawns /\ not7 \subseteq pawns /\ third \subseteq free
  <2>1. single \subseteq Squares
    BY DEF shift
  <2>. QED BY <1>3, <2>1
<1>6. third \subseteq shift(not7, up)
  OBVIOUS
<1>7. ep # SQ_NONE => PassingKept(p)
  BY DEF Sound
<1>. HIDE DEF c, up, sds, free, enemies, pawns, on7, not7, ep
<1>8. CASE \E x \in Squares \X sds : /\ x[1] \in shift(on7, x[2]) \cap enemies
                                     /\ m \in make_promotions(type, x[1] - x[2], x[1], TRUE)
  <2>1. PICK t \in Squares, d \in sds :
          t \in shift(on7, d) \cap enemies /\ m \in make_promotions(type, t - d, t, TRUE)
    BY <1>8
  <2>2. t - d \in on7 /\ d \in Int /\ d \in {7, 9, -7, -9}
    BY <1>2, <1>5, <2>1, ShiftIs
  <2>3. t - (t - d) = d
    BY <2>2 DEF Squares
  <2>4. t - d \in of(p, p.sideToMove, {PAWN}) /\ t \in Enterable(p) /\ t - (t - d) \in {7, 8, 9, -7, -8, -9}
    BY <1>4, <1>5, <2>1, <2>2, <2>3 DEF pawns, c
  <2>5. \E pt \in {QUEEN, ROOK, BISHOP, KNIGHT} : m = PromotionTo(t - d, t, pt)
    BY <2>1 DEF make_promotions
  <2>. QED BY <1>2, <2>4, <2>5, PromotionFits DEF c
<1>9. CASE \E s \in shift(on7, up) \cap free : m \in make_promotions(type, s - up, s, FALSE)
  <2>1. PICK t \in shift(on7, up) \cap free : m \in make_promotions(type, t - up, t, FALSE)
    BY <1>9
  <2>2. t - up \in on7 /\ t \in Squares
    BY <1>2, <1>5, ShiftIs
  <2>3. t - (t - up) = up
    BY <1>2, <2>2 DEF Squares
  <2>4. t - up \in of(p, p.sideToMove, {PAWN}) /\ t \in Enterable(p) /\ t - (t - up) \in {7, 8, 9, -7, -8, -9}
    BY <1>2, <1>4, <1>5, <2>1, <2>2, <2>3 DEF pawns, c
  <2>5. \E pt \in {QUEEN, ROOK, BISHOP, KNIGHT} : m = PromotionTo(t - up, t, pt)
    BY <2>1 DEF make_promotions
  <2>. QED BY <1>2, <2>4, <2>5, PromotionFits DEF c
<1>10. CASE \E s \in single : m = Move(s - up, s)
  <2>1. PICK t \in single : m = Move(t - up, t)
    BY <1>10
  <2>2. t - up \in not7 /\ t \in Squares /\ t \in free
    BY <1>2, <1>5, ShiftIs
  <2>3. m.from = t - up /\ m.to = t /\ m.type = "NORMAL"
    BY <2>1, MoveFields
  <2>4. Fits(p.board, p.sideToMove, m)
    BY <1>2, <1>3, <1>4, <1>5, <2>2, <2>3, OrdinaryFits DEF c
  <2>5. Abs(m.to - m.from) # 16
    BY <1>2, <2>2, <2>3 DEF Abs, Squares
  <2>. QED BY <2>4, <2>5 DEF MoveFits
<1>11. CASE \E s \in double : m = Move(s - 2 * up, s)
  <2>1. PICK t \in double : m = Move(t - 2 * up, t)
    BY <1>11
  <2>2. t - up \in third /\ t \in Squares /\ t \in free
    <3>. HIDE DEF third
    <3>. QED BY <1>2, <1>5, ShiftIs
  <2>3. (t - up) - up \in not7
    <3>. HIDE DEF third
    <3>. QED BY <1>2, <1>5, <1>6, <2>2, ShiftIs
  <2>4. (t - up) - up = t - 2 * up
    BY <1>2, <2>2 DEF Squares
  <2>5. m.from = t - 2 * up /\ m.to = t /\ m.type = "NORMAL"
    BY <2>1, MoveFields
  <2>6. Fits(p.board, p.sideToMove, m)
    <3>1. m.from \in p.byColorBB[p.sideToMove] /\ m.to \in Enterable(p)
      BY <1>3, <1>4, <1>5, <2>2, <2>3, <2>4, <2>5 DEF c
    <3>. QED BY <1>2, <2>5, <3>1, OrdinaryFits DEF c
  <2>7. DoublePush(p, m)
    <3>1. t - up \in free
      BY <1>5, <2>2
    <3>. QED BY <1>3, <2>5, <3>1 DEF DoublePush, up, c, free
  <2>. QED BY <2>6, <2>7 DEF MoveFits
<1>12. CASE \E d \in sds : \E s \in shift(not7, d) \cap enemies : m = Move(s - d, s)
  <2>0. PICK d \in sds : \E t \in shift(not7, d) \cap enemies : m = Move(t - d, t)
    BY <1>12
  <2>1. PICK t \in shift(not7, d) \cap enemies : m = Move(t - d, t)
    BY <2>0
  <2>2. t - d \in not7 /\ t \in Squares /\ d \in {7, 9, -7, -9}
    BY <1>2, <1>5, <2>1, ShiftIs
  <2>3. m.from = t - d /\ m.to = t /\ m.type = "NORMAL"
    BY <2>1, MoveFields
  <2>4. Fits(p.board, p.sideToMove, m)
    <3>1. m.from \in p.byColorBB[p.sideToMove] /\ m.to \in Enterable(p)
      BY <1>3, <1>4, <1>5, <2>1, <2>2, <2>3 DEF c
    <3>. QED BY <1>2, <2>3, <3>1, OrdinaryFits DEF c
  <2>5. Abs(m.to - m.from) # 16
    BY <2>2, <2>3 DEF Abs, Squares
  <2>. QED BY <2>4, <2>5 DEF MoveFits
<1>13. CASE ep # SQ_NONE /\ \E s \in not7 \cap PawnAttacks[Opp(c)][ep] : m = MoveOf(s, ep, "EN_PASSANT")
  <2>1. PICK s \in not7 \cap PawnAttacks[Opp(c)][ep] : m = MoveOf(s, ep, "EN_PASSANT")
    BY <1>13
  <2>2. m.from = s /\ m.to = ep /\ m.type = "EN_PASSANT"
    BY <2>1, MoveFields
  <2>3. /\ ep \in Squares /\ p.board[ep] = NO_PIECE /\ ep - up \in Squares
        /\ p.board[ep - up] = make_piece(Opp(c), PAWN)
    BY <1>7, <1>13 DEF PassingKept, ep, up, c
  <2>4. s \in Squares /\ p.board[s] # NO_PIECE /\ color_of(p.board[s]) = c /\ type_of(p.board[s]) = PAWN
    BY <1>3, <1>5
  <2>5. s - ep \in {7, 9, -7, -9} /\ make_square(file_of(ep), rank_of(s)) = ep - up
    <3>1. Opp(c) \in Colors /\ pawn_push(Opp(c)) = -up
      BY <1>2, PushIs, Sides DEF up
    <3>2. s - ep \in {pawn_push(Opp(c)) + EAST, pawn_push(Opp(c)) - EAST}
      BY <2>1, <2>3, <3>1, PawnSteps
    <3>3. make_square(file_of(ep), rank_of(s)) = ep + pawn_push(Opp(c))
      BY <2>1, <2>3, <3>1, PassedRank
    <3>. HIDE DEF up
    <3>4. ep \in Int /\ s \in Int
      BY <2>3, <2>4 DEF Squares
    <3>. QED BY <1>2, <3>1, <3>2, <3>3, <3>4 DEF EAST
  <2>6. s # ep /\ Abs(ep - s) # 16
    BY <2>3, <2>4, <2>5 DEF Abs, Squares
  <2>7. Fits(p.board, c, m)
    <3>1. TakesInPassing(p.board, c, m)
      BY <2>2, <2>3, <2>4, <2>5 DEF TakesInPassing, up
    <3>. QED BY <2>2, <2>3, <2>4, <2>6, <3>1, TypesAreFour DEF Fits
  <2>. QED BY <2>2, <2>6, <2>7 DEF MoveFits, c
<1>. QED BY <1>1, <1>8, <1>9, <1>10, <1>11, <1>12, <1>13

\* Castling, where the right is left and nothing is in the way, fits the board.
LEMMA CastlingFits ==
    ASSUME NEW p, Sound(p), Stands(p, p.sideToMove), NEW cr \in AnyCastling(p.sideToMove) \cap p.st.castlingRights,
           ~castling_impeded(p, cr),
           NEW m, m = MoveOf(king(p, p.sideToMove), p.castlingRookSquare[cr], "CASTLING")
    PROVE  MoveFits(p, m)
<1>. DEFINE c == p.sideToMove
            r == p.castlingRookSquare[cr]
<1>1. c \in Colors /\ Whole(p) /\ OneKing(p.board) /\ CastlingKept(p)
  BY DEF Sound
<1>2. PICK k \in Squares : CastlesFrom(p, c, cr, k)
  BY <1>1 DEF CastlingKept
<1>3. k = king(p, c)
  BY <1>1, <1>2, KingIs DEF CastlesFrom
<1>4. m = MoveOf(k, r, "CASTLING") /\ m.from = k /\ m.to = r /\ m.type = "CASTLING"
  BY <1>3, MoveFields
<1>5. /\ r \in Squares /\ p.board[k] = make_piece(c, KING) /\ p.board[r] = make_piece(c, ROOK)
      /\ {CastlingKing(c, m), CastlingRook(c, m)} \ {k, r} \subseteq p.castlingPath[cr]
  BY <1>2, <1>4 DEF CastlesFrom
<1>6. p.castlingPath[cr] \cap pieces(p) = {} /\ pieces(p) = {s \in Squares : p.board[s] # NO_PIECE}
  BY <1>1, WholeAgrees, Men DEF castling_impeded
<1>7. CastlingKing(c, m) \in Squares /\ CastlingRook(c, m) \in Squares
  BY <1>1, CastlingSquares
<1>8. make_piece(c, KING) # make_piece(c, ROOK) /\ make_piece(c, KING) \in Pieces /\ NO_PIECE \notin Pieces
      /\ color_of(make_piece(c, KING)) = c /\ type_of(make_piece(c, KING)) = KING
  BY <1>1, PieceParts, Kinds
<1>. HIDE DEF c, r
<1>9. CastlesOn(p.board, c, m)
  BY <1>4, <1>5, <1>6, <1>7 DEF CastlesOn
<1>10. Fits(p.board, c, m)
  BY <1>2, <1>4, <1>5, <1>8, <1>9, TypesAreFour DEF Fits
<1>11. type_of(p.board[m.from]) # PAWN
  BY <1>4, <1>5, <1>8, Kinds
<1>. QED BY <1>10, <1>11 DEF MoveFits, c

\* A move of the generator fits the board.
LEMMA GeneratedFits ==
    ASSUME NEW p, Sound(p), Stands(p, p.sideToMove),
           NEW type \in {"EVASIONS", "NON_EVASIONS"}, type = "EVASIONS" => p.st.checkersBB # {},
           NEW m \in generate(p, type)
    PROVE  MoveFits(p, m)
<1>. DEFINE c == p.sideToMove
            ksq == king(p, c)
            target == IF type = "EVASIONS" THEN BetweenBB[ksq][lsb(p.st.checkersBB)]
                      ELSE Squares \ p.byColorBB[c]
<1>1. \/ m \in generate_pawn_moves(p, type, target)
      \/ \E pt \in KNIGHT..QUEEN : m \in generate_moves(p, pt, target)
      \/ \E t \in Squares \ p.byColorBB[c] : m = Move(ksq, t)
      \/ \E cr \in AnyCastling(c) \cap p.st.castlingRights :
           ~castling_impeded(p, cr) /\ m = MoveOf(ksq, p.castlingRookSquare[cr], "CASTLING")
  <2>. DEFINE target2 == CASE type = "EVASIONS" -> BetweenBB[ksq][lsb(p.st.checkersBB)]
                    [] type = "NON_EVASIONS" -> Squares \ p.byColorBB[c]
                    [] type = "CAPTURES" -> p.byColorBB[Opp(c)]
                    [] type = "QUIETS" -> Squares \ pieces(p)
              kingTarget == IF type = "EVASIONS" THEN Squares \ p.byColorBB[c] ELSE target2
              others == generate_pawn_moves(p, type, target2)
                          \cup UNION {generate_moves(p, pt, target2) : pt \in KNIGHT..QUEEN}
              castles == {MoveOf(ksq, p.castlingRookSquare[cr], "CASTLING") :
                            cr \in {x \in AnyCastling(c) \cap p.st.castlingRights : ~castling_impeded(p, x)}}
  <2>1. generate(p, type) =
           (IF type = "EVASIONS" /\ Cardinality(p.st.checkersBB) > 1 THEN {} ELSE others)
             \cup {Move(ksq, t) : t \in PseudoAttacks[KING][ksq] \cap kingTarget}
             \cup (IF type \in {"QUIETS", "NON_EVASIONS"} THEN castles ELSE {})
    BY DEF generate
  <2>2. target2 = target /\ kingTarget = Squares \ p.byColorBB[c]
    OBVIOUS
  <2>. HIDE DEF target2, kingTarget, target, ksq, c
  <2>3. \/ m \in generate_pawn_moves(p, type, target2)
        \/ m \in UNION {generate_moves(p, pt, target2) : pt \in KNIGHT..QUEEN}
        \/ m \in {Move(ksq, t) : t \in PseudoAttacks[KING][ksq] \cap kingTarget}
        \/ m \in castles
    BY <2>1
  <2>. QED BY <2>2, <2>3
<1>2. c \in Colors /\ Whole(p)
  BY DEF Sound
<1>3. \A pt \in PieceTypes : of(p, c, {pt}) = {s \in p.byColorBB[c] : type_of(p.board[s]) = pt}
  BY <1>2, WholeAgrees, Men DEF of, by
<1>4. p.byColorBB[c] = {s \in Squares : p.board[s] # NO_PIECE /\ color_of(p.board[s]) = c}
      /\ \A s \in Squares : p.board[s] # NO_PIECE => color_of(p.board[s]) \in Colors
  BY <1>2, WholeAgrees, Men
<1>5. Squares \ p.byColorBB[c] \subseteq Enterable(p)
  BY <1>2, <1>4, Sides DEF Enterable
<1>6. target \subseteq Enterable(p)
  BY <1>5, CheckersAre
<1>7. ksq \in Squares /\ p.board[ksq] = make_piece(c, KING)
  BY <1>2, KingIs
<1>. HIDE DEF target, ksq, c
<1>8. CASE m \in generate_pawn_moves(p, type, target)
  BY <1>8, PawnMovesFit
<1>9. CASE \E pt \in KNIGHT..QUEEN : m \in generate_moves(p, pt, target)
  <2>1. PICK pt \in KNIGHT..QUEEN : m \in generate_moves(p, pt, target)
    BY <1>9
  <2>2. PICK s \in of(p, c, {pt}) : \E t \in target : m = Move(s, t)
    BY <2>1 DEF generate_moves, c
  <2>3. PICK t \in target : m = Move(s, t)
    BY <2>2
  <2>4. pt \in PieceTypes /\ pt # PAWN
    BY DEF KNIGHT, QUEEN, PieceTypes, PAWN, KING
  <2>5. s \in p.byColorBB[c] /\ type_of(p.board[s]) = pt /\ t \in Enterable(p)
    BY <1>3, <1>6, <2>2, <2>3, <2>4
  <2>6. m.from = s /\ m.to = t /\ m.type = "NORMAL"
    BY <2>3, MoveFields
  <2>7. Fits(p.board, p.sideToMove, m)
    BY <1>2, <2>5, <2>6, OrdinaryFits DEF c
  <2>. QED BY <2>4, <2>5, <2>6, <2>7 DEF MoveFits
<1>10. CASE \E t \in Squares \ p.byColorBB[c] : m = Move(ksq, t)
  <2>1. PICK t \in Squares \ p.byColorBB[c] : m = Move(ksq, t)
    BY <1>10
  <2>2. m.from = ksq /\ m.to = t /\ m.type = "NORMAL"
    BY <2>1, MoveFields
  <2>3. /\ make_piece(c, KING) \in Pieces /\ NO_PIECE \notin Pieces
        /\ color_of(make_piece(c, KING)) = c /\ type_of(make_piece(c, KING)) = KING
    BY <1>2, PieceParts, Kinds
  <2>4. ksq \in p.byColorBB[c] /\ t \in Enterable(p) /\ type_of(p.board[ksq]) # PAWN
    BY <1>4, <1>5, <1>7, <2>1, <2>3, Kinds
  <2>5. Fits(p.board, p.sideToMove, m)
    BY <1>2, <2>2, <2>4, OrdinaryFits DEF c
  <2>. QED BY <2>2, <2>4, <2>5 DEF MoveFits
<1>11. CASE \E cr \in AnyCastling(c) \cap p.st.castlingRights :
           ~castling_impeded(p, cr) /\ m = MoveOf(ksq, p.castlingRookSquare[cr], "CASTLING")
  BY <1>11, CastlingFits DEF c, ksq
<1>. QED BY <1>1, <1>8, <1>9, <1>10, <1>11

\* A legal move of a sound position fits the board.
LEMMA LegalMovesFit ==
    ASSUME NEW p, Sound(p), Stands(p, p.sideToMove), NEW m \in LegalMoves(p)
    PROVE  MoveFits(p, m)
<1>1. m \in PseudoLegal(p)
  BY DEF LegalMoves
<1>2. CASE p.st.checkersBB # {}
  BY <1>1, <1>2, GeneratedFits DEF PseudoLegal
<1>3. CASE p.st.checkersBB = {}
  <2>1. m \in generate(p, "NON_EVASIONS")
    BY <1>1, <1>3 DEF PseudoLegal
  <2>. QED BY <2>1, GeneratedFits, "NON_EVASIONS" # "EVASIONS"
<1>. QED BY <1>2, <1>3

(* ---- A move leaves a sound position sound ---- *)

\* Where kings and rooks stand after a move.
LEMMA KingsAfter ==
    ASSUME NEW b \in Boards, NEW mover \in Colors, NEW m, Fits(b, mover, m),
           NEW s \in Squares, NEW c \in Colors, After(b, m)[s] = make_piece(c, KING)
    PROVE  \/ b[s] = make_piece(c, KING) /\ s # m.from
           \/ s = MovedTo(mover, m) /\ c = mover /\ b[m.from] = make_piece(mover, KING)
<1>. DEFINE K == make_piece(c, KING)
            a == After(b, m)
<1>1. /\ m.from \in Squares /\ m.to \in Squares /\ m.from # m.to /\ b[m.from] \in Pieces
      /\ color_of(b[m.from]) = mover
  BY DEF Fits, Boards
<1>2. K \in Pieces /\ K # NO_PIECE /\ color_of(K) = c /\ type_of(K) = KING
  BY PieceParts, Kinds
<1>3. make_piece(mover, ROOK) # K /\ (make_piece(mover, KING) = K => c = mover)
  <2>1. type_of(make_piece(mover, ROOK)) = ROOK /\ color_of(make_piece(mover, KING)) = mover
    BY PieceParts, Kinds
  <2>. HIDE DEF K
  <2>. QED BY <1>2, <2>1, Kinds
<1>. HIDE DEF K
<1>4. CASE m.type = "CASTLING"
  <2>. DEFINE kk == CastlingKing(mover, m)
              rr == CastlingRook(mover, m)
  <2>1. kk # rr /\ kk \in Squares /\ rr \in Squares
    BY CastlingSquares
  <2>2. a = [b EXCEPT ![m.from] = NO_PIECE, ![m.to] = NO_PIECE,
                      ![kk] = make_piece(mover, KING), ![rr] = make_piece(mover, ROOK)]
    BY <1>1, <1>4, CastlingSquares DEF After, Boards
  <2>3. b[m.from] = make_piece(mover, KING)
    BY <1>4, TypesAreFour DEF Fits, CastlesOn
  <2>4. MovedTo(mover, m) = kk
    BY <1>4 DEF MovedTo
  <2>. HIDE DEF kk, rr, a
  <2>5. a[s] = K
    BY DEF a, K
  <2>6. CASE s = rr
    <3>1. a[rr] = make_piece(mover, ROOK)
      BY <2>1, <2>2 DEF Boards
    <3>. QED BY <1>3, <2>5, <2>6, <3>1
  <2>7. CASE s = kk
    <3>1. a[kk] = make_piece(mover, KING)
      BY <2>1, <2>2 DEF Boards
    <3>. QED BY <1>3, <2>3, <2>4, <2>5, <2>7, <3>1
  <2>8. CASE s # kk /\ s # rr
    BY <1>2, <2>1, <2>2, <2>5, <2>8 DEF Boards, K
  <2>. QED BY <2>6, <2>7, <2>8
<1>5. CASE m.type # "CASTLING"
  <2>1. MovedTo(mover, m) = m.to
    BY <1>5 DEF MovedTo
  <2>2. \/ a = [b EXCEPT ![m.from] = NO_PIECE, ![m.to] = b[m.from],
                         ![make_square(file_of(m.to), rank_of(m.from))] = NO_PIECE]
        \/ a = [b EXCEPT ![m.from] = NO_PIECE, ![m.to] = b[m.from]]
        \/ /\ m.promotion \in KNIGHT..QUEEN
           /\ a = [b EXCEPT ![m.from] = NO_PIECE, ![m.to] = make_piece(mover, m.promotion)]
    BY <1>1, <1>5, TypesAreFour DEF After, Fits
  <2>3. ASSUME m.promotion \in KNIGHT..QUEEN
        PROVE  make_piece(mover, m.promotion) # K
    <3>1. m.promotion \in PieceTypes /\ m.promotion # KING
      BY <2>3 DEF KNIGHT, QUEEN, PieceTypes, PAWN, KING
    <3>2. type_of(make_piece(mover, m.promotion)) = m.promotion
      BY <3>1, PieceParts
    <3>. QED BY <1>2, <3>1, <3>2
  <2>. HIDE DEF a
  <2>4. a[s] = K
    BY DEF a, K
  <2>5. s # m.from
    BY <1>1, <1>2, <2>2, <2>4 DEF Boards
  <2>6. CASE s = m.to
    <3>1. b[m.from] = K
      BY <1>1, <1>2, <2>2, <2>3, <2>4, <2>6 DEF Boards
    <3>. QED BY <1>1, <1>2, <2>1, <2>6, <3>1 DEF K
  <2>7. CASE s # m.to
    <3>1. b[s] = K
      BY <1>1, <1>2, <2>2, <2>4, <2>5, <2>7 DEF Boards
    <3>. QED BY <2>5, <3>1 DEF K
  <2>. QED BY <2>6, <2>7
<1>. QED BY <1>4, <1>5

\* No color gets a second king by a move.
LEMMA OneKingAfter ==
    ASSUME NEW b \in Boards, NEW mover \in Colors, NEW m, Fits(b, mover, m), OneKing(b)
    PROVE  OneKing(After(b, m))
<1>1. ASSUME NEW c \in Colors, NEW s \in Squares, NEW t \in Squares,
             After(b, m)[s] = make_piece(c, KING), After(b, m)[t] = make_piece(c, KING)
      PROVE  s = t
  <2>1. m.from \in Squares
    BY DEF Fits
  <2>2. \/ b[s] = make_piece(c, KING) /\ s # m.from
        \/ s = MovedTo(mover, m) /\ c = mover /\ b[m.from] = make_piece(mover, KING)
    BY <1>1, KingsAfter
  <2>3. \/ b[t] = make_piece(c, KING) /\ t # m.from
        \/ t = MovedTo(mover, m) /\ c = mover /\ b[m.from] = make_piece(mover, KING)
    BY <1>1, KingsAfter
  <2>. QED BY <2>1, <2>2, <2>3 DEF OneKing
<1>. QED BY <1>1 DEF OneKing

\* A king or a rook that neither moves nor is taken stays where it is.
LEMMA StaysAfter ==
    ASSUME NEW b \in Boards, NEW mover \in Colors, NEW m, Fits(b, mover, m),
           NEW s \in Squares, NEW c \in Colors, NEW pt \in {KING, ROOK}, b[s] = make_piece(c, pt),
           s # m.from, s # MovedTo(mover, m), m.type = "CASTLING" => c # mover
    PROVE  After(b, m)[s] = b[s]
<1>. DEFINE a == After(b, m)
            P == make_piece(c, pt)
<1>1. /\ m.from \in Squares /\ m.to \in Squares /\ m.from # m.to /\ b[m.from] \in Pieces
      /\ color_of(b[m.from]) = mover
  BY DEF Fits, Boards
<1>2. P # NO_PIECE /\ color_of(P) = c /\ type_of(P) = pt /\ pt # PAWN
  BY PieceParts, Kinds
<1>. HIDE DEF P
<1>4. CASE m.type = "CASTLING"
  <2>. DEFINE kk == CastlingKing(mover, m)
              rr == CastlingRook(mover, m)
  <2>1. kk # rr /\ kk \in Squares /\ rr \in Squares
    BY CastlingSquares
  <2>2. a = [b EXCEPT ![m.from] = NO_PIECE, ![m.to] = NO_PIECE,
                      ![kk] = make_piece(mover, KING), ![rr] = make_piece(mover, ROOK)]
    BY <1>1, <1>4, CastlingSquares DEF After, Boards
  <2>3. /\ b[m.from] = make_piece(mover, KING) /\ b[m.to] = make_piece(mover, ROOK)
        /\ \A x \in {kk, rr} \ {m.from, m.to} : b[x] = NO_PIECE
    BY <1>4, TypesAreFour DEF Fits, CastlesOn
  <2>4. color_of(make_piece(mover, KING)) = mover /\ color_of(make_piece(mover, ROOK)) = mover /\ c # mover
    BY <1>4, PieceParts, Kinds
  <2>5. b[s] = P
    BY DEF P
  <2>. HIDE DEF kk, rr, a
  <2>6. s # m.to /\ s # kk /\ s # rr /\ s # m.from
    BY <1>2, <2>3, <2>4, <2>5
  <2>7. a[s] = b[s]
    BY <2>2, <2>6 DEF Boards
  <2>. QED BY <2>7 DEF a
<1>5. CASE m.type = "EN_PASSANT"
  <2>. DEFINE sq == make_square(file_of(m.to), rank_of(m.from))
  <2>1. a = [b EXCEPT ![m.from] = NO_PIECE, ![m.to] = b[m.from], ![sq] = NO_PIECE]
    BY <1>5, TypesAreFour DEF After
  <2>2. b[sq] = make_piece(Opp(mover), PAWN)
    BY <1>5, TypesAreFour DEF Fits, TakesInPassing
  <2>3. type_of(make_piece(Opp(mover), PAWN)) = PAWN
    BY Sides, PieceParts, Kinds
  <2>4. s # m.to
    BY <1>5, TypesAreFour DEF MovedTo
  <2>5. b[s] = P
    BY DEF P
  <2>. HIDE DEF a, sq
  <2>6. s # sq
    BY <1>2, <2>2, <2>3, <2>5
  <2>7. a[s] = b[s]
    BY <2>1, <2>4, <2>6 DEF Boards
  <2>. QED BY <2>7 DEF a
<1>6. CASE m.type # "CASTLING" /\ m.type # "EN_PASSANT"
  <2>1. \E x : a = [b EXCEPT ![m.from] = NO_PIECE, ![m.to] = x]
    BY <1>6 DEF After
  <2>2. s # m.to
    BY <1>6 DEF MovedTo
  <2>. HIDE DEF a
  <2>3. a[s] = b[s]
    BY <2>1, <2>2 DEF Boards
  <2>. QED BY <2>3 DEF a
<1>. QED BY <1>4, <1>5, <1>6

\* After a move the rights that are left still belong to a king and a rook that
\* have not moved.
LEMMA CastlingAfterMove ==
    ASSUME NEW p, Sound(p), NEW m, MoveFits(p, m), NEW t, Follows(t, p, m)
    PROVE  CastlingKept(t)
<1>. DEFINE mover == p.sideToMove
            b == p.board
<1>1. /\ mover \in Colors /\ b \in Boards /\ OneKing(b) /\ CastlingKept(p) /\ Fits(b, mover, m)
      /\ t.board = After(b, m)
      /\ m.from \in Squares
  BY DEF Sound, Whole, MoveFits, Follows, Fits
<1>2. ASSUME NEW c \in Colors, NEW cr \in AnyCastling(c) \cap t.st.castlingRights
      PROVE  \E k \in Squares : CastlesFrom(t, c, cr, k)
  <2>1. cr \in AnyCastling(c) \cap p.st.castlingRights
        /\ cr \notin p.castlingRightsMask[m.from] /\ cr \notin p.castlingRightsMask[MovedTo(mover, m)]
    BY <1>2 DEF Follows, RightsAfter
  <2>2. PICK k \in Squares : CastlesFrom(p, c, cr, k)
    BY <1>1, <2>1 DEF CastlingKept
  <2>. DEFINE r == p.castlingRookSquare[cr]
  <2>3. /\ r \in Squares /\ b[k] = make_piece(c, KING) /\ b[r] = make_piece(c, ROOK)
        /\ cr \in p.castlingRightsMask[k] /\ cr \in p.castlingRightsMask[r]
    BY <2>2 DEF CastlesFrom
  <2>4. k # m.from /\ r # m.from /\ k # MovedTo(mover, m) /\ r # MovedTo(mover, m)
    BY <2>1, <2>3
  <2>5. m.type = "CASTLING" => c # mover
    <3>1. ASSUME m.type = "CASTLING", c = mover
          PROVE  FALSE
      <4>1. b[m.from] = make_piece(c, KING)
        BY <1>1, <3>1, TypesAreFour DEF Fits, CastlesOn
      <4>. QED BY <1>1, <2>3, <2>4, <4>1 DEF OneKing
    <3>. QED BY <3>1
  <2>. HIDE DEF r, mover, b
  <2>6. t.board[k] = b[k] /\ t.board[r] = b[r]
    BY <1>1, <2>3, <2>4, <2>5, StaysAfter
  <2>7. /\ t.castlingRookSquare = p.castlingRookSquare /\ t.castlingPath = p.castlingPath
        /\ t.castlingRightsMask = p.castlingRightsMask
    BY DEF Follows
  <2>8. CastlesFrom(t, c, cr, k)
    BY <2>2, <2>6, <2>7 DEF CastlesFrom, r, b
  <2>. QED BY <2>8
<1>. QED BY <1>2 DEF CastlingKept

\* After a move the en passant square, if any, is empty, with the pawn that has
\* passed over it beyond.
LEMMA PassingAfterMove ==
    ASSUME NEW p, Sound(p), NEW m, MoveFits(p, m), NEW t, Follows(t, p, m)
    PROVE  PassingKept(t)
<1>. DEFINE mover == p.sideToMove
            b == p.board
            ep == t.st.epSquare
<1>1. SUFFICES ASSUME ep # SQ_NONE
               PROVE  /\ ep \in Squares /\ t.board[ep] = NO_PIECE
                      /\ ep - pawn_push(Opp(mover)) \in Squares
                      /\ t.board[ep - pawn_push(Opp(mover))] = make_piece(mover, PAWN)
  <2>1. t.sideToMove = Opp(mover) /\ Opp(t.sideToMove) = mover
    BY Sides DEF Follows, Sound
  <2>. QED BY <2>1 DEF PassingKept
<1>2. mover \in Colors /\ b \in Boards /\ Fits(b, mover, m) /\ t.board = After(b, m)
  BY DEF Sound, Whole, MoveFits, Follows
<1>3. type_of(b[m.from]) = PAWN /\ Abs(m.to - m.from) = 16 /\ ep = m.to - pawn_push(mover)
  <2>1. ep = EpAfter(p, m)
    BY DEF Follows
  <2>. HIDE DEF ep
  <2>. QED BY <1>1, <2>1 DEF EpAfter, DoublePushSquare
<1>4. m.type = "NORMAL" /\ ep \in Squares /\ b[ep] = NO_PIECE
  BY <1>3 DEF MoveFits, DoublePush
<1>5. /\ m.from \in Squares /\ m.to \in Squares /\ b[m.from] # NO_PIECE /\ color_of(b[m.from]) = mover
      /\ b[m.from] \in Pieces /\ m.from # m.to
  BY <1>2 DEF Fits, Boards
<1>6. After(b, m) = [b EXCEPT ![m.from] = NO_PIECE, ![m.to] = b[m.from]]
  BY <1>4, TypesAreFour DEF After
<1>7. b[m.from] = make_piece(mover, PAWN)
  BY <1>3, <1>5, PieceParts
<1>8. ep # m.to /\ ep # m.from /\ ep - pawn_push(Opp(mover)) = m.to
  <2>1. pawn_push(mover) \in {8, -8} /\ pawn_push(Opp(mover)) = -pawn_push(mover)
    BY <1>2, PushIs
  <2>. HIDE DEF mover, b, ep
  <2>2. m.to \in Int
    BY <1>5 DEF Squares
  <2>. QED BY <1>3, <1>4, <1>5, <2>1, <2>2
<1>. HIDE DEF mover, b, ep
<1>. QED BY <1>2, <1>4, <1>5, <1>6, <1>7, <1>8 DEF Boards

\* What a move makes of a sound position is sound.
LEMMA SoundAfterMove ==
    ASSUME NEW p, Sound(p), NEW m, MoveFits(p, m), NEW t, Follows(t, p, m)
    PROVE  Sound(t)
<1>1. OneKing(t.board)
  BY OneKingAfter DEF Sound, Whole, MoveFits, Follows
<1>2. t.sideToMove \in Colors /\ Opp(t.sideToMove) = p.sideToMove
  BY Sides DEF Follows, Sound
<1>3. CheckersKept(t)
  BY <1>2 DEF CheckersKept, Follows
<1>4. t.gamePly \in Int
  BY DEF Follows, Sound
<1>5. \E S : t.prev \in Seq(S)
  <2>1. PICK S : p.prev \in Seq(S)
    BY DEF Sound
  <2>. DEFINE T == S \cup {p.st}
  <2>2. p.prev \in Seq(T) /\ p.st \in T
    BY <2>1, SeqMonotonic
  <2>3. Append(p.prev, p.st) \in Seq(T)
    <3>. HIDE DEF T
    <3>. QED BY <2>2, AppendProperties
  <2>. QED BY <2>3 DEF Follows
<1>6. CastlingKept(t)
  BY CastlingAfterMove
<1>7. PassingKept(t)
  BY PassingAfterMove
<1>. QED BY <1>1, <1>2, <1>3, <1>4, <1>5, <1>6, <1>7 DEF Sound, Follows

(* ---- Null moves ---- *)

\* t is what do_null_move makes of p, up to the keys.
Passes(t, p) ==
    /\ Whole(t) /\ t.board = p.board /\ IsState(t.st) /\ PinnersStand(t)
    /\ t.castlingRightsMask = p.castlingRightsMask
    /\ t.castlingRookSquare = p.castlingRookSquare /\ t.castlingPath = p.castlingPath
    /\ t.chess960 = p.chess960 /\ t.dts = p.dts
    /\ t.gamePly = p.gamePly /\ t.sideToMove = Opp(p.sideToMove) /\ t.prev = Append(p.prev, p.st)
    /\ t.st.castlingRights = p.st.castlingRights /\ t.st.epSquare = SQ_NONE
    /\ t.st.checkersBB = p.st.checkersBB

\* do_null_move passes the turn and leaves the board.
LEMMA NullMoveIs ==
    ASSUME NEW p, Whole(p), IsState(p.st)
    PROVE  Passes(do_null_move(p), p)
<1>. DEFINE total == XorAll(<<p.st.key, enpassant(p.st.epSquare), side>>)
            st == [p.st EXCEPT !.key = total, !.epSquare = SQ_NONE, !.pliesFromNull = 0, !.capturedPiece = NO_PIECE]
            prev == Append(p.prev, p.st)
            other == Opp(p.sideToMove)
            r == [p EXCEPT !.prev = prev, !.sideToMove = other, !.st = st]
            q == set_check_info(r)
            t == [q EXCEPT !.st.repetition = 0]
<1>1. do_null_move(p) = t
  <2>1. r = [p EXCEPT !.prev = Append(@, p.st), !.sideToMove = Opp(@),
                      !.st.key = XorAll(<<@, enpassant(p.st.epSquare), side>>),
                      !.st.epSquare = SQ_NONE, !.st.pliesFromNull = 0, !.st.capturedPiece = NO_PIECE]
    <3>. HIDE DEF prev, other, total
    <3>1. p.prev = p["prev"] /\ [p EXCEPT !.prev = Append(@, p.st), !.sideToMove = Opp(@),
                      !.st.key = XorAll(<<@, enpassant(p.st.epSquare), side>>),
                      !.st.epSquare = SQ_NONE, !.st.pliesFromNull = 0, !.st.capturedPiece = NO_PIECE]
           = [p EXCEPT !.prev = prev, !.sideToMove = other, !.st.key = total,
                      !.st.epSquare = SQ_NONE, !.st.pliesFromNull = 0, !.st.capturedPiece = NO_PIECE]
      BY DEF prev, other, total, Whole, IsPosition, Fields, IsState, StateFields
    <3>. QED BY <3>1 DEF Whole, IsPosition, Fields, IsState, StateFields
  <2>. QED BY <2>1 DEF do_null_move
<1>. HIDE DEF total, prev, other
<1>2. /\ IsState(st) /\ st.castlingRights = p.st.castlingRights
      /\ st.epSquare = SQ_NONE /\ st.checkersBB = p.st.checkersBB
  BY DEF IsState, StateFields
<1>. HIDE DEF st
<1>3. /\ IsPosition(r) /\ r.board = p.board /\ r.byTypeBB = p.byTypeBB /\ r.byColorBB = p.byColorBB
      /\ r.pieceCount = p.pieceCount /\ r.castlingRightsMask = p.castlingRightsMask
      /\ r.castlingRookSquare = p.castlingRookSquare /\ r.castlingPath = p.castlingPath
      /\ r.gamePly = p.gamePly /\ r.sideToMove = other /\ r.chess960 = p.chess960
      /\ r.prev = prev /\ r.dts = p.dts /\ r.st = st
  BY DEF Whole, IsPosition, Fields
<1>. HIDE DEF r
<1>4. Whole(r)
  BY <1>3 DEF Whole
<1>5. WithSt(q, r) /\ IsState(q.st) /\ KeptInfo(q.st, st) /\ PinnersStand(q)
  BY <1>2, <1>3, <1>4, SetCheckInfoIs
<1>. HIDE DEF q
<1>. DEFINE s2 == [q.st EXCEPT !.repetition = 0]
<1>6. WithSt(t, q)
  BY <1>5 DEF WithSt, IsPosition, Fields
<1>7. t.st = s2
  BY <1>5 DEF WithSt, IsPosition, Fields
<1>8. IsState(s2) /\ KeptInfo(s2, q.st) /\ s2.pinners = q.st.pinners
  BY <1>5 DEF IsState, StateFields, KeptInfo
<1>. HIDE DEF s2, t
<1>9. /\ Whole(t) /\ t.board = p.board /\ t.byTypeBB = q.byTypeBB
  BY <1>3, <1>4, <1>5, <1>6 DEF Whole, WithSt
<1>10. PinnersStand(t)
  BY <1>5, <1>7, <1>8, <1>9 DEF PinnersStand, pieces
<1>11. /\ t.castlingRightsMask = p.castlingRightsMask
       /\ t.castlingRookSquare = p.castlingRookSquare /\ t.castlingPath = p.castlingPath
       /\ t.chess960 = p.chess960 /\ t.dts = p.dts
       /\ t.gamePly = p.gamePly /\ t.sideToMove = Opp(p.sideToMove) /\ t.prev = Append(p.prev, p.st)
  BY <1>3, <1>5, <1>6 DEF WithSt, other, prev
<1>12. t.st.castlingRights = p.st.castlingRights /\ t.st.epSquare = SQ_NONE
       /\ t.st.checkersBB = p.st.checkersBB /\ IsState(t.st)
  BY <1>2, <1>5, <1>7, <1>8 DEF KeptInfo
<1>. QED BY <1>1, <1>9, <1>10, <1>11, <1>12 DEF Passes

\* A null move out of check leaves a sound position sound.
LEMMA SoundAfterNull ==
    ASSUME NEW p, Sound(p), p.st.checkersBB = {}, NEW t, Passes(t, p)
    PROVE  Sound(t)
<1>1. \E S : t.prev \in Seq(S)
  <2>1. PICK S : p.prev \in Seq(S)
    BY DEF Sound
  <2>. DEFINE T == S \cup {p.st}
  <2>2. p.prev \in Seq(T) /\ p.st \in T
    BY <2>1, SeqMonotonic
  <2>3. Append(p.prev, p.st) \in Seq(T)
    <3>. HIDE DEF T
    <3>. QED BY <2>2, AppendProperties
  <2>. QED BY <2>3 DEF Passes
<1>2. CastlingKept(t)
  BY DEF Sound, Passes, CastlingKept, CastlesFrom
<1>3. t.sideToMove \in Colors
  BY Sides DEF Sound, Passes
<1>. QED BY <1>1, <1>2, <1>3 DEF Sound, Passes, CheckersKept, PassingKept

\* undo_null_move gives the position back.
LEMMA UndoNullIs ==
    ASSUME NEW p, Sound(p), NEW t, Passes(t, p)
    PROVE  undo_null_move(t) = p
<1>. DEFINE u == [t EXCEPT !.st = p.st, !.prev = p.prev, !.sideToMove = p.sideToMove]
<1>1. PICK S : p.prev \in Seq(S)
  BY DEF Sound
<1>2. Last(t.prev) = p.st /\ Front(t.prev) = p.prev /\ Opp(t.sideToMove) = p.sideToMove
  BY <1>1, SequenceEnds, Sides DEF Passes, Sound
<1>3. undo_null_move(t) = u
  BY <1>2 DEF undo_null_move, Passes, Whole, IsPosition, Fields
<1>4. IsPosition(u)
  BY DEF Passes, Whole, IsPosition
<1>5. /\ u.board = t.board /\ u.byTypeBB = t.byTypeBB /\ u.byColorBB = t.byColorBB
      /\ u.pieceCount = t.pieceCount /\ u.castlingRightsMask = t.castlingRightsMask
      /\ u.castlingRookSquare = t.castlingRookSquare /\ u.castlingPath = t.castlingPath
      /\ u.gamePly = t.gamePly /\ u.sideToMove = p.sideToMove /\ u.chess960 = t.chess960
      /\ u.prev = p.prev /\ u.dts = t.dts /\ u.st = p.st
  BY DEF Passes, Whole, IsPosition, Fields
<1>. HIDE DEF u
<1>6. u = p
  BY <1>4, <1>5, SamePosition DEF Passes, Whole, Sound
<1>. QED BY <1>3, <1>6

(* ---- set: a position from its FEN string ---- *)

\* The men of a FEN string, put down square by square.
PutNext(f, q, n) == IF f.board[n - 1] = NO_PIECE THEN q ELSE put_piece(q, f.board[n - 1], n - 1, FALSE)

\* The recursive function of PutPieces satisfies its equation.
LEMMA PutPiecesEquation ==
    ASSUME NEW f, NEW p, p = EmptyPosition(f.chess960), NEW N \in Nat, N = 64
    PROVE  \E g : /\ PutPieces(f) = g[N] /\ g[0] = p
                  /\ \A n \in 1..N : g[n] = PutNext(f, g[n - 1], n)
<1>. DEFINE Body(v, n) == IF n = 0 THEN p ELSE PutNext(f, v[n - 1], n)
            F == CHOOSE v : v = [n \in 0..N |-> Body(v, n)]
            T == {k \in Nat : \E v : v = [n \in 0..k |-> Body(v, n)]}
<1>1. PutPieces(f) = F[N]
  BY Zenon DEF PutPieces, PutNext
<1>2. 0 \in T
  <2>1. [n \in 0..0 |-> Body([i \in 0..0 |-> p], n)] = [n \in 0..0 |-> p]
    OBVIOUS
  <2>. QED BY <2>1
<1>3. ASSUME NEW k \in Nat, k \in T
      PROVE  k + 1 \in T
  <2>1. PICK v : v = [n \in 0..k |-> Body(v, n)]
    BY <1>3
  <2>. DEFINE w == [n \in 0..(k + 1) |-> IF n = k + 1 THEN Body(v, n) ELSE v[n]]
  <2>2. ASSUME NEW n \in 0..(k + 1)
        PROVE  w[n] = Body(w, n)
    <3>1. n = 0 \/ (n - 1 \in 0..k /\ n - 1 # k + 1 /\ w[n - 1] = v[n - 1])
      OBVIOUS
    <3>2. Body(w, n) = Body(v, n)
      BY <3>1
    <3>3. w[n] = Body(v, n)
      <4>1. CASE n = k + 1
        BY <4>1
      <4>2. CASE n # k + 1
        <5>1. n \in 0..k /\ w[n] = v[n]
          BY <4>2
        <5>. HIDE DEF w, Body
        <5>. QED BY <2>1, <5>1
      <4>. QED BY <4>1, <4>2
    <3>. QED BY <3>2, <3>3
  <2>3. w = [n \in 0..(k + 1) |-> Body(w, n)]
    <3>1. w = [n \in 0..(k + 1) |-> w[n]]
      OBVIOUS
    <3>. HIDE DEF w, Body
    <3>. QED BY <2>2, <3>1
  <2>. HIDE DEF w, Body
  <2>. QED BY <2>3
<1>4. N \in T
  <2>1. Nat \subseteq T
    <3>. HIDE DEF T
    <3>. QED BY <1>2, <1>3, Numbers
  <2>. HIDE DEF T
  <2>. QED BY <2>1
<1>5. F = [n \in 0..N |-> Body(F, n)]
  <2>1. \E v : v = [n \in 0..N |-> Body(v, n)]
    BY <1>4
  <2>. HIDE DEF Body
  <2>. QED BY <2>1
<1>6. \A n \in 0..N : F[n] = Body(F, n)
  <2>. HIDE DEF Body, F
  <2>. QED BY <1>5
<1>. HIDE DEF F
<1>. QED BY <1>1, <1>6

\* The positions met as the castling letters are read.
TokensLine(g, f, p, N) ==
    g[0] = p /\ \A n \in 1..N : g[n] = CastlingToken(g[n - 1], f.castling[n][1], f.castling[n][2])

\* The recursive function of CastlingTokens satisfies its equation.
LEMMA TokensEquation ==
    ASSUME NEW f, NEW p, NEW N \in Nat, N = Len(f.castling)
    PROVE  \E g : CastlingTokens(f, p) = g[N] /\ TokensLine(g, f, p, N)
<1>. DEFINE Body(v, n) == IF n = 0 THEN p ELSE CastlingToken(v[n - 1], f.castling[n][1], f.castling[n][2])
            F == CHOOSE v : v = [n \in 0..N |-> Body(v, n)]
            T == {k \in Nat : \E v : v = [n \in 0..k |-> Body(v, n)]}
<1>1. CastlingTokens(f, p) = F[N]
  BY Zenon DEF CastlingTokens
<1>2. 0 \in T
  <2>1. [n \in 0..0 |-> Body([i \in 0..0 |-> p], n)] = [n \in 0..0 |-> p]
    OBVIOUS
  <2>. QED BY <2>1
<1>3. ASSUME NEW k \in Nat, k \in T
      PROVE  k + 1 \in T
  <2>1. PICK v : v = [n \in 0..k |-> Body(v, n)]
    BY <1>3
  <2>. DEFINE w == [n \in 0..(k + 1) |-> IF n = k + 1 THEN Body(v, n) ELSE v[n]]
  <2>2. ASSUME NEW n \in 0..(k + 1)
        PROVE  w[n] = Body(w, n)
    <3>1. n = 0 \/ (n - 1 \in 0..k /\ n - 1 # k + 1 /\ w[n - 1] = v[n - 1])
      OBVIOUS
    <3>2. Body(w, n) = Body(v, n)
      BY <3>1
    <3>3. w[n] = Body(v, n)
      <4>1. CASE n = k + 1
        BY <4>1
      <4>2. CASE n # k + 1
        <5>1. n \in 0..k /\ w[n] = v[n]
          BY <4>2
        <5>. HIDE DEF w, Body
        <5>. QED BY <2>1, <5>1
      <4>. QED BY <4>1, <4>2
    <3>. QED BY <3>2, <3>3
  <2>3. w = [n \in 0..(k + 1) |-> Body(w, n)]
    <3>1. w = [n \in 0..(k + 1) |-> w[n]]
      OBVIOUS
    <3>. HIDE DEF w, Body
    <3>. QED BY <2>2, <3>1
  <2>. HIDE DEF w, Body
  <2>. QED BY <2>3
<1>4. N \in T
  <2>1. Nat \subseteq T
    <3>. HIDE DEF T
    <3>. QED BY <1>2, <1>3, Numbers
  <2>. HIDE DEF T
  <2>. QED BY <2>1
<1>5. F = [n \in 0..N |-> Body(F, n)]
  <2>1. \E v : v = [n \in 0..N |-> Body(v, n)]
    BY <1>4
  <2>. HIDE DEF Body
  <2>. QED BY <2>1
<1>6. \A n \in 0..N : F[n] = Body(F, n)
  <2>. HIDE DEF Body, F
  <2>. QED BY <1>5
<1>. HIDE DEF F
<1>. QED BY <1>1, <1>6 DEF TokensLine

\* The empty board.
NoMen == [s \in Squares |-> NO_PIECE]

\* The empty position that set begins with.
LEMMA EmptyIs ==
    ASSUME NEW x
    PROVE  LET e == EmptyPosition(x)
           IN  /\ Whole(e) /\ e.board = NoMen /\ e.dts = <<>> /\ e.prev = <<>> /\ e.gamePly = 0
               /\ e.st.castlingRights = {} /\ IsState(e.st) /\ e.chess960 = x
               /\ e.castlingRightsMask = [s \in Squares |-> {}]
               /\ e.castlingRookSquare = [cr \in AllCastling |-> 0]
               /\ e.castlingPath = [cr \in AllCastling |-> {}]
<1>. DEFINE e == EmptyPosition(x)
<1>1. /\ e.board = NoMen /\ e.dts = <<>> /\ e.prev = <<>> /\ e.gamePly = 0
      /\ e.st.castlingRights = {} /\ e.chess960 = x
      /\ e.castlingRightsMask = [s \in Squares |-> {}]
      /\ e.castlingRookSquare = [cr \in AllCastling |-> 0]
      /\ e.castlingPath = [cr \in AllCastling |-> {}]
      /\ e.byTypeBB = [pt \in {ALL_PIECES} \cup PieceTypes |-> {}]
      /\ e.byColorBB = [c \in Colors |-> {}] /\ e.pieceCount = [pc \in 0..15 |-> 0]
  BY DEF EmptyPosition, NoMen
<1>2. IsState(e.st)
  BY DEF EmptyPosition, IsState, StateFields
<1>3. IsPosition(e)
  BY DEF EmptyPosition, IsPosition, Fields
<1>. HIDE DEF e
<1>4. ByType(NoMen) = [pt \in {ALL_PIECES} \cup PieceTypes |-> {}] /\ ByColor(NoMen) = [c \in Colors |-> {}]
  BY DEF ByType, ByColor, NoMen
<1>5. Counts(NoMen) = [pc \in 0..15 |-> 0]
  <2>1. \A pc \in 0..15 : Counted(NoMen, pc) = {}
    BY DEF Counted, NoMen
  <2>2. Cardinality({}) = 0
    BY FS_EmptySet
  <2>. QED BY <2>1, <2>2 DEF Counts
<1>6. NoMen \in Boards
  BY DEF NoMen, Boards
<1>7. Whole(e)
  BY <1>1, <1>3, <1>4, <1>5, <1>6 DEF Whole
<1>. QED BY <1>1, <1>2, <1>7 DEF e

\* After the pieces are put down the board is that of the FEN string.
LEMMA PutPiecesIs ==
    ASSUME NEW f, f.board \in Boards
    PROVE  LET q == PutPieces(f)
           IN  /\ Whole(q) /\ q.board = f.board /\ Frame(q, EmptyPosition(f.chess960)) /\ q.dts = <<>>
<1>. DEFINE e == EmptyPosition(f.chess960)
            B(n) == [s \in Squares |-> IF s < n THEN f.board[s] ELSE NO_PIECE]
            Put(q, n) == Whole(q) /\ q.board = B(n) /\ Frame(q, e) /\ q.dts = <<>>
<1>0. PICK N \in Nat : N = 64
  OBVIOUS
<1>1. PICK g : /\ PutPieces(f) = g[N] /\ g[0] = e
               /\ \A n \in 1..N : g[n] = PutNext(f, g[n - 1], n)
  BY <1>0, PutPiecesEquation
<1>2. Put(e, 0)
  <2>1. B(0) = NoMen
    BY DEF NoMen, Squares
  <2>. HIDE DEF B, e
  <2>2. Whole(e) /\ e.board = NoMen /\ e.dts = <<>>
    BY EmptyIs DEF e
  <2>. QED BY <2>1, <2>2 DEF Frame
<1>3. ASSUME NEW n \in Nat, n < N, NEW q, Put(q, n)
      PROVE  Put(PutNext(f, q, n + 1), n + 1)
  <2>. DEFINE pc == f.board[n]
  <2>1. n \in Squares /\ (n + 1) - 1 = n
    BY <1>0, <1>3 DEF Squares
  <2>2. CASE pc = NO_PIECE
    <3>1. B(n + 1) = B(n)
      BY <2>2 DEF Squares
    <3>2. PutNext(f, q, n + 1) = q
      BY <2>1, <2>2 DEF PutNext
    <3>. HIDE DEF B
    <3>. QED BY <1>3, <3>1, <3>2
  <2>3. CASE pc # NO_PIECE
    <3>1. PutNext(f, q, n + 1) = put_piece(q, pc, n, FALSE)
      BY <2>1, <2>3 DEF PutNext
    <3>2. q.board[n] = NO_PIECE
      BY <1>3, <2>1
    <3>3. pc \in Pieces
      BY <2>1, <2>3 DEF Boards
    <3>4. [q.board EXCEPT ![n] = pc] = B(n + 1)
      <4>1. \A s \in Squares : B(n + 1)[s] = IF s = n THEN pc ELSE B(n)[s]
        BY <2>1 DEF Squares
      <4>2. B(n) = q.board
        BY <1>3
      <4>3. [B(n) EXCEPT ![n] = pc] = [s \in Squares |-> IF s = n THEN pc ELSE B(n)[s]]
        OBVIOUS
      <4>4. B(n + 1) = [s \in Squares |-> B(n + 1)[s]]
        OBVIOUS
      <4>. HIDE DEF B, pc
      <4>. QED BY <4>1, <4>2, <4>3, <4>4
    <3>. HIDE DEF pc, B
    <3>5. Rebuilt(put_piece(q, pc, n, FALSE), q, [q.board EXCEPT ![n] = pc], FALSE)
      BY <1>3, <2>1, <3>2, <3>3, PutPieceIs
    <3>. QED BY <1>3, <3>1, <3>4, <3>5 DEF Rebuilt, WithBoard, Frame
  <2>. QED BY <2>2, <2>3
<1>. DEFINE T == {n \in Nat : n <= N => Put(g[n], n)}
<1>4. 0 \in T
  <2>. HIDE DEF Put, e
  <2>. QED BY <1>1, <1>2
<1>5. ASSUME NEW n \in Nat, n \in T
      PROVE  n + 1 \in T
  <2>1. CASE n < N
    <3>1. Put(g[n], n) /\ g[n + 1] = PutNext(f, g[n], n + 1)
      <4>1. n + 1 \in 1..N /\ (n + 1) - 1 = n
        BY <2>1
      <4>. HIDE DEF Put
      <4>. QED BY <1>1, <1>5, <2>1, <4>1
    <3>. HIDE DEF Put
    <3>. QED BY <1>3, <2>1, <3>1
  <2>2. CASE ~(n < N)
    <3>. HIDE DEF Put
    <3>. QED BY <2>2
  <2>. QED BY <2>1, <2>2
<1>6. Put(g[N], N)
  <2>1. Nat \subseteq T
    <3>. HIDE DEF T
    <3>. QED BY <1>4, <1>5, Numbers
  <2>. HIDE DEF Put
  <2>. QED BY <2>1
<1>7. B(N) = f.board
  <2>1. \A s \in Squares : B(N)[s] = f.board[s]
    BY <1>0 DEF Squares
  <2>. QED BY <2>1 DEF Boards
<1>. HIDE DEF B
<1>. QED BY <1>1, <1>6, <1>7

\* A position being set up, its board given, castling letters being read.
Ready(q, b) ==
    /\ Whole(q) /\ q.board = b /\ IsState(q.st) /\ q.dts = <<>> /\ q.prev = <<>>
    /\ q.castlingRightsMask \in [Squares -> SUBSET AllCastling]
    /\ q.castlingRookSquare \in [AllCastling -> Squares]
    /\ q.castlingPath \in [AllCastling -> SUBSET Squares]
    /\ CastlingKept(q)
\* One king of each color.
BothKings(q) == OneKing(q.board) /\ \A c \in Colors : Stands(q, c)

\* A square seen from the other side is a square.
LEMMA RelativeSquares == \A c \in Colors, s \in Squares : relative_square(c, s) \in Squares
BY DEF relative_square, make_square, file_of, rank_of, Squares, Colors

\* The four castling rights are different, two for each color.
LEMMA CastlingCodes ==
    /\ \A c \in Colors : /\ KING_SIDE(c) \in AllCastling /\ QUEEN_SIDE(c) \in AllCastling
                         /\ KING_SIDE(c) # QUEEN_SIDE(c) /\ AnyCastling(c) = {KING_SIDE(c), QUEEN_SIDE(c)}
    /\ \A c, d \in Colors : AnyCastling(c) \cap AnyCastling(d) # {} => c = d
BY DEF KING_SIDE, QUEEN_SIDE, AllCastling, AnyCastling, Colors, WHITE, BLACK

\* A castling letter is skipped or names a rook of its color.
LEMMA RookFound ==
    ASSUME NEW p, NEW c \in Colors, NEW token \in 0..9
    PROVE  \/ CastlingToken(p, c, token) = p
           \/ \E r \in Squares : /\ p.board[r] = make_piece(c, ROOK)
                                 /\ CastlingToken(p, c, token) = set_castling_right(p, c, r)
<1>. DEFINE rook    == make_piece(c, ROOK)
            scan(i) == relative_square(c, IF token = TOKEN_K THEN 7 - i ELSE i)
            kings   == {i \in 0..6 : p.board[scan(i)] = make_piece(c, KING)}
            rooks   == {i \in 0..6 : p.board[scan(i)] = rook /\ \A k \in kings : i < k}
            inner   == {s \in {relative_square(c, i) : i \in 1..6} : p.board[s] = make_piece(c, KING)}
            rsq     == IF token \in {TOKEN_K, TOKEN_Q} THEN {scan(Min(r)) : r \in {rooks} \ {{}}}
                       ELSE {s \in {relative_square(c, token)} : p.board[s] = rook}
            ksq     == IF token \in {TOKEN_K, TOKEN_Q} THEN kings ELSE inner
<1>1. CastlingToken(p, c, token) = IF ksq = {} \/ rsq = {} THEN p ELSE set_castling_right(p, c, lsb(rsq))
  BY DEF CastlingToken
<1>2. \A i \in 0..6 : scan(i) \in Squares
  <2>1. \A i \in 0..6 : i \in Squares /\ 7 - i \in Squares
    BY DEF Squares
  <2>. QED BY <2>1, RelativeSquares
<1>3. rooks \subseteq 0..6 /\ \A i \in rooks : p.board[scan(i)] = rook
  OBVIOUS
<1>. HIDE DEF scan, rooks, ksq
<1>4. rsq \subseteq Squares /\ \A r \in rsq : p.board[r] = rook
  <2>1. CASE token \in {TOKEN_K, TOKEN_Q}
    <3>0. rooks \subseteq Nat
      BY <1>3
    <3>1. rooks # {} => Min(rooks) \in rooks
      BY <3>0, LeastIsIn
    <3>2. rsq = {scan(Min(r)) : r \in {rooks} \ {{}}}
      BY <2>1
    <3>3. \A r \in rsq : rooks # {} /\ r = scan(Min(rooks))
      BY <3>2
    <3>. HIDE DEF rsq, rook
    <3>. QED BY <1>2, <1>3, <3>1, <3>3
  <2>2. CASE token \notin {TOKEN_K, TOKEN_Q}
    <3>1. token \in Squares
      BY <2>2 DEF TOKEN_K, TOKEN_Q, Squares
    <3>. QED BY <2>2, <3>1, RelativeSquares
  <2>. QED BY <2>1, <2>2
<1>. HIDE DEF rsq, rook
<1>5. rsq # {} => lsb(rsq) \in rsq
  <2>1. rsq \subseteq Nat
    BY <1>4 DEF Squares
  <2>. QED BY <2>1, LeastIsIn DEF lsb
<1>. QED BY <1>1, <1>4, <1>5 DEF rook

\* A castling right is set with its rook, path and masks.
LEMMA RightSet ==
    ASSUME NEW p, NEW b, Ready(p, b), BothKings(p), NEW c \in Colors, NEW r \in Squares,
           p.board[r] = make_piece(c, ROOK)
    PROVE  LET q == set_castling_right(p, c, r)
           IN  Ready(q, b) /\ q.sideToMove = p.sideToMove
<1>. DEFINE k   == king(p, c)
            cr  == IF k < r THEN KING_SIDE(c) ELSE QUEEN_SIDE(c)
            kto == relative_square(c, IF cr = KING_SIDE(c) THEN 6 ELSE 2)
            rto == relative_square(c, IF cr = KING_SIDE(c) THEN 5 ELSE 3)
            st1 == [p.st EXCEPT !.castlingRights = @ \cup {cr}]
            mask1 == [p.castlingRightsMask EXCEPT ![k] = @ \cup {cr}, ![r] = @ \cup {cr}]
            rook1 == [p.castlingRookSquare EXCEPT ![cr] = r]
            way == (BetweenBB[r][rto] \cup BetweenBB[k][kto]) \ {k, r}
            path1 == [p.castlingPath EXCEPT ![cr] = way]
            q == [p EXCEPT !.st = st1, !.castlingRightsMask = mask1, !.castlingRookSquare = rook1,
                           !.castlingPath = path1]
            m == MoveOf(k, r, "CASTLING")
<1>1. k \in Squares /\ p.board[k] = make_piece(c, KING) /\ IsPosition(p)
  BY KingIs DEF Ready, BothKings, Whole
<1>2. set_castling_right(p, c, r) = q
  <2>. HIDE DEF k, cr, kto, rto
  <2>1. set_castling_right(p, c, r) =
          [p EXCEPT !.st.castlingRights = @ \cup {cr},
                  !.castlingRightsMask[k] = @ \cup {cr}, !.castlingRightsMask[r] = @ \cup {cr},
                  !.castlingRookSquare[cr] = r,
                  !.castlingPath[cr] = (BetweenBB[r][rto] \cup BetweenBB[k][kto]) \ {k, r}]
    BY DEF set_castling_right, k, cr, kto, rto
  <2>2. q = [p EXCEPT !.st.castlingRights = @ \cup {cr},
                  !.castlingRightsMask[k] = @ \cup {cr}, !.castlingRightsMask[r] = @ \cup {cr},
                  !.castlingRookSquare[cr] = r, !.castlingPath[cr] = way]
    <3>. HIDE DEF way
    <3>. QED OBVIOUS
  <2>. QED BY <2>1, <2>2
<1>3. cr \in AllCastling /\ cr \in AnyCastling(c) /\ (cr = KING_SIDE(c) <=> r > k)
  <2>. HIDE DEF k
  <2>. QED BY <1>1, CastlingCodes DEF Squares
<1>4. kto = CastlingKing(c, m) /\ rto = CastlingRook(c, m) /\ m.from = k /\ m.to = r
  <2>. HIDE DEF k, cr
  <2>. QED BY <1>3, MoveFields DEF CastlingKing, CastlingRook
<1>5. kto \in Squares /\ rto \in Squares
  <2>. HIDE DEF k, cr
  <2>. QED BY RelativeSquares DEF Squares
<1>. HIDE DEF k, cr, kto, rto, m
<1>6. way \subseteq Squares /\ {kto, rto} \ {k, r} \subseteq way
  <2>1. kto \in BetweenBB[k][kto] /\ rto \in BetweenBB[r][rto]
    BY <1>1, <1>5 DEF BetweenBB
  <2>2. BetweenBB[k][kto] \subseteq Squares /\ BetweenBB[r][rto] \subseteq Squares
    BY <1>1, <1>5, BetweenIsClear
  <2>. QED BY <2>1, <2>2
<1>. HIDE DEF way
<1>7. /\ mask1 \in [Squares -> SUBSET AllCastling] /\ rook1 \in [AllCastling -> Squares]
      /\ path1 \in [AllCastling -> SUBSET Squares] /\ IsState(st1)
      /\ st1.castlingRights = p.st.castlingRights \cup {cr}
  BY <1>1, <1>3, <1>6 DEF Ready, IsState, StateFields
<1>8. /\ cr \in mask1[k] /\ cr \in mask1[r] /\ \A s \in Squares : p.castlingRightsMask[s] \subseteq mask1[s]
      /\ rook1[cr] = r /\ path1[cr] = way
      /\ \A x \in AllCastling \ {cr} : rook1[x] = p.castlingRookSquare[x] /\ path1[x] = p.castlingPath[x]
  BY <1>1, <1>3 DEF Ready
<1>. HIDE DEF st1, mask1, rook1, path1
<1>9. /\ IsPosition(q) /\ q.board = p.board /\ q.byTypeBB = p.byTypeBB /\ q.byColorBB = p.byColorBB
      /\ q.pieceCount = p.pieceCount /\ q.sideToMove = p.sideToMove /\ q.dts = p.dts /\ q.prev = p.prev
      /\ q.st = st1 /\ q.castlingRightsMask = mask1 /\ q.castlingRookSquare = rook1 /\ q.castlingPath = path1
  BY <1>1 DEF IsPosition, Fields
<1>. HIDE DEF q
<1>10. ASSUME NEW d \in Colors, NEW x \in AnyCastling(d) \cap q.st.castlingRights
       PROVE  \E j \in Squares : CastlesFrom(q, d, x, j)
  <2>1. CASE x = cr
    <3>1. d = c
      BY <1>3, <1>10, <2>1, CastlingCodes
    <3>2. CastlesFrom(q, c, cr, k)
      <4>1. m = MoveOf(k, rook1[cr], "CASTLING")
        BY <1>8 DEF m
      <4>. QED BY <1>1, <1>4, <1>6, <1>8, <1>9, <4>1 DEF CastlesFrom
    <3>. QED BY <1>1, <2>1, <3>1, <3>2
  <2>2. CASE x # cr
    <3>1. x \in p.st.castlingRights /\ x \in AllCastling
      BY <1>7, <1>9, <1>10, <2>2, CastlingCodes
    <3>2. PICK j \in Squares : CastlesFrom(p, d, x, j)
      BY <1>10, <3>1 DEF Ready, CastlingKept
    <3>3. rook1[x] = p.castlingRookSquare[x] /\ path1[x] = p.castlingPath[x]
      BY <1>8, <2>2, <3>1
    <3>4. CastlesFrom(q, d, x, j)
      BY <1>8, <1>9, <3>2, <3>3 DEF CastlesFrom
    <3>. QED BY <3>4
  <2>. QED BY <2>1, <2>2
<1>11. CastlingKept(q)
  BY <1>10 DEF CastlingKept
<1>12. Whole(q)
  BY <1>9 DEF Whole, Ready
<1>. QED BY <1>2, <1>7, <1>9, <1>11, <1>12 DEF Ready

\* Reading the castling letters.
LEMMA TokensRead ==
    ASSUME NEW f, f.castling \in Seq(Colors \X (0..9)), NEW p, NEW b, Ready(p, b), BothKings(p)
    PROVE  LET q == CastlingTokens(f, p)
           IN  Ready(q, b) /\ q.sideToMove = p.sideToMove
<1>. DEFINE Read(q) == Ready(q, b) /\ q.sideToMove = p.sideToMove
<1>0. PICK N \in Nat : N = Len(f.castling)
  BY LenProperties
<1>1. PICK g : /\ CastlingTokens(f, p) = g[N] /\ g[0] = p
               /\ \A n \in 1..N : g[n] = CastlingToken(g[n - 1], f.castling[n][1], f.castling[n][2])
  <2>1. \E g : CastlingTokens(f, p) = g[N] /\ TokensLine(g, f, p, N)
    BY <1>0, TokensEquation
  <2>. QED BY <2>1 DEF TokensLine
<1>2. ASSUME NEW q, Read(q), NEW c \in Colors, NEW token \in 0..9
      PROVE  Read(CastlingToken(q, c, token))
  <2>1. BothKings(q)
    BY <1>2 DEF Ready, BothKings, Stands, of, by, Whole
  <2>2. CASE CastlingToken(q, c, token) = q
    BY <1>2, <2>2
  <2>3. CASE \E r \in Squares : /\ q.board[r] = make_piece(c, ROOK)
                                /\ CastlingToken(q, c, token) = set_castling_right(q, c, r)
    BY <1>2, <2>1, <2>3, RightSet
  <2>. QED BY <2>2, <2>3, RookFound
<1>. DEFINE T == {n \in Nat : n <= N => Read(g[n])}
<1>3. 0 \in T
  BY <1>1
<1>4. ASSUME NEW n \in Nat, n \in T
      PROVE  n + 1 \in T
  <2>1. ASSUME n + 1 <= N
        PROVE  Read(g[n + 1])
    <3>1. n + 1 \in 1..N /\ (n + 1) - 1 = n /\ n <= N
      BY <2>1
    <3>2. f.castling[n + 1] \in Colors \X (0..9)
      BY <1>0, <3>1, ElementOfSeq
    <3>3. g[n + 1] = CastlingToken(g[n], f.castling[n + 1][1], f.castling[n + 1][2])
      BY <1>1, <3>1
    <3>4. Read(g[n]) /\ f.castling[n + 1][1] \in Colors /\ f.castling[n + 1][2] \in 0..9
      BY <1>4, <3>1, <3>2
    <3>. HIDE DEF Read
    <3>. QED BY <1>2, <3>3, <3>4
  <2>. HIDE DEF Read
  <2>. QED BY <2>1
<1>5. Read(g[N])
  <2>1. Nat \subseteq T
    <3>. HIDE DEF T
    <3>. QED BY <1>3, <1>4, Numbers
  <2>. HIDE DEF Read
  <2>. QED BY <2>1
<1>. QED BY <1>1, <1>5

\* With the men down, a position is ready for the castling letters, and has one
\* king of each color unless it is refused.
LEMMA PlacedIs ==
    ASSUME NEW f, IsFen(f)
    PROVE  LET p == [PutPieces(f) EXCEPT !.sideToMove = f.side]
           IN  /\ Ready(p, f.board) /\ p.sideToMove = f.side
               /\ (~PlacementError(p) => BothKings(p))
<1>. DEFINE q == PutPieces(f)
            p == [q EXCEPT !.sideToMove = f.side]
            e == EmptyPosition(f.chess960)
<1>1. Whole(q) /\ q.board = f.board /\ Frame(q, e) /\ q.dts = <<>>
  BY PutPiecesIs DEF IsFen, Boards
<1>2. /\ e.prev = <<>> /\ e.st.castlingRights = {} /\ IsState(e.st)
      /\ e.castlingRightsMask = [s \in Squares |-> {}]
      /\ e.castlingRookSquare = [cr \in AllCastling |-> 0] /\ e.castlingPath = [cr \in AllCastling |-> {}]
  BY EmptyIs
<1>. HIDE DEF q, e
<1>3. /\ IsPosition(p) /\ p.board = f.board /\ p.byTypeBB = q.byTypeBB /\ p.byColorBB = q.byColorBB
      /\ p.pieceCount = q.pieceCount /\ p.castlingRightsMask = e.castlingRightsMask
      /\ p.castlingRookSquare = e.castlingRookSquare /\ p.castlingPath = e.castlingPath
      /\ p.sideToMove = f.side /\ p.prev = <<>> /\ p.dts = <<>> /\ p.st = e.st
  BY <1>1, <1>2 DEF Whole, IsPosition, Fields, Frame
<1>4. Whole(p)
  BY <1>1, <1>3 DEF Whole
<1>5. Ready(p, f.board)
  <2>1. CastlingKept(p)
    BY <1>2, <1>3 DEF CastlingKept
  <2>2. 0 \in Squares
    BY DEF Squares
  <2>. HIDE DEF p
  <2>. QED BY <1>2, <1>3, <1>4, <2>1, <2>2 DEF Ready
<1>. HIDE DEF p
<1>6. ASSUME ~PlacementError(p), NEW c \in Colors
      PROVE  \E k \in Squares : /\ p.board[k] = make_piece(c, KING)
                                /\ \A s \in Squares : p.board[s] = make_piece(c, KING) => s = k
  <2>. DEFINE K == make_piece(c, KING)
              C == Counted(p.board, K)
  <2>1. K \in Pieces /\ K # NO_PIECE /\ K \in 0..15 /\ \A x \in Pieces : K # make_piece(color_of(x), ALL_PIECES)
    BY PieceParts, PieceCodes, Kinds
  <2>2. C = {s \in Squares : p.board[s] = K}
    <3>. HIDE DEF K
    <3>. QED BY <1>4, <2>1 DEF Counted, Whole, Boards
  <2>3. Cardinality(C) = 1
    <3>1. p.pieceCount[K] = 1
      BY <1>6 DEF PlacementError, count
    <3>. HIDE DEF K
    <3>. QED BY <1>4, <2>1, <3>1 DEF Whole, Counts
  <2>4. PICK k : C = {k}
    <3>. HIDE DEF C
    <3>1. IsFiniteSet(C)
      BY CountsAreNat DEF C
    <3>. QED BY <2>3, <3>1, FS_Singleton
  <2>. QED BY <2>2, <2>4
<1>7. ASSUME ~PlacementError(p)
      PROVE  BothKings(p)
  <2>1. OneKing(p.board)
    BY <1>6, <1>7 DEF OneKing
  <2>2. ASSUME NEW c \in Colors
        PROVE  Stands(p, c)
    <3>1. PICK k \in Squares : p.board[k] = make_piece(c, KING)
      BY <1>6, <1>7
    <3>2. make_piece(c, KING) # NO_PIECE /\ color_of(make_piece(c, KING)) = c /\ type_of(make_piece(c, KING)) = KING
      BY PieceParts, Kinds
    <3>3. k \in of(p, c, {KING})
      BY <1>4, <3>1, <3>2, WholeAgrees, Men, Kinds DEF of, by
    <3>. QED BY <3>3 DEF Stands
  <2>. QED BY <2>1, <2>2 DEF BothKings
<1>. QED BY <1>3, <1>5, <1>7 DEF p, q

\* The en passant square of a FEN string is kept only behind a pawn that may
\* have passed over it.
LEMMA PassingFound ==
    ASSUME NEW p, Whole(p), p.sideToMove \in Colors, NEW ep \in 0..SQ_NONE, NEW e,
           e = EnPassantSquare(p, ep), e # SQ_NONE
    PROVE  /\ e \in Squares /\ p.board[e] = NO_PIECE
           /\ e - pawn_push(p.sideToMove) \in Squares
           /\ p.board[e - pawn_push(p.sideToMove)] = make_piece(Opp(p.sideToMove), PAWN)
<1>. DEFINE c == p.sideToMove
            target == of(p, Opp(c), {PAWN}) \cap {ep + pawn_push(Opp(c))}
<1>1. e = ep /\ target # {} /\ ep \notin pieces(p)
  <2>. HIDE DEF c
  <2>. QED BY DEF EnPassantSquare, c
<1>2. of(p, Opp(c), {PAWN}) = {s \in Squares : p.board[s] # NO_PIECE /\ color_of(p.board[s]) = Opp(c)
                                                  /\ type_of(p.board[s]) = PAWN}
  BY WholeAgrees, Men, Kinds, Sides DEF of, by
<1>3. pawn_push(c) \in {8, -8} /\ pawn_push(Opp(c)) = -pawn_push(c)
  BY PushIs
<1>. HIDE DEF c
<1>4. e \in Squares
  BY <1>1 DEF SQ_NONE, Squares
<1>5. e + pawn_push(Opp(c)) = e - pawn_push(c)
  BY <1>3, <1>4 DEF Squares
<1>6. p.board[e] = NO_PIECE
  BY <1>1, <1>4, WholeAgrees, Men
<1>7. e - pawn_push(c) \in of(p, Opp(c), {PAWN})
  BY <1>1, <1>5
<1>8. p.board[e - pawn_push(c)] = make_piece(Opp(c), PAWN)
  BY <1>2, <1>7, PieceParts DEF Whole, Boards
<1>. QED BY <1>2, <1>4, <1>6, <1>7, <1>8 DEF c

\* set_state writes the checkers and what set_check_info finds.
LEMMA SetStateIs ==
    ASSUME NEW p, Whole(p), IsState(p.st)
    PROVE  LET t == set_state(p)
           IN  /\ WithSt(t, p) /\ IsState(t.st) /\ PinnersStand(t)
               /\ t.st.castlingRights = p.st.castlingRights /\ t.st.epSquare = p.st.epSquare
               /\ t.st.checkersBB = attackers_to(p, king(p, p.sideToMove), pieces(p))
                               \cap p.byColorBB[Opp(p.sideToMove)]
<1>. DEFINE y == set_check_info(p)
            checkers == attackers_to(p, king(p, p.sideToMove), pieces(p)) \cap p.byColorBB[Opp(p.sideToMove)]
            t == set_state(p)
<1>1. WithSt(y, p) /\ IsState(y.st) /\ KeptInfo(y.st, p.st) /\ PinnersStand(y)
  BY SetCheckInfoIs
<1>2. PICK a, b, c, d, e, g :
        t = [y EXCEPT !.st.key = a, !.st.pawnKey = b, !.st.minorPieceKey = c, !.st.nonPawnKey = d,
                      !.st.nonPawnMaterial = e, !.st.checkersBB = checkers, !.st.materialKey = g]
  BY Zenon DEF set_state
<1>. DEFINE s == [y.st EXCEPT !.key = a, !.pawnKey = b, !.minorPieceKey = c, !.nonPawnKey = d,
                      !.nonPawnMaterial = e, !.checkersBB = checkers, !.materialKey = g]
<1>. HIDE DEF y, checkers, t
<1>3. t.st = s
  BY <1>1, <1>2 DEF WithSt, IsPosition, Fields
<1>4. WithSt(t, y)
  BY <1>1, <1>2 DEF WithSt, IsPosition, Fields
<1>5. /\ IsState(s) /\ s.castlingRights = y.st.castlingRights /\ s.epSquare = y.st.epSquare
      /\ s.checkersBB = checkers /\ s.pinners = y.st.pinners
  BY <1>1 DEF IsState, StateFields
<1>. HIDE DEF s
<1>6. WithSt(t, p)
  BY <1>1, <1>4 DEF WithSt
<1>7. PinnersStand(t)
  BY <1>1, <1>3, <1>4, <1>5 DEF PinnersStand, WithSt, pieces
<1>. QED BY <1>1, <1>3, <1>5, <1>6, <1>7 DEF KeptInfo, t, checkers

\* A position that is not refused has passed every test.
LEMMA AcceptedIs ==
    ASSUME NEW f, NEW p, NEW t, Accepted(f, p, t) # FenError
    PROVE  ~PlacementError(p) /\ Accepted(f, p, t) = t
<1>1. ~Refused(f, p, t) /\ Accepted(f, p, t) = t
  BY DEF Accepted
<1>2. PlacementError(p) => Refused(f, p, t)
  BY DEF Refused
<1>. QED BY <1>1, <1>2

\* A position that is set up is sound, unless the FEN string is refused.
LEMMA SetIsSound ==
    ASSUME NEW f, IsFen(f), Stands(set(f), WHITE)
    PROVE  Sound(set(f))
<1>. DEFINE p == [PutPieces(f) EXCEPT !.sideToMove = f.side]
            r == CastlingTokens(f, p)
            t == WithState(f, r)
<1>1. set(f) = Accepted(f, p, t)
  BY DEF set, SetFrom
<1>. HIDE DEF t, r, p
<1>2. ~PlacementError(p) /\ set(f) = t
  <2>1. set(f) # FenError
    <3>1. of(FenError, WHITE, {KING}) = {}
      BY DEF of, FenError, EmptyPosition, Colors
    <3>. QED BY <3>1 DEF Stands
  <2>. QED BY <1>1, <2>1, AcceptedIs
<1>3. Ready(p, f.board) /\ p.sideToMove = f.side /\ BothKings(p)
  BY <1>2, PlacedIs DEF p
<1>4. Ready(r, f.board) /\ r.sideToMove = f.side
  <2>1. f.castling \in Seq(Colors \X (0..9))
    BY DEF IsFen
  <2>. QED BY <1>3, <2>1, TokensRead DEF r
<1>. DEFINE ep == EnPassantSquare(r, f.ep)
            ply == Max({2 * (f.fullmove - 1), 0}) + f.side
            rule == f.rule50
            x == [r EXCEPT !.st.epSquare = ep, !.st.rule50 = rule, !.gamePly = ply]
            s == [r.st EXCEPT !.epSquare = ep, !.rule50 = rule]
<1>5. t = set_state(x)
  BY DEF t, WithState
<1>6. ply \in Int
  <2>1. 2 * (f.fullmove - 1) \in Int /\ f.side \in Int
    BY DEF IsFen, Colors, WHITE, BLACK
  <2>2. Max({2 * (f.fullmove - 1), 0}) \in Int
    BY <2>1, MaxOfTwo
  <2>. QED BY <2>1, <2>2
<1>. HIDE DEF ep, ply, rule
<1>7. /\ IsPosition(x) /\ x.board = r.board /\ x.byTypeBB = r.byTypeBB /\ x.byColorBB = r.byColorBB
      /\ x.pieceCount = r.pieceCount /\ x.castlingRightsMask = r.castlingRightsMask
      /\ x.castlingRookSquare = r.castlingRookSquare /\ x.castlingPath = r.castlingPath
      /\ x.gamePly = ply /\ x.sideToMove = r.sideToMove /\ x.prev = r.prev /\ x.dts = r.dts /\ x.st = s
  BY <1>4 DEF Ready, Whole, IsPosition, Fields
<1>8. IsState(s) /\ s.epSquare = ep /\ s.castlingRights = r.st.castlingRights
  BY <1>4 DEF Ready, IsState, StateFields
<1>. HIDE DEF s, x
<1>9. Whole(x) /\ IsState(x.st)
  BY <1>4, <1>7, <1>8 DEF Whole, Ready
<1>10. /\ WithSt(t, x) /\ IsState(t.st) /\ PinnersStand(t)
       /\ t.st.castlingRights = x.st.castlingRights /\ t.st.epSquare = x.st.epSquare
       /\ t.st.checkersBB = attackers_to(x, king(x, x.sideToMove), pieces(x))
                               \cap x.byColorBB[Opp(x.sideToMove)]
  BY <1>5, <1>9, SetStateIs
<1>. HIDE DEF t
<1>11. Whole(t)
  BY <1>9, <1>10 DEF Whole, WithSt
<1>12. CheckersKept(t)
  BY <1>10 DEF CheckersKept, WithSt, attackers_to, king, pieces, of, by
<1>13. t.prev \in Seq({}) /\ t.dts = <<>> /\ t.gamePly \in Int /\ t.sideToMove \in Colors
  BY <1>4, <1>6, <1>7, <1>10 DEF WithSt, Ready, IsFen
<1>14. OneKing(t.board)
  BY <1>3, <1>4, <1>7, <1>10 DEF WithSt, Ready, BothKings
<1>15. CastlingKept(t)
  BY <1>4, <1>7, <1>8, <1>10 DEF WithSt, Ready, CastlingKept, CastlesFrom
<1>16. PassingKept(t)
  <2>1. t.st.epSquare = ep /\ t.board = r.board /\ t.sideToMove = r.sideToMove
    BY <1>7, <1>8, <1>10 DEF WithSt
  <2>2. ep # SQ_NONE => /\ ep \in Squares /\ r.board[ep] = NO_PIECE
                        /\ ep - pawn_push(r.sideToMove) \in Squares
                        /\ r.board[ep - pawn_push(r.sideToMove)] = make_piece(Opp(r.sideToMove), PAWN)
    <3>1. Whole(r) /\ r.sideToMove \in Colors /\ f.ep \in 0..SQ_NONE
      BY <1>4 DEF Ready, IsFen
    <3>. QED BY <3>1, PassingFound DEF ep
  <2>. QED BY <2>1, <2>2 DEF PassingKept
<1>. QED BY <1>2, <1>10, <1>11, <1>12, <1>13, <1>14, <1>15, <1>16 DEF Sound

(* ---- The line of a walk ---- *)

\* t follows p in the line, by the move m or by a null move.
Step(p, m, t) ==
    IF m = NullMove THEN p.st.checkersBB = {} /\ Passes(t, p)
    ELSE MoveFits(p, m) /\ Follows(t, p, m)
\* line holds the positions the walk has come through, each sound.
Leads(line, n, ms, p) ==
    /\ line[n] = p
    /\ \A i \in 0..n : Sound(line[i])
    /\ \A i \in 1..n : Step(line[i - 1], ms[i], line[i])
\* Such a line leads to where the walk stands.
LineStands ==
    /\ scenario \in Scenarios /\ \E S : moves \in Seq(S)
    /\ \E line : Leads(line, Len(moves), moves, pos) /\ line[0] = set(scenario.fen)

\* gives_check answers yes or no.
LEMMA GivesCheckIs == \A p, m : gives_check(p, m) \in BOOLEAN
BY DEF gives_check

\* A walk starts with a line of one sound position.
LEMMA LineStarts ==
    ASSUME Init, KingsStand
    PROVE  LineStands
<1>. DEFINE line == [i \in {0} |-> pos]
<1>1. scenario \in Scenarios /\ pos = set(scenario.fen) /\ moves = <<>>
  BY DEF Init
<1>2. IsFen(scenario.fen)
  BY <1>1, ScenarioAssumption
<1>3. Stands(pos, WHITE)
  BY DEF KingsStand, Stands, Colors
<1>4. Sound(pos)
  BY <1>1, <1>2, <1>3, SetIsSound
<1>5. Len(moves) = 0 /\ moves \in Seq({})
  BY <1>1
<1>6. Leads(line, 0, moves, pos) /\ line[0] = set(scenario.fen)
  BY <1>1, <1>4 DEF Leads
<1>. HIDE DEF line
<1>. QED BY <1>1, <1>5, <1>6 DEF LineStands

\* A step is added to the line.
LEMMA LineGrows ==
    ASSUME LineStands, NEW m, NEW t, Sound(t), Step(pos, m, t), moves' = Append(moves, m), pos' = t,
           scenario' = scenario
    PROVE  LineStands'
<1>1. PICK S : moves \in Seq(S)
  BY DEF LineStands
<1>2. PICK line : Leads(line, Len(moves), moves, pos) /\ line[0] = set(scenario.fen)
  BY DEF LineStands
<1>. DEFINE n == Len(moves)
            more == [i \in 0..(n + 1) |-> IF i = n + 1 THEN t ELSE line[i]]
<1>3. n \in Nat /\ moves' \in Seq(S \cup {m}) /\ Len(moves') = n + 1 /\ moves'[n + 1] = m
      /\ \A i \in 1..n : moves'[i] = moves[i]
  BY <1>1
<1>. HIDE DEF n
<1>4. Leads(more, n + 1, moves', t)
  <2>1. more[n + 1] = t /\ \A i \in 0..n : more[i] = line[i]
    BY <1>3
  <2>. HIDE DEF more
  <2>2. line[n] = pos /\ (\A i \in 0..n : Sound(line[i]))
        /\ \A i \in 1..n : Step(line[i - 1], moves[i], line[i])
    BY <1>2 DEF Leads, n
  <2>3. ASSUME NEW i \in 0..(n + 1)
        PROVE  Sound(more[i])
    <3>1. i = n + 1 \/ i \in 0..n
      BY <1>3
    <3>. QED BY <2>1, <2>2, <3>1
  <2>4. ASSUME NEW i \in 1..(n + 1)
        PROVE  Step(more[i - 1], moves'[i], more[i])
    <3>1. i = n + 1 \/ i \in 1..n
      BY <1>3
    <3>2. i - 1 \in 0..n
      BY <1>3
    <3>3. CASE i = n + 1
      <4>1. more[i - 1] = pos /\ more[i] = t /\ moves'[i] = m
        BY <1>3, <2>1, <2>2, <3>2, <3>3
      <4>. QED BY <4>1
    <3>4. CASE i \in 1..n
      <4>1. more[i - 1] = line[i - 1] /\ more[i] = line[i] /\ moves'[i] = moves[i]
        BY <1>3, <2>1, <3>2, <3>4
      <4>. QED BY <2>2, <3>4, <4>1
    <3>. QED BY <3>1, <3>3, <3>4
  <2>. QED BY <2>1, <2>3, <2>4 DEF Leads
<1>5. more[0] = set(scenario'.fen) /\ scenario' \in Scenarios
  BY <1>2, <1>3 DEF LineStands
<1>. HIDE DEF more
<1>. QED BY <1>3, <1>4, <1>5 DEF LineStands

\* The last step of the line is taken back.
LEMMA LineShrinks ==
    ASSUME LineStands, moves # <<>>, NEW p, NEW t, pos = t,
           \A q : Sound(q) /\ Step(q, Last(moves), t) => p = q,
           moves' = Front(moves), pos' = p, scenario' = scenario
    PROVE  LineStands'
<1>1. PICK S : moves \in Seq(S)
  BY DEF LineStands
<1>2. PICK line : Leads(line, Len(moves), moves, pos) /\ line[0] = set(scenario.fen)
  BY DEF LineStands
<1>. DEFINE n == Len(moves)
<1>3. n \in Nat \ {0} /\ moves' \in Seq(S) /\ Len(moves') = n - 1 /\ Last(moves) = moves[n]
      /\ \A i \in 1..(n - 1) : moves'[i] = moves[i]
  <2>1. n \in Nat /\ n # 0
    BY <1>1, EmptySeq
  <2>2. moves' = [i \in 1..(n - 1) |-> moves[i]]
    <3>1. Front(moves) = SubSeq(moves, 1, n - 1)
      BY DEF Front
    <3>. QED BY <1>1, <2>1, <3>1
  <2>3. moves' \in Seq(S) /\ Len(moves') = n - 1
    BY <1>1, <2>1, <2>2
  <2>. QED BY <2>1, <2>2, <2>3 DEF Last
<1>. HIDE DEF n
<1>4. line[n] = t /\ (\A i \in 0..n : Sound(line[i])) /\ (\A i \in 1..n : Step(line[i - 1], moves[i], line[i]))
  BY <1>2 DEF Leads, n
<1>5. p = line[n - 1]
  <2>1. n - 1 \in 0..n /\ n \in 1..n
    BY <1>3
  <2>2. Sound(line[n - 1]) /\ Step(line[n - 1], moves[n], line[n])
    BY <1>4, <2>1
  <2>. QED BY <1>3, <1>4, <2>2
<1>6. Leads(line, n - 1, moves', p)
  <2>1. \A i \in 0..(n - 1) : Sound(line[i])
    BY <1>3, <1>4
  <2>2. \A i \in 1..(n - 1) : Step(line[i - 1], moves'[i], line[i])
    BY <1>3, <1>4
  <2>. QED BY <1>5, <2>1, <2>2 DEF Leads
<1>7. line[0] = set(scenario'.fen) /\ scenario' \in Scenarios
  BY <1>2 DEF LineStands
<1>. QED BY <1>3, <1>6, <1>7 DEF LineStands

\* The walk stands on a sound position.
LEMMA LineIsSound == LineStands => Sound(pos)
<1>. SUFFICES ASSUME LineStands PROVE Sound(pos)
  OBVIOUS
<1>1. PICK S : moves \in Seq(S)
  BY DEF LineStands
<1>2. PICK line : Leads(line, Len(moves), moves, pos)
  BY DEF LineStands
<1>3. Len(moves) \in 0..Len(moves)
  BY <1>1
<1>. QED BY <1>2, <1>3 DEF Leads

\* Taking a move or a null move back gives the position it was done on.
LEMMA TakenBack ==
    ASSUME NEW p, Sound(p), NEW m, NEW t, Step(p, m, t)
    PROVE  IF m = NullMove THEN undo_null_move(t) = p ELSE undo_move(t, m) = p
<1>1. CASE m = NullMove
  <2>1. undo_null_move(t) = p
    BY <1>1, UndoNullIs DEF Step
  <2>. QED BY <1>1, <2>1
<1>2. CASE m # NullMove
  <2>1. Fits(p.board, p.sideToMove, m) /\ Follows(t, p, m)
    BY <1>2 DEF Step, MoveFits
  <2>2. PICK S : p.prev \in Seq(S)
    BY DEF Sound
  <2>3. undo_move(t, m) = [p EXCEPT !.dts = <<>>]
    BY <2>1, <2>2, UndoMoveIs DEF Sound
  <2>. DEFINE q == [p EXCEPT !.dts = <<>>]
  <2>4. IsPosition(p) /\ p.dts = <<>>
    BY DEF Sound, Whole
  <2>5. q = p
    BY <2>4 DEF IsPosition, Fields
  <2>. QED BY <1>2, <2>3, <2>5
<1>. QED BY <1>1, <1>2

\* Every step of the walk keeps the line: a move and a null move add to it, and
\* taking one back finds the position the line has before.
LEMMA LineStep ==
    ASSUME LineStands, KingsStand, [Next]_vars
    PROVE  LineStands'
<1>1. Sound(pos) /\ pos.sideToMove \in Colors
  BY LineIsSound DEF Sound
<1>2. Stands(pos, pos.sideToMove)
  BY <1>1 DEF KingsStand, Stands
<1>3. ASSUME pos' = pos, moves' = moves, scenario' = scenario
      PROVE  LineStands'
  BY <1>3 DEF LineStands
<1>4. CASE DoMove
  <2>1. PICK m \in LegalMoves(pos) :
          /\ pos' = do_move(pos, m, gives_check(pos, m)).pos
          /\ moves' = Append(moves, m) /\ scenario' = scenario
    BY <1>4 DEF DoMove
  <2>2. MoveFits(pos, m)
    BY <1>1, <1>2, LegalMovesFit
  <2>3. Follows(pos', pos, m)
    <3>1. gives_check(pos, m) \in BOOLEAN
      BY GivesCheckIs
    <3>. QED BY <1>1, <2>1, <2>2, <3>1, DoMoveIs DEF Sound, MoveFits
  <2>4. Sound(pos')
    BY <1>1, <2>2, <2>3, SoundAfterMove
  <2>5. m # NullMove
    BY <2>2 DEF MoveFits, Fits, NullMove, Move, Squares, SQ_NONE
  <2>6. Step(pos, m, pos')
    BY <2>2, <2>3, <2>5 DEF Step
  <2>. QED BY <2>1, <2>4, <2>6, LineGrows
<1>5. CASE DoNullMove
  <2>1. pos.st.checkersBB = {} /\ pos' = do_null_move(pos) /\ moves' = Append(moves, NullMove) /\ scenario' = scenario
    BY <1>5 DEF DoNullMove
  <2>2. Passes(pos', pos)
    BY <1>1, <2>1, NullMoveIs DEF Sound
  <2>3. Sound(pos')
    BY <1>1, <2>1, <2>2, SoundAfterNull
  <2>4. Step(pos, NullMove, pos')
    BY <2>1, <2>2 DEF Step
  <2>. QED BY <2>1, <2>3, <2>4, LineGrows
<1>6. CASE UndoMove
  <2>1. moves # <<>> /\ Last(moves) # NullMove /\ pos' = undo_move(pos, Last(moves)) /\ moves' = Front(moves)
        /\ scenario' = scenario
    BY <1>6 DEF UndoMove
  <2>2. \A q : Sound(q) /\ Step(q, Last(moves), pos) => pos' = q
    BY <2>1, TakenBack
  <2>. QED BY <2>1, <2>2, LineShrinks
<1>7. CASE UndoNullMove
  <2>1. moves # <<>> /\ Last(moves) = NullMove /\ pos' = undo_null_move(pos) /\ moves' = Front(moves)
        /\ scenario' = scenario
    BY <1>7 DEF UndoNullMove
  <2>2. \A q : Sound(q) /\ Step(q, Last(moves), pos) => pos' = q
    BY <2>1, TakenBack
  <2>. QED BY <2>1, <2>2, LineShrinks
<1>8. CASE Evaluate
  BY <1>3, <1>8 DEF Evaluate
<1>9. CASE Pick
  BY <1>3, <1>9 DEF Pick
<1>10. CASE NextMove
  BY <1>3, <1>10 DEF NextMove
<1>11. CASE SkipQuiets
  BY <1>3, <1>11 DEF SkipQuiets
<1>12. CASE UNCHANGED vars
  BY <1>3, <1>12 DEF vars
<1>. QED BY <1>4, <1>5, <1>6, <1>7, <1>8, <1>9, <1>10, <1>11, <1>12 DEF Next

\* Where the line stands, a move can be done and taken back.
LEMMA LineKeepsPositions == LineStands /\ KingsStand => PositionsAreKept
<1>. SUFFICES ASSUME LineStands, KingsStand, NEW m \in LegalMoves(pos), NEW q, q = Done(m).pos
              PROVE  /\ q.board = After(pos.board, m)
                     /\ \A pc \in Pieces : of(q, color_of(pc), {type_of(pc)}) = {s \in Squares : q.board[s] = pc}
                     /\ \A pc \in Pieces : q.pieceCount[pc] = Cardinality({s \in Squares : q.board[s] = pc})
                     /\ undo_move(q, m) = [pos EXCEPT !.dts = <<>>]
  BY DEF PositionsAreKept
<1>1. Sound(pos) /\ pos.sideToMove \in Colors
  BY LineIsSound DEF Sound
<1>2. MoveFits(pos, m)
  <2>1. Stands(pos, pos.sideToMove)
    BY <1>1 DEF KingsStand, Stands
  <2>. QED BY <1>1, <2>1, LegalMovesFit
<1>3. Follows(q, pos, m)
  <2>1. gives_check(pos, m) \in BOOLEAN
    BY GivesCheckIs
  <2>2. q = do_move(pos, m, gives_check(pos, m)).pos
    BY DEF Done
  <2>. QED BY <1>1, <1>2, <2>1, <2>2, DoMoveIs DEF Sound, MoveFits
<1>4. undo_move(q, m) = [pos EXCEPT !.dts = <<>>]
  <2>1. PICK S : pos.prev \in Seq(S)
    BY <1>1 DEF Sound
  <2>. QED BY <1>1, <1>2, <1>3, <2>1, UndoMoveIs DEF Sound, MoveFits
<1>5. Whole(q) /\ q.board = After(pos.board, m)
  BY <1>3 DEF Follows
<1>6. ASSUME NEW pc \in Pieces
      PROVE  of(q, color_of(pc), {type_of(pc)}) = {s \in Squares : q.board[s] = pc}
  <2>1. /\ pc # NO_PIECE /\ type_of(pc) \in PieceTypes /\ color_of(pc) \in Colors
        /\ make_piece(color_of(pc), type_of(pc)) = pc
    BY PieceParts
  <2>. DEFINE pt == type_of(pc)
              c == color_of(pc)
  <2>2. of(q, c, {pt}) =
          {s \in Squares : q.board[s] # NO_PIECE /\ color_of(q.board[s]) = c /\ type_of(q.board[s]) = pt}
    <3>. HIDE DEF pt, c
    <3>. QED BY <1>5, <2>1, WholeAgrees, Men DEF of, by, pt, c
  <2>3. \A s \in Squares : q.board[s] # NO_PIECE => q.board[s] = make_piece(color_of(q.board[s]), type_of(q.board[s]))
    BY <1>5, PieceParts DEF Whole, Boards
  <2>. QED BY <2>1, <2>2, <2>3
<1>7. ASSUME NEW pc \in Pieces
      PROVE  q.pieceCount[pc] = Cardinality({s \in Squares : q.board[s] = pc})
  <2>1. pc # NO_PIECE /\ pc \in 0..15 /\ \A x \in Pieces : pc # make_piece(color_of(x), ALL_PIECES)
    BY PieceParts, PieceCodes
  <2>2. Counted(q.board, pc) = {s \in Squares : q.board[s] = pc}
    BY <1>5, <2>1 DEF Counted, Whole, Boards
  <2>3. q.pieceCount[pc] = Cardinality(Counted(q.board, pc))
    BY <1>5, <2>1 DEF Whole, Counts
  <2>. QED BY <2>2, <2>3
<1>. QED BY <1>4, <1>5, <1>6, <1>7

\* Where the line stands, see_ge compares the value of the exchange.
LEMMA LineSeesTheExchange == LineStands /\ KingsStand => SeeIsTheExchange
<1>. SUFFICES ASSUME LineStands, KingsStand, NEW m \in LegalMoves(pos), m.type = "NORMAL"
              PROVE  \A value \in {ExchangeOf(pos, m)} :
                       \A t \in {value - 1, value, value + 1, 0, -100, 300} :
                         see_ge(pos, m, t) = (value >= t)
  BY DEF SeeIsTheExchange
<1>1. Sound(pos) /\ pos.sideToMove \in Colors
  BY LineIsSound DEF Sound
<1>2. MoveFits(pos, m)
  <2>1. Stands(pos, pos.sideToMove)
    BY <1>1 DEF KingsStand, Stands
  <2>. QED BY <1>1, <2>1, LegalMovesFit
<1>3. BoardsAgree(pos) /\ PinnersStand(pos)
  BY <1>1, WholeAgrees DEF Sound
<1>4. m.from \in pieces(pos) /\ m.to \in Squares \ {m.from}
  BY <1>2, <1>3, Men DEF MoveFits, Fits
<1>5. \A t \in Int : ExchangeOf(pos, m) \in Int /\ see_ge(pos, m, t) = (ExchangeOf(pos, m) >= t)
  BY <1>1, <1>3, <1>4, SeeComparesTheExchange
<1>. DEFINE v == ExchangeOf(pos, m)
<1>6. v \in Int
  BY <1>5
<1>. HIDE DEF v
<1>7. \A t \in {v - 1, v, v + 1, 0, -100, 300} : t \in Int
  BY <1>6
<1>. QED BY <1>5, <1>7 DEF v

(* ---- What the generator makes, in terms of the board ---- *)

\* What the generator asks of the board: its pawns, the free squares, the squares
\* a type of moves may go to, and those the king may.
Pawns(p) == of(p, p.sideToMove, {PAWN})
Free(p) == Squares \ pieces(p)
Target(p, type) ==
    CASE type = "EVASIONS" -> BetweenBB[king(p, p.sideToMove)][lsb(p.st.checkersBB)]
      [] type = "NON_EVASIONS" -> Squares \ p.byColorBB[p.sideToMove]
      [] type = "CAPTURES" -> p.byColorBB[Opp(p.sideToMove)]
      [] type = "QUIETS" -> Free(p)
KingTarget(p, type) == IF type = "EVASIONS" THEN Squares \ p.byColorBB[p.sideToMove] ELSE Target(p, type)
\* What pawns may take, and where they may go without a capture.
Enemies(p, type) == IF type = "EVASIONS" THEN p.st.checkersBB ELSE p.byColorBB[Opp(p.sideToMove)]
OpenTo(p, type, target) == IF type = "EVASIONS" THEN Free(p) \cap target ELSE Free(p)
\* A pawn's step from a to b, single or double.
Steps(p, a, b) ==
    LET up == pawn_push(p.sideToMove)
    IN  \/ b = a + up
        \/ b = a + 2 * up /\ a + up \in Free(p) /\ relative_rank(p.sideToMove, a + up) = 2
\* A pawn move from a to b.
PawnWay(p, type, target, a, b, m) ==
    LET c == p.sideToMove
        last == relative_rank(c, a) = 6
    IN  \/ last /\ b \in Enemies(p, type) \cap PawnAttacks[c][a] /\ m \in make_promotions(type, a, b, TRUE)
        \/ last /\ b \in OpenTo(p, type, target) /\ b = a + pawn_push(c) /\ m \in make_promotions(type, a, b, FALSE)
        \/ ~last /\ type # "CAPTURES" /\ b \in OpenTo(p, type, target) /\ Steps(p, a, b) /\ m = Move(a, b)
        \/ ~last /\ type # "QUIETS" /\ b \in Enemies(p, type) \cap PawnAttacks[c][a] /\ m = Move(a, b)
        \/ /\ ~last /\ type # "QUIETS" /\ b = p.st.epSquare /\ p.st.epSquare # SQ_NONE
           /\ ~(type = "EVASIONS" /\ p.st.epSquare + pawn_push(c) \in target)
           /\ a \in PawnAttacks[Opp(c)][b] /\ m = MoveOf(a, b, "EN_PASSANT")

\* A square of a shifted set, and the one it comes from.
LEMMA ShiftedFrom ==
    ASSUME NEW b \in SUBSET Squares, NEW d \in Int, NEW t \in shift(b, d)
    PROVE  t \in Squares /\ t - d \in b /\ t \in shift({t - d}, d) /\ t = (t - d) + d
<1>1. PICK s \in b : t = s + d /\ s + d \in Squares /\ Abs(file_of(s + d) - file_of(s)) <= 1
  BY DEF shift
<1>2. s \in Squares
  OBVIOUS
<1>3. t - d = s
  BY <1>1, <1>2 DEF Squares
<1>4. t \in shift({s}, d)
  BY <1>1 DEF shift
<1>. QED BY <1>1, <1>3, <1>4

\* A square whose image stays on the board is in the shifted set.
LEMMA ShiftedTo ==
    ASSUME NEW b \in SUBSET Squares, NEW d \in Int, NEW s \in b, NEW t \in shift({s}, d)
    PROVE  t \in shift(b, d) /\ t - d = s /\ t = s + d
<1>1. t = s + d /\ s + d \in Squares /\ Abs(file_of(s + d) - file_of(s)) <= 1
  BY DEF shift
<1>2. t - d = s
  BY <1>1 DEF Squares
<1>. QED BY <1>1, <1>2 DEF shift

\* A push reaches the square ahead, if there is one.
LEMMA PushAhead ==
    ASSUME NEW s \in Squares, NEW d \in {8, -8}
    PROVE  \A t \in Squares : t \in shift({s}, d) <=> t = s + d
<1>1. ASSUME s + d \in Squares
      PROVE  file_of(s + d) = file_of(s)
  BY <1>1 DEF file_of, Squares
<1>2. file_of(s) \in Int
  BY DEF file_of, Squares
<1>. QED BY <1>1, <1>2 DEF shift, Abs

\* A pawn's move, from its square to another.
LEMMA PawnMovesAre ==
    ASSUME NEW p, Whole(p), p.sideToMove \in Colors, p.st.epSquare # SQ_NONE => p.st.epSquare \in Squares,
           NEW type \in GenTypes, type = "EVASIONS" => p.st.checkersBB \subseteq Squares,
           NEW target, NEW m
    PROVE  m \in generate_pawn_moves(p, type, target) <=>
             \E a \in Pawns(p), b \in Squares : PawnWay(p, type, target, a, b, m)
<1>. DEFINE c == p.sideToMove
            up == pawn_push(c)
            sds == {up + EAST, up - EAST}
            free == Squares \ pieces(p)
            enemies == IF type = "EVASIONS" THEN p.st.checkersBB ELSE p.byColorBB[Opp(c)]
            blocks(b) == IF type = "EVASIONS" THEN b \cap target ELSE b
            pawns == of(p, c, {PAWN})
            on7 == {s \in pawns : relative_rank(c, s) = 6}
            not7 == pawns \ on7
            single == shift(not7, up) \cap free
            third == {s \in single : relative_rank(c, s) = 2}
            double == shift(third, up) \cap free
            ep == p.st.epSquare
            splat(b, d) == {Move(s - d, s) : s \in b}
            pushes == splat(blocks(single), up) \cup splat(blocks(double), 2 * up)
            taking == {make_promotions(type, x[1] - x[2], x[1], TRUE) :
                          x \in {y \in (Squares \X sds) : y[1] \in shift(on7, y[2]) \cap enemies}}
            going == {make_promotions(type, s - up, s, FALSE) : s \in blocks(shift(on7, up) \cap free)}
            captures == UNION {splat(shift(not7, d) \cap enemies, d) : d \in sds}
            enPassant == IF ep = SQ_NONE \/ (type = "EVASIONS" /\ ep + up \in target) THEN {}
                         ELSE {MoveOf(s, ep, "EN_PASSANT") : s \in not7 \cap PawnAttacks[Opp(c)][ep]}
            R1 == \E a \in pawns, b \in Squares :
                    relative_rank(c, a) = 6 /\ b \in enemies \cap PawnAttacks[c][a] /\ m \in make_promotions(type, a, b, TRUE)
            R2 == \E a \in pawns, b \in Squares :
                    relative_rank(c, a) = 6 /\ b \in blocks(free) /\ b = a + up /\ m \in make_promotions(type, a, b, FALSE)
            R3 == \E a \in pawns, b \in Squares :
                    ~(relative_rank(c, a) = 6) /\ b \in blocks(free) /\ Steps(p, a, b) /\ m = Move(a, b)
            R4 == \E a \in pawns, b \in Squares :
                    ~(relative_rank(c, a) = 6) /\ b \in enemies \cap PawnAttacks[c][a] /\ m = Move(a, b)
            R5 == \E a \in pawns, b \in Squares :
                    /\ ~(relative_rank(c, a) = 6) /\ b = ep /\ ep # SQ_NONE
                    /\ ~(type = "EVASIONS" /\ ep + up \in target)
                    /\ a \in PawnAttacks[Opp(c)][b] /\ m = MoveOf(a, b, "EN_PASSANT")
<1>1. generate_pawn_moves(p, type, target) =
         (UNION (taking \cup going)) \cup (IF type = "CAPTURES" THEN {} ELSE pushes)
           \cup (IF type = "QUIETS" THEN {} ELSE captures \cup enPassant)
  BY DEF generate_pawn_moves
<1>2. (\E a \in Pawns(p), b \in Squares : PawnWay(p, type, target, a, b, m)) <=>
         R1 \/ R2 \/ (type # "CAPTURES" /\ R3) \/ (type # "QUIETS" /\ (R4 \/ R5))
  <2>1. Pawns(p) = pawns /\ Enemies(p, type) = enemies /\ OpenTo(p, type, target) = blocks(free)
    BY DEF Pawns, Enemies, OpenTo, Free
  <2>. HIDE DEF pawns, enemies, blocks, free
  <2>. QED BY <2>1 DEF PawnWay
<1>3. /\ c \in Colors /\ up \in {8, -8} /\ up \in Int /\ sds \subseteq Int
      /\ pawns \subseteq Squares /\ enemies \subseteq Squares /\ free \subseteq Squares
  <2>1. pawns \subseteq Squares /\ p.byColorBB[Opp(c)] \subseteq Squares
    BY WholeAgrees, Men, Kinds, Sides DEF of, by
  <2>. QED BY <2>1, PushIs
<1>4. /\ on7 \in SUBSET Squares /\ not7 \in SUBSET Squares /\ third \in SUBSET Squares
      /\ \A s : s \in on7 <=> s \in pawns /\ relative_rank(c, s) = 6
      /\ \A s : s \in not7 <=> s \in pawns /\ ~(relative_rank(c, s) = 6)
      /\ \A s : s \in third <=> s \in shift(not7, up) /\ s \in free /\ relative_rank(c, s) = 2
  <2>1. third \subseteq free /\ on7 \subseteq pawns /\ not7 \subseteq pawns
    OBVIOUS
  <2>2. \A s : s \in third <=> s \in shift(not7, up) /\ s \in free /\ relative_rank(c, s) = 2
    <3>. HIDE DEF free, not7, up, c
    <3>. QED OBVIOUS
  <2>. HIDE DEF third
  <2>. QED BY <1>3, <2>1, <2>2
<1>5. /\ \A b : blocks(b) \subseteq b
      /\ \A s \in free : s \in blocks(free) <=> (type = "EVASIONS" => s \in target)
      /\ \A b : \A s \in b : s \in blocks(b) <=> (type = "EVASIONS" => s \in target)
  OBVIOUS
<1>6. \A a \in Squares : \A b : b \in PawnAttacks[c][a] <=> \E d \in sds : b \in shift({a}, d)
  BY <1>3 DEF PawnAttacks
<1>. HIDE DEF c, up, free, enemies, pawns, on7, not7, ep, blocks, third
<1>7. m \in UNION taking <=> R1
  <2>1. m \in UNION taking <=> \E t \in Squares, d \in sds : /\ t \in shift(on7, d) \cap enemies
                                                             /\ m \in make_promotions(type, t - d, t, TRUE)
    <3>1. ASSUME m \in UNION taking
          PROVE  \E t \in Squares, d \in sds : t \in shift(on7, d) \cap enemies /\ m \in make_promotions(type, t - d, t, TRUE)
      <4>1. PICK M \in taking : m \in M
        BY <3>1
      <4>. QED BY <4>1
    <3>2. ASSUME NEW t \in Squares, NEW d \in sds, t \in shift(on7, d) \cap enemies,
                 m \in make_promotions(type, t - d, t, TRUE)
          PROVE  m \in UNION taking
      <4>1. make_promotions(type, t - d, t, TRUE) \in taking
        <5>1. <<t, d>> \in {y \in (Squares \X sds) : y[1] \in shift(on7, y[2]) \cap enemies}
              /\ <<t, d>>[1] = t /\ <<t, d>>[2] = d
          BY <3>2
        <5>. QED BY <5>1
      <4>. QED BY <3>2, <4>1
    <3>. HIDE DEF taking
    <3>. QED BY <3>1, <3>2
  <2>2. ASSUME NEW t \in Squares, NEW d \in sds, t \in shift(on7, d) \cap enemies,
               m \in make_promotions(type, t - d, t, TRUE)
        PROVE  R1
    <3>1. d \in Int
      BY <1>3
    <3>2. t - d \in on7 /\ t \in shift({t - d}, d)
      BY <1>4, <2>2, <3>1, ShiftedFrom
    <3>3. t - d \in Squares /\ t \in PawnAttacks[c][t - d]
      BY <1>3, <1>4, <1>6, <3>2
    <3>. QED BY <1>4, <2>2, <3>2, <3>3
  <2>3. ASSUME NEW a \in pawns, NEW b \in Squares, relative_rank(c, a) = 6, b \in enemies \cap PawnAttacks[c][a],
               m \in make_promotions(type, a, b, TRUE)
        PROVE  \E t \in Squares, d \in sds : t \in shift(on7, d) \cap enemies /\ m \in make_promotions(type, t - d, t, TRUE)
    <3>1. a \in on7 /\ a \in Squares
      BY <1>3, <1>4, <2>3
    <3>2. PICK d \in sds : b \in shift({a}, d)
      BY <1>6, <2>3, <3>1
    <3>3. d \in Int
      BY <1>3
    <3>4. b \in shift(on7, d) /\ b - d = a
      BY <1>4, <3>1, <3>2, <3>3, ShiftedTo
    <3>. QED BY <2>3, <3>4
  <2>. HIDE DEF taking, sds
  <2>. QED BY <2>1, <2>2, <2>3
<1>8. m \in UNION going <=> R2
  <2>1. m \in UNION going <=> \E s \in blocks(shift(on7, up) \cap free) : m \in make_promotions(type, s - up, s, FALSE)
    OBVIOUS
  <2>2. \A s : s \in blocks(shift(on7, up) \cap free) <=> s \in shift(on7, up) /\ s \in blocks(free)
    BY <1>5
  <2>3. \A a \in on7 : a \in Squares /\ a \in pawns /\ relative_rank(c, a) = 6
    BY <1>4
  <2>4. ASSUME NEW s \in shift(on7, up), s \in blocks(free), m \in make_promotions(type, s - up, s, FALSE)
        PROVE  R2
    <3>1. s \in Squares /\ s - up \in on7 /\ s = (s - up) + up
      BY <1>3, <1>4, ShiftedFrom
    <3>. QED BY <2>3, <2>4, <3>1
  <2>5. ASSUME NEW a \in pawns, NEW b \in Squares, relative_rank(c, a) = 6, b \in blocks(free), b = a + up,
               m \in make_promotions(type, a, b, FALSE)
        PROVE  b \in shift(on7, up) /\ m \in make_promotions(type, b - up, b, FALSE)
    <3>1. a \in on7 /\ a \in Squares
      BY <1>3, <1>4, <2>5
    <3>2. b \in shift({a}, up)
      BY <1>3, <2>5, <3>1, PushAhead
    <3>3. b \in shift(on7, up) /\ b - up = a
      BY <1>3, <1>4, <3>1, <3>2, ShiftedTo
    <3>. QED BY <2>5, <3>3
  <2>. HIDE DEF going
  <2>. QED BY <2>1, <2>2, <2>4, <2>5
<1>9. m \in pushes <=> R3
  <2>1. m \in pushes <=> \/ \E s \in blocks(single) : m = Move(s - up, s)
                         \/ \E s \in blocks(double) : m = Move(s - 2 * up, s)
    OBVIOUS
  <2>2. /\ \A s : s \in blocks(single) <=> s \in shift(not7, up) /\ s \in blocks(free)
        /\ \A s : s \in blocks(double) <=> s \in shift(third, up) /\ s \in blocks(free)
    BY <1>5
  <2>3. \A a \in not7 : a \in Squares /\ a \in pawns /\ ~(relative_rank(c, a) = 6)
    BY <1>4
  <2>4. \A a, b : Steps(p, a, b) <=> b = a + up \/ (b = a + 2 * up /\ a + up \in free /\ relative_rank(c, a + up) = 2)
    BY DEF Steps, Free, up, c, free
  <2>5. ASSUME NEW s \in shift(not7, up), s \in blocks(free), m = Move(s - up, s)
        PROVE  R3
    <3>1. s \in Squares /\ s - up \in not7 /\ s = (s - up) + up
      BY <1>3, <1>4, ShiftedFrom
    <3>. QED BY <2>3, <2>4, <2>5, <3>1
  <2>6. ASSUME NEW s \in shift(third, up), s \in blocks(free), m = Move(s - 2 * up, s)
        PROVE  R3
    <3>1. s \in Squares /\ s - up \in third
      BY <1>3, <1>4, ShiftedFrom
    <3>2. (s - up) - up \in not7 /\ s - up \in free /\ relative_rank(c, s - up) = 2 /\ s - up \in Squares
      BY <1>3, <1>4, <3>1, ShiftedFrom
    <3>3. (s - up) - up = s - 2 * up /\ (s - 2 * up) + up = s - up /\ s = (s - 2 * up) + 2 * up
      BY <1>3, <3>1 DEF Squares
    <3>. QED BY <2>3, <2>4, <2>6, <3>1, <3>2, <3>3
  <2>7. ASSUME NEW a \in pawns, NEW b \in Squares, ~(relative_rank(c, a) = 6), b \in blocks(free), Steps(p, a, b),
               m = Move(a, b)
        PROVE  \/ b \in shift(not7, up) /\ m = Move(b - up, b)
               \/ b \in shift(third, up) /\ m = Move(b - 2 * up, b)
    <3>1. a \in not7 /\ a \in Squares
      BY <1>3, <1>4, <2>7
    <3>2. CASE b = a + up
      <4>1. b \in shift({a}, up)
        BY <1>3, <3>1, <3>2, PushAhead
      <4>2. b \in shift(not7, up) /\ b - up = a
        BY <1>3, <1>4, <3>1, <4>1, ShiftedTo
      <4>. QED BY <2>7, <4>2
    <3>3. CASE b = a + 2 * up /\ a + up \in free /\ relative_rank(c, a + up) = 2
      <4>1. a + up \in Squares /\ b = (a + up) + up /\ b - 2 * up = a
        BY <1>3, <3>1, <3>3 DEF Squares
      <4>2. a + up \in shift({a}, up) /\ b \in shift({a + up}, up)
        BY <1>3, <3>1, <4>1, PushAhead
      <4>3. a + up \in shift(not7, up)
        BY <1>3, <1>4, <3>1, <4>2, ShiftedTo
      <4>4. a + up \in third
        BY <1>4, <3>3, <4>3
      <4>5. b \in shift(third, up)
        BY <1>3, <1>4, <4>2, <4>4, ShiftedTo
      <4>. QED BY <2>7, <4>1, <4>5
    <3>. QED BY <2>4, <2>7, <3>2, <3>3
  <2>. HIDE DEF pushes, single, double
  <2>. QED BY <2>1, <2>2, <2>5, <2>6, <2>7
<1>10. m \in captures <=> R4
  <2>1. m \in captures <=> \E d \in sds : \E s \in shift(not7, d) \cap enemies : m = Move(s - d, s)
    OBVIOUS
  <2>2. ASSUME NEW d \in sds, NEW s \in shift(not7, d) \cap enemies, m = Move(s - d, s)
        PROVE  R4
    <3>1. d \in Int
      BY <1>3
    <3>2. s \in Squares /\ s - d \in not7 /\ s \in shift({s - d}, d)
      BY <1>4, <3>1, ShiftedFrom
    <3>3. s - d \in Squares /\ s - d \in pawns /\ ~(relative_rank(c, s - d) = 6) /\ s \in PawnAttacks[c][s - d]
      BY <1>4, <1>6, <3>2
    <3>. QED BY <2>2, <3>2, <3>3
  <2>3. ASSUME NEW a \in pawns, NEW b \in Squares, ~(relative_rank(c, a) = 6), b \in enemies \cap PawnAttacks[c][a],
               m = Move(a, b)
        PROVE  \E d \in sds : \E s \in shift(not7, d) \cap enemies : m = Move(s - d, s)
    <3>1. a \in not7 /\ a \in Squares
      BY <1>3, <1>4, <2>3
    <3>2. PICK d \in sds : b \in shift({a}, d)
      BY <1>6, <2>3, <3>1
    <3>3. d \in Int
      BY <1>3
    <3>4. b \in shift(not7, d) /\ b - d = a
      BY <1>4, <3>1, <3>2, <3>3, ShiftedTo
    <3>. QED BY <2>3, <3>4
  <2>. HIDE DEF captures, sds
  <2>. QED BY <2>1, <2>2, <2>3
<1>11. m \in enPassant <=> R5
  <2>1. ep # SQ_NONE => ep \in Squares
    BY DEF ep
  <2>. QED BY <1>3, <1>4, <2>1
<1>. HIDE DEF taking, going, pushes, captures, enPassant, R1, R2, R3, R4, R5
<1>12. m \in UNION (taking \cup going) <=> m \in UNION taking \/ m \in UNION going
  OBVIOUS
<1>. QED BY <1>1, <1>2, <1>7, <1>8, <1>9, <1>10, <1>11, <1>12

\* A move of a piece, of the king, or castling.
PieceMove(p, target, m) ==
    \E pt \in KNIGHT..QUEEN : \E s \in of(p, p.sideToMove, {pt}) :
      \E t \in attacks_bb(pt, s, pieces(p)) \cap target : m = Move(s, t)
KingMove(p, target, m) ==
    LET ksq == king(p, p.sideToMove)
    IN  \E t \in PseudoAttacks[KING][ksq] \cap target : m = Move(ksq, t)
CastleMove(p, m) ==
    \E cr \in AnyCastling(p.sideToMove) \cap p.st.castlingRights :
      ~castling_impeded(p, cr) /\ m = MoveOf(king(p, p.sideToMove), p.castlingRookSquare[cr], "CASTLING")

\* A generated move, by the man that makes it.
LEMMA GeneratedAre ==
    ASSUME NEW p, NEW type \in GenTypes, NEW m
    PROVE  m \in generate(p, type) <=>
             \/ /\ ~(type = "EVASIONS" /\ Cardinality(p.st.checkersBB) > 1)
                /\ m \in generate_pawn_moves(p, type, Target(p, type)) \/ PieceMove(p, Target(p, type), m)
             \/ KingMove(p, KingTarget(p, type), m)
             \/ type \in {"QUIETS", "NON_EVASIONS"} /\ CastleMove(p, m)
<1>. DEFINE c == p.sideToMove
            ksq == king(p, c)
            target == CASE type = "EVASIONS" -> BetweenBB[ksq][lsb(p.st.checkersBB)]
                        [] type = "NON_EVASIONS" -> Squares \ p.byColorBB[c]
                        [] type = "CAPTURES" -> p.byColorBB[Opp(c)]
                        [] type = "QUIETS" -> Squares \ pieces(p)
            kingTarget == IF type = "EVASIONS" THEN Squares \ p.byColorBB[c] ELSE target
            kinds == {generate_moves(p, pt, target) : pt \in KNIGHT..QUEEN}
            others == generate_pawn_moves(p, type, target) \cup (UNION kinds)
            kings == {Move(ksq, t) : t \in PseudoAttacks[KING][ksq] \cap kingTarget}
            castles == {MoveOf(ksq, p.castlingRookSquare[cr], "CASTLING") :
                          cr \in {x \in AnyCastling(c) \cap p.st.castlingRights : ~castling_impeded(p, x)}}
<1>1. generate(p, type) =
         (IF type = "EVASIONS" /\ Cardinality(p.st.checkersBB) > 1 THEN {} ELSE others)
           \cup kings \cup (IF type \in {"QUIETS", "NON_EVASIONS"} THEN castles ELSE {})
  BY DEF generate
<1>2. target = Target(p, type) /\ kingTarget = KingTarget(p, type)
  BY DEF Target, KingTarget, Free
<1>3. m \in castles <=> CastleMove(p, m)
  BY DEF CastleMove
<1>. HIDE DEF target, kingTarget, castles
<1>4. m \in kings <=> KingMove(p, kingTarget, m)
  BY DEF KingMove
<1>5. m \in UNION kinds <=> PieceMove(p, target, m)
  <2>1. m \in UNION kinds <=> \E pt \in KNIGHT..QUEEN : m \in generate_moves(p, pt, target)
    OBVIOUS
  <2>2. ASSUME NEW pt \in KNIGHT..QUEEN
        PROVE  m \in generate_moves(p, pt, target) <=>
                 \E s \in of(p, p.sideToMove, {pt}) : \E t \in attacks_bb(pt, s, pieces(p)) \cap target : m = Move(s, t)
    <3>. DEFINE from(s) == {Move(s, t) : t \in attacks_bb(pt, s, pieces(p)) \cap target}
    <3>1. generate_moves(p, pt, target) = UNION {from(s) : s \in of(p, p.sideToMove, {pt})}
      BY DEF generate_moves
    <3>2. \A s : m \in from(s) <=> \E t \in attacks_bb(pt, s, pieces(p)) \cap target : m = Move(s, t)
      OBVIOUS
    <3>. HIDE DEF from
    <3>. QED BY <3>1, <3>2
  <2>. HIDE DEF kinds
  <2>. QED BY <2>1, <2>2 DEF PieceMove
<1>. HIDE DEF kinds, kings
<1>. QED BY <1>1, <1>2, <1>3, <1>4, <1>5

\* What the parts of a capture and of a quiet move are.
LEMMA StageIs ==
    ASSUME NEW p, NEW a, NEW b
    PROVE  /\ capture_stage(p, Move(a, b)) <=> p.board[b] # NO_PIECE
           /\ capture_stage(p, MoveOf(a, b, "EN_PASSANT"))
           /\ ~capture_stage(p, MoveOf(a, b, "CASTLING"))
BY MoveFields DEF capture_stage, capture

\* A promotion is a capture if it takes, or makes a queen.
LEMMA PromotionStageIs ==
    ASSUME NEW p, NEW a, NEW b, NEW pt
    PROVE  capture_stage(p, PromotionTo(a, b, pt)) <=> p.board[b] # NO_PIECE \/ pt = QUEEN
BY MoveFields DEF capture_stage, capture

\* Captures and quiet moves of pawns: to a square with an opponent, or a free one.
LEMMA PawnStages ==
    ASSUME NEW p, Whole(p), p.sideToMove \in Colors, p.st.epSquare # SQ_NONE => p.st.epSquare \in Squares,
           NEW S, NEW T, NEW U, NEW m
    PROVE  /\ m \in generate_pawn_moves(p, "CAPTURES", S) <=>
                m \in generate_pawn_moves(p, "NON_EVASIONS", U) /\ capture_stage(p, m)
           /\ m \in generate_pawn_moves(p, "QUIETS", T) <=>
                m \in generate_pawn_moves(p, "NON_EVASIONS", U) /\ ~capture_stage(p, m)
<1>. DEFINE c == p.sideToMove
            foes == p.byColorBB[Opp(c)]
            Ahead(a, b) == b \in Free(p) /\ b = a + pawn_push(c)
            Takes(a, b) == b \in foes \cap PawnAttacks[c][a]
            last(a) == relative_rank(c, a) = 6
            Passing(a, b) == b = p.st.epSquare /\ p.st.epSquare # SQ_NONE /\ a \in PawnAttacks[Opp(c)][b]
            Under == {ROOK, BISHOP, KNIGHT}
<1>1. \A b \in Squares : (b \in foes => p.board[b] # NO_PIECE) /\ (b \in Free(p) => p.board[b] = NO_PIECE)
  BY WholeAgrees, Men, Sides DEF Free
<1>2. QUEEN \notin Under
  BY Kinds
<1>3. ASSUME NEW a, NEW b
      PROVE  /\ m \in make_promotions("CAPTURES", a, b, TRUE) <=> \E pt \in {QUEEN} \cup Under : m = PromotionTo(a, b, pt)
             /\ m \in make_promotions("CAPTURES", a, b, FALSE) <=> m = PromotionTo(a, b, QUEEN)
             /\ m \notin make_promotions("QUIETS", a, b, TRUE)
             /\ m \in make_promotions("QUIETS", a, b, FALSE) <=> \E pt \in Under : m = PromotionTo(a, b, pt)
             /\ m \in make_promotions("NON_EVASIONS", a, b, TRUE) <=> \E pt \in {QUEEN} \cup Under : m = PromotionTo(a, b, pt)
             /\ m \in make_promotions("NON_EVASIONS", a, b, FALSE) <=> \E pt \in {QUEEN} \cup Under : m = PromotionTo(a, b, pt)
  BY DEF make_promotions
<1>4. ASSUME NEW type \in {"CAPTURES", "QUIETS", "NON_EVASIONS"}, NEW target
      PROVE  m \in generate_pawn_moves(p, type, target) <=>
               \E a \in Pawns(p), b \in Squares :
                 \/ last(a) /\ Takes(a, b) /\ m \in make_promotions(type, a, b, TRUE)
                 \/ last(a) /\ Ahead(a, b) /\ m \in make_promotions(type, a, b, FALSE)
                 \/ ~last(a) /\ type # "CAPTURES" /\ b \in Free(p) /\ Steps(p, a, b) /\ m = Move(a, b)
                 \/ ~last(a) /\ type # "QUIETS" /\ Takes(a, b) /\ m = Move(a, b)
                 \/ ~last(a) /\ type # "QUIETS" /\ Passing(a, b) /\ m = MoveOf(a, b, "EN_PASSANT")
  <2>1. type \in GenTypes /\ type # "EVASIONS"
    BY DEF GenTypes
  <2>2. m \in generate_pawn_moves(p, type, target) <=>
          \E a \in Pawns(p), b \in Squares : PawnWay(p, type, target, a, b, m)
    BY <2>1, PawnMovesAre
  <2>3. Enemies(p, type) = foes /\ OpenTo(p, type, target) = Free(p)
    BY <2>1 DEF Enemies, OpenTo
  <2>4. \A a, b : PawnWay(p, type, target, a, b, m) <=>
                 \/ last(a) /\ Takes(a, b) /\ m \in make_promotions(type, a, b, TRUE)
                 \/ last(a) /\ Ahead(a, b) /\ m \in make_promotions(type, a, b, FALSE)
                 \/ ~last(a) /\ type # "CAPTURES" /\ b \in Free(p) /\ Steps(p, a, b) /\ m = Move(a, b)
                 \/ ~last(a) /\ type # "QUIETS" /\ Takes(a, b) /\ m = Move(a, b)
                 \/ ~last(a) /\ type # "QUIETS" /\ Passing(a, b) /\ m = MoveOf(a, b, "EN_PASSANT")
    <3>. SUFFICES ASSUME NEW a, NEW b
                  PROVE  PawnWay(p, type, target, a, b, m) <=>
                 \/ last(a) /\ Takes(a, b) /\ m \in make_promotions(type, a, b, TRUE)
                 \/ last(a) /\ Ahead(a, b) /\ m \in make_promotions(type, a, b, FALSE)
                 \/ ~last(a) /\ type # "CAPTURES" /\ b \in Free(p) /\ Steps(p, a, b) /\ m = Move(a, b)
                 \/ ~last(a) /\ type # "QUIETS" /\ Takes(a, b) /\ m = Move(a, b)
                 \/ ~last(a) /\ type # "QUIETS" /\ Passing(a, b) /\ m = MoveOf(a, b, "EN_PASSANT")
      OBVIOUS
    <3>. HIDE DEF foes
    <3>. QED BY <2>1, <2>3, Zenon DEF PawnWay
  <2>. HIDE DEF last, Takes, Ahead, Passing
  <2>. QED BY <2>2, <2>4
<1>5. \A a, b : b \in Squares =>
        (Takes(a, b) => p.board[b] # NO_PIECE) /\ (Ahead(a, b) => p.board[b] = NO_PIECE)
        /\ (b \in Free(p) => p.board[b] = NO_PIECE)
  BY <1>1
<1>. DEFINE Way(type, a, b) ==
       \/ last(a) /\ Takes(a, b) /\ m \in make_promotions(type, a, b, TRUE)
       \/ last(a) /\ Ahead(a, b) /\ m \in make_promotions(type, a, b, FALSE)
       \/ ~last(a) /\ type # "CAPTURES" /\ b \in Free(p) /\ Steps(p, a, b) /\ m = Move(a, b)
       \/ ~last(a) /\ type # "QUIETS" /\ Takes(a, b) /\ m = Move(a, b)
       \/ ~last(a) /\ type # "QUIETS" /\ Passing(a, b) /\ m = MoveOf(a, b, "EN_PASSANT")
<1>. HIDE DEF last, Takes, Ahead, Passing, Under
<1>6. ASSUME NEW a, NEW b \in Squares
      PROVE  /\ Way("CAPTURES", a, b) <=> Way("NON_EVASIONS", a, b) /\ capture_stage(p, m)
             /\ Way("QUIETS", a, b) <=> Way("NON_EVASIONS", a, b) /\ ~capture_stage(p, m)
  <2>1. /\ \A pt \in Under : m = PromotionTo(a, b, pt) => (capture_stage(p, m) <=> p.board[b] # NO_PIECE)
        /\ m = PromotionTo(a, b, QUEEN) => capture_stage(p, m)
        /\ m = Move(a, b) => (capture_stage(p, m) <=> p.board[b] # NO_PIECE)
        /\ m = MoveOf(a, b, "EN_PASSANT") => capture_stage(p, m)
    <3>1. \A pt \in Under : pt # QUEEN
      BY <1>2
    <3>2. ASSUME NEW pt \in Under, m = PromotionTo(a, b, pt)
          PROVE  capture_stage(p, m) <=> p.board[b] # NO_PIECE
      BY <3>1, <3>2, PromotionStageIs
    <3>3. ASSUME m = PromotionTo(a, b, QUEEN)
          PROVE  capture_stage(p, m)
      BY <3>3, PromotionStageIs
    <3>4. ASSUME m = Move(a, b)
          PROVE  capture_stage(p, m) <=> p.board[b] # NO_PIECE
      BY <3>4, StageIs
    <3>5. ASSUME m = MoveOf(a, b, "EN_PASSANT")
          PROVE  capture_stage(p, m)
      BY <3>5, StageIs
    <3>. QED BY <3>2, <3>3, <3>4, <3>5
  <2>2. /\ Takes(a, b) => p.board[b] # NO_PIECE
        /\ Ahead(a, b) => p.board[b] = NO_PIECE
        /\ b \in Free(p) => p.board[b] = NO_PIECE
    BY <1>5
  <2>. DEFINE Cap == capture_stage(p, m)
              AnyPromotion == \E pt \in {QUEEN} \cup Under : m = PromotionTo(a, b, pt)
              Low == \E pt \in Under : m = PromotionTo(a, b, pt)
              Q == m = PromotionTo(a, b, QUEEN)
  <2>3. /\ AnyPromotion <=> Q \/ Low
        /\ Q => Cap
        /\ Low => (Cap <=> p.board[b] # NO_PIECE)
    BY <2>1
  <2>4. /\ m \in make_promotions("CAPTURES", a, b, TRUE) <=> AnyPromotion
        /\ m \in make_promotions("CAPTURES", a, b, FALSE) <=> Q
        /\ m \notin make_promotions("QUIETS", a, b, TRUE)
        /\ m \in make_promotions("QUIETS", a, b, FALSE) <=> Low
        /\ m \in make_promotions("NON_EVASIONS", a, b, TRUE) <=> AnyPromotion
        /\ m \in make_promotions("NON_EVASIONS", a, b, FALSE) <=> AnyPromotion
    BY <1>3
  <2>. HIDE DEF AnyPromotion, Low, Q, Cap
  <2>5. "CAPTURES" # "QUIETS" /\ "NON_EVASIONS" # "QUIETS" /\ "NON_EVASIONS" # "CAPTURES"
    OBVIOUS
  <2>6. /\ m = Move(a, b) => (Cap <=> p.board[b] # NO_PIECE)
        /\ m = MoveOf(a, b, "EN_PASSANT") => Cap
    BY <2>1 DEF Cap
  <2>7. AnyPromotion => (Cap <=> Q \/ p.board[b] # NO_PIECE)
    BY <2>3
  <2>8. Low /\ Q => p.board[b] # NO_PIECE
    BY <2>3
  <2>9. (Way("CAPTURES", a, b) <=> Way("NON_EVASIONS", a, b) /\ Cap)
        /\ (Way("QUIETS", a, b) <=> Way("NON_EVASIONS", a, b) /\ ~Cap)
    BY <2>2, <2>3, <2>4, <2>5, <2>6, <2>7, <2>8
  <2>. QED BY <2>9 DEF Cap
<1>7. /\ m \in generate_pawn_moves(p, "CAPTURES", S) <=> \E a \in Pawns(p), b \in Squares : Way("CAPTURES", a, b)
      /\ m \in generate_pawn_moves(p, "QUIETS", T) <=> \E a \in Pawns(p), b \in Squares : Way("QUIETS", a, b)
      /\ m \in generate_pawn_moves(p, "NON_EVASIONS", U) <=> \E a \in Pawns(p), b \in Squares : Way("NON_EVASIONS", a, b)
  BY <1>4
<1>. HIDE DEF Way
<1>. QED BY <1>6, <1>7

\* The captures of a position and its quiet moves are all its moves, by capture_stage.
LEMMA StagesArePartition ==
    ASSUME NEW p, Whole(p), p.sideToMove \in Colors, p.st.epSquare # SQ_NONE => p.st.epSquare \in Squares
    PROVE  /\ generate(p, "CAPTURES") = {m \in generate(p, "NON_EVASIONS") : capture_stage(p, m)}
           /\ generate(p, "QUIETS") = {m \in generate(p, "NON_EVASIONS") : ~capture_stage(p, m)}
<1>. DEFINE all == Squares \ p.byColorBB[p.sideToMove]
            foes == p.byColorBB[Opp(p.sideToMove)]
<1>1. \A t : t \in foes <=> t \in all /\ p.board[t] # NO_PIECE
  BY WholeAgrees, Men, Sides
<1>2. \A t : t \in Free(p) <=> t \in all /\ p.board[t] = NO_PIECE
  BY WholeAgrees, Men, Sides DEF Free
<1>3. /\ Target(p, "CAPTURES") = foes /\ KingTarget(p, "CAPTURES") = foes
      /\ Target(p, "QUIETS") = Free(p) /\ KingTarget(p, "QUIETS") = Free(p)
      /\ Target(p, "NON_EVASIONS") = all /\ KingTarget(p, "NON_EVASIONS") = all
  BY DEF Target, KingTarget
<1>. HIDE DEF all, foes
<1>4. ASSUME NEW m
      PROVE  /\ m \in generate(p, "CAPTURES") <=> m \in generate(p, "NON_EVASIONS") /\ capture_stage(p, m)
             /\ m \in generate(p, "QUIETS") <=> m \in generate(p, "NON_EVASIONS") /\ ~capture_stage(p, m)
  <2>1. \A T \in {"CAPTURES", "QUIETS", "NON_EVASIONS"} :
           m \in generate(p, T) <=>
             \/ m \in generate_pawn_moves(p, T, Target(p, T)) \/ PieceMove(p, Target(p, T), m)
             \/ KingMove(p, KingTarget(p, T), m)
             \/ T \in {"QUIETS", "NON_EVASIONS"} /\ CastleMove(p, m)
    <3>. SUFFICES ASSUME NEW T \in {"CAPTURES", "QUIETS", "NON_EVASIONS"}
                  PROVE  m \in generate(p, T) <=>
                           \/ m \in generate_pawn_moves(p, T, Target(p, T)) \/ PieceMove(p, Target(p, T), m)
                           \/ KingMove(p, KingTarget(p, T), m)
                           \/ T \in {"QUIETS", "NON_EVASIONS"} /\ CastleMove(p, m)
      OBVIOUS
    <3>1. T \in GenTypes /\ T # "EVASIONS"
      BY DEF GenTypes
    <3>. QED BY <3>1, GeneratedAre
  <2>2. /\ m \in generate_pawn_moves(p, "CAPTURES", foes) <=>
             m \in generate_pawn_moves(p, "NON_EVASIONS", all) /\ capture_stage(p, m)
        /\ m \in generate_pawn_moves(p, "QUIETS", Free(p)) <=>
             m \in generate_pawn_moves(p, "NON_EVASIONS", all) /\ ~capture_stage(p, m)
    BY PawnStages
  <2>3. \A s, t : m = Move(s, t) => (capture_stage(p, m) <=> p.board[t] # NO_PIECE)
    BY StageIs
  <2>4. /\ PieceMove(p, foes, m) <=> PieceMove(p, all, m) /\ capture_stage(p, m)
        /\ PieceMove(p, Free(p), m) <=> PieceMove(p, all, m) /\ ~capture_stage(p, m)
    BY <1>1, <1>2, <2>3 DEF PieceMove
  <2>5. /\ KingMove(p, foes, m) <=> KingMove(p, all, m) /\ capture_stage(p, m)
        /\ KingMove(p, Free(p), m) <=> KingMove(p, all, m) /\ ~capture_stage(p, m)
    BY <1>1, <1>2, <2>3 DEF KingMove
  <2>6. CastleMove(p, m) => ~capture_stage(p, m)
    BY StageIs DEF CastleMove
  <2>. QED BY <1>3, <2>1, <2>2, <2>4, <2>5, <2>6
<1>. QED BY <1>4

\* How pawns go by ranks: a step forward is to the next rank, straight or aside.
LEMMA PawnRanks ==
    ASSUME NEW c \in Colors, NEW a \in Squares, NEW b \in Squares
    PROVE  /\ b = a + pawn_push(c) \/ b \in PawnAttacks[c][a] => (rank_of(b) \in {0, 7} <=> relative_rank(c, a) = 6)
           /\ b = a + 2 * pawn_push(c) => (relative_rank(c, a) = 1 <=>
                a + pawn_push(c) \in Squares /\ relative_rank(c, a + pawn_push(c)) = 2)
           /\ b = a + 2 * pawn_push(c) /\ relative_rank(c, a) = 1 => rank_of(b) \notin {0, 7}
           /\ relative_rank(c, a) = 1 => relative_rank(c, a) # 6
<1>1. PICK r \in 0..7, f \in 0..7 : a = 8 * r + f
  <2>1. a = 8 * (a \div 8) + (a % 8) /\ a \div 8 \in 0..7 /\ a % 8 \in 0..7
    BY DEF Squares
  <2>. QED BY <2>1
<1>2. \A x \in 0..7, y \in 0..7 : rank_of(8 * x + y) = x /\ file_of(8 * x + y) = y
  BY DEF rank_of, file_of
<1>3. rank_of(a) = r /\ file_of(a) = f
  BY <1>1, <1>2
<1>4. PICK x \in 0..7, y \in 0..7 : b = 8 * x + y
  <2>1. b = 8 * (b \div 8) + (b % 8) /\ b \div 8 \in 0..7 /\ b % 8 \in 0..7
    BY DEF Squares
  <2>. QED BY <2>1
<1>5. rank_of(b) = x /\ file_of(b) = y
  BY <1>2, <1>4
<1>7. WHITE # BLACK
  BY DEF WHITE, BLACK
<1>6. (c = WHITE /\ pawn_push(c) = 8) \/ (c = BLACK /\ pawn_push(c) = -8)
  <2>1. c = WHITE \/ c = BLACK
    BY DEF Colors
  <2>. QED BY <1>7, <2>1 DEF pawn_push, NORTH
<1>8. b \in PawnAttacks[c][a] => /\ b = a + pawn_push(c) + 1 \/ b = a + pawn_push(c) - 1
                                 /\ y - f \in {-1, 0, 1}
  <2>1. ASSUME b \in PawnAttacks[c][a]
        PROVE  \E d \in {pawn_push(c) + EAST, pawn_push(c) - EAST} : b = a + d /\ Abs(file_of(a + d) - file_of(a)) <= 1
    BY <2>1 DEF PawnAttacks, shift
  <2>2. ASSUME NEW d \in {pawn_push(c) + EAST, pawn_push(c) - EAST}, b = a + d, Abs(file_of(a + d) - file_of(a)) <= 1
        PROVE  (b = a + pawn_push(c) + 1 \/ b = a + pawn_push(c) - 1) /\ y - f \in {-1, 0, 1}
    <3>1. Abs(y - f) <= 1
      BY <1>3, <1>5, <2>2
    <3>2. y - f \in {-1, 0, 1}
      BY <3>1 DEF Abs
    <3>. QED BY <1>6, <2>2, <3>2 DEF EAST, Squares
  <2>. QED BY <2>1, <2>2
<1>9. relative_rank(c, a) = IF c = WHITE THEN r ELSE 7 - r
  BY <1>3 DEF relative_rank
<1>10. b = a + pawn_push(c) \/ b \in PawnAttacks[c][a] => (x \in {0, 7} <=> relative_rank(c, a) = 6)
  <2>1. ASSUME b = a + pawn_push(c) \/ b \in PawnAttacks[c][a]
        PROVE  x = r + (IF c = WHITE THEN 1 ELSE -1)
    BY <1>1, <1>4, <1>6, <1>7, <1>8, <2>1
  <2>. QED BY <1>6, <1>7, <1>9, <2>1
<1>11. relative_rank(c, a) = 1 => a + pawn_push(c) \in Squares /\ relative_rank(c, a + pawn_push(c)) = 2
  <2>1. ASSUME c = WHITE, r = 1
        PROVE  a + 8 = 8 * 2 + f /\ rank_of(a + 8) = 2
    BY <1>1, <1>2, <2>1
  <2>2. ASSUME c = BLACK, r = 6
        PROVE  a - 8 = 8 * 5 + f /\ rank_of(a - 8) = 5
    BY <1>1, <1>2, <2>2
  <2>. QED BY <1>6, <1>7, <1>9, <2>1, <2>2 DEF relative_rank, Squares
<1>12. a + pawn_push(c) \in Squares /\ relative_rank(c, a + pawn_push(c)) = 2 => relative_rank(c, a) = 1
  <2>. SUFFICES ASSUME a + pawn_push(c) \in Squares, relative_rank(c, a + pawn_push(c)) = 2
                PROVE  relative_rank(c, a) = 1
    OBVIOUS
  <2>1. PICK u \in 0..7, v \in 0..7 : a + pawn_push(c) = 8 * u + v
    <3>. DEFINE z == a + pawn_push(c)
    <3>1. z \in Squares
      OBVIOUS
    <3>. HIDE DEF z
    <3>2. z = 8 * (z \div 8) + (z % 8) /\ z \div 8 \in 0..7 /\ z % 8 \in 0..7
      BY <3>1 DEF Squares
    <3>. QED BY <3>2 DEF z
  <2>2. rank_of(a + pawn_push(c)) = u
    BY <1>2, <2>1
  <2>3. u = IF c = WHITE THEN 2 ELSE 5
    BY <2>2 DEF relative_rank
  <2>4. r = IF c = WHITE THEN 1 ELSE 6
    BY <1>1, <1>6, <1>7, <2>1, <2>3
  <2>. QED BY <1>9, <2>4
<1>13. b = a + 2 * pawn_push(c) /\ relative_rank(c, a) = 1 => x \notin {0, 7}
  BY <1>1, <1>4, <1>6, <1>7, <1>9
<1>. QED BY <1>5, <1>10, <1>11, <1>12, <1>13

\* A move of the generator that is no promotion, en passant capture or castling.
NormalWays(p, type, a, b) ==
    LET c == p.sideToMove
    IN  \/ ~(type = "EVASIONS" /\ Cardinality(p.st.checkersBB) > 1) /\ a \in Pawns(p) /\ relative_rank(c, a) # 6
           /\ \/ b \in OpenTo(p, type, Target(p, type)) /\ Steps(p, a, b)
              \/ b \in Enemies(p, type) \cap PawnAttacks[c][a]
        \/ ~(type = "EVASIONS" /\ Cardinality(p.st.checkersBB) > 1) /\ b \in Target(p, type)
           /\ \E pt \in KNIGHT..QUEEN : a \in of(p, c, {pt}) /\ b \in attacks_bb(pt, a, pieces(p))
        \/ a = king(p, c) /\ b \in PseudoAttacks[KING][a] /\ b \notin p.byColorBB[c] /\ b \in Squares

\* The plain moves of both generators are those.
LEMMA NormalMovesAre ==
    ASSUME NEW p, Sound(p), Stands(p, p.sideToMove), NEW type \in {"EVASIONS", "NON_EVASIONS"},
           type = "EVASIONS" => p.st.checkersBB \subseteq Squares,
           NEW a \in Squares, NEW b \in Squares
    PROVE  Move(a, b) \in generate(p, type) <=> NormalWays(p, type, a, b)
<1>. DEFINE m == Move(a, b)
            c == p.sideToMove
            single == ~(type = "EVASIONS" /\ Cardinality(p.st.checkersBB) > 1)
<1>1. type \in GenTypes /\ type # "CAPTURES" /\ type # "QUIETS" /\ c \in Colors /\ Whole(p)
      /\ (p.st.epSquare # SQ_NONE => p.st.epSquare \in Squares)
  BY DEF GenTypes, Sound, PassingKept
<1>2. m.from = a /\ m.to = b /\ m.type = "NORMAL"
  BY MoveFields
<1>3. \A s, t : m = Move(s, t) => s = a /\ t = b
  BY <1>2, MoveFields
<1>4. /\ \A s, t, pt : m # PromotionTo(s, t, pt)
      /\ \A s, t : m # MoveOf(s, t, "EN_PASSANT") /\ m # MoveOf(s, t, "CASTLING")
  BY <1>2, MoveFields, TypesAreFour
<1>5. \A s, t, e : m \notin make_promotions(type, s, t, e)
  BY <1>4 DEF make_promotions
<1>6. m \in generate(p, type) <=>
             \/ /\ single
                /\ m \in generate_pawn_moves(p, type, Target(p, type)) \/ PieceMove(p, Target(p, type), m)
             \/ KingMove(p, KingTarget(p, type), m)
             \/ type \in {"QUIETS", "NON_EVASIONS"} /\ CastleMove(p, m)
  BY <1>1, GeneratedAre
<1>7. ~CastleMove(p, m)
  BY <1>4 DEF CastleMove
<1>8. KingTarget(p, type) = Squares \ p.byColorBB[c]
  BY DEF KingTarget, Target
<1>9. KingMove(p, KingTarget(p, type), m) <=>
        a = king(p, c) /\ b \in PseudoAttacks[KING][a] /\ b \notin p.byColorBB[c] /\ b \in Squares
  <2>. HIDE DEF m
  <2>1. m = Move(a, b)
    BY DEF m
  <2>. QED BY <1>3, <1>8, <2>1 DEF KingMove
<1>10. PieceMove(p, Target(p, type), m) <=>
        b \in Target(p, type) /\ \E pt \in KNIGHT..QUEEN : a \in of(p, c, {pt}) /\ b \in attacks_bb(pt, a, pieces(p))
  <2>. HIDE DEF m
  <2>1. m = Move(a, b)
    BY DEF m
  <2>. QED BY <1>3, <2>1 DEF PieceMove
<1>11. m \in generate_pawn_moves(p, type, Target(p, type)) <=>
         /\ a \in Pawns(p) /\ relative_rank(c, a) # 6
         /\ \/ b \in OpenTo(p, type, Target(p, type)) /\ Steps(p, a, b)
            \/ b \in Enemies(p, type) \cap PawnAttacks[c][a]
  <2>1. m \in generate_pawn_moves(p, type, Target(p, type)) <=>
          \E s \in Pawns(p), t \in Squares : PawnWay(p, type, Target(p, type), s, t, m)
    BY <1>1, PawnMovesAre
  <2>. HIDE DEF m
  <2>2. m = Move(a, b)
    BY DEF m
  <2>3. ASSUME NEW s, NEW t
        PROVE  PawnWay(p, type, Target(p, type), s, t, m) <=>
           /\ s = a /\ t = b /\ relative_rank(c, a) # 6
           /\ \/ b \in OpenTo(p, type, Target(p, type)) /\ Steps(p, a, b)
              \/ b \in Enemies(p, type) \cap PawnAttacks[c][a]
    <3>1. m \notin make_promotions(type, s, t, TRUE) /\ m \notin make_promotions(type, s, t, FALSE)
          /\ m # MoveOf(s, t, "EN_PASSANT") /\ (m = Move(s, t) <=> s = a /\ t = b)
      BY <1>3, <1>4, <1>5, <2>2
    <3>2. PawnWay(p, type, Target(p, type), s, t, m) <=>
            /\ relative_rank(c, s) # 6 /\ m = Move(s, t)
            /\ \/ t \in OpenTo(p, type, Target(p, type)) /\ Steps(p, s, t)
               \/ t \in Enemies(p, type) \cap PawnAttacks[c][s]
      BY <1>1, <3>1, Zenon DEF PawnWay
    <3>. QED BY <3>1, <3>2
  <2>. QED BY <2>1, <2>3
<1>. HIDE DEF m, c, single
<1>. QED BY <1>6, <1>7, <1>9, <1>10, <1>11 DEF NormalWays, m, c, single

\* Where a man that does not move the king goes when in check: nothing stands
\* between the king and the checker, which is the first of the checkers.
LEMMA CheckLine ==
    ASSUME NEW p, Sound(p), Stands(p, p.sideToMove), p.st.checkersBB # {}
    PROVE  LET T == BetweenBB[king(p, p.sideToMove)][lsb(p.st.checkersBB)]
           IN  /\ T \subseteq Squares \ p.byColorBB[p.sideToMove]
               /\ lsb(p.st.checkersBB) \in T /\ lsb(p.st.checkersBB) \in p.st.checkersBB
               /\ \A s \in T : p.board[s] # NO_PIECE => s = lsb(p.st.checkersBB)
<1>. DEFINE c == p.sideToMove
            ksq == king(p, c)
            C == p.st.checkersBB
            q == lsb(C)
            T == BetweenBB[ksq][q]
<1>1. /\ c \in Colors /\ Whole(p) /\ ksq \in Squares /\ C \subseteq attackers_to(p, ksq, pieces(p))
      /\ C \subseteq p.byColorBB[Opp(c)]
  BY KingIs DEF Sound, CheckersKept
<1>2. p.byColorBB[Opp(c)] \subseteq pieces(p) /\ pieces(p) = {s \in Squares : p.board[s] # NO_PIECE}
      /\ p.byColorBB[Opp(c)] = {s \in Squares : p.board[s] # NO_PIECE /\ color_of(p.board[s]) = Opp(c)}
      /\ p.byColorBB[c] = {s \in Squares : p.board[s] # NO_PIECE /\ color_of(p.board[s]) = c}
      /\ Opp(c) # c
  BY <1>1, WholeAgrees, Men, Sides
<1>. HIDE DEF C, c, ksq
<1>3. q \in C
  <2>1. C \subseteq Nat /\ C # {}
    BY <1>1, <1>2 DEF C, Squares
  <2>. QED BY <2>1, LeastIsIn DEF lsb
<1>. HIDE DEF q
<1>4. StrictlyBetween[ksq][q] \cap pieces(p) = {}
  <2>1. \/ q \in attacks_bb(ROOK, ksq, pieces(p)) \/ q \in attacks_bb(BISHOP, ksq, pieces(p))
        \/ q \in PawnAttacks[WHITE][ksq] \cup PawnAttacks[BLACK][ksq]
                     \cup PseudoAttacks[KNIGHT][ksq] \cup PseudoAttacks[KING][ksq]
    BY <1>1, <1>3 DEF attackers_to
  <2>. QED BY <2>1, <1>1, BetweenIsClear, Kinds DEF attacks_bb
<1>5. T \subseteq (StrictlyBetween[ksq][q] \cap Squares) \cup {q} /\ q \in T /\ q \in Squares
  BY <1>1, <1>2, <1>3, BetweenIsClear
<1>. HIDE DEF T
<1>6. \A s \in T : s \in Squares /\ (p.board[s] # NO_PIECE => s = q)
  BY <1>2, <1>4, <1>5
<1>7. T \subseteq Squares \ p.byColorBB[c]
  BY <1>1, <1>2, <1>3, <1>6
<1>. QED BY <1>3, <1>5, <1>6, <1>7 DEF T, q, C, ksq, c

\* There are two checkers, or one is the only one.
LEMMA OneChecker ==
    ASSUME NEW C \in SUBSET Squares, NEW q \in C
    PROVE  /\ Cardinality(C) \in Nat
           /\ ~(Cardinality(C) > 1) <=> Cardinality(C) = 1
           /\ Cardinality(C) = 1 => C = {q}
<1>1. IsFiniteSet(C)
  <2>1. PICK a \in Int, b \in Int : a = 0 /\ b = 63
    OBVIOUS
  <2>2. IsFiniteSet(Squares)
    BY <2>1, FS_Interval DEF Squares
  <2>. QED BY <2>2, FS_Subset
<1>2. Cardinality(C) \in Nat /\ Cardinality(C) # 0
  BY <1>1, FS_CardinalityType, FS_EmptySet
<1>3. ASSUME Cardinality(C) = 1
      PROVE  C = {q}
  <2>1. \E x : C = {x}
    BY <1>1, <1>3, FS_Singleton
  <2>. QED BY <2>1
<1>. QED BY <1>2, <1>3

\* The test of a hash move lets through the generated moves, and nothing else.
LEMMA HashTestIs ==
    ASSUME NEW p, Sound(p), Stands(p, p.sideToMove), NEW m,
           m.type = "NORMAL" => m.from \in Squares /\ m.to \in Squares /\ m = Move(m.from, m.to)
    PROVE  pseudo_legal(p, m) <=> m \in PseudoLegal(p)
<1>1. CASE m.type # "NORMAL"
  BY <1>1 DEF pseudo_legal
<1>2. CASE m.type = "NORMAL"
  <2>. DEFINE c == p.sideToMove
              a == m.from
              b == m.to
              pc == p.board[a]
              up == pawn_push(c)
              C == p.st.checkersBB
              type == IF C # {} THEN "EVASIONS" ELSE "NON_EVASIONS"
              T == BetweenBB[king(p, c)][lsb(C)]
              foes == p.byColorBB[Opp(c)]
  <2>1. a \in Squares /\ b \in Squares /\ m = Move(a, b) /\ c \in Colors /\ Whole(p) /\ OneKing(p.board)
    BY <1>2 DEF Sound
  <2>2. /\ pieces(p) = {s \in Squares : p.board[s] # NO_PIECE}
        /\ \A e \in Colors : p.byColorBB[e] = {s \in Squares : p.board[s] # NO_PIECE /\ color_of(p.board[s]) = e}
        /\ \A pt \in PieceTypes : of(p, c, {pt}) = {s \in Squares : p.board[s] # NO_PIECE
                                                       /\ color_of(p.board[s]) = c /\ type_of(p.board[s]) = pt}
        /\ \A s \in pieces(p) : type_of(p.board[s]) \in PieceTypes /\ color_of(p.board[s]) \in Colors
    BY <2>1, WholeAgrees, Men, Kinds DEF of, by
  <2>3. C \subseteq foes /\ C \subseteq Squares
    <3>1. Opp(c) \in Colors
      BY <2>1, Sides
    <3>2. foes \subseteq Squares
      BY <2>2, <3>1
    <3>3. C \subseteq foes
      BY DEF Sound, CheckersKept
    <3>. QED BY <3>2, <3>3
  <2>4. a = king(p, c) <=> pc # NO_PIECE /\ color_of(pc) = c /\ type_of(pc) = KING
    <3>1. king(p, c) \in Squares /\ p.board[king(p, c)] = make_piece(c, KING)
          /\ \A k \in Squares : p.board[k] = make_piece(c, KING) => k = king(p, c)
      BY <2>1, KingIs
    <3>2. /\ make_piece(c, KING) # NO_PIECE /\ color_of(make_piece(c, KING)) = c
          /\ type_of(make_piece(c, KING)) = KING
      BY <2>1, PieceParts, Kinds
    <3>3. pc # NO_PIECE /\ color_of(pc) = c /\ type_of(pc) = KING => pc = make_piece(c, KING)
      BY <2>1, <2>2, PieceParts DEF Whole, Boards
    <3>. QED BY <2>1, <3>1, <3>2, <3>3
  <2>5. m \in PseudoLegal(p) <=> NormalWays(p, type, a, b)
    BY <2>1, <2>3, NormalMovesAre DEF PseudoLegal
  <2>6. C # {} => /\ T \subseteq Squares \ p.byColorBB[c] /\ lsb(C) \in T /\ lsb(C) \in C
                  /\ \A s \in T : p.board[s] # NO_PIECE => s = lsb(C)
    BY CheckLine
  <2>7. C # {} => /\ ~(Cardinality(C) > 1) <=> Cardinality(C) = 1
                  /\ Cardinality(C) = 1 => C = {lsb(C)}
    <3>. HIDE DEF C
    <3>. QED BY <2>3, <2>6, OneChecker
  <2>. DEFINE Can == C # {} => Cardinality(C) = 1
              Helps == C # {} => b \in T
              OwnMan == pc # NO_PIECE /\ color_of(pc) = c
              Goes == b = a + up \/ (b = a + 2 * up /\ a + up \in Squares /\ p.board[a + up] = NO_PIECE
                                       /\ relative_rank(c, a + up) = 2)
              ByPawn == /\ OwnMan /\ type_of(pc) = PAWN /\ relative_rank(c, a) # 6
                        /\ (p.board[b] = NO_PIECE /\ Goes) \/ b \in foes \cap PawnAttacks[c][a]
              ByPiece == OwnMan /\ type_of(pc) \in KNIGHT..QUEEN /\ b \notin p.byColorBB[c]
                           /\ b \in attacks_bb(type_of(pc), a, pieces(p))
              ByKing == OwnMan /\ type_of(pc) = KING /\ b \notin p.byColorBB[c] /\ b \in PseudoAttacks[KING][a]
  <2>8. NormalWays(p, type, a, b) <=> (Can /\ Helps /\ (ByPawn \/ ByPiece)) \/ ByKing
    <3>1. (type = "EVASIONS" <=> C # {}) /\ (type = "NON_EVASIONS" <=> C = {})
      OBVIOUS
    <3>2. Target(p, type) = IF C # {} THEN T ELSE Squares \ p.byColorBB[c]
      BY DEF Target
    <3>3. OpenTo(p, type, Target(p, type)) = IF C # {} THEN Free(p) \cap T ELSE Free(p)
      BY <3>2 DEF OpenTo
    <3>4. Enemies(p, type) = IF C # {} THEN C ELSE foes
      BY DEF Enemies
    <3>5. Free(p) = {s \in Squares : p.board[s] = NO_PIECE} /\ PAWN \in PieceTypes
          /\ Pawns(p) = {s \in Squares : p.board[s] # NO_PIECE /\ color_of(p.board[s]) = c /\ type_of(p.board[s]) = PAWN}
      BY <2>2, Kinds DEF Free, Pawns
    <3>6. Steps(p, a, b) <=> Goes
      BY <3>5 DEF Steps
    <3>7. \A pt \in KNIGHT..QUEEN : pt \in PieceTypes
      BY Kinds DEF KNIGHT, QUEEN, PAWN, KING, PieceTypes
    <3>8. (\E pt \in KNIGHT..QUEEN : a \in of(p, c, {pt}) /\ b \in attacks_bb(pt, a, pieces(p))) <=>
             OwnMan /\ type_of(pc) \in KNIGHT..QUEEN /\ b \in attacks_bb(type_of(pc), a, pieces(p))
      <4>1. \A pt \in KNIGHT..QUEEN : a \in of(p, c, {pt}) <=> OwnMan /\ type_of(pc) = pt
        <5>. SUFFICES ASSUME NEW pt \in KNIGHT..QUEEN
                      PROVE  a \in of(p, c, {pt}) <=> OwnMan /\ type_of(pc) = pt
          OBVIOUS
        <5>1. of(p, c, {pt}) = {s \in Squares : p.board[s] # NO_PIECE
                                                  /\ color_of(p.board[s]) = c /\ type_of(p.board[s]) = pt}
          BY <2>2, <3>7
        <5>. QED BY <2>1, <5>1
      <4>. HIDE DEF OwnMan, pc, a, b, c
      <4>. QED BY <4>1
    <3>9. /\ foes \subseteq Squares \ p.byColorBB[c] /\ foes \subseteq {s \in Squares : p.board[s] # NO_PIECE}
      BY <2>1, <2>2, Sides
    <3>10. a = king(p, c) <=> OwnMan /\ type_of(pc) = KING
      BY <2>4
    <3>. HIDE DEF C, T, c, foes, a, b, OwnMan, Goes, type
    <3>11. NormalWays(p, type, a, b) <=>
             \/ ~(C # {} /\ Cardinality(C) > 1) /\ a \in Pawns(p) /\ relative_rank(c, a) # 6
                  /\ \/ b \in OpenTo(p, type, Target(p, type)) /\ Goes
                     \/ b \in Enemies(p, type) \cap PawnAttacks[c][a]
             \/ ~(C # {} /\ Cardinality(C) > 1) /\ b \in Target(p, type)
                  /\ OwnMan /\ type_of(pc) \in KNIGHT..QUEEN /\ b \in attacks_bb(type_of(pc), a, pieces(p))
             \/ OwnMan /\ type_of(pc) = KING /\ b \in PseudoAttacks[KING][a] /\ b \notin p.byColorBB[c] /\ b \in Squares
      BY <3>1, <3>6, <3>8, <3>10 DEF NormalWays, C, c
    <3>12. a \in Pawns(p) <=> OwnMan /\ type_of(pc) = PAWN
      BY <2>1, <3>5 DEF OwnMan
    <3>13. CASE C = {}
      BY <2>1, <3>2, <3>3, <3>4, <3>5, <3>9, <3>11, <3>12, <3>13
    <3>14. CASE C # {}
      <4>1. Can <=> ~(Cardinality(C) > 1)
        BY <2>7, <3>14
      <4>2. ASSUME Can
            PROVE  b \in C <=> b \in foes /\ b \in T
        BY <2>3, <2>6, <2>7, <3>9, <3>14, <4>2
      <4>3. b \in T => b \notin p.byColorBB[c]
        BY <2>6, <3>14
      <4>. QED BY <2>1, <3>2, <3>3, <3>4, <3>5, <3>11, <3>12, <3>14, <4>1, <4>2, <4>3
    <3>. QED BY <3>13, <3>14
  <2>9. pseudo_legal(p, m) <=> (Can /\ Helps /\ (ByPawn \/ ByPiece)) \/ ByKing
    <3>. DEFINE Walks == /\ rank_of(b) \notin {0, 7}
                         /\ \/ b \in PawnAttacks[c][a] \cap foes
                            \/ a + up = b /\ p.board[b] = NO_PIECE
                            \/ /\ a + 2 * up = b /\ relative_rank(c, a) = 1
                               /\ p.board[b] = NO_PIECE /\ p.board[b - up] = NO_PIECE
    <3>1. pseudo_legal(p, m) <=>
             /\ OwnMan /\ b \notin p.byColorBB[c]
             /\ IF type_of(pc) = PAWN THEN Walks ELSE b \in attacks_bb(type_of(pc), a, pieces(p))
             /\ C # {} /\ type_of(pc) # KING => Cardinality(C) = 1 /\ b \in T
      BY <1>2 DEF pseudo_legal
    <3>2. Walks <=> relative_rank(c, a) # 6 /\ ((p.board[b] = NO_PIECE /\ Goes) \/ b \in foes \cap PawnAttacks[c][a])
      <4>1. up \in Int /\ a \in Int /\ b \in Int
        BY <2>1, PushIs DEF Squares
      <4>2. b = a + 2 * up => b - up = a + up
        BY <4>1
      <4>3. /\ b = a + up \/ b \in PawnAttacks[c][a] => (rank_of(b) \in {0, 7} <=> relative_rank(c, a) = 6)
            /\ b = a + 2 * up => (relative_rank(c, a) = 1 <=> a + up \in Squares /\ relative_rank(c, a + up) = 2)
            /\ b = a + 2 * up /\ relative_rank(c, a) = 1 => rank_of(b) \notin {0, 7}
            /\ relative_rank(c, a) = 1 => relative_rank(c, a) # 6
        BY <2>1, PawnRanks
      <4>. HIDE DEF c, up, a, b, foes
      <4>. QED BY <4>2, <4>3
    <3>3. b \in foes \/ p.board[b] = NO_PIECE => b \notin p.byColorBB[c]
      BY <2>1, <2>2, Sides
    <3>4. OwnMan => \/ type_of(pc) = PAWN /\ type_of(pc) \notin KNIGHT..QUEEN /\ type_of(pc) # KING
                    \/ type_of(pc) \in KNIGHT..QUEEN /\ type_of(pc) # PAWN /\ type_of(pc) # KING
                    \/ type_of(pc) = KING /\ type_of(pc) \notin KNIGHT..QUEEN /\ type_of(pc) # PAWN
      <4>1. OwnMan => type_of(pc) \in PieceTypes
        BY <2>1, <2>2
      <4>. QED BY <4>1 DEF PieceTypes, PAWN, KNIGHT, QUEEN, KING
    <3>5. attacks_bb(KING, a, pieces(p)) = PseudoAttacks[KING][a]
      <4>1. KING \notin BISHOP..QUEEN
        BY DEF KING, BISHOP, QUEEN
      <4>. QED BY <4>1 DEF attacks_bb
    <3>. HIDE DEF Walks, OwnMan, Goes, T, C, foes
    <3>. QED BY <3>1, <3>2, <3>3, <3>4, <3>5
  <2>. QED BY <2>5, <2>8, <2>9
<1>. QED BY <1>1, <1>2

(* ---- The moves of a position as a list ---- *)

\* A generated move is one a hash entry may hold, and never none.
LEMMA GeneratedCodes ==
    ASSUME NEW p, Sound(p), Stands(p, p.sideToMove), NEW type \in {"EVASIONS", "NON_EVASIONS"},
           type = "EVASIONS" => p.st.checkersBB # {}
    PROVE  generate(p, type) \subseteq MoveCodes
<1>. SUFFICES ASSUME NEW m \in generate(p, type)
              PROVE  m \in MoveCodes
  OBVIOUS
<1>1. Fits(p.board, p.sideToMove, m)
  BY GeneratedFits DEF MoveFits
<1>2. type \in GenTypes /\ Whole(p) /\ p.sideToMove \in Colors
      /\ (p.st.epSquare # SQ_NONE => p.st.epSquare \in Squares)
  BY DEF GenTypes, Sound, PassingKept
<1>3. type = "EVASIONS" => p.st.checkersBB \subseteq Squares
  <2>1. p.st.checkersBB \subseteq p.byColorBB[Opp(p.sideToMove)] /\ Opp(p.sideToMove) \in Colors
    BY <1>2, Sides DEF Sound, CheckersKept
  <2>2. p.byColorBB[Opp(p.sideToMove)] \subseteq Squares
    BY <1>2, <2>1, WholeAgrees, Men
  <2>. QED BY <2>1, <2>2
<1>4. \/ \E a, b : m = Move(a, b)
      \/ \E a, b : m = MoveOf(a, b, "EN_PASSANT") \/ m = MoveOf(a, b, "CASTLING")
      \/ \E a, b, pt : m = PromotionTo(a, b, pt)
  <2>1. \/ m \in generate_pawn_moves(p, type, Target(p, type)) \/ PieceMove(p, Target(p, type), m)
        \/ KingMove(p, KingTarget(p, type), m)
        \/ CastleMove(p, m)
    BY <1>2, GeneratedAre
  <2>2. ASSUME m \in generate_pawn_moves(p, type, Target(p, type))
        PROVE  \E a, b : \/ m = Move(a, b) \/ m = MoveOf(a, b, "EN_PASSANT")
                         \/ \E e : m \in make_promotions(type, a, b, e)
    <3>1. \E a \in Pawns(p), b \in Squares : PawnWay(p, type, Target(p, type), a, b, m)
      BY <1>2, <1>3, <2>2, PawnMovesAre
    <3>. QED BY <3>1 DEF PawnWay
  <2>3. \A a, b, e : m \in make_promotions(type, a, b, e) => \E pt : m = PromotionTo(a, b, pt)
    BY DEF make_promotions
  <2>. QED BY <2>1, <2>2, <2>3 DEF PieceMove, KingMove, CastleMove
<1>5. m.from \in Squares /\ m.to \in Squares /\ KNIGHT \in KNIGHT..QUEEN
      /\ (m.type = "PROMOTION" => m.promotion \in KNIGHT..QUEEN)
  BY <1>1, TypesAreFour DEF Fits, KNIGHT, QUEEN
<1>6. CASE \E a, b : m = Move(a, b)
  <2>1. PICK a, b : m = Move(a, b)
    BY <1>6
  <2>2. m.from = a /\ m.to = b
    BY <2>1, MoveFields
  <2>. QED BY <1>5, <2>1, <2>2 DEF MoveCodes, Move
<1>7. CASE \E a, b : m = MoveOf(a, b, "EN_PASSANT") \/ m = MoveOf(a, b, "CASTLING")
  <2>1. PICK a, b : m = MoveOf(a, b, "EN_PASSANT") \/ m = MoveOf(a, b, "CASTLING")
    BY <1>7
  <2>2. m.from = a /\ m.to = b
    BY <2>1, MoveFields
  <2>3. \/ m = [from |-> a, to |-> b, type |-> "EN_PASSANT", promotion |-> KNIGHT]
        \/ m = [from |-> a, to |-> b, type |-> "CASTLING", promotion |-> KNIGHT]
    BY <2>1 DEF MoveOf, Move
  <2>. QED BY <1>5, <2>2, <2>3 DEF MoveCodes
<1>8. CASE \E a, b, pt : m = PromotionTo(a, b, pt)
  <2>1. PICK a, b, pt : m = PromotionTo(a, b, pt)
    BY <1>8
  <2>2. m.from = a /\ m.to = b /\ m.type = "PROMOTION" /\ m.promotion = pt
    BY <2>1, MoveFields
  <2>. QED BY <1>5, <2>1, <2>2 DEF MoveCodes, PromotionTo
<1>. QED BY <1>4, <1>6, <1>7, <1>8

\* There are finitely many moves, and none is not one of them.
LEMMA CodesFinite == IsFiniteSet(MoveCodes) /\ NoMove \notin MoveCodes
<1>1. NoMove \notin MoveCodes
  BY DEF NoMove, Move, MoveCodes, Squares, SQ_NONE
<1>. DEFINE Types == {"NORMAL", "PROMOTION", "EN_PASSANT", "CASTLING"}
            Codes4 == (Squares \X Squares) \X (Types \X (KNIGHT..QUEEN))
            Code(x) == [from |-> x[1][1], to |-> x[1][2], type |-> x[2][1], promotion |-> x[2][2]]
<1>2. IsFiniteSet(Squares) /\ IsFiniteSet(KNIGHT..QUEEN)
  <2>1. IsFiniteSet(KNIGHT..QUEEN)
    <3>1. KNIGHT \in Int /\ QUEEN \in Int
      BY DEF KNIGHT, QUEEN
    <3>. HIDE DEF KNIGHT, QUEEN
    <3>. QED BY <3>1, FS_Interval
  <2>2. PICK a \in Int, b \in Int : a = 0 /\ b = 63
    OBVIOUS
  <2>3. IsFiniteSet(Squares)
    BY <2>2, FS_Interval DEF Squares
  <2>. QED BY <2>1, <2>3
<1>3. IsFiniteSet(Types)
  <2>1. Types = ((({} \cup {"NORMAL"}) \cup {"PROMOTION"}) \cup {"EN_PASSANT"}) \cup {"CASTLING"}
    OBVIOUS
  <2>2. \A S, x : IsFiniteSet(S) => IsFiniteSet(S \cup {x})
    BY FS_AddElement
  <2>3. IsFiniteSet({})
    BY FS_EmptySet
  <2>4. IsFiniteSet({} \cup {"NORMAL"})
    BY <2>2, <2>3
  <2>5. IsFiniteSet(({} \cup {"NORMAL"}) \cup {"PROMOTION"})
    BY <2>2, <2>4
  <2>6. IsFiniteSet((({} \cup {"NORMAL"}) \cup {"PROMOTION"}) \cup {"EN_PASSANT"})
    BY <2>2, <2>5
  <2>7. \A x : IsFiniteSet(((({} \cup {"NORMAL"}) \cup {"PROMOTION"}) \cup {"EN_PASSANT"}) \cup {x})
    BY <2>2, <2>6, Zenon
  <2>. QED BY <2>1, <2>7
<1>4. IsFiniteSet(Codes4)
  <2>. HIDE DEF Types
  <2>1. IsFiniteSet(Squares \X Squares) /\ IsFiniteSet(Types \X (KNIGHT..QUEEN))
    BY <1>2, <1>3, FS_Product
  <2>. QED BY <2>1, FS_Product
<1>5. IsFiniteSet({Code(x) : x \in Codes4})
  <2>. DEFINE f == [x \in Codes4 |-> Code(x)]
              T == {Code(x) : x \in Codes4}
  <2>1. f \in Surjection(Codes4, T)
    BY DEF Surjection
  <2>. HIDE DEF f, Codes4, T
  <2>2. IsFiniteSet(T)
    BY <1>4, <2>1, FS_Surjection
  <2>. QED BY <2>2 DEF T
<1>6. MoveCodes \subseteq {Code(x) : x \in Codes4}
  <2>. SUFFICES ASSUME NEW m \in MoveCodes PROVE m \in {Code(x) : x \in Codes4}
    OBVIOUS
  <2>. DEFINE x == <<<<m.from, m.to>>, <<m.type, m.promotion>>>>
  <2>1. m.from \in Squares /\ m.to \in Squares /\ m.type \in Types /\ m.promotion \in KNIGHT..QUEEN
        /\ m = [from |-> m.from, to |-> m.to, type |-> m.type, promotion |-> m.promotion]
    BY DEF MoveCodes
  <2>2. x \in Codes4
    BY <2>1
  <2>3. Code(x) = m
    BY <2>1
  <2>. HIDE DEF x, Codes4
  <2>. QED BY <2>2, <2>3
<1>7. IsFiniteSet(MoveCodes)
  <2>. DEFINE T == {Code(x) : x \in Codes4}
  <2>. HIDE DEF T
  <2>1. MoveCodes \subseteq T /\ IsFiniteSet(T)
    BY <1>5, <1>6 DEF T
  <2>. QED BY <2>1, FS_Subset
<1>. QED BY <1>1, <1>7

\* A sequence that holds every member of a set once.
Lists(s, M) ==
    /\ s \in Seq(M) /\ \A m \in M : \E i \in 1..Len(s) : s[i] = m
    /\ \A i, j \in 1..Len(s) : s[i] = s[j] => i = j

\* One more member, appended.
LEMMA OneMoreListed ==
    ASSUME NEW M, NEW m \in M, NEW s, Lists(s, M \ {m})
    PROVE  Lists(Append(s, m), M)
<1>. DEFINE t == Append(s, m)
            n == Len(s)
<1>1. s \in Seq(M \ {m}) /\ s \in Seq(M) /\ n \in Nat
  BY DEF Lists
<1>2. t \in Seq(M) /\ Len(t) = n + 1 /\ t[n + 1] = m /\ \A i \in 1..n : t[i] = s[i] /\ s[i] \in M \ {m}
  BY <1>1
<1>. HIDE DEF t, n
<1>3. \A i \in 1..(n + 1) : i \in 1..n \/ i = n + 1
  BY <1>1
<1>4. \A x \in M : \E i \in 1..(n + 1) : t[i] = x
  <2>. SUFFICES ASSUME NEW x \in M PROVE \E i \in 1..(n + 1) : t[i] = x
    OBVIOUS
  <2>1. CASE x = m
    BY <1>1, <1>2, <2>1
  <2>2. CASE x # m
    <3>1. PICK i \in 1..n : s[i] = x
      BY <2>2 DEF Lists, n
    <3>. QED BY <1>1, <1>2, <3>1
  <2>. QED BY <2>1, <2>2
<1>5. ASSUME NEW i \in 1..(n + 1), NEW j \in 1..(n + 1), t[i] = t[j]
      PROVE  i = j
  <2>1. \A k, l \in 1..n : s[k] = s[l] => k = l
    BY DEF Lists, n
  <2>. QED BY <1>2, <1>3, <1>5, <2>1
<1>. QED BY <1>2, <1>4, <1>5 DEF Lists, t

\* The member of a set that is listed last.
Chosen(x) == CHOOSE m \in x : TRUE

\* The moves of a set listed are each of them once.
LEMMA ListedIs ==
    ASSUME NEW M, IsFiniteSet(M)
    PROVE  Lists(Listed(M), M)
<1>. DEFINE S == SUBSET M
            Body(v, x) == IF x = {} THEN <<>> ELSE Append(v[x \ {Chosen(x)}], Chosen(x))
            F == CHOOSE v : v = [x \in S |-> Body(v, x)]
            N == Cardinality(M)
            m == [x \in S |-> Cardinality(x)]
            done == [x \in S |-> x = {}]
            out == [x \in S |-> <<>>]
            next == [x \in S |-> x \ {Chosen(x)}]
            G == [y \in S \X Seq(M) |-> IF y[1] = {} THEN <<>> ELSE Append(y[2], Chosen(y[1]))]
<1>1. Listed(M) = F[M]
  BY Zenon DEF Listed, Chosen
<1>2. \A x : x # {} => Chosen(x) \in x
  BY DEF Chosen
<1>3. /\ N \in Nat
      /\ \A x \in S : Cardinality(x) \in 0..N
      /\ \A x \in S : x # {} => Cardinality(x \ {Chosen(x)}) = Cardinality(x) - 1
      /\ \A x \in S : x = {} <=> Cardinality(x) = 0
  <2>1. N \in Nat
    BY FS_CardinalityType
  <2>2. ASSUME NEW x \in S
        PROVE  /\ Cardinality(x) \in 0..N
               /\ x # {} => Cardinality(x \ {Chosen(x)}) = Cardinality(x) - 1
               /\ x = {} <=> Cardinality(x) = 0
    <3>2. IsFiniteSet(x) /\ Cardinality(x) <= N
      BY FS_Subset
    <3>3. Cardinality(x) \in Nat
      BY <3>2, FS_CardinalityType
    <3>4. x = {} <=> Cardinality(x) = 0
      BY <3>2, FS_EmptySet
    <3>5. \A e \in x : Cardinality(x \ {e}) = Cardinality(x) - 1
      BY <3>2, FS_RemoveElement
    <3>. HIDE DEF N
    <3>. QED BY <1>2, <2>1, <3>2, <3>3, <3>4, <3>5
  <2>. HIDE DEF N, S
  <2>. QED BY <2>1, <2>2
<1>4. m \in [S -> 0..N] /\ done \in [S -> BOOLEAN] /\ out \in [S -> Seq(M)] /\ next \in [S -> S]
      /\ <<>> \in Seq(M)
  <2>. HIDE DEF N
  <2>1. m \in [S -> 0..N]
    BY <1>3
  <2>2. \A x \in S : x \ {Chosen(x)} \in S
    OBVIOUS
  <2>3. next \in [S -> S]
    <3>. HIDE DEF S
    <3>. QED BY <2>2
  <2>. QED BY <2>1, <2>3
<1>5. G \in [S \X Seq(M) -> Seq(M)]
  <2>1. \A y \in S \X Seq(M) : (IF y[1] = {} THEN <<>> ELSE Append(y[2], Chosen(y[1]))) \in Seq(M)
    <3>. SUFFICES ASSUME NEW y1 \in S, NEW y2 \in Seq(M)
                  PROVE  (IF y1 = {} THEN <<>> ELSE Append(y2, Chosen(y1))) \in Seq(M)
      OBVIOUS
    <3>1. y1 # {} => Chosen(y1) \in M
      BY <1>2
    <3>. QED BY <3>1
  <2>. QED BY <2>1
<1>6. Falls(S, m, done, next)
  <2>1. ASSUME NEW x \in S, ~done[x]
        PROVE  m[next[x]] < m[x]
    <3>1. x # {} /\ next[x] = x \ {Chosen(x)} /\ x \ {Chosen(x)} \in S
      BY <2>1
    <3>2. m[x] = Cardinality(x) /\ m[x \ {Chosen(x)}] = Cardinality(x \ {Chosen(x)})
      BY <3>1
    <3>. HIDE DEF m, next, N
    <3>. QED BY <1>3, <3>1, <3>2
  <2>. HIDE DEF m, next, done
  <2>. QED BY <2>1 DEF Falls
<1>7. PICK f : f \in [S -> Seq(M)] /\ Recurs2(f, S, done, out, next, G)
  <2>1. N \in Nat
    BY <1>3
  <2>. HIDE DEF N, m, done, out, next, G, S
  <2>. QED BY <1>4, <1>5, <1>6, <2>1, Recursion
<1>8. f = [x \in S |-> Body(f, x)]
  <2>1. ASSUME NEW x \in S
        PROVE  f[x] = Body(f, x)
    <3>1. f[x] = IF done[x] THEN out[x] ELSE G[<<x, f[next[x]]>>]
      BY <1>7 DEF Recurs2
    <3>2. CASE x = {}
      BY <3>1, <3>2
    <3>3. CASE x # {}
      <4>1. next[x] = x \ {Chosen(x)} /\ f[next[x]] \in Seq(M)
        BY <1>4, <1>7
      <4>2. G[<<x, f[next[x]]>>] = Append(f[next[x]], Chosen(x))
        <5>. HIDE DEF next
        <5>. QED BY <3>3, <4>1
      <4>. QED BY <3>1, <3>3, <4>1, <4>2
    <3>. QED BY <3>2, <3>3
  <2>. HIDE DEF Body
  <2>. QED BY <1>7, <2>1
<1>9. F = [x \in S |-> Body(F, x)]
  <2>. HIDE DEF Body
  <2>. QED BY <1>8
<1>10. \A x \in S : F[x] = Body(F, x)
  <2>. HIDE DEF Body, F
  <2>. QED BY <1>9
<1>. DEFINE T == {n \in Nat : \A x \in S : Cardinality(x) = n => Lists(F[x], x)}
<1>. HIDE DEF F
<1>11. 0 \in T
  <2>1. ASSUME NEW x \in S, Cardinality(x) = 0
        PROVE  Lists(F[x], x)
    <3>1. x = {}
      BY <1>3, <2>1
    <3>2. F[x] = <<>>
      BY <1>10, <2>1, <3>1
    <3>. QED BY <3>1, <3>2 DEF Lists
  <2>. QED BY <2>1
<1>12. ASSUME NEW n \in Nat, n \in T
       PROVE  n + 1 \in T
  <2>1. ASSUME NEW x \in S, Cardinality(x) = n + 1
        PROVE  Lists(F[x], x)
    <3>1. x # {} /\ Cardinality(x \ {Chosen(x)}) = n /\ x \ {Chosen(x)} \in S /\ Chosen(x) \in x
      <4>1. x # {} /\ x \ {Chosen(x)} \in S
        BY <1>3, <2>1
      <4>2. Cardinality(x \ {Chosen(x)}) = Cardinality(x) - 1
        BY <1>3, <4>1
      <4>. QED BY <1>2, <2>1, <4>1, <4>2
    <3>2. F[x] = Append(F[x \ {Chosen(x)}], Chosen(x))
      BY <1>10, <3>1
    <3>3. Lists(F[x \ {Chosen(x)}], x \ {Chosen(x)})
      BY <1>12, <3>1
    <3>. QED BY <3>1, <3>2, <3>3, OneMoreListed
  <2>. QED BY <2>1
<1>13. N \in T
  <2>. HIDE DEF T
  <2>. QED BY <1>3, <1>11, <1>12, Numbers
<1>14. M \in S
  OBVIOUS
<1>. QED BY <1>1, <1>13, <1>14

\* What holds at a and passes on from each number to the next holds up to b.
LEMMA Onward ==
    ASSUME NEW a \in Int, NEW b \in Int, NEW T, a \in T, \A i \in (a + 1)..b : i - 1 \in T => i \in T
    PROVE  a..b \subseteq T
<1>. DEFINE U == {n \in Nat : a + n <= b => a + n \in T}
<1>1. 0 \in U
  OBVIOUS
<1>2. ASSUME NEW n \in Nat, n \in U
      PROVE  n + 1 \in U
  <2>1. CASE a + (n + 1) <= b
    <3>1. a + n \in T /\ a + (n + 1) \in (a + 1)..b /\ (a + (n + 1)) - 1 = a + n
      BY <1>2, <2>1
    <3>. QED BY <3>1
  <2>. QED BY <2>1
<1>3. Nat \subseteq U
  <2>. HIDE DEF U
  <2>. QED BY <1>1, <1>2, Numbers
<1>4. ASSUME NEW i \in a..b
      PROVE  i \in T
  <2>1. i - a \in Nat /\ a + (i - a) = i
    OBVIOUS
  <2>. QED BY <1>3, <2>1
<1>. QED BY <1>4

\* The value of v at a is e, and beyond it made by G from the one before.
Iterates(v, a, b, e, G) == \A i \in a..b : v[i] = IF i = a THEN e ELSE G[<<i, v[i - 1]>>]

\* A function defined by iteration exists.
LEMMA Iteration ==
    ASSUME NEW a \in Int, NEW b \in Int, a <= b, NEW e, NEW G
    PROVE  \E v : Iterates(v, a, b, e, G)
<1>. DEFINE Body(v, i) == IF i = a THEN e ELSE G[<<i, v[i - 1]>>]
            T == {k \in a..b : \E v : v = [i \in a..k |-> Body(v, i)]}
<1>1. a \in T
  <2>. DEFINE w == [j \in a..a |-> e]
  <2>1. \A i \in a..a : Body(w, i) = e
    OBVIOUS
  <2>2. w = [i \in a..a |-> Body(w, i)]
    <3>. HIDE DEF Body
    <3>. QED BY <2>1
  <2>. HIDE DEF w, Body
  <2>. QED BY <2>2
<1>2. ASSUME NEW k \in (a + 1)..b, k - 1 \in T
      PROVE  k \in T
  <2>1. PICK v : v = [i \in a..(k - 1) |-> Body(v, i)]
    BY <1>2
  <2>. DEFINE w == [i \in a..k |-> IF i = k THEN Body(v, i) ELSE v[i]]
  <2>2. ASSUME NEW i \in a..k
        PROVE  w[i] = Body(w, i)
    <3>1. i = a \/ (i - 1 \in a..(k - 1) /\ i - 1 # k /\ w[i - 1] = v[i - 1])
      OBVIOUS
    <3>2. Body(w, i) = Body(v, i)
      BY <3>1
    <3>3. w[i] = Body(v, i)
      <4>1. CASE i = k
        BY <4>1
      <4>2. CASE i # k
        <5>1. i \in a..(k - 1) /\ w[i] = v[i]
          BY <4>2
        <5>. HIDE DEF w, Body
        <5>. QED BY <2>1, <5>1
      <4>. QED BY <4>1, <4>2
    <3>. QED BY <3>2, <3>3
  <2>3. w = [i \in a..k |-> Body(w, i)]
    <3>1. w = [i \in a..k |-> w[i]]
      OBVIOUS
    <3>. HIDE DEF w, Body
    <3>. QED BY <2>2, <3>1
  <2>. HIDE DEF w, Body
  <2>. QED BY <2>3
<1>3. b \in T
  <2>. HIDE DEF T
  <2>1. a..b \subseteq T
    BY <1>1, <1>2, Onward
  <2>. QED BY <2>1
<1>4. PICK v : v = [i \in a..b |-> Body(v, i)]
  BY <1>3
<1>5. \A i \in a..b : v[i] = Body(v, i)
  <2>. HIDE DEF Body
  <2>. QED BY <1>4
<1>. QED BY <1>5 DEF Iterates

\* No move is in the list twice.
OnceEach(s) == \A k, l \in 1..Len(s) : s[k].move = s[l].move => k = l
\* t is s with its entries from a up to b in another order.
Rearranged(t, s, a, b) ==
    /\ Len(t) = Len(s)
    /\ \A k \in 1..Len(s) : k \notin a..(b - 1) => t[k] = s[k]
    /\ \A k \in a..(b - 1) : \E l \in a..(b - 1) : t[k] = s[l]
    /\ \A k \in a..(b - 1) : \E l \in a..(b - 1) : s[k] = t[l]
    /\ OnceEach(s) => OnceEach(t)

\* Orders of orders are orders.
LEMMA RearrangedTwice ==
    ASSUME NEW s, NEW t, NEW u, NEW a, NEW b, Rearranged(t, s, a, b), Rearranged(u, t, a, b)
    PROVE  Rearranged(u, s, a, b)
<1>1. \A k \in a..(b - 1) : \E l \in a..(b - 1) : u[k] = s[l]
  BY DEF Rearranged
<1>2. \A k \in a..(b - 1) : \E l \in a..(b - 1) : s[k] = u[l]
  BY DEF Rearranged
<1>. QED BY <1>1, <1>2 DEF Rearranged

\* The entries that pi takes from where it says, and back.
MovedBy(t, s, n, pi, back) == \A k \in 1..n : /\ t[k] = s[pi[k]] /\ pi[k] \in 1..n /\ back[pi[k]] = k
                                            /\ back[k] \in 1..n /\ pi[back[k]] = k
\* A list whose entries have moved within a part is rearranged in that part.
LEMMA MovedIs ==
    ASSUME NEW s, NEW t, NEW n \in Nat, n = Len(s), n = Len(t), NEW pi, NEW back, NEW a \in Int, NEW b \in Int,
           1 <= a, b <= n + 1, MovedBy(t, s, n, pi, back),
           \A k \in 1..n : IF k \in a..(b - 1) THEN pi[k] \in a..(b - 1) /\ back[k] \in a..(b - 1) ELSE pi[k] = k
    PROVE  Rearranged(t, s, a, b)
<1>1. \A k \in a..(b - 1) : k \in 1..n
  OBVIOUS
<1>2. \A k \in 1..n : k \notin a..(b - 1) => t[k] = s[k]
  BY DEF MovedBy
<1>3. \A k \in a..(b - 1) : \E l \in a..(b - 1) : t[k] = s[l]
  BY <1>1 DEF MovedBy
<1>4. ASSUME NEW k \in a..(b - 1)
      PROVE  \E l \in a..(b - 1) : s[k] = t[l]
  <2>1. k \in 1..n /\ back[k] \in a..(b - 1) /\ back[k] \in 1..n /\ pi[back[k]] = k
    BY <1>1 DEF MovedBy
  <2>2. t[back[k]] = s[k]
    BY <2>1 DEF MovedBy
  <2>. QED BY <2>1, <2>2
<1>5. ASSUME OnceEach(s), NEW k \in 1..n, NEW l \in 1..n, t[k].move = t[l].move
      PROVE  k = l
  <2>1. t[k] = s[pi[k]] /\ t[l] = s[pi[l]] /\ pi[k] \in 1..n /\ pi[l] \in 1..n
        /\ back[pi[k]] = k /\ back[pi[l]] = l
    BY DEF MovedBy
  <2>2. pi[k] = pi[l]
    BY <1>5, <2>1 DEF OnceEach
  <2>. QED BY <2>1, <2>2
<1>. QED BY <1>2, <1>3, <1>4, <1>5 DEF Rearranged, OnceEach

\* Exchanging two entries is another order.
LEMMA SwappedIs ==
    ASSUME NEW S, NEW s \in Seq(S), NEW i \in 1..Len(s), NEW j \in 1..Len(s),
           NEW a \in Int, NEW b \in Int, 1 <= a, b <= Len(s) + 1, i \in a..(b - 1), j \in a..(b - 1)
    PROVE  /\ Swapped(s, i, j) \in Seq(S) /\ Len(Swapped(s, i, j)) = Len(s)
           /\ Swapped(s, i, j)[i] = s[j] /\ Swapped(s, i, j)[j] = s[i]
           /\ \A k \in 1..Len(s) : k # i /\ k # j => Swapped(s, i, j)[k] = s[k]
           /\ Rearranged(Swapped(s, i, j), s, a, b)
<1>. DEFINE n == Len(s)
            t == Swapped(s, i, j)
            pi == [k \in 1..n |-> IF k = i THEN j ELSE IF k = j THEN i ELSE k]
<1>1. n \in Nat /\ t \in Seq(S) /\ Len(t) = n /\ t[i] = s[j] /\ t[j] = s[i]
      /\ \A k \in 1..n : k # i /\ k # j => t[k] = s[k]
  BY DEF Swapped
<1>. HIDE DEF t
<1>2. MovedBy(t, s, n, pi, pi)
  BY <1>1 DEF MovedBy
<1>3. \A k \in 1..n : IF k \in a..(b - 1) THEN pi[k] \in a..(b - 1) /\ pi[k] \in a..(b - 1) ELSE pi[k] = k
  OBVIOUS
<1>4. Rearranged(t, s, a, b)
  <2>. HIDE DEF pi
  <2>. QED BY <1>1, <1>2, <1>3, MovedIs
<1>. QED BY <1>1, <1>4 DEF t

\* A part of a sequence, from a to b.
LEMMA Part ==
    ASSUME NEW S, NEW s \in Seq(S), NEW a \in Int, NEW b \in Int, 1 <= a, a <= b + 1, b <= Len(s)
    PROVE  /\ SubSeq(s, a, b) \in Seq(S) /\ Len(SubSeq(s, a, b)) = (b + 1) - a
           /\ \A i \in 1..((b + 1) - a) : SubSeq(s, a, b)[i] = s[(a + i) - 1]
<1>1. \A i \in a..b : s[i] \in S
  OBVIOUS
<1>2. /\ SubSeq(s, a, b) \in Seq(S)
      /\ Len(SubSeq(s, a, b)) = IF a <= b THEN b - a + 1 ELSE 0
      /\ \A i \in 1..b - a + 1 : SubSeq(s, a, b)[i] = s[a + i - 1]
  BY <1>1, SubSeqProperties
<1>. QED BY <1>2

\* Two sequences in a row.
LEMMA InARow ==
    ASSUME NEW S, NEW s \in Seq(S), NEW t \in Seq(S), NEW m \in Int, NEW n \in Int, m = Len(s), n = Len(t) + m
    PROVE  /\ s \o t \in Seq(S) /\ Len(s \o t) = n
           /\ \A i \in 1..n : (s \o t)[i] = IF i <= m THEN s[i] ELSE t[i - m]
<1>1. /\ s \o t \in Seq(S) /\ Len(s \o t) = Len(s) + Len(t)
      /\ \A i \in 1..Len(s) + Len(t) : (s \o t)[i] = IF i <= Len(s) THEN s[i] ELSE t[i - Len(s)]
  BY ConcatProperties
<1>2. Len(s) + Len(t) = n
  BY LenProperties
<1>. QED BY <1>1, <1>2

\* An entry that goes to its place among the sorted ones moves the others up by one.
LEMMA InsertedIs ==
    ASSUME NEW S, NEW s \in Seq(S), NEW begin \in 1..Len(s), NEW sorted \in begin..Len(s),
           NEW i \in sorted..Len(s), NEW b \in (i + 1)..(Len(s) + 1)
    PROVE  Inserted(s, begin, sorted, i) \in Seq(S) /\ Rearranged(Inserted(s, begin, sorted, i), s, begin, b)
<1>. DEFINE n == Len(s)
            place == PlaceOf(s, begin, sorted, i)
            displaced == Swapped(s, sorted, i)
            t == Inserted(s, begin, sorted, i)
            A == SubSeq(s, 1, place - 1)
            C == SubSeq(displaced, place, sorted - 1)
            D == SubSeq(displaced, sorted + 1, n)
<1>1. n \in Nat /\ place \in begin..sorted
  <2>. DEFINE P == {sorted} \cup {q \in begin..(sorted - 1) : s[q].value < s[i].value}
  <2>1. P \subseteq begin..sorted /\ P \subseteq Nat /\ P # {}
    <3>1. begin..sorted \subseteq Nat
      OBVIOUS
    <3>. QED BY <3>1
  <2>2. place = Min(P)
    BY DEF PlaceOf
  <2>. HIDE DEF P, place
  <2>3. Min(P) \in P
    BY <2>1, LeastIsIn
  <2>4. n \in Nat
    OBVIOUS
  <2>5. place \in begin..sorted
    BY <2>1, <2>2, <2>3
  <2>. QED BY <2>4, <2>5
<1>. HIDE DEF place
<1>2. displaced \in Seq(S) /\ Len(displaced) = n /\ displaced[sorted] = s[i] /\ displaced[i] = s[sorted]
      /\ \A k \in 1..n : k # sorted /\ k # i => displaced[k] = s[k]
  <2>. DEFINE o == n + 1
  <2>1. sorted \in 1..n /\ i \in 1..n /\ o \in Int /\ 1 \in Int /\ 1 <= 1 /\ o <= Len(s) + 1
        /\ i \in 1..(o - 1) /\ sorted \in 1..(o - 1)
    BY <1>1
  <2>. HIDE DEF o
  <2>2. /\ Swapped(s, sorted, i) \in Seq(S) /\ Len(Swapped(s, sorted, i)) = Len(s)
        /\ Swapped(s, sorted, i)[sorted] = s[i] /\ Swapped(s, sorted, i)[i] = s[sorted]
        /\ \A k \in 1..Len(s) : k # sorted /\ k # i => Swapped(s, sorted, i)[k] = s[k]
        /\ Rearranged(Swapped(s, sorted, i), s, 1, o)
    BY <2>1, SwappedIs
  <2>. QED BY <2>2
<1>. HIDE DEF displaced
<1>3. /\ A \in Seq(S) /\ Len(A) = place - 1 /\ \A k \in 1..(place - 1) : A[k] = s[k]
      /\ C \in Seq(S) /\ Len(C) = sorted - place /\ \A k \in 1..(sorted - place) : C[k] = displaced[(place + k) - 1]
      /\ D \in Seq(S) /\ Len(D) = n - sorted /\ \A k \in 1..(n - sorted) : D[k] = displaced[sorted + k]
  <2>1. /\ A \in Seq(S) /\ Len(A) = ((place - 1) + 1) - 1
        /\ \A k \in 1..(((place - 1) + 1) - 1) : A[k] = s[(1 + k) - 1]
    <3>. DEFINE u == place - 1
    <3>1. u \in Int /\ 1 <= 1 /\ 1 \in Int /\ 1 <= u + 1 /\ u <= Len(s)
      BY <1>1
    <3>. HIDE DEF u
    <3>2. /\ SubSeq(s, 1, u) \in Seq(S) /\ Len(SubSeq(s, 1, u)) = (u + 1) - 1
          /\ \A k \in 1..((u + 1) - 1) : SubSeq(s, 1, u)[k] = s[(1 + k) - 1]
      BY <3>1, Part
    <3>. QED BY <3>2 DEF u
  <2>2. /\ C \in Seq(S) /\ Len(C) = ((sorted - 1) + 1) - place
        /\ \A k \in 1..(((sorted - 1) + 1) - place) : C[k] = displaced[(place + k) - 1]
    <3>. DEFINE u == sorted - 1
    <3>1. u \in Int /\ place \in Int /\ 1 <= place /\ place <= u + 1 /\ u <= Len(displaced)
      BY <1>1, <1>2
    <3>. HIDE DEF u
    <3>2. /\ SubSeq(displaced, place, u) \in Seq(S) /\ Len(SubSeq(displaced, place, u)) = (u + 1) - place
          /\ \A k \in 1..((u + 1) - place) : SubSeq(displaced, place, u)[k] = displaced[(place + k) - 1]
      BY <1>2, <3>1, Part
    <3>. QED BY <3>2 DEF u
  <2>3. /\ D \in Seq(S) /\ Len(D) = (n + 1) - (sorted + 1)
        /\ \A k \in 1..((n + 1) - (sorted + 1)) : D[k] = displaced[((sorted + 1) + k) - 1]
    <3>. DEFINE u == sorted + 1
    <3>1. u \in Int /\ n \in Int /\ 1 <= u /\ u <= n + 1 /\ n <= Len(displaced)
      BY <1>1, <1>2
    <3>. HIDE DEF u, n
    <3>2. /\ SubSeq(displaced, u, n) \in Seq(S) /\ Len(SubSeq(displaced, u, n)) = (n + 1) - u
          /\ \A k \in 1..((n + 1) - u) : SubSeq(displaced, u, n)[k] = displaced[(u + k) - 1]
      BY <1>2, <3>1, Part
    <3>. QED BY <3>2 DEF u
  <2>. HIDE DEF A, C, D
  <2>4. \A k \in 1..(place - 1) : A[k] = s[k]
    BY <1>1, <2>1
  <2>5. \A k \in 1..(n - sorted) : D[k] = displaced[sorted + k]
    BY <1>1, <2>3
  <2>6. \A k \in 1..(sorted - place) : C[k] = displaced[(place + k) - 1]
    BY <1>1, <2>2
  <2>7. Len(A) = place - 1 /\ Len(C) = sorted - place /\ Len(D) = n - sorted
    BY <1>1, <2>1, <2>2, <2>3
  <2>. QED BY <2>1, <2>2, <2>3, <2>4, <2>5, <2>6, <2>7
<1>4. t = ((A \o <<s[i]>>) \o C) \o D
  BY DEF Inserted, place, displaced
<1>. HIDE DEF A, C, D, t
<1>5. /\ t \in Seq(S) /\ Len(t) = n
      /\ \A k \in 1..n : t[k] = IF k < place THEN A[k] ELSE IF k = place THEN s[i]
                                ELSE IF k <= sorted THEN C[k - place] ELSE D[k - sorted]
  <2>. DEFINE X == A \o <<s[i]>>
              Y == X \o C
  <2>1. s[i] \in S
    BY <1>1
  <2>2. X \in Seq(S) /\ Len(X) = place /\ \A k \in 1..place : X[k] = IF k < place THEN A[k] ELSE s[i]
    <3>1. <<s[i]>> \in Seq(S) /\ Len(<<s[i]>>) = 1 /\ <<s[i]>>[1] = s[i]
      BY <2>1
    <3>. DEFINE E == <<s[i]>>
                u == place - 1
    <3>4. u \in Int /\ place \in Int /\ u = Len(A) /\ place = Len(E) + u /\ E \in Seq(S) /\ A \in Seq(S)
      BY <1>1, <1>3, <3>1
    <3>. HIDE DEF u, E
    <3>2. /\ X \in Seq(S) /\ Len(X) = place
          /\ \A k \in 1..place : X[k] = IF k <= u THEN A[k] ELSE E[k - u]
      BY <3>4, InARow DEF E
    <3>. HIDE DEF X
    <3>. USE DEF u, E
    <3>3. \A k \in 1..place : ~(k <= place - 1) => k - (place - 1) = 1
      BY <1>1
    <3>. QED BY <1>1, <3>1, <3>2, <3>3
  <2>. HIDE DEF X
  <2>3. Y \in Seq(S) /\ Len(Y) = sorted /\ \A k \in 1..sorted : Y[k] = IF k <= place THEN X[k] ELSE C[k - place]
    <3>1. place \in Int /\ sorted \in Int /\ place = Len(X) /\ sorted = Len(C) + place
          /\ X \in Seq(S) /\ C \in Seq(S)
      BY <1>1, <1>3, <2>2
    <3>. QED BY <3>1, InARow
  <2>. HIDE DEF Y
  <2>4. t = Y \o D
    BY <1>4 DEF X, Y
  <2>5. t \in Seq(S) /\ Len(t) = n /\ \A k \in 1..n : t[k] = IF k <= sorted THEN Y[k] ELSE D[k - sorted]
    <3>1. sorted \in Int /\ n \in Int /\ sorted = Len(Y) /\ n = Len(D) + sorted
          /\ Y \in Seq(S) /\ D \in Seq(S)
      BY <1>1, <1>3, <2>3
    <3>. HIDE DEF n
    <3>. QED BY <2>4, <3>1, InARow
  <2>. QED BY <1>1, <2>2, <2>3, <2>5
<1>6. \A k \in 1..n : t[k] = IF k < place THEN s[k] ELSE IF k = place THEN s[i]
                             ELSE IF k <= sorted THEN s[k - 1] ELSE IF k = i THEN s[sorted] ELSE s[k]
  <2>. SUFFICES ASSUME NEW k \in 1..n
                PROVE  t[k] = IF k < place THEN s[k] ELSE IF k = place THEN s[i]
                              ELSE IF k <= sorted THEN s[k - 1] ELSE IF k = i THEN s[sorted] ELSE s[k]
    OBVIOUS
  <2>1. CASE k <= place
    BY <1>1, <1>3, <1>5, <2>1
  <2>2. CASE k > place /\ k <= sorted
    <3>1. k - place \in 1..(sorted - place) /\ (place + (k - place)) - 1 = k - 1
          /\ k - 1 \in 1..n /\ k - 1 # sorted /\ k - 1 # i
      BY <1>1, <2>2
    <3>2. t[k] = C[k - place]
      BY <1>1, <1>5, <2>2
    <3>3. t[k] = displaced[k - 1]
      BY <1>3, <3>1, <3>2
    <3>. QED BY <1>1, <1>2, <2>2, <3>1, <3>3
  <2>3. CASE k > sorted
    <3>1. t[k] = D[k - sorted] /\ k - sorted \in 1..(n - sorted) /\ sorted + (k - sorted) = k
      BY <1>1, <1>5, <2>3
    <3>2. t[k] = displaced[k]
      BY <1>3, <3>1
    <3>. QED BY <1>1, <1>2, <2>3, <3>2
  <2>. QED BY <1>1, <2>1, <2>2, <2>3
<1>. DEFINE pi == [k \in 1..n |-> IF k < place THEN k ELSE IF k = place THEN i
                             ELSE IF k <= sorted THEN k - 1 ELSE IF k = i THEN sorted ELSE k]
            back == [k \in 1..n |-> IF k < place THEN k ELSE IF k = i THEN place ELSE IF k < sorted THEN k + 1
                             ELSE IF k = sorted THEN i ELSE k]
<1>7. MovedBy(t, s, n, pi, back)
  <2>1. \A k \in 1..n : pi[k] \in 1..n /\ t[k] = s[pi[k]] /\ back[k] \in 1..n
    BY <1>1, <1>6
  <2>2. \A k \in 1..n : back[pi[k]] = k
    BY <1>1, <2>1
  <2>3. \A k \in 1..n : pi[back[k]] = k
    BY <1>1, <2>1
  <2>. HIDE DEF pi, back
  <2>. QED BY <2>1, <2>2, <2>3 DEF MovedBy
<1>8. \A k \in 1..n : IF k \in begin..(b - 1) THEN pi[k] \in begin..(b - 1) /\ back[k] \in begin..(b - 1) ELSE pi[k] = k
  BY <1>1
<1>9. Rearranged(t, s, begin, b)
  <2>. HIDE DEF pi, back
  <2>1. b \in Int /\ begin \in Int /\ 1 <= begin /\ b <= n + 1
    BY <1>1
  <2>. QED BY <1>1, <1>5, <1>7, <1>8, <2>1, MovedIs
<1>. QED BY <1>5, <1>9 DEF t

\* The sort of a part of the list up to its end leaves the entries there in another order.
LEMMA SortIs ==
    ASSUME NEW S, NEW s \in Seq(S), NEW begin \in 1..(Len(s) + 1), NEW limit
    PROVE  LET t == partial_insertion_sort(s, begin, Len(s) + 1, limit)
           IN  t \in Seq(S) /\ Rearranged(t, s, begin, Len(s) + 1)
<1>. DEFINE n == Len(s)
            last == Max({begin, (n + 1) - 1})
            e == [list |-> s, sorted |-> begin]
            Body(v, i) == IF i = begin THEN e ELSE SortedStep(v[i - 1], begin, i, limit)
            F == CHOOSE v : v = [i \in begin..last |-> Body(v, i)]
            V == [list : Seq(S), sorted : Int]
            Good(i, x) == x \in V /\ Rearranged(x.list, s, begin, n + 1) /\ x.sorted \in begin..i
<1>1. partial_insertion_sort(s, begin, Len(s) + 1, limit) = F[last].list
  BY Zenon DEF partial_insertion_sort
<1>2. n \in Nat /\ last \in Int /\ begin <= last /\ (last <= n \/ last = begin)
  <2>1. n \in Nat /\ begin \in Int /\ (n + 1) - 1 \in Int
    OBVIOUS
  <2>. DEFINE u == (n + 1) - 1
  <2>2. u \in Int /\ u = n
    BY <2>1
  <2>. HIDE DEF u, n
  <2>3. Max({begin, u}) = IF begin >= u THEN begin ELSE u
    BY <2>1, <2>2, MaxOfTwo
  <2>. QED BY <2>1, <2>2, <2>3 DEF u
<1>. HIDE DEF last
<1>3. Good(begin, e)
  <2>1. Rearranged(s, s, begin, n + 1)
    BY DEF Rearranged
  <2>. QED BY <2>1
<1>4. ASSUME NEW i \in (begin + 1)..last, NEW x, Good(i - 1, x)
      PROVE  Good(i, SortedStep(x, begin, i, limit))
  <2>1. CASE x.list[i].value < limit
    <3>1. SortedStep(x, begin, i, limit) = x
      BY <2>1 DEF SortedStep
    <3>. QED BY <1>2, <1>4, <3>1
  <2>2. CASE ~(x.list[i].value < limit)
    <3>. DEFINE k == x.sorted + 1
                l == x.list
                m == Inserted(l, begin, k, i)
                b == n + 1
    <3>1. SortedStep(x, begin, i, limit) = [list |-> m, sorted |-> k]
      BY <2>2 DEF SortedStep
    <3>2. l \in Seq(S) /\ Len(l) = n /\ k \in Int
      BY <1>4 DEF Rearranged
    <3>3. begin \in 1..Len(l) /\ k \in begin..Len(l) /\ i \in k..Len(l) /\ b \in (i + 1)..(Len(l) + 1)
          /\ k \in begin..i
      BY <1>2, <1>4, <3>2
    <3>. HIDE DEF m, k, l, b
    <3>4. m \in Seq(S) /\ Rearranged(m, l, begin, b)
      BY <3>2, <3>3, InsertedIs DEF m
    <3>5. Rearranged(l, s, begin, b)
      BY <1>4 DEF b, l
    <3>6. Rearranged(m, s, begin, b)
      BY <3>4, <3>5, RearrangedTwice
    <3>. QED BY <3>1, <3>2, <3>3, <3>4, <3>6 DEF b
  <2>. QED BY <2>1, <2>2
<1>. HIDE DEF Good, e
<1>. DEFINE G == [z \in (begin..last) \X V |-> SortedStep(z[2], begin, z[1], limit)]
<1>6. PICK f : Iterates(f, begin, last, e, G)
  <2>1. begin \in Int
    OBVIOUS
  <2>. HIDE DEF G
  <2>. QED BY <1>2, <2>1, Iteration
<1>5. \A i \in begin..last : f[i] = IF i = begin THEN e ELSE G[<<i, f[i - 1]>>]
  <2>. HIDE DEF G
  <2>. QED BY <1>6 DEF Iterates
<1>7. ASSUME NEW i \in (begin + 1)..last, Good(i - 1, f[i - 1])
      PROVE  f[i] = SortedStep(f[i - 1], begin, i, limit)
  <2>1. f[i - 1] \in V
    BY <1>7 DEF Good
  <2>2. i \in begin..last /\ i # begin
    BY <1>2
  <2>3. G[<<i, f[i - 1]>>] = SortedStep(f[i - 1], begin, i, limit)
    BY <2>1, <2>2
  <2>. QED BY <1>5, <2>2, <2>3
<1>8. begin..last \subseteq {i \in begin..last : Good(i, f[i])}
  <2>. DEFINE T == {i \in begin..last : Good(i, f[i])}
  <2>1. begin \in T
    <3>. HIDE DEF G
    <3>2. begin \in begin..last
      BY <1>2
    <3>1. begin \in begin..last /\ f[begin] = e
      BY <1>5, <3>2, Zenon
    <3>. QED BY <1>3, <3>1
  <2>2. ASSUME NEW i \in (begin + 1)..last, i - 1 \in T
        PROVE  i \in T
    BY <1>2, <1>4, <1>7, <2>2
  <2>4. begin \in Int
    OBVIOUS
  <2>. HIDE DEF T
  <2>3. begin..last \subseteq T
    BY <1>2, <2>1, <2>2, <2>4, Onward
  <2>. QED BY <2>3 DEF T
<1>. DEFINE g == [i \in begin..last |-> f[i]]
<1>9. g = [i \in begin..last |-> Body(g, i)]
  <2>1. ASSUME NEW i \in begin..last
        PROVE  g[i] = Body(g, i)
    <3>1. CASE i = begin
      BY <1>5, <3>1
    <3>2. CASE i # begin
      <4>1. i \in (begin + 1)..last /\ i - 1 \in begin..last
        BY <1>2, <3>2
      <4>2. g[i] = f[i] /\ g[i - 1] = f[i - 1]
        BY <4>1
      <4>. HIDE DEF g
      <4>. QED BY <1>7, <1>8, <3>2, <4>1, <4>2
    <3>. QED BY <3>1, <3>2
  <2>2. g = [i \in begin..last |-> g[i]]
    OBVIOUS
  <2>. HIDE DEF Body, g
  <2>. QED BY <2>1, <2>2
<1>10. F = [i \in begin..last |-> Body(F, i)]
  <2>. HIDE DEF Body
  <2>. QED BY <1>9
<1>11. \A i \in begin..last : F[i] = Body(F, i)
  <2>. HIDE DEF Body, F
  <2>. QED BY <1>10
<1>. HIDE DEF F
<1>12. begin..last \subseteq {i \in begin..last : Good(i, F[i])}
  <2>. DEFINE T == {i \in begin..last : Good(i, F[i])}
  <2>1. begin \in T
    BY <1>2, <1>3, <1>11
  <2>2. ASSUME NEW i \in (begin + 1)..last, i - 1 \in T
        PROVE  i \in T
    <3>1. i \in begin..last /\ i # begin
      BY <1>2
    <3>2. F[i] = SortedStep(F[i - 1], begin, i, limit)
      BY <1>11, <3>1
    <3>. QED BY <1>4, <2>2, <3>1, <3>2
  <2>4. begin \in Int
    OBVIOUS
  <2>. HIDE DEF T
  <2>3. begin..last \subseteq T
    BY <1>2, <2>1, <2>2, <2>4, Onward
  <2>. QED BY <2>3 DEF T
<1>13. Good(last, F[last])
  BY <1>2, <1>12
<1>. QED BY <1>1, <1>13 DEF Good

\* The scored moves of a type.
Scored(mp, type) == {ExtMove(m, score(mp.pos, mp.history, type, m)) : m \in generate(mp.pos, type)}

\* What is generated follows the entries before it: each move of its type, once.
LEMMA GeneratedList ==
    ASSUME NEW mp, NEW S, mp.list \in Seq(S), NEW at \in 1..(Len(mp.list) + 1), NEW type,
           IsFiniteSet(generate(mp.pos, type))
    PROVE  LET t == Generated(mp, type, at)
               M == generate(mp.pos, type)
           IN  /\ t \in Seq(S \cup Scored(mp, type)) /\ Len(t) >= at - 1
               /\ \A i \in 1..(at - 1) : t[i] = mp.list[i]
               /\ \A i \in at..Len(t) : t[i] \in Scored(mp, type) /\ t[i].move \in M
               /\ \A m \in M : \E i \in at..Len(t) : t[i].move = m
               /\ \A i, j \in at..Len(t) : t[i].move = t[j].move => i = j
<1>. DEFINE M == generate(mp.pos, type)
            t == Generated(mp, type, at)
            V == S \cup Scored(mp, type)
            L == Listed(M)
            E(m) == ExtMove(m, score(mp.pos, mp.history, type, m))
            A == SubSeq(mp.list, 1, at - 1)
            B == [i \in DOMAIN L |-> E(L[i])]
            a == at - 1
            b == Len(L)
<1>1. L \in Seq(M) /\ (\A m \in M : \E i \in 1..Len(L) : L[i] = m) /\ \A i, j \in 1..Len(L) : L[i] = L[j] => i = j
  BY ListedIs DEF Lists
<1>2. t = A \o B
  BY DEF Generated
<1>3. \A m \in M : E(m) \in Scored(mp, type) /\ E(m).move = m
  BY DEF Scored, ExtMove
<1>4. b \in Nat /\ DOMAIN L = 1..b /\ \A i \in 1..b : L[i] \in M
  BY <1>1, LenProperties, ElementOfSeq
<1>. HIDE DEF L, E, M
<1>5. /\ B \in Seq(V) /\ Len(B) = b
      /\ \A i \in 1..b : B[i] = E(L[i]) /\ B[i] \in Scored(mp, type) /\ B[i].move = L[i]
  <2>1. B = [i \in 1..b |-> E(L[i])]
    BY <1>4
  <2>2. \A i \in 1..b : E(L[i]) \in Scored(mp, type) /\ E(L[i]).move = L[i]
    BY <1>3, <1>4
  <2>. HIDE DEF B
  <2>3. \A i \in 1..b : B[i] = E(L[i]) /\ B[i] \in Scored(mp, type) /\ B[i].move = L[i]
    BY <2>1, <2>2
  <2>4. B \in [1..b -> V]
    BY <2>1, <2>2
  <2>5. B \in Seq(V) /\ Len(B) = b
    BY <1>4, <2>4, SeqDef
  <2>. QED BY <2>3, <2>5
<1>. HIDE DEF B, b
<1>6. A \in Seq(V) /\ Len(A) = a /\ \A i \in 1..a : A[i] = mp.list[i]
  <2>1. a \in Int /\ 1 \in Int /\ 1 <= 1 /\ 1 <= a + 1 /\ a <= Len(mp.list)
    OBVIOUS
  <2>. HIDE DEF a
  <2>2. /\ SubSeq(mp.list, 1, a) \in Seq(S) /\ Len(SubSeq(mp.list, 1, a)) = (a + 1) - 1
        /\ \A i \in 1..((a + 1) - 1) : SubSeq(mp.list, 1, a)[i] = mp.list[(1 + i) - 1]
    BY <2>1, Part
  <2>3. A = SubSeq(mp.list, 1, a)
    BY DEF a
  <2>. HIDE DEF A
  <2>4. A \in Seq(S) /\ Len(A) = a /\ \A i \in 1..a : A[i] = mp.list[i]
    BY <2>1, <2>2, <2>3
  <2>5. A \in Seq(V)
    BY <2>4, SeqMonotonic
  <2>. QED BY <2>4, <2>5
<1>. HIDE DEF A, t, V
<1>7. /\ t \in Seq(V) /\ Len(t) = a + b /\ a \in Nat
      /\ \A i \in 1..(a + b) : t[i] = IF i <= a THEN A[i] ELSE B[i - a]
  <2>. DEFINE n == a + b
  <2>1. a \in Nat
    OBVIOUS
  <2>. HIDE DEF a
  <2>2. a \in Int /\ n \in Int /\ a = Len(A) /\ n = Len(B) + a /\ A \in Seq(V) /\ B \in Seq(V)
    BY <1>4, <1>5, <1>6, <2>1
  <2>. HIDE DEF n
  <2>3. /\ A \o B \in Seq(V) /\ Len(A \o B) = n
        /\ \A i \in 1..n : (A \o B)[i] = IF i <= a THEN A[i] ELSE B[i - a]
    BY <2>2, InARow
  <2>. QED BY <1>2, <2>1, <2>3 DEF n
<1>8. \A i \in at..Len(t) : i - a \in 1..b /\ t[i] = B[i - a]
  BY <1>4, <1>7
<1>9. \A i \in 1..b : i + a \in at..Len(t) /\ (i + a) - a = i
  BY <1>4, <1>7
<1>10. \A i \in 1..(at - 1) : t[i] = mp.list[i]
  BY <1>4, <1>6, <1>7
<1>11. Len(t) >= at - 1
  BY <1>4, <1>7
<1>12. \A i \in at..Len(t) : t[i] \in Scored(mp, type) /\ t[i].move \in M
  BY <1>4, <1>5, <1>8
<1>13. ASSUME NEW m \in M
       PROVE  \E i \in at..Len(t) : t[i].move = m
  <2>1. PICK i \in 1..b : L[i] = m
    BY <1>1 DEF b
  <2>2. t[i + a] = B[i] /\ i + a \in at..Len(t)
    BY <1>8, <1>9
  <2>. QED BY <1>5, <2>1, <2>2
<1>14. ASSUME NEW i \in at..Len(t), NEW j \in at..Len(t), t[i].move = t[j].move
       PROVE  i = j
  <2>1. i - a \in 1..b /\ j - a \in 1..b /\ L[i - a] = L[j - a]
    BY <1>5, <1>8, <1>14
  <2>2. i - a = j - a
    BY <1>1, <2>1 DEF b
  <2>. QED BY <1>4, <1>7, <2>2
<1>. HIDE DEF a
<1>. QED BY <1>7, <1>10, <1>11, <1>12, <1>13, <1>14 DEF t, V, M

(* ---- Picking from the list ---- *)

\* A picker is a record of these fields.
PickerFields == {"pos", "ttMove", "depth", "threshold", "history", "stage", "list", "cur", "endCur",
                 "endBadCaptures", "endCaptures", "endGenerated", "skipQuiets", "move"}
IsPicker(mp) == mp = [x \in PickerFields |-> mp[x]]
\* What next_move never changes.
SamePicker(q, mp) ==
    /\ IsPicker(q) /\ q.pos = mp.pos /\ q.ttMove = mp.ttMove /\ q.depth = mp.depth
    /\ q.threshold = mp.threshold /\ q.history = mp.history /\ q.skipQuiets = mp.skipQuiets
\* The list and its parts are left alone.
ListKept(q, mp) ==
    /\ q.list = mp.list /\ q.endBadCaptures = mp.endBadCaptures
    /\ q.endCaptures = mp.endCaptures /\ q.endGenerated = mp.endGenerated

\* select emits the first move found, or none and ends its part of the list.
LEMMA SelectIs ==
    ASSUME NEW mp, IsPicker(mp), NEW found, mp.cur \in Nat, mp.endCur \in Nat,
           found \subseteq mp.cur..(mp.endCur - 1)
    PROVE  LET q == select(mp, found)
           IN  /\ SamePicker(q, mp) /\ ListKept(q, mp) /\ q.stage = mp.stage /\ q.endCur = mp.endCur
               /\ found = {} => q.cur = mp.endCur /\ q.move = NoMove
               /\ found # {} => \E k \in found : /\ \A j \in found : k <= j
                                                /\ q.cur = k + 1 /\ q.move = mp.list[k].move
<1>. DEFINE q == select(mp, found)
<1>1. CASE found = {}
  <2>1. q = [mp EXCEPT !.cur = mp.endCur, !.move = NoMove]
    BY <1>1 DEF select
  <2>. HIDE DEF q
  <2>2. SamePicker(q, mp) /\ ListKept(q, mp) /\ q.stage = mp.stage /\ q.endCur = mp.endCur
        /\ q.cur = mp.endCur /\ q.move = NoMove
    BY <2>1 DEF IsPicker, PickerFields, SamePicker, ListKept
  <2>. QED BY <1>1, <2>2 DEF q
<1>2. CASE found # {}
  <2>. DEFINE k == Min(found)
              c == k + 1
              m == mp.list[k].move
  <2>1. q = [mp EXCEPT !.cur = c, !.move = m]
    BY <1>2 DEF select
  <2>2. k \in found /\ \A j \in found : k <= j
    <3>1. found \subseteq Nat
      OBVIOUS
    <3>. HIDE DEF k
    <3>. QED BY <1>2, <3>1, LeastIsIn DEF k
  <2>. HIDE DEF q, c, m
  <2>3. SamePicker(q, mp) /\ ListKept(q, mp) /\ q.stage = mp.stage /\ q.endCur = mp.endCur
        /\ q.cur = c /\ q.move = m
    BY <2>1 DEF IsPicker, PickerFields, SamePicker, ListKept
  <2>. QED BY <1>2, <2>2, <2>3 DEF q, c, m
<1>. QED BY <1>1, <1>2

\* The moves at some places of the list.
MovesAt(list, I) == {list[i].move : i \in I}

\* Without a place, without its move.
LEMMA OneLess ==
    ASSUME NEW list, OnceEach(list), NEW I \in SUBSET (1..Len(list)), NEW k \in I
    PROVE  MovesAt(list, I \ {k}) = MovesAt(list, I) \ {list[k].move}
<1>1. \A i \in I : list[i].move = list[k].move => i = k
  BY DEF OnceEach
<1>. QED BY <1>1 DEF MovesAt

\* What is in another order is so within more of the list.
LEMMA Wider ==
    ASSUME NEW s, NEW t, NEW a \in Int, NEW b \in Int, NEW c \in Int, Rearranged(t, s, a, b),
           1 <= a, b <= c, c <= Len(s) + 1, Len(s) \in Nat
    PROVE  Rearranged(t, s, a, c)
<1>1. \A k \in a..(b - 1) : k \in a..(c - 1)
  OBVIOUS
<1>2. \A k \in a..(c - 1) : k \notin a..(b - 1) => k \in 1..Len(s) /\ t[k] = s[k]
  BY DEF Rearranged
<1>3. \A k \in a..(c - 1) : \E l \in a..(c - 1) : t[k] = s[l]
  BY <1>1, <1>2 DEF Rearranged
<1>4. \A k \in a..(c - 1) : \E l \in a..(c - 1) : s[k] = t[l]
  BY <1>1, <1>2 DEF Rearranged
<1>. QED BY <1>1, <1>3, <1>4 DEF Rearranged

\* The entries before b.
Before(l, b) == {l[k] : k \in 1..(b - 1)}
\* The captures up to i that are put aside.
AsideTo(mp, i, fine) == {j \in mp.cur..i : NotHash(mp, j) /\ j \notin fine}
\* A picker with another list, and another end of the captures put aside.
WithBad(next, l, b) == [next EXCEPT !.list = l, !.endBadCaptures = b]

\* ... is otherwise the same.
LEMMA WithBadIs ==
    ASSUME NEW next, IsPicker(next), NEW l, NEW b
    PROVE  LET q == WithBad(next, l, b)
           IN  /\ SamePicker(q, next) /\ q.stage = next.stage /\ q.cur = next.cur /\ q.endCur = next.endCur
               /\ q.endCaptures = next.endCaptures /\ q.endGenerated = next.endGenerated /\ q.move = next.move
               /\ q.list = l /\ q.endBadCaptures = b
BY DEF WithBad, IsPicker, PickerFields, SamePicker

\* Another list again.
LEMMA WithBadTwice ==
    ASSUME NEW next, IsPicker(next), NEW l, NEW b, NEW m, NEW c
    PROVE  WithBad(WithBad(next, l, b), m, c) = WithBad(next, m, c)
<1>. DEFINE x == WithBad(next, l, b)
            y == WithBad(next, m, c)
            z == WithBad(x, m, c)
<1>1. DOMAIN next = PickerFields
  BY DEF IsPicker
<1>2. x = [f \in PickerFields |-> x[f]] /\ y = [f \in PickerFields |-> y[f]] /\ z = [f \in PickerFields |-> z[f]]
  BY <1>1 DEF WithBad, IsPicker
<1>3. \A f \in PickerFields : z[f] = y[f]
  BY <1>1 DEF WithBad, PickerFields
<1>. QED BY <1>2, <1>3

\* The captures before the current place that are not fine, and not the hash move, stand in front in q.
AsidePassed(S, mp, next, fine, q) ==
    /\ q = WithBad(next, q.list, q.endBadCaptures)
    /\ q.list \in Seq(S) /\ q.endBadCaptures \in 1..next.cur
    /\ Rearranged(q.list, mp.list, 1, next.cur)
    /\ Before(q.list, q.endBadCaptures) = Before(mp.list, mp.endBadCaptures)
         \cup {mp.list[j] : j \in AsideTo(mp, next.cur - 1, fine)}

\* Setting aside the bad captures that were gone through does that.
LEMMA PassedAside ==
    ASSUME NEW S, NEW mp, NEW next, NEW fine, IsPicker(next), mp.list \in Seq(S), next.list = mp.list,
           next.endBadCaptures = mp.endBadCaptures, mp.cur \in Nat, mp.endBadCaptures \in 1..mp.cur,
           next.cur \in mp.cur..(Len(mp.list) + 1)
    PROVE  AsidePassed(S, mp, next, fine, PassBadCaptures(mp, next, fine))
<1>. DEFINE s == mp.list
            n == Len(s)
            first == mp.cur - 1
            last == next.cur - 1
            Body(v, i) == IF i = first THEN next ELSE Aside(mp, v[i - 1], i, fine)
            F == CHOOSE v : v = [i \in first..last |-> Body(v, i)]
            V == {WithBad(next, z[1], z[2]) : z \in Seq(S) \X Int}
            To(i) == {s[j] : j \in AsideTo(mp, i, fine)}
            Good(i, x) == /\ x = WithBad(next, x.list, x.endBadCaptures)
                          /\ x.list \in Seq(S) /\ x.endBadCaptures \in 1..(i + 1)
                          /\ Rearranged(x.list, s, 1, i + 1)
                          /\ Before(x.list, x.endBadCaptures) = Before(s, mp.endBadCaptures) \cup To(i)
<1>1. PassBadCaptures(mp, next, fine) = F[last]
  <2>1. first = mp.cur - 1 /\ last = next.cur - 1
    OBVIOUS
  <2>. QED BY Zenon DEF PassBadCaptures
<1>2. n \in Nat /\ s \in Seq(S) /\ first \in Int /\ last \in Int /\ first <= last /\ last <= n /\ first >= 0
      /\ mp.cur = first + 1 /\ next.cur = last + 1
  OBVIOUS
<1>3. Good(first, next)
  <2>1. next = WithBad(next, next.list, next.endBadCaptures)
    BY DEF WithBad, IsPicker
  <2>2. AsideTo(mp, first, fine) = {}
    BY <1>2 DEF AsideTo
  <2>3. Rearranged(s, s, 1, first + 1)
    BY DEF Rearranged
  <2>4. To(first) = {}
    BY <2>2
  <2>. HIDE DEF To
  <2>. QED BY <1>2, <2>1, <2>3, <2>4
<1>. HIDE DEF first, last
<1>4. ASSUME NEW i \in (first + 1)..last, NEW x, Good(i - 1, x)
      PROVE  Good(i, Aside(mp, x, i, fine))
  <2>. DEFINE l == x.list
              b == x.endBadCaptures
              e == i + 1
  <2>0. /\ x = WithBad(next, l, b) /\ l \in Seq(S) /\ b \in 1..i /\ Rearranged(l, s, 1, i) /\ Len(l) = n
        /\ Before(l, b) = Before(s, mp.endBadCaptures) \cup To(i - 1) /\ l[i] = s[i]
    <3>1. Rearranged(l, s, 1, (i - 1) + 1) /\ (i - 1) + 1 = i
      BY <1>2, <1>4
    <3>2. i \in 1..n /\ i \notin 1..(i - 1)
      BY <1>2
    <3>3. Rearranged(l, s, 1, i)
      BY <3>1
    <3>4. l[i] = s[i] /\ Len(l) = n
      BY <3>2, <3>3 DEF Rearranged
    <3>. QED BY <1>2, <1>4, <3>1, <3>3, <3>4
  <2>. HIDE DEF l, b, Good
  <2>1. Rearranged(l, s, 1, e) /\ i \in 1..n /\ b \in 1..n
    <3>1. e \in Int /\ i \in Int /\ 1 \in Int /\ 1 <= 1 /\ i <= e /\ e <= Len(s) + 1 /\ Len(s) \in Nat
      BY <1>2
    <3>2. i \in 1..n /\ b \in 1..n
      BY <1>2, <2>0
    <3>. HIDE DEF e
    <3>. QED BY <2>0, <3>1, <3>2, Wider
  <2>2. CASE NotHash(mp, i) /\ i \notin fine
    <3>. DEFINE m == Swapped(l, b, i)
                c == b + 1
    <3>1. Aside(mp, x, i, fine) = [x EXCEPT !.list = Swapped(x.list, x.endBadCaptures, i),
                                            !.endBadCaptures = x.endBadCaptures + 1]
      BY <2>2 DEF Aside
    <3>2. Aside(mp, x, i, fine) = WithBad(next, m, c)
      <4>1. Aside(mp, x, i, fine) = WithBad(x, m, c)
        BY <3>1 DEF WithBad, l, b
      <4>. HIDE DEF m, c
      <4>2. WithBad(WithBad(next, l, b), m, c) = WithBad(next, m, c)
        BY WithBadTwice
      <4>. QED BY <2>0, <4>1, <4>2
    <3>3. /\ m \in Seq(S) /\ Len(m) = Len(l) /\ m[b] = l[i] /\ m[i] = l[b]
          /\ \A k \in 1..Len(l) : k # b /\ k # i => m[k] = l[k]
          /\ Rearranged(m, l, 1, e)
      <4>1. l \in Seq(S) /\ b \in 1..Len(l) /\ i \in 1..Len(l) /\ e \in Int /\ 1 <= 1 /\ 1 \in Int
            /\ e <= Len(l) + 1 /\ b \in 1..(e - 1) /\ i \in 1..(e - 1)
        BY <1>2, <2>0, <2>1
      <4>. HIDE DEF e, m
      <4>2. /\ Swapped(l, b, i) \in Seq(S) /\ Len(Swapped(l, b, i)) = Len(l)
            /\ Swapped(l, b, i)[b] = l[i] /\ Swapped(l, b, i)[i] = l[b]
            /\ \A k \in 1..Len(l) : k # b /\ k # i => Swapped(l, b, i)[k] = l[k]
            /\ Rearranged(Swapped(l, b, i), l, 1, e)
        BY <4>1, SwappedIs
      <4>. QED BY <4>2 DEF m
    <3>4. Rearranged(m, s, 1, e)
      <4>. HIDE DEF m, e
      <4>. QED BY <2>1, <3>3, RearrangedTwice
    <3>5. Before(m, c) = Before(l, b) \cup {s[i]}
      <4>. HIDE DEF m
      <4>1. \A k \in 1..(b - 1) : m[k] = l[k]
        <5>1. \A k \in 1..(b - 1) : k \in 1..Len(l) /\ k # b /\ k # i
          BY <1>2, <2>0, <2>1
        <5>. QED BY <3>3, <5>1
      <4>2. m[b] = s[i]
        BY <2>0, <3>3
      <4>3. \A k \in 1..(c - 1) : k = b \/ k \in 1..(b - 1)
        BY <2>0
      <4>4. b \in 1..(c - 1) /\ \A k \in 1..(b - 1) : k \in 1..(c - 1)
        BY <2>0
      <4>. HIDE DEF c
      <4>. QED BY <4>1, <4>2, <4>3, <4>4 DEF Before
    <3>6. To(i) = To(i - 1) \cup {s[i]}
      <4>1. AsideTo(mp, i, fine) = AsideTo(mp, i - 1, fine) \cup {i}
        BY <1>2, <2>2 DEF AsideTo
      <4>. QED BY <4>1
    <3>7. c \in 1..(i + 1)
      BY <2>0
    <3>8. LET q == WithBad(next, m, c) IN q.list = m /\ q.endBadCaptures = c
      <4>. HIDE DEF m, c
      <4>. QED BY WithBadIs
    <3>. HIDE DEF m, c, To
    <3>. QED BY <2>0, <3>2, <3>3, <3>4, <3>5, <3>6, <3>7, <3>8 DEF Good
  <2>3. CASE ~(NotHash(mp, i) /\ i \notin fine)
    <3>1. Aside(mp, x, i, fine) = x
      BY <2>3 DEF Aside
    <3>2. AsideTo(mp, i, fine) = AsideTo(mp, i - 1, fine)
      BY <1>2, <2>3 DEF AsideTo
    <3>3. To(i) = To(i - 1)
      BY <3>2
    <3>4. b \in 1..(i + 1)
      BY <2>0
    <3>. HIDE DEF To
    <3>. QED BY <2>0, <2>1, <3>1, <3>3, <3>4 DEF Good, l, b
  <2>. QED BY <2>2, <2>3
<1>. HIDE DEF Good
<1>. DEFINE G == [z \in (first..last) \X V |-> Aside(mp, z[2], z[1], fine)]
<1>5. PICK f : Iterates(f, first, last, next, G)
  <2>. HIDE DEF G
  <2>. QED BY <1>2, Iteration
<1>6. \A i \in first..last : f[i] = IF i = first THEN next ELSE G[<<i, f[i - 1]>>]
  <2>. HIDE DEF G
  <2>. QED BY <1>5 DEF Iterates
<1>7. ASSUME NEW i \in (first + 1)..last, Good(i - 1, f[i - 1])
      PROVE  f[i] = Aside(mp, f[i - 1], i, fine)
  <2>. DEFINE x == f[i - 1]
  <2>1. x \in V
    <3>1. x = WithBad(next, x.list, x.endBadCaptures) /\ x.list \in Seq(S) /\ x.endBadCaptures \in Int
      BY <1>7 DEF Good
    <3>2. <<x.list, x.endBadCaptures>> \in Seq(S) \X Int
      BY <3>1
    <3>. HIDE DEF x
    <3>. QED BY <3>1, <3>2
  <2>2. i \in first..last /\ i # first
    BY <1>2
  <2>. HIDE DEF V
  <2>3. G[<<i, x>>] = Aside(mp, x, i, fine)
    BY <2>1, <2>2
  <2>. HIDE DEF G
  <2>. QED BY <1>6, <2>2, <2>3
<1>8. \A i \in first..last : Good(i, f[i])
  <2>. DEFINE T == {i \in first..last : Good(i, f[i])}
  <2>1. first \in T
    <3>. HIDE DEF G
    <3>1. first \in first..last
      BY <1>2
    <3>2. f[first] = next
      BY <1>6, <3>1
    <3>. QED BY <1>3, <3>1, <3>2
  <2>2. ASSUME NEW i \in (first + 1)..last, i - 1 \in T
        PROVE  i \in T
    BY <1>2, <1>4, <1>7, <2>2
  <2>. HIDE DEF T
  <2>3. first..last \subseteq T
    BY <1>2, <2>1, <2>2, Onward
  <2>. QED BY <2>3 DEF T
<1>. DEFINE g == [i \in first..last |-> f[i]]
<1>9. g = [i \in first..last |-> Body(g, i)]
  <2>. HIDE DEF G
  <2>1. ASSUME NEW i \in first..last
        PROVE  g[i] = Body(g, i)
    <3>1. CASE i = first
      BY <1>6, <3>1
    <3>2. CASE i # first
      <4>1. i \in (first + 1)..last /\ i - 1 \in first..last
        BY <1>2, <3>2
      <4>2. g[i] = f[i] /\ g[i - 1] = f[i - 1]
        BY <4>1
      <4>. HIDE DEF g
      <4>. QED BY <1>7, <1>8, <3>2, <4>1, <4>2
    <3>. QED BY <3>1, <3>2
  <2>2. g = [i \in first..last |-> g[i]]
    OBVIOUS
  <2>. HIDE DEF Body, g
  <2>. QED BY <2>1, <2>2
<1>10. F = [i \in first..last |-> Body(F, i)]
  <2>. HIDE DEF Body
  <2>. QED BY <1>9
<1>11. \A i \in first..last : F[i] = Body(F, i)
  <2>. HIDE DEF Body, F
  <2>. QED BY <1>10
<1>. HIDE DEF F
<1>12. \A i \in first..last : Good(i, F[i])
  <2>. DEFINE T == {i \in first..last : Good(i, F[i])}
  <2>1. first \in T
    BY <1>2, <1>3, <1>11
  <2>2. ASSUME NEW i \in (first + 1)..last, i - 1 \in T
        PROVE  i \in T
    <3>1. i \in first..last /\ i # first
      BY <1>2
    <3>2. F[i] = Aside(mp, F[i - 1], i, fine)
      BY <1>11, <3>1
    <3>. QED BY <1>4, <2>2, <3>1, <3>2
  <2>. HIDE DEF T
  <2>3. first..last \subseteq T
    BY <1>2, <2>1, <2>2, Onward
  <2>. QED BY <2>3 DEF T
<1>13. Good(last, F[last])
  <2>1. last \in first..last
    BY <1>2
  <2>. QED BY <1>12, <2>1
<1>14. last + 1 = next.cur /\ last = next.cur - 1
  BY <1>2
<1>. QED BY <1>1, <1>13, <1>14 DEF Good, AsidePassed

(* ---- What a picker has yet to emit ---- *)

\* The types of moves a position has generated.
TypesOf(p) == IF p.st.checkersBB # {} THEN {"EVASIONS"} ELSE {"CAPTURES", "QUIETS"}
\* What the picker relies on: finitely many moves, the captures apart from the
\* quiet moves, and every quiet move with a number for its score.
Known(p, h) ==
    /\ \A type \in TypesOf(p) : IsFiniteSet(generate(p, type)) /\ NoMove \notin generate(p, type)
    /\ p.st.checkersBB = {} =>
         /\ generate(p, "CAPTURES") \cap generate(p, "QUIETS") = {}
         /\ \A m \in generate(p, "QUIETS") : score(p, h, "QUIETS", m) \in Int
\* What its list may hold.
Entries(mp) == UNION {Scored(mp, type) : type \in TypesOf(mp.pos)}

\* The stages, by what they do.
HashOnes == {"MAIN_TT", "EVASION_TT", "QSEARCH_TT", "PROBCUT_TT"}
ProbCutOnes == {"PROBCUT_TT", "PROBCUT_INIT", "PROBCUT"}
EvasionOnes == {"EVASION_TT", "EVASION_INIT", "EVASION"}
InitOnes == {"CAPTURE_INIT", "QCAPTURE_INIT", "PROBCUT_INIT", "EVASION_INIT"}
Endings == {"BAD_QUIET", "EVASION", "QCAPTURE", "PROBCUT"}
Emitting == {"GOOD_CAPTURE", "GOOD_QUIET", "BAD_CAPTURE"} \cup Endings
Stages == HashOnes \cup InitOnes \cup {"QUIET_INIT"} \cup Emitting

\* The places of the list still to be gone through, at this stage and those it leads to.
High(mp, i) == mp.list[i].value > goodQuietThreshold
Low(mp, i) == mp.list[i].value <= goodQuietThreshold
BadQuiets(mp) == IF mp.skipQuiets THEN {} ELSE {i \in mp.endCaptures..(mp.endGenerated - 1) : Low(mp, i)}
Current(mp) == mp.cur..(mp.endCur - 1)
Ahead(mp) ==
    CASE mp.stage = "GOOD_CAPTURE" -> 1..(mp.endBadCaptures - 1) \cup Current(mp)
      [] mp.stage = "QUIET_INIT" -> 1..(mp.endBadCaptures - 1)
      [] mp.stage = "GOOD_QUIET" ->
           1..(mp.endBadCaptures - 1) \cup BadQuiets(mp)
             \cup (IF mp.skipQuiets THEN {} ELSE {i \in Current(mp) : High(mp, i)})
      [] mp.stage = "BAD_CAPTURE" -> Current(mp) \cup BadQuiets(mp)
      [] mp.stage = "BAD_QUIET" -> IF mp.skipQuiets THEN {} ELSE {i \in Current(mp) : Low(mp, i)}
      [] mp.stage \in {"EVASION", "QCAPTURE"} -> Current(mp)
      [] mp.stage = "PROBCUT" -> {i \in Current(mp) : see_ge(mp.pos, mp.list[i].move, mp.threshold)}
      [] OTHER -> {}
Places(mp) == {i \in Ahead(mp) : NotHash(mp, i)}

\* The moves still to be generated, and the hash move before all.
QuietsLeft(mp) == IF mp.skipQuiets THEN {} ELSE generate(mp.pos, "QUIETS")
ToGenerate(mp) ==
    CASE mp.stage \in {"MAIN_TT", "CAPTURE_INIT"} -> generate(mp.pos, "CAPTURES") \cup QuietsLeft(mp)
      [] mp.stage \in {"GOOD_CAPTURE", "QUIET_INIT"} -> QuietsLeft(mp)
      [] mp.stage \in {"QSEARCH_TT", "QCAPTURE_INIT"} -> generate(mp.pos, "CAPTURES")
      [] mp.stage \in {"PROBCUT_TT", "PROBCUT_INIT"} ->
           {m \in generate(mp.pos, "CAPTURES") : see_ge(mp.pos, m, mp.threshold)}
      [] mp.stage \in {"EVASION_TT", "EVASION_INIT"} -> generate(mp.pos, "EVASIONS")
      [] OTHER -> {}
Later(mp) == (ToGenerate(mp) \ {mp.ttMove}) \cup (IF mp.stage \in HashOnes THEN {mp.ttMove} ELSE {})
Coming(mp) == MovesAt(mp.list, Places(mp)) \cup Later(mp)

\* How the list is divided at each stage.
QuietsFrom(mp, from) ==
    \A i \in from..Len(mp.list) : mp.list[i].value \in Int /\ mp.list[i].move \in generate(mp.pos, "QUIETS")
InStage(mp) ==
    LET end == Len(mp.list) + 1
    IN  CASE mp.stage = "GOOD_CAPTURE" ->
               /\ mp.list \in Seq(Scored(mp, "CAPTURES"))
               /\ mp.cur \in 1..end /\ mp.endBadCaptures \in 1..mp.cur
               /\ mp.endCur = end /\ mp.endCaptures = end
          [] mp.stage = "QUIET_INIT" ->
               /\ mp.list \in Seq(Scored(mp, "CAPTURES"))
               /\ mp.cur = end /\ mp.endBadCaptures \in 1..end /\ mp.endCur = end /\ mp.endCaptures = end
          [] mp.stage = "GOOD_QUIET" ->
               /\ mp.endCaptures \in 1..end /\ mp.endBadCaptures \in 1..mp.endCaptures
               /\ ~mp.skipQuiets => /\ mp.cur \in mp.endCaptures..end /\ mp.endCur = end
                                    /\ mp.endGenerated = end /\ QuietsFrom(mp, mp.endCaptures)
          [] mp.stage = "BAD_CAPTURE" ->
               /\ mp.endCaptures \in 1..end /\ mp.endCur \in 1..mp.endCaptures /\ mp.cur \in 1..mp.endCur
               /\ ~mp.skipQuiets => mp.endGenerated = end /\ QuietsFrom(mp, mp.endCaptures)
          [] mp.stage = "BAD_QUIET" ->
               ~mp.skipQuiets => mp.cur \in 1..end /\ mp.endCur = end /\ QuietsFrom(mp, mp.cur)
          [] mp.stage \in {"EVASION", "QCAPTURE", "PROBCUT"} -> mp.cur \in 1..end /\ mp.endCur = end
          [] OTHER -> TRUE
\* A picker on its way.
Running(mp) ==
    /\ IsPicker(mp) /\ mp.skipQuiets \in BOOLEAN /\ mp.stage \in Stages
    /\ mp.list \in Seq(Entries(mp)) /\ OnceEach(mp.list)
    /\ mp.stage \in EvasionOnes <=> mp.pos.st.checkersBB # {}
    /\ mp.stage \in HashOnes => mp.ttMove # NoMove
    /\ InStage(mp)

\* Whatever the list holds is a move.
LEMMA EntriesAreMoves ==
    ASSUME NEW mp, Known(mp.pos, mp.history), NEW s \in Seq(Entries(mp))
    PROVE  /\ Len(s) \in Nat
           /\ \A i \in 1..Len(s) : s[i].move # NoMove
<1>1. ASSUME NEW e \in Entries(mp)
      PROVE  e.move # NoMove
  <2>1. PICK type \in TypesOf(mp.pos) : e \in Scored(mp, type)
    BY DEF Entries
  <2>2. PICK m \in generate(mp.pos, type) : e = ExtMove(m, score(mp.pos, mp.history, type, m))
    BY <2>1 DEF Scored
  <2>3. e.move = m
    BY <2>2 DEF ExtMove
  <2>. QED BY <2>2, <2>3 DEF Known
<1>2. Len(s) \in Nat /\ \A i \in 1..Len(s) : s[i] \in Entries(mp)
  BY LenProperties, ElementOfSeq
<1>. QED BY <1>1, <1>2

\* What is the same to next_move is the same to the list.
LEMMA SameEntries ==
    ASSUME NEW mp, NEW q, SamePicker(q, mp)
    PROVE  /\ Entries(q) = Entries(mp) /\ \A type : Scored(q, type) = Scored(mp, type)
           /\ QuietsLeft(q) = QuietsLeft(mp)
           /\ q.pos = mp.pos /\ q.ttMove = mp.ttMove /\ q.history = mp.history
           /\ q.threshold = mp.threshold /\ q.skipQuiets = mp.skipQuiets
<1>1. \A type : Scored(q, type) = Scored(mp, type)
  BY DEF SamePicker, Scored
<1>. QED BY <1>1 DEF SamePicker, Entries, QuietsLeft

\* A move of the list less.
LEMMA OneMoveLess ==
    ASSUME NEW list, OnceEach(list), NEW I \in SUBSET (1..Len(list)), NEW J, NEW k \in I, J = I \ {k},
           NEW G, list[k].move \notin G
    PROVE  MovesAt(list, J) \cup G = (MovesAt(list, I) \cup G) \ {list[k].move}
<1>1. MovesAt(list, J) = MovesAt(list, I) \ {list[k].move}
  BY OneLess
<1>. QED BY <1>1

\* The picker q, with a move, emits one of those that were coming, and the others are still
\* to come; without, all are, and it is at a later stage or at the end.
StageAfter(stage) ==
    CASE stage = "GOOD_CAPTURE" -> "QUIET_INIT"
      [] stage = "GOOD_QUIET" -> "BAD_CAPTURE"
      [] stage = "BAD_CAPTURE" -> "BAD_QUIET"
      [] OTHER -> stage
Emits(q, mp) ==
    /\ Running(q) /\ SamePicker(q, mp)
    /\ q.move # NoMove => q.move \in Coming(mp) /\ Coming(q) = Coming(mp) \ {q.move} /\ q.stage = mp.stage
    /\ q.move = NoMove => Coming(q) = Coming(mp) /\ q.stage = StageAfter(mp.stage)
                          /\ (mp.stage \in Endings => Coming(mp) = {})

\* What select and the stages that leave the list alone keep.
LEMMA KeptPlaces ==
    ASSUME NEW mp, NEW q, SamePicker(q, mp), ListKept(q, mp)
    PROVE  /\ \A i : /\ NotHash(q, i) <=> NotHash(mp, i)
                     /\ High(q, i) <=> High(mp, i)
                     /\ Low(q, i) <=> Low(mp, i)
           /\ BadQuiets(q) = BadQuiets(mp)
<1>1. q.list = mp.list /\ q.ttMove = mp.ttMove /\ q.skipQuiets = mp.skipQuiets
      /\ q.endCaptures = mp.endCaptures /\ q.endGenerated = mp.endGenerated
  BY DEF SamePicker, ListKept
<1>2. \A i : /\ NotHash(q, i) <=> NotHash(mp, i)
             /\ High(q, i) <=> High(mp, i)
             /\ Low(q, i) <=> Low(mp, i)
  BY <1>1 DEF NotHash, High, Low
<1>. QED BY <1>1, <1>2 DEF BadQuiets

\* A picker that has gone on within its list is still running.
LEMMA StillRunning ==
    ASSUME NEW mp, Running(mp), NEW q, SamePicker(q, mp), ListKept(q, mp), q.stage \in Stages,
           q.stage \in EvasionOnes <=> mp.stage \in EvasionOnes, q.stage \notin HashOnes, InStage(q)
    PROVE  Running(q)
<1>1. q.list = mp.list /\ q.pos = mp.pos /\ q.skipQuiets = mp.skipQuiets /\ IsPicker(q)
  BY DEF SamePicker, ListKept
<1>2. Entries(q) = Entries(mp)
  BY SameEntries
<1>. QED BY <1>1, <1>2 DEF Running

\* A picker that has emitted a move.
LEMMA EmitsOne ==
    ASSUME NEW mp, NEW q, Running(q), SamePicker(q, mp), q.move # NoMove, q.move \in Coming(mp),
           Coming(q) = Coming(mp) \ {q.move}, q.stage = mp.stage
    PROVE  Emits(q, mp)
BY DEF Emits

\* And one that has emitted none.
LEMMA EmitsNone ==
    ASSUME NEW mp, NEW q, Running(q), SamePicker(q, mp), q.move = NoMove,
           Coming(q) = Coming(mp), q.stage = StageAfter(mp.stage), mp.stage \in Endings => Coming(mp) = {}
    PROVE  Emits(q, mp)
BY DEF Emits

\* At the last stages what is left is picked in order.
LEMMA EndingPicks ==
    ASSUME NEW mp, Running(mp), Known(mp.pos, mp.history), mp.stage \in Endings,
           mp.stage = "BAD_QUIET" => ~mp.skipQuiets
    PROVE  Emits(select(mp, Places(mp)), mp)
<1>. DEFINE F == Places(mp)
            q == select(mp, F)
            n == Len(mp.list)
<1>1. IsPicker(mp) /\ mp.cur \in 1..(n + 1) /\ mp.endCur = n + 1 /\ mp.list \in Seq(Entries(mp)) /\ OnceEach(mp.list)
  BY DEF Running, InStage, Endings
<1>2. n \in Nat /\ \A i \in 1..n : mp.list[i].move # NoMove
  BY <1>1, EntriesAreMoves
<1>3. F \subseteq mp.cur..(mp.endCur - 1)
  BY DEF Places, Ahead, Current, Endings
<1>. HIDE DEF F, n
<1>4. /\ SamePicker(q, mp) /\ ListKept(q, mp) /\ q.stage = mp.stage /\ q.endCur = mp.endCur
      /\ F = {} => q.cur = mp.endCur /\ q.move = NoMove
      /\ F # {} => \E k \in F : /\ \A j \in F : k <= j
                                /\ q.cur = k + 1 /\ q.move = mp.list[k].move
  <2>1. mp.cur \in Nat /\ mp.endCur \in Nat
    BY <1>1, <1>2
  <2>. QED BY <1>1, <1>3, <2>1, SelectIs
<1>. HIDE DEF q
<1>5. q.list = mp.list /\ F \in SUBSET (1..n)
  BY <1>1, <1>2, <1>3, <1>4 DEF ListKept
<1>11. q.cur \in mp.cur..(n + 1)
  BY <1>1, <1>2, <1>3, <1>4
<1>6. Places(q) = {i \in F : i >= q.cur}
  <2>1. \A i : (NotHash(q, i) <=> NotHash(mp, i)) /\ (Low(q, i) <=> Low(mp, i))
    BY <1>4, KeptPlaces
  <2>2. q.pos = mp.pos /\ q.threshold = mp.threshold /\ q.skipQuiets = mp.skipQuiets
    BY <1>4 DEF SamePicker
  <2>3. \A i : i \in Current(q) <=> i \in Current(mp) /\ i >= q.cur
    BY <1>1, <1>2, <1>4, <1>11 DEF Current
  <2>4. \A i : i \in Ahead(q) <=> i \in Ahead(mp) /\ i >= q.cur
    BY <1>4, <1>5, <2>1, <2>2, <2>3 DEF Ahead, Endings
  <2>. QED BY <2>1, <2>4 DEF Places, F
<1>7. Later(q) = {} /\ Later(mp) = {}
  BY <1>4 DEF Later, ToGenerate, HashOnes, Endings
<1>8. Running(q)
  <2>1. q.cur \in 1..(n + 1)
    BY <1>1, <1>2, <1>11
  <2>2. InStage(q)
    <3>1. CASE mp.stage = "BAD_QUIET"
      <4>1. QuietsFrom(mp, mp.cur)
        BY <3>1 DEF Running, InStage
      <4>2. QuietsFrom(q, q.cur)
        <5>1. q.pos = mp.pos
          BY <1>4 DEF SamePicker
        <5>2. \A i \in q.cur..n : i \in mp.cur..n
          BY <1>1, <1>2, <1>11
        <5>. QED BY <1>5, <4>1, <5>1, <5>2 DEF QuietsFrom, n
      <4>. QED BY <1>1, <1>4, <1>5, <2>1, <3>1, <4>2 DEF InStage, n
    <3>2. CASE mp.stage # "BAD_QUIET"
      BY <1>1, <1>4, <1>5, <2>1, <3>2 DEF InStage, Endings, n
    <3>. QED BY <3>1, <3>2
  <2>. QED BY <1>4, <2>2, StillRunning DEF Running, HashOnes, Endings
<1>9. ASSUME F = {}
      PROVE  Emits(q, mp)
  <2>1. Places(q) = {}
    BY <1>6, <1>9
  <2>2. Coming(q) = {} /\ Coming(mp) = {}
    BY <1>7, <1>9, <2>1 DEF Coming, MovesAt, F
  <2>3. q.move = NoMove /\ q.stage = StageAfter(mp.stage)
    BY <1>4, <1>9 DEF StageAfter, Endings
  <2>. QED BY <1>4, <1>8, <2>2, <2>3, EmitsNone
<1>10. ASSUME F # {}
       PROVE  Emits(q, mp)
  <2>1. PICK k \in F : (\A j \in F : k <= j) /\ q.cur = k + 1 /\ q.move = mp.list[k].move
    BY <1>4, <1>10
  <2>2. Places(q) = F \ {k}
    <3>1. \A i \in F : i \in Int
      BY <1>2, <1>5
    <3>2. \A i \in F : i >= k + 1 <=> i # k
      BY <2>1, <3>1
    <3>. QED BY <1>6, <2>1, <3>2
  <2>3. q.move # NoMove
    BY <1>2, <1>5, <2>1
  <2>4. Coming(q) = Coming(mp) \ {q.move}
    <3>1. MovesAt(mp.list, Places(q)) = MovesAt(mp.list, F) \ {mp.list[k].move}
      <4>1. OnceEach(mp.list) /\ F \in SUBSET (1..Len(mp.list)) /\ k \in F
        BY <1>1, <1>5 DEF n
      <4>2. MovesAt(mp.list, F \ {k}) = MovesAt(mp.list, F) \ {mp.list[k].move}
        BY <4>1, OneLess
      <4>. QED BY <2>2, <4>2
    <3>. QED BY <1>5, <1>7, <2>1, <3>1 DEF Coming, F
  <2>5. q.move \in Coming(mp)
    BY <2>1 DEF Coming, MovesAt, F
  <2>. QED BY <1>4, <1>8, <2>3, <2>4, <2>5, EmitsOne
<1>. QED BY <1>9, <1>10 DEF q, F

\* A picker without a move that is led on.
LEMMA LedOn ==
    ASSUME NEW x, IsPicker(x), x.move = NoMove, NEW stage, NEW cur, NEW endCur
    PROVE  LET q == OrLeadsTo(x, stage, cur, endCur)
           IN  /\ SamePicker(q, x) /\ ListKept(q, x) /\ q.move = NoMove
               /\ q.stage = stage /\ q.cur = cur /\ q.endCur = endCur
<1>. DEFINE q == OrLeadsTo(x, stage, cur, endCur)
<1>1. q = [x EXCEPT !.stage = stage, !.cur = cur, !.endCur = endCur]
  BY DEF OrLeadsTo
<1>. HIDE DEF q
<1>2. SamePicker(q, x) /\ ListKept(q, x) /\ q.move = NoMove /\ q.stage = stage /\ q.cur = cur /\ q.endCur = endCur
  BY <1>1 DEF IsPicker, PickerFields, SamePicker, ListKept
<1>. QED BY <1>2 DEF q

\* With a move it stays.
LEMMA NotLedOn ==
    ASSUME NEW x, x.move # NoMove, NEW stage, NEW cur, NEW endCur
    PROVE  OrLeadsTo(x, stage, cur, endCur) = x
BY DEF OrLeadsTo

\* Nothing but the move of a picker changes.
LEMMA MoveSet ==
    ASSUME NEW x, IsPicker(x), NEW m
    PROVE  LET q == [x EXCEPT !.move = m]
           IN  /\ SamePicker(q, x) /\ ListKept(q, x) /\ q.move = m
               /\ q.stage = x.stage /\ q.cur = x.cur /\ q.endCur = x.endCur
<1>. DEFINE q == [x EXCEPT !.move = m]
<1>1. q = [x EXCEPT !.move = m]
  OBVIOUS
<1>. HIDE DEF q
<1>2. SamePicker(q, x) /\ ListKept(q, x) /\ q.move = m /\ q.stage = x.stage /\ q.cur = x.cur /\ q.endCur = x.endCur
  BY <1>1 DEF IsPicker, PickerFields, SamePicker, ListKept
<1>. QED BY <1>2 DEF q

\* What is the same twice.
LEMMA KeptTwice ==
    ASSUME NEW x, NEW y, NEW z, SamePicker(y, x), ListKept(y, x), SamePicker(z, y), ListKept(z, y)
    PROVE  SamePicker(z, x) /\ ListKept(z, x)
BY DEF SamePicker, ListKept

\* The bad captures, which are picked in order, lead on to the bad quiet moves.
LEMMA BadCapturePicks ==
    ASSUME NEW mp, Running(mp), Known(mp.pos, mp.history), mp.stage = "BAD_CAPTURE"
    PROVE  Emits(Stage(mp), mp)
<1>. DEFINE F == Remaining(mp)
            x == select(mp, F)
            q == OrLeadsTo(x, "BAD_QUIET", mp.endCaptures, mp.endGenerated)
            n == Len(mp.list)
<1>0. Stage(mp) = q
  BY DEF Stage
<1>1. /\ IsPicker(mp) /\ mp.list \in Seq(Entries(mp)) /\ OnceEach(mp.list)
      /\ mp.endCaptures \in 1..(n + 1) /\ mp.endCur \in 1..mp.endCaptures /\ mp.cur \in 1..mp.endCur
      /\ ~mp.skipQuiets => mp.endGenerated = n + 1 /\ QuietsFrom(mp, mp.endCaptures)
  BY DEF Running, InStage
<1>2. n \in Nat /\ \A i \in 1..n : mp.list[i].move # NoMove
  BY <1>1, EntriesAreMoves
<1>3. F = {i \in mp.cur..(mp.endCur - 1) : NotHash(mp, i)}
  BY DEF Remaining
<1>. HIDE DEF F, n
<1>4. /\ SamePicker(x, mp) /\ ListKept(x, mp) /\ x.stage = mp.stage /\ x.endCur = mp.endCur
      /\ F = {} => x.cur = mp.endCur /\ x.move = NoMove
      /\ F # {} => \E k \in F : /\ \A j \in F : k <= j
                                /\ x.cur = k + 1 /\ x.move = mp.list[k].move
  <2>1. mp.cur \in Nat /\ mp.endCur \in Nat /\ F \subseteq mp.cur..(mp.endCur - 1)
    BY <1>1, <1>2, <1>3
  <2>. QED BY <1>1, <2>1, SelectIs
<1>. HIDE DEF x
<1>5. F \in SUBSET (1..n) /\ BadQuiets(mp) \in SUBSET (1..n) /\ \A i \in BadQuiets(mp) : i >= mp.endCaptures
  BY <1>1, <1>2, <1>3 DEF BadQuiets
<1>6. Places(mp) = F \cup {i \in BadQuiets(mp) : NotHash(mp, i)}
  BY <1>3 DEF Places, Ahead, Current
<1>7. Later(mp) = {} /\ mp.stage \notin Endings /\ StageAfter(mp.stage) = "BAD_QUIET"
  BY DEF Later, ToGenerate, HashOnes, Endings, StageAfter
<1>9. ASSUME F = {}
      PROVE  Emits(q, mp)
  <2>1. x.move = NoMove /\ IsPicker(x)
    BY <1>4, <1>9 DEF SamePicker
  <2>2. SamePicker(q, x) /\ ListKept(q, x) /\ q.move = NoMove /\ q.stage = "BAD_QUIET"
        /\ q.cur = mp.endCaptures /\ q.endCur = mp.endGenerated
    BY <2>1, LedOn
  <2>. HIDE DEF q
  <2>3. SamePicker(q, mp) /\ ListKept(q, mp)
    BY <1>4, <2>2, KeptTwice
  <2>4. q.list = mp.list /\ q.skipQuiets = mp.skipQuiets
    BY <2>3 DEF SamePicker, ListKept
  <2>5. Running(q)
    <3>2. QuietsFrom(q, mp.endCaptures) <=> QuietsFrom(mp, mp.endCaptures)
      BY <2>3, <2>4 DEF QuietsFrom, SamePicker
    <3>1. InStage(q)
      BY <1>1, <2>2, <2>4, <3>2 DEF InStage, n
    <3>. QED BY <2>2, <2>3, <3>1, StillRunning DEF HashOnes, EvasionOnes, Stages, Emitting, Endings
  <2>6. Places(q) = {i \in BadQuiets(mp) : NotHash(mp, i)}
    <3>1. \A i : (NotHash(q, i) <=> NotHash(mp, i)) /\ (Low(q, i) <=> Low(mp, i))
      BY <2>3, KeptPlaces
    <3>2. Ahead(q) = BadQuiets(mp)
      BY <2>2, <2>4, <3>1 DEF Ahead, Current, BadQuiets
    <3>. QED BY <3>1, <3>2 DEF Places
  <2>7. Later(q) = {}
    BY <2>2 DEF Later, ToGenerate, HashOnes
  <2>8. Coming(q) = Coming(mp)
    BY <1>6, <1>7, <1>9, <2>4, <2>6, <2>7 DEF Coming
  <2>. QED BY <1>7, <2>2, <2>3, <2>5, <2>8, EmitsNone
<1>10. ASSUME F # {}
       PROVE  Emits(q, mp)
  <2>1. PICK k \in F : (\A j \in F : k <= j) /\ x.cur = k + 1 /\ x.move = mp.list[k].move
    BY <1>4, <1>10
  <2>2. x.move # NoMove /\ q = x
    BY <1>2, <1>5, <2>1, NotLedOn
  <2>. HIDE DEF q
  <2>3. x.list = mp.list /\ x.endCaptures = mp.endCaptures /\ x.endGenerated = mp.endGenerated
        /\ x.skipQuiets = mp.skipQuiets
    BY <1>4 DEF SamePicker, ListKept
  <2>4. k \in mp.cur..(mp.endCur - 1) /\ k \notin BadQuiets(mp) /\ k \in Int /\ k \in 1..n
    BY <1>1, <1>2, <1>3, <1>5
  <2>5. Running(x)
    <3>1. x.cur \in 1..x.endCur
      BY <1>1, <1>2, <1>4, <2>1, <2>4
    <3>3. QuietsFrom(x, mp.endCaptures) <=> QuietsFrom(mp, mp.endCaptures)
      BY <1>4, <2>3 DEF QuietsFrom, SamePicker
    <3>2. InStage(x)
      BY <1>1, <1>4, <2>3, <3>1, <3>3 DEF InStage, n
    <3>. QED BY <1>4, <3>2, StillRunning DEF Running, HashOnes
  <2>6. Places(x) = Places(mp) \ {k}
    <3>1. \A i : NotHash(x, i) <=> NotHash(mp, i)
      BY <1>4, KeptPlaces
    <3>2. BadQuiets(x) = BadQuiets(mp)
      BY <1>4, KeptPlaces
    <3>3. Places(x) = {i \in (k + 1)..(mp.endCur - 1) : NotHash(mp, i)} \cup {i \in BadQuiets(mp) : NotHash(mp, i)}
      BY <1>4, <2>1, <3>1, <3>2 DEF Places, Ahead, Current
    <3>4. {i \in (k + 1)..(mp.endCur - 1) : NotHash(mp, i)} = F \ {k}
      BY <1>1, <1>2, <1>3, <2>1, <2>4
    <3>. QED BY <1>6, <2>4, <3>3, <3>4
  <2>7. Places(mp) \in SUBSET (1..Len(mp.list)) /\ k \in Places(mp) /\ OnceEach(mp.list)
    BY <1>1, <1>5, <1>6 DEF n
  <2>8. MovesAt(mp.list, Places(mp) \ {k}) = MovesAt(mp.list, Places(mp)) \ {mp.list[k].move}
    BY <2>7, OneLess
  <2>9. Later(x) = {}
    BY <1>4 DEF Later, ToGenerate, HashOnes
  <2>10. Coming(x) = Coming(mp) \ {x.move} /\ x.move \in Coming(mp)
    BY <1>7, <2>1, <2>3, <2>6, <2>7, <2>8, <2>9 DEF Coming, MovesAt
  <2>. QED BY <1>4, <2>2, <2>5, <2>10, EmitsOne
<1>. QED BY <1>0, <1>9, <1>10

\* The last stages: what select picks is what is left to come.
LEMMA EndingStage ==
    ASSUME NEW mp, Running(mp), Known(mp.pos, mp.history), mp.stage \in Endings
    PROVE  Emits(Stage(mp), mp)
<1>1. CASE mp.stage = "BAD_QUIET" /\ mp.skipQuiets
  <2>. DEFINE q == [mp EXCEPT !.move = NoMove]
  <2>1. Stage(mp) = q
    BY <1>1 DEF Stage, Quiet
  <2>2. SamePicker(q, mp) /\ ListKept(q, mp) /\ q.move = NoMove /\ q.stage = mp.stage
    BY MoveSet DEF Running
  <2>. HIDE DEF q
  <2>3. q.skipQuiets
    BY <1>1, <2>2 DEF SamePicker
  <2>4. Running(q)
    <3>1. InStage(q)
      BY <1>1, <2>2, <2>3 DEF InStage
    <3>. QED BY <1>1, <2>2, <3>1, StillRunning DEF Running, HashOnes
  <2>5. Coming(q) = {} /\ Coming(mp) = {}
    <3>1. Places(q) = {} /\ Places(mp) = {}
      BY <1>1, <2>2, <2>3 DEF Places, Ahead
    <3>2. Later(q) = {} /\ Later(mp) = {}
      BY <1>1, <2>2 DEF Later, ToGenerate, HashOnes
    <3>. QED BY <3>1, <3>2 DEF Coming, MovesAt
  <2>6. q.stage = StageAfter(mp.stage)
    BY <1>1, <2>2 DEF StageAfter
  <2>. QED BY <2>1, <2>2, <2>4, <2>5, <2>6, EmitsNone
<1>2. CASE ~(mp.stage = "BAD_QUIET" /\ mp.skipQuiets)
  <2>1. Stage(mp) = select(mp, Places(mp))
    <3>1. Remaining(mp) = {i \in Current(mp) : NotHash(mp, i)}
      BY DEF Remaining, Current
    <3>2. CASE mp.stage = "BAD_QUIET"
      <4>1. {i \in Remaining(mp) : mp.list[i].value <= goodQuietThreshold} = Places(mp)
        BY <1>2, <3>1, <3>2 DEF Places, Ahead, Low
      <4>. QED BY <1>2, <3>2, <4>1 DEF Stage, Quiet
    <3>3. CASE mp.stage \in {"EVASION", "QCAPTURE"}
      <4>1. Remaining(mp) = Places(mp)
        BY <3>1, <3>3 DEF Places, Ahead
      <4>. QED BY <3>3, <4>1 DEF Stage
    <3>4. CASE mp.stage = "PROBCUT"
      <4>1. {i \in Remaining(mp) : see_ge(mp.pos, mp.list[i].move, mp.threshold)} = Places(mp)
        BY <3>1, <3>4 DEF Places, Ahead
      <4>. QED BY <3>4, <4>1 DEF Stage
    <3>. QED BY <3>2, <3>3, <3>4 DEF Endings
  <2>. QED BY <1>2, <2>1, EndingPicks
<1>. QED BY <1>1, <1>2

\* The good quiet moves are picked in order, unless quiet moves are skipped, and lead
\* on to the captures put aside.
LEMMA GoodQuietPicks ==
    ASSUME NEW mp, Running(mp), Known(mp.pos, mp.history), mp.stage = "GOOD_QUIET"
    PROVE  Emits(Stage(mp), mp)
<1>. DEFINE F == {i \in Remaining(mp) : mp.list[i].value > goodQuietThreshold}
            x == Quiet(mp, F)
            q == OrLeadsTo(x, "BAD_CAPTURE", 1, mp.endBadCaptures)
            n == Len(mp.list)
            Rest0 == {i \in 1..(mp.endBadCaptures - 1) \cup BadQuiets(mp) : NotHash(mp, i)}
            Here == IF mp.skipQuiets THEN {} ELSE F
<1>0. Stage(mp) = q
  BY DEF Stage
<1>1. /\ IsPicker(mp) /\ mp.list \in Seq(Entries(mp)) /\ OnceEach(mp.list)
      /\ mp.endCaptures \in 1..(n + 1) /\ mp.endBadCaptures \in 1..mp.endCaptures
      /\ ~mp.skipQuiets => /\ mp.cur \in mp.endCaptures..(n + 1) /\ mp.endCur = n + 1
                           /\ mp.endGenerated = n + 1 /\ QuietsFrom(mp, mp.endCaptures)
  BY DEF Running, InStage
<1>2. n \in Nat /\ \A i \in 1..n : mp.list[i].move # NoMove
  BY <1>1, EntriesAreMoves
<1>3. F = {i \in mp.cur..(mp.endCur - 1) : NotHash(mp, i) /\ High(mp, i)}
  BY DEF Remaining, High
<1>. HIDE DEF F, n
<1>4. /\ SamePicker(x, mp) /\ ListKept(x, mp) /\ x.stage = mp.stage /\ x.endCur = mp.endCur
      /\ Here = {} => x.move = NoMove
      /\ Here # {} => \E k \in Here : /\ \A j \in Here : k <= j
                                      /\ x.cur = k + 1 /\ x.move = mp.list[k].move
  <2>1. CASE mp.skipQuiets
    <3>1. x = [mp EXCEPT !.move = NoMove]
      BY <2>1 DEF Quiet
    <3>2. Here = {}
      BY <2>1
    <3>3. SamePicker(x, mp) /\ ListKept(x, mp) /\ x.stage = mp.stage /\ x.endCur = mp.endCur /\ x.move = NoMove
      <4>. DEFINE y == [mp EXCEPT !.move = NoMove]
      <4>1. SamePicker(y, mp) /\ ListKept(y, mp) /\ y.stage = mp.stage /\ y.endCur = mp.endCur /\ y.move = NoMove
        BY <1>1, MoveSet
      <4>2. x = y
        BY <3>1
      <4>. HIDE DEF x, y
      <4>. QED BY <4>1, <4>2
    <3>. HIDE DEF Here, x
    <3>. QED BY <3>2, <3>3
  <2>2. CASE ~mp.skipQuiets
    <3>1. mp.cur \in Nat /\ mp.endCur \in Nat /\ F \subseteq mp.cur..(mp.endCur - 1)
      BY <1>1, <1>2, <1>3, <2>2
    <3>2. x = select(mp, F) /\ Here = F
      BY <2>2 DEF Quiet
    <3>3. LET y == select(mp, F)
          IN  /\ SamePicker(y, mp) /\ ListKept(y, mp) /\ y.stage = mp.stage /\ y.endCur = mp.endCur
              /\ F = {} => y.cur = mp.endCur /\ y.move = NoMove
              /\ F # {} => \E k \in F : /\ \A j \in F : k <= j
                                        /\ y.cur = k + 1 /\ y.move = mp.list[k].move
      BY <1>1, <3>1, SelectIs
    <3>. HIDE DEF Here, x
    <3>. QED BY <3>2, <3>3
  <2>. QED BY <2>1, <2>2
<1>5. Here \in SUBSET (1..n) /\ Rest0 \in SUBSET (1..n)
  BY <1>1, <1>2, <1>3 DEF BadQuiets
<1>6. Places(mp) = Here \cup Rest0
  BY <1>3 DEF Places, Ahead, Current
<1>13. ASSUME NEW k \in Here
       PROVE  ~mp.skipQuiets /\ k \in mp.cur..n /\ k \notin Rest0 /\ NotHash(mp, k) /\ High(mp, k)
  <2>1. ~mp.skipQuiets /\ k \in F
    BY <1>13
  <2>2. k \in mp.cur..n /\ NotHash(mp, k) /\ High(mp, k) /\ k \in Int
    BY <1>1, <1>2, <1>3, <2>1
  <2>3. ~Low(mp, k)
    <3>1. mp.list[k].value \in Int
      BY <1>1, <1>2, <2>1, <2>2 DEF QuietsFrom, n
    <3>. QED BY <2>2, <3>1 DEF High, Low, goodQuietThreshold
  <2>4. k \notin 1..(mp.endBadCaptures - 1)
    BY <1>1, <1>2, <2>1, <2>2
  <2>. QED BY <2>1, <2>2, <2>3, <2>4 DEF BadQuiets
<1>. HIDE DEF x
<1>7. Later(mp) = {} /\ mp.stage \notin Endings /\ StageAfter(mp.stage) = "BAD_CAPTURE"
  BY DEF Later, ToGenerate, HashOnes, Endings, StageAfter
<1>9. ASSUME Here = {}
      PROVE  Emits(q, mp)
  <2>1. x.move = NoMove /\ IsPicker(x)
    BY <1>4, <1>9 DEF SamePicker
  <2>2. SamePicker(q, x) /\ ListKept(q, x) /\ q.move = NoMove /\ q.stage = "BAD_CAPTURE"
        /\ q.cur = 1 /\ q.endCur = mp.endBadCaptures
    BY <2>1, LedOn
  <2>. HIDE DEF q
  <2>3. SamePicker(q, mp) /\ ListKept(q, mp)
    BY <1>4, <2>2, KeptTwice
  <2>4. q.list = mp.list /\ q.skipQuiets = mp.skipQuiets /\ q.endCaptures = mp.endCaptures
        /\ q.endGenerated = mp.endGenerated
    BY <2>3 DEF SamePicker, ListKept
  <2>5. Running(q)
    <3>2. q.cur \in 1..q.endCur
      BY <1>1, <2>2
    <3>3. QuietsFrom(q, mp.endCaptures) <=> QuietsFrom(mp, mp.endCaptures)
      BY <2>3, <2>4 DEF QuietsFrom, SamePicker
    <3>1. InStage(q)
      BY <1>1, <2>2, <2>4, <3>2, <3>3 DEF InStage, n
    <3>. QED BY <2>2, <2>3, <3>1, StillRunning DEF HashOnes, EvasionOnes, Stages, Emitting, Endings
  <2>6. Places(q) = Rest0
    <3>1. \A i : NotHash(q, i) <=> NotHash(mp, i)
      BY <2>3, KeptPlaces
    <3>2. BadQuiets(q) = BadQuiets(mp)
      BY <2>3, KeptPlaces
    <3>3. Ahead(q) = 1..(mp.endBadCaptures - 1) \cup BadQuiets(mp)
      BY <2>2, <3>2 DEF Ahead, Current
    <3>. QED BY <3>1, <3>3 DEF Places
  <2>7. Later(q) = {}
    BY <2>2 DEF Later, ToGenerate, HashOnes
  <2>8. Coming(q) = Coming(mp)
    BY <1>6, <1>7, <1>9, <2>4, <2>6, <2>7 DEF Coming
  <2>. QED BY <1>7, <2>2, <2>3, <2>5, <2>8, EmitsNone
<1>10. ASSUME Here # {}
       PROVE  Emits(q, mp)
  <2>1. PICK k \in Here : (\A j \in Here : k <= j) /\ x.cur = k + 1 /\ x.move = mp.list[k].move
    BY <1>4, <1>10
  <2>2. x.move # NoMove /\ q = x
    BY <1>2, <1>5, <2>1, NotLedOn
  <2>. HIDE DEF q
  <2>3. x.list = mp.list /\ x.endCaptures = mp.endCaptures /\ x.endGenerated = mp.endGenerated
        /\ x.skipQuiets = mp.skipQuiets /\ x.endBadCaptures = mp.endBadCaptures
    BY <1>4 DEF SamePicker, ListKept
  <2>4. ~mp.skipQuiets /\ k \in mp.cur..n /\ k \notin Rest0
    BY <1>13
  <2>5. Running(x)
    <3>1. x.cur \in mp.endCaptures..(n + 1)
      BY <1>1, <1>2, <2>1, <2>4
    <3>3. QuietsFrom(x, x.endCaptures)
      BY <1>1, <1>4, <2>3, <2>4 DEF QuietsFrom, SamePicker
    <3>2. InStage(x)
      BY <1>1, <1>4, <2>3, <3>1, <3>3, <2>4 DEF InStage, n
    <3>. QED BY <1>4, <3>2, StillRunning DEF Running, HashOnes
  <2>6. Places(x) = Places(mp) \ {k}
    <3>1. \A i : (NotHash(x, i) <=> NotHash(mp, i)) /\ (High(x, i) <=> High(mp, i))
      BY <1>4, KeptPlaces
    <3>2. BadQuiets(x) = BadQuiets(mp)
      BY <1>4, KeptPlaces
    <3>3. Places(x) = {i \in (k + 1)..(mp.endCur - 1) : NotHash(mp, i) /\ High(mp, i)} \cup Rest0
      BY <1>4, <2>1, <2>3, <2>4, <3>1, <3>2 DEF Places, Ahead, Current
    <3>4. {i \in (k + 1)..(mp.endCur - 1) : NotHash(mp, i) /\ High(mp, i)} = Here \ {k}
      <4>1. Here = F
        BY <2>4
      <4>2. k \in F /\ \A j \in F : k <= j
        BY <2>1, <4>1
      <4>. HIDE DEF Here
      <4>. QED BY <1>1, <1>2, <1>3, <2>4, <4>1, <4>2
    <3>. QED BY <1>6, <2>4, <3>3, <3>4
  <2>7. Places(mp) \in SUBSET (1..Len(mp.list)) /\ k \in Places(mp) /\ OnceEach(mp.list)
    BY <1>1, <1>5, <1>6 DEF n
  <2>8. MovesAt(mp.list, Places(mp) \ {k}) = MovesAt(mp.list, Places(mp)) \ {mp.list[k].move}
    BY <2>7, OneLess
  <2>9. Later(x) = {}
    BY <1>4 DEF Later, ToGenerate, HashOnes
  <2>10. Coming(x) = Coming(mp) \ {x.move} /\ x.move \in Coming(mp)
    <3>. HIDE DEF Here, Rest0
    <3>. QED BY <1>7, <2>1, <2>3, <2>6, <2>7, <2>8, <2>9 DEF Coming, MovesAt
  <2>. QED BY <1>4, <2>2, <2>5, <2>10, EmitsOne
<1>. QED BY <1>0, <1>9, <1>10

\* What stands before the end of the captures put aside, without the hash move.
AtFront(mp) == {i \in 1..(mp.endBadCaptures - 1) : NotHash(mp, i)}

\* The moves put aside are those put aside before and those passed.
LEMMA AsideMoves ==
    ASSUME NEW mp, NEW y, NEW I, y.ttMove = mp.ttMove,
           \A i \in I : NotHash(mp, i),
           Before(y.list, y.endBadCaptures) = Before(mp.list, mp.endBadCaptures) \cup {mp.list[j] : j \in I}
    PROVE  MovesAt(y.list, AtFront(y)) = MovesAt(mp.list, AtFront(mp) \cup I)
<1>1. ASSUME NEW i \in AtFront(y)
      PROVE  y.list[i].move \in MovesAt(mp.list, AtFront(mp) \cup I)
  <2>1. y.list[i] \in Before(y.list, y.endBadCaptures) /\ y.list[i].move # mp.ttMove
    BY DEF AtFront, NotHash, Before
  <2>2. CASE y.list[i] \in Before(mp.list, mp.endBadCaptures)
    <3>1. PICK k \in 1..(mp.endBadCaptures - 1) : mp.list[k] = y.list[i]
      BY <2>2 DEF Before
    <3>2. k \in AtFront(mp)
      BY <2>1, <3>1 DEF AtFront, NotHash
    <3>. QED BY <3>1, <3>2 DEF MovesAt
  <2>3. CASE y.list[i] \in {mp.list[j] : j \in I}
    BY <2>3 DEF MovesAt
  <2>. QED BY <2>1, <2>2, <2>3
<1>2. ASSUME NEW i \in AtFront(mp) \cup I
      PROVE  mp.list[i].move \in MovesAt(y.list, AtFront(y))
  <2>1. mp.list[i] \in Before(y.list, y.endBadCaptures)
    BY DEF AtFront, Before
  <2>2. mp.list[i].move # mp.ttMove
    BY DEF AtFront, NotHash
  <2>3. PICK k \in 1..(y.endBadCaptures - 1) : y.list[k] = mp.list[i]
    BY <2>1 DEF Before
  <2>4. k \in AtFront(y)
    BY <2>2, <2>3 DEF AtFront, NotHash
  <2>. QED BY <2>3, <2>4 DEF MovesAt
<1>. QED BY <1>1, <1>2 DEF MovesAt

\* The good captures are picked in order, those that lose material put aside, and lead
\* on to the quiet moves.
LEMMA GoodCapturePicks ==
    ASSUME NEW mp, Running(mp), Known(mp.pos, mp.history), mp.stage = "GOOD_CAPTURE"
    PROVE  Emits(Stage(mp), mp)
<1>. DEFINE F == {i \in Remaining(mp) : HoldsItsOwn(mp, i, mp.list[i].value)}
            x == select(mp, F)
            y == PassBadCaptures(mp, x, F)
            q == OrLeadsTo(y, "QUIET_INIT", mp.endCur, mp.endCur)
            n == Len(mp.list)
            S == Scored(mp, "CAPTURES")
            I == AsideTo(mp, x.cur - 1, F)
<1>0. Stage(mp) = q
  BY DEF Stage, GoodCapture, PickCapture
<1>1. /\ IsPicker(mp) /\ mp.list \in Seq(Entries(mp)) /\ mp.list \in Seq(S) /\ OnceEach(mp.list)
      /\ mp.cur \in 1..(n + 1) /\ mp.endBadCaptures \in 1..mp.cur
      /\ mp.endCur = n + 1 /\ mp.endCaptures = n + 1
  BY DEF Running, InStage
<1>2. n \in Nat /\ \A i \in 1..n : mp.list[i].move # NoMove
  BY <1>1, EntriesAreMoves
<1>3. F \subseteq Remaining(mp) /\ Remaining(mp) = {i \in mp.cur..(mp.endCur - 1) : NotHash(mp, i)}
  BY DEF Remaining
<1>. HIDE DEF F, n
<1>4. /\ SamePicker(x, mp) /\ ListKept(x, mp) /\ x.stage = mp.stage /\ x.endCur = mp.endCur
      /\ F = {} => x.cur = mp.endCur /\ x.move = NoMove
      /\ F # {} => \E k \in F : /\ \A j \in F : k <= j
                                /\ x.cur = k + 1 /\ x.move = mp.list[k].move
  <2>1. mp.cur \in Nat /\ mp.endCur \in Nat /\ F \subseteq mp.cur..(mp.endCur - 1)
    BY <1>1, <1>2, <1>3
  <2>. QED BY <1>1, <2>1, SelectIs
<1>. HIDE DEF x
<1>5. x.cur \in mp.cur..(n + 1) /\ x.list = mp.list /\ x.endBadCaptures = mp.endBadCaptures
      /\ IsPicker(x) /\ x.endCaptures = mp.endCaptures
  BY <1>1, <1>2, <1>3, <1>4 DEF ListKept, SamePicker
<1>. HIDE DEF S, y
<1>6. /\ y = WithBad(x, y.list, y.endBadCaptures)
      /\ y.list \in Seq(S) /\ y.endBadCaptures \in 1..x.cur
      /\ Rearranged(y.list, mp.list, 1, x.cur)
      /\ Before(y.list, y.endBadCaptures) = Before(mp.list, mp.endBadCaptures) \cup {mp.list[j] : j \in I}
  <2>1. mp.cur \in Nat /\ x.cur \in mp.cur..(Len(mp.list) + 1)
    BY <1>1, <1>2, <1>5 DEF n
  <2>2. LET z == PassBadCaptures(mp, x, F)
        IN  /\ z = WithBad(x, z.list, z.endBadCaptures)
            /\ z.list \in Seq(S) /\ z.endBadCaptures \in 1..x.cur
            /\ Rearranged(z.list, mp.list, 1, x.cur)
            /\ Before(z.list, z.endBadCaptures) = Before(mp.list, mp.endBadCaptures)
                 \cup {mp.list[j] : j \in AsideTo(mp, x.cur - 1, F)}
    <3>1. /\ IsPicker(x) /\ mp.list \in Seq(S) /\ x.list = mp.list /\ x.endBadCaptures = mp.endBadCaptures
          /\ mp.cur \in Nat /\ mp.endBadCaptures \in 1..mp.cur /\ x.cur \in mp.cur..(Len(mp.list) + 1)
      BY <1>1, <1>5, <2>1
    <3>2. AsidePassed(S, mp, x, F, PassBadCaptures(mp, x, F))
      BY <3>1, PassedAside
    <3>. QED BY <3>2 DEF AsidePassed
  <2>. QED BY <2>2 DEF y
<1>7. /\ SamePicker(y, x) /\ y.stage = x.stage /\ y.cur = x.cur /\ y.endCur = x.endCur
      /\ y.endCaptures = x.endCaptures /\ y.move = x.move
  <2>1. LET z == WithBad(x, y.list, y.endBadCaptures)
        IN  /\ SamePicker(z, x) /\ z.stage = x.stage /\ z.cur = x.cur /\ z.endCur = x.endCur
            /\ z.endCaptures = x.endCaptures /\ z.move = x.move
    BY <1>5, WithBadIs
  <2>. QED BY <1>6, <2>1
<1>8. /\ SamePicker(y, mp) /\ IsPicker(y) /\ Len(y.list) = n /\ OnceEach(y.list)
      /\ \A i \in x.cur..n : y.list[i] = mp.list[i]
      /\ y.ttMove = mp.ttMove
  <2>1. SamePicker(y, mp)
    BY <1>4, <1>7 DEF SamePicker
  <2>2. \A i \in x.cur..n : i \in 1..n /\ i \notin 1..(x.cur - 1)
    BY <1>1, <1>2, <1>5
  <2>3. Len(y.list) = n /\ OnceEach(y.list) /\ \A i \in x.cur..n : y.list[i] = mp.list[i]
    BY <1>1, <1>6, <2>2 DEF Rearranged, n
  <2>. QED BY <2>1, <2>3 DEF SamePicker
<1>9. MovesAt(y.list, AtFront(y)) = MovesAt(mp.list, AtFront(mp) \cup I)
  <2>1. \A i \in I : NotHash(mp, i)
    BY DEF AsideTo
  <2>. HIDE DEF I
  <2>. QED BY <1>6, <1>8, <2>1, AsideMoves
<1>10. Places(mp) = AtFront(mp) \cup Remaining(mp)
  BY <1>3 DEF Places, Ahead, Current, AtFront
<1>11. I = {i \in Remaining(mp) : i < x.cur /\ i \notin F}
  BY <1>1, <1>2, <1>3, <1>5 DEF AsideTo
<1>. HIDE DEF I
<1>12. /\ Scored(y, "CAPTURES") = S /\ S \subseteq Entries(y) /\ Entries(y) = Entries(mp)
       /\ mp.pos.st.checkersBB = {} /\ TypesOf(mp.pos) = {"CAPTURES", "QUIETS"}
       /\ QuietsLeft(y) = QuietsLeft(mp)
  <2>1. mp.pos.st.checkersBB = {}
    BY DEF Running, EvasionOnes
  <2>2. TypesOf(mp.pos) = {"CAPTURES", "QUIETS"}
    BY <2>1 DEF TypesOf
  <2>3. S \subseteq Entries(mp)
    BY <2>2 DEF Entries, S
  <2>. QED BY <1>8, <2>1, <2>2, <2>3, SameEntries DEF S
<1>13. y.list \in Seq(Entries(mp))
  BY <1>6, <1>12, SeqMonotonic
<1>14. Later(mp) = QuietsLeft(mp) \ {mp.ttMove} /\ mp.stage \notin Endings /\ StageAfter(mp.stage) = "QUIET_INIT"
  BY DEF Later, ToGenerate, HashOnes, Endings, StageAfter
<1>15. ASSUME F = {}
       PROVE  Emits(q, mp)
  <2>1. y.move = NoMove /\ x.cur = n + 1
    BY <1>1, <1>4, <1>7, <1>15
  <2>2. SamePicker(q, y) /\ ListKept(q, y) /\ q.move = NoMove /\ q.stage = "QUIET_INIT"
        /\ q.cur = mp.endCur /\ q.endCur = mp.endCur
    BY <1>8, <2>1, LedOn
  <2>. HIDE DEF q
  <2>3. SamePicker(q, mp) /\ IsPicker(q) /\ q.list = y.list /\ q.endBadCaptures = y.endBadCaptures
        /\ q.endCaptures = mp.endCaptures
    BY <1>5, <1>7, <1>8, <2>2 DEF SamePicker, ListKept
  <2>4. Entries(q) = Entries(mp) /\ Scored(q, "CAPTURES") = S /\ q.pos = mp.pos /\ QuietsLeft(q) = QuietsLeft(mp)
        /\ q.skipQuiets = mp.skipQuiets /\ q.ttMove = mp.ttMove
    BY <2>3, SameEntries DEF S
  <2>5. Running(q)
    <3>1. InStage(q)
      BY <1>1, <1>6, <1>8, <2>1, <2>2, <2>3, <2>4 DEF InStage
    <3>2. q.stage \in Stages /\ q.stage \notin EvasionOnes /\ q.stage \notin HashOnes
      BY <2>2 DEF HashOnes, EvasionOnes, Stages
    <3>3. mp.skipQuiets \in BOOLEAN
      BY DEF Running
    <3>. QED BY <1>8, <1>12, <1>13, <2>3, <2>4, <3>1, <3>2, <3>3 DEF Running
  <2>6. Places(q) = AtFront(q) /\ AtFront(q) = AtFront(y)
    <3>1. Ahead(q) = 1..(q.endBadCaptures - 1)
      BY <2>2 DEF Ahead
    <3>2. \A i : NotHash(q, i) <=> NotHash(y, i)
      BY <1>8, <2>3, <2>4 DEF NotHash
    <3>. QED BY <2>3, <3>1, <3>2 DEF Places, AtFront
  <2>7. I = Remaining(mp)
    BY <1>1, <1>2, <1>3, <1>11, <1>15, <2>1
  <2>8. Later(q) = Later(mp)
    BY <1>14, <2>2, <2>4 DEF Later, ToGenerate, HashOnes
  <2>9. Coming(q) = Coming(mp)
    BY <1>9, <1>10, <2>3, <2>6, <2>7, <2>8 DEF Coming
  <2>. QED BY <1>14, <2>2, <2>3, <2>5, <2>9, EmitsNone
<1>16. ASSUME F # {}
       PROVE  Emits(q, mp)
  <2>1. PICK k \in F : (\A j \in F : k <= j) /\ x.cur = k + 1 /\ x.move = mp.list[k].move
    BY <1>4, <1>16
  <2>2. k \in 1..n /\ k \in mp.cur..n /\ k \in Remaining(mp) /\ k \in Int
    BY <1>1, <1>2, <1>3
  <2>3. y.move # NoMove /\ q = y
    BY <1>2, <1>7, <2>1, <2>2, NotLedOn
  <2>. HIDE DEF q
  <2>4. Running(y)
    <3>1. y.cur \in 1..(n + 1) /\ y.endBadCaptures \in 1..y.cur
      BY <1>1, <1>2, <1>5, <1>6, <1>7
    <3>2. InStage(y)
      BY <1>1, <1>4, <1>5, <1>6, <1>7, <1>8, <1>12, <3>1 DEF InStage
    <3>3. y.stage \in Stages /\ y.stage \notin EvasionOnes /\ y.stage \notin HashOnes /\ mp.skipQuiets \in BOOLEAN
      BY <1>4, <1>7 DEF HashOnes, EvasionOnes, Running
    <3>4. y.skipQuiets = mp.skipQuiets /\ y.pos = mp.pos
      BY <1>8 DEF SamePicker
    <3>. QED BY <1>8, <1>12, <1>13, <3>2, <3>3, <3>4 DEF Running
  <2>. DEFINE R == {i \in (k + 1)..n : NotHash(mp, i)}
  <2>5. Places(y) = AtFront(y) \cup R
    <3>1. Ahead(y) = 1..(y.endBadCaptures - 1) \cup (k + 1)..n
      <4>1. y.endCur - 1 = n /\ y.cur = k + 1
        BY <1>1, <1>2, <1>4, <1>7, <2>1
      <4>2. y.stage = "GOOD_CAPTURE"
        BY <1>4, <1>7
      <4>. QED BY <4>1, <4>2 DEF Ahead, Current
    <3>2. \A i \in (k + 1)..n : NotHash(y, i) <=> NotHash(mp, i)
      BY <1>8, <2>1 DEF NotHash
    <3>. QED BY <3>1, <3>2 DEF Places, AtFront
  <2>6. MovesAt(y.list, R) = MovesAt(mp.list, R)
    <3>1. \A i \in R : y.list[i] = mp.list[i]
      BY <1>8, <2>1
    <3>. HIDE DEF R
    <3>. QED BY <3>1 DEF MovesAt
  <2>7. I = {i \in Remaining(mp) : i < k} /\ R = {i \in Remaining(mp) : i > k}
    <3>1. \A i \in Remaining(mp) : i \in Int
      BY <1>1, <1>2, <1>3
    <3>2. \A i \in Remaining(mp) : i < x.cur /\ i \notin F <=> i < k
      BY <1>3, <2>1, <2>2, <3>1
    <3>3. R = {i \in Remaining(mp) : i > k}
      BY <1>1, <1>2, <1>3, <2>2
    <3>. QED BY <1>11, <3>2, <3>3
  <2>8. AtFront(mp) \cup I \cup R = Places(mp) \ {k}
    <3>1. k \notin AtFront(mp)
      BY <1>1, <1>2, <2>2 DEF AtFront
    <3>2. \A i \in Remaining(mp) : i # k <=> i < k \/ i > k
      BY <1>1, <1>2, <1>3, <2>2
    <3>. HIDE DEF R
    <3>. QED BY <1>10, <2>7, <3>1, <3>2
  <2>9. MovesAt(y.list, Places(y)) = MovesAt(mp.list, Places(mp) \ {k})
    <3>. HIDE DEF R
    <3>1. MovesAt(y.list, Places(y)) = MovesAt(y.list, AtFront(y)) \cup MovesAt(y.list, R)
      BY <2>5 DEF MovesAt
    <3>2. MovesAt(mp.list, Places(mp) \ {k}) = MovesAt(mp.list, AtFront(mp) \cup I) \cup MovesAt(mp.list, R)
      BY <2>8 DEF MovesAt
    <3>. QED BY <1>9, <2>6, <3>1, <3>2
  <2>10. MovesAt(mp.list, Places(mp) \ {k}) = MovesAt(mp.list, Places(mp)) \ {mp.list[k].move}
    <3>1. Places(mp) \in SUBSET (1..n) /\ k \in Places(mp)
      BY <1>1, <1>2, <1>3, <1>10, <2>2 DEF AtFront
    <3>. QED BY <1>1, <3>1, OneLess DEF n
  <2>11. mp.list[k].move \notin Later(mp)
    <3>1. mp.list[k] \in S
      BY <1>1, <2>2, ElementOfSeq DEF n
    <3>2. mp.list[k].move \in generate(mp.pos, "CAPTURES")
      BY <3>1 DEF S, Scored, ExtMove
    <3>. QED BY <1>12, <1>14, <3>2 DEF Known, QuietsLeft
  <2>12. Later(y) = Later(mp)
    BY <1>4, <1>7, <1>8, <1>12 DEF Later, ToGenerate, HashOnes
  <2>13. Coming(y) = Coming(mp) \ {y.move}
    BY <1>7, <2>1, <2>9, <2>10, <2>11, <2>12 DEF Coming
  <2>14. y.move \in Coming(mp)
    BY <1>7, <1>10, <2>1, <2>2 DEF Coming, MovesAt
  <2>. QED BY <1>4, <1>7, <1>8, <2>3, <2>4, <2>13, <2>14, EmitsOne
<1>. QED BY <1>0, <1>15, <1>16

\* The list of a stage when it begins: what stood before it, and each move of its type once.
NewList(t, mp, type, at) ==
    /\ t \in Seq(Entries(mp)) /\ OnceEach(t) /\ Len(t) \in Nat /\ at <= Len(t) + 1
    /\ \A i \in 1..(at - 1) : t[i] = mp.list[i]
    /\ \A i \in at..Len(t) : t[i] \in Scored(mp, type) /\ t[i].move \in generate(mp.pos, type)
    /\ \A m \in generate(mp.pos, type) : \E i \in at..Len(t) : t[i].move = m
\* Generating and sorting makes such a list.
LEMMA SortedList ==
    ASSUME NEW mp, Known(mp.pos, mp.history), mp.list \in Seq(Entries(mp)), OnceEach(mp.list),
           NEW type \in TypesOf(mp.pos), NEW at \in 1..(Len(mp.list) + 1), NEW limit,
           \A i \in 1..(at - 1) : mp.list[i].move \notin generate(mp.pos, type)
    PROVE  LET L == Generated(mp, type, at)
               t == partial_insertion_sort(L, at, Len(L) + 1, limit)
           IN  NewList(t, mp, type, at) /\ Len(t) = Len(L)
<1>. DEFINE L == Generated(mp, type, at)
            t == partial_insertion_sort(L, at, Len(L) + 1, limit)
            M == generate(mp.pos, type)
            S == Entries(mp)
            n == Len(L)
<1>1. IsFiniteSet(M) /\ Scored(mp, type) \subseteq S
  BY DEF Known, Entries
<1>2. /\ L \in Seq(S \cup Scored(mp, type)) /\ n >= at - 1
      /\ \A i \in 1..(at - 1) : L[i] = mp.list[i]
      /\ \A i \in at..n : L[i] \in Scored(mp, type) /\ L[i].move \in M
      /\ \A m \in M : \E i \in at..n : L[i].move = m
      /\ \A i, j \in at..n : L[i].move = L[j].move => i = j
  BY <1>1, GeneratedList
<1>3. S \cup Scored(mp, type) = S
  BY <1>1
<1>. HIDE DEF L, S, M, n
<1>4. L \in Seq(S) /\ n \in Nat /\ at \in 1..(n + 1)
  <2>1. L \in Seq(S)
    BY <1>2, <1>3
  <2>2. n \in Nat
    BY <2>1, LenProperties DEF n
  <2>. QED BY <1>2, <2>1, <2>2
<1>5. OnceEach(L)
  <2>1. ASSUME NEW i \in 1..n, NEW j \in 1..n, L[i].move = L[j].move
        PROVE  i = j
    <3>1. \A k \in 1..n : k \in 1..(at - 1) \/ k \in at..n
      BY <1>4
    <3>2. \A k \in 1..(at - 1) : k \in 1..Len(mp.list)
      OBVIOUS
    <3>3. \A k \in 1..(at - 1) : L[k].move = mp.list[k].move /\ L[k].move \notin M
      BY <1>2 DEF M
    <3>4. \A k, l \in 1..(at - 1) : mp.list[k].move = mp.list[l].move => k = l
      BY <3>2 DEF OnceEach
    <3>. QED BY <1>2, <2>1, <3>1, <3>3, <3>4
  <2>. QED BY <2>1 DEF OnceEach, n
<1>6. t \in Seq(S) /\ Rearranged(t, L, at, n + 1)
  BY <1>4, SortIs DEF n
<1>. HIDE DEF t
<1>7. /\ Len(t) = n /\ OnceEach(t)
      /\ \A k \in 1..n : k \notin at..n => t[k] = L[k]
      /\ \A k \in at..n : \E l \in at..n : t[k] = L[l]
      /\ \A k \in at..n : \E l \in at..n : L[k] = t[l]
  <2>1. (n + 1) - 1 = n
    BY <1>4
  <2>. QED BY <1>5, <1>6, <2>1 DEF Rearranged, n
<1>8. \A i \in 1..(at - 1) : t[i] = mp.list[i]
  <2>1. \A i \in 1..(at - 1) : i \in 1..n /\ i \notin at..n
    BY <1>4
  <2>. QED BY <1>2, <1>7, <2>1
<1>9. ASSUME NEW i \in at..n
      PROVE  t[i] \in Scored(mp, type) /\ t[i].move \in M
  <2>1. PICK l \in at..n : t[i] = L[l]
    BY <1>7
  <2>. QED BY <1>2, <2>1
<1>10. ASSUME NEW m \in M
       PROVE  \E i \in at..n : t[i].move = m
  <2>1. PICK k \in at..n : L[k].move = m
    BY <1>2
  <2>2. PICK l \in at..n : L[k] = t[l]
    BY <1>7
  <2>. QED BY <2>1, <2>2
<1>11. at <= n + 1
  BY <1>4
<1>. QED BY <1>4, <1>6, <1>7, <1>8, <1>9, <1>10, <1>11 DEF t, L, S, M, n, NewList

\* A picker with its new list.
LEMMA ListSet ==
    ASSUME NEW mp, IsPicker(mp), NEW stage, NEW list, NEW begin, NEW limit
    PROVE  LET q == WithList(mp, stage, list, begin, limit)
           IN  /\ SamePicker(q, mp) /\ q.move = mp.move /\ q.stage = stage /\ q.cur = begin /\ q.endCur = Len(list) + 1
               /\ q.list = partial_insertion_sort(list, begin, Len(list) + 1, limit)
               /\ q.endBadCaptures = mp.endBadCaptures /\ q.endCaptures = mp.endCaptures
               /\ q.endGenerated = mp.endGenerated
<1>. DEFINE q == WithList(mp, stage, list, begin, limit)
            t == partial_insertion_sort(list, begin, Len(list) + 1, limit)
            e == Len(list) + 1
<1>1. q = [mp EXCEPT !.list = t, !.stage = stage, !.cur = begin, !.endCur = e]
  BY DEF WithList
<1>. HIDE DEF q, t, e
<1>2. /\ SamePicker(q, mp) /\ q.move = mp.move /\ q.stage = stage /\ q.cur = begin /\ q.endCur = e /\ q.list = t
      /\ q.endBadCaptures = mp.endBadCaptures /\ q.endCaptures = mp.endCaptures
      /\ q.endGenerated = mp.endGenerated
  BY <1>1 DEF IsPicker, PickerFields, SamePicker
<1>. QED BY <1>2 DEF q, t, e

\* Its ends are marked.
LEMMA EndsMarked ==
    ASSUME NEW x, IsPicker(x)
    PROVE  /\ LET q == CapturesMarked(x)
              IN  /\ SamePicker(q, x) /\ q.move = x.move /\ q.stage = x.stage /\ q.cur = x.cur /\ q.endCur = x.endCur
                  /\ q.list = x.list /\ q.endBadCaptures = 1 /\ q.endCaptures = x.endCur
                  /\ q.endGenerated = x.endGenerated
           /\ LET q == GeneratedMarked(x)
              IN  /\ SamePicker(q, x) /\ q.move = x.move /\ q.stage = x.stage /\ q.cur = x.cur /\ q.endCur = x.endCur
                  /\ q.list = x.list /\ q.endBadCaptures = x.endBadCaptures /\ q.endCaptures = x.endCaptures
                  /\ q.endGenerated = x.endCur
<1>1. ASSUME NEW q, q = CapturesMarked(x)
      PROVE  /\ SamePicker(q, x) /\ q.move = x.move /\ q.stage = x.stage /\ q.cur = x.cur /\ q.endCur = x.endCur
             /\ q.list = x.list /\ q.endBadCaptures = 1 /\ q.endCaptures = x.endCur
             /\ q.endGenerated = x.endGenerated
  BY <1>1 DEF CapturesMarked, IsPicker, PickerFields, SamePicker
<1>2. ASSUME NEW q, q = GeneratedMarked(x)
      PROVE  /\ SamePicker(q, x) /\ q.move = x.move /\ q.stage = x.stage /\ q.cur = x.cur /\ q.endCur = x.endCur
             /\ q.list = x.list /\ q.endBadCaptures = x.endBadCaptures /\ q.endCaptures = x.endCaptures
             /\ q.endGenerated = x.endCur
  BY <1>2 DEF GeneratedMarked, IsPicker, PickerFields, SamePicker
<1>. QED BY <1>1, <1>2

\* A stage begins: every move that was coming still is.
InitStage(stage) ==
    CASE stage = "CAPTURE_INIT" -> "GOOD_CAPTURE"
      [] stage = "QCAPTURE_INIT" -> "QCAPTURE"
      [] stage = "PROBCUT_INIT" -> "PROBCUT"
      [] stage = "QUIET_INIT" -> "GOOD_QUIET"
      [] stage = "EVASION_INIT" -> "EVASION"
      [] OTHER -> stage
StageBegun(q, mp) ==
    /\ Running(q) /\ SamePicker(q, mp) /\ q.move = mp.move
    /\ Coming(q) = Coming(mp) /\ q.stage = InitStage(mp.stage)

\* The captures, or in check the evasions, are generated and sorted.
LEMMA FirstListBegins ==
    ASSUME NEW mp, Running(mp), Known(mp.pos, mp.history), mp.stage \in InitOnes
    PROVE  StageBegun(Initialised(mp), mp)
<1>. DEFINE type == IF mp.stage = "EVASION_INIT" THEN "EVASIONS" ELSE "CAPTURES"
            stage == InitStage(mp.stage)
            L == Generated(mp, type, 1)
            x == WithList(mp, stage, L, 1, -2^30)
            q == IF mp.stage = "EVASION_INIT" THEN GeneratedMarked(x) ELSE CapturesMarked(x)
            n == Len(L)
            M == generate(mp.pos, type)
<1>1. Initialised(mp) = q
  BY DEF Initialised, InitOnes, CaptureStages, CaptureInit, EvasionInit, InitStage
<1>2. type \in TypesOf(mp.pos) /\ (mp.stage = "EVASION_INIT" <=> mp.pos.st.checkersBB # {})
  BY DEF Running, TypesOf, InitOnes, EvasionOnes
<1>3. IsPicker(mp) /\ mp.list \in Seq(Entries(mp)) /\ OnceEach(mp.list) /\ mp.skipQuiets \in BOOLEAN
  BY DEF Running
<1>. HIDE DEF L, n
<1>4. /\ SamePicker(x, mp) /\ x.move = mp.move /\ x.stage = stage /\ x.cur = 1 /\ x.endCur = n + 1
      /\ x.list = partial_insertion_sort(L, 1, n + 1, -2^30)
  BY <1>3, ListSet DEF n
<1>5. IsPicker(x)
  BY <1>4 DEF SamePicker
<1>. HIDE DEF x, stage
<1>6. /\ SamePicker(q, x) /\ q.move = x.move /\ q.stage = x.stage /\ q.cur = x.cur /\ q.endCur = x.endCur
      /\ q.list = x.list
      /\ mp.stage # "EVASION_INIT" => q.endBadCaptures = 1 /\ q.endCaptures = x.endCur
  BY <1>5, EndsMarked
<1>. HIDE DEF q
<1>7. /\ SamePicker(q, mp) /\ IsPicker(q) /\ q.move = mp.move /\ q.stage = stage /\ q.cur = 1 /\ q.endCur = n + 1
      /\ q.list = partial_insertion_sort(L, 1, n + 1, -2^30)
      /\ mp.stage # "EVASION_INIT" => q.endBadCaptures = 1 /\ q.endCaptures = n + 1
  BY <1>4, <1>6 DEF SamePicker
<1>8. /\ q.list \in Seq(Entries(mp)) /\ OnceEach(q.list) /\ Len(q.list) = n /\ n \in Nat
      /\ \A i \in 1..n : q.list[i] \in Scored(mp, type) /\ q.list[i].move \in M
      /\ \A m \in M : \E i \in 1..n : q.list[i].move = m
  <2>1. Len(mp.list) \in Nat
    BY <1>3, LenProperties
  <2>2. 1 \in 1..(Len(mp.list) + 1) /\ \A i \in 1..(1 - 1) : mp.list[i].move \notin M
    BY <2>1
  <2>3. LET t == partial_insertion_sort(Generated(mp, type, 1), 1, Len(Generated(mp, type, 1)) + 1, -2^30)
        IN  NewList(t, mp, type, 1) /\ Len(t) = Len(Generated(mp, type, 1))
    <3>. DEFINE limit == -2^30
                at == 1
    <3>1. Known(mp.pos, mp.history) /\ mp.list \in Seq(Entries(mp)) /\ OnceEach(mp.list) /\ type \in TypesOf(mp.pos)
          /\ at \in 1..(Len(mp.list) + 1) /\ \A i \in 1..(at - 1) : mp.list[i].move \notin generate(mp.pos, type)
      BY <1>2, <1>3, <2>2
    <3>. HIDE DEF type, limit, at
    <3>2. LET t == partial_insertion_sort(Generated(mp, type, at), at, Len(Generated(mp, type, at)) + 1, limit)
          IN  NewList(t, mp, type, at) /\ Len(t) = Len(Generated(mp, type, at))
      BY <3>1, SortedList
    <3>. QED BY <3>2 DEF limit, at
  <2>. HIDE DEF M
  <2>4. NewList(q.list, mp, type, 1) /\ Len(q.list) = n
    BY <1>7, <2>3 DEF L, n
  <2>. QED BY <2>4 DEF NewList, M
<1>9. q.list \in Seq(Scored(mp, type))
  <2>1. q.list \in [1..n -> Entries(mp)]
    BY <1>8, SeqDef
  <2>2. q.list \in [1..n -> Scored(mp, type)]
    BY <1>8, <2>1
  <2>. QED BY <1>8, <2>2, SeqDef
<1>10. /\ Entries(q) = Entries(mp) /\ Scored(q, "CAPTURES") = Scored(mp, "CAPTURES") /\ QuietsLeft(q) = QuietsLeft(mp)
       /\ q.pos = mp.pos /\ q.ttMove = mp.ttMove /\ q.threshold = mp.threshold /\ q.skipQuiets = mp.skipQuiets
  BY <1>7, SameEntries
<1>. HIDE DEF M
<1>11. Running(q)
  <2>1. q.stage \in {"GOOD_CAPTURE", "QCAPTURE", "PROBCUT", "EVASION"}
        /\ (q.stage = "EVASION" <=> mp.stage = "EVASION_INIT")
    BY <1>7 DEF stage, InitStage, InitOnes
  <2>2. InStage(q)
    <3>1. 1 \in 1..(n + 1) /\ 1 \in 1..1
      BY <1>8
    <3>2. CASE q.stage = "GOOD_CAPTURE"
      BY <1>7, <1>8, <1>9, <1>10, <2>1, <3>1, <3>2 DEF InStage
    <3>3. CASE q.stage # "GOOD_CAPTURE"
      BY <1>7, <1>8, <2>1, <3>1, <3>3 DEF InStage
    <3>. QED BY <3>2, <3>3
  <2>3. q.stage \in Stages /\ q.stage \notin HashOnes /\ (q.stage \in EvasionOnes <=> mp.stage = "EVASION_INIT")
    BY <2>1 DEF Stages, Emitting, Endings, HashOnes, EvasionOnes
  <2>. QED BY <1>2, <1>3, <1>7, <1>8, <1>10, <2>2, <2>3 DEF Running
<1>12. Current(q) = 1..n
  BY <1>7, <1>8 DEF Current
<1>13. \A m : m \in MovesAt(q.list, {i \in 1..n : NotHash(q, i)}) <=> m \in M \ {mp.ttMove}
  BY <1>8, <1>10 DEF MovesAt, NotHash
<1>14. MovesAt(mp.list, Places(mp)) = {}
  BY DEF Places, Ahead, MovesAt, InitOnes
<1>15. CASE mp.stage \in {"CAPTURE_INIT", "QCAPTURE_INIT", "EVASION_INIT"}
  <2>1. Places(q) = {i \in 1..n : NotHash(q, i)}
    <3>1. CASE mp.stage = "CAPTURE_INIT"
      <4>1. 1..(q.endBadCaptures - 1) = {}
        BY <1>7, <3>1
      <4>. QED BY <1>7, <1>12, <3>1, <4>1 DEF Places, Ahead, stage, InitStage
    <3>2. CASE mp.stage \in {"QCAPTURE_INIT", "EVASION_INIT"}
      BY <1>7, <1>12, <3>2 DEF Places, Ahead, stage, InitStage
    <3>. QED BY <1>15, <3>1, <3>2
  <2>2. CASE mp.stage = "CAPTURE_INIT"
    <3>1. Later(q) = QuietsLeft(mp) \ {mp.ttMove} /\ Later(mp) = (M \cup QuietsLeft(mp)) \ {mp.ttMove}
      BY <1>7, <1>10, <2>2 DEF Later, ToGenerate, HashOnes, stage, InitStage, M
    <3>. QED BY <1>7, <1>11, <1>13, <1>14, <1>1, <2>1, <3>1 DEF StageBegun, Coming, stage
  <2>3. CASE mp.stage \in {"QCAPTURE_INIT", "EVASION_INIT"}
    <3>1. Later(q) = {} /\ Later(mp) = M \ {mp.ttMove}
      BY <1>7, <2>3 DEF Later, ToGenerate, HashOnes, stage, InitStage, M
    <3>. QED BY <1>7, <1>11, <1>13, <1>14, <1>1, <2>1, <3>1 DEF StageBegun, Coming, stage
  <2>. QED BY <1>15, <2>2, <2>3
<1>16. CASE mp.stage = "PROBCUT_INIT"
  <2>1. Places(q) = {i \in 1..n : NotHash(q, i) /\ see_ge(mp.pos, q.list[i].move, mp.threshold)}
    BY <1>7, <1>10, <1>12, <1>16 DEF Places, Ahead, stage, InitStage
  <2>2. Later(q) = {} /\ Later(mp) = {m \in M : see_ge(mp.pos, m, mp.threshold)} \ {mp.ttMove}
    BY <1>7, <1>16 DEF Later, ToGenerate, HashOnes, stage, InitStage, M
  <2>3. MovesAt(q.list, Places(q)) = Later(mp)
    BY <1>8, <1>10, <2>1, <2>2 DEF MovesAt, NotHash
  <2>. QED BY <1>7, <1>11, <1>14, <1>1, <2>2, <2>3 DEF StageBegun, Coming, stage
<1>. QED BY <1>15, <1>16 DEF InitOnes

\* The quiet moves are generated behind the captures and sorted, unless they are skipped.
LEMMA QuietsBegin ==
    ASSUME NEW mp, Running(mp), Known(mp.pos, mp.history), mp.stage = "QUIET_INIT"
    PROVE  StageBegun(Initialised(mp), mp)
<1>. DEFINE n0 == Len(mp.list)
<1>1. /\ IsPicker(mp) /\ mp.list \in Seq(Entries(mp)) /\ OnceEach(mp.list) /\ mp.skipQuiets \in BOOLEAN
      /\ mp.list \in Seq(Scored(mp, "CAPTURES"))
      /\ mp.cur = n0 + 1 /\ mp.endBadCaptures \in 1..(n0 + 1) /\ mp.endCur = n0 + 1 /\ mp.endCaptures = n0 + 1
      /\ mp.pos.st.checkersBB = {}
  BY DEF Running, InStage, EvasionOnes
<1>2. n0 \in Nat
  BY <1>1, LenProperties
<1>3. InitStage(mp.stage) = "GOOD_QUIET" /\ TypesOf(mp.pos) = {"CAPTURES", "QUIETS"}
  BY <1>1 DEF InitStage, TypesOf
<1>4. Places(mp) = AtFront(mp) /\ Later(mp) = QuietsLeft(mp) \ {mp.ttMove}
  BY DEF Places, Ahead, AtFront, Later, ToGenerate, HashOnes
<1>5. ASSUME mp.skipQuiets
      PROVE  StageBegun(Initialised(mp), mp)
  <2>. DEFINE q == [mp EXCEPT !.stage = "GOOD_QUIET"]
  <2>1. Initialised(mp) = q
    BY <1>5 DEF Initialised, CaptureStages, QuietInit
  <2>2. SamePicker(q, mp) /\ ListKept(q, mp) /\ q.move = mp.move /\ q.stage = "GOOD_QUIET"
    <3>1. q = [mp EXCEPT !.stage = "GOOD_QUIET"]
      OBVIOUS
    <3>. HIDE DEF q
    <3>. QED BY <1>1, <3>1 DEF IsPicker, PickerFields, SamePicker, ListKept
  <2>. HIDE DEF q
  <2>3. q.skipQuiets /\ q.list = mp.list /\ q.endCaptures = n0 + 1 /\ q.endBadCaptures = mp.endBadCaptures
    BY <1>1, <1>5, <2>2 DEF SamePicker, ListKept
  <2>4. Running(q)
    <3>1. InStage(q)
      BY <1>1, <1>2, <2>2, <2>3 DEF InStage
    <3>. QED BY <2>2, <3>1, StillRunning DEF HashOnes, EvasionOnes, Stages, Emitting
  <2>5. Places(q) = AtFront(mp)
    <3>1. \A i : NotHash(q, i) <=> NotHash(mp, i)
      BY <2>2, KeptPlaces
    <3>2. Ahead(q) = 1..(mp.endBadCaptures - 1)
      BY <2>2, <2>3 DEF Ahead, BadQuiets
    <3>. QED BY <3>1, <3>2 DEF Places, AtFront
  <2>6. Later(q) = {} /\ Later(mp) = {}
    BY <1>4, <1>5, <2>2 DEF Later, ToGenerate, HashOnes, QuietsLeft
  <2>7. Coming(q) = Coming(mp)
    BY <1>4, <2>3, <2>5, <2>6 DEF Coming
  <2>. QED BY <1>3, <2>1, <2>2, <2>4, <2>7 DEF StageBegun
<1>6. ASSUME ~mp.skipQuiets
      PROVE  StageBegun(Initialised(mp), mp)
  <2>. DEFINE at == mp.cur
              limit == -3560 * mp.depth
              L == Generated(mp, "QUIETS", at)
              x == WithList(mp, "GOOD_QUIET", L, at, limit)
              q == GeneratedMarked(x)
              n == Len(q.list)
              M == generate(mp.pos, "QUIETS")
  <2>1. Initialised(mp) = q
    BY <1>6 DEF Initialised, CaptureStages, QuietInit
  <2>. HIDE DEF L, limit
  <2>2. /\ SamePicker(x, mp) /\ x.move = mp.move /\ x.stage = "GOOD_QUIET" /\ x.cur = at /\ x.endCur = Len(L) + 1
        /\ x.list = partial_insertion_sort(L, at, Len(L) + 1, limit)
        /\ x.endBadCaptures = mp.endBadCaptures /\ x.endCaptures = mp.endCaptures
    BY <1>1, ListSet
  <2>3. IsPicker(x)
    BY <2>2 DEF SamePicker
  <2>. HIDE DEF x
  <2>4. /\ SamePicker(q, x) /\ q.move = x.move /\ q.stage = x.stage /\ q.cur = x.cur /\ q.endCur = x.endCur
        /\ q.list = x.list /\ q.endBadCaptures = x.endBadCaptures /\ q.endCaptures = x.endCaptures
        /\ q.endGenerated = x.endCur
    BY <2>3, EndsMarked
  <2>. HIDE DEF q
  <2>5. NewList(q.list, mp, "QUIETS", at) /\ n = Len(L)
    <3>1. \A i \in 1..(at - 1) : mp.list[i].move \notin M
      <4>1. ASSUME NEW i \in 1..n0
            PROVE  mp.list[i].move \in generate(mp.pos, "CAPTURES")
        <5>1. mp.list[i] \in Scored(mp, "CAPTURES")
          BY <1>1, ElementOfSeq
        <5>. QED BY <5>1 DEF Scored, ExtMove
      <4>2. generate(mp.pos, "CAPTURES") \cap M = {}
        BY <1>1 DEF Known
      <4>. QED BY <1>1, <1>2, <4>1, <4>2
    <3>2. at \in 1..(Len(mp.list) + 1) /\ "QUIETS" \in TypesOf(mp.pos)
      BY <1>1, <1>2, <1>3
    <3>. DEFINE type == "QUIETS"
    <3>. HIDE DEF at
    <3>3. Known(mp.pos, mp.history) /\ mp.list \in Seq(Entries(mp)) /\ OnceEach(mp.list) /\ type \in TypesOf(mp.pos)
          /\ at \in 1..(Len(mp.list) + 1) /\ \A i \in 1..(at - 1) : mp.list[i].move \notin generate(mp.pos, type)
      BY <1>1, <3>1, <3>2
    <3>. HIDE DEF type
    <3>4. LET t == partial_insertion_sort(Generated(mp, type, at), at, Len(Generated(mp, type, at)) + 1, limit)
          IN  NewList(t, mp, type, at) /\ Len(t) = Len(Generated(mp, type, at))
      BY <3>3, SortedList
    <3>. QED BY <2>2, <2>4, <3>4 DEF L, type
  <2>6. /\ q.list \in Seq(Entries(mp)) /\ OnceEach(q.list) /\ n \in Nat /\ at <= n + 1
        /\ \A i \in 1..n0 : q.list[i] = mp.list[i]
        /\ \A i \in at..n : q.list[i] \in Scored(mp, "QUIETS") /\ q.list[i].move \in M
        /\ \A m \in M : \E i \in at..n : q.list[i].move = m
    <3>1. 1..(at - 1) = 1..n0
      BY <1>1, <1>2
    <3>. QED BY <2>5, <3>1 DEF NewList
  <2>7. /\ SamePicker(q, mp) /\ IsPicker(q) /\ q.move = mp.move /\ q.stage = "GOOD_QUIET" /\ q.cur = n0 + 1
        /\ q.endCur = n + 1 /\ q.endGenerated = n + 1 /\ q.endCaptures = n0 + 1
        /\ q.endBadCaptures = mp.endBadCaptures
    BY <1>1, <2>2, <2>4, <2>5 DEF SamePicker
  <2>. HIDE DEF n, M
  <2>8. /\ Entries(q) = Entries(mp) /\ q.pos = mp.pos /\ q.ttMove = mp.ttMove /\ q.skipQuiets = mp.skipQuiets
    BY <2>7, SameEntries
  <2>9. \A i \in at..n : q.list[i].value \in Int
    <3>1. \A e \in Scored(mp, "QUIETS") : e.value \in Int
      BY <1>1 DEF Scored, ExtMove, Known
    <3>. QED BY <2>6, <3>1
  <2>10. Running(q)
    <3>1. InStage(q)
      <4>1. n0 + 1 \in 1..(n + 1) /\ mp.endBadCaptures \in 1..(n0 + 1) /\ n0 + 1 \in (n0 + 1)..(n + 1)
        BY <1>1, <1>2, <2>6
      <4>2. QuietsFrom(q, n0 + 1)
        BY <1>1, <2>6, <2>8, <2>9 DEF QuietsFrom, M, n
      <4>. QED BY <2>7, <4>1, <4>2 DEF InStage, n
    <3>2. q.stage \in Stages /\ q.stage \notin HashOnes /\ q.stage \notin EvasionOnes
      BY <2>7 DEF Stages, Emitting, HashOnes, EvasionOnes
    <3>. QED BY <1>1, <2>6, <2>7, <2>8, <3>1, <3>2 DEF Running
  <2>11. Places(q) = AtFront(mp) \cup {i \in at..n : NotHash(q, i)}
    <3>1. Current(q) = at..n /\ q.endCaptures..(q.endGenerated - 1) = at..n
      BY <1>1, <1>2, <2>6, <2>7 DEF Current
    <3>2. \A i \in at..n : High(q, i) \/ Low(q, i)
      BY <2>9 DEF High, Low, goodQuietThreshold
    <3>3. \A i \in 1..(mp.endBadCaptures - 1) : i \in 1..n0
      BY <1>1, <1>2
    <3>4. \A i \in 1..(mp.endBadCaptures - 1) : NotHash(q, i) <=> NotHash(mp, i)
      BY <2>6, <2>8, <3>3 DEF NotHash
    <3>5. Ahead(q) = 1..(mp.endBadCaptures - 1) \cup at..n
      BY <1>6, <2>7, <2>8, <3>1, <3>2 DEF Ahead, BadQuiets
    <3>. QED BY <3>4, <3>5 DEF Places, AtFront
  <2>12. MovesAt(q.list, AtFront(mp)) = MovesAt(mp.list, AtFront(mp))
    <3>1. \A i \in AtFront(mp) : q.list[i] = mp.list[i]
      BY <1>1, <1>2, <2>6 DEF AtFront
    <3>. QED BY <3>1 DEF MovesAt
  <2>13. MovesAt(q.list, {i \in at..n : NotHash(q, i)}) = M \ {mp.ttMove}
    BY <2>6, <2>8 DEF MovesAt, NotHash
  <2>14. Later(q) = {} /\ Later(mp) = M \ {mp.ttMove}
    BY <1>4, <1>6, <2>7 DEF Later, ToGenerate, HashOnes, QuietsLeft, M
  <2>15. Coming(q) = Coming(mp)
    <3>1. MovesAt(q.list, Places(q)) = MovesAt(q.list, AtFront(mp)) \cup MovesAt(q.list, {i \in at..n : NotHash(q, i)})
      BY <2>11 DEF MovesAt
    <3>. QED BY <1>4, <2>12, <2>13, <2>14, <3>1 DEF Coming
  <2>. QED BY <1>3, <2>1, <2>7, <2>10, <2>15 DEF StageBegun
<1>. QED BY <1>1, <1>5, <1>6

\* A picker with no list to begin stays.
LEMMA StageBegins ==
    ASSUME NEW mp, Running(mp), Known(mp.pos, mp.history), mp.stage \notin HashOnes
    PROVE  StageBegun(Initialised(mp), mp) /\ InitStage(mp.stage) \in Emitting
<1>1. mp.stage \in InitOnes \cup {"QUIET_INIT"} \cup Emitting
  BY DEF Running, Stages
<1>2. InitStage(mp.stage) \in Emitting
  BY <1>1 DEF InitStage, InitOnes, Emitting, Endings
<1>3. CASE mp.stage \in Emitting
  <2>1. Initialised(mp) = mp /\ InitStage(mp.stage) = mp.stage
    BY <1>3 DEF Initialised, InitStage, CaptureStages, Emitting, Endings
  <2>2. SamePicker(mp, mp)
    BY DEF SamePicker, Running
  <2>. QED BY <1>2, <2>1, <2>2 DEF StageBegun
<1>. QED BY <1>1, <1>2, <1>3, FirstListBegins, QuietsBegin

\* Every stage emits one of the moves that are coming, or leads on.
LEMMA StageEmits ==
    ASSUME NEW mp, Running(mp), Known(mp.pos, mp.history), mp.stage \in Emitting
    PROVE  Emits(Stage(mp), mp)
BY GoodCapturePicks, GoodQuietPicks, BadCapturePicks, EndingStage DEF Emitting

\* The picker q has emitted one of the moves that were coming to mp, or has none yet and
\* is at one of the stages A, or at the end with none left.
Emitted(q, mp, A) ==
    /\ Running(q) /\ SamePicker(q, mp) /\ q.stage \notin HashOnes
    /\ q.stage \in ProbCutOnes <=> mp.stage \in ProbCutOnes
    /\ q.move # NoMove => q.move \in Coming(mp) /\ Coming(q) = Coming(mp) \ {q.move}
    /\ q.move = NoMove => Coming(q) = Coming(mp) /\ (q.stage \in A \/ (q.stage \in Endings /\ Coming(mp) = {}))

\* A stage begins, if it has not yet, and emits or leads on.
LEMMA StepEmits ==
    ASSUME NEW mp, Running(mp), Known(mp.pos, mp.history), mp.stage \notin HashOnes,
           NEW A, StageAfter(InitStage(mp.stage)) \in A \/ InitStage(mp.stage) \in Endings
    PROVE  Emitted(Stage(Initialised(mp)), mp, A)
<1>. DEFINE x == Initialised(mp)
            q == Stage(x)
            s == InitStage(mp.stage)
<1>1. StageBegun(x, mp) /\ s \in Emitting
  BY StageBegins
<1>. HIDE DEF x
<1>2. Running(x) /\ SamePicker(x, mp) /\ Coming(x) = Coming(mp) /\ x.stage = s
  BY <1>1 DEF StageBegun
<1>3. Known(x.pos, x.history)
  BY <1>2 DEF SamePicker
<1>4. Emits(q, x)
  BY <1>1, <1>2, <1>3, StageEmits
<1>. HIDE DEF q
<1>5. Running(q) /\ SamePicker(q, mp)
  BY <1>2, <1>4 DEF Emits, SamePicker
<1>6. q.stage \in {s, StageAfter(s)}
  BY <1>2, <1>4 DEF Emits
<1>7. mp.stage \in InitOnes \cup {"QUIET_INIT"} \cup Emitting
  BY DEF Running, Stages
<1>8. q.stage \notin HashOnes /\ (q.stage \in ProbCutOnes <=> mp.stage \in ProbCutOnes)
  BY <1>6, <1>7 DEF InitStage, StageAfter, InitOnes, Emitting, Endings, HashOnes, ProbCutOnes
<1>9. s \in Endings => StageAfter(s) \in Endings
  BY DEF StageAfter, Endings
<1>. HIDE DEF s
<1>10. q.move # NoMove => q.move \in Coming(mp) /\ Coming(q) = Coming(mp) \ {q.move}
  BY <1>2, <1>4 DEF Emits
<1>11. q.move = NoMove => Coming(q) = Coming(mp) /\ (q.stage \in A \/ (q.stage \in Endings /\ Coming(mp) = {}))
  <2>1. q.move = NoMove => Coming(q) = Coming(mp) /\ q.stage = StageAfter(s) /\ (s \in Endings => Coming(mp) = {})
    BY <1>2, <1>4 DEF Emits
  <2>2. StageAfter(s) \in A \/ s \in Endings
    BY DEF s
  <2>. QED BY <1>9, <2>1, <2>2
<1>. QED BY <1>5, <1>8, <1>10, <1>11 DEF Emitted, q, x

\* Without a move yet, a picker falls through to the next stage.
LEMMA FurtherEmits ==
    ASSUME NEW mp, Known(mp.pos, mp.history), NEW x, NEW A \in SUBSET {"QUIET_INIT", "BAD_CAPTURE", "BAD_QUIET"},
           Emitted(x, mp, A), NEW B,
           "QUIET_INIT" \in A => "BAD_CAPTURE" \in B, "BAD_CAPTURE" \in A => "BAD_QUIET" \in B
    PROVE  Emitted(Further(x), mp, B)
<1>1. CASE x.move # NoMove
  <2>1. Further(x) = x
    BY <1>1 DEF Further
  <2>. QED BY <1>1, <2>1 DEF Emitted
<1>2. CASE x.move = NoMove /\ x.stage \in {"EVASION", "QCAPTURE", "PROBCUT"}
  <2>1. Further(x) = x
    BY <1>2 DEF Further
  <2>2. x.stage \notin A
    BY <1>2
  <2>. QED BY <1>2, <2>1, <2>2 DEF Emitted
<1>3. CASE x.move = NoMove /\ x.stage \notin {"EVASION", "QCAPTURE", "PROBCUT"}
  <2>. DEFINE q == Stage(Initialised(x))
  <2>1. Further(x) = q
    BY <1>3 DEF Further
  <2>2. Running(x) /\ SamePicker(x, mp) /\ x.stage \notin HashOnes /\ Coming(x) = Coming(mp)
        /\ (x.stage \in ProbCutOnes <=> mp.stage \in ProbCutOnes)
    BY <1>3 DEF Emitted
  <2>3. Known(x.pos, x.history)
    BY <2>2 DEF SamePicker
  <2>4. x.stage \in A \/ x.stage = "BAD_QUIET"
    BY <1>3 DEF Emitted, Endings
  <2>5. StageAfter(InitStage(x.stage)) \in B \/ InitStage(x.stage) \in Endings
    <3>1. CASE x.stage = "QUIET_INIT"
      BY <2>4, <3>1 DEF StageAfter, InitStage
    <3>2. CASE x.stage = "BAD_CAPTURE"
      BY <2>4, <3>2 DEF StageAfter, InitStage
    <3>3. CASE x.stage = "BAD_QUIET"
      BY <3>3 DEF InitStage, Endings
    <3>. QED BY <2>4, <3>1, <3>2, <3>3
  <2>6. Emitted(q, x, B)
    BY <2>2, <2>3, <2>5, StepEmits
  <2>. HIDE DEF q
  <2>7. SamePicker(q, mp)
    BY <2>2, <2>6 DEF Emitted, SamePicker
  <2>. QED BY <2>1, <2>2, <2>6, <2>7 DEF Emitted
<1>. QED BY <1>1, <1>2, <1>3

\* next_move emits one of the moves that are coming, or none when there is none left.
LEMMA NextMoveIs ==
    ASSUME NEW mp, Running(mp), Known(mp.pos, mp.history)
    PROVE  LET q == next_move(mp)
           IN  /\ Running(q) /\ SamePicker(q, mp)
               /\ q.stage \in ProbCutOnes <=> mp.stage \in ProbCutOnes
               /\ q.move # NoMove => q.move \in Coming(mp) /\ Coming(q) = Coming(mp) \ {q.move}
               /\ q.move = NoMove => Coming(mp) = {} /\ Coming(q) = {} /\ q.stage \in Endings
<1>. DEFINE q == next_move(mp)
<1>0. IsPicker(mp) /\ DOMAIN HashStages = HashOnes
  BY DEF Running, HashStages, HashOnes
<1>1. CASE mp.stage \in HashOnes
  <2>. DEFINE s == HashStages[mp.stage]
              m == mp.ttMove
  <2>1. q = [mp EXCEPT !.stage = s, !.move = m]
    BY <1>0, <1>1 DEF next_move
  <2>. HIDE DEF q, s, m
  <2>2. SamePicker(q, mp) /\ ListKept(q, mp) /\ q.move = m /\ q.stage = s
    BY <1>0, <2>1 DEF IsPicker, PickerFields, SamePicker, ListKept
  <2>3. /\ q.stage \in InitOnes /\ q.stage \notin HashOnes /\ q.stage \in Stages
        /\ q.stage \in EvasionOnes <=> mp.stage \in EvasionOnes
        /\ q.stage \in ProbCutOnes <=> mp.stage \in ProbCutOnes
    BY <1>1, <2>2 DEF s, HashStages, HashOnes, InitOnes, EvasionOnes, ProbCutOnes, Stages
  <2>4. Running(q)
    <3>1. InStage(q)
      BY <2>3 DEF InStage, InitOnes
    <3>. QED BY <2>2, <2>3, <3>1, StillRunning
  <2>5. ToGenerate(q) = ToGenerate(mp)
    <3>1. q.pos = mp.pos /\ q.threshold = mp.threshold /\ QuietsLeft(q) = QuietsLeft(mp)
      BY <2>2, SameEntries
    <3>. QED BY <1>1, <2>2, <3>1 DEF ToGenerate, s, HashStages, HashOnes
  <2>6. Later(mp) = (ToGenerate(mp) \ {m}) \cup {m} /\ Later(q) = ToGenerate(mp) \ {m}
    <3>1. q.ttMove = m
      BY <2>2 DEF SamePicker, m
    <3>. QED BY <1>1, <2>3, <2>5, <3>1 DEF Later, m
  <2>7. Places(mp) = {} /\ Places(q) = {}
    BY <1>1, <2>3 DEF Places, Ahead, HashOnes, InitOnes
  <2>8. Coming(mp) = (ToGenerate(mp) \ {m}) \cup {m} /\ Coming(q) = ToGenerate(mp) \ {m}
    BY <2>6, <2>7 DEF Coming, MovesAt
  <2>9. m # NoMove
    BY <1>1 DEF Running, m
  <2>10. q.move \in Coming(mp) /\ Coming(q) = Coming(mp) \ {q.move}
    BY <2>2, <2>8
  <2>. QED BY <2>2, <2>3, <2>4, <2>9, <2>10 DEF q
<1>2. CASE mp.stage \notin HashOnes
  <2>. DEFINE x == [mp EXCEPT !.move = NoMove]
              y == Stage(Initialised(x))
              A1 == {"QUIET_INIT", "BAD_CAPTURE", "BAD_QUIET"}
              A2 == {"BAD_CAPTURE", "BAD_QUIET"}
              A3 == {"BAD_QUIET"}
  <2>1. q = Further(Further(Further(y)))
    BY <1>0, <1>2 DEF next_move
  <2>2. SamePicker(x, mp) /\ ListKept(x, mp) /\ x.stage = mp.stage /\ x.cur = mp.cur /\ x.endCur = mp.endCur
    BY <1>0, MoveSet
  <2>. HIDE DEF x
  <2>3. Running(x)
    <3>1. /\ x.list = mp.list /\ x.endBadCaptures = mp.endBadCaptures /\ x.skipQuiets = mp.skipQuiets
          /\ x.endCaptures = mp.endCaptures /\ x.endGenerated = mp.endGenerated
          /\ Scored(x, "CAPTURES") = Scored(mp, "CAPTURES")
      BY <2>2, SameEntries DEF ListKept
    <3>2. \A i : QuietsFrom(x, i) <=> QuietsFrom(mp, i)
      BY <2>2, <3>1 DEF QuietsFrom, SamePicker
    <3>3. InStage(mp)
      BY DEF Running
    <3>4. InStage(x)
      BY <2>2, <3>1, <3>2, <3>3 DEF InStage
    <3>. QED BY <1>2, <2>2, <3>4, StillRunning DEF Running
  <2>4. Coming(x) = Coming(mp)
    <3>1. /\ x.list = mp.list /\ x.endBadCaptures = mp.endBadCaptures /\ x.skipQuiets = mp.skipQuiets
          /\ x.pos = mp.pos /\ x.threshold = mp.threshold /\ x.ttMove = mp.ttMove
          /\ QuietsLeft(x) = QuietsLeft(mp) /\ BadQuiets(x) = BadQuiets(mp)
          /\ \A i : /\ NotHash(x, i) <=> NotHash(mp, i)
                    /\ High(x, i) <=> High(mp, i)
                    /\ Low(x, i) <=> Low(mp, i)
      BY <2>2, SameEntries, KeptPlaces DEF ListKept
    <3>2. Current(x) = Current(mp)
      BY <2>2 DEF Current
    <3>3. Ahead(x) = Ahead(mp)
      BY <2>2, <3>1, <3>2 DEF Ahead
    <3>4. Places(x) = Places(mp)
      BY <3>1, <3>3 DEF Places
    <3>5. Later(x) = Later(mp)
      BY <2>2, <3>1 DEF Later, ToGenerate
    <3>. QED BY <3>1, <3>4, <3>5 DEF Coming
  <2>5. Emitted(y, mp, A1)
    <3>1. Known(x.pos, x.history)
      BY <2>2 DEF SamePicker
    <3>2. StageAfter(InitStage(x.stage)) \in A1 \/ InitStage(x.stage) \in Endings
      <4>1. x.stage \in InitOnes \cup {"QUIET_INIT"} \cup Emitting
        BY <1>2, <2>2 DEF Running, Stages
      <4>. QED BY <4>1 DEF StageAfter, InitStage, InitOnes, Emitting, Endings
    <3>3. Emitted(y, x, A1)
      <4>. HIDE DEF A1
      <4>. QED BY <1>2, <2>2, <2>3, <3>1, <3>2, StepEmits
    <3>. HIDE DEF y, A1
    <3>4. SamePicker(y, mp)
      BY <2>2, <3>3 DEF Emitted, SamePicker
    <3>. QED BY <2>2, <2>4, <3>3, <3>4 DEF Emitted
  <2>. HIDE DEF y
  <2>6. Emitted(Further(y), mp, A2)
    BY <2>5, FurtherEmits
  <2>7. Emitted(Further(Further(y)), mp, A3)
    BY <2>6, FurtherEmits
  <2>8. Emitted(Further(Further(Further(y))), mp, {})
    BY <2>7, FurtherEmits
  <2>9. Emitted(q, mp, {})
    BY <2>1, <2>8
  <2>. HIDE DEF q
  <2>10. /\ Running(q) /\ SamePicker(q, mp)
         /\ q.stage \in ProbCutOnes <=> mp.stage \in ProbCutOnes
         /\ q.move # NoMove => q.move \in Coming(mp) /\ Coming(q) = Coming(mp) \ {q.move}
         /\ q.move = NoMove => Coming(mp) = {} /\ Coming(q) = {} /\ q.stage \in Endings
    BY <2>9 DEF Emitted
  <2>. QED BY <2>10 DEF q
<1>. QED BY <1>1, <1>2

(* ---- The picker of a walk ---- *)

\* The quiet moves that skipping calls off, and the moves a picker is to emit.
QuietOnes(p) == {m \in PseudoLegal(p) : p.st.checkersBB = {} /\ ~capture_stage(p, m)}
Wanted(mp) ==
    IF mp.stage \in ProbCutOnes THEN {m \in PseudoLegal(mp.pos) \ QuietOnes(mp.pos) : see_ge(mp.pos, m, mp.threshold)}
    ELSE IF mp.depth = 0 \/ mp.skipQuiets THEN PseudoLegal(mp.pos) \ QuietOnes(mp.pos)
    ELSE PseudoLegal(mp.pos)

\* What the picker relies on is so where a walk starts.
LEMMA StartIsKnown ==
    ASSUME NEW p, NEW h, Sound(p), Stands(p, p.sideToMove), \A m \in generate(p, "QUIETS") : h[m] \in Int
    PROVE  /\ Known(p, h) /\ PseudoLegal(p) \subseteq MoveCodes
           /\ p.st.checkersBB # {} => PseudoLegal(p) = generate(p, "EVASIONS") /\ QuietOnes(p) = {}
           /\ p.st.checkersBB = {} =>
                /\ PseudoLegal(p) = generate(p, "CAPTURES") \cup generate(p, "QUIETS")
                /\ generate(p, "CAPTURES") = PseudoLegal(p) \ QuietOnes(p)
                /\ generate(p, "QUIETS") = QuietOnes(p)
                /\ \A m \in generate(p, "CAPTURES") : capture_stage(p, m)
<1>0. IsFiniteSet(MoveCodes) /\ NoMove \notin MoveCodes
  BY CodesFinite
<1>1. CASE p.st.checkersBB # {}
  <2>1. PseudoLegal(p) = generate(p, "EVASIONS") /\ QuietOnes(p) = {} /\ TypesOf(p) = {"EVASIONS"}
    BY <1>1 DEF PseudoLegal, QuietOnes, TypesOf
  <2>2. generate(p, "EVASIONS") \subseteq MoveCodes
    BY <1>1, GeneratedCodes
  <2>3. IsFiniteSet(generate(p, "EVASIONS"))
    BY <1>0, <2>2, FS_Subset
  <2>. QED BY <1>0, <1>1, <2>1, <2>2, <2>3 DEF Known
<1>2. CASE p.st.checkersBB = {}
  <2>. DEFINE A == generate(p, "NON_EVASIONS")
              C == generate(p, "CAPTURES")
              Q == generate(p, "QUIETS")
  <2>1. A \subseteq MoveCodes
    BY GeneratedCodes
  <2>2. Whole(p) /\ p.sideToMove \in Colors /\ (p.st.epSquare # SQ_NONE => p.st.epSquare \in Squares)
    BY DEF Sound, PassingKept
  <2>3. C = {m \in A : capture_stage(p, m)} /\ Q = {m \in A : ~capture_stage(p, m)}
    BY <2>2, StagesArePartition
  <2>4. PseudoLegal(p) = A /\ TypesOf(p) = {"CAPTURES", "QUIETS"}
    BY <1>2 DEF PseudoLegal, TypesOf
  <2>5. QuietOnes(p) = Q
    BY <1>2, <2>3, <2>4 DEF QuietOnes
  <2>6. ASSUME NEW m \in Q
        PROVE  score(p, h, "QUIETS", m) \in Int
    <3>1. m.from \in Squares
      BY <2>1, <2>3 DEF MoveCodes
    <3>2. PieceValue[p.board[m.from]] \in Int
      <4>1. p.board[m.from] \in Pieces \cup {NO_PIECE}
        BY <2>2, <3>1 DEF Whole, Boards
      <4>. QED BY <4>1, Values
    <3>3. \A T : Escapes(m, T) \in Int
      BY DEF Escapes
    <3>4. h[m] \in Int
      OBVIOUS
    <3>. DEFINE pt == type_of(p.board[m.from])
                v == PieceValue[p.board[m.from]]
                e == Escapes(m, ThreatByLesser(p, pt))
                b == IF m.to \in p.st.checkSquares[pt] /\ see_ge(p, m, -75) THEN 16384 ELSE 0
    <3>5. score(p, h, "QUIETS", m) = h[m] + b + v * 20 * e
      BY DEF score
    <3>6. v \in Int /\ e \in Int /\ b \in Int
      BY <3>2, <3>3
    <3>. HIDE DEF v, e, b
    <3>. QED BY <3>4, <3>5, <3>6
  <2>. HIDE DEF A, C, Q
  <2>7. IsFiniteSet(C) /\ IsFiniteSet(Q)
    BY <1>0, <2>1, <2>3, FS_Subset
  <2>8. Known(p, h)
    BY <1>0, <1>2, <2>1, <2>3, <2>4, <2>6, <2>7 DEF Known, C, Q
  <2>. QED BY <1>2, <2>1, <2>3, <2>4, <2>5, <2>8 DEF C, Q
<1>. QED BY <1>1, <1>2

\* A hash move is used if it is one of the position's.
LEMMA HashMoveTested ==
    ASSUME NEW p, Sound(p), Stands(p, p.sideToMove), NEW m \in {NoMove} \cup MoveCodes, m # NoMove
    PROVE  pseudo_legal(p, m) <=> m \in PseudoLegal(p)
<1>1. m \in MoveCodes
  OBVIOUS
<1>2. m.type = "NORMAL" => m.from \in Squares /\ m.to \in Squares /\ m = Move(m.from, m.to)
  <2>1. m.from \in Squares /\ m.to \in Squares
    BY <1>1 DEF MoveCodes
  <2>2. m = [from |-> m.from, to |-> m.to, type |-> m.type, promotion |-> m.promotion]
        /\ (m.type # "PROMOTION" => m.promotion = KNIGHT)
    BY <1>1 DEF MoveCodes
  <2>. QED BY <2>1, <2>2 DEF Move
<1>. QED BY <1>2, HashTestIs

\* A new picker has all the moves wanted still to come, and at depth 0 no other but the hash move.
LEMMA PickerStarts ==
    ASSUME NEW p, NEW h, Sound(p), Stands(p, p.sideToMove), \A m \in generate(p, "QUIETS") : h[m] \in Int,
           NEW ttm \in {NoMove} \cup MoveCodes, NEW mp,
           mp \in {MovePicker(p, ttm, 2, h), MovePicker(p, ttm, 0, h)}
             \cup (IF p.st.checkersBB = {} THEN {ProbCutPicker(p, ttm, 100, h)} ELSE {})
    PROVE  /\ Running(mp) /\ mp.pos = p /\ mp.history = h
           /\ Coming(mp) \subseteq PseudoLegal(p) /\ Wanted(mp) \subseteq Coming(mp)
           /\ mp.depth = 0 => Coming(mp) \subseteq Wanted(mp) \cup {mp.ttMove}
           /\ mp.stage \in ProbCutOnes => mp.depth = 0
<1>. DEFINE All == PseudoLegal(p)
            C == generate(p, "CAPTURES")
<1>1. PICK depth, threshold, stage :
        /\ depth \in {0, 2} /\ mp = Picker(p, ttm, depth, threshold, h, stage)
        /\ \/ stage = FirstStage(p, ttm # NoMove /\ pseudo_legal(p, ttm), depth)
           \/ /\ p.st.checkersBB = {} /\ depth = 0
              /\ stage = IF ttm # NoMove /\ capture_stage(p, ttm) /\ pseudo_legal(p, ttm) THEN "PROBCUT_TT" ELSE "PROBCUT_INIT"
  <2>1. CASE mp \in {MovePicker(p, ttm, 2, h), MovePicker(p, ttm, 0, h)}
    BY <2>1 DEF MovePicker
  <2>2. CASE p.st.checkersBB = {} /\ mp = ProbCutPicker(p, ttm, 100, h)
    <3>1. mp = Picker(p, ttm, 0, 100, h, IF ttm # NoMove /\ capture_stage(p, ttm) /\ pseudo_legal(p, ttm)
                                         THEN "PROBCUT_TT" ELSE "PROBCUT_INIT")
      BY <2>2, Zenon DEF ProbCutPicker
    <3>. QED BY <2>2, <3>1
  <2>. QED BY <2>1, <2>2
<1>2. /\ IsPicker(mp) /\ mp.pos = p /\ mp.history = h /\ mp.ttMove = ttm /\ mp.depth = depth /\ mp.threshold = threshold
      /\ mp.stage = stage /\ mp.list = <<>> /\ mp.skipQuiets = FALSE
  BY <1>1 DEF Picker, IsPicker, PickerFields
<1>3. /\ Known(p, h) /\ All \subseteq MoveCodes
      /\ p.st.checkersBB # {} => All = generate(p, "EVASIONS") /\ QuietOnes(p) = {}
      /\ p.st.checkersBB = {} =>
           /\ All = C \cup generate(p, "QUIETS")
           /\ C = All \ QuietOnes(p)
           /\ \A m \in C : capture_stage(p, m)
  BY StartIsKnown
<1>4. ttm # NoMove => (pseudo_legal(p, ttm) <=> ttm \in All)
  BY HashMoveTested
<1>. HIDE DEF All, C
<1>5. NoMove \notin All
  BY <1>3, CodesFinite
<1>6. /\ stage \in HashOnes \cup InitOnes
      /\ stage \in EvasionOnes <=> p.st.checkersBB # {}
      /\ stage \in HashOnes => ttm # NoMove /\ ttm \in All
      /\ stage \in {"MAIN_TT", "CAPTURE_INIT"} => depth = 2
      /\ stage \in {"QSEARCH_TT", "QCAPTURE_INIT"} \cup ProbCutOnes => depth = 0
      /\ stage \in {"MAIN_TT", "EVASION_TT", "QSEARCH_TT", "CAPTURE_INIT", "EVASION_INIT", "QCAPTURE_INIT"} =>
           (stage \in HashOnes <=> ttm # NoMove /\ ttm \in All)
      /\ stage \in {"PROBCUT_TT", "PROBCUT_INIT"} =>
           (stage \in HashOnes <=> ttm # NoMove /\ ttm \in All /\ capture_stage(p, ttm))
  BY <1>1, <1>4 DEF FirstStage, HashOnes, InitOnes, EvasionOnes, ProbCutOnes
<1>7. Running(mp)
  <2>1. <<>> \in Seq(Entries(mp)) /\ OnceEach(<<>>)
    BY DEF OnceEach
  <2>2. InStage(mp)
    BY <1>2, <1>6 DEF InStage, HashOnes, InitOnes
  <2>. QED BY <1>2, <1>6, <2>1, <2>2 DEF Running, Stages
<1>8. Coming(mp) = (ToGenerate(mp) \ {ttm}) \cup (IF stage \in HashOnes THEN {ttm} ELSE {})
  <2>1. Places(mp) = {}
    BY <1>2, <1>6 DEF Places, Ahead, HashOnes, InitOnes
  <2>. QED BY <1>2, <2>1 DEF Coming, MovesAt, Later
<1>9. QuietsLeft(mp) = generate(p, "QUIETS")
  BY <1>2 DEF QuietsLeft
<1>10. CASE stage \in {"EVASION_TT", "EVASION_INIT"}
  <2>1. ToGenerate(mp) = All
    BY <1>2, <1>3, <1>6, <1>10 DEF ToGenerate, EvasionOnes
  <2>2. Wanted(mp) = All
    BY <1>2, <1>3, <1>6, <1>10 DEF Wanted, ProbCutOnes, EvasionOnes, All
  <2>3. Coming(mp) = All
    BY <1>5, <1>6, <1>8, <1>10, <2>1
  <2>4. stage \notin ProbCutOnes
    BY <1>10 DEF ProbCutOnes
  <2>. QED BY <1>2, <1>7, <2>2, <2>3, <2>4 DEF All
<1>11. CASE stage \in {"MAIN_TT", "CAPTURE_INIT"}
  <2>1. p.st.checkersBB = {}
    BY <1>6, <1>11 DEF EvasionOnes
  <2>2. ToGenerate(mp) = All
    BY <1>2, <1>3, <1>9, <1>11, <2>1 DEF ToGenerate, C
  <2>3. Wanted(mp) = All /\ mp.depth = 2
    BY <1>2, <1>6, <1>11 DEF Wanted, ProbCutOnes, All
  <2>4. Coming(mp) = All
    BY <1>5, <1>6, <1>8, <1>11, <2>2
  <2>5. stage \notin ProbCutOnes
    BY <1>11 DEF ProbCutOnes
  <2>. QED BY <1>2, <1>7, <2>3, <2>4, <2>5 DEF All
<1>12. CASE stage \in {"QSEARCH_TT", "QCAPTURE_INIT"}
  <2>1. p.st.checkersBB = {}
    BY <1>6, <1>12 DEF EvasionOnes
  <2>2. ToGenerate(mp) = C /\ C \subseteq All
    BY <1>2, <1>3, <1>12, <2>1 DEF ToGenerate, C
  <2>3. Wanted(mp) = C
    BY <1>2, <1>3, <1>6, <1>12, <2>1 DEF Wanted, ProbCutOnes, All
  <2>4. Coming(mp) \subseteq All /\ C \subseteq Coming(mp) /\ Coming(mp) \subseteq C \cup {ttm}
    BY <1>5, <1>6, <1>8, <1>12, <2>2
  <2>5. stage \notin ProbCutOnes
    BY <1>12 DEF ProbCutOnes
  <2>. QED BY <1>2, <1>7, <2>3, <2>4, <2>5 DEF All
<1>13. CASE stage \in {"PROBCUT_TT", "PROBCUT_INIT"}
  <2>1. p.st.checkersBB = {} /\ stage \in ProbCutOnes
    BY <1>6, <1>13 DEF EvasionOnes, ProbCutOnes
  <2>2. ToGenerate(mp) = {m \in C : see_ge(p, m, threshold)} /\ C \subseteq All
    BY <1>2, <1>3, <1>13, <2>1 DEF ToGenerate, C
  <2>3. Wanted(mp) = {m \in C : see_ge(p, m, threshold)}
    BY <1>2, <1>3, <2>1 DEF Wanted, All
  <2>4. Coming(mp) \subseteq All /\ Wanted(mp) \subseteq Coming(mp) /\ Coming(mp) \subseteq Wanted(mp) \cup {ttm}
    <3>1. ttm \in C => ttm # NoMove /\ ttm \in All /\ capture_stage(p, ttm)
      BY <1>3, <1>5, <2>1, <2>2
    <3>. QED BY <1>6, <1>8, <1>13, <2>2, <2>3, <3>1
  <2>. QED BY <1>2, <1>6, <1>7, <2>1, <2>4 DEF All
<1>. QED BY <1>6, <1>10, <1>11, <1>12, <1>13 DEF HashOnes, InitOnes

\* When quiet moves are skipped, only quiet moves are lost.
LEMMA SkippingLoses ==
    ASSUME NEW mp, Running(mp), ~mp.skipQuiets
    PROVE  LET q == skip_quiet_moves(mp)
           IN  /\ Running(q) /\ q.pos = mp.pos /\ q.history = mp.history /\ q.ttMove = mp.ttMove /\ q.depth = mp.depth
               /\ q.stage = mp.stage /\ q.skipQuiets /\ q.threshold = mp.threshold
               /\ Coming(q) \subseteq Coming(mp)
               /\ Coming(mp) \ Coming(q) \subseteq generate(mp.pos, "QUIETS")
<1>. DEFINE q == skip_quiet_moves(mp)
            Q == generate(mp.pos, "QUIETS")
<1>1. q = [mp EXCEPT !.skipQuiets = TRUE] /\ IsPicker(mp)
  BY DEF skip_quiet_moves, Running
<1>. HIDE DEF q
<1>2. /\ IsPicker(q) /\ q.pos = mp.pos /\ q.history = mp.history /\ q.ttMove = mp.ttMove /\ q.depth = mp.depth
      /\ q.stage = mp.stage /\ q.skipQuiets = TRUE /\ q.threshold = mp.threshold
      /\ q.list = mp.list /\ q.cur = mp.cur /\ q.endCur = mp.endCur /\ q.endBadCaptures = mp.endBadCaptures
      /\ q.endCaptures = mp.endCaptures /\ q.endGenerated = mp.endGenerated
  BY <1>1 DEF IsPicker, PickerFields
<1>3. Entries(q) = Entries(mp) /\ Scored(q, "CAPTURES") = Scored(mp, "CAPTURES")
  BY <1>2 DEF Entries, Scored
<1>4. Running(q)
  <2>1. InStage(mp)
    BY DEF Running
  <2>2. InStage(q)
    BY <1>2, <1>3, <2>1 DEF InStage
  <2>. QED BY <1>2, <1>3, <2>2 DEF Running
<1>5. /\ \A i : NotHash(q, i) <=> NotHash(mp, i)
      /\ Current(q) = Current(mp) /\ BadQuiets(q) = {} /\ QuietsLeft(q) = {} /\ QuietsLeft(mp) = Q
  BY <1>2 DEF NotHash, Current, BadQuiets, QuietsLeft
<1>6. Later(q) \subseteq Later(mp) /\ Later(mp) \ Later(q) \subseteq Q
  <2>1. ToGenerate(q) \subseteq ToGenerate(mp) /\ ToGenerate(mp) \ ToGenerate(q) \subseteq Q
    <3>. HIDE DEF Q
    <3>. QED BY <1>2, <1>5 DEF ToGenerate
  <2>. QED BY <1>2, <2>1 DEF Later
<1>7. Ahead(q) \subseteq Ahead(mp)
  BY <1>2, <1>5 DEF Ahead
<1>8. ASSUME NEW i \in Ahead(mp) \ Ahead(q)
      PROVE  mp.list[i].move \in Q
  <2>1. /\ mp.stage = "GOOD_QUIET" => i \in Current(mp) \cup BadQuiets(mp)
        /\ mp.stage = "BAD_CAPTURE" => i \in BadQuiets(mp)
        /\ mp.stage = "BAD_QUIET" => i \in Current(mp)
        /\ mp.stage \in {"GOOD_QUIET", "BAD_CAPTURE", "BAD_QUIET"}
    <3>1. ASSUME mp.stage \notin {"GOOD_QUIET", "BAD_CAPTURE", "BAD_QUIET"}
          PROVE  Ahead(q) = Ahead(mp)
      <4>1. \A k : q.list[k] = mp.list[k]
        BY <1>2
      <4>. QED BY <1>2, <1>5, <3>1, <4>1 DEF Ahead
    <3>2. mp.stage = "GOOD_QUIET" => i \in Current(mp) \cup BadQuiets(mp)
      BY <1>2, <1>5 DEF Ahead
    <3>3. mp.stage = "BAD_CAPTURE" => i \in BadQuiets(mp)
      BY <1>2, <1>5 DEF Ahead
    <3>4. mp.stage = "BAD_QUIET" => i \in Current(mp)
      BY <1>2, <1>5 DEF Ahead
    <3>. QED BY <3>1, <3>2, <3>3, <3>4
  <2>2. Len(mp.list) \in Nat
    BY LenProperties DEF Running
  <2>3. CASE mp.stage = "GOOD_QUIET"
    <3>1. /\ mp.endCaptures \in 1..(Len(mp.list) + 1) /\ mp.cur \in mp.endCaptures..(Len(mp.list) + 1)
          /\ mp.endCur = Len(mp.list) + 1 /\ mp.endGenerated = Len(mp.list) + 1 /\ QuietsFrom(mp, mp.endCaptures)
      BY <2>3 DEF Running, InStage
    <3>2. i \in mp.endCaptures..Len(mp.list)
      BY <2>1, <2>2, <2>3, <3>1 DEF Current, BadQuiets
    <3>. QED BY <3>1, <3>2 DEF QuietsFrom
  <2>4. CASE mp.stage = "BAD_CAPTURE"
    <3>1. /\ mp.endCaptures \in 1..(Len(mp.list) + 1) /\ mp.endGenerated = Len(mp.list) + 1
          /\ QuietsFrom(mp, mp.endCaptures)
      BY <2>4 DEF Running, InStage
    <3>2. i \in mp.endCaptures..Len(mp.list)
      BY <2>1, <2>2, <2>4, <3>1 DEF BadQuiets
    <3>. QED BY <3>1, <3>2 DEF QuietsFrom
  <2>5. CASE mp.stage = "BAD_QUIET"
    <3>1. mp.cur \in 1..(Len(mp.list) + 1) /\ mp.endCur = Len(mp.list) + 1 /\ QuietsFrom(mp, mp.cur)
      BY <2>5 DEF Running, InStage
    <3>2. i \in mp.cur..Len(mp.list)
      BY <2>1, <2>2, <2>5, <3>1 DEF Current
    <3>. QED BY <3>1, <3>2 DEF QuietsFrom
  <2>. QED BY <2>1, <2>3, <2>4, <2>5
<1>9. Coming(q) \subseteq Coming(mp)
  BY <1>2, <1>5, <1>6, <1>7 DEF Coming, MovesAt, Places
<1>10. Coming(mp) \ Coming(q) \subseteq Q
  <2>. SUFFICES ASSUME NEW m \in Coming(mp), m \notin Coming(q)
                PROVE  m \in Q
    OBVIOUS
  <2>1. CASE m \in Later(mp)
    BY <1>6, <2>1 DEF Coming
  <2>2. CASE m \in MovesAt(mp.list, Places(mp))
    <3>1. PICK i \in Places(mp) : m = mp.list[i].move
      BY <2>2 DEF MovesAt
    <3>2. i \notin Places(q)
      BY <1>2, <3>1 DEF Coming, MovesAt
    <3>3. i \in Ahead(mp) \ Ahead(q)
      BY <1>5, <3>1, <3>2 DEF Places
    <3>. QED BY <1>8, <3>1, <3>3
  <2>. QED BY <2>1, <2>2 DEF Coming
<1>. QED BY <1>2, <1>4, <1>9, <1>10 DEF q

\* What a walk's picker has emitted, and how that stands to what is to come.
Gone == {emitted[i] : i \in 1..Len(emitted)} \ {NoMove}
PickerStands ==
    /\ \E S : emitted \in Seq(S)
    /\ \A i, j \in 1..Len(emitted) : emitted[i] = emitted[j] => i = j
    /\ \A i \in 1..Len(emitted) : emitted[i] = NoMove => i = Len(emitted)
    /\ picker = <<>> => emitted = <<>>
    /\ picker # <<>> =>
         /\ moves = <<>> /\ picker.pos = pos /\ picker.history = History(pos) /\ Running(picker)
         /\ Gone \cap Coming(picker) = {} /\ Gone \cup Coming(picker) \subseteq PseudoLegal(pos)
         /\ Wanted(picker) \subseteq Gone \cup Coming(picker)
         /\ picker.depth = 0 => Gone \cup Coming(picker) \subseteq Wanted(picker) \cup {picker.ttMove}
         /\ picker.stage \in ProbCutOnes => picker.depth = 0
         /\ emitted # <<>> /\ Last(emitted) = NoMove => Coming(picker) = {} /\ picker.stage \in Endings

\* A picker is not the empty one.
LEMMA PickerIsThere == \A mp : IsPicker(mp) => mp # <<>>
<1>. SUFFICES ASSUME NEW mp, IsPicker(mp), mp = <<>>
              PROVE  FALSE
  OBVIOUS
<1>1. DOMAIN mp = PickerFields
  BY DEF IsPicker
<1>2. DOMAIN mp = {}
  OBVIOUS
<1>. QED BY <1>1, <1>2 DEF PickerFields

\* Where a walk starts, the line gives what the picker relies on.
LEMMA StartOfLine ==
    ASSUME LineStands, KingsStand, moves = <<>>
    PROVE  /\ Sound(pos) /\ Stands(pos, pos.sideToMove)
           /\ \A m \in generate(pos, "QUIETS") : History(pos)[m] \in Int
           /\ HashMoves(pos) \subseteq {NoMove} \cup MoveCodes
<1>1. Sound(pos) /\ pos.sideToMove \in Colors
  BY LineIsSound DEF Sound
<1>2. Stands(pos, pos.sideToMove)
  BY <1>1 DEF KingsStand, Stands
<1>3. scenario \in Scenarios /\ pos = set(scenario.fen)
  <2>1. PICK line : Leads(line, Len(moves), moves, pos) /\ line[0] = set(scenario.fen)
    BY DEF LineStands
  <2>2. Len(moves) = 0
    OBVIOUS
  <2>. QED BY <2>1, <2>2 DEF Leads, LineStands
<1>. QED BY <1>1, <1>2, <1>3, PickAssumption

\* A new picker stands.
LEMMA PickStands ==
    ASSUME PickerStands, LineStands, KingsStand, Pick
    PROVE  PickerStands'
<1>1. picker = <<>> /\ moves = <<>> /\ emitted = <<>> /\ pos' = pos /\ moves' = moves /\ emitted' = emitted
  BY DEF Pick, PickerStands
<1>2. PICK ttm \in HashMoves(pos) :
         picker' \in {MovePicker(pos, ttm, 2, History(pos)), MovePicker(pos, ttm, 0, History(pos))}
            \cup (IF pos.st.checkersBB = {} THEN {ProbCutPicker(pos, ttm, 100, History(pos))} ELSE {})
  BY DEF Pick
<1>3. /\ Sound(pos) /\ Stands(pos, pos.sideToMove)
      /\ \A m \in generate(pos, "QUIETS") : History(pos)[m] \in Int
      /\ ttm \in {NoMove} \cup MoveCodes
  BY <1>1, <1>2, StartOfLine
<1>. DEFINE h == History(pos)
<1>4. /\ Running(picker') /\ picker'.pos = pos /\ picker'.history = h
      /\ Coming(picker') \subseteq PseudoLegal(pos) /\ Wanted(picker') \subseteq Coming(picker')
      /\ picker'.depth = 0 => Coming(picker') \subseteq Wanted(picker') \cup {picker'.ttMove}
      /\ picker'.stage \in ProbCutOnes => picker'.depth = 0
  <2>. DEFINE q == picker'
  <2>1. q \in {MovePicker(pos, ttm, 2, h), MovePicker(pos, ttm, 0, h)}
            \cup (IF pos.st.checkersBB = {} THEN {ProbCutPicker(pos, ttm, 100, h)} ELSE {})
    BY <1>2
  <2>2. \A m \in generate(pos, "QUIETS") : h[m] \in Int
    BY <1>3
  <2>. HIDE DEF q, h
  <2>3. /\ Running(q) /\ q.pos = pos /\ q.history = h
        /\ Coming(q) \subseteq PseudoLegal(pos) /\ Wanted(q) \subseteq Coming(q)
        /\ q.depth = 0 => Coming(q) \subseteq Wanted(q) \cup {q.ttMove}
        /\ q.stage \in ProbCutOnes => q.depth = 0
    BY <1>3, <2>1, <2>2, PickerStarts
  <2>. QED BY <2>3 DEF q
<1>5. Len(emitted) = 0 /\ emitted \in Seq({})
  BY <1>1
<1>6. Gone' = {} /\ picker' # <<>>
  BY <1>1, <1>4, <1>5, PickerIsThere DEF Gone, Running
<1>. QED BY <1>1, <1>4, <1>5, <1>6 DEF PickerStands

\* A move that goes over from those to come to those emitted leaves both
\* together as they were, and still apart.
LEMMA OneGoesOver ==
    ASSUME NEW W, NEW G, NEW C, NEW D, NEW m,
           W = G \cup ({m} \ {NoMove}), G \cap C = {},
           m # NoMove => m \in C /\ D = C \ {m},
           m = NoMove => C = {} /\ D = {}
    PROVE  W \cup D = G \cup C /\ W \cap D = {}
<1>1. CASE m = NoMove
  BY <1>1
<1>2. CASE m # NoMove
  BY <1>2
<1>. QED BY <1>1, <1>2

\* A move is emitted.
LEMMA NextMoveStands ==
    ASSUME PickerStands, LineStands, KingsStand, NextMove
    PROVE  PickerStands'
<1>. DEFINE m == picker'.move
            n == Len(emitted)
            mp == picker
            q == picker'
<1>1. /\ picker # <<>> /\ (emitted # <<>> => Last(emitted) # NoMove)
      /\ picker' = next_move(picker) /\ emitted' = Append(emitted, m) /\ pos' = pos /\ moves' = moves
  BY DEF NextMove
<1>2. /\ moves = <<>> /\ picker.pos = pos /\ picker.history = History(pos) /\ Running(picker)
      /\ Gone \cap Coming(picker) = {} /\ Gone \cup Coming(picker) \subseteq PseudoLegal(pos)
      /\ Wanted(picker) \subseteq Gone \cup Coming(picker)
      /\ picker.depth = 0 => Gone \cup Coming(picker) \subseteq Wanted(picker) \cup {picker.ttMove}
      /\ picker.stage \in ProbCutOnes => picker.depth = 0
  BY <1>1 DEF PickerStands
<1>3. Known(picker.pos, picker.history)
  BY <1>2, StartOfLine, StartIsKnown
<1>4. /\ Running(q) /\ SamePicker(q, mp)
      /\ q.stage \in ProbCutOnes <=> mp.stage \in ProbCutOnes
      /\ m # NoMove => m \in Coming(mp) /\ Coming(q) = Coming(mp) \ {m}
      /\ m = NoMove => Coming(mp) = {} /\ Coming(q) = {} /\ q.stage \in Endings
  <2>1. LET y == next_move(mp)
        IN  /\ Running(y) /\ SamePicker(y, mp)
            /\ y.stage \in ProbCutOnes <=> mp.stage \in ProbCutOnes
            /\ y.move # NoMove => y.move \in Coming(mp) /\ Coming(y) = Coming(mp) \ {y.move}
            /\ y.move = NoMove => Coming(mp) = {} /\ Coming(y) = {} /\ y.stage \in Endings
    BY <1>2, <1>3, NextMoveIs
  <2>. QED BY <1>1, <2>1
<1>5. PICK S : emitted \in Seq(S)
  BY DEF PickerStands
<1>6. /\ emitted' \in Seq(S \cup {m}) /\ Len(emitted') = n + 1 /\ emitted'[n + 1] = m /\ n \in Nat
      /\ \A i \in 1..n : emitted'[i] = emitted[i]
  <2>1. emitted \in Seq(S \cup {m})
    BY <1>5, SeqMonotonic
  <2>. HIDE DEF m
  <2>. QED BY <1>1, <1>5, <2>1, AppendProperties, LenProperties
<1>. HIDE DEF m, n, q
<1>7. \A i \in 1..n : emitted[i] # NoMove
  <2>. SUFFICES ASSUME NEW i \in 1..n, emitted[i] = NoMove
                PROVE  FALSE
    OBVIOUS
  <2>1. i = n
    BY DEF PickerStands, n
  <2>2. emitted # <<>>
    BY <1>6 DEF n
  <2>. QED BY <1>1, <2>1, <2>2 DEF Last, n
<1>8. \A i \in 1..n : emitted[i] # m
  <2>. SUFFICES ASSUME NEW i \in 1..n, emitted[i] = m
                PROVE  FALSE
    OBVIOUS
  <2>1. emitted[i] \in Gone
    BY <1>7 DEF Gone, n
  <2>. QED BY <1>2, <1>4, <1>7, <2>1
<1>9. Gone' = Gone \cup ({m} \ {NoMove})
  <2>1. Gone' = {emitted'[i] : i \in 1..(n + 1)} \ {NoMove}
    BY <1>6 DEF Gone
  <2>2. \A i \in 1..(n + 1) : i \in 1..n \/ i = n + 1
    BY <1>6
  <2>3. n + 1 \in 1..(n + 1) /\ \A i \in 1..n : i \in 1..(n + 1)
    BY <1>6
  <2>4. {emitted'[i] : i \in 1..(n + 1)} = {emitted[i] : i \in 1..n} \cup {m}
    BY <1>6, <2>2, <2>3
  <2>. QED BY <2>1, <2>4 DEF Gone, n
<1>10. \A i \in 1..Len(emitted') : i \in 1..n \/ i = n + 1
  BY <1>6
<1>11. \A i, j \in 1..Len(emitted') : emitted'[i] = emitted'[j] => i = j
  <2>1. \A i, j \in 1..n : emitted[i] = emitted[j] => i = j
    BY DEF PickerStands, n
  <2>. QED BY <1>6, <1>8, <1>10, <2>1
<1>12. \A i \in 1..Len(emitted') : emitted'[i] = NoMove => i = Len(emitted')
  BY <1>6, <1>7, <1>10
<1>13. Last(emitted') = m /\ emitted' # <<>>
  <2>1. Len(emitted') # 0
    BY <1>6
  <2>. QED BY <1>6, <2>1 DEF Last
<1>14. /\ q # <<>> /\ q.pos = pos /\ q.history = History(pos) /\ q.depth = mp.depth /\ q.ttMove = mp.ttMove
  BY <1>2, <1>4, PickerIsThere DEF SamePicker
<1>15. Wanted(q) = Wanted(mp)
  <2>1. q.pos = mp.pos /\ q.threshold = mp.threshold /\ q.depth = mp.depth /\ q.skipQuiets = mp.skipQuiets
    BY <1>4 DEF SamePicker
  <2>. QED BY <1>4, <2>1 DEF Wanted
<1>16. Gone' \cup Coming(q) = Gone \cup Coming(mp) /\ Gone' \cap Coming(q) = {}
  <2>1. /\ Gone \cap Coming(mp) = {}
        /\ m # NoMove => m \in Coming(mp) /\ Coming(q) = Coming(mp) \ {m}
        /\ m = NoMove => Coming(mp) = {} /\ Coming(q) = {}
    BY <1>2, <1>4
  <2>. DEFINE W == Gone'
              G == Gone
              C == Coming(mp)
              D == Coming(q)
  <2>2. /\ W = G \cup ({m} \ {NoMove}) /\ G \cap C = {}
        /\ m # NoMove => m \in C /\ D = C \ {m}
        /\ m = NoMove => C = {} /\ D = {}
    BY <1>9, <2>1
  <2>. HIDE DEF W, G, C, D, mp
  <2>3. W \cup D = G \cup C /\ W \cap D = {}
    BY <2>2, OneGoesOver
  <2>. QED BY <2>3 DEF W, G, C, D
<1>17. /\ moves' = <<>> /\ picker'.pos = pos' /\ picker'.history = History(pos') /\ Running(picker')
       /\ Gone' \cap Coming(picker') = {} /\ Gone' \cup Coming(picker') \subseteq PseudoLegal(pos')
       /\ Wanted(picker') \subseteq Gone' \cup Coming(picker')
       /\ picker'.depth = 0 => Gone' \cup Coming(picker') \subseteq Wanted(picker') \cup {picker'.ttMove}
       /\ picker'.stage \in ProbCutOnes => picker'.depth = 0
       /\ emitted' # <<>> /\ Last(emitted') = NoMove => Coming(picker') = {} /\ picker'.stage \in Endings
  BY <1>1, <1>2, <1>4, <1>13, <1>14, <1>15, <1>16 DEF q
<1>18. picker' # <<>> /\ (\E T : emitted' \in Seq(T))
  BY <1>6, <1>14 DEF q
<1>. QED BY <1>11, <1>12, <1>17, <1>18 DEF PickerStands

\* The quiet moves are called off.
LEMMA SkipStands ==
    ASSUME PickerStands, LineStands, KingsStand, SkipQuiets
    PROVE  PickerStands'
<1>. DEFINE mp == picker
            q == picker'
<1>1. /\ picker # <<>> /\ picker.depth > 0 /\ ~picker.skipQuiets /\ pos.st.checkersBB = {} /\ Last(emitted) # NoMove
      /\ picker' = skip_quiet_moves(picker) /\ emitted' = emitted /\ pos' = pos /\ moves' = moves
  BY DEF SkipQuiets
<1>2. /\ moves = <<>> /\ picker.pos = pos /\ picker.history = History(pos) /\ Running(picker)
      /\ Gone \cap Coming(picker) = {} /\ Gone \cup Coming(picker) \subseteq PseudoLegal(pos)
      /\ Wanted(picker) \subseteq Gone \cup Coming(picker)
      /\ picker.stage \in ProbCutOnes => picker.depth = 0
  BY <1>1 DEF PickerStands
<1>3. /\ Running(q) /\ q.pos = mp.pos /\ q.history = mp.history /\ q.ttMove = mp.ttMove /\ q.depth = mp.depth
      /\ q.stage = mp.stage /\ q.skipQuiets /\ q.threshold = mp.threshold
      /\ Coming(q) \subseteq Coming(mp)
      /\ Coming(mp) \ Coming(q) \subseteq generate(mp.pos, "QUIETS")
  <2>1. LET y == skip_quiet_moves(mp)
        IN  /\ Running(y) /\ y.pos = mp.pos /\ y.history = mp.history /\ y.ttMove = mp.ttMove /\ y.depth = mp.depth
            /\ y.stage = mp.stage /\ y.skipQuiets /\ y.threshold = mp.threshold
            /\ Coming(y) \subseteq Coming(mp)
            /\ Coming(mp) \ Coming(y) \subseteq generate(mp.pos, "QUIETS")
    BY <1>1, <1>2, SkippingLoses
  <2>. QED BY <1>1, <2>1
<1>. HIDE DEF q
<1>4. generate(pos, "QUIETS") = QuietOnes(pos)
  BY <1>1, <1>2, StartOfLine, StartIsKnown
<1>5. mp.stage \notin ProbCutOnes /\ mp.depth # 0
  BY <1>1, <1>2
<1>6. Wanted(mp) = PseudoLegal(pos) /\ Wanted(q) = PseudoLegal(pos) \ QuietOnes(pos)
  BY <1>1, <1>2, <1>3, <1>5 DEF Wanted
<1>7. Wanted(q) \subseteq Gone \cup Coming(q)
  BY <1>2, <1>3, <1>4, <1>6
<1>8. Gone' = Gone
  BY <1>1 DEF Gone
<1>9. q # <<>>
  BY <1>3, PickerIsThere DEF Running
<1>10. /\ moves' = <<>> /\ picker'.pos = pos' /\ picker'.history = History(pos') /\ Running(picker')
       /\ Gone' \cap Coming(picker') = {} /\ Gone' \cup Coming(picker') \subseteq PseudoLegal(pos')
       /\ Wanted(picker') \subseteq Gone' \cup Coming(picker')
       /\ picker'.depth # 0
       /\ picker'.stage \notin ProbCutOnes
       /\ Last(emitted') # NoMove
  BY <1>1, <1>2, <1>3, <1>5, <1>7, <1>8 DEF q
<1>11. /\ \E S : emitted' \in Seq(S)
       /\ \A i, j \in 1..Len(emitted') : emitted'[i] = emitted'[j] => i = j
       /\ \A i \in 1..Len(emitted') : emitted'[i] = NoMove => i = Len(emitted')
  BY <1>1 DEF PickerStands
<1>. QED BY <1>9, <1>10, <1>11 DEF PickerStands, q

\* No step of a walk disturbs its picker.
LEMMA PickerStep ==
    ASSUME PickerStands, LineStands, KingsStand, [Next]_vars
    PROVE  PickerStands'
<1>1. ASSUME Walking
      PROVE  PickerStands'
  <2>1. picker = <<>> /\ picker' = <<>> /\ emitted' = emitted /\ emitted = <<>>
    BY <1>1 DEF Walking, PickerStands
  <2>2. /\ \E S : emitted' \in Seq(S)
        /\ \A i, j \in 1..Len(emitted') : emitted'[i] = emitted'[j] => i = j
        /\ \A i \in 1..Len(emitted') : emitted'[i] = NoMove => i = Len(emitted')
    BY <2>1 DEF PickerStands
  <2>. QED BY <2>1, <2>2 DEF PickerStands
<1>2. CASE DoMove
  BY <1>1, <1>2 DEF DoMove, Deeper
<1>3. CASE DoNullMove
  BY <1>1, <1>3 DEF DoNullMove, Deeper
<1>4. CASE UndoMove
  BY <1>1, <1>4 DEF UndoMove
<1>5. CASE UndoNullMove
  BY <1>1, <1>5 DEF UndoNullMove
<1>6. CASE Evaluate
  BY <1>1, <1>6 DEF Evaluate
<1>7. CASE Pick
  BY <1>7, PickStands
<1>8. CASE NextMove
  BY <1>8, NextMoveStands
<1>9. CASE SkipQuiets
  BY <1>9, SkipStands
<1>10. CASE UNCHANGED vars
  <2>1. picker' = picker /\ emitted' = emitted /\ moves' = moves /\ pos' = pos
    BY <1>10 DEF vars
  <2>. QED BY <2>1 DEF PickerStands, Gone
<1>. QED BY <1>2, <1>3, <1>4, <1>5, <1>6, <1>7, <1>8, <1>9, <1>10 DEF Next

\* What stands of the picker is that moves are picked once.
LEMMA StandsPicksOnce == PickerStands => MovesArePickedOnce
<1>. SUFFICES ASSUME PickerStands, picker # <<>>
              PROVE  LET all == PseudoLegal(pos)
                         out == IF emitted # <<>> /\ Last(emitted) = NoMove THEN Front(emitted) ELSE emitted
                         quiet == {m \in all : ~Checked /\ ~capture_stage(pos, m)}
                         wanted == IF picker.stage = "PROBCUT" THEN {m \in all \ quiet : see_ge(pos, m, picker.threshold)}
                                   ELSE IF picker.depth = 0 \/ picker.skipQuiets THEN all \ quiet ELSE all
                     IN  /\ IsInjective(out)
                         /\ Range(out) \subseteq all
                         /\ emitted # <<>> /\ Last(emitted) = NoMove =>
                              /\ wanted \subseteq Range(out)
                              /\ picker.depth = 0 => Range(out) = wanted \cup ({picker.ttMove} \cap Range(out))
  BY DEF MovesArePickedOnce
<1>. DEFINE all == PseudoLegal(pos)
            out == IF emitted # <<>> /\ Last(emitted) = NoMove THEN Front(emitted) ELSE emitted
            quiet == {m \in all : ~Checked /\ ~capture_stage(pos, m)}
            wanted == IF picker.stage = "PROBCUT" THEN {m \in all \ quiet : see_ge(pos, m, picker.threshold)}
                      ELSE IF picker.depth = 0 \/ picker.skipQuiets THEN all \ quiet ELSE all
            n == Len(emitted)
            k == IF emitted # <<>> /\ Last(emitted) = NoMove THEN n - 1 ELSE n
<1>1. PICK S : emitted \in Seq(S)
  BY DEF PickerStands
<1>2. n \in Nat /\ (emitted # <<>> => n # 0) /\ k \in Nat
  <2>1. n \in Nat /\ (emitted # <<>> => n # 0)
    BY <1>1, EmptySeq, LenProperties
  <2>. QED BY <2>1
<1>3. DOMAIN out = 1..k /\ \A i \in 1..k : i \in 1..n /\ out[i] = emitted[i]
  <2>1. CASE emitted # <<>> /\ Last(emitted) = NoMove
    <3>1. Front(emitted) = SubSeq(emitted, 1, n - 1)
      BY DEF Front
    <3>2. SubSeq(emitted, 1, n - 1) = [i \in 1..(n - 1) |-> emitted[i]]
      BY <1>1, <1>2, <2>1
    <3>3. out = [i \in 1..(n - 1) |-> emitted[i]] /\ k = n - 1
      BY <2>1, <3>1, <3>2
    <3>. HIDE DEF out, k
    <3>. QED BY <1>2, <3>3
  <2>2. CASE ~(emitted # <<>> /\ Last(emitted) = NoMove)
    <3>1. DOMAIN emitted = 1..n
      BY <1>1, LenProperties
    <3>. QED BY <2>2, <3>1
  <2>. QED BY <2>1, <2>2
<1>4. \A i \in 1..k : emitted[i] # NoMove
  <2>. SUFFICES ASSUME NEW i \in 1..k, emitted[i] = NoMove
                PROVE  FALSE
    OBVIOUS
  <2>1. i = n
    BY <1>3 DEF PickerStands
  <2>2. emitted # <<>> /\ Last(emitted) = NoMove
    BY <1>2, <1>3, <2>1 DEF Last
  <2>3. k = n - 1
    BY <2>2
  <2>. HIDE DEF k, n
  <2>. QED BY <1>2, <2>1, <2>3
<1>5. \A i \in 1..n : i \in 1..k \/ emitted[i] = NoMove
  <2>1. CASE emitted # <<>> /\ Last(emitted) = NoMove
    <3>1. k = n - 1 /\ emitted[n] = NoMove
      BY <2>1 DEF Last
    <3>. HIDE DEF k, n
    <3>. QED BY <1>2, <3>1
  <2>2. CASE ~(emitted # <<>> /\ Last(emitted) = NoMove)
    <3>1. k = n
      BY <2>2
    <3>. HIDE DEF k, n
    <3>. QED BY <3>1
  <2>. QED BY <2>1, <2>2
<1>6. IsInjective(out) /\ Range(out) = Gone
  <2>1. IsInjective(out)
    <3>1. \A i, j \in 1..n : emitted[i] = emitted[j] => i = j
      BY DEF PickerStands
    <3>. HIDE DEF out, k, n
    <3>. QED BY <1>3, <3>1 DEF IsInjective
  <2>2. Range(out) = {emitted[i] : i \in 1..k}
    <3>. HIDE DEF out, k
    <3>. QED BY <1>3 DEF Range
  <2>3. Gone = {emitted[i] : i \in 1..n} \ {NoMove}
    BY DEF Gone
  <2>4. \A i \in 1..k : i \in 1..n
    BY <1>3
  <2>. HIDE DEF k, n
  <2>5. {emitted[i] : i \in 1..k} = {emitted[i] : i \in 1..n} \ {NoMove}
    BY <1>4, <1>5, <2>4
  <2>. QED BY <2>1, <2>2, <2>3, <2>5
<1>. HIDE DEF out, n, k
<1>7. /\ picker.pos = pos /\ Gone \cup Coming(picker) \subseteq all
      /\ Wanted(picker) \subseteq Gone \cup Coming(picker)
      /\ picker.depth = 0 => Gone \cup Coming(picker) \subseteq Wanted(picker) \cup {picker.ttMove}
      /\ emitted # <<>> /\ Last(emitted) = NoMove => Coming(picker) = {} /\ picker.stage \in Endings
  BY DEF PickerStands
<1>8. quiet = QuietOnes(pos)
  BY DEF QuietOnes, Checked
<1>9. ASSUME picker.stage \in Endings
      PROVE  wanted = Wanted(picker)
  <2>1. picker.stage \in ProbCutOnes <=> picker.stage = "PROBCUT"
    BY <1>9 DEF ProbCutOnes, Endings
  <2>. QED BY <1>7, <1>8, <2>1 DEF Wanted
<1>. HIDE DEF wanted, all, quiet
<1>10. IsInjective(out) /\ Range(out) \subseteq all
  BY <1>6, <1>7
<1>11. ASSUME emitted # <<>>, Last(emitted) = NoMove
       PROVE  /\ wanted \subseteq Range(out)
              /\ picker.depth = 0 => Range(out) = wanted \cup ({picker.ttMove} \cap Range(out))
  BY <1>6, <1>7, <1>9, <1>11
<1>. QED BY <1>10, <1>11 DEF out, wanted, all, quiet

\* A walk starts without a picker.
LEMMA PickerInit == Init => PickerStands
<1>. SUFFICES ASSUME Init PROVE PickerStands
  OBVIOUS
<1>1. picker = <<>> /\ emitted = <<>>
  BY DEF Init
<1>2. Len(emitted) = 0 /\ emitted \in Seq({})
  BY <1>1
<1>. QED BY <1>1, <1>2 DEF PickerStands

\* On every line of moves and null moves, done and taken back in any order, from
\* any FEN string: do_move makes the board the rules make and keeps its four forms
\* in agreement, and undo_move restores every field.
THEOREM PositionsAlwaysKept == Spec /\ []KingsStand => []PositionsAreKept
<1>1. Init /\ KingsStand => LineStands
  BY LineStarts
<1>2. LineStands /\ KingsStand /\ [Next]_vars => LineStands'
  BY LineStep
<1>3. LineStands /\ KingsStand => PositionsAreKept
  BY LineKeepsPositions
<1>. QED BY <1>1, <1>2, <1>3, PTL DEF Spec

\* On every such line see_ge, which stops as soon as it knows, answers as the full
\* value of the exchange would.
THEOREM SeeAlwaysTheExchange == Spec /\ []KingsStand => []SeeIsTheExchange
<1>1. Init /\ KingsStand => LineStands
  BY LineStarts
<1>2. LineStands /\ KingsStand /\ [Next]_vars => LineStands'
  BY LineStep
<1>3. LineStands /\ KingsStand => SeeIsTheExchange
  BY LineSeesTheExchange
<1>. QED BY <1>1, <1>2, <1>3, PTL DEF Spec

\* Whatever the hash move and the histories say, and whenever the quiet moves are called
\* off, the picker emits every move wanted of it once and no other.
THEOREM MovesAlwaysPickedOnce == Spec /\ []KingsStand => []MovesArePickedOnce
<1>1. Init /\ KingsStand => LineStands
  BY LineStarts
<1>2. LineStands /\ KingsStand /\ [Next]_vars => LineStands'
  BY LineStep
<1>3. Init => PickerStands
  BY PickerInit
<1>4. PickerStands /\ LineStands /\ KingsStand /\ [Next]_vars => PickerStands'
  BY PickerStep
<1>5. PickerStands => MovesArePickedOnce
  BY StandsPicksOnce
<1>. QED BY <1>1, <1>2, <1>3, <1>4, <1>5, PTL DEF Spec
====
