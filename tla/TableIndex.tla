---- MODULE TableIndex ----
(* The place of a position in the Syzygy table of its material, which is   *)
(* all that keeps one endgame from being answered with the value of        *)
(* another (tbprobe.cpp).  A position p has fields board and sideToMove.   *)
(* A layout is the order of the pieces that the generator has written into *)
(* a table's file, and the places of its groups, counted from 0.           *)
EXTENDS Bitboards, Sequences, SequencesExt

CONSTANTS Layouts(_),       \* the layouts a table's generator may have chosen
          MaxCardinality    \* the most men of a position that has a table

flip_file(s) == make_square(7 - file_of(s), rank_of(s))
flip_rank(s) == make_square(file_of(s), 7 - rank_of(s))
flip_diagonal(s) == make_square(rank_of(s), file_of(s))
edge_distance(f) == IF f > 3 THEN 7 - f ELSE f
off_A1H8(s) == rank_of(s) - file_of(s)
-----------------------------------------------------------------------------
(* The tables Tablebases::init fills *)

\* Numbered in ascending order, 0 for what is not in S.
Numbered(S, T) == [x \in T |-> IF x \in S THEN Cardinality({y \in S : y < x}) ELSE 0]
MapB1H1H7 == Numbered({s \in Squares : off_A1H8(s) < 0}, Squares)

\* b1-d1-d3 first, then the diagonal a1-d4.
BelowDiagonal == {s \in Squares : off_A1H8(s) < 0 /\ file_of(s) <= 3}
MapA1D1D4 ==
    [s \in Squares |->
       IF s \in BelowDiagonal THEN Numbered(BelowDiagonal, BelowDiagonal)[s]
       ELSE IF off_A1H8(s) = 0 /\ file_of(s) <= 3 THEN 6 + rank_of(s) ELSE 0]

\* Two kings, the first in the triangle: those both on the diagonal come last.
KingPairs ==
    {x \in (BelowDiagonal \cup {0, 9, 18, 27}) \X Squares :
       /\ x[2] \notin PseudoAttacks[KING][x[1]] \cup {x[1]}
       /\ off_A1H8(x[1]) = 0 => off_A1H8(x[2]) <= 0}
KingCode(x) == 64 * MapA1D1D4[x[1]] + x[2]
               + (IF off_A1H8(x[1]) = 0 /\ off_A1H8(x[2]) = 0 THEN 640 ELSE 0)
KingNumbers == LET codes == {KingCode(x) : x \in KingPairs} IN Numbered(codes, codes)
MapKK == [x \in (BelowDiagonal \cup {0, 9, 18, 27}) \X Squares |->
            IF x \in KingPairs THEN KingNumbers[KingCode(x)] ELSE 0]

\* k of n elements; none if there are too few.
Binomial[k \in 0..5, n \in 0..63] ==
    IF k > n THEN 0 ELSE IF k = 0 THEN 1 ELSE (n * Binomial[k - 1, n - 1]) \div k

\* a2 has 47, h2 46, a3 45: the more, the nearer to the edge and to its own side.
MapPawns(s) == 47 - 12 * edge_distance(file_of(s)) - 2 * (rank_of(s) - 1)
               - (IF file_of(s) > 3 THEN 1 ELSE 0)
LeadPawnIdx(cnt, s) ==
    MapThenSumSet(LAMBDA r : Binomial[cnt - 1, MapPawns(make_square(edge_distance(file_of(s)), r))],
                  1..(rank_of(s) - 1))
LeadPawnsSize(cnt, f) == LeadPawnIdx(cnt, make_square(f, 7))
-----------------------------------------------------------------------------
(* Which table *)

Hand(men) == [pt \in PAWN..QUEEN |-> Cardinality({i \in DOMAIN men : men[i] = pt})]
Descending(n) == {h \in [1..n -> PAWN..QUEEN] : \A i \in 1..(n - 1) : h[i + 1] <= h[i]}
\* What init looks for files of: the side with more men first, and of two with as
\* many the one with the greater pieces.
Sizes == {<<1, 0>>, <<2, 0>>, <<3, 0>>, <<4, 0>>, <<5, 0>>, <<1, 1>>, <<2, 1>>, <<3, 1>>,
          <<4, 1>>, <<2, 2>>, <<3, 2>>}
CodesOf(n, m) ==
    {x \in Descending(n) \X Descending(m) :
       /\ <<n, m>> = <<1, 1>> => x[2][1] <= x[1][1]
       /\ <<n, m>> = <<2, 2>> =>
            /\ x[2][1] <= x[1][1]
            /\ x[2][2] <= IF x[1][1] = x[2][1] THEN x[1][2] ELSE x[2][1]}
Codes == UNION {{<<Hand(x[1]), Hand(x[2])>> : x \in CodesOf(z[1], z[2])} : z \in Sizes}

Material(p, c) ==
    [pt \in PAWN..QUEEN |-> Cardinality({s \in Squares : p.board[s] = make_piece(c, pt)})]
material_key(p) == <<Material(p, WHITE), Material(p, BLACK)>>
OtherKey(code) == <<code[2], code[1]>>

\* A table's constructor, of its code: the leading color has the fewer pawns, but some.
TBTable(code) ==
    LET w == code[1][PAWN]
        b == code[2][PAWN]
        whiteLeads == b = 0 \/ (w > 0 /\ b >= w)
    IN  [code |-> code,
         symmetric |-> code = OtherKey(code),
         hasPawns |-> w + b > 0,
         hasUniquePieces |-> \E i \in 1..2, pt \in PAWN..QUEEN : code[i][pt] = 1,
         leadColor |-> IF whiteLeads THEN WHITE ELSE BLACK,
         pawnCount |-> IF whiteLeads THEN <<w, b>> ELSE <<b, w>>]
\* Each table is entered under both keys.
TablesFor(p) == {TBTable(c) : c \in {material_key(p), OtherKey(material_key(p))} \cap Codes}
-----------------------------------------------------------------------------
(* How a table is laid out *)

ProductOf(op(_), S) == MapThenFoldSet(LAMBDA x, y : x * y, 1, op, LAMBDA T : CHOOSE x \in T : TRUE, S)
PawnsOnBothSides(t) == t.hasPawns /\ t.pawnCount[2] > 0

\* The group of every piece: pieces of a kind, except in a leading group of two or three.
GroupsOf(t, layout) ==
    LET firstLen == IF t.hasPawns THEN 0 ELSE IF t.hasUniquePieces THEN 3 ELSE 2
        starts == {i \in 2..Len(layout.pieces) :
                     i > firstLen /\ layout.pieces[i] # layout.pieces[i - 1]}
    IN  [i \in 1..Len(layout.pieces) |-> 1 + Cardinality({j \in starts : j <= i})]

\* How many ways there are to put down the men of group g, once those before are.
GroupSize(t, len, f, g) ==
    CASE g = 1 -> IF t.hasPawns THEN LeadPawnsSize(len[1], f)
                  ELSE IF t.hasUniquePieces THEN 31332 ELSE 462
      [] g = 2 /\ PawnsOnBothSides(t) -> Binomial[len[2], 48 - len[1]]
      [] OTHER -> Binomial[len[g], 64 - MapThenSumSet(LAMBDA h : len[h], 1..(g - 1))]

\* The first group, and the other pawns, are at the places of layout.order.
GroupPlace(t, layout, g) ==
    LET fixed == IF PawnsOnBothSides(t) THEN 2 ELSE 1
        free  == 0..Len(layout.pieces) \ {layout.order[i] : i \in 1..fixed}
    IN  IF g <= fixed THEN layout.order[g]
        ELSE CHOOSE k \in free : Cardinality({j \in free : j < k}) = g - fixed - 1

\* groupLen and groupIdx for the file f; the last groupIdx is the table's size.
set_groups(t, layout, f) ==
    LET group == GroupsOf(t, layout)
        n     == Max(Range(group))
        len   == [g \in 1..n |-> Cardinality({i \in DOMAIN group : group[i] = g})]
        sizeOf(g) == GroupSize(t, len, f, g)
        place == [g \in 1..n |-> GroupPlace(t, layout, g)]
    IN  [pieces |-> layout.pieces, group |-> group, groupLen |-> len,
         groupIdx |-> [g \in 1..(n + 1) |->
           ProductOf(sizeOf, {h \in 1..n : g > n \/ place[h] < place[g]})]]

\* The PairsData of a table, by file.
PairsData(t, layout) == [f \in 0..3 |-> set_groups(t, layout, f)]
-----------------------------------------------------------------------------
(* The index *)

\* Squares and colors as the table has them.
Flips(t, p) == (t.symmetric /\ p.sideToMove = BLACK) \/ material_key(p) # t.code
Turned(p) == [board |-> [s \in Squares |->
                LET pc == p.board[flip_rank(s)]
                IN  IF pc = NO_PIECE THEN pc ELSE make_piece(Opp(color_of(pc)), type_of(pc))],
              sideToMove |-> Opp(p.sideToMove)]
AsInTable(t, p) == IF Flips(t, p) THEN Turned(p) ELSE p

\* The leading pawn is nearest to the edge.
LeadPawn(t, p) ==
    CHOOSE s \in {x \in Squares : p.board[x] = make_piece(t.leadColor, PAWN)} :
      \A x \in Squares : p.board[x] = p.board[s] => MapPawns(x) <= MapPawns(s)
TableFile(t, p) == IF t.hasPawns THEN edge_distance(file_of(LeadPawn(t, p))) ELSE 0

\* The squares of the table's pieces, those of a kind ascending, but the lead pawn first.
Sorted(t, p, pieces) ==
    LET lead == IF t.hasPawns THEN {LeadPawn(t, p)} ELSE {}
        before(x, s) == s \notin lead /\ (x \in lead \/ x < s)
        earlier(i) == Cardinality({j \in 1..(i - 1) : pieces[j] = pieces[i]})
        kind(pc) == {s \in Squares : p.board[s] = pc}
    IN  [i \in DOMAIN pieces |->
          CHOOSE s \in kind(pieces[i]) :
            Cardinality({x \in kind(pieces[i]) \ {s} : before(x, s)}) = earlier(i)]

Each(squares, op(_)) == [i \in DOMAIN squares |-> op(squares[i])]
LeftHalf(squares) == IF file_of(squares[1]) > 3 THEN Each(squares, flip_file) ELSE squares
LowerHalf(squares) == IF rank_of(squares[1]) > 3 THEN Each(squares, flip_rank) ELSE squares
\* Mutant: only the first piece is mapped below the diagonal.
FirstBelowDiagonal(squares, leading) ==
    IF off_A1H8(squares[1]) > 0 THEN Each(squares, flip_diagonal) ELSE squares
\* The first of the leading pieces off the diagonal is mapped below it.
BelowTheDiagonal(squares, leading) ==
    LET off == {i \in 1..leading : off_A1H8(squares[i]) # 0}
    IN  IF off # {} /\ off_A1H8(squares[Min(off)]) > 0 THEN Each(squares, flip_diagonal)
        ELSE squares
Mapped(t, d, squares) ==
    IF t.hasPawns THEN LeftHalf(squares)
    ELSE BelowTheDiagonal(LowerHalf(LeftHalf(squares)), d.groupLen[1])

Lower(S, s) == Cardinality({x \in S : x < s})
\* A set of numbers among all the sets of as many.
Combination(S) == MapThenSumSet(LAMBDA x : Binomial[Lower(S, x) + 1, x], S)
LeadPawnsIndex(lead, others) ==
    LeadPawnIdx(Cardinality(others) + 1, lead) + Combination({MapPawns(s) : s \in others})
UniqueIndex(a, b, c) ==
    LET adjust1 == IF b > a THEN 1 ELSE 0
        adjust2 == Cardinality({x \in {a, b} : x < c})
    IN  IF off_A1H8(a) # 0 THEN (MapA1D1D4[a] * 63 + (b - adjust1)) * 62 + c - adjust2
        ELSE IF off_A1H8(b) # 0
        THEN (6 * 63 + rank_of(a) * 28 + MapB1H1H7[b]) * 62 + c - adjust2
        ELSE IF off_A1H8(c) # 0
        THEN 6 * 63 * 62 + 4 * 28 * 62 + rank_of(a) * 7 * 28 + (rank_of(b) - adjust1) * 28
               + MapB1H1H7[c]
        ELSE 6 * 63 * 62 + 4 * 28 * 62 + 4 * 7 * 28 + rank_of(a) * 7 * 6
               + (rank_of(b) - adjust1) * 6 + (rank_of(c) - adjust2)
LeadIndex(t, d, squares) ==
    IF t.hasPawns THEN LeadPawnsIndex(squares[1], {squares[i] : i \in 2..d.groupLen[1]})
    ELSE IF t.hasUniquePieces THEN UniqueIndex(squares[1], squares[2], squares[3])
    ELSE MapKK[squares[1], squares[2]]

\* A group's number among the ways to put it on the squares the groups before leave.
GroupIndex(t, d, squares, g) ==
    LET in(G) == {squares[i] : i \in {j \in DOMAIN squares : d.group[j] \in G}}
        down(s) == Lower(in(1..(g - 1)), s) + (IF g = 2 /\ PawnsOnBothSides(t) THEN 8 ELSE 0)
    IN  Combination({s - down(s) : s \in in({g})})

Number(t, d, squares, g) ==
    IF g = 1 THEN LeadIndex(t, d, squares) ELSE GroupIndex(t, d, squares, g)
Encoded(t, d, squares) ==
    MapThenSumSet(LAMBDA g : Number(t, d, squares, g) * d.groupIdx[g], DOMAIN d.groupLen)

\* Where do_probe_table looks in the WDL table t with the PairsData data.
Arranged(t, d, p) == Mapped(t, d, Sorted(t, p, d.pieces))
EntryAt(t, data, p) ==
    LET d == data[TableFile(t, p)]
    IN  [stm |-> p.sideToMove, file |-> TableFile(t, p), index |-> Encoded(t, d, Arranged(t, d, p))]
do_probe_table(t, data, p) == EntryAt(t, data, AsInTable(t, p))
====
