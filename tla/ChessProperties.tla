---- MODULE ChessProperties ----
(* What must hold on every position a walk reaches.                        *)
EXTENDS Walk, ChessRules, TableIndex

us == pos.sideToMove
them == Opp(us)
\* While moves are picked the position does not change; and a position is also
\* reached without evaluating any: what is said of positions alone is looked at then.
Standing == picker = <<>>
Plain == Standing /\ evaluated = 0
Checked == pos.st.checkersBB # {}
Done(m) == do_move(pos, m, gives_check(pos, m))

\* The square the last move's pawn has passed over.
Pushed == IF moves = <<>> THEN scenario.fen.ep
          ELSE LET m == Last(moves)
               IN  IF m # NullMove /\ type_of(pos.board[m.to]) = PAWN /\ Abs(m.to - m.from) = 16
                   THEN (m.from + m.to) \div 2 ELSE SQ_NONE
Rooks == {pos.castlingRookSquare[cr] : cr \in AnyCastling(us) \cap pos.st.castlingRights}
Rules == RuleMoves(pos.board, us, Pushed, Rooks)

\* A slider sees along its lines: the subtraction of hyperbola quintessence,
\* the rays walked square by square and the table by what lies between agree.
SlidersSeeTheirRays ==
    Plain => \A s \in Squares, pt \in {BISHOP, ROOK} :
      /\ magic_attacks_bb(pt, s, pieces(pos)) = sliding_attack(pt, s, pieces(pos))
      /\ attacks_bb(pt, s, pieces(pos)) = sliding_attack(pt, s, pieces(pos))

\* A move read from the shared hash table may belong to any position: one that
\* pseudo_legal and then legal let through is a legal move of this position.
HashMovesAreChecked ==
    Plain => \A rules \in {Rules}, m \in {Move(from, to) : from \in Squares, to \in Squares} :
          m.from # m.to => ((pseudo_legal(pos, m) /\ legal(pos, m)) = (m \in rules))

\* MovePicker takes the captures first and the quiet moves later: between them
\* they hold every move once, and capture_stage, which orders what the search
\* remembers, agrees on which is which.
StagesPartition ==
    Plain /\ ~Checked =>
      \A all \in {generate(pos, "NON_EVASIONS")} :
          /\ generate(pos, "CAPTURES") = {m \in all : capture_stage(pos, m)}
          /\ generate(pos, "QUIETS") = {m \in all : ~capture_stage(pos, m)}

\* A king is never taken: do_move asserts type_of(captured) != KING.
KingsStand == \A c \in Colors : of(pos, c, {KING}) # {}

\* The generator finds the legal moves of chess, all of them and no other: it
\* tests only king moves, en passant captures and the moves of blockers, and
\* takes the rest on the word of the check and pin masks do_move left behind.
\* The test of hash moves finds the same.
MovesAreTheRules ==
    /\ KingsStand
    /\ SlidersSeeTheirRays /\ HashMovesAreChecked /\ StagesPartition
    /\ Plain => LegalMoves(pos) = Rules

\* The 3-fold rule needs an exact en passant square: do_move keeps one only if
\* some capture is legal, judging pins from before the push, and so does set.
EnPassantIsExact ==
    Plain =>
      /\ pos.st.epSquare # SQ_NONE <=> \E m \in Rules : m.type = "EN_PASSANT"
      /\ pos.st.epSquare \in {SQ_NONE, Pushed}

\* gives_check decides whether do_move looks for checkers at all, before the
\* move is done: it must foresee discovered, promotion, en passant and castling
\* checks.
ChecksAreForeseen ==
    Plain => \A m \in Rules : gives_check(pos, m) = InCheck(After(pos.board, m), them)

\* A position survives its FEN string, and the network is blind to colors: with
\* the colors exchanged it sees what the other side saw.
FensKeepThePosition ==
    Plain => \A again \in {set(fen(pos))}, other \in {flip(pos)} :
        /\ again.board = pos.board /\ again.st.key = pos.st.key
        /\ again.castlingPath = [cr \in AllCastling |->
             IF cr \in pos.st.castlingRights THEN pos.castlingPath[cr] ELSE {}]
        /\ \A c \in Colors : /\ ActiveThreats(Opp(c), other) = ActiveThreats(c, pos)
                             /\ ActivePairs(Opp(c), other) = ActivePairs(c, pos)

\* After any line of moves the keys, the material and the masks that do_move
\* carried along are those set_state computes from the board alone; a null move
\* updates the keys in a way of its own.
StateIsExact ==
    /\ Plain => pos.st = set_state(pos).st
    /\ EnPassantIsExact
    /\ ChecksAreForeseen
    /\ FensKeepThePosition

\* The four forms of the board agree, and they are what the rules make of the
\* move; taking the move back restores every field.
PositionsAreKept ==
    Plain => \A m \in LegalMoves(pos) :
      \A q \in {Done(m).pos} :
          /\ q.board = After(pos.board, m)
          /\ \A pc \in Pieces : of(q, color_of(pc), {type_of(pc)}) = {s \in Squares : q.board[s] = pc}
          /\ \A pc \in Pieces : q.pieceCount[pc] = Cardinality({s \in Squares : q.board[s] = pc})
          /\ undo_move(q, m) = [pos EXCEPT !.dts = <<>>]

\* What side c wins by taking the piece that stands on a square, worth standing, or
\* leaving it, by the full value of the sequence of captures; occupied: where the
\* other pieces still stand.
Exchanges == [c : Colors, standing : Int, occupied : SUBSET Squares]
Exchange(p, to) ==
    LET value[x \in Exchanges] ==
          LET attackers == attackers_to(p, to, x.occupied) \cap x.occupied
              taking    == MayTake(p, x.c, attackers, x.occupied)
              pt        == LeastValuable(p, taking)
              left      == x.occupied \ {lsb(taking \cap p.byTypeBB[pt])}
          IN  IF taking = {} \/ (pt = KING /\ attackers \cap p.byColorBB[Opp(x.c)] # {}) THEN 0
              ELSE Max({0, x.standing - value[[c |-> Opp(x.c), standing |-> PieceValue[pt],
                                               occupied |-> left]]})
    IN  value
ExchangeOf(p, m) ==
    PieceValue[p.board[m.to]]
      - Exchange(p, m.to)[[c |-> Opp(p.sideToMove), standing |-> PieceValue[p.board[m.from]],
                           occupied |-> pieces(p) \ {m.from, m.to}]]

\* see_ge, a loop on two numbers that leaves as soon as the answer is known,
\* compares the value of the exchange with the threshold.
SeeIsTheExchange ==
    Plain => \A m \in {x \in LegalMoves(pos) : x.type = "NORMAL"} :
      \A value \in {ExchangeOf(pos, m)} : \A t \in {value - 1, value, value + 1, 0, -100, 300} : see_ge(pos, m, t) = (value >= t)

\* The positions of the line, by taking back k moves of it.
Earlier(k) ==
    FoldLeft(LAMBDA p, i : IF moves[i] = NullMove THEN undo_null_move(p) ELSE undo_move(p, moves[i]),
             pos, [j \in 1..k |-> Len(moves) + 1 - j])
Same(p, q) == /\ p.board = q.board /\ p.sideToMove = q.sideToMove
              /\ p.st.castlingRights = q.st.castlingRights /\ p.st.epSquare = q.st.epSquare
Recurs == {k \in 1..Len(moves) : /\ Same(Earlier(k), pos)
                                 /\ \A i \in (Len(moves) - k + 1)..Len(moves) : moves[i] # NullMove}

\* st.repetition, found by comparing keys two by two back to the last capture,
\* pawn move or null move, is the distance to the last time the board stood so;
\* and upcoming_repetition, which does no move at all, "accurately matches the
\* outcome of is_draw() over all legal moves" for every place the root may have.
RepetitionsAreSeen ==
    Plain =>
      /\ \A recurs \in {Recurs} :
           IF recurs = {} THEN pos.st.repetition = 0
           ELSE /\ Abs(pos.st.repetition) = Min(recurs)
                /\ pos.st.repetition < 0 <=> Cardinality(recurs) > 1
      /\ \A ply \in 1..Len(moves) :
         upcoming_repetition(pos, ply) <=>
           \E m \in LegalMoves(pos) : is_repetition(Done(m).pos, ply + 1)

\* Boards a table need not tell apart: turned with the colors exchanged, mirrored,
\* and without pawns also upside down or along the diagonal.
Mirrors(t) ==
    IF t.hasPawns THEN {<<FALSE, FALSE, m>> : m \in BOOLEAN}
    ELSE {<<d, r, m>> : d \in BOOLEAN, r \in BOOLEAN, m \in BOOLEAN}
Mirror(x, s) == LET d == IF x[1] THEN flip_diagonal(s) ELSE s
                    r == IF x[2] THEN flip_rank(d) ELSE d
                IN  IF x[3] THEN flip_file(r) ELSE r
Images(t, p) ==
    {[board |-> [s \in Squares |-> q.board[Mirror(x, s)]], sideToMove |-> q.sideToMove] :
        q \in {p, Turned(p)}, x \in Mirrors(t)}
Board(p) == [board |-> p.board, sideToMove |-> p.sideToMove]
\* The position with one man elsewhere, or the other side to move.
Elsewhere(p) ==
    {[board |-> [p.board EXCEPT ![z[1]] = NO_PIECE, ![z[2]] = p.board[z[1]]], sideToMove |-> p.sideToMove] :
        z \in {x \in Squares \X Squares :
          /\ p.board[x[1]] # NO_PIECE /\ p.board[x[2]] = NO_PIECE
          /\ type_of(p.board[x[1]]) = PAWN => rank_of(x[2]) \in 1..6
          /\ type_of(p.board[x[1]]) = KING =>
               \A k \in Squares : p.board[k] = make_piece(Opp(color_of(p.board[x[1]])), KING) =>
                 k \notin PseudoAttacks[KING][x[2]]}}
      \cup {[board |-> p.board, sideToMove |-> Opp(p.sideToMove)]}

OnDiagonal(squares, n) == \A i \in 1..n : off_A1H8(squares[i]) = 0

\* The numbers an index is made of are used up and used once: by three leading
\* men, two kings or the pawns of a color, by men of a kind, and each material
\* has one table.
Once(op(_), S, n) == {op(x) : x \in S} = 0..(n - 1) /\ Cardinality(S) = n
LeadingMen ==
    {x \in (0..3 \cup 9..11 \cup 18..19 \cup {27}) \X Squares \X Squares :
       /\ Cardinality({x[1], x[2], x[3]}) = 3
       /\ off_A1H8(x[1]) = 0 => off_A1H8(x[2]) <= 0
       /\ off_A1H8(x[1]) = 0 /\ off_A1H8(x[2]) = 0 => off_A1H8(x[3]) <= 0}
OfSize(k, S) == {T \in {{f[i] : i \in 1..k} : f \in [1..k -> S]} : Cardinality(T) = k}
LeadingPawns(cnt, f) ==
    {<<make_square(f, r), others>> : r \in 1..6, others \in OfSize(cnt - 1, 8..55)}
NumbersAreUnique ==
    /\ Once(LAMBDA x : UniqueIndex(x[1], x[2], x[3]), LeadingMen, 31332)
    /\ Once(LAMBDA x : MapKK[x], KingPairs, 462)
    /\ \A cnt \in 1..3, f \in 0..3 :
         Once(LAMBDA x : LeadPawnsIndex(x[1], x[2]),
              {x \in LeadingPawns(cnt, f) : \A s \in x[2] : MapPawns(s) < MapPawns(x[1])},
              LeadPawnsSize(cnt, f))
    /\ \A k \in 1..3 : Once(Combination, OfSize(k, 0..15), Binomial[k, 16])
    /\ \A hands \in {<<Hand(x[1]), Hand(x[2])>> : x \in
          UNION {Descending(n[1]) \X Descending(n[2]) : n \in {z \in (0..5) \X (0..5) : z[1] + z[2] \in 1..5}}} :
         Cardinality({hands, OtherKey(hands)} \cap Codes) = 1

\* An endgame has an entry that only its mirror images share, and they do share
\* it, unless the leading men all stand on the diagonal; no group of men spills
\* into the numbers of another.
EndgamesHaveTheirEntries ==
    Plain /\ Len(moves) <= 1 /\ pos.st.castlingRights = {}
      /\ Cardinality(pieces(pos)) \in 3..MaxCardinality =>
      /\ NumbersAreUnique
      /\ \A t \in TablesFor(pos) : \A layout \in Layouts(t) : \A data \in {PairsData(t, layout)} :
           \A own \in {do_probe_table(t, data, pos)}, images \in {Images(t, Board(pos))} :
           \A d \in {data[own.file]} : \A squares \in {Arranged(t, d, AsInTable(t, pos))} :
             /\ own.index < Last(d.groupIdx)
             /\ \A g \in DOMAIN d.groupLen : Number(t, d, squares, g) \in 0..(GroupSize(t, d.groupLen, own.file, g) - 1)
             /\ \A q \in Elsewhere(Board(pos)) \ images : do_probe_table(t, data, q) # own
             /\ \/ ~t.hasPawns /\ OnDiagonal(squares, d.groupLen[1])
                \/ \A q \in images : do_probe_table(t, data, q) = own

\* What a position's accumulator holds when it is computed from nothing.
FromNothing(c) ==
    Apply(EmptySum,
          <<InTable(PSQ, [removed |-> {}, added |-> {HalfKA(c, s, pos.board[s], king(pos, c)) : s \in pieces(pos)}]),
            InTable(THREAT, [removed |-> {}, added |-> ActiveThreats(c, pos) \cup ActivePairs(c, pos)])>>)

\* The cache entry of a king square holds the sum of the pieces it lists.
CacheIsExact ==
    Standing => \A x \in DOMAIN acc.cache :
      LET men == {s \in Squares : acc.cache[x].pieces[s] # NO_PIECE}
      IN  acc.cache[x].accumulation =
            Apply(EmptySum, <<InTable(PSQ, [removed |-> {}, added |->
                    {HalfKA(x[2], s, acc.cache[x].pieces[s], x[1]) : s \in men}])>>)

\* Whatever was evaluated on the way, and however the entry was brought up to
\* date, an accumulator marked as computed holds the features of its position.
AccumulatorsAreExact == CacheIsExact /\
    (Standing => \A c \in Colors : Last(acc.stack).computed[c] => Last(acc.stack).accumulation[c] = FromNothing(c))

\* Whatever the hash move is, every pseudo-legal move is emitted and none
\* twice, although the list is swapped and sorted in place stage by stage; when
\* the quiet moves are called off, only quiet moves are lost.
MovesArePickedOnce ==
    picker # <<>> =>
      \A all \in {PseudoLegal(pos)} :
      LET out == IF emitted # <<>> /\ Last(emitted) = NoMove THEN Front(emitted) ELSE emitted
          quiet == {m \in all : ~Checked /\ ~capture_stage(pos, m)}
          wanted == IF picker.stage = "PROBCUT" THEN {m \in all \ quiet : see_ge(pos, m, picker.threshold)}
                    ELSE IF picker.depth = 0 \/ picker.skipQuiets THEN all \ quiet ELSE all
      IN  /\ IsInjective(out)
          /\ Range(out) \subseteq all
          /\ emitted # <<>> /\ Last(emitted) = NoMove =>
               /\ wanted \subseteq Range(out)
               /\ picker.depth = 0 => Range(out) = wanted \cup ({picker.ttMove} \cap Range(out))
====
