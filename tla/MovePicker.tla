---- MODULE MovePicker ----
(* class MovePicker: emits the pseudo-legal moves of a position one by one *)
(* in stages, the moves of a stage generated and sorted when it begins.  A *)
(* picker is a record mp; an index stands for a pointer into its list, and *)
(* every end is the index after the last one.                              *)
EXTENDS MoveGen

NoMove == Move(SQ_NONE, SQ_NONE)
ExtMove(m, value) == [move |-> m, value |-> value]
Swapped(s, i, j) == [s EXCEPT ![i] = s[j], ![j] = s[i]]

\* Where list[i] belongs among the sorted ones: behind those it is not greater than.
PlaceOf(s, begin, sorted, i) ==
    Min({sorted} \cup {q \in begin..(sorted - 1) : s[q].value < s[i].value})

\* Mutant: the displaced move is overwritten.
InsertedOver(s, begin, sorted, i) ==
    LET place == PlaceOf(s, begin, sorted, i)
    IN  SubSeq(s, 1, place - 1) \o <<s[i]>> \o SubSeq(s, place, sorted - 1)
          \o SubSeq(s, sorted + 1, Len(s))

\* One step of the sort: list[i] goes to its place, and the first unsorted one
\* takes the place it left.
Inserted(s, begin, sorted, i) ==
    LET displaced == Swapped(s, sorted, i)
        place == PlaceOf(s, begin, sorted, i)
    IN  SubSeq(s, 1, place - 1) \o <<s[i]>> \o SubSeq(displaced, place, sorted - 1)
          \o SubSeq(displaced, sorted + 1, Len(s))

\* partial_insertion_sort of list[begin..end-1]: the moves of limit or more, in
\* descending order, are brought to the front.
SortedStep(x, begin, i, limit) ==
    IF x.list[i].value < limit THEN x
    ELSE [list |-> Inserted(x.list, begin, x.sorted + 1, i), sorted |-> x.sorted + 1]
partial_insertion_sort(list, begin, end, limit) ==
    LET last == Max({begin, end - 1})
        after[i \in begin..last] == IF i = begin THEN [list |-> list, sorted |-> begin]
                                    ELSE SortedStep(after[i - 1], begin, i, limit)
    IN  after[last].list

\* The squares attacked by pieces worth less than one of type pt.
Lesser(pt) == CASE pt \in {KNIGHT, BISHOP} -> {PAWN}
                [] pt = ROOK -> PAWN..BISHOP
                [] pt = QUEEN -> PAWN..ROOK
                [] OTHER -> {}
AttacksBy(p, c, pt) ==
    UNION {IF pt = PAWN THEN PawnAttacks[c][s] ELSE attacks_bb(pt, s, pieces(p)) : s \in of(p, c, {pt})}
ThreatByLesser(p, pt) == UNION {AttacksBy(p, Opp(p.sideToMove), t) : t \in Lesser(pt)}

Escapes(m, threats) == (IF m.from \in threats THEN 1 ELSE 0) - (IF m.to \in threats THEN 1 ELSE 0)
\* score: history is the sum of what the history tables say of a move.
score(p, history, type, m) ==
    LET pt == type_of(p.board[m.from])
        victim == PieceValue[p.board[m.to]]
    IN  CASE type = "CAPTURES" -> history[m] + 7 * victim
          [] type = "QUIETS" ->
               history[m]
                 + (IF m.to \in p.st.checkSquares[pt] /\ see_ge(p, m, -75) THEN 16384 ELSE 0)
                 + PieceValue[p.board[m.from]] * 20 * Escapes(m, ThreatByLesser(p, pt))
          [] type = "EVASIONS" -> IF capture_stage(p, m) THEN victim + 2^28 ELSE history[m]

\* The moves of a set in some order.
Listed(moves) ==
    LET list[some \in SUBSET moves] ==
          IF some = {} THEN <<>>
          ELSE LET m == CHOOSE m \in some : TRUE IN Append(list[some \ {m}], m)
    IN  list[moves]

\* The list with the scored moves of a type from index at on.
Generated(mp, type, at) ==
    LET scored(m) == ExtMove(m, score(mp.pos, mp.history, type, m))
        after(listed) == SubSeq(mp.list, 1, at - 1) \o [i \in DOMAIN listed |-> scored(listed[i])]
    IN  after(Listed(generate(mp.pos, type)))

\* The stage of a new picker: hash moves that are not of this position are dropped.
FirstStage(p, use, depth) ==
    IF p.st.checkersBB # {} THEN IF use THEN "EVASION_TT" ELSE "EVASION_INIT"
    ELSE IF depth > 0 THEN IF use THEN "MAIN_TT" ELSE "CAPTURE_INIT"
    ELSE IF use THEN "QSEARCH_TT" ELSE "QCAPTURE_INIT"

Picker(p, ttm, depth, threshold, history, stage) ==
    [pos |-> p, ttMove |-> ttm, depth |-> depth, threshold |-> threshold, history |-> history,
     stage |-> stage, list |-> <<>>, cur |-> 1, endCur |-> 1, endBadCaptures |-> 1,
     endCaptures |-> 1, endGenerated |-> 1, skipQuiets |-> FALSE, move |-> NoMove]
MovePicker(p, ttm, depth, history) ==
    Picker(p, ttm, depth, 0, history, FirstStage(p, ttm # NoMove /\ pseudo_legal(p, ttm), depth))
ProbCutPicker(p, ttm, threshold, history) ==
    LET use == ttm # NoMove /\ capture_stage(p, ttm) /\ pseudo_legal(p, ttm)
    IN  Picker(p, ttm, 0, threshold, history, IF use THEN "PROBCUT_TT" ELSE "PROBCUT_INIT")

\* The moves of a stage that may be emitted: never the hash move again.
NotHash(mp, i) == mp.list[i].move # mp.ttMove

\* What is left of the list the stage goes through.
Remaining(mp) == {i \in mp.cur..(mp.endCur - 1) : NotHash(mp, i)}

\* select: the first of those found, the remaining ones that satisfy the filter, or none.
select(mp, found) ==
    IF found = {} THEN [mp EXCEPT !.cur = mp.endCur, !.move = NoMove]
    ELSE [mp EXCEPT !.cur = Min(found) + 1, !.move = mp.list[Min(found)].move]

goodQuietThreshold == -14000

\* Whether the capture list[i] holds its own; C++ division rounds towards 0.
HoldsItsOwn(mp, i, value) ==
    see_ge(mp.pos, mp.list[i].move, IF value >= 0 THEN -(value \div 18) ELSE (-value) \div 18)
\* The captures that lose material are moved to the front, for later.
Aside(mp, x, i, fine) ==
    IF NotHash(mp, i) /\ i \notin fine
    THEN [x EXCEPT !.list = Swapped(@, x.endBadCaptures, i), !.endBadCaptures = @ + 1]
    ELSE x
PassBadCaptures(mp, next, fine) ==
    LET passed[i \in (mp.cur - 1)..(next.cur - 1)] ==
          IF i = mp.cur - 1 THEN next ELSE Aside(mp, passed[i - 1], i, fine)
    IN  passed[next.cur - 1]
PickCapture(mp, fine) == PassBadCaptures(mp, select(mp, fine), fine)
GoodCapture(mp) ==
    PickCapture(mp, {i \in Remaining(mp) : HoldsItsOwn(mp, i, mp.list[i].value)})

\* The picker at a stage with its list, sorted from index begin on.
WithList(mp, stage, list, begin, limit) ==
    [mp EXCEPT !.list = partial_insertion_sort(list, begin, Len(list) + 1, limit),
               !.stage = stage, !.cur = begin, !.endCur = Len(list) + 1]
CapturesMarked(mp) == [mp EXCEPT !.endBadCaptures = 1, !.endCaptures = mp.endCur]
GeneratedMarked(mp) == [mp EXCEPT !.endGenerated = mp.endCur]

CaptureInit(mp, stage) ==
    CapturesMarked(WithList(mp, stage, Generated(mp, "CAPTURES", 1), 1, -2^30))
QuietInit(mp) ==
    IF mp.skipQuiets THEN [mp EXCEPT !.stage = "GOOD_QUIET"]
    ELSE GeneratedMarked(WithList(mp, "GOOD_QUIET", Generated(mp, "QUIETS", mp.cur), mp.cur,
                                  -3560 * mp.depth))
EvasionInit(mp) ==
    GeneratedMarked(WithList(mp, "EVASION", Generated(mp, "EVASIONS", 1), 1, -2^30))

\* The picker q with its move or, if it has none, at the next stage and its part of the list.
OrLeadsTo(q, stage, cur, endCur) ==
    IF q.move # NoMove THEN q ELSE [q EXCEPT !.stage = stage, !.cur = cur, !.endCur = endCur]
\* The quiet moves wanted, unless quiet moves are skipped.
Quiet(mp, wanted) == IF mp.skipQuiets THEN [mp EXCEPT !.move = NoMove] ELSE select(mp, wanted)

\* The stages in the order they fall through to one another: each emits a move
\* or, when it has none, leads on to the next.
Stage(mp) ==
    CASE mp.stage = "GOOD_CAPTURE" ->
           OrLeadsTo(GoodCapture(mp), "QUIET_INIT", mp.endCur, mp.endCur)
      [] mp.stage = "GOOD_QUIET" ->
           OrLeadsTo(Quiet(mp, {i \in Remaining(mp) : mp.list[i].value > goodQuietThreshold}),
                     "BAD_CAPTURE", 1, mp.endBadCaptures)
      [] mp.stage = "BAD_CAPTURE" ->
           OrLeadsTo(select(mp, Remaining(mp)), "BAD_QUIET", mp.endCaptures, mp.endGenerated)
      [] mp.stage = "BAD_QUIET" ->
           Quiet(mp, {i \in Remaining(mp) : mp.list[i].value <= goodQuietThreshold})
      [] mp.stage \in {"EVASION", "QCAPTURE"} -> select(mp, Remaining(mp))
      [] mp.stage = "PROBCUT" ->
           select(mp, {i \in Remaining(mp) : see_ge(mp.pos, mp.list[i].move, mp.threshold)})

\* next_move: the picker with the move it emits.
HashStages == [MAIN_TT |-> "CAPTURE_INIT", EVASION_TT |-> "EVASION_INIT",
               QSEARCH_TT |-> "QCAPTURE_INIT", PROBCUT_TT |-> "PROBCUT_INIT"]
CaptureStages == [CAPTURE_INIT |-> "GOOD_CAPTURE", QCAPTURE_INIT |-> "QCAPTURE",
                  PROBCUT_INIT |-> "PROBCUT"]
Initialised(mp) ==
    CASE mp.stage \in DOMAIN CaptureStages -> CaptureInit(mp, CaptureStages[mp.stage])
      [] mp.stage = "QUIET_INIT" -> QuietInit(mp)
      [] mp.stage = "EVASION_INIT" -> EvasionInit(mp)
      [] OTHER -> mp
\* A picker without a move yet falls through, from the captures four stages far.
Further(mp) == IF mp.move # NoMove \/ mp.stage \in {"EVASION", "QCAPTURE", "PROBCUT"} THEN mp
               ELSE Stage(Initialised(mp))
next_move(mp) ==
    IF mp.stage \in DOMAIN HashStages
    THEN [mp EXCEPT !.stage = HashStages[mp.stage], !.move = mp.ttMove]
    ELSE Further(Further(Further(Stage(Initialised([mp EXCEPT !.move = NoMove])))))

skip_quiet_moves(mp) == [mp EXCEPT !.skipQuiets = TRUE]
====
