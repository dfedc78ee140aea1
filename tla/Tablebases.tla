----------------------------- MODULE Tablebases -----------------------------
(***************************************************************************)
(* What the Syzygy tables say of an endgame, how the probes make up for    *)
(* what they leave out, and how the root's moves are ranked by it          *)
(* (tbprobe.cpp).  A game has numbered positions; the moves of each lead   *)
(* to another, and the captures and pawn moves among them ("zeroing") to   *)
(* one of a lower layer.  The tables themselves are made by another        *)
(* program: their entries are computed here from the game.                 *)
(***************************************************************************)
EXTENDS SearchValues, Sequences, FiniteSets, FiniteSetsExt, TLC

CONSTANTS Games,     \* [moves, layer, check, stored, tables, ...]; stored has the
                     \* positions whose side to move the distance tables have
          MAX_DTZ    \* 1 << 18
-----------------------------------------------------------------------------
(* The tables: who wins, and how many plies before the next zeroing move *)

Positions(g) == DOMAIN g.moves
Legal(g, p) == DOMAIN g.moves[p]
To(g, p, m) == g.moves[p][m].to
IsCapture(g, p, m) == g.moves[p][m].kind = "capture"
IsZeroing(g, p, m) == g.moves[p][m].kind # "quiet"
IsMate(g, p) == g.moves[p] = <<>> /\ p \in g.check
Sign(x) == IF x > 0 THEN 1 ELSE IF x < 0 THEN -1 ELSE 0

\* Values c plies after a zeroing move, when n such plies draw, in layer l; lower has
\* the values below it, just after the zeroing move that leads there.
RECURSIVE AtCount(_, _, _, _, _)
AtCount(g, n, l, lower, c) ==
  LET next == IF c < n THEN AtCount(g, n, l, lower, c + 1) ELSE <<>>
      after(p, m) == IF IsZeroing(g, p, m) THEN lower[To(g, p, m)] ELSE next[To(g, p, m)]
  IN  [p \in {q \in Positions(g) : g.layer[q] = l} |->
        IF g.moves[p] = <<>> THEN IF p \in g.check THEN -1 ELSE 0
        ELSE IF c = n THEN 0
        ELSE Max({-after(p, m) : m \in Legal(g, p)})] @@ lower

RECURSIVE Fresh(_, _, _)
Fresh(g, n, l) == IF l = 0 THEN <<>> ELSE AtCount(g, n, l, Fresh(g, n, l - 1), 0)

\* The value of every position after c plies, when n plies without zeroing draw.
Outcomes(g, n) ==
  [c \in 0..n |-> [p \in Positions(g) |->
     AtCount(g, n, g.layer[p], Fresh(g, n, g.layer[p] - 1), c)[p]]]

\* -2 and 2 are a loss and a win, -1 and 1 those that the fifty-move rule draws.
TrueWDL(rule, free, p) == free[0][p] + rule[0][p]

\* Plies to the next zeroing move or the mate; more than RULE50 if the rule draws.
TrueDTZ(rule, free, n, p) ==
  LET v == free[0][p]
      last(t) == Max({c \in DOMAIN t : t[c][p] = v})
      plies == n - last(free)
  IN  IF rule[0][p] = v THEN RULE50 - last(rule) ELSE IF plies > RULE50 THEN plies ELSE RULE50 + plies

\* Without the fifty-move rule nothing takes n plies, twice the number of positions.
Tabulated(g, rule, free, n) ==
  g @@ [rule |-> rule,
        wdl |-> [p \in Positions(g) |-> TrueWDL(rule, free, p)],
        dtz |-> [p \in Positions(g) |-> TrueDTZ(rule, free, n, p)]]

\* The game with what each position is worth: rule[c], c plies after a zeroing move,
\* and the class and distance that the tables are made from.
Solved(g) ==
  IF g.tables = "none" THEN g
  ELSE Tabulated(g, Outcomes(g, RULE50), Outcomes(g, 2 * Cardinality(Positions(g))),
                 2 * Cardinality(Positions(g)))
-----------------------------------------------------------------------------
(* Entries.  t says how the generator chose: t.cares for what a table need   *)
(* not store, t.plies whether distances are in plies or in moves.            *)

BestCapture(g, p) ==
  Max({-2} \cup {-g.wdl[To(g, p, m)] : m \in {k \in Legal(g, p) : IsCapture(g, p, k)}})

\* An entry need not be better than the best capture.
EntryWDL(g, t, p) ==
  IF BestCapture(g, p) < g.wdl[p] \/ t.cares = "exact" THEN g.wdl[p]
  ELSE IF t.cares = "high" /\ g.wdl[p] = 2 THEN 2 ELSE -2

\* A distance in moves is doubled again and may be a ply too short; not in a table
\* with a position whose win takes just the plies the rule allows.
OnTheEdge(g, p) ==
  \E q \in Positions(g) : g.layer[q] = g.layer[p] /\ g.dtz[q] = RULE50
EntryDTZ(g, t, p, wdl) ==
  LET n == g.dtz[p] - (IF wdl \in {-1, 1} THEN RULE50 ELSE 0)
      inMoves == wdl \in {-1, 1} \/ (~t.plies /\ ~OnTheEdge(g, p))
  IN  IF n = 0 \/ (inMoves /\ n % 2 = 0) THEN Max({n - 1, 1}) ELSE n
-----------------------------------------------------------------------------
(* Probes: [value, state] with state "FAIL", "OK" or "ZEROING" *)

Missing(t, file) == file \in t.missing
Failed == [value |-> 0, state |-> "FAIL"]
Negated(r) == [r EXCEPT !.value = -@]

\* Mutant: the stored value counts, whatever can be captured.
searchTableOnly(g, t, p, zeroingToo) ==
  IF Missing(t, "wdl") THEN Failed ELSE [value |-> EntryWDL(g, t, p), state |-> "OK"]

\* The moves to look at before the table is, and the result after they have been.
Looked(g, p, zeroingToo) ==
  {m \in Legal(g, p) : IsCapture(g, p, m) \/ (zeroingToo /\ IsZeroing(g, p, m))}
Concluded(g, t, p, after) ==
  LET ends == {m \in DOMAIN after : after[m].state = "FAIL" \/ after[m].value >= 2}
      bestValue == Max({-2} \cup {after[m].value : m \in DOMAIN after})
      noMoreMoves == DOMAIN after # {} /\ DOMAIN after = Legal(g, p)
      value == IF noMoreMoves THEN bestValue ELSE EntryWDL(g, t, p)
  IN  IF ends # {}
      THEN IF after[Min(ends)].state = "FAIL" THEN Failed ELSE [value |-> 2, state |-> "ZEROING"]
      ELSE IF ~noMoreMoves /\ Missing(t, "wdl") THEN Failed
      ELSE IF bestValue >= value
      THEN [value |-> bestValue,
            state |-> IF bestValue > 0 \/ noMoreMoves THEN "ZEROING" ELSE "OK"]
      ELSE [value |-> value, state |-> "OK"]

\* Captures, and pawn moves if asked to, are looked at before the table is.
RECURSIVE search(_, _, _, _)
search(g, t, p, zeroingToo) ==
  Concluded(g, t, p,
    [m \in Looked(g, p, zeroingToo) |-> Negated(search(g, t, To(g, p, m), FALSE))])

probe_wdl(g, t, p) == search(g, t, p, FALSE)

dtz_before_zeroing(wdl) ==
  CASE wdl = 2 -> 1 [] wdl = 1 -> RULE50 + 1 [] wdl = -1 -> -RULE50 - 1 [] wdl = -2 -> -1
    [] OTHER -> 0

\* The least distance among the moves that keep the class wdl.
LeastDTZ(g, p, wdl, results) ==
  LET mates == {m \in DOMAIN results : results[m].value = 1 /\ IsMate(g, To(g, p, m))}
      counted == {results[m].value + (IF IsZeroing(g, p, m) THEN 0 ELSE Sign(results[m].value)) :
                    m \in DOMAIN results}
      good == {d \in counted : Sign(d) = Sign(wdl)}
  IN  IF mates # {} THEN 1 ELSE IF good = {} THEN -1 ELSE Min(good)

\* A table has one side to move only; for the other its moves are looked at.
DTZFrom(g, t, p, r, results) ==
  IF r.state = "FAIL" \/ r.value = 0 THEN [r EXCEPT !.value = 0]
  ELSE IF r.state = "ZEROING" THEN [r EXCEPT !.value = dtz_before_zeroing(@)]
  ELSE IF Missing(t, "dtz") THEN Failed
  ELSE IF p \in g.stored
  THEN [r EXCEPT !.value =
          (EntryDTZ(g, t, p, @) + (IF @ \in {-1, 1} THEN RULE50 ELSE 0)) * Sign(@)]
  ELSE IF \E m \in DOMAIN results : results[m].state = "FAIL" THEN Failed
  ELSE [r EXCEPT !.value = LeastDTZ(g, p, @, results)]

RECURSIVE probe_dtz(_, _, _)
probe_dtz(g, t, p) ==
  DTZFrom(g, t, p, search(g, t, p, TRUE),
    [m \in Legal(g, p) |->
       Negated(IF IsZeroing(g, p, m)
               THEN [search(g, t, To(g, p, m), FALSE) EXCEPT !.value = dtz_before_zeroing(@)]
               ELSE probe_dtz(g, t, To(g, p, m)))])
-----------------------------------------------------------------------------
(* Ranking.  cnt50 plies since the last zeroing move; seen counts how often   *)
(* each position has been on the board since.                                 *)

has_repeated(seen) == \E p \in DOMAIN seen : seen[p] >= 2
DrawnAt(g, p, cnt50, seen) ==
  \/ cnt50 >= RULE50 /\ ~IsMate(g, p)
  \/ p \in DOMAIN seen /\ seen[p] >= 2

\* From the position after the root's move m to the root.
FromRoot(d, mates) == IF d + Sign(d) = 2 /\ mates THEN 1 ELSE d + Sign(d)

\* The distance to a zeroing move from the root, by the root's move m.
RootDTZ(g, t, p, cnt50, seen, m) ==
  IF IsZeroing(g, p, m)
  THEN [probe_wdl(g, t, To(g, p, m)) EXCEPT !.value = dtz_before_zeroing(-@)]
  ELSE IF DrawnAt(g, To(g, p, m), cnt50 + 1, seen) THEN [value |-> 0, state |-> "OK"]
  ELSE [probe_dtz(g, t, To(g, p, m)) EXCEPT !.value = FromRoot(-@, IsMate(g, To(g, p, m)))]

\* Mutant: moves are ranked alike after a repetition.
RankIgnoresRepetition(dtz, cnt50, rep, rankDTZ) ==
  IF dtz > 0
  THEN IF dtz + cnt50 <= RULE50 - 1
       THEN MAX_DTZ - (IF rankDTZ THEN dtz ELSE 0) ELSE MAX_DTZ \div 2 - (dtz + cnt50)
  ELSE IF dtz < 0
  THEN IF -dtz * 2 + cnt50 < RULE50
       THEN -MAX_DTZ - (IF rankDTZ THEN dtz ELSE 0) ELSE -(MAX_DTZ \div 2) + (-dtz + cnt50)
  ELSE 0

\* Mutant: the plies that have been played are forgotten.
RankForgetsCount(dtz, cnt50, rep, rankDTZ) ==
  IF dtz > 0
  THEN IF dtz <= RULE50 - 1 /\ ~rep
       THEN MAX_DTZ - (IF rankDTZ THEN dtz ELSE 0) ELSE MAX_DTZ \div 2 - dtz
  ELSE IF dtz < 0
  THEN IF -dtz * 2 < RULE50
       THEN -MAX_DTZ - (IF rankDTZ THEN dtz ELSE 0) ELSE -(MAX_DTZ \div 2) - dtz
  ELSE 0

\* Wins that are certain are alike, unless positions have been repeated.
Rank(dtz, cnt50, rep, rankDTZ) ==
  IF dtz > 0
  THEN IF dtz + cnt50 <= RULE50 - 1 /\ ~rep
       THEN MAX_DTZ - (IF rankDTZ THEN dtz ELSE 0) ELSE MAX_DTZ \div 2 - (dtz + cnt50)
  ELSE IF dtz < 0
  THEN IF -dtz * 2 + cnt50 < RULE50
       THEN -MAX_DTZ - (IF rankDTZ THEN dtz ELSE 0) ELSE -(MAX_DTZ \div 2) + (-dtz + cnt50)
  ELSE 0

WDL_to_rank == [w \in -2..2 |->
  CASE w = -2 -> -MAX_DTZ [] w = -1 -> -MAX_DTZ + RULE50 + 1 [] w = 0 -> 0
    [] w = 1 -> MAX_DTZ - RULE50 - 1 [] w = 2 -> MAX_DTZ]

dtz_is_dtm(g) == \A p \in Positions(g) : \A m \in Legal(g, p) : ~IsZeroing(g, p, m)

\* The ranks of the root's moves by distance, and by class.
root_probe(g, t, p, cnt50, seen, rankDTZ) ==
  [m \in Legal(g, p) |->
    [RootDTZ(g, t, p, cnt50, seen, m) EXCEPT
       !.value = Rank(@, cnt50, has_repeated(seen), rankDTZ \/ dtz_is_dtm(g))]]

root_probe_wdl(g, t, p, cnt50, seen) ==
  [m \in Legal(g, p) |->
    IF DrawnAt(g, To(g, p, m), IF IsZeroing(g, p, m) THEN 0 ELSE cnt50 + 1, seen)
    THEN [value |-> 0, state |-> "OK"]
    ELSE [probe_wdl(g, t, To(g, p, m)) EXCEPT !.value = WDL_to_rank[-@]]]

Complete(ranks) == \A m \in DOMAIN ranks : ranks[m].state # "FAIL"
Values(ranks) == [m \in DOMAIN ranks |-> ranks[m].value]
FirstComplete(dtz, wdl) ==
  IF Complete(dtz) THEN [by |-> "dtz", rank |-> Values(dtz)]
  ELSE IF Complete(wdl) THEN [by |-> "wdl", rank |-> Values(wdl)]
  ELSE [by |-> "none", rank |-> [m \in DOMAIN dtz |-> 0]]

rank_root_moves(g, t, p, cnt50, seen, rankDTZ) ==
  IF g.tables = "none" THEN [by |-> "none", rank |-> [m \in Legal(g, p) |-> 0]]
  ELSE FirstComplete(root_probe(g, t, p, cnt50, seen, rankDTZ),
                     root_probe_wdl(g, t, p, cnt50, seen))
=============================================================================
