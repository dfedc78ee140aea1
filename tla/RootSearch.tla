----------------------------- MODULE RootSearch -----------------------------
(***************************************************************************)
(* How an answer comes about: the root's moves are ranked by the           *)
(* tablebases, each thread searches them with growing depth, line by line  *)
(* and in windows that are widened when a score falls outside, until it is *)
(* stopped at any moment; then the threads vote (search.cpp, thread.cpp).  *)
(* With tablebases the game is played on: the answer, a reply, and again.  *)
(*                                                                         *)
(* What a search of one move returns is any score that says nothing wrong  *)
(* of mates: Search shows this of search<NonPV> and search<PV>.  Threads   *)
(* share nothing here but the stop, so they are run one after the other.   *)
(***************************************************************************)
EXTENDS Tablebases, SequencesExt

CONSTANTS MultiPVs     \* the numbers of lines to try; a game also has: uses, the
                       \* tables there may be; roots and counts, where it begins;
                       \* worth, what its first moves are; scores, bounds, depth and
                       \* threads, the bounds of what is searched

VARIABLES
  game, tables, multiPV,      \* which game, tables, option
  board,                      \* the position: [node, rule50, seen], seen counts how
                              \* often each is on the board since a zeroing move
  rootMoves, rankedBy,        \* the ranked moves
  pc, stop,
  rootDepth, lines,           \* lines: the worker's copy of rootMoves
  pvIdx, pvFirst, pvLast,
  alpha, beta, bestValue,
  todo,                       \* moves left in this search
  lastBest,                   \* lastBestMovePV[0] and lastBestMoveScore
  results, answer,
  promised,                   \* what the position was worth when it was ranked
  shown                       \* the line that output_pv checks: [at, ply, passed, v, done]

theGame == <<game, tables, multiPV>>
ranking == <<rootMoves, rankedBy, promised>>
window == <<alpha, beta, bestValue, todo>>
group == <<pvIdx, pvFirst, pvLast>>
vote == <<results, answer>>
vars == <<theGame, board, ranking, pc, stop, rootDepth, lines, group, window, lastBest,
          vote, shown>>

NoScore == -VALUE_INFINITE
NoBest == [move |-> 0, score |-> NoScore]
Goto(from, to) == pc = from /\ pc' = to

is_inexact(rm) == rm.lower \/ rm.upper
is_exact_loss(rm) == rm.score # NoScore /\ is_loss(rm.score) /\ ~is_inexact(rm)
is_mate_or_mated(v) == is_mate(v) \/ is_mated(v)
Magnitude(v) == IF v < 0 THEN -v ELSE v
Exactly(rm, v) == [rm EXCEPT !.score = v, !.lower = FALSE, !.upper = FALSE]
NewMove(m, rank) == [move |-> m, tbRank |-> rank, score |-> NoScore, previous |-> NoScore,
                     previousExact |-> FALSE, lower |-> FALSE, upper |-> FALSE]

\* RootMove::operator<, for the descending order.
Ahead(a, b) == a.score > b.score \/ (a.score = b.score /\ a.previous > b.previous)

\* std::stable_sort of s[i], ..., s[j].
Place(s, rm) ==
  LET k == Cardinality({x \in DOMAIN s : ~Ahead(rm, s[x])}) IN InsertAt(s, k + 1, rm)
StableSort(s, i, j) ==
  SubSeq(s, 1, i - 1) \o FoldLeft(Place, <<>>, SubSeq(s, i, j)) \o SubSeq(s, j + 1, Len(s))
-----------------------------------------------------------------------------
(* start_thinking, and the game that is played with tablebases *)

Occurs(f, p) == [k \in DOMAIN f \cup {p} |->
                   (IF k \in DOMAIN f THEN f[k] ELSE 0) + (IF k = p THEN 1 ELSE 0)]
Nowhere == [p \in {} |-> 0]
NoLine == [at |-> 0, ply |-> 0, passed |-> {}, v |-> 0, done |-> FALSE]

Init ==
  /\ game \in {Solved(Games[i]) : i \in DOMAIN Games}
  /\ tables \in game.uses /\ multiPV \in MultiPVs
  /\ \E p \in game.roots, c \in game.counts :
       board = [node |-> p, rule50 |-> c, seen |-> Occurs(Nowhere, p)]
  /\ rootMoves = <<>> /\ rankedBy = "none" /\ promised = 0
  /\ pc = "rank" /\ stop = FALSE
  /\ rootDepth = 0 /\ lines = <<>> /\ pvIdx = 1 /\ pvFirst = 1 /\ pvLast = 1
  /\ alpha = NoScore /\ beta = NoScore /\ bestValue = NoScore /\ todo = {}
  /\ lastBest = NoBest /\ results = <<>> /\ answer = NoBest /\ shown = NoLine

\* Position::do_move, as far as draws are concerned, and Position::is_draw.
After(b, m) ==
  LET p == To(game, b.node, m)
  IN  IF IsZeroing(game, b.node, m)
      THEN [node |-> p, rule50 |-> 0, seen |-> Occurs(Nowhere, p)]
      ELSE [node |-> p, rule50 |-> b.rule50 + 1, seen |-> Occurs(b.seen, p)]
is_draw(b) == (b.rule50 >= RULE50 /\ ~IsMate(game, b.node)) \/ b.seen[b.node] >= 3
Over(b) == game.moves[b.node] = <<>> \/ is_draw(b)

\* What the side to move can reach under the fifty-move rule.
Worth(b) == IF is_draw(b) THEN 0 ELSE game.rule[Min({b.rule50, RULE50})][b.node]
Ranks(b, rankDTZ) == rank_root_moves(game, tables, b.node, b.rule50, b.seen, rankDTZ)

\* What a ranking by these tables is to keep: the outcome under the rule, for sure if a
\* distance that is counted in moves may be a ply off; or, without distances, the class
\* of the position, unless some move draws on the spot.
Promise(by) ==
  CASE by = "dtz" /\ tables.plies -> Worth(board)
    [] by = "dtz" /\ ~tables.plies ->
         Min({game.rule[c][board.node] : c \in {k \in 0..RULE50 : k - board.rule50 \in -1..1}})
    [] by = "wdl" /\ (\A m \in Legal(game, board.node) : ~is_draw(After(board, m)))
         -> game.wdl[board.node]
    [] OTHER -> -2

RankRootMoves ==
  /\ Goto("rank", "start") /\ ~Over(board)
  /\ LET r == Ranks(board, FALSE)
         unsorted == [m \in Legal(game, board.node) |-> NewMove(m, r.rank[m])]
     IN  /\ rankedBy' = r.by
         /\ rootMoves' = SortSeq(unsorted, LAMBDA a, b : a.tbRank > b.tbRank
                                                        \/ (a.tbRank = b.tbRank /\ a.move < b.move))
         /\ promised' = Promise(r.by)
  /\ results' = <<>> /\ answer' = NoBest /\ stop' = FALSE
  /\ UNCHANGED <<theGame, board, rootDepth, lines, group, window, lastBest, shown>>

\* iterative_deepening begins on the next thread.
StartThread ==
  /\ Goto("start", "deepen")
  /\ rootDepth' = 0 /\ lines' = rootMoves /\ lastBest' = NoBest
  /\ pvIdx' = 1 /\ pvFirst' = 1 /\ pvLast' = 1
  /\ UNCHANGED <<theGame, board, ranking, stop, window, vote, shown>>

\* The time is up, or somebody says so.
Stop == /\ pc \in {"deepen", "line", "search", "searched", "lineDone", "sorted", "iterated"} /\ ~stop
        /\ stop' = TRUE
        /\ UNCHANGED <<theGame, board, ranking, pc, rootDepth, lines, group, window, lastBest,
                       vote, shown>>
-----------------------------------------------------------------------------
(* iterative_deepening *)

LineCount == Min({multiPV, Len(lines)})

NextDepth ==
  /\ Goto("deepen", "line") /\ ~stop /\ rootDepth < game.depth
  /\ rootDepth' = rootDepth + 1
  /\ lines' = [i \in DOMAIN lines |-> [lines[i] EXCEPT !.previous = lines[i].score,
                                                       !.previousExact = i <= LineCount]]
  /\ pvIdx' = 1 /\ pvFirst' = 1 /\ pvLast' = 1
  /\ UNCHANGED <<theGame, board, ranking, stop, window, lastBest, vote, shown>>

\* The moves of one rank: lines[first], ..., lines[GroupEnd(first) - 1].
GroupEnd(first) ==
  Max({i \in first + 1..Len(lines) + 1 :
         \A j \in first..i - 1 : lines[j].tbRank = lines[first].tbRank})

\* The window is set around the average of the scores so far, which may be anything.
BeginLine ==
  /\ Goto("line", "search")
  /\ LET new == pvIdx = pvLast
     IN  /\ pvFirst' = IF new THEN pvLast ELSE pvFirst
         /\ pvLast' = IF new THEN GroupEnd(pvLast) ELSE pvLast
  /\ \E a, b \in game.bounds : a < b /\ alpha' = a /\ beta' = b
  /\ bestValue' = NoScore
  /\ todo' = {lines[i].move : i \in pvIdx..pvLast' - 1}
  /\ UNCHANGED <<theGame, board, ranking, stop, rootDepth, lines, pvIdx, lastBest, vote, shown>>

At(m) == CHOOSE i \in DOMAIN lines : lines[i].move = m
FirstMove == lines[pvIdx].move \in todo

\* What search may return for the move: a mate within the window is one.
Returns(m, v) ==
  /\ is_win(v) /\ v > Max({alpha, bestValue}) => game.worth[m] >= v
  /\ is_loss(v) /\ v < beta => game.worth[m] <= v

\* Steps 14 to 22 at the root: the first move is that of the line.
SearchRootMove(m, v) ==
  /\ pc = "search" /\ ~stop /\ m \in todo /\ bestValue < beta
  /\ FirstMove => m = lines[pvIdx].move
  /\ Returns(m, v)
  /\ lines' = [lines EXCEPT ![At(m)] =
       IF FirstMove \/ v > Max({alpha, bestValue})
       THEN [@ EXCEPT !.score = v, !.lower = v >= beta,
                           !.upper = v < beta /\ v <= Max({alpha, bestValue})]
       ELSE [@ EXCEPT !.score = NoScore]]
  /\ bestValue' = Max({bestValue, v})
  /\ todo' = todo \ {m}
  /\ UNCHANGED <<theGame, board, ranking, pc, stop, rootDepth, group, alpha, beta, lastBest, vote, shown>>

\* All is searched, a move fails high, or the search is stopped; the lines behind
\* the one that is searched are sorted.
EndRootSearch ==
  /\ Goto("search", "searched") /\ (stop \/ todo = {} \/ bestValue >= beta)
  /\ lines' = StableSort(lines, pvIdx, pvLast - 1)
  /\ UNCHANGED <<theGame, board, ranking, stop, rootDepth, group, window, lastBest, vote, shown>>

\* A score outside the window: search again in another.
SearchAgain ==
  /\ Goto("searched", "search") /\ ~stop
  /\ \E a, b \in game.bounds :
       /\ alpha' = a /\ beta' = b
       /\ \/ bestValue <= alpha /\ a < alpha /\ b = alpha
          \/ bestValue >= beta /\ alpha <= a /\ a < beta /\ b > bestValue
  /\ bestValue' = NoScore
  /\ todo' = {lines[i].move : i \in pvIdx..pvLast - 1}
  /\ UNCHANGED <<theGame, board, ranking, stop, rootDepth, lines, group, lastBest, vote, shown>>

LeaveWindow ==
  /\ Goto("searched", "lineDone") /\ (stop \/ (alpha < bestValue /\ bestValue < beta))
  /\ UNCHANGED <<theGame, board, ranking, stop, rootDepth, lines, group, window, lastBest, vote, shown>>

\* Mutant: the line that was being searched keeps its loss.
KeepAborted(s) == s

\* The search of line pvIdx was aborted, after one that is complete: a loss it has
\* found gives way to the previous score, or is marked as a bound.
GuardAborted(s) ==
  LET this == s[pvIdx]
      before == s[pvIdx - 1].score
      doubtful == (is_loss(before) /\ Ahead(this, s[pvIdx - 1])) \/ is_exact_loss(this)
      mine == IF ~doubtful THEN this
              ELSE IF this.previous # NoScore /\ this.previousExact /\ this.previous <= before
              THEN [Exactly(this, this.previous) EXCEPT !.previous = NoScore]
              ELSE IF is_loss(before)
              THEN [this EXCEPT !.score = before, !.previous = NoScore, !.upper = TRUE, !.lower = FALSE]
              ELSE [this EXCEPT !.upper = FALSE, !.lower = TRUE]
  IN  [i \in DOMAIN s |->
        IF i = pvIdx THEN mine
        ELSE IF pvIdx < i /\ i <= LineCount /\ is_exact_loss(s[i]) THEN [s[i] EXCEPT !.lower = TRUE]
        ELSE s[i]]

EndLine ==
  /\ Goto("lineDone", "sorted")
  /\ lines' = StableSort(IF stop /\ pvIdx > 1 THEN GuardAborted(lines) ELSE lines, pvFirst, pvIdx)
  /\ UNCHANGED <<theGame, board, ranking, stop, rootDepth, group, window, lastBest, vote, shown>>

NextLine ==
  /\ pc = "sorted"
  /\ pc' = IF stop \/ pvIdx = LineCount THEN "iterated" ELSE "line"
  /\ pvIdx' = IF stop THEN pvIdx ELSE pvIdx + 1
  /\ UNCHANGED <<theGame, board, ranking, stop, rootDepth, lines, pvFirst, pvLast, window, lastBest,
                 vote, shown>>

forgottenMate ==
  /\ lastBest.score # NoScore /\ is_mate_or_mated(lastBest.score)
  /\ Magnitude(lines[1].score) < Magnitude(lastBest.score) \/ is_inexact(lines[1])
abortedLossSearch == stop /\ pvIdx = 1 /\ is_exact_loss(lines[1])

MoveToFront(s, m) == LET rest == SelectSeq(s, LAMBDA rm : rm.move # m)
                     IN  <<s[At(m)]>> \o rest

\* Mutant: every completed iteration counts.
LatestBest == [move |-> lines[1].move, score |-> lines[1].score]

\* What a completed iteration leaves as the best move: no longer mate than before.
NewBest == IF forgottenMate THEN lastBest ELSE [move |-> lines[1].move, score |-> lines[1].score]

\* Mutant: the loss an aborted search has found stands.
KeepAbortedLoss ==
  IF lines[1].score # NoScore /\ forgottenMate /\ lastBest.move # 0
  THEN LET s == MoveToFront(lines, lastBest.move) IN [s EXCEPT ![1] = Exactly(@, lastBest.score)]
  ELSE lines

\* A loss that an aborted search has found, or a mate that is lost again: the last
\* best move comes back.
RolledBack ==
  IF ~abortedLossSearch /\ ~(lines[1].score # NoScore /\ forgottenMate) THEN lines
  ELSE IF lastBest.move # 0
  THEN LET s == MoveToFront(lines, lastBest.move) IN [s EXCEPT ![1] = Exactly(@, lastBest.score)]
  ELSE IF abortedLossSearch THEN [lines EXCEPT ![1].lower = TRUE]
  ELSE lines

EndIteration ==
  /\ Goto("iterated", "deepen")
  /\ lastBest' = IF stop THEN lastBest ELSE NewBest
  /\ lines' = RolledBack
  /\ UNCHANGED <<theGame, board, ranking, stop, rootDepth, group, window, vote, shown>>

FinishThread ==
  /\ pc = "deepen" /\ (stop \/ rootDepth >= game.depth)
  /\ results' = Append(results, lines[1])
  /\ pc' = IF Len(results') < game.threads THEN "start" ELSE "vote"
  /\ stop' = FALSE
  /\ UNCHANGED <<theGame, board, ranking, rootDepth, lines, group, window, lastBest, answer, shown>>
-----------------------------------------------------------------------------
(* get_best_thread *)

Decisive(rm) == rm.score # NoScore /\ is_decisive(rm.score) /\ ~is_inexact(rm)
votes(m) ==
  LET minScore == Min({results[k].score : k \in DOMAIN results})
  IN  FoldLeft(LAMBDA v, rm : IF rm.move = m THEN v + rm.score - minScore + 14 ELSE v, 0, results)

\* Mutant: a mate may be outvoted.
MatesAreOutvoted(new, best, longer) ==
  /\ ~is_loss(new.score)
  /\ \/ votes(new.move) > votes(best.move)
     \/ votes(new.move) = votes(best.move) /\ longer

\* Does the new thread replace the best one?  longer: is its line longer?
Better(new, best, longer) ==
  IF Decisive(best) THEN Decisive(new) /\ Magnitude(new.score) > Magnitude(best.score)
  ELSE \/ Decisive(new)
       \/ /\ ~is_loss(new.score)
          /\ \/ votes(new.move) > votes(best.move)
             \/ votes(new.move) = votes(best.move) /\ longer

Vote ==
  /\ Goto("vote", "answered")
  /\ \E longer \in [DOMAIN results -> BOOLEAN] :
       LET best == FoldLeft(LAMBDA b, k : IF Better(results[k], results[b], longer[k]) THEN k ELSE b,
                            1, [k \in DOMAIN results |-> k])
       IN  answer' = results[best]
  /\ UNCHANGED <<theGame, board, ranking, stop, rootDepth, lines, group, window, lastBest, results, shown>>
-----------------------------------------------------------------------------
(* output_pv and syzygy_extend_pv: a line with a win or a loss by the tables is *)
(* kept as far as the tables agree with it, and continued to its end            *)

\* The win or loss, if any, that a rank is shown as.
TBScore(by, rank) ==
  LET bound == IF by = "dtz" THEN MAX_DTZ \div 2 - RULE50 ELSE MAX_DTZ
  IN  IF rank >= bound THEN 1 ELSE IF rank <= -bound THEN -1 ELSE 0
Top(ranks) == Max({ranks[m] : m \in DOMAIN ranks})

ShowLine ==
  /\ Goto("answered", "walk") /\ rankedBy # "none"
  /\ \E i \in 1..LineCount :
       /\ lines[i].score # NoScore /\ TBScore(rankedBy, lines[i].tbRank) # 0
       /\ shown' = [at |-> After(board, lines[i].move), ply |-> 1, passed |-> {},
                    v |-> TBScore(rankedBy, lines[i].tbRank), done |-> FALSE]
  /\ UNCHANGED <<theGame, board, ranking, stop, rootDepth, lines, group, window, lastBest, vote>>

ShowMove(m) == shown' = [shown EXCEPT !.at = After(@, m), !.ply = @ + 1,
                                      !.passed = @ \cup {shown.at.node}]

\* Mutant: the moves that the search has found are shown as they are.
NotWorse(m) == TRUE

\* The move that the search has found is among the best by the tables, and draws nothing.
Validated(m) ==
  /\ Ranks(shown.at, FALSE).rank[m] = Top(Ranks(shown.at, FALSE).rank)
  /\ \/ Ranks(shown.at, FALSE).by = "none"
     \/ /\ ~is_draw(After(shown.at, m))
        /\ To(game, shown.at.node, m) \notin shown.passed
WalkLine ==
  /\ Goto("walk", "walk")
  /\ \E m \in Legal(game, shown.at.node) : Validated(m) /\ ShowMove(m)
  /\ UNCHANGED <<theGame, board, ranking, stop, rootDepth, lines, group, window, lastBest, vote>>

\* The line of the search ends, or is cut where the tables object.
EndWalk ==
  /\ Goto("walk", "extend")
  /\ UNCHANGED <<theGame, board, ranking, stop, rootDepth, lines, group, window, lastBest, vote, shown>>

\* Ties are broken by the replies that are left, captures above all.
Freedom(b, m) ==
  FoldSet(LAMBDA r, n : n + (IF IsCapture(game, To(game, b.node, m), r) THEN 100 ELSE 1), 0,
          Legal(game, To(game, b.node, m)))
BestMove(b, rank) ==
  LET best == {m \in DOMAIN rank : rank[m] = Top(rank)}
  IN  Min({m \in best : \A k \in best : Freedom(b, m) <= Freedom(b, k)})
Guided(r) == r.by = "dtz" \/ (r.by = "wdl" /\ Top(r.rank) <= 0)

ExtendLine ==
  /\ Goto("extend", "extend") /\ ~Over(shown.at)
  /\ Guided(Ranks(shown.at, TRUE))
  /\ ShowMove(BestMove(shown.at, Ranks(shown.at, TRUE).rank))
  /\ UNCHANGED <<theGame, board, ranking, stop, rootDepth, lines, group, window, lastBest, vote>>

\* Mutant: a line that ends in a draw keeps its score.
ScoreKept == shown.v

\* A draw after all is shown as one.
ScoreShown == IF is_draw(shown.at) THEN 0 ELSE shown.v

\* The end, no more help from the tables, or no more time.
EndLineShown ==
  /\ Goto("extend", "shown")
  /\ shown' = [shown EXCEPT !.v = ScoreShown, !.done = Over(shown.at)]
  /\ UNCHANGED <<theGame, board, ranking, stop, rootDepth, lines, group, window, lastBest, vote>>
-----------------------------------------------------------------------------
(* The game goes on *)

Move(m) ==
  /\ board' = After(board, m)
  /\ lines' = <<>> /\ results' = <<>> /\ answer' = NoBest /\ lastBest' = NoBest /\ shown' = NoLine
  /\ UNCHANGED <<theGame, ranking, stop, rootDepth, group, window>>

PlayAnswer ==
  /\ game.tables # "none" /\ (Goto("answered", "reply") \/ Goto("shown", "reply"))
  /\ Move(answer.move)
PlayReply == ~Over(board) /\ Goto("reply", "rank") /\ \E m \in Legal(game, board.node) : Move(m)

Next ==
  \/ RankRootMoves \/ StartThread \/ Stop \/ NextDepth \/ BeginLine
  \/ \E m \in todo, v \in game.scores : SearchRootMove(m, v)
  \/ EndRootSearch \/ SearchAgain \/ LeaveWindow \/ EndLine \/ NextLine \/ EndIteration
  \/ FinishThread \/ Vote
  \/ ShowLine \/ WalkLine \/ EndWalk \/ ExtendLine \/ EndLineShown
  \/ PlayAnswer \/ PlayReply

Spec == Init /\ [][Next]_vars
-----------------------------------------------------------------------------
(* Properties *)

\* What line i would be shown with, if not as a bound only.
Shown(i) ==
  LET rm == lines[i]
  IN  IF rm.score = NoScore THEN rm.previous ELSE IF is_inexact(rm) THEN NoScore ELSE rm.score
\* A loss of a line that has had its search is one for all moves behind it.
Earned(i, v) ==
  /\ is_win(v) => game.worth[lines[i].move] >= v
  /\ is_loss(v) /\ v # NoScore =>
       \A j \in i..IF i > pvIdx THEN i ELSE Len(lines) :
         lines[j].tbRank = lines[i].tbRank => game.worth[lines[j].move] <= v

\* However the search is aborted, a mate that a line is shown with, or that goes
\* into the vote, is one: the move wins as fast as that, and if it loses then so do
\* all that are ranked behind it.
LinesAreEarned ==
  \/ pc = "sorted" /\ ~stop
  \/ pc = "deepen" /\ (stop \/ rootDepth >= game.depth)
  => \A i \in 1..LineCount : Earned(i, Shown(i))

\* A mate that a completed iteration has found is never given up for a longer one,
\* nor are the mates of the threads when they vote.
MatesAreKept ==
  /\ [][is_mate_or_mated(lastBest.score) /\ lastBest.score # NoScore /\ pc = "iterated"
        /\ pc' = "deepen" =>
          /\ Magnitude(lastBest'.score) >= Magnitude(lastBest.score)
          /\ Magnitude(lines'[1].score) >= Magnitude(lastBest'.score)]_vars
  /\ [](pc = "answered" => \A k \in DOMAIN results :
          Decisive(results[k]) =>
            Decisive(answer) /\ Magnitude(answer.score) >= Magnitude(results[k].score))

\* The tables leave out what can be captured, keep one side only, and count in moves;
\* the game remembers repetitions and plies: still whoever plays what is ranked first
\* loses nothing of what the position was worth, on this move and all those after it.
RankedMovesKeepTheResult ==
  /\ pc = "reply" => IF rankedBy = "wdl" THEN -game.wdl[board.node] >= promised
                     ELSE -Worth(board) >= promised
  /\ pc = "rank" /\ rankedBy = "dtz" => Worth(board) >= promised

\* With all the tables there, a line that is shown as a win or a loss by them is one: it
\* is never what the search has found and the tables do not confirm, however early the
\* checking stops; and if nothing stops it, the line ends with the mate, or the score is
\* a draw after all, which only distances in moves can bring about.
ShownLinesKeepTheScore ==
  pc = "shown" /\ tables.missing = {} =>
    LET mover == IF shown.ply % 2 = 0 THEN 1 ELSE -1
    IN  /\ tables.plies => Worth(shown.at) * mover = shown.v
        /\ shown.done => shown.v = 0 \/ (IsMate(game, shown.at.node) /\ shown.v = -mover)
=============================================================================
