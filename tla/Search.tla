---- MODULE Search ----
(* Worker::search and Worker::qsearch on a game given as a graph: one frame *)
(* of the stack per call.  Which move is good is data; what the code prunes, *)
(* reduces or takes from the table is control, and its margins, which are  *)
(* tuned numbers, are choices within the guards that are not.              *)
EXTENDS SearchValues, Sequences, SequencesExt, FiniteSets, FiniteSetsExt

\* A game: moves[n] the positions after the moves of n in the order they are
\* picked, captures[n] those after its captures; zeroing: the moves (pairs) that
\* reset the fifty moves; check, pawns, tables: the positions in check, with
\* pawns only, in the tablebases; eval[n] the evaluation of n; null[n] the
\* position with the other side to move, or NoMove.
CONSTANTS Games,
          Windows,      \* the aspiration windows of root searches
          Depths,       \* their depths
          MaxSearches,  \* bound on their number
          MaxChoices,   \* bound on the prunings and reductions taken
          RULE50_TT,    \* 96: no cutoffs by the table from there on
          VERIFY_DEPTH  \* 16: null moves are verified from there on

NoMove == 0
Margin == 1             \* stands for the tuned margins
NullReduction == 1
DEPTH_QS == 0
BOUND_LOWER == {"lower"}
BOUND_UPPER == {"upper"}
BOUND_EXACT == BOUND_LOWER \cup BOUND_UPPER

\* A position appears once among the moves of another; evaluations are never
\* decisive.
IsGame(x) ==
    LET nodes == DOMAIN x.moves
    IN  /\ NoMove \notin nodes /\ x.root \in nodes /\ x.rule50 \in Nat
        /\ x.moves \in [nodes -> Seq(nodes)] /\ x.captures \in [nodes -> Seq(nodes)]
        /\ \A n \in nodes : /\ IsInjective(x.moves[n]) /\ IsInjective(x.captures[n])
                            /\ Range(x.captures[n]) \subseteq Range(x.moves[n])
        /\ x.eval \in [nodes -> Int] /\ \A n \in nodes : ~is_decisive(x.eval[n])
        /\ x.null \in [nodes -> nodes \cup {NoMove}]
ASSUME GameAssumption ==
    /\ \A i \in DOMAIN Games : IsGame(Games[i])
    /\ \A w \in Windows : /\ w[1] \in Int /\ w[2] \in Int
                          /\ -VALUE_INFINITE <= w[1] /\ w[1] < w[2] /\ w[2] <= VALUE_INFINITE
    /\ Depths \subseteq Nat \ {0}
    /\ MaxSearches \in Nat /\ MaxChoices \in Nat /\ RULE50_TT \in Nat /\ VERIFY_DEPTH \in Nat

NoEntry == [move |-> NoMove, value |-> VALUE_NONE, bound |-> {}, depth |-> -3, pv |-> FALSE, gen |-> 0]

\* tt: the entries by position; pvs[ply]: the frame whose local list ss->pv
\* points to, 0 for nullptr; result: what the last call returned.
VARIABLES g, stack, result, tt, pvs, rootPv, nmpMinPly, stopped, choices, searches

vars == <<g, stack, result, tt, pvs, rootPv, nmpMinPly, stopped, choices, searches>>

game == Games[g]

\* What a position is worth when both sides play best, seen from itself: the
\* reference the answers of the search are compared with.
Further(v) == IF is_win(v) THEN v - 1 ELSE IF is_loss(v) THEN v + 1 ELSE v
Worth(x, fifty) ==
    LET worth[n \in DOMAIN x.moves, r \in 0..(RULE50 + 1)] ==
            IF x.moves[n] = <<>> THEN IF n \in x.check THEN mated_in(0) ELSE 0
            ELSE IF fifty /\ r >= RULE50 THEN 0
            ELSE Max({Further(-worth[m, IF ~fifty \/ <<n, m>> \in x.zeroing THEN 0 ELSE r + 1]) :
                      m \in Range(x.moves[n])})
    IN  worth
Truth == [x \in DOMAIN Games |-> Worth(Games[x], TRUE)]
\* The same without the fifty-move rule.
FreeTruth == [x \in DOMAIN Games |-> Worth(Games[x], FALSE)]

Frame(fn, n, r50, ply, pv, a, b, depth, cut) ==
    [fn |-> fn, node |-> n, rule50 |-> r50, ply |-> ply, PvNode |-> pv, alpha0 |-> a, beta0 |-> b,
     alpha |-> a, beta |-> b, depth |-> depth, cutNode |-> cut, isNull |-> FALSE,
     excluded |-> NoMove, at |-> "enter", tt |-> NoEntry, ttPv |-> FALSE, eval |-> 0,
     best |-> -VALUE_INFINITE, max |-> VALUE_INFINITE, bestMove |-> NoMove, left |-> <<>>,
     count |-> 0, move |-> NoMove, newDepth |-> 0, reduced |-> 0, nullValue |-> 0, line |-> <<>>]

f == Last(stack)
Running(at) == stack # <<>> /\ result = <<>> /\ f.at = at
Answered(at) == stack # <<>> /\ result # <<>> /\ f.at = at
answer == -result[1].value

With(frame) == stack' = Append(Front(stack), frame) /\ result' = <<>>
Call(frame, callee) == stack' = Front(stack) \o <<frame, callee>> /\ result' = <<>>
Return(v) == stack' = Front(stack) /\ result' = <<[frame |-> f, value |-> v]>>

InCheck(n) == n \in game.check
Capture(n, m) == m \in Range(game.captures[n])
After(m) == IF <<f.node, m>> \in game.zeroing THEN 0 ELSE f.rule50 + 1
is_draw(frame) ==
    frame.rule50 >= RULE50 /\ (~InCheck(frame.node) \/ game.moves[frame.node] # <<>>)
Between(a, b, weight) == (a * weight + b) \div (weight + 1)

\* MovePicker: the hash move first.
Picked(all, ttm) ==
    IF ttm \in Range(game.moves[f.node]) THEN <<ttm>> \o RemoveFirst(all, ttm) ELSE all

\* The call for the position after m; a null window makes it a NonPV node.
Child(m, pv, a, b, depth, cut) == Frame("search", m, After(m), f.ply + 1, pv, a, b, depth, cut)
QChild(m, pv, a, b) == Frame("qsearch", m, After(m), f.ply + 1, pv, a, b, 0, FALSE)

\* A pruning or a reduction the margins may or may not allow.
Choose == choices > 0 /\ choices' = choices - 1

\* TTEntry::save, for an entry that was found by its key or replaces another.
Saved(old, new) ==
    IF \/ old = NoEntry \/ new.bound = BOUND_EXACT \/ old.gen # new.gen
       \/ new.depth + 3 + (IF new.pv THEN 2 ELSE 0) > old.depth + 3 - 4
    THEN [new EXCEPT !.move = IF new.move # NoMove THEN new.move ELSE old.move]
    ELSE [old EXCEPT !.move = IF new.move # NoMove THEN new.move ELSE @,
                     !.depth = IF old.depth >= 5 /\ old.bound # BOUND_EXACT /\ is_decisive(old.value)
                               THEN @ - 1 ELSE @]
Found(n) == IF n \in DOMAIN tt THEN tt[n] ELSE NoEntry
Write(n, v, pv, bound, depth, m) ==
    LET new == [move |-> m, value |-> value_to_tt(v, f.ply), bound |-> bound, depth |-> depth,
                pv |-> pv, gen |-> searches]
    IN  tt' = [x \in DOMAIN tt \cup {n} |-> IF x = n THEN Saved(Found(n), new) ELSE tt[x]]

\* What an entry says of the position, seen from the root.
Probed(e) == [e EXCEPT !.value = value_from_tt(@, f.ply, f.rule50),
                       !.move = IF f.fn = "search" /\ f.ply = 0
                                THEN IF rootPv = <<>> THEN NoMove ELSE Head(rootPv) ELSE @]
Supports(e, v, threshold) == (IF v >= threshold THEN BOUND_LOWER ELSE BOUND_UPPER) \subseteq e.bound

----
\* search<Root>, with the stack and nmpMinPly as start_thinking leaves them.
StartSearch ==
    /\ stack = <<>> /\ result = <<>> /\ searches < MaxSearches
    /\ \E w \in Windows, d \in Depths :
         stack' = <<Frame("search", game.root, game.rule50, 0, TRUE, w[1], w[2], d, FALSE)>>
    /\ searches' = searches + 1
    /\ stopped' = FALSE /\ nmpMinPly' = 0
    /\ UNCHANGED <<g, result, tt, pvs, rootPv, choices>>
EndSearch ==
    /\ stack = <<>> /\ result # <<>>
    /\ result' = <<>>
    /\ UNCHANGED <<g, stack, tt, pvs, rootPv, nmpMinPly, stopped, choices, searches>>
\* threads.stop, set by another thread at any moment.
Stop ==
    /\ stack # <<>> /\ ~stopped
    /\ stopped' = TRUE
    /\ UNCHANGED <<g, stack, result, tt, pvs, rootPv, nmpMinPly, choices, searches>>

\* Steps 1 to 3: quiescence, an aborted search or a draw, mate distances.
Enter ==
    /\ Running("enter") /\ f.fn = "search"
    /\ LET alpha == IF f.ply = 0 THEN f.alpha ELSE Max({mated_in(f.ply), f.alpha})
           beta  == IF f.ply = 0 THEN f.beta ELSE Min({mate_in(f.ply + 1), f.beta})
       IN  IF f.depth <= 0 THEN With([f EXCEPT !.fn = "qsearch"])
           ELSE IF f.ply > 0 /\ (stopped \/ is_draw(f) \/ f.ply >= MAX_PLY)
           THEN IF f.ply >= MAX_PLY /\ ~InCheck(f.node) THEN Return(game.eval[f.node])
                ELSE \E noise \in {-1, 1} : Return(noise)
           ELSE IF alpha >= beta THEN Return(alpha)
           ELSE With([f EXCEPT !.alpha = alpha, !.beta = beta, !.at = "probe",
                               !.depth = Min({@, MAX_PLY - 1})])
    /\ UNCHANGED <<g, tt, pvs, rootPv, nmpMinPly, stopped, choices, searches>>

\* Steps 4 to 6: the table, the evaluation, and a cutoff at NonPV nodes.  The
\* entry may have been replaced by that of another position.
Cutoff(e) ==
    /\ ~f.PvNode /\ f.excluded = NoMove
    /\ is_valid(e.value)
    /\ e.depth > f.depth - (IF e.value <= f.beta THEN 1 ELSE 0)
    /\ Supports(e, e.value, f.beta)
    /\ f.cutNode = (e.value >= f.beta) \/ f.depth > 4
    /\ f.rule50 < RULE50_TT
Probe ==
    /\ Running("probe")
    /\ \E found \in {Found(f.node), NoEntry} :
         LET e == Probed(found)
             static == game.eval[f.node]
             eval == IF is_valid(e.value) /\ f.excluded = NoMove /\ Supports(e, e.value, static + 1)
                     THEN e.value ELSE static
         IN  /\ IF found = Found(f.node) THEN UNCHANGED choices ELSE Choose
             /\ IF Cutoff(e) THEN Return(e.value)
                ELSE With([f EXCEPT !.tt = e, !.eval = eval, !.at = "tables",
                                    !.ttPv = IF f.excluded # NoMove THEN @ ELSE f.PvNode \/ e.pv])
    /\ UNCHANGED <<g, tt, pvs, rootPv, nmpMinPly, stopped, searches>>

\* Step 7: what the tablebases prove, trusted where the fifty moves begin.
Tablebases ==
    /\ Running("tables")
    /\ LET truth == Truth[g][f.node, 0]
           bound == IF truth > 0 THEN BOUND_LOWER ELSE IF truth < 0 THEN BOUND_UPPER ELSE BOUND_EXACT
           value == IF truth > 0 THEN VALUE_TB - f.ply ELSE IF truth < 0 THEN f.ply - VALUE_TB ELSE 0
           enough == \/ bound = BOUND_EXACT
                     \/ IF bound = BOUND_LOWER THEN value >= f.beta ELSE value <= f.alpha
       IN  IF ~(f.ply > 0 /\ f.excluded = NoMove /\ f.node \in game.tables /\ f.rule50 = 0)
           THEN With([f EXCEPT !.at = "prune"]) /\ UNCHANGED tt
           ELSE IF enough
           THEN /\ Write(f.node, value, f.ttPv, bound, Min({MAX_PLY - 1, f.depth + 6}), NoMove)
                /\ Return(value)
           ELSE /\ With([f EXCEPT !.at = "prune",
                          !.best = IF f.PvNode /\ bound = BOUND_LOWER THEN value ELSE @,
                          !.alpha = IF f.PvNode /\ bound = BOUND_LOWER THEN Max({@, value}) ELSE @,
                          !.max = IF f.PvNode /\ bound = BOUND_UPPER THEN value ELSE @])
                /\ UNCHANGED tt
    /\ UNCHANGED <<g, pvs, rootPv, nmpMinPly, stopped, choices, searches>>

\* Step 8: the quiescence search decides.
Razor ==
    /\ Running("prune") /\ ~InCheck(f.node)
    /\ ~f.PvNode /\ f.eval < f.alpha
    /\ Choose
    /\ With([f EXCEPT !.fn = "qsearch", !.at = "enter"])
    /\ UNCHANGED <<g, tt, pvs, rootPv, nmpMinPly, stopped, searches>>

\* Step 9.
Futility ==
    /\ Running("prune") /\ ~InCheck(f.node)
    /\ ~f.ttPv /\ f.eval >= f.beta
    /\ f.tt.move = NoMove \/ Capture(f.node, f.tt.move)
    /\ ~is_loss(f.beta) /\ ~is_win(f.eval)
    /\ Choose
    /\ Return(Between(f.eval, f.beta, 1))
    /\ UNCHANGED <<g, tt, pvs, rootPv, nmpMinPly, stopped, searches>>

\* Step 10: the other side moves twice, and if that does not help it the
\* position is good enough; at high depths a search without null moves confirms.
NullMove ==
    /\ Running("prune") /\ ~InCheck(f.node)
    /\ f.cutNode /\ game.eval[f.node] >= f.beta /\ f.excluded = NoMove
    /\ f.node \notin game.pawns /\ f.ply >= nmpMinPly /\ ~is_loss(f.beta)
    /\ game.null[f.node] # NoMove
    /\ Choose
    /\ Call([f EXCEPT !.at = "null"],
            [Frame("search", game.null[f.node], f.rule50, f.ply + 1, FALSE, -f.beta, -f.beta + 1,
                   f.depth - NullReduction, FALSE) EXCEPT !.isNull = TRUE])
    /\ UNCHANGED <<g, tt, pvs, rootPv, nmpMinPly, stopped, searches>>
\* Mutant: a mate that only the pass allowed is returned.
FailsHighAnyhow(v) == v >= f.beta
\* Unproven mate scores are not returned.
NullFailsHigh(v) == v >= f.beta /\ ~is_win(v)
AfterNullMove ==
    /\ Answered("null")
    /\ IF ~NullFailsHigh(answer) THEN With([f EXCEPT !.at = "probcut"]) /\ UNCHANGED nmpMinPly
       ELSE IF nmpMinPly # 0 \/ f.depth < VERIFY_DEPTH THEN Return(answer) /\ UNCHANGED nmpMinPly
       ELSE /\ Call([f EXCEPT !.at = "verify", !.nullValue = answer],
                    Frame("search", f.node, f.rule50, f.ply, FALSE, f.beta - 1, f.beta,
                          f.depth - NullReduction, FALSE))
            /\ nmpMinPly' = f.ply + (3 * (f.depth - NullReduction)) \div 4
    /\ UNCHANGED <<g, tt, pvs, rootPv, stopped, choices, searches>>
AfterVerification ==
    /\ Answered("verify")
    /\ nmpMinPly' = 0
    /\ IF result[1].value >= f.beta THEN Return(f.nullValue) ELSE With([f EXCEPT !.at = "probcut"])
    /\ UNCHANGED <<g, tt, pvs, rootPv, stopped, choices, searches>>

\* Step 12: a good capture, looked at by quiescence and then by a shallow search.
probCutBeta == f.beta + Margin
ProbCut ==
    /\ Running("prune") \/ Running("probcut")
    /\ ~InCheck(f.node) /\ f.depth >= 3 /\ ~is_decisive(f.beta)
    /\ ~(is_valid(f.tt.value) /\ f.tt.value < probCutBeta)
    /\ Choose
    /\ \E m \in Range(game.moves[f.node]) \ {f.excluded} :
         /\ Capture(f.node, m)
         /\ Call([f EXCEPT !.at = "probcut quiet", !.move = m],
                 QChild(m, FALSE, -probCutBeta, -probCutBeta + 1))
    /\ UNCHANGED <<g, tt, pvs, rootPv, nmpMinPly, stopped, searches>>
AfterProbCut ==
    /\ Answered("probcut quiet") \/ Answered("probcut")
    /\ IF answer < probCutBeta THEN With([f EXCEPT !.at = "probcut"]) /\ UNCHANGED tt
       ELSE IF f.at = "probcut quiet" /\ f.depth > 3
       THEN /\ Call([f EXCEPT !.at = "probcut"],
                    Child(f.move, FALSE, -probCutBeta, -probCutBeta + 1, f.depth - 3, ~f.cutNode))
            /\ UNCHANGED tt
       ELSE /\ Write(f.node, answer, f.ttPv, BOUND_LOWER, f.depth - 2, f.move)
            /\ IF is_decisive(answer) THEN With([f EXCEPT !.at = "probcut"])
               ELSE Return(answer - Margin)
    /\ UNCHANGED <<g, pvs, rootPv, nmpMinPly, stopped, choices, searches>>

\* Step 13, and the moves of the position.
BeginMoves ==
    /\ Running("prune") \/ Running("probcut")
    /\ IF /\ BOUND_LOWER \subseteq f.tt.bound /\ f.tt.depth >= f.depth - 4
          /\ f.tt.value >= f.beta + 2 * Margin
          /\ ~is_decisive(f.beta) /\ is_valid(f.tt.value) /\ ~is_decisive(f.tt.value)
       THEN Return(f.beta + 2 * Margin)
       ELSE With([f EXCEPT !.at = "loop", !.left = Picked(game.moves[f.node], f.tt.move)])
    /\ UNCHANGED <<g, tt, pvs, rootPv, nmpMinPly, stopped, choices, searches>>

\* Step 14: the next move; one that is excluded is not searched.
next == Head(f.left)
Skip == [f EXCEPT !.left = Tail(@)]
Taken == [Skip EXCEPT !.move = next, !.count = @ + 1]
SkipExcluded ==
    /\ Running("loop") /\ f.left # <<>> /\ next = f.excluded
    /\ With(Skip)
    /\ UNCHANGED <<g, tt, pvs, rootPv, nmpMinPly, stopped, choices, searches>>

\* Step 15: a move is pruned once some move does not lose; futility may take
\* the place of the best value.
MayPrune == f.ply > 0 /\ f.node \notin game.pawns /\ ~is_loss(f.best)
PruneMove ==
    /\ Running("loop") /\ f.left # <<>> /\ next # f.excluded
    /\ MayPrune
    /\ Choose
    /\ LET futilityValue == Min({f.alpha, VALUE_TB_WIN_IN_MAX_PLY - 1})
           raised == ~InCheck(f.node) /\ f.best <= futilityValue /\ ~is_decisive(f.best)
       IN  \E best \in {f.best} \cup (IF raised THEN {futilityValue} ELSE {}) :
             With([Skip EXCEPT !.count = @ + 1, !.best = best])
    /\ UNCHANGED <<g, tt, pvs, rootPv, nmpMinPly, stopped, searches>>

\* Step 16: is the hash move the only good one?  The others are searched at
\* this very ply, with a bound below the hash move's.
singularBeta == f.tt.value - Margin
Singular ==
    /\ Running("loop") /\ f.left # <<>> /\ next = f.tt.move
    /\ f.ply > 0 /\ f.excluded = NoMove /\ f.depth >= 2
    /\ is_valid(f.tt.value) /\ ~is_decisive(f.tt.value)
    /\ BOUND_LOWER \subseteq f.tt.bound /\ f.tt.depth >= f.depth - 3
    /\ Choose
    /\ Call([f EXCEPT !.at = "singular"],
            [Frame("search", f.node, f.rule50, f.ply, FALSE, singularBeta - 1, singularBeta,
                   (f.depth - 1) \div 2, f.cutNode) EXCEPT !.excluded = next, !.ttPv = f.ttPv])
    /\ UNCHANGED <<g, tt, pvs, rootPv, nmpMinPly, stopped, searches>>

\* Steps 17 to 20: the move is made; a late move is searched with a null window
\* first, perhaps at a reduced depth.
Pv(frame, depth) ==
    /\ Call([frame EXCEPT !.at = "pv", !.line = <<>>],
            Child(frame.move, TRUE, -f.beta, -f.alpha,
                  IF frame.move = f.tt.move /\ is_valid(f.tt.value)
                     /\ ((is_decisive(f.tt.value) /\ f.tt.depth > 0) \/ f.tt.depth > 1)
                  THEN Max({depth, 1}) ELSE depth, FALSE))
    /\ pvs' = [pvs EXCEPT ![f.ply + 1] = Len(stack)]
\* Mutant: the window is not null.
WholeWindow(frame, at, depth, cut) ==
    Call([frame EXCEPT !.at = at, !.reduced = depth],
         Child(frame.move, FALSE, -f.beta, -f.alpha, depth, cut))
ZeroWindow(frame, at, depth, cut) ==
    Call([frame EXCEPT !.at = at, !.reduced = depth],
         Child(frame.move, FALSE, -(f.alpha + 1), -f.alpha, depth, cut))
\* Mutant: the list of the move before is left in place.
NotCleared == pvs
Cleared == IF f.PvNode THEN [pvs EXCEPT ![f.ply + 1] = 0] ELSE pvs
SearchMove(frame) ==
    LET newDepth == frame.newDepth
        cut == IF f.PvNode THEN TRUE ELSE ~f.cutNode
    IN  IF f.depth >= 2 /\ frame.count > 1
        THEN /\ pvs' = Cleared
             /\ \/ ZeroWindow(frame, "reduced", Max({1, newDepth}), TRUE) /\ UNCHANGED choices
                \/ newDepth > 1 /\ ZeroWindow(frame, "reduced", 1, TRUE) /\ Choose
        ELSE IF ~f.PvNode \/ frame.count > 1
        THEN /\ pvs' = Cleared /\ UNCHANGED choices
             /\ ZeroWindow(frame, "full", newDepth, cut)
        ELSE Pv(frame, newDepth) /\ UNCHANGED choices
MakeMove ==
    /\ Running("loop") /\ f.left # <<>> /\ next # f.excluded
    /\ SearchMove([Taken EXCEPT !.newDepth = f.depth - 1])
    /\ UNCHANGED <<g, tt, rootPv, nmpMinPly, stopped, searches>>
\* A singular hash move is extended; if another move is as good, the position
\* is good enough without any proof.
AfterSingular ==
    /\ Answered("singular")
    /\ LET v == result[1].value
       IN  IF v >= f.beta /\ v >= singularBeta /\ ~is_decisive(v)
           THEN Return(v) /\ UNCHANGED <<pvs, choices>>
           ELSE SearchMove([Taken EXCEPT
                  !.depth = @ + (IF v < singularBeta THEN 1 ELSE 0),
                  !.newDepth = f.depth - 1 + (IF v < singularBeta THEN 1
                                              ELSE IF f.tt.value >= f.beta \/ f.cutNode THEN -3 ELSE 0)])
    /\ UNCHANGED <<g, tt, rootPv, nmpMinPly, stopped, searches>>

\* Steps 21 and 22: a new best move; an aborted search is not trusted.
List(frames, ply) == IF pvs[ply] = 0 THEN <<>> ELSE frames[pvs[ply]].line
UpdateBest(v) ==
    LET root   == f.ply = 0
        newPv  == root /\ (f.count = 1 \/ v > f.alpha)
        equal  == v = f.best /\ ~is_win(Max({v, -v}) + 1)
    IN  IF stopped THEN Return(0) /\ UNCHANGED <<rootPv, choices>>
        ELSE \E inc \in {0, 1} :
          LET better == v + inc > f.best
              raises == better /\ v + inc > f.alpha
              frame  == [f EXCEPT !.best = IF better THEN v ELSE @,
                                  !.bestMove = IF raises THEN f.move ELSE @,
                                  !.alpha = IF raises /\ v < f.beta THEN v ELSE @,
                                  !.at = IF raises /\ v >= f.beta THEN "done" ELSE "loop"]
              frames == Append(Front(stack), frame)
          IN  /\ IF inc = 0 THEN UNCHANGED choices ELSE equal /\ Choose
              /\ rootPv' = IF newPv THEN <<f.move>> \o List(stack, 1) ELSE rootPv
              /\ stack' = IF raises /\ f.PvNode /\ ~root
                          THEN [frames EXCEPT ![pvs[f.ply]].line = <<f.move>> \o List(stack, f.ply + 1)]
                          ELSE frames
              /\ result' = <<>>
AfterZeroWindow ==
    /\ Answered("reduced") \/ Answered("full")
    /\ IF f.at = "reduced" /\ answer > f.alpha /\ f.newDepth > f.reduced
       THEN /\ ZeroWindow(f, "full", f.newDepth, ~f.cutNode)
            /\ UNCHANGED <<pvs, rootPv, choices>>
       ELSE IF f.PvNode /\ answer > f.alpha
       THEN Pv(f, f.newDepth) /\ UNCHANGED <<rootPv, choices>>
       ELSE UpdateBest(answer) /\ UNCHANGED pvs
    /\ UNCHANGED <<g, tt, nmpMinPly, stopped, searches>>
AfterPv ==
    /\ Answered("pv")
    /\ UpdateBest(answer)
    /\ UNCHANGED <<g, tt, pvs, nmpMinPly, stopped, searches>>

\* Steps 23 and 24: mate, stalemate or the best value, kept in the table.
Finish ==
    /\ Running("done") \/ (Running("loop") /\ f.left = <<>>)
    /\ LET cut  == f.best >= f.beta /\ ~is_decisive(f.best) /\ ~is_decisive(f.alpha)
           best == IF f.count = 0
                   THEN IF f.excluded # NoMove THEN f.alpha
                        ELSE IF InCheck(f.node) THEN mated_in(f.ply) ELSE 0
                   ELSE IF cut THEN Between(f.best, f.beta, f.depth) ELSE f.best
           value == IF f.PvNode THEN Min({best, f.max}) ELSE best
           bound == IF value >= f.beta THEN BOUND_LOWER
                    ELSE IF f.PvNode /\ f.bestMove # NoMove THEN BOUND_EXACT ELSE BOUND_UPPER
           depth == IF f.count # 0 THEN f.depth ELSE Min({MAX_PLY - 1, f.depth + 6})
       IN  /\ Return(value)
           /\ IF f.excluded # NoMove THEN UNCHANGED tt
              ELSE Write(f.node, value, f.ttPv, bound, depth, f.bestMove)
    /\ UNCHANGED <<g, pvs, rootPv, nmpMinPly, stopped, choices, searches>>

----
\* qsearch, Steps 1 to 4: the list is emptied; a draw, the table, and the
\* evaluation stands unless a capture improves on it.  In check every move is
\* looked at.
EnterQuiescence ==
    /\ Running("enter") /\ f.fn = "qsearch"
    /\ LET e == Probed(Found(f.node))
           static == game.eval[f.node]
           known == is_valid(e.value) /\ ~is_decisive(e.value) /\ Supports(e, e.value, static + 1)
           best == IF InCheck(f.node) THEN -VALUE_INFINITE ELSE IF known THEN e.value ELSE static
           frame == [f EXCEPT !.best = best, !.alpha = Max({@, best}), !.tt = e, !.at = "qloop",
                              !.left = Picked(IF InCheck(f.node) THEN game.moves[f.node]
                                              ELSE game.captures[f.node], e.move)]
           lists == IF f.PvNode THEN [stack EXCEPT ![pvs[f.ply]].line = <<>>] ELSE stack
           Leave(v) == stack' = Front(lists) /\ result' = <<[frame |-> f, value |-> v]>>
       IN  /\ pvs' = IF f.PvNode THEN [pvs EXCEPT ![f.ply + 1] = Len(stack)] ELSE pvs
           /\ IF is_draw(f) \/ f.ply >= MAX_PLY
              THEN Leave(IF f.ply >= MAX_PLY /\ ~InCheck(f.node) THEN static ELSE 0)
              ELSE IF ~f.PvNode /\ e.depth >= DEPTH_QS /\ is_valid(e.value) /\ Supports(e, e.value, f.beta)
              THEN Leave(e.value)
              ELSE IF best >= f.beta
              THEN Leave(IF is_decisive(best) THEN best ELSE Between(best, f.beta, 1))
              ELSE stack' = Append(Front(lists), frame) /\ result' = <<>>
    /\ UNCHANGED <<g, tt, rootPv, nmpMinPly, stopped, choices, searches>>

\* Steps 5 and 6: while every move loses none is pruned.
PruneCapture ==
    /\ Running("qloop") /\ f.left # <<>> /\ ~is_loss(f.best)
    /\ LET futilityBase == game.eval[f.node] + Margin
       IN  \/ ~Capture(f.node, next) /\ UNCHANGED choices /\ With([Skip EXCEPT !.count = @ + 1])
           \/ /\ Capture(f.node, next) /\ Choose
              /\ \E best \in {f.best} \cup (IF InCheck(f.node) THEN {}
                                            ELSE {Max({f.best, Min({f.alpha, futilityBase})})}) :
                   With([Skip EXCEPT !.count = @ + 1, !.best = best])
    /\ UNCHANGED <<g, tt, pvs, rootPv, nmpMinPly, stopped, searches>>
\* Steps 7 and 8.
MakeCapture ==
    /\ Running("qloop") /\ f.left # <<>>
    /\ is_loss(f.best) \/ Capture(f.node, next)
    /\ Call([Taken EXCEPT !.at = "quiet"], QChild(next, f.PvNode, -f.beta, -f.alpha))
    /\ UNCHANGED <<g, tt, pvs, rootPv, nmpMinPly, stopped, choices, searches>>
AfterCapture ==
    /\ Answered("quiet")
    /\ LET raises == answer > f.best /\ answer > f.alpha
           frame  == [f EXCEPT !.best = Max({@, answer}),
                               !.bestMove = IF raises THEN f.move ELSE @,
                               !.alpha = IF raises /\ answer < f.beta THEN answer ELSE @,
                               !.at = IF raises /\ answer >= f.beta THEN "qdone" ELSE "qloop"]
           frames == Append(Front(stack), frame)
       IN  stack' = IF raises /\ f.PvNode
                    THEN [frames EXCEPT ![pvs[f.ply]].line = <<f.move>> \o List(stack, f.ply + 1)]
                    ELSE frames
    /\ result' = <<>>
    /\ UNCHANGED <<g, tt, pvs, rootPv, nmpMinPly, stopped, choices, searches>>
\* Steps 9 and 10: mate is certain; stalemate is only looked for now and then.
FinishQuiescence ==
    /\ Running("qdone") \/ (Running("qloop") /\ f.left = <<>>)
    /\ IF f.count = 0 /\ InCheck(f.node) THEN Return(mated_in(f.ply)) /\ UNCHANGED tt
       ELSE \E best \in {f.best} \cup (IF game.moves[f.node] = <<>> THEN {0} ELSE {}) :
              LET value == IF ~is_decisive(best) /\ best > f.beta THEN Between(best, f.beta, 1) ELSE best
              IN  /\ Return(value)
                  /\ Write(f.node, value, f.tt.pv, IF value >= f.beta THEN BOUND_LOWER ELSE BOUND_UPPER,
                           DEPTH_QS, f.bestMove)
    /\ UNCHANGED <<g, pvs, rootPv, nmpMinPly, stopped, choices, searches>>

Init ==
    /\ g \in DOMAIN Games
    /\ stack = <<>> /\ result = <<>>
    /\ tt = [n \in {} |-> NoEntry]
    /\ pvs = [ply \in 0..(MAX_PLY + 2) |-> 0]
    /\ rootPv = <<>> /\ nmpMinPly = 0 /\ stopped = FALSE
    /\ choices = MaxChoices /\ searches = 0

Next == \/ StartSearch \/ EndSearch \/ Stop \/ Enter \/ Probe \/ Tablebases \/ Razor \/ Futility
        \/ NullMove \/ AfterNullMove \/ AfterVerification \/ ProbCut \/ AfterProbCut \/ BeginMoves
        \/ SkipExcluded \/ PruneMove \/ Singular \/ MakeMove \/ AfterSingular \/ AfterZeroWindow
        \/ AfterPv \/ Finish
        \/ EnterQuiescence \/ PruneCapture \/ MakeCapture \/ AfterCapture \/ FinishQuiescence
Spec == Init /\ [][Next]_vars

----
\* An answer says something certain of a position only if it is decisive: a win
\* above the window's lower end is at least that good, a loss below its upper
\* end at least that bad.  The tablebases' wins are those of a game in which the
\* fifty moves still can be counted anew.
Proven(n, r50, ply, v, alpha, beta) ==
    LET truth == FromHere(Truth[g][n, r50], ply)
        free  == FreeTruth[g][n, 0]
    IN  /\ v > alpha => (is_mate(v) => truth >= v) /\ (is_win(v) => is_win(free))
        /\ v < beta  => (is_mated(v) => truth <= v) /\ (is_loss(v) => is_loss(free))

\* However the search prunes, reduces, extends, probes the table or lets the
\* other side move twice, a mate or tablebase score it answers with is proven:
\* the loss was not only found because an escape had been pruned, the win not
\* only because the opponent passed.  (The margins may be anything.)
DecisiveAnswersAreProven ==
    result # <<>> /\ ~stopped =>
      LET x == result[1].frame
      IN  x.excluded = NoMove =>
            Proven(x.node, x.rule50, x.ply, result[1].value, x.alpha0, x.beta0)

\* What an entry says when it is read at a position with this count.
Says(n, r50) ==
    [value |-> value_from_tt(tt[n].value, 0, r50),
     alpha |-> IF BOUND_LOWER \subseteq tt[n].bound THEN -VALUE_INFINITE ELSE VALUE_INFINITE,
     beta  |-> IF BOUND_UPPER \subseteq tt[n].bound THEN VALUE_INFINITE ELSE -VALUE_INFINITE]

\* The table is kept through aborted searches and read at other plies and with
\* other counts of the fifty moves: what it then says of a mate still is so.
DecisiveEntriesAreProven ==
    \A n \in DOMAIN tt, r50 \in 0..(RULE50 - 1) :
      LET x == Says(n, r50)
      IN  is_valid(x.value) => Proven(n, r50, 0, x.value, x.alpha, x.beta)

\* Of the assertions of the code: windows stay open and null where they must be,
\* no side passes twice, and what is returned is a score.
SearchAssertionsHold ==
    /\ \A i \in DOMAIN stack :
         LET x == stack[i]
         IN  /\ -VALUE_INFINITE <= x.alpha /\ x.alpha < x.beta /\ x.beta <= VALUE_INFINITE
             /\ ~x.PvNode /\ x.fn = "search" => x.alpha = x.beta - 1
             /\ ~(x.PvNode /\ x.cutNode)
             /\ x.at = "null" => ~x.isNull
    /\ result # <<>> => result[1].value \in (-VALUE_INFINITE + 1)..(VALUE_INFINITE - 1)

\* A line of moves is one of the game.
IsLine(n, line) ==
    \A i \in DOMAIN line : line[i] \in Range(game.moves[IF i = 1 THEN n ELSE line[i - 1]])

\* The lists of the frames are reached by pointers kept in the search stack,
\* which outlive the frames they point into and the moves they were filled for:
\* still every line put together from them is a line of the game.
LinesAreLines ==
    /\ IsLine(game.root, rootPv)
    /\ \A i \in DOMAIN stack :
         stack[i].at = "pv" => IsLine(stack[i].move, stack[i].line)
====
