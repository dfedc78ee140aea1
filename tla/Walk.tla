---- MODULE Walk ----
(* The Search::Worker's way through positions: it does a move, a null move *)
(* or takes one back, evaluates the position it stands on, which brings the *)
(* accumulators up to date with the moves made since, and has the moves of *)
(* a position picked one by one.                                           *)
EXTENDS Accumulator, MovePicker

CONSTANTS Scenarios,
          History(_),    \* what the history tables say of a position's moves
          HashMoves(_)   \* the hash moves it may be given

ASSUME ScenarioAssumption == \A x \in Scenarios : IsFen(x.fen)

\* What a hash entry may hold: any Move, of whatever position.
MoveCodes ==
    {m \in [from : Squares, to : Squares, type : {"NORMAL", "PROMOTION", "EN_PASSANT", "CASTLING"},
            promotion : KNIGHT..QUEEN] : m.type # "PROMOTION" => m.promotion = KNIGHT}

ASSUME PickAssumption ==
    \A x \in Scenarios : \A p \in {set(x.fen)} :
      /\ HashMoves(p) \subseteq {NoMove} \cup MoveCodes
      /\ \A m \in generate(p, "QUIETS") : History(p)[m] \in Int

\* scenario: where the walk starts and how far it may go; moves: the line
\* being searched, NullMove a null move; evaluated: how often it evaluated;
\* picker: the MovePicker that runs, and emitted the moves it has emitted.
VARIABLES scenario, pos, moves, acc, evaluated, picker, emitted

vars == <<scenario, pos, moves, acc, evaluated, picker, emitted>>

NullMove == Move(SQ_NONE, SQ_NONE)

Init ==
    /\ scenario \in Scenarios
    /\ pos = set(scenario.fen)
    /\ moves = <<>>
    /\ acc = [stack |-> reset, cache |-> [x \in {} |-> EmptyEntry]]
    /\ evaluated = 0
    /\ picker = <<>> /\ emitted = <<>>

Walking == picker = <<>> /\ UNCHANGED <<picker, emitted>>
Deeper == Walking /\ Len(moves) < scenario.plies

\* Worker::do_move.
DoMove ==
    /\ Deeper
    /\ \E m \in LegalMoves(pos) :
         /\ scenario.only # {} => <<m.from, m.to>> \in scenario.only
         /\ \E r \in {do_move(pos, m, gives_check(pos, m))} :
              /\ pos' = r.pos
              /\ moves' = Append(moves, m)
              /\ acc' = [acc EXCEPT !.stack = Append(@, AccumulatorState(
                   [dp |-> r.dp, dts |-> r.dts, before |-> r.before, after |-> r.after]))]
    /\ UNCHANGED <<scenario, evaluated>>

\* Worker::do_null_move: never in check, never twice in a row; the
\* accumulators do not change with it.
DoNullMove ==
    /\ Deeper /\ scenario.nulls
    /\ pos.st.checkersBB = {}
    /\ moves # <<>> => Last(moves) # NullMove
    /\ pos' = do_null_move(pos)
    /\ moves' = Append(moves, NullMove)
    /\ UNCHANGED <<scenario, acc, evaluated>>

\* Worker::undo_move.
UndoMove ==
    /\ Walking /\ moves # <<>> /\ Last(moves) # NullMove
    /\ pos' = undo_move(pos, Last(moves))
    /\ moves' = Front(moves)
    /\ acc' = [acc EXCEPT !.stack = Front(@)]
    /\ UNCHANGED <<scenario, evaluated>>

\* Worker::undo_null_move.
UndoNullMove ==
    /\ Walking /\ moves # <<>> /\ Last(moves) = NullMove
    /\ pos' = undo_null_move(pos)
    /\ moves' = Front(moves)
    /\ UNCHANGED <<scenario, acc, evaluated>>

\* Worker::evaluate: a position in check is not evaluated.
Evaluate ==
    /\ Walking /\ evaluated < scenario.evals /\ pos.st.checkersBB = {}
    /\ acc' = evaluate(acc, pos)
    /\ evaluated' = evaluated + 1
    /\ UNCHANGED <<scenario, pos, moves>>

\* The search has the moves picked for itself, for quiescence or for ProbCut,
\* here where a walk starts.
Pick ==
    /\ picker = <<>> /\ moves = <<>> /\ evaluated = 0
    /\ \E ttm \in HashMoves(pos) :
         picker' \in {MovePicker(pos, ttm, 2, History(pos)), MovePicker(pos, ttm, 0, History(pos))}
            \cup (IF pos.st.checkersBB = {} THEN {ProbCutPicker(pos, ttm, 100, History(pos))} ELSE {})
    /\ UNCHANGED <<scenario, pos, moves, acc, evaluated, emitted>>
NextMove ==
    /\ picker # <<>>
    /\ emitted # <<>> => Last(emitted) # NoMove
    /\ picker' = next_move(picker)
    /\ emitted' = Append(emitted, picker'.move)
    /\ UNCHANGED <<scenario, pos, moves, acc, evaluated>>
\* The move count may call off the quiet moves after any move: here after some.
SkipQuiets ==
    /\ picker # <<>> /\ picker.depth > 0 /\ ~picker.skipQuiets
    /\ pos.st.checkersBB = {}
    /\ Len(emitted) \in {1, 4, 9} /\ Last(emitted) # NoMove
    /\ picker' = skip_quiet_moves(picker)
    /\ UNCHANGED <<scenario, pos, moves, acc, evaluated, emitted>>

Next == \/ DoMove \/ DoNullMove \/ UndoMove \/ UndoNullMove \/ Evaluate
        \/ Pick \/ NextMove \/ SkipQuiets
Spec == Init /\ [][Next]_vars
====
