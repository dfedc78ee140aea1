---- MODULE Accumulator ----
(* AccumulatorStack: the first layer of the network, kept per position of  *)
(* the line being searched and brought up to date only when a position is  *)
(* evaluated - forwards from the last one computed, backwards from a       *)
(* refresh, or in a mixed way after a king move.  The refresh itself       *)
(* starts from a cache entry per king square.                              *)
(*                                                                         *)
(* What an accumulator holds is a sum of weight columns: here a function   *)
(* from the features that occur in it to how often they do, never 0.  The  *)
(* features of the two weight tables are told apart: <<table, index>>.     *)
EXTENDS Features

PSQ == 0
THREAT == 1
Column(table, features) == {<<table, f>> : f \in features}
EmptySum == [x \in {} |-> 0]
Times(sum, x) == IF x \in DOMAIN sum THEN sum[x] ELSE 0
\* sum plus the coefficients of the changes, a sequence of [removed, added].
Apply(sum, changes) ==
    LET delta(x) == MapThenSumSet(LAMBDA i : (IF x \in changes[i].added THEN 1 ELSE 0)
                                               - (IF x \in changes[i].removed THEN 1 ELSE 0),
                                  DOMAIN changes)
        touched == UNION {changes[i].removed \cup changes[i].added : i \in DOMAIN changes}
        new == [x \in touched |-> Times(sum, x) + delta(x)]
        \* Unchanged terms, and those of new that are not 0.
        kept == (DOMAIN sum \ touched) \cup {x \in touched : new[x] # 0}
    IN  [x \in kept |-> IF x \in touched THEN new[x] ELSE sum[x]]
Plus(a, b, sign) ==
    LET value(x) == Times(a, x) + sign * Times(b, x)
    IN  [x \in {y \in DOMAIN a \cup DOMAIN b : value(y) # 0} |-> value(x)]

InTable(table, change) == [removed |-> Column(table, change.removed),
                           added   |-> Column(table, change.added)]
Undone(change) == [removed |-> change.added, added |-> change.removed]

(* ---- The stack ---- *)

\* An entry: what the move that led to it changed, and the two accumulators.
NoDirty == [dp |-> [pc |-> NO_PIECE, from |-> 0, to |-> 0, remove |-> {}, add |-> {}],
            dts |-> <<>>, before |-> [c \in Colors |-> {}], after |-> [c \in Colors |-> {}]]
AccumulatorState(dirty) ==
    [dirty |-> dirty, computed |-> [c \in Colors |-> FALSE],
     accumulation |-> [c \in Colors |-> EmptySum]]
reset == <<AccumulatorState(NoDirty)>>

InTables(table, changes) == [i \in DOMAIN changes |-> InTable(table, changes[i])]
ThreatChanges(perspective, ksq, dirty) ==
    InTables(THREAT, Append(ChangedThreats(perspective, ksq, dirty.dts),
                            ChangedPairs(perspective, ksq, dirty.before, dirty.after)))
Changes(perspective, ksq, dirty) ==
    Append(ThreatChanges(perspective, ksq, dirty),
           InTable(PSQ, ChangedHalfKA(perspective, ksq, dirty.dp)))

\* What is applied when the target lies after or before the computed entry.
Directed(forward, changes) ==
    IF forward THEN changes ELSE [i \in DOMAIN changes |-> Undone(changes[i])]

\* update_accumulator_incremental: entry to of the stack, from its neighbour.
Incremental(stack, c, ksq, from, to) ==
    LET forward == from < to
        dirty   == stack[IF forward THEN to ELSE from].dirty
    IN  [stack EXCEPT ![to].accumulation[c] =
                          Apply(stack[from].accumulation[c],
                                Directed(forward, Changes(c, ksq, dirty))),
                      ![to].computed[c] = TRUE]

forward_update_incremental(stack, c, ksq, begin) ==
    FoldLeft(LAMBDA s, i : Incremental(s, c, ksq, i - 1, i), stack,
             [i \in 1..(Len(stack) - begin) |-> begin + i])
backward_update_incremental(stack, c, ksq, end) ==
    FoldLeft(LAMBDA s, i : Incremental(s, c, ksq, i + 1, i), stack,
             [i \in 1..(Len(stack) - end) |-> Len(stack) - i])

\* The last entry that is computed, or the one a king move makes a new start.
Usable(stack, c, i) == i = 1 \/ stack[i].computed[c] \/ requires_refresh(stack[i].dirty.dp, c)

find_last_usable_accumulator(stack, c) == Max({i \in DOMAIN stack : Usable(stack, c, i)})

(* ---- The refresh cache ---- *)

EmptyEntry == [pieces |-> [s \in Squares |-> NO_PIECE], accumulation |-> EmptySum]
Entry(cache, ksq, c) == IF <<ksq, c>> \in DOMAIN cache THEN cache[<<ksq, c>>] ELSE EmptyEntry
Store(cache, ksq, c, entry) ==
    [x \in DOMAIN cache \cup {<<ksq, c>>} |-> IF x = <<ksq, c>> THEN entry ELSE cache[x]]

\* The pieces of a board that an entry has not, and the other way round.
EntryDiff(c, ksq, entry, board) ==
    LET changed == {s \in Squares : entry.pieces[s] # board[s]}
        on(b) == {HalfKA(c, s, b[s], ksq) : s \in {x \in changed : b[x] # NO_PIECE}}
    IN  InTable(PSQ, [removed |-> on(entry.pieces), added |-> on(board)])

\* Mutant: the entry's sum is stored with the pieces it had before.
RefreshedLate(c, ksq, entry, board) ==
    [pieces |-> entry.pieces,
     accumulation |-> Apply(entry.accumulation, <<EntryDiff(c, ksq, entry, board)>>)]

Refreshed(c, ksq, entry, board) ==
    [pieces |-> board, accumulation |-> Apply(entry.accumulation, <<EntryDiff(c, ksq, entry, board)>>)]

\* The last entry computed, and a cache entry stored.
Computed(stack, cache, ksq, c, sum, entry) ==
    [stack |-> [stack EXCEPT ![Len(stack)].accumulation[c] = sum, ![Len(stack)].computed[c] = TRUE],
     cache |-> Store(cache, ksq, c, entry)]

RefreshFrom(stack, cache, p, c, entry) ==
    Computed(stack, cache, king(p, c), c,
             Apply(entry.accumulation,
                   <<InTable(THREAT, [removed |-> {}, added |-> ActiveThreats(c, p) \cup ActivePairs(c, p)])>>),
             entry)
RefreshCache(stack, cache, p, c) ==
    LET ksq == king(p, c)
    IN  RefreshFrom(stack, cache, p, c, Refreshed(c, ksq, Entry(cache, ksq, c), p.board))

\* update_accumulator_hybrid: threats from the entry before the king's move,
\* piece squares from the cache entries of the king's old and new square.
Hybrid(stack, cache, p, c) ==
    LET dp      == Last(stack).dirty.dp
        oldKsq  == dp.from
        newKsq  == dp.to
        taken   == IF dp.remove = {} THEN NO_PIECE ELSE (CHOOSE x \in dp.remove : TRUE)[1]
        previous == [p.board EXCEPT ![newKsq] = taken, ![oldKsq] = make_piece(c, KING)]
        oldEntry == Entry(cache, oldKsq, c)
        newEntry == Refreshed(c, newKsq, Entry(cache, newKsq, c), p.board)
        \* The previous accumulator without its piece squares, and the new ones.
        others  == Apply(Plus(stack[Len(stack) - 1].accumulation[c], oldEntry.accumulation, -1),
                         <<Undone(EntryDiff(c, oldKsq, oldEntry, previous))>>)
    IN  Computed(stack, cache, newKsq, c,
                 Apply(Plus(newEntry.accumulation, others, 1),
                       ThreatChanges(c, newKsq, Last(stack).dirty)),
                 newEntry)

CONSTANT MIN_PC_COUNT_HYBRID

SameHalf(s, t) == (file_of(s) < 4) = (file_of(t) < 4)

UseHybrid(stack, p, c) ==
    LET dp == Last(stack).dirty.dp
    IN  /\ requires_refresh(dp, c)
        /\ stack[Len(stack) - 1].computed[c]
        /\ count(p, WHITE, ALL_PIECES) + count(p, BLACK, ALL_PIECES) >= MIN_PC_COUNT_HYBRID
        /\ SameHalf(dp.from, dp.to) /\ dp.add = {}

Backwards(acc, c, ksq, end) ==
    [acc EXCEPT !.stack = backward_update_incremental(acc.stack, c, ksq, end)]
evaluate_side(acc, p, c) ==
    LET last == find_last_usable_accumulator(acc.stack, c)
    IN  CASE acc.stack[last].computed[c] ->
               [acc EXCEPT !.stack = forward_update_incremental(@, c, king(p, c), last)]
          [] ~acc.stack[last].computed[c] /\ UseHybrid(acc.stack, p, c) ->
               Hybrid(acc.stack, acc.cache, p, c)
          [] OTHER ->
               Backwards(RefreshCache(acc.stack, acc.cache, p, c), c, king(p, c), last)

\* AccumulatorStack::evaluate.  When both sides have a start, the common part
\* of the two forward walks is one walk; its result is the same.
evaluate(acc, p) == evaluate_side(evaluate_side(acc, p, WHITE), p, BLACK)
====
