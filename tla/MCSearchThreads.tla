--------------------------- MODULE MCSearchThreads ---------------------------
\* Instances of SearchThreads for TLC.
EXTENDS SearchThreads

\* A "go" with the limits of S, in a position with or without legal moves.
Limiting(S, m) ==
  [infinite |-> "infinite" \in S, ponder |-> "ponder" \in S, clock |-> "clock" \in S,
   budget |-> "budget" \in S, mate |-> "mate" \in S, moves |-> m]

\* What hosts send, and the combinations in which one limit ends what another keeps
\* going: an infinite search with a budget, a pondering one that looks for a mate.
AllSearches ==
  {Limiting(S, TRUE) : S \in {{"clock"}, {"infinite"}, {"infinite", "budget"},
                              {"ponder", "clock"}, {"ponder", "infinite", "mate"}}}
    \cup {Limiting({"infinite", "ponder"}, FALSE)}

Infinite == {Limiting({"infinite"}, TRUE)}
=============================================================================
