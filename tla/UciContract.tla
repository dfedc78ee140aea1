----------------------------- MODULE UciContract -----------------------------
(***************************************************************************)
(* What the engine promises about "go", without threads: every "go" that   *)
(* starts a search is answered by exactly one bestmove before the next one *)
(* starts, and the answer is kept back while the host has not asked for    *)
(* it.  A pondering "go" waits for "stop" or "ponderhit", an infinite one  *)
(* for "stop".                                                             *)
(*                                                                         *)
(* Nothing is kept back when there are no legal moves, when the "go" also  *)
(* asked for a mate, which may be found at any time, and, of an infinite   *)
(* "go", when it also has a clock or a budget, which may be used up.       *)
(***************************************************************************)
EXTENDS Naturals

VARIABLES gos,      \* searches started
          answers,  \* bestmove lines printed
          limits,   \* of the last "go"
          told      \* what the host has sent since

vars == <<gos, answers, limits, told>>

Limits == [infinite : BOOLEAN, ponder : BOOLEAN, clock : BOOLEAN, budget : BOOLEAN,
           mate : BOOLEAN, moves : BOOLEAN]

\* The answer is not, or no longer, kept back.
MayAnswer ==
  \/ ~limits.moves \/ limits.mate \/ "stop" \in told
  \/ /\ limits.ponder => "ponderhit" \in told
     /\ limits.infinite => limits.clock \/ limits.budget

Init == gos = 0 /\ answers = 0 /\ limits \in Limits /\ told = {}

Go ==
  /\ answers = gos
  /\ gos' = gos + 1
  /\ limits' \in Limits
  /\ told' = {}
  /\ UNCHANGED answers

\* "stop" (or "quit", or the end of the input) and "ponderhit"
Tell ==
  /\ told' \in {told \cup {"stop"}, told \cup {"ponderhit"}}
  /\ UNCHANGED <<gos, answers, limits>>

Answer ==
  /\ answers < gos
  /\ MayAnswer
  /\ answers' = answers + 1
  /\ UNCHANGED <<gos, limits, told>>

Next == Go \/ Tell \/ Answer

Spec == Init /\ [][Next]_vars
=============================================================================
