--------------------------- MODULE ExclusiveEngine ---------------------------
(***************************************************************************)
(* What the bridge promises about engine instances, without its gate,      *)
(* condition variable or threads: at any time at most one engine is live   *)
(* in the process, and while one is live it alone may use the process's    *)
(* standard streams.  An engine starts from the host's own streams and     *)
(* gives them back before it ends.                                         *)
(***************************************************************************)
CONSTANTS Threads,  \* host threads that may create an engine
          Nobody    \* stands for "no engine" and for the host's own streams

VARIABLES owner,    \* the thread whose engine is live, or Nobody
          stdin,    \* whose buffer std::cin reads from
          stdout    \* whose buffer std::cout writes to

vars == <<owner, stdin, stdout>>

Init == owner = Nobody /\ stdin = Nobody /\ stdout = Nobody

Begin(t) ==
  /\ owner = Nobody
  /\ owner' = t
  /\ UNCHANGED <<stdin, stdout>>

\* The live engine redirects a stream to itself, or hands it back.
Redirect(t) ==
  /\ owner = t
  /\ \/ stdin' \in {t, Nobody} /\ UNCHANGED stdout
     \/ stdout' \in {t, Nobody} /\ UNCHANGED stdin
  /\ UNCHANGED owner

End(t) ==
  /\ owner = t
  /\ stdin = Nobody /\ stdout = Nobody
  /\ owner' = Nobody
  /\ UNCHANGED <<stdin, stdout>>

Next == \E t \in Threads : Begin(t) \/ Redirect(t) \/ End(t)

Spec == Init /\ [][Next]_vars
=============================================================================
