---------------------------- MODULE CommandStream ----------------------------
(***************************************************************************)
(* What the bridge promises about the commands of one engine: the UCI loop *)
(* takes them in the order they were sent, each once, and it ends on a     *)
(* "quit" it took, or on the end of the input once the stream is closed    *)
(* and everything sent was taken.                                          *)
(***************************************************************************)
EXTENDS Naturals, Sequences

CONSTANTS Commands,  \* what a host may send
          Quit       \* the command that ends the loop

VARIABLES sent,      \* every command sent so far
          taken,     \* every command the UCI loop took so far
          closed,    \* nothing will be sent any more
          ended      \* the UCI loop is over

vars == <<sent, taken, closed, ended>>

Init == sent = <<>> /\ taken = <<>> /\ closed = FALSE /\ ended = FALSE

Send(c) ==
  /\ ~closed
  /\ sent' = Append(sent, c)
  /\ UNCHANGED <<taken, closed, ended>>

Close ==
  /\ closed' = TRUE
  /\ UNCHANGED <<sent, taken, ended>>

Take ==
  /\ ~ended
  /\ taken # <<>> => taken[Len(taken)] # Quit
  /\ Len(taken) < Len(sent)
  /\ taken' = Append(taken, sent[Len(taken) + 1])
  /\ UNCHANGED <<sent, closed, ended>>

End ==
  /\ \/ taken # <<>> /\ taken[Len(taken)] = Quit
     \/ closed /\ taken = sent
  /\ ended' = TRUE
  /\ UNCHANGED <<sent, taken, closed>>

Next == (\E c \in Commands : Send(c)) \/ Close \/ Take \/ End

Spec == Init /\ [][Next]_vars
=============================================================================
