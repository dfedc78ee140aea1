---------------------------- MODULE CommandQueue ----------------------------
(***************************************************************************)
(* The bridge's command input (StockfishIO.h and StockfishBridge.cpp):     *)
(* several host threads in sf_send_command, one thread in sf_destroy, and  *)
(* the engine thread that reads lines from std::cin through QueueInputBuf. *)
(*                                                                         *)
(* CommandQueue::mutex_ guards queue_ and shutdown_, so a critical section *)
(* is one step; the notification comes after it, as a step of its own.     *)
(* writeMutex is held over both, so it is a variable.  The reader sleeps   *)
(* in pop() until it is notified or wakes up spuriously, and then looks at *)
(* the predicate again.                                                    *)
(*                                                                         *)
(* A command may hold several lines (the host may put line breaks in it):  *)
(* Lines gives their number, and left counts those still in QueueInputBuf. *)
(* Executing a line is one step here, which always ends.                   *)
(***************************************************************************)
EXTENDS Naturals, Sequences

CONSTANTS Senders,   \* host threads that call sf_send_command
          Closer,    \* the host thread that calls sf_destroy
          Nobody,    \* no holder of writeMutex
          Commands,  \* what they send
          Quit,      \* "quit", a command like the others
          Lines,     \* how many lines each command holds
          MaxSends   \* bound: commands the senders send in all

Hosts == Senders \cup {Closer}

ASSUME QueueAssumption ==
  /\ Closer \notin Senders /\ Nobody \notin Hosts
  /\ Quit \in Commands
  /\ Lines \in [Commands -> Nat \ {0}] /\ Lines[Quit] = 1
  /\ MaxSends \in Nat

VARIABLES
  queue,       \* CommandQueue::queue_
  shutdown,    \* CommandQueue::shutdown_
  writeMutex,  \* who holds SFEngineImpl::writeMutex
  hostPc,      \* where each host thread is
  readerPc,    \* where the engine thread is
  left,        \* lines left in the command QueueInputBuf holds
  sent,        \* history: the commands pushed
  taken        \* history: the commands popped

vars == <<queue, shutdown, writeMutex, hostPc, readerPc, left, sent, taken>>

Last(s) == s[Len(s)]

HostPcs == {"out", "push", "notify", "shutdown", "notifyAll", "join", "gone"}
ReaderPcs == {"read", "asleep", "exec", "ended"}

Init ==
  /\ queue = <<>> /\ shutdown = FALSE
  /\ writeMutex = Nobody
  /\ hostPc = [h \in Hosts |-> "out"]
  /\ readerPc = "read" /\ left = 0
  /\ sent = <<>> /\ taken = <<>>

Goto(h, from, to) == hostPc[h] = from /\ hostPc' = [hostPc EXCEPT ![h] = to]
-----------------------------------------------------------------------------
(* sf_send_command and sf_destroy *)

\* Both begin with lock_guard lock(impl->writeMutex).  The host may not call
\* sf_send_command once sf_destroy was called, nor sf_destroy during a send.
LockForWriting(h) ==
  /\ IF h = Closer THEN \A s \in Senders : hostPc[s] = "out"
                   ELSE hostPc[Closer] = "out" /\ Len(sent) < MaxSends
  /\ writeMutex = Nobody
  /\ writeMutex' = h
  /\ Goto(h, "out", "push")
  /\ UNCHANGED <<queue, shutdown, readerPc, left, sent, taken>>

\* CommandQueue::push: queue_.push(cmd) under mutex_.
Push(h, c) ==
  /\ h = Closer => c = Quit
  /\ Goto(h, "push", "notify")
  /\ queue' = Append(queue, c)
  /\ sent' = Append(sent, c)
  /\ UNCHANGED <<shutdown, writeMutex, readerPc, left, taken>>

\* Mutant: the notifications reach nobody.
WakeNobody == UNCHANGED readerPc

\* cv_.notify_one(), cv_.notify_all(): the reader is the only waiter.
WakeReader == readerPc' = IF readerPc = "asleep" THEN "read" ELSE readerPc

\* Mutant: push does not notify.
NotifyNobody(h) ==
  /\ Goto(h, "notify", IF h = Closer THEN "shutdown" ELSE "out")
  /\ writeMutex' = IF h = Closer THEN h ELSE Nobody
  /\ UNCHANGED <<queue, shutdown, readerPc, left, sent, taken>>

Notify(h) ==
  /\ WakeReader
  /\ Goto(h, "notify", IF h = Closer THEN "shutdown" ELSE "out")
  /\ writeMutex' = IF h = Closer THEN h ELSE Nobody
  /\ UNCHANGED <<queue, shutdown, left, sent, taken>>

Shutdown ==
  /\ Goto(Closer, "shutdown", "notifyAll")
  /\ shutdown' = TRUE
  /\ UNCHANGED <<queue, writeMutex, readerPc, left, sent, taken>>

NotifyAll ==
  /\ Goto(Closer, "notifyAll", "join")
  /\ WakeReader
  /\ writeMutex' = Nobody
  /\ UNCHANGED <<queue, shutdown, left, sent, taken>>

\* join(engineThread); delete impl;
Join ==
  /\ readerPc = "ended"
  /\ Goto(Closer, "join", "gone")
  /\ UNCHANGED <<queue, shutdown, writeMutex, readerPc, left, sent, taken>>
-----------------------------------------------------------------------------
(* the engine thread: getline(std::cin) over QueueInputBuf::underflow *)

\* The next line is already in the buffer.
ReadLine ==
  /\ readerPc = "read" /\ left > 0
  /\ left' = left - 1
  /\ readerPc' = "exec"
  /\ UNCHANGED <<queue, shutdown, writeMutex, hostPc, sent, taken>>

\* CommandQueue::pop takes a command, and getline its first line.  With nothing
\* left after the shutdown, pop is false, getline fails and the loop reads "quit".
Pop ==
  /\ readerPc = "read" /\ left = 0
  /\ shutdown \/ queue # <<>>
  /\ IF queue # <<>>
     THEN /\ queue' = Tail(queue)
          /\ taken' = Append(taken, Head(queue))
          /\ left' = Lines[Head(queue)] - 1
          /\ readerPc' = "exec"
     ELSE readerPc' = "ended" /\ UNCHANGED <<queue, taken, left>>
  /\ UNCHANGED <<shutdown, writeMutex, hostPc, sent>>

PopSleeps ==
  /\ readerPc = "read" /\ left = 0
  /\ queue = <<>> /\ ~shutdown
  /\ readerPc' = "asleep"
  /\ UNCHANGED <<queue, shutdown, writeMutex, hostPc, left, sent, taken>>

SpuriousWake ==
  /\ readerPc = "asleep"
  /\ readerPc' = "read"
  /\ UNCHANGED <<queue, shutdown, writeMutex, hostPc, left, sent, taken>>

\* Mutant: the loop goes on after "quit".
ExecuteOn ==
  /\ readerPc = "exec"
  /\ readerPc' = "read"
  /\ UNCHANGED <<queue, shutdown, writeMutex, hostPc, left, sent, taken>>

\* The loop body, and its test: while (token != "quit").
Execute ==
  /\ readerPc = "exec"
  /\ readerPc' = IF Last(taken) = Quit THEN "ended" ELSE "read"
  /\ UNCHANGED <<queue, shutdown, writeMutex, hostPc, left, sent, taken>>
-----------------------------------------------------------------------------
Send(h) == LockForWriting(h) \/ (\E c \in Commands : Push(h, c)) \/ Notify(h)
Destroy == Shutdown \/ NotifyAll \/ Join
Reader == ReadLine \/ Pop \/ PopSleeps \/ Execute

\* After sf_destroy has returned there is nothing left to do.
Finished == hostPc[Closer] = "gone" /\ UNCHANGED vars

Next == (\E h \in Hosts : Send(h)) \/ Destroy \/ Reader \/ SpuriousWake \/ Finished

Spec == Init /\ [][Next]_vars

\* A thread inside a bridge function and the engine thread keep running.
\* Nothing makes a host send or destroy, nor a sleeper wake up unasked.
Fairness ==
  /\ \A h \in Hosts : WF_vars((\E c \in Commands : Push(h, c)) \/ Notify(h))
  /\ WF_vars(Destroy)
  /\ WF_vars(Reader)

FairSpec == Spec /\ Fairness
-----------------------------------------------------------------------------
(* Properties *)

\* Every variable has its type; the lines left are fewer than those of the
\* command taken last.
TypeOK ==
  /\ queue \in Seq(Commands) /\ sent \in Seq(Commands) /\ taken \in Seq(Commands)
  /\ shutdown \in BOOLEAN
  /\ writeMutex \in Hosts \cup {Nobody}
  /\ hostPc \in [Hosts -> HostPcs]
  /\ readerPc \in ReaderPcs
  /\ left \in Nat
  /\ left # 0 => taken # <<>> /\ left < Lines[Last(taken)]

\* The queue holds exactly the commands sent and not taken yet, in the order
\* they were sent: none is lost, doubled or overtaken.
NothingLost == sent = taken \o queue

\* The reader sleeps on a command or on the shutdown only while the thread that
\* put it there is still on its way to the notification.
NoSleepOnData ==
  readerPc = "asleep" /\ (queue # <<>> \/ shutdown)
    => \E h \in Hosts : hostPc[h] \in {"notify", "shutdown", "notifyAll"}

\* The loop always ends on a "quit" it took, the host's or the one sf_destroy
\* pushes: the shutdown flag never overtakes a command sent before sf_destroy,
\* and the end of the input is only a backstop behind that "quit".
EndsOnQuit == readerPc = "ended" => taken # <<>> /\ Last(taken) = Quit

\* sf_destroy returns.
DestroyReturns == hostPc[Closer] # "out" ~> hostPc[Closer] = "gone"
-----------------------------------------------------------------------------
\* The queue implements CommandStream.
Stream == INSTANCE CommandStream
            WITH closed <- shutdown, ended <- readerPc = "ended"
ImplementsCommandStream == Stream!Spec
=============================================================================
