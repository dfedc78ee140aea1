---------------------------- MODULE EngineSession ----------------------------
(***************************************************************************)
(* One StockfishEngine object (StockfishEngine.swift) and the C++ threads  *)
(* that call back into it.                                                 *)
(*                                                                         *)
(* Host threads hold references to the object and call send and shutdown,  *)
(* both under teardownLock; shutdown keeps the lock while sf_destroy joins *)
(* the engine thread.  Output lines are delivered by a callback on the     *)
(* thread that writes them, the engine's UCI thread or its main search     *)
(* thread, with the mutex of sync_cout held.  The callback turns its       *)
(* context pointer into a reference for a moment.  Whoever drops the last  *)
(* reference runs deinit, which is shutdown.                               *)
(*                                                                         *)
(* The command queue, the search and the destruction of the engine are as  *)
(* coarse as the wrapper needs them: CommandQueue and SearchThreads have   *)
(* the detail.  A search always ends by itself here.                       *)
(***************************************************************************)
EXTENDS Naturals, Sequences, FiniteSets

CONSTANTS Hosts,     \* host threads, each with a reference to the object
          Uci,       \* the engine thread
          Searcher,  \* the main search thread
          Nobody,    \* no holder of a lock
          Programs,  \* builds and hosts, as records of two facts about them
          MaxCalls,  \* bound: calls of send and shutdown by all hosts
          MaxLines   \* bound: lines the engine writes

Writers == {Uci, Searcher}
Threads == Hosts \cup Writers

ASSUME SessionAssumption ==
  /\ Hosts # {} /\ IsFiniteSet(Hosts)
  /\ Uci # Searcher /\ Writers \cap Hosts = {} /\ Nobody \notin Threads
  /\ Programs \subseteq [retains : BOOLEAN, keepsRef : BOOLEAN]
  /\ MaxCalls \in Nat /\ MaxLines \in Nat

VARIABLES
  program,       \* the build and the host of this run
  refs,          \* hosts that hold a reference
  retained,      \* writers that hold one, during the callback
  object,        \* "alive", "deinit" or "freed"
  deinitBy,      \* the thread that runs deinit
  pc,            \* where each thread is in send or shutdown
  teardownLock,  \* who holds it
  isShutdown,
  bridge,        \* SFEngineImpl: "live" or "freed"
  queue,         \* commands sent and not read yet
  uciPc,         \* "read", "exec", "closing" or "ended"
  searching,
  line,          \* where each writer is in writing a line
  ioLock,        \* who holds the mutex of sync_cout
  written, yielded, finished,  \* lines written, lines in the stream, its end
  calls          \* calls made so far

object_ == <<refs, retained, object, deinitBy>>
calls_ == <<pc, teardownLock, isShutdown, bridge>>
engine_ == <<uciPc, searching>>
output_ == <<line, ioLock, written, yielded, finished>>
vars == <<program, object_, calls_, queue, engine_, output_, calls>>

Retains == program.retains    \* the build retains the object during the callback
KeepsRef == program.keepsRef  \* the host drops its references only after shutdown()

Commands == {"isready", "go", "quit"}

Init ==
  /\ program \in Programs
  /\ refs = Hosts /\ retained = {} /\ object = "alive" /\ deinitBy = Nobody
  /\ pc = [t \in Threads |-> "out"]
  /\ teardownLock = Nobody /\ isShutdown = FALSE /\ bridge = "live"
  /\ queue = <<>> /\ uciPc = "read" /\ searching = FALSE
  /\ line = [w \in Writers |-> "none"] /\ ioLock = Nobody
  /\ written = 0 /\ yielded = 0 /\ finished = FALSE
  /\ calls = 0

Goto(t, from, to) == pc[t] = from /\ pc' = [pc EXCEPT ![t] = to]
-----------------------------------------------------------------------------
(* send *)

CallSend(h) ==
  /\ h \in refs /\ calls < MaxCalls
  /\ Goto(h, "out", "send")
  /\ calls' = calls + 1
  /\ UNCHANGED <<program, object_, teardownLock, isShutdown, bridge, queue, engine_, output_>>

\* Mutant: isShutdown is read without the lock.
SendUnlocked(h) ==
  /\ Goto(h, "send", IF isShutdown THEN "out" ELSE "push")
  /\ UNCHANGED <<program, object_, teardownLock, isShutdown, bridge, queue, engine_, output_, calls>>

\* teardownLock.lock(); guard !isShutdown else { return }
SendLock(h) ==
  /\ teardownLock = Nobody
  /\ teardownLock' = IF isShutdown THEN Nobody ELSE h
  /\ Goto(h, "send", IF isShutdown THEN "out" ELSE "push")
  /\ UNCHANGED <<program, object_, isShutdown, bridge, queue, engine_, output_, calls>>

SendCommand(h) ==
  /\ Goto(h, "push", "out")
  /\ \E c \in Commands : queue' = Append(queue, c)
  /\ teardownLock' = Nobody
  /\ UNCHANGED <<program, object_, isShutdown, bridge, engine_, output_, calls>>
-----------------------------------------------------------------------------
(* shutdown, and deinit, which is nothing else *)

CallShutdown(h) ==
  /\ h \in refs /\ calls < MaxCalls
  /\ Goto(h, "out", "shutdown")
  /\ calls' = calls + 1
  /\ UNCHANGED <<program, object_, teardownLock, isShutdown, bridge, queue, engine_, output_>>

\* After deinit has returned, the object's memory is freed.
ShutdownReturns(t) == object' = IF deinitBy = t THEN "freed" ELSE object

\* Mutant: isShutdown is not looked at.
ShutdownTwice(t) ==
  /\ teardownLock = Nobody
  /\ Goto(t, "shutdown", "quit")
  /\ teardownLock' = t
  /\ isShutdown' = TRUE
  /\ UNCHANGED <<program, object_, bridge, queue, engine_, output_, calls>>

ShutdownLock(t) ==
  /\ teardownLock = Nobody
  /\ Goto(t, "shutdown", IF isShutdown THEN "out" ELSE "quit")
  /\ isShutdown' = TRUE
  /\ IF isShutdown THEN ShutdownReturns(t) /\ UNCHANGED teardownLock
                   ELSE teardownLock' = t /\ UNCHANGED object
  /\ UNCHANGED <<program, refs, retained, deinitBy, bridge, queue, engine_, output_, calls>>

\* Mutant: the engine thread is not told to end.
PushNothing(t) ==
  /\ Goto(t, "quit", "join")
  /\ UNCHANGED <<program, object_, teardownLock, isShutdown, bridge, queue, engine_, output_, calls>>

\* sf_destroy: push "quit" and shut the queue down.
PushQuit(t) ==
  /\ Goto(t, "quit", "join")
  /\ queue' = Append(queue, "quit")
  /\ UNCHANGED <<program, object_, teardownLock, isShutdown, bridge, engine_, output_, calls>>

\* Mutant: the engine thread is not joined.
JoinNothing(t) ==
  /\ Goto(t, "join", "finish")
  /\ bridge' = "freed"
  /\ UNCHANGED <<program, object_, teardownLock, isShutdown, queue, engine_, output_, calls>>

\* Join the engine thread; delete impl.  pthread_join refuses to join the
\* calling thread, and its result is not looked at.
JoinEngine(t) ==
  /\ uciPc = "ended" \/ t = Uci
  /\ Goto(t, "join", "finish")
  /\ bridge' = "freed"
  /\ UNCHANGED <<program, object_, teardownLock, isShutdown, queue, engine_, output_, calls>>

\* continuation.finish(); unlock
Finish(t) ==
  /\ Goto(t, "finish", "out")
  /\ finished' = TRUE
  /\ teardownLock' = Nobody
  /\ ShutdownReturns(t)
  /\ UNCHANGED <<program, refs, retained, deinitBy, isShutdown, bridge, queue, engine_,
                 line, ioLock, written, yielded, calls>>
-----------------------------------------------------------------------------
(* references *)

\* Thread t has dropped a reference: the last one starts deinit on t.
Dropped(t) ==
  IF refs' = {} /\ retained' = {} /\ object = "alive"
  THEN object' = "deinit" /\ deinitBy' = t /\ pc' = [pc EXCEPT ![t] = "shutdown"]
  ELSE UNCHANGED <<object, deinitBy, pc>>

Drop(h) ==
  /\ h \in refs /\ pc[h] = "out"
  /\ KeepsRef => finished
  /\ refs' = refs \ {h} /\ UNCHANGED retained
  /\ Dropped(h)
  /\ UNCHANGED <<program, teardownLock, isShutdown, bridge, queue, engine_, output_, calls>>
-----------------------------------------------------------------------------
(* the engine's threads *)

ReadCommand ==
  /\ uciPc = "read" /\ queue # <<>>
  /\ Head(queue) = "go" => ~searching
  /\ queue' = Tail(queue)
  /\ uciPc' = IF Head(queue) = "quit" THEN "closing" ELSE "exec"
  /\ searching' = (searching \/ Head(queue) = "go")
  /\ UNCHANGED <<program, object_, calls_, output_, calls>>

Idle(w) == line[w] = "none" /\ pc[w] = "out"

CommandDone ==
  /\ uciPc = "exec" /\ Idle(Uci)
  /\ uciPc' = "read"
  /\ UNCHANGED <<program, object_, calls_, queue, searching, output_, calls>>

SearchEnds ==
  /\ searching /\ Idle(Searcher)
  /\ searching' = FALSE
  /\ UNCHANGED <<program, object_, calls_, queue, uciPc, output_, calls>>

\* ~UCIEngine waits for the search.
EngineEnds ==
  /\ uciPc = "closing" /\ ~searching
  /\ uciPc' = "ended"
  /\ UNCHANGED <<program, object_, calls_, queue, searching, output_, calls>>

\* sync_cout << ... << sync_endl, up to the call of the callback.  Once the
\* loop has ended, std::cout is the host's again.
WriteLine(w) ==
  /\ IF w = Uci THEN uciPc = "exec" ELSE searching /\ uciPc # "closing"
  /\ Idle(w) /\ ioLock = Nobody /\ written < MaxLines
  /\ ioLock' = w
  /\ written' = written + 1
  /\ line' = [line EXCEPT ![w] = "entered"]
  /\ UNCHANGED <<program, object_, calls_, queue, engine_, yielded, finished, calls>>

\* takeUnretainedValue()
TakeValue(w) ==
  /\ line[w] = "entered"
  /\ line' = [line EXCEPT ![w] = "yield"]
  /\ retained' = IF Retains THEN retained \cup {w} ELSE retained
  /\ UNCHANGED <<program, refs, object, deinitBy, calls_, queue, engine_,
                 ioLock, written, yielded, finished, calls>>

\* A finished stream takes no line.
YieldLine(w) ==
  /\ line[w] = "yield"
  /\ line' = [line EXCEPT ![w] = "release"]
  /\ yielded' = IF finished THEN yielded ELSE yielded + 1
  /\ UNCHANGED <<program, object_, calls_, queue, engine_, ioLock, written, finished, calls>>

ReleaseValue(w) ==
  /\ line[w] = "release"
  /\ line' = [line EXCEPT ![w] = "unlock"]
  /\ retained' = retained \ {w} /\ UNCHANGED refs
  /\ Dropped(w)
  /\ UNCHANGED <<program, teardownLock, isShutdown, bridge, queue, engine_,
                 ioLock, written, yielded, finished, calls>>

UnlockIo(w) ==
  /\ line[w] = "unlock" /\ pc[w] = "out"
  /\ line' = [line EXCEPT ![w] = "none"]
  /\ ioLock' = Nobody
  /\ UNCHANGED <<program, object_, calls_, queue, engine_, written, yielded, finished, calls>>
-----------------------------------------------------------------------------
HostBegins(h) == CallSend(h) \/ CallShutdown(h) \/ Drop(h)
Call(t) ==
  \/ SendLock(t) \/ SendCommand(t)
  \/ ShutdownLock(t) \/ PushQuit(t) \/ JoinEngine(t) \/ Finish(t)
Write(w) == TakeValue(w) \/ YieldLine(w) \/ ReleaseValue(w) \/ UnlockIo(w)
Engine == ReadCommand \/ CommandDone \/ EngineEnds

\* The object and its engine are gone, or the host keeps what is left of them.
Finished ==
  /\ \A t \in Threads : pc[t] = "out" /\ (t \in Writers => line[t] = "none")
  /\ UNCHANGED vars

Next ==
  \/ \E h \in Hosts : HostBegins(h)
  \/ \E t \in Threads : Call(t)
  \/ \E w \in Writers : WriteLine(w) \/ Write(w)
  \/ Engine \/ SearchEnds \/ Finished

Spec == Init /\ [][Next]_vars

\* A thread inside send, shutdown or a callback goes on, the UCI thread reads and
\* ends its commands, and a search ends.  Nothing makes a host call or drop.
Fairness ==
  /\ \A t \in Threads : WF_vars(Call(t))
  /\ \A w \in Writers : WF_vars(Write(w))
  /\ WF_vars(Engine) /\ WF_vars(SearchEnds)

FairSpec == Spec /\ Fairness
-----------------------------------------------------------------------------
(* Properties *)

Locked == {"push", "quit", "join", "finish"}

\* Every variable has its type, and teardownLock is held by the one thread that
\* is in a critical section of it.
TypeOK ==
  /\ program \in Programs
  /\ refs \subseteq Hosts /\ retained \subseteq Writers
  /\ object \in {"alive", "deinit", "freed"}
  /\ deinitBy \in Threads \cup {Nobody}
  /\ pc \in [Threads -> {"out", "send", "shutdown"} \cup Locked]
  /\ \A t \in Threads : pc[t] \in Locked <=> teardownLock = t
  /\ isShutdown \in BOOLEAN /\ bridge \in {"live", "freed"}
  /\ queue \in Seq(Commands)
  /\ uciPc \in {"read", "exec", "closing", "ended"} /\ searching \in BOOLEAN
  /\ line \in [Writers -> {"none", "entered", "yield", "release", "unlock"}]
  /\ ioLock \in Writers \cup {Nobody}
  /\ written \in Nat /\ yielded \in Nat /\ finished \in BOOLEAN
  /\ calls \in Nat

\* Once sf_destroy has freed the bridge, no thread of the engine runs and no host
\* is about to hand the freed reference to it, for a send or a second destroy.
BridgeOutlivesCalls ==
  bridge = "freed" =>
    /\ uciPc = "ended" /\ ~searching
    /\ \A t \in Threads : pc[t] \notin {"push", "quit", "join"}

\* The callback never runs against a freed object (the comment at its set-up).
CallbackSeesObject ==
  \A w \in Writers : line[w] \in {"entered", "yield"} => object # "freed"

\* No line that reached the callback is missing from the stream, the last lines
\* of an engine that is shut down during a search included.
AllOutputDelivered ==
  written = yielded + Cardinality({w \in Writers : line[w] \in {"entered", "yield"}})

\* A thread of the engine never runs the tear-down that waits for it to end.
NoSelfJoin == \A w \in Writers : pc[w] # "join"

\* send, shutdown and deinit return, those that wait for the lock included.
CallsReturn == \A t \in Threads : pc[t] # "out" ~> pc[t] = "out"
=============================================================================
