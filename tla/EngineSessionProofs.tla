------------------------- MODULE EngineSessionProofs -------------------------
(***************************************************************************)
(* The safety of a StockfishEngine object for any number of host threads,  *)
(* calls and lines, in a program where the callback's reference is never   *)
(* the last one: the build does not retain, or the host keeps a reference  *)
(* until shutdown() has returned.                                          *)
(*                                                                         *)
(* None of the properties is inductive.  That the bridge outlives its      *)
(* calls rests on the engine's threads never running the tear-down         *)
(* (WritersNeverCall), which rests on the assumption; and on the tear-down *)
(* being under way, or over, as soon as isShutdown is set (TearDownStages).*)
(***************************************************************************)
EXTENDS EngineSession, FiniteSetTheorems, TLAPS

\* The documented way to tear an engine down, or a build that does not retain.
Disciplined == \A p \in Programs : p.retains => p.keepsRef

References ==
  /\ object = "alive" => refs # {} \/ retained # {}
  /\ ~Retains => retained = {}
  /\ \A w \in retained : line[w] \in {"yield", "release"}
  /\ KeepsRef => finished \/ refs = Hosts
  /\ deinitBy = Nobody <=> object = "alive"

WritersNeverCall == \A w \in Writers : pc[w] = "out" /\ deinitBy # w

TearDownStages ==
  /\ isShutdown = (bridge = "freed" \/ \E t \in Threads : pc[t] \in {"quit", "join"})
  /\ finished => bridge = "freed" /\ \A t \in Threads : pc[t] \notin Locked
  /\ \A t \in Threads : pc[t] = "finish" => bridge = "freed"
  /\ bridge = "freed" => uciPc = "ended" /\ \A t \in Threads : pc[t] \notin {"push", "quit", "join"}
  /\ object = "freed" => bridge = "freed"

WritersBusy ==
  /\ line[Uci] # "none" => uciPc = "exec"
  /\ line[Searcher] # "none" => searching
  /\ uciPc = "ended" => ~searching
  /\ \A w \in Writers : line[w] # "none" <=> ioLock = w

IInv ==
  /\ TypeOK
  /\ References
  /\ WritersNeverCall
  /\ TearDownStages
  /\ WritersBusy
  /\ AllOutputDelivered
-----------------------------------------------------------------------------
\* The initial state satisfies the invariant.
LEMMA InitIInv == Init => IInv
<1> SUFFICES ASSUME Init PROVE IInv
  OBVIOUS
<1> USE SessionAssumption DEF Retains, KeepsRef, Init, Threads, Writers
<1>1. {w \in Writers : line[w] \in {"entered", "yield"}} = {}
  OBVIOUS
<1>2. Cardinality({w \in Writers : line[w] \in {"entered", "yield"}}) = 0
  BY <1>1, FS_EmptySet
<1>3. AllOutputDelivered
  <2> HIDE DEF Writers
  <2> QED BY <1>2 DEF AllOutputDelivered
<1>4. TypeOK /\ WritersNeverCall
  <2>1. queue \in Seq(Commands)
    OBVIOUS
  <2>2. \A t \in Threads : pc[t] = "out" /\ teardownLock # t
    OBVIOUS
  <2>3. pc \in [Threads -> {"out", "send", "shutdown"} \cup Locked]
    OBVIOUS
  <2> QED BY <2>1, <2>2, <2>3 DEF TypeOK, WritersNeverCall, Locked
<1>5. References
  BY DEF References
<1>6. TearDownStages
  BY DEF TearDownStages, Locked
<1>7. WritersBusy
  BY DEF WritersBusy
<1> QED BY <1>3, <1>4, <1>5, <1>6, <1>7 DEF IInv

Safe == TypeOK /\ References /\ WritersNeverCall /\ TearDownStages /\ WritersBusy

\* Every step preserves all of it but the count of lines.
LEMMA NextSafe == Disciplined /\ Safe /\ [Next]_vars => Safe'
<1> SUFFICES ASSUME Disciplined, Safe, [Next]_vars PROVE Safe'
  OBVIOUS
<1> USE SessionAssumption
    DEF Retains, KeepsRef, Safe, TypeOK, References, WritersNeverCall, TearDownStages, WritersBusy,
        Threads, Writers, Locked, Commands, Goto
<1>1. CASE UNCHANGED vars
  BY <1>1 DEF vars, object_, calls_, engine_, output_
<1>2. ASSUME NEW h \in Hosts, HostBegins(h) PROVE Safe'
  <2>1. CASE CallSend(h)
    BY <2>1 DEF CallSend, object_, engine_, output_
  <2>2. CASE CallShutdown(h)
    BY <2>2 DEF CallShutdown, object_, engine_, output_
  <2>3. CASE Drop(h)
    BY <2>3 DEF Drop, Dropped, engine_, output_
  <2> QED BY <1>2, <2>1, <2>2, <2>3 DEF HostBegins
<1>3. ASSUME NEW t \in Threads, Call(t) PROVE Safe'
  <2>1. CASE SendLock(t)
    BY <2>1, ZenonT(40) DEF SendLock, object_, engine_, output_
  <2>2. CASE SendCommand(t)
    BY <2>2 DEF SendCommand, object_, engine_, output_
  <2>3. CASE ShutdownLock(t)
    BY <2>3, ZenonT(40) DEF ShutdownLock, ShutdownReturns, engine_, output_
  <2>4. CASE PushQuit(t)
    BY <2>4 DEF PushQuit, object_, engine_, output_
  <2>5. CASE JoinEngine(t)
    BY <2>5 DEF JoinEngine, object_, engine_, output_
  <2>6. CASE Finish(t)
    BY <2>6 DEF Finish, ShutdownReturns, engine_
  <2> QED BY <1>3, <2>1, <2>2, <2>3, <2>4, <2>5, <2>6 DEF Call
<1>4. ASSUME NEW w \in Writers, WriteLine(w) \/ Write(w) PROVE Safe'
  <2>1. CASE WriteLine(w)
    BY <2>1 DEF WriteLine, Idle, object_, calls_, engine_
  <2>2. CASE TakeValue(w)
    BY <2>2 DEF TakeValue, calls_, engine_
  <2>3. CASE YieldLine(w)
    BY <2>3 DEF YieldLine, object_, calls_, engine_
  <2>4. CASE ReleaseValue(w)
    <3>1. bridge # "freed" /\ ~finished
      BY <2>4 DEF ReleaseValue
    <3>2. UNCHANGED <<object, deinitBy, pc>>
      BY <2>4, <3>1 DEF ReleaseValue, Dropped, Disciplined
    <3>3. /\ line[w] = "release"
          /\ line' = [line EXCEPT ![w] = "unlock"]
          /\ retained' = retained \ {w}
          /\ UNCHANGED <<program, refs, object, deinitBy, pc, teardownLock, isShutdown, bridge,
                         queue, uciPc, searching, ioLock, written, yielded,
                         finished, calls>>
      BY <2>4, <3>2 DEF ReleaseValue, engine_
    <3>4. object # "alive" \/ refs # {} \/ retained' # {}
      BY <2>4, <3>1, <3>2 DEF ReleaseValue, Dropped, Disciplined
    <3>5. TypeOK' /\ WritersBusy'
      BY <3>3
    <3>6. References' /\ WritersNeverCall' /\ TearDownStages'
      BY <3>3, <3>4
    <3> QED BY <3>5, <3>6
  <2>5. CASE UnlockIo(w)
    BY <2>5 DEF UnlockIo, object_, calls_, engine_
  <2> QED BY <1>4, <2>1, <2>2, <2>3, <2>4, <2>5 DEF Write
<1>5. CASE ReadCommand
  BY <1>5 DEF ReadCommand, object_, calls_, output_
<1>6. CASE CommandDone
  BY <1>6 DEF CommandDone, Idle, object_, calls_, output_
<1>7. CASE EngineEnds
  BY <1>7 DEF EngineEnds, object_, calls_, output_
<1>8. CASE SearchEnds
  BY <1>8, ZenonT(40) DEF SearchEnds, Idle, object_, calls_, output_
<1>9. CASE Finished
  BY <1>9 DEF Finished, vars, object_, calls_, engine_, output_
<1> QED BY <1>1, <1>2, <1>3, <1>4, <1>5, <1>6, <1>7, <1>8, <1>9 DEF Next, Engine
-----------------------------------------------------------------------------
InCallback == {w \in Writers : line[w] \in {"entered", "yield"}}

\* Every step preserves the count of lines: sync_cout lets one writer at a time
\* into the callback, and none is in it when the stream is finished.
LEMMA NextDelivered ==
  Safe /\ Safe' /\ AllOutputDelivered /\ [Next]_vars => AllOutputDelivered'
<1> SUFFICES ASSUME Safe, Safe', AllOutputDelivered, [Next]_vars
             PROVE  AllOutputDelivered'
  OBVIOUS
<1>1. written = yielded + Cardinality(InCallback)
  BY DEF AllOutputDelivered, InCallback
<1>2. SUFFICES written' = yielded' + Cardinality(InCallback')
  BY DEF AllOutputDelivered, InCallback
<1>3. CASE UNCHANGED <<written, yielded, line>>
  BY <1>1, <1>3 DEF InCallback
<1>4. ASSUME NEW w \in Writers, WriteLine(w) PROVE written' = yielded' + Cardinality(InCallback')
  <2>1. written' = written + 1 /\ yielded' = yielded
    BY <1>4 DEF WriteLine
  <2>2. InCallback = {}
    BY <1>4, SessionAssumption
    DEF WriteLine, InCallback, Safe, WritersBusy, Threads
  <2>3. InCallback' = {w}
    BY <1>4, SessionAssumption
    DEF WriteLine, InCallback, Safe, WritersBusy, TypeOK, Threads
  <2>4. Cardinality(InCallback) = 0 /\ Cardinality(InCallback') = 1
    BY <2>2, <2>3, FS_EmptySet, FS_Singleton
  <2> QED BY <1>1, <2>1, <2>4 DEF Safe, TypeOK
<1>5. ASSUME NEW w \in Writers, YieldLine(w) PROVE written' = yielded' + Cardinality(InCallback')
  <2>1. ~finished
    BY <1>5 DEF YieldLine, Safe, TearDownStages, WritersBusy, Writers
  <2>2. written' = written /\ yielded' = yielded + 1
    BY <1>5, <2>1 DEF YieldLine
  <2>3. InCallback = {w}
    BY <1>5, SessionAssumption DEF YieldLine, InCallback, Safe, WritersBusy
  <2>4. InCallback' = {}
    BY <1>5, <2>3 DEF YieldLine, InCallback, Safe, TypeOK
  <2>5. Cardinality(InCallback) = 1 /\ Cardinality(InCallback') = 0
    BY <2>3, <2>4, FS_EmptySet, FS_Singleton
  <2> QED BY <1>1, <2>2, <2>5 DEF Safe, TypeOK
<1>6. ASSUME NEW w \in Writers, TakeValue(w) \/ ReleaseValue(w) \/ UnlockIo(w)
      PROVE  written' = yielded' + Cardinality(InCallback')
  <2>1. UNCHANGED <<written, yielded>>
    BY <1>6 DEF TakeValue, ReleaseValue, UnlockIo
  <2>2. InCallback' = InCallback
    BY <1>6 DEF TakeValue, ReleaseValue, UnlockIo, InCallback, Safe, TypeOK
  <2> QED BY <1>1, <2>1, <2>2
<1>7. CASE ReadCommand \/ CommandDone \/ EngineEnds \/ SearchEnds \/ Finished
  BY <1>3, <1>7
  DEF ReadCommand, CommandDone, EngineEnds, SearchEnds, Finished, output_, vars
<1>8. ASSUME NEW h \in Hosts, HostBegins(h) PROVE UNCHANGED <<written, yielded, line>>
  BY <1>8 DEF HostBegins, CallSend, CallShutdown, Drop, output_
<1>9. ASSUME NEW t \in Threads, Call(t) PROVE UNCHANGED <<written, yielded, line>>
  BY <1>9
  DEF Call, SendLock, SendCommand, ShutdownLock, PushQuit, JoinEngine, Finish, output_
<1>10. CASE UNCHANGED vars
  BY <1>3, <1>10 DEF vars, output_
<1> QED
  BY <1>3, <1>4, <1>5, <1>6, <1>7, <1>8, <1>9, <1>10 DEF Next, Write, Engine

LEMMA NextIInv == Disciplined /\ IInv /\ [Next]_vars => IInv'
  BY NextSafe, NextDelivered DEF IInv, Safe

\* What the invariant implies for the properties the runs check.
LEMMA IInvImplies == IInv => BridgeOutlivesCalls /\ CallbackSeesObject
<1> SUFFICES ASSUME IInv PROVE BridgeOutlivesCalls /\ CallbackSeesObject
  OBVIOUS
<1>1. BridgeOutlivesCalls
  BY DEF IInv, TearDownStages, WritersBusy, BridgeOutlivesCalls
<1>2. CallbackSeesObject
  BY DEF IInv, TearDownStages, WritersBusy, CallbackSeesObject, Writers
<1> QED BY <1>1, <1>2
-----------------------------------------------------------------------------
\* Every variable has its type and teardownLock is held by the one thread in
\* its critical section, for any number of hosts, calls and lines.
THEOREM TypeCorrect ==
  ASSUME Disciplined PROVE Spec => []TypeOK
<1>1. IInv /\ [Next]_vars => IInv'
  BY NextIInv
<1> QED BY <1>1, InitIInv, PTL DEF Spec, IInv

\* No thread uses the bridge after sf_destroy has freed it: sends and second
\* shutdowns are held off by teardownLock, the engine's threads have ended.
THEOREM BridgeNotUsedAfterFree ==
  ASSUME Disciplined PROVE Spec => []BridgeOutlivesCalls
<1>1. IInv /\ [Next]_vars => IInv'
  BY NextIInv
<1> QED BY <1>1, InitIInv, IInvImplies, PTL DEF Spec

\* "The callback never fires against a freed object."
THEOREM CallbackIsSafe ==
  ASSUME Disciplined PROVE Spec => []CallbackSeesObject
<1>1. IInv /\ [Next]_vars => IInv'
  BY NextIInv
<1> QED BY <1>1, InitIInv, IInvImplies, PTL DEF Spec

\* Every line that reached the callback is in the stream, or on its way into it.
THEOREM NoLineIsDropped ==
  ASSUME Disciplined PROVE Spec => []AllOutputDelivered
<1>1. IInv /\ [Next]_vars => IInv'
  BY NextIInv
<1> QED BY <1>1, InitIInv, PTL DEF Spec, IInv
=============================================================================
