------------------------- MODULE LifecycleGateProofs -------------------------
(***************************************************************************)
(* The safety of the lifecycle gate for any set of host threads.           *)
(*                                                                         *)
(* The gate alone is not inductive: that the streams are clean when it     *)
(* opens rests on the engine thread living inside the critical section of  *)
(* its creator (EngineInsideGate), and on each stream naming exactly the   *)
(* engine thread that is between its swap and its restore (StreamOwner).   *)
(***************************************************************************)
EXTENDS LifecycleGate, TLAPS

OneHolder == \A t, u \in Threads : Holds(t) /\ Holds(u) => t = u

EngineInsideGate ==
  \A t \in Threads : engPc[t] # "none" => hostPc[t] \in {"owner", "joining"}

StreamOwner ==
  \A t \in Threads :
    /\ stdin = t <=> engPc[t] \in {"swapCout", "loop", "restoreCin"}
    /\ stdout = t <=> engPc[t] \in {"loop", "restoreCin", "restoreCout"}

TablesBuilt ==
  \A t \in Threads : hostPc[t] \in {"spawn", "owner", "joining"} => sfInitialized

IInv ==
  /\ TypeOK
  /\ GateHasHolder
  /\ OneHolder
  /\ EngineInsideGate
  /\ StreamOwner
  /\ TablesBuilt
-----------------------------------------------------------------------------
\* The initial state satisfies the invariant.
LEMMA InitIInv == Init => IInv
  BY GateAssumption
  DEF Init, IInv, TypeOK, HostPcs, EngPcs, GateHasHolder, OneHolder, Holds,
      EngineInsideGate, StreamOwner, TablesBuilt

\* Every step preserves it.
LEMMA NextIInv == IInv /\ [Next]_vars => IInv'
<1> SUFFICES ASSUME IInv, [Next]_vars PROVE IInv'
  OBVIOUS
<1> USE GateAssumption
    DEF IInv, TypeOK, HostPcs, EngPcs, GateHasHolder, OneHolder, Holds,
        EngineInsideGate, StreamOwner, TablesBuilt, HostGoto, EngGoto
<1>1. CASE UNCHANGED vars
  BY <1>1 DEF vars, streams
<1>2. ASSUME NEW t \in Threads, Create(t) PROVE IInv'
  <2>1. CASE CreateCall(t)
    BY <2>1 DEF CreateCall, streams
  <2>2. CASE CreateGate(t)
    <3>1. CASE gEngineLive
      BY <2>2, <3>1 DEF CreateGate, streams
    <3>2. CASE ~gEngineLive
      <4>1. \A u \in Threads : ~Holds(u) /\ engPc[u] = "none"
        BY <3>2
      <4>2. /\ hostPc[t] = "createGate" /\ gEngineLive'
            /\ hostPc' = [hostPc EXCEPT ![t] = "tables"]
            /\ UNCHANGED <<sfInitialized, engPc, quit, streams>>
        BY <2>2, <3>2 DEF CreateGate
      <4>3. TypeOK' /\ TablesBuilt'
        BY <4>2 DEF streams
      <4>4. GateHasHolder' /\ OneHolder'
        BY <4>1, <4>2
      <4>5. EngineInsideGate' /\ StreamOwner'
        BY <4>1, <4>2 DEF streams
      <4> QED BY <4>3, <4>4, <4>5
    <3> QED BY <3>1, <3>2
  <2>3. CASE BuildTables(t)
    BY <2>3 DEF BuildTables, streams
  <2>4. CASE SpawnEngine(t)
    BY <2>4 DEF SpawnEngine, streams
  <2>5. CASE SpawnFails(t)
    BY <2>5 DEF SpawnFails, streams
  <2> QED BY <1>2, <2>1, <2>2, <2>3, <2>4, <2>5 DEF Create
<1>3. ASSUME NEW t \in Threads, Destroy(t) PROVE IInv'
  <2>1. CASE SendQuit(t)
    BY <2>1 DEF SendQuit, streams
  <2>2. CASE DestroyCall(t)
    BY <2>2 DEF DestroyCall, streams
  <2>3. CASE Join(t)
    BY <2>3 DEF Join, streams
  <2>4. CASE FreeGate(t)
    BY <2>4, ZenonT(40) DEF FreeGate, streams
  <2>5. CASE NotifyOne(t)
    BY <2>5 DEF NotifyOne, WakePc, Asleep, streams
  <2> QED BY <1>3, <2>1, <2>2, <2>3, <2>4, <2>5 DEF Destroy
<1>4. ASSUME NEW t \in Threads, WaitIdle(t) \/ SpuriousWake(t) PROVE IInv'
  <2>1. CASE IdleCall(t)
    BY <2>1 DEF IdleCall, streams
  <2>2. CASE IdleGate(t)
    BY <2>2 DEF IdleGate, streams
  <2>3. CASE IdleTimeout(t)
    BY <2>3 DEF IdleTimeout, streams
  <2>4. CASE SpuriousWake(t)
    BY <2>4 DEF SpuriousWake, WakePc, Asleep, streams
  <2> QED BY <1>4, <2>1, <2>2, <2>3, <2>4 DEF WaitIdle
<1>5. ASSUME NEW t \in Threads, RunEngine(t) PROVE IInv'
  <2>1. CASE SwapCin(t)
    BY <2>1 DEF SwapCin, hostVars
  <2>2. CASE SwapCout(t)
    BY <2>2 DEF SwapCout, hostVars
  <2>3. CASE LoopEnds(t)
    BY <2>3 DEF LoopEnds, hostVars, streams
  <2>4. CASE RestoreCin(t)
    BY <2>4 DEF RestoreCin, hostVars
  <2>5. CASE RestoreCout(t)
    BY <2>5 DEF RestoreCout, hostVars
  <2>6. CASE ThreadEnds(t)
    BY <2>6 DEF ThreadEnds, hostVars, streams
  <2> QED BY <1>5, <2>1, <2>2, <2>3, <2>4, <2>5, <2>6 DEF RunEngine
<1> QED BY <1>1, <1>2, <1>3, <1>4, <1>5 DEF Next

LEMMA AlwaysIInv == Spec => []IInv
  BY InitIInv, NextIInv, PTL DEF Spec
-----------------------------------------------------------------------------
\* What the invariant implies for the properties the runs check.
LEMMA IInvImplies ==
  IInv => OneLiveEngine /\ NoDanglingStream /\ NoEngineWithoutTables
<1> SUFFICES ASSUME IInv PROVE OneLiveEngine /\ NoDanglingStream /\ NoEngineWithoutTables
  OBVIOUS
<1> USE GateAssumption DEF IInv, TypeOK, OneHolder, EngineInsideGate, Holds
<1>1. OneLiveEngine
  BY DEF OneLiveEngine
<1>2. NoDanglingStream
  <2>1. stdin # Nobody => engPc[stdin] \in {"swapCout", "loop", "restoreCin"}
    BY DEF StreamOwner
  <2>2. stdout # Nobody => engPc[stdout] \in {"loop", "restoreCin", "restoreCout"}
    BY DEF StreamOwner
  <2>3. ~gEngineLive => stdin = Nobody /\ stdout = Nobody
    BY <2>1, <2>2 DEF GateHasHolder
  <2> QED BY <2>1, <2>2, <2>3 DEF NoDanglingStream
<1>3. NoEngineWithoutTables
  BY DEF NoEngineWithoutTables, TablesBuilt
<1> QED BY <1>1, <1>2, <1>3

\* Every variable has its type, and runEngine only ever saves the host's own
\* stream buffers, for any number of host threads.
THEOREM TypeCorrect == Spec => []TypeOK
  BY AlwaysIInv, PTL DEF IInv

\* At most one engine is live in the process, its thread included: the promise
\* of the lifecycle gate in sf_create and sf_destroy.
THEOREM OneEngine == Spec => []OneLiveEngine
  BY AlwaysIInv, IInvImplies, PTL

\* No path through sf_create or sf_destroy leaks the one-live-engine slot.
THEOREM GateNeverLeaks == Spec => []GateHasHolder
  BY AlwaysIInv, PTL DEF IInv

\* std::cin and std::cout never use a buffer of a runEngine frame that is gone.
THEOREM StreamsNeverDangle == Spec => []NoDanglingStream
  BY AlwaysIInv, IInvImplies, PTL

\* The global tables are complete and unwritten whenever an engine exists.
THEOREM TablesComplete == Spec => []NoEngineWithoutTables
  BY AlwaysIInv, IInvImplies, PTL
-----------------------------------------------------------------------------
(* Wake-ups.  With no caller of sf_wait_idle, one notification is enough.   *)

WakeInv == NobodyIdles /\ NoLostWakeup

LEMMA NextWakeInv ==
  ASSUME Idlers = {}, TypeOK, WakeInv, [Next]_vars PROVE WakeInv'
<1> USE DEF WakeInv, NobodyIdles, NoLostWakeup, TypeOK, HostPcs, HostGoto
<1>1. CASE UNCHANGED vars
  BY <1>1 DEF vars
<1>2. ASSUME NEW t \in Threads,
             Create(t) \/ Destroy(t) \/ WaitIdle(t) \/ SpuriousWake(t)
      PROVE  NobodyIdles' /\ NoLostWakeup'
  <2>1. CASE CreateCall(t) \/ BuildTables(t) \/ SpawnEngine(t) \/ SpawnFails(t)
    BY <2>1 DEF CreateCall, BuildTables, SpawnEngine, SpawnFails
  <2>2. CASE CreateGate(t)
    BY <2>2 DEF CreateGate
  <2>3. CASE SendQuit(t) \/ DestroyCall(t) \/ Join(t)
    BY <2>3 DEF SendQuit, DestroyCall, Join
  <2>4. CASE FreeGate(t)
    BY <2>4 DEF FreeGate
  <2>5. CASE NotifyOne(t)
    BY <2>5 DEF NotifyOne, WakePc, Asleep
  <2>6. CASE SpuriousWake(t)
    BY <2>6 DEF SpuriousWake, WakePc, Asleep
  <2>7. ~WaitIdle(t)
    BY Idlers = {} DEF WaitIdle, IdleCall, IdleGate, IdleTimeout
  <2> QED BY <1>2, <2>1, <2>2, <2>3, <2>4, <2>5, <2>6, <2>7 DEF Create, Destroy
<1>3. ASSUME NEW t \in Threads, RunEngine(t)
      PROVE  NobodyIdles' /\ NoLostWakeup'
  <2>1. UNCHANGED <<hostPc, gEngineLive>>
    BY <1>3 DEF RunEngine, hostVars, SwapCin, SwapCout, LoopEnds, RestoreCin,
                RestoreCout, ThreadEnds
  <2> QED BY <2>1
<1> QED BY <1>1, <1>2, <1>3 DEF Next

\* gLifecycleCV.notify_one() never leaves the gate open with every creator
\* asleep, for any number of creating threads, as long as nobody sleeps in
\* sf_wait_idle.
THEOREM NotifyOneSuffices ==
  ASSUME Idlers = {} PROVE Spec => []NoLostWakeup
<1>1. Init => WakeInv
  BY InitIInv DEF IInv, Init, WakeInv, NobodyIdles, NoLostWakeup
<1>2. IInv /\ WakeInv /\ [Next]_vars => WakeInv'
  BY NextWakeInv, Idlers = {} DEF IInv
<1>3. WakeInv => NoLostWakeup
  BY DEF WakeInv
<1> QED BY <1>1, <1>2, <1>3, AlwaysIInv, PTL DEF Spec
-----------------------------------------------------------------------------
(* Refinement: the bridge implements ExclusiveEngine. *)

LEMMA OwnerIsHolder ==
  ASSUME OneHolder, NEW t \in Threads, Holds(t) PROVE owner = t
  BY DEF owner, OneHolder

LEMMA NoHolderNoOwner ==
  ASSUME \A t \in Threads : ~Holds(t) PROVE owner = Nobody
  BY DEF owner

LEMMA InitImplementsExclusiveEngine == Init => Abstract!Init
  BY NoHolderNoOwner DEF Init, Abstract!Init, Holds

\* A step that moves no gate holder keeps the owner.
LEMMA SameHolderSameOwner ==
  ASSUME \A t \in Threads : Holds(t)' <=> Holds(t) PROVE owner' = owner
  BY DEF owner

\* Every step is a step of ExclusiveEngine, or changes nothing it can see.
LEMMA StepImplementsExclusiveEngine ==
  ASSUME IInv, [Next]_vars PROVE [Abstract!Next]_(Abstract!vars)
<1> USE GateAssumption DEF IInv, TypeOK, HostGoto, EngGoto, Holds
<1> DEFINE Quiet == UNCHANGED <<owner, stdin, stdout>>
<1>1. CASE UNCHANGED vars
  BY <1>1, SameHolderSameOwner DEF vars, streams, Abstract!vars
<1>2. ASSUME NEW t \in Threads, RunEngine(t) PROVE Abstract!Redirect(t) \/ Quiet
  <2>1. UNCHANGED hostPc
    BY <1>2 DEF RunEngine, hostVars, SwapCin, SwapCout, LoopEnds, RestoreCin,
                RestoreCout, ThreadEnds
  <2>2. UNCHANGED owner
    BY <2>1, SameHolderSameOwner
  <2>3. engPc[t] # "none"
    BY <1>2 DEF RunEngine, SwapCin, SwapCout, LoopEnds, RestoreCin,
                RestoreCout, ThreadEnds
  <2>4. owner = t
    BY <2>3, OwnerIsHolder DEF EngineInsideGate
  <2>5. CASE SwapCin(t) \/ RestoreCin(t)
    BY <2>2, <2>4, <2>5 DEF SwapCin, RestoreCin, Abstract!Redirect
  <2>6. CASE SwapCout(t) \/ RestoreCout(t)
    BY <2>2, <2>4, <2>6 DEF SwapCout, RestoreCout, Abstract!Redirect
  <2>7. CASE LoopEnds(t) \/ ThreadEnds(t)
    BY <2>2, <2>7 DEF LoopEnds, ThreadEnds, streams
  <2> QED BY <1>2, <2>5, <2>6, <2>7 DEF RunEngine
<1>3. ASSUME NEW t \in Threads, CreateGate(t), ~gEngineLive PROVE Abstract!Begin(t)
  <2>1. /\ \A u \in Threads : ~Holds(u)
        /\ hostPc' = [hostPc EXCEPT ![t] = "tables"]
        /\ UNCHANGED <<stdin, stdout>>
    BY <1>3 DEF CreateGate, GateHasHolder, streams
  <2>2. owner = Nobody
    BY <2>1, NoHolderNoOwner
  <2>3. \A u \in Threads : Holds(u)' <=> u = t
    BY <2>1, <1>3
  <2>4. owner' = t
    BY <2>3 DEF owner
  <2> QED BY <2>1, <2>2, <2>4 DEF Abstract!Begin
<1>4. ASSUME NEW t \in Threads, FreeGate(t) PROVE Abstract!End(t)
  <2>1. Holds(t) /\ owner = t /\ UNCHANGED <<stdin, stdout>>
    BY <1>4, OwnerIsHolder DEF FreeGate, streams
  <2>2. \A u \in Threads : engPc[u] = "none"
    BY <1>4, <2>1 DEF FreeGate, EngineInsideGate, OneHolder
  <2>3. stdin = Nobody /\ stdout = Nobody
    BY <2>2 DEF StreamOwner
  <2>4. \A u \in Threads : ~Holds(u)'
    BY <1>4, <2>1 DEF FreeGate, OneHolder
  <2>5. owner' = Nobody
    BY <2>4 DEF owner
  <2> QED BY <2>1, <2>3, <2>5 DEF Abstract!End
<1>5. ASSUME NEW t \in Threads,
             \/ CreateCall(t) \/ (CreateGate(t) /\ gEngineLive) \/ BuildTables(t)
             \/ SpawnEngine(t) \/ SpawnFails(t) \/ SendQuit(t) \/ DestroyCall(t)
             \/ Join(t) \/ NotifyOne(t) \/ WaitIdle(t) \/ SpuriousWake(t)
      PROVE  Quiet
  <2>1. UNCHANGED <<stdin, stdout>>
    BY <1>5 DEF CreateCall, CreateGate, BuildTables, SpawnEngine, SpawnFails, SendQuit,
                DestroyCall, Join, NotifyOne, WaitIdle, IdleCall, IdleGate,
                IdleTimeout, SpuriousWake, streams
  <2>2. \A u \in Threads : Holds(u)' <=> Holds(u)
    <3>1. CASE NotifyOne(t) \/ SpuriousWake(t)
      BY <3>1 DEF NotifyOne, SpuriousWake, WakePc, Asleep
    <3>2. CASE WaitIdle(t) \/ CreateCall(t) \/ (CreateGate(t) /\ gEngineLive)
      BY <3>2 DEF WaitIdle, IdleCall, IdleGate, IdleTimeout, CreateCall, CreateGate
    <3>3. CASE BuildTables(t) \/ SpawnEngine(t) \/ SpawnFails(t)
      BY <3>3 DEF BuildTables, SpawnEngine, SpawnFails
    <3>4. CASE SendQuit(t) \/ DestroyCall(t) \/ Join(t)
      BY <3>4 DEF SendQuit, DestroyCall, Join
    <3> QED BY <1>5, <3>1, <3>2, <3>3, <3>4
  <2> QED BY <2>1, <2>2, SameHolderSameOwner
<1> QED
  BY <1>1, <1>2, <1>3, <1>4, <1>5
  DEF Next, Create, Destroy, Abstract!Next, Abstract!vars

\* The bridge implements ExclusiveEngine: an engine's whole life, its use of the
\* standard streams included, is one exclusive interval.
THEOREM BridgeImplementsExclusiveEngine == Spec => ImplementsExclusiveEngine
<1>1. IInv /\ [Next]_vars => [Abstract!Next]_(Abstract!vars)
  BY StepImplementsExclusiveEngine
<1> QED
  BY <1>1, InitImplementsExclusiveEngine, AlwaysIInv, PTL
  DEF Spec, ImplementsExclusiveEngine, Abstract!Spec
=============================================================================
