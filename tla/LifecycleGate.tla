---------------------------- MODULE LifecycleGate ----------------------------
(***************************************************************************)
(* The process-wide lifecycle gate of the C bridge (StockfishBridge.cpp):  *)
(* sf_create, sf_destroy and sf_wait_idle called by several host threads,  *)
(* and the engine thread each successful sf_create starts, reduced to what *)
(* it does to the process-global std::cin / std::cout stream buffers.      *)
(*                                                                         *)
(* gLifecycleMutex guards every access to gEngineLive, so one critical     *)
(* section is one step.  gLifecycleCV.notify_one() runs after the mutex is *)
(* released, as a step of its own; a thread inside wait() is asleep until  *)
(* it is notified, wakes up spuriously or (sf_wait_idle) times out, and    *)
(* evaluates the predicate again before it goes on.                        *)
(*                                                                         *)
(* An engine is named by the host thread that created it: a thread uses    *)
(* one engine at a time.                                                   *)
(***************************************************************************)
EXTENDS Naturals, FiniteSets

CONSTANTS Threads,   \* the host threads that call sf_create / sf_destroy
          Idlers,    \* those among them that also call sf_wait_idle
          Nobody     \* the host's own stream buffer; no engine

ASSUME GateAssumption == Nobody \notin Threads /\ Idlers \subseteq Threads

VARIABLES
  gEngineLive,     \* the gate
  sfInitialized,   \* the attack tables are built
  hostPc,          \* where each host thread is in the bridge's functions
  engPc,           \* where the engine thread it created is in runEngine
  quit,            \* its command queue holds "quit" or is shut down
  stdin, stdout,   \* whose buffer std::cin / std::cout uses
  oldCin, oldCout  \* the buffers runEngine saved on its stack

streams == <<stdin, stdout, oldCin, oldCout>>
vars == <<gEngineLive, sfInitialized, hostPc, engPc, quit, streams>>

HostPcs == {"out", "createGate", "createAsleep", "tables", "spawn", "owner",
            "joining", "freeGate", "notify", "idleGate", "idleAsleep"}

EngPcs == {"none", "swapCin", "swapCout", "loop", "restoreCin", "restoreCout",
           "teardown", "done"}

\* Threads blocked inside gLifecycleCV.wait / wait_for.
Asleep(t) == hostPc[t] \in {"createAsleep", "idleAsleep"}

\* Threads between taking the gate in sf_create and giving it back.
Holds(t) == hostPc[t] \in {"tables", "spawn", "owner", "joining", "freeGate"}

Init ==
  /\ gEngineLive = FALSE /\ sfInitialized = FALSE
  /\ hostPc = [t \in Threads |-> "out"]
  /\ engPc  = [t \in Threads |-> "none"]
  /\ quit   = [t \in Threads |-> FALSE]
  /\ stdin = Nobody /\ stdout = Nobody
  /\ oldCin  = [t \in Threads |-> Nobody]
  /\ oldCout = [t \in Threads |-> Nobody]

HostGoto(t, from, to) == hostPc[t] = from /\ hostPc' = [hostPc EXCEPT ![t] = to]
EngGoto(t, from, to) == engPc[t] = from /\ engPc' = [engPc EXCEPT ![t] = to]

\* A notified (or spuriously woken) thread re-evaluates its predicate.
WakePc(t) == IF hostPc[t] = "createAsleep" THEN "createGate" ELSE "idleGate"
-----------------------------------------------------------------------------
(* sf_create *)

CreateCall(t) ==
  /\ HostGoto(t, "out", "createGate")
  /\ UNCHANGED <<gEngineLive, sfInitialized, engPc, quit, streams>>

\* gLifecycleCV.wait(lock, [] { return !gEngineLive; }); gEngineLive = true;
CreateGate(t) ==
  /\ \/ gEngineLive /\ HostGoto(t, "createGate", "createAsleep") /\ UNCHANGED gEngineLive
     \/ ~gEngineLive /\ HostGoto(t, "createGate", "tables") /\ gEngineLive' = TRUE
  /\ UNCHANGED <<sfInitialized, engPc, quit, streams>>

BuildTables(t) ==
  /\ HostGoto(t, "tables", "spawn")
  /\ sfInitialized' = TRUE
  /\ UNCHANGED <<gEngineLive, engPc, quit, streams>>

SpawnEngine(t) ==
  /\ HostGoto(t, "spawn", "owner")
  /\ EngGoto(t, "none", "swapCin")
  /\ quit' = [quit EXCEPT ![t] = FALSE]
  /\ UNCHANGED <<gEngineLive, sfInitialized, streams>>

\* Mutant: a failed creation returns NULL and keeps the gate.
SpawnFailsLeaking(t) ==
  /\ HostGoto(t, "spawn", "out")
  /\ UNCHANGED <<gEngineLive, sfInitialized, engPc, quit, streams>>

\* No engine thread could be created: delete impl, free the gate, return NULL.
SpawnFails(t) ==
  /\ HostGoto(t, "spawn", "freeGate")
  /\ UNCHANGED <<gEngineLive, sfInitialized, engPc, quit, streams>>
-----------------------------------------------------------------------------
(* sf_destroy, and the gate's release that it shares with a failed create *)

\* sf_send_command(ref, "quit") by the host, before it destroys the engine.
SendQuit(t) ==
  /\ hostPc[t] = "owner" /\ ~quit[t]
  /\ quit' = [quit EXCEPT ![t] = TRUE]
  /\ UNCHANGED <<gEngineLive, sfInitialized, hostPc, engPc, streams>>

DestroyCall(t) ==
  /\ HostGoto(t, "owner", "joining")
  /\ quit' = [quit EXCEPT ![t] = TRUE]
  /\ UNCHANGED <<gEngineLive, sfInitialized, engPc, streams>>

\* Mutant: the engine thread is detached, not joined.
JoinDetached(t) ==
  /\ HostGoto(t, "joining", "freeGate")
  /\ UNCHANGED <<gEngineLive, sfInitialized, engPc, quit, streams>>

\* join(engineThread); delete impl;
Join(t) ==
  /\ HostGoto(t, "joining", "freeGate")
  /\ EngGoto(t, "done", "none")
  /\ UNCHANGED <<gEngineLive, sfInitialized, quit, streams>>

FreeGate(t) ==
  /\ HostGoto(t, "freeGate", "notify")
  /\ gEngineLive' = FALSE
  /\ UNCHANGED <<sfInitialized, engPc, quit, streams>>

\* Mutant: the gate is opened and nobody is told.
NotifyNobody(t) ==
  /\ HostGoto(t, "notify", "out")
  /\ UNCHANGED <<gEngineLive, sfInitialized, engPc, quit, streams>>

\* gLifecycleCV.notify_one(): whichever waiter the implementation picks.
NotifyOne(t) ==
  /\ hostPc[t] = "notify"
  /\ \/ \E w \in Threads :
          /\ Asleep(w)
          /\ hostPc' = [hostPc EXCEPT ![t] = "out", ![w] = WakePc(w)]
     \/ /\ \A w \in Threads : ~Asleep(w)
        /\ hostPc' = [hostPc EXCEPT ![t] = "out"]
  /\ UNCHANGED <<gEngineLive, sfInitialized, engPc, quit, streams>>
-----------------------------------------------------------------------------
(* sf_wait_idle, and wake-ups nobody asked for *)

IdleCall(t) ==
  /\ t \in Idlers
  /\ HostGoto(t, "out", "idleGate")
  /\ UNCHANGED <<gEngineLive, sfInitialized, engPc, quit, streams>>

IdleGate(t) ==
  /\ HostGoto(t, "idleGate", IF gEngineLive THEN "idleAsleep" ELSE "out")
  /\ UNCHANGED <<gEngineLive, sfInitialized, engPc, quit, streams>>

IdleTimeout(t) ==
  /\ HostGoto(t, "idleAsleep", "out")
  /\ UNCHANGED <<gEngineLive, sfInitialized, engPc, quit, streams>>

SpuriousWake(t) ==
  /\ Asleep(t)
  /\ hostPc' = [hostPc EXCEPT ![t] = WakePc(t)]
  /\ UNCHANGED <<gEngineLive, sfInitialized, engPc, quit, streams>>
-----------------------------------------------------------------------------
(* runEngine, on the engine thread *)

hostVars == <<gEngineLive, sfInitialized, hostPc, quit>>

SwapCin(t) ==
  /\ EngGoto(t, "swapCin", "swapCout")
  /\ oldCin' = [oldCin EXCEPT ![t] = stdin]
  /\ stdin' = t
  /\ UNCHANGED <<hostVars, stdout, oldCout>>

SwapCout(t) ==
  /\ EngGoto(t, "swapCout", "loop")
  /\ oldCout' = [oldCout EXCEPT ![t] = stdout]
  /\ stdout' = t
  /\ UNCHANGED <<hostVars, stdin, oldCin>>

LoopEnds(t) ==
  /\ quit[t]
  /\ EngGoto(t, "loop", "restoreCin")
  /\ UNCHANGED <<hostVars, streams>>

RestoreCin(t) ==
  /\ EngGoto(t, "restoreCin", "restoreCout")
  /\ stdin' = oldCin[t]
  /\ UNCHANGED <<hostVars, stdout, oldCin, oldCout>>

\* Mutant: std::cout keeps the dead frame's buffer.
RestoreCoutForgotten(t) ==
  /\ EngGoto(t, "restoreCout", "teardown")
  /\ UNCHANGED <<hostVars, streams>>

RestoreCout(t) ==
  /\ EngGoto(t, "restoreCout", "teardown")
  /\ stdout' = oldCout[t]
  /\ UNCHANGED <<hostVars, stdin, oldCin, oldCout>>

\* The locals of runEngine die: the UCIEngine first, then both stream buffers.
ThreadEnds(t) ==
  /\ EngGoto(t, "teardown", "done")
  /\ UNCHANGED <<hostVars, streams>>
-----------------------------------------------------------------------------
Create(t) == CreateCall(t) \/ CreateGate(t) \/ BuildTables(t) \/ SpawnEngine(t) \/ SpawnFails(t)
Destroy(t) == SendQuit(t) \/ DestroyCall(t) \/ Join(t) \/ FreeGate(t) \/ NotifyOne(t)
WaitIdle(t) == IdleCall(t) \/ IdleGate(t) \/ IdleTimeout(t)
RunEngine(t) == SwapCin(t) \/ SwapCout(t) \/ LoopEnds(t)
                \/ RestoreCin(t) \/ RestoreCout(t) \/ ThreadEnds(t)

Next == \E t \in Threads :
          Create(t) \/ Destroy(t) \/ WaitIdle(t) \/ SpuriousWake(t) \/ RunEngine(t)

Spec == Init /\ [][Next]_vars

\* Threads that are inside the bridge, and engine threads, keep running; a
\* created engine is destroyed (the contract of StockfishBridge.h); a timeout
\* expires.  Nothing makes a thread call sf_create, sf_wait_idle or send
\* "quit", and spurious wake-ups need not happen.
Fairness ==
  \A t \in Threads :
    /\ WF_vars(CreateGate(t)) /\ WF_vars(BuildTables(t)) /\ WF_vars(SpawnEngine(t) \/ SpawnFails(t))
    /\ WF_vars(DestroyCall(t)) /\ WF_vars(Join(t)) /\ WF_vars(FreeGate(t)) /\ WF_vars(NotifyOne(t))
    /\ WF_vars(IdleGate(t)) /\ WF_vars(IdleTimeout(t))
    /\ WF_vars(RunEngine(t))

FairSpec == Spec /\ Fairness
-----------------------------------------------------------------------------
(* Properties *)

\* Every variable has its type; the buffers that runEngine saves on its stack
\* are always the host's own, never those of another engine.
TypeOK ==
  /\ gEngineLive \in BOOLEAN /\ sfInitialized \in BOOLEAN
  /\ hostPc \in [Threads -> HostPcs]
  /\ engPc \in [Threads -> EngPcs]
  /\ quit \in [Threads -> BOOLEAN]
  /\ stdin \in Threads \cup {Nobody} /\ stdout \in Threads \cup {Nobody}
  /\ oldCin \in [Threads -> {Nobody}] /\ oldCout \in [Threads -> {Nobody}]

\* At most one engine exists from the moment sf_create passes the gate until
\* its engine thread has been joined and its memory freed ("only one Stockfish
\* engine instance may be live in a process at a time"), its thread included.
OneLiveEngine ==
  \A t, u \in Threads :
    (Holds(t) \/ engPc[t] # "none") /\ (Holds(u) \/ engPc[u] # "none") => t = u

\* The gate is shut exactly while some thread still has to open it again: no
\* path through sf_create (a failed thread creation included) or sf_destroy
\* leaks the one-live-engine slot.
GateHasHolder == gEngineLive <=> \E t \in Threads : Holds(t)

\* std::cin / std::cout never use a stream buffer of a runEngine frame that is
\* gone: a redirected stream belongs to an engine thread still between its swap
\* and its restore, so whoever finds the gate open finds the host's streams.
NoDanglingStream ==
  /\ stdin # Nobody => engPc[stdin] \in {"swapCout", "loop", "restoreCin"}
  /\ stdout # Nobody => engPc[stdout] \in {"loop", "restoreCin", "restoreCout"}
  /\ ~gEngineLive => stdin = Nobody /\ stdout = Nobody

\* The attack and Zobrist tables are global and unguarded: no engine thread
\* exists before they are built or while a creator may be writing them.
NoEngineWithoutTables ==
  \A t \in Threads : engPc[t] # "none" =>
    sfInitialized /\ \A u \in Threads : hostPc[u] # "tables"

\* When the gate is open and creators sleep on it, somebody awake is on the way
\* to them: a releaser that has yet to notify, or a creator that will look at
\* the gate.  notify_one is enough when only creators wait.
NoLostWakeup ==
  ~gEngineLive /\ (\E t \in Threads : hostPc[t] = "createAsleep")
    => \E t \in Threads : hostPc[t] \in {"notify", "createGate"}

\* sf_create waits only for the previous engine: with the gate open and a
\* creator waiting, some creator takes the gate.
WaitingCreateProceeds ==
  (~gEngineLive /\ \E t \in Threads : hostPc[t] \in {"createGate", "createAsleep"})
    ~> gEngineLive

NobodyIdles == \A t \in Threads : hostPc[t] \notin {"idleGate", "idleAsleep"}

\* The same promise, to hosts that do not call sf_wait_idle meanwhile: no wake-up
\* that sf_destroy or a failed sf_create owes to a creator is lost.
CreatorsAreWoken == []NobodyIdles => WaitingCreateProceeds
-----------------------------------------------------------------------------
\* The bridge implements ExclusiveEngine: the owner is the thread past the gate.
owner == IF \E t \in Threads : Holds(t)
         THEN CHOOSE t \in Threads : Holds(t)
         ELSE Nobody

Abstract == INSTANCE ExclusiveEngine
ImplementsExclusiveEngine == Abstract!Spec
=============================================================================
