---------------------------- MODULE SearchThreads ----------------------------
(***************************************************************************)
(* Stockfish's thread pool under its UCI loop (thread.cpp, engine.cpp,     *)
(* uci.cpp, search.cpp): the UCI thread (process 0) reads commands, pool   *)
(* thread 1 is the main search thread, pool threads 2.. are its helpers.   *)
(*                                                                         *)
(* Each pool thread has one mutex and ONE condition variable, on which it  *)
(* waits for work and others wait for it to finish.  A critical section is *)
(* a step; run_custom_job notifies after it has unlocked, as a step of its *)
(* own; a woken waiter evaluates its predicate again.                      *)
(*                                                                         *)
(* What the UCI thread and the searching main thread still have to do is   *)
(* written down as a sequence of primitive steps (todo): wait for a        *)
(* thread, give it a job, end it, and so on.  A command of the UCI loop    *)
(* is the sequence its handler performs.                                   *)
(***************************************************************************)
EXTENDS Naturals, Sequences, FiniteSets

CONSTANTS MaxThreads,   \* bound: the largest pool
          MaxCommands,  \* bound: commands the UCI loop reads before "quit"
          Polite,       \* the host sends nothing that waits for a search which only the
                        \* host itself can end, and no "export_net" before the answer
          Searches      \* the limits that a "go" may have

\* Search::LimitsType: "infinite" and "ponder", a clock (wtime, btime), a budget
\* (movetime, nodes), a mate to look for; and whether there are root moves.  A "go"
\* may combine them as it likes; a limit of depth needs no field (DeepenEnds).
Limits == [infinite : BOOLEAN, ponder : BOOLEAN, clock : BOOLEAN, budget : BOOLEAN,
           mate : BOOLEAN, moves : BOOLEAN]

ASSUME PoolAssumption ==
  MaxThreads \in Nat \ {0} /\ MaxCommands \in Nat /\ Polite \in BOOLEAN /\ Searches \subseteq Limits

VARIABLES
  n,          \* number of threads in the pool
  pc,         \* where each pool thread is in idle_loop
  searching,  \* Thread::searching
  exit,       \* Thread::exit
  jobFunc,    \* Thread::jobFunc, posted and not yet taken
  job,        \* the job a pool thread is running
  waiters,    \* the processes blocked on each thread's cv
  todo,       \* what processes 0 and 1 still have to do
  stop,       \* ThreadPool::stop
  ponder, stopOnPonderhit,  \* SearchManager
  limits,     \* of the last "go"
  setUp,      \* for each worker, the number of the "go" it was set up for, and the
              \* list that the states before its root are in
  states,     \* Engine::states, the number of the list it owns, or 0
  setupStates,  \* ThreadPool::setupStates, likewise
  pos,        \* the list that holds the state of Engine::pos
  loop,       \* the UCI loop runs
  cout,       \* whose buffer std::cout writes to: "engine" or "host"
  commands, gos,  \* commands read, and those that started a search
  told,       \* which of "stop" and "ponderhit" the last "go" was told
  printed     \* bestmove lines written to each destination

flags == <<stop, ponder, stopOnPonderhit>>
uci == <<limits, loop, commands, gos, told>>
lists == <<states, setupStates, pos>>
cvs == <<pc, searching, exit, jobFunc, job, waiters>>
vars == <<n, cvs, todo, flags, uci, setUp, lists, cout, printed>>

UCI == 0
Main == 1
Pool == 1..MaxThreads
-----------------------------------------------------------------------------
(* Primitive steps, and the handlers as sequences of them. *)

Step(op, t) == [op |-> op, th |-> t, job |-> "none"]
Run(t, j) == [op |-> "run", th |-> t, job |-> j]
Begin(l) == [op |-> "begin", th |-> Main, job |-> "none", limits |-> l]
Each(a, b, F(_)) == [i \in 1..(b - a + 1) |-> F(a + i - 1)]
Waits(a, b) == Each(a, b, LAMBDA t : Step("wait", t))
Runs(a, b, j) == Each(a, b, LAMBDA t : Run(t, j))

\* ThreadPool::clear, and TranspositionTable::clear over the same threads.
Clear(m) == Runs(1, m, "clear") \o Waits(1, m)
ClearTT(m) == Runs(1, m, "zero") \o Waits(1, m)

\* Mutant: start_thinking returns without waiting for the set-up jobs.
GoUnawaited(m, l) ==
  <<Step("wait", Main), Begin(l)>> \o Runs(1, m, "setup")
    \o <<Run(Main, "search")>>

\* Mutant: start_thinking does not wait for the previous search.
GoAtOnce(m, l) ==
  <<Begin(l)>> \o Runs(1, m, "setup") \o Waits(1, m) \o <<Run(Main, "search")>>

\* Engine::go, ThreadPool::start_thinking
Go(m, l) ==
  <<Step("wait", Main), Begin(l)>> \o Runs(1, m, "setup") \o Waits(1, m)
    \o <<Run(Main, "search")>>

\* Engine::search_clear
SearchClear(m) == <<Step("wait", Main)>> \o ClearTT(m) \o Clear(m)

\* ThreadPool::set and Engine::set_tt_size for a pool that grows from 0 to m
Grow(m) ==
  Each(1, m, LAMBDA t : Step("make", t)) \o Clear(m)
    \o <<Step("wait", Main), Step("wait", Main)>> \o ClearTT(m)

\* Mutant: the pool is resized without waiting for the search to finish.
ResizeAtOnce(k, m) ==
  Each(1, k, LAMBDA t : Step("kill", t)) \o <<Step("resize", m)>> \o Grow(m)

\* Mutant: setoption itself does not wait for the search.
ResizeUngated(k, m) ==
  Waits(2, k) \o <<Step("wait", Main)>>
    \o Each(1, k, LAMBDA t : Step("kill", t)) \o <<Step("resize", m)>> \o Grow(m)

\* UCIEngine::setoption of "Threads": Engine::resize_threads
Resize(k, m) ==
  <<Step("wait", Main)>> \o Waits(2, k) \o <<Step("wait", Main)>>
    \o Each(1, k, LAMBDA t : Step("kill", t)) \o <<Step("resize", m)>> \o Grow(m)

\* setoption of "Hash" and of "Clear Hash"
Hash(m) == <<Step("wait", Main), Step("wait", Main)>> \o ClearTT(m)
ClearHash(m) == <<Step("wait", Main)>> \o SearchClear(m)

\* Mutant: the network is loaded while a search may still use the old one.
EvalFileAtOnce(m) == <<Step("network", Main)>> \o Clear(m)

\* setoption of "EvalFile": Engine::load_network
EvalFile(m) == <<Step("wait", Main), Step("network", Main)>> \o Clear(m)

\* setoption of "NumaPolicy": Engine::set_numa_config_from_option
NumaPolicy(k) ==
  <<Step("wait", Main), Step("network", Main)>> \o Tail(Resize(k, k))

\* runEngine after the loop: it restores std::cout, then ~UCIEngine runs
\* ~Engine, the destructors of the members below `threads`, and ~ThreadPool.
TearDown(k) ==
  <<Step("restore", Main), Step("wait", Main), Step("free", Main), Step("wait", Main)>>
    \o Each(1, k, LAMBDA t : Step("kill", t))

\* Mutant: the main thread answers while its helpers are still searching.
SearchUnjoined(m) ==
  Runs(2, m, "search") \o <<Step("deepen", Main), Step("linger", Main),
    Step("raise", Main), Step("bestmove", Main)>> \o Waits(2, m)

\* Worker::start_searching of the main thread, when there are root moves
Search(m) ==
  Runs(2, m, "search") \o <<Step("deepen", Main), Step("linger", Main),
    Step("raise", Main)>> \o Waits(2, m) \o <<Step("bestmove", Main)>>
-----------------------------------------------------------------------------
\* The Engine constructor has ended: a pool of one idle thread.
Init ==
  /\ n = 1
  /\ pc = [t \in Pool |-> IF t = 1 THEN "asleep" ELSE "gone"]
  /\ searching = [t \in Pool |-> FALSE]
  /\ exit = [t \in Pool |-> FALSE]
  /\ jobFunc = [t \in Pool |-> "none"]
  /\ job = [t \in Pool |-> "none"]
  /\ waiters = [t \in Pool |-> IF t = 1 THEN {1} ELSE {}]
  /\ todo = [p \in {UCI, Main} |-> <<>>]
  /\ stop = FALSE /\ ponder = FALSE /\ stopOnPonderhit = FALSE
  /\ limits = [infinite |-> FALSE, ponder |-> FALSE, clock |-> FALSE, budget |-> FALSE,
               mate |-> FALSE, moves |-> FALSE]
  /\ setUp = [t \in Pool |-> [go |-> 0, list |-> 0]]
  /\ states = 1 /\ setupStates = 0 /\ pos = 1
  /\ loop = TRUE /\ cout = "engine"
  /\ commands = 0 /\ gos = 0 /\ told = {}
  /\ printed = [engine |-> 0, host |-> 0]

Answers == printed.engine + printed.host

\* p is not blocked, and its next step is op.
AtStep(p, op) ==
  /\ todo[p] # <<>> /\ Head(todo[p]).op = op
  /\ \A t \in Pool : p \notin waiters[t]
  /\ p = Main => job[Main] = "search"

Rest(p, steps) == todo' = [todo EXCEPT ![p] = steps \o Tail(@)]
Done(p) == Rest(p, <<>>)

Block(p, t) == waiters' = [waiters EXCEPT ![t] = @ \cup {p}]

\* cv.notify_one() on thread t's condition variable.
NotifyOne(t) ==
  IF waiters[t] = {} THEN UNCHANGED waiters
  ELSE \E w \in waiters[t] : waiters' = [waiters EXCEPT ![t] = @ \ {w}]
-----------------------------------------------------------------------------
(* Thread, seen from outside: wait_for_search_finished, run_custom_job, the *)
(* constructor and the destructor                                           *)

Next1(p) == Head(todo[p])

WaitFinished(p) ==
  /\ AtStep(p, "wait")
  /\ LET t == Next1(p).th IN
     IF searching[t] THEN Block(p, t) /\ UNCHANGED todo
                     ELSE Done(p) /\ UNCHANGED waiters
  /\ UNCHANGED <<n, pc, searching, exit, jobFunc, job, flags, uci, setUp, lists, cout, printed>>

RunCustomJob(p) ==
  /\ AtStep(p, "run")
  /\ LET t == Next1(p).th IN
     IF searching[t]
     THEN Block(p, t) /\ UNCHANGED <<todo, jobFunc, searching>>
     ELSE /\ jobFunc' = [jobFunc EXCEPT ![t] = Next1(p).job]
          /\ searching' = [searching EXCEPT ![t] = TRUE]
          /\ Rest(p, <<Step("notify", t)>>)
          /\ UNCHANGED waiters
  /\ UNCHANGED <<n, pc, exit, job, flags, uci, setUp, lists, cout, printed>>

NotifyWorker(p) ==
  /\ AtStep(p, "notify")
  /\ NotifyOne(Next1(p).th)
  /\ Done(p)
  /\ UNCHANGED <<n, pc, searching, exit, jobFunc, job, flags, uci, setUp, lists, cout, printed>>

\* ~Thread: exit = true (not under the mutex), start_searching, join
Kill(p) ==
  /\ AtStep(p, "kill")
  /\ LET t == Next1(p).th IN
     /\ exit' = [exit EXCEPT ![t] = TRUE]
     /\ Rest(p, <<Run(t, "search"), Step("join", t)>>)
  /\ UNCHANGED <<n, pc, searching, jobFunc, job, waiters, flags, uci, setUp, lists, cout, printed>>

Join(p) ==
  /\ AtStep(p, "join")
  /\ pc[Next1(p).th] = "gone"
  /\ Done(p)
  /\ UNCHANGED <<n, cvs, flags, uci, setUp, lists, cout, printed>>

\* Thread::Thread: start the native thread, wait, have it allocate its worker
Make(p) ==
  /\ AtStep(p, "make")
  /\ LET t == Next1(p).th IN
     /\ pc' = [pc EXCEPT ![t] = "top"]
     /\ searching' = [searching EXCEPT ![t] = TRUE]
     /\ exit' = [exit EXCEPT ![t] = FALSE]
     /\ jobFunc' = [jobFunc EXCEPT ![t] = "none"]
     /\ Rest(p, <<Step("wait", t), Run(t, "alloc"), Step("wait", t)>>)
  /\ UNCHANGED <<n, job, waiters, flags, uci, setUp, lists, cout, printed>>

SetSize(p) ==
  /\ AtStep(p, "resize")
  /\ n' = Next1(p).th
  /\ Done(p)
  /\ UNCHANGED <<cvs, flags, uci, setUp, lists, cout, printed>>
-----------------------------------------------------------------------------
(* Thread::idle_loop *)

poolOnly == <<n, todo, uci, lists, cout>>

\* Mutant: the thread parks without telling those who wait for it.
ParkSilently(t) ==
  /\ pc[t] = "top"
  /\ searching' = [searching EXCEPT ![t] = FALSE]
  /\ pc' = [pc EXCEPT ![t] = "asleep"]
  /\ Block(t, t)
  /\ UNCHANGED <<poolOnly, exit, jobFunc, job, flags, setUp, printed>>

\* searching = false; cv.notify_one(); cv.wait(...), which releases the mutex
Park(t) ==
  /\ pc[t] = "top"
  /\ searching' = [searching EXCEPT ![t] = FALSE]
  /\ pc' = [pc EXCEPT ![t] = "asleep"]
  /\ \/ waiters[t] = {} /\ waiters' = [waiters EXCEPT ![t] = {t}]
     \/ \E w \in waiters[t] : waiters' = [waiters EXCEPT ![t] = (@ \ {w}) \cup {t}]
  /\ UNCHANGED <<poolOnly, exit, jobFunc, job, flags, setUp, printed>>

\* Mutant: the job that was taken stays posted.
WakeKeepsJob(t) ==
  /\ pc[t] = "asleep" /\ t \notin waiters[t] /\ searching[t]
  /\ IF exit[t]
     THEN pc' = [pc EXCEPT ![t] = "gone"] /\ UNCHANGED job
     ELSE /\ pc' = [pc EXCEPT ![t] = IF jobFunc[t] = "none" THEN "top" ELSE "job"]
          /\ job' = [job EXCEPT ![t] = jobFunc[t]]
  /\ UNCHANGED <<poolOnly, searching, exit, jobFunc, waiters, flags, setUp, printed>>

\* The woken thread evaluates its predicate, and leaves or takes its job.
Wake(t) ==
  /\ pc[t] = "asleep" /\ t \notin waiters[t]
  /\ IF ~searching[t]
     THEN Block(t, t) /\ UNCHANGED <<pc, job, jobFunc>>
     ELSE /\ UNCHANGED waiters
          /\ IF exit[t]
             THEN pc' = [pc EXCEPT ![t] = "gone"] /\ UNCHANGED <<job, jobFunc>>
             ELSE /\ pc' = [pc EXCEPT ![t] = IF jobFunc[t] = "none" THEN "top" ELSE "job"]
                  /\ job' = [job EXCEPT ![t] = jobFunc[t]]
                  /\ jobFunc' = [jobFunc EXCEPT ![t] = "none"]
  /\ UNCHANGED <<poolOnly, searching, exit, flags, setUp, printed>>

SpuriousWake(w) ==
  /\ \E t \in Pool : w \in waiters[t] /\ waiters' = [waiters EXCEPT ![t] = @ \ {w}]
  /\ UNCHANGED <<poolOnly, pc, searching, exit, jobFunc, job, flags, setUp, printed>>

JobEnds(t) ==
  /\ pc' = [pc EXCEPT ![t] = "top"]
  /\ job' = [job EXCEPT ![t] = "none"]
  /\ UNCHANGED <<searching, exit, jobFunc, waiters>>

\* The jobs of start_thinking, Thread::Thread, clear_worker and tt.clear
ShortJob(t) ==
  /\ pc[t] = "job" /\ job[t] \in {"setup", "alloc", "clear", "zero"}
  /\ setUp' = IF job[t] = "setup" THEN [setUp EXCEPT ![t] = [go |-> gos, list |-> setupStates]]
            ELSE setUp
  /\ JobEnds(t)
  /\ UNCHANGED <<poolOnly, flags, printed>>

\* A helper's iterative_deepening ends: at the stop, or after the last iteration.
HelperSearch(t) ==
  /\ t # Main /\ pc[t] = "job" /\ job[t] = "search"
  /\ JobEnds(t)
  /\ UNCHANGED <<poolOnly, flags, setUp, printed>>

\* The end of an iteration of any thread that searches: it has found the mate that
\* "go mate" asked for, and raises the stop, whatever ponder and infinite say.
MateFound(t) ==
  /\ pc[t] = "job" /\ job[t] = "search"
  /\ t = Main => AtStep(Main, "deepen")
  /\ limits.mate /\ ~stop
  /\ stop' = TRUE
  /\ UNCHANGED <<poolOnly, cvs, ponder, stopOnPonderhit, setUp, printed>>
-----------------------------------------------------------------------------
(* the main search thread: Worker::start_searching *)

mainOnly == <<n, cvs, uci, setUp, lists, cout>>

\* Mutant: the stop flag is cleared when the search starts, not by "go".
StartMainClearing ==
  /\ pc[Main] = "job" /\ job[Main] = "search" /\ todo[Main] = <<>>
  /\ todo' = [todo EXCEPT ![Main] = Search(n) \o <<Step("return", Main)>>]
  /\ stop' = FALSE
  /\ UNCHANGED <<mainOnly, ponder, stopOnPonderhit, printed>>

StartMain ==
  /\ pc[Main] = "job" /\ job[Main] = "search" /\ todo[Main] = <<>>
  /\ todo' = [todo EXCEPT ![Main] =
                (IF limits.moves THEN Search(n) ELSE <<Step("bestmove", Main)>>)
                   \o <<Step("return", Main)>>]
  /\ UNCHANGED <<mainOnly, flags, printed>>

\* End of an iteration: if (ponder) stopOnPonderhit = true; else stop = true.
\* The two are separate accesses of atomics the UCI thread writes.
TimeIsUp ==
  /\ AtStep(Main, "deepen")
  /\ limits.clock /\ ~stop /\ ~stopOnPonderhit
  /\ Rest(Main, <<Step(IF ponder THEN "pondered" ELSE "timeout", Main), Step("deepen", Main)>>)
  /\ UNCHANGED <<mainOnly, flags, printed>>

Pondered ==
  /\ AtStep(Main, "pondered")
  /\ stopOnPonderhit' = TRUE
  /\ Done(Main)
  /\ UNCHANGED <<mainOnly, stop, ponder, printed>>

\* threads.stop = true, in the search or after its end
Raise ==
  /\ AtStep(Main, "timeout") \/ AtStep(Main, "raise")
  /\ stop' = TRUE
  /\ Done(Main)
  /\ UNCHANGED <<mainOnly, ponder, stopOnPonderhit, printed>>

\* The search ends by itself, unless it ponders, when a time or the nodes are used up.
Limited == limits.clock \/ limits.budget

\* Mutant: the limits also end a search that ponders.
CheckTimePondering ==
  /\ AtStep(Main, "deepen")
  /\ Limited /\ ~stop
  /\ stop' = TRUE
  /\ UNCHANGED <<mainOnly, todo, ponder, stopOnPonderhit, printed>>

\* SearchManager::check_time: the maximum time has passed, the budget is used up, or
\* the iteration that ended during pondering wanted to stop.  "infinite" is not asked.
CheckTime ==
  /\ AtStep(Main, "deepen")
  /\ Limited /\ ~ponder /\ ~stop
  /\ stop' = TRUE
  /\ UNCHANGED <<mainOnly, todo, ponder, stopOnPonderhit, printed>>

\* A root fail low withdraws the wish to stop.
FailLow ==
  /\ AtStep(Main, "deepen")
  /\ stopOnPonderhit /\ stopOnPonderhit' = FALSE
  /\ UNCHANGED <<mainOnly, todo, stop, ponder, printed>>

\* iterative_deepening sees the stop, or has reached the maximum depth.
DeepenEnds ==
  /\ AtStep(Main, "deepen")
  /\ Done(Main)
  /\ UNCHANGED <<mainOnly, flags, printed>>

\* Mutant: an infinite search that runs out of depth answers at once.
LingerPonderOnly ==
  /\ AtStep(Main, "linger")
  /\ stop \/ ~ponder
  /\ Done(Main)
  /\ UNCHANGED <<mainOnly, flags, printed>>

\* while (!threads.stop && (ponder || limits.infinite)) {}
Linger ==
  /\ AtStep(Main, "linger")
  /\ stop \/ (~ponder /\ ~limits.infinite)
  /\ Done(Main)
  /\ UNCHANGED <<mainOnly, flags, printed>>

\* updates.onBestmove, to wherever std::cout goes by now
BestMove ==
  /\ AtStep(Main, "bestmove")
  /\ printed' = [printed EXCEPT ![cout] = @ + 1]
  /\ Done(Main)
  /\ UNCHANGED <<mainOnly, flags>>

ReturnMain ==
  /\ AtStep(Main, "return")
  /\ Done(Main)
  /\ JobEnds(Main)
  /\ UNCHANGED <<n, uci, lists, cout, flags, setUp, printed>>
-----------------------------------------------------------------------------
(* the UCI thread: UCIEngine::loop and the end of runEngine *)

\* The steps of start_thinking and of the end of runEngine that are its own.
BeginSearch ==
  /\ AtStep(UCI, "begin")
  /\ stop' = FALSE /\ stopOnPonderhit' = FALSE
  /\ limits' = Next1(UCI).limits
  /\ ponder' = limits'.ponder
  /\ gos' = gos + 1
  /\ told' = {}
  /\ setupStates' = IF states = 0 THEN setupStates ELSE states
  /\ states' = 0
  /\ Done(UCI)
  /\ UNCHANGED <<n, cvs, loop, commands, setUp, pos, cout, printed>>

RestoreCout ==
  /\ AtStep(UCI, "restore")
  /\ cout' = "host"
  /\ Done(UCI)
  /\ UNCHANGED <<n, cvs, flags, uci, setUp, lists, printed>>

\* ~Engine goes on to the members declared after `threads`: the shared
\* histories, the callbacks, the network and the transposition table.
FreeMembers ==
  /\ AtStep(UCI, "free")
  /\ Done(UCI)
  /\ UNCHANGED <<n, cvs, flags, uci, setUp, lists, cout, printed>>

\* The instances of the network are replaced (modify_and_replicate, set_numa_config).
ReplaceNetwork ==
  /\ AtStep(UCI, "network")
  /\ Done(UCI)
  /\ UNCHANGED <<n, cvs, flags, uci, setUp, lists, cout, printed>>

\* The main thread will answer, or has answered, without the host's help.  An
\* infinite search may stop at a limit, but lingers if it runs out of depth first.
WillAnswer == Answers = gos \/ stop \/ (Limited /\ ~ponder /\ ~limits.infinite)

Read ==
  /\ loop /\ todo[UCI] = <<>>
  /\ commands < MaxCommands
  /\ commands' = commands + 1

\* A handler that begins with wait_for_search_finished()
Waiting(steps) ==
  /\ Read
  /\ Polite => WillAnswer
  /\ todo' = [todo EXCEPT ![UCI] = steps]
  /\ UNCHANGED <<n, cvs, flags, limits, loop, gos, told, setUp, lists, cout, printed>>

ReadGo == \E l \in Searches : Waiting(Go(n, l))
ReadNewGame == Waiting(SearchClear(n))
ReadThreads == \E m \in Pool : Waiting(Resize(n, m))
ReadOption ==
  \E steps \in {Hash(n), ClearHash(n), EvalFile(n), NumaPolicy(n)} : Waiting(steps)

\* Mutant: the list is cleared in place, whoever has it.
PositionInPlace ==
  /\ Read
  /\ states' = commands' + 1 /\ pos' = states'
  /\ setupStates' = IF states = 0 THEN 0 ELSE setupStates
  /\ UNCHANGED <<n, cvs, todo, flags, limits, loop, gos, told, setUp, cout, printed>>

\* Engine::set_position, which does not wait: a new list takes the place of the
\* one that no search was started from.
ReadPosition ==
  /\ Read
  /\ states' = commands' + 1 /\ pos' = states'
  /\ UNCHANGED <<n, cvs, todo, flags, limits, loop, gos, told, setUp, setupStates, cout, printed>>

\* "export_net": save_network replaces the network, and does not wait either.
ReadExport ==
  /\ Read
  /\ Polite => Answers = gos
  /\ todo' = [todo EXCEPT ![UCI] = <<Step("network", Main)>>]
  /\ UNCHANGED <<n, cvs, flags, limits, loop, gos, told, setUp, lists, cout, printed>>

ReadStop ==
  /\ Read
  /\ stop' = TRUE /\ told' = told \cup {"stop"}
  /\ UNCHANGED <<n, cvs, todo, ponder, stopOnPonderhit, limits, loop, gos, setUp, lists, cout, printed>>

ReadPonderhit ==
  /\ Read
  /\ ponder' = FALSE
  /\ told' = IF limits.ponder THEN told \cup {"ponderhit"} ELSE told
  /\ UNCHANGED <<n, cvs, todo, stop, stopOnPonderhit, limits, loop, gos, setUp, lists, cout, printed>>

\* "quit" or the end of the input: stop the search and leave the loop.
ReadQuit ==
  /\ loop /\ todo[UCI] = <<>>
  /\ loop' = FALSE
  /\ stop' = TRUE /\ told' = told \cup {"stop"}
  /\ todo' = [todo EXCEPT ![UCI] = TearDown(n)]
  /\ UNCHANGED <<n, cvs, ponder, stopOnPonderhit, limits, commands, gos, setUp, lists, cout, printed>>
-----------------------------------------------------------------------------
ReadCommand ==
  \/ ReadGo \/ ReadNewGame \/ ReadThreads \/ ReadOption \/ ReadPosition \/ ReadExport
  \/ ReadStop \/ ReadPonderhit \/ ReadQuit

\* The next step of what process p still has to do.
Proceed(p) ==
  \/ WaitFinished(p) \/ RunCustomJob(p) \/ NotifyWorker(p)
  \/ Kill(p) \/ Join(p) \/ Make(p) \/ SetSize(p)

UciStep == Proceed(UCI) \/ BeginSearch \/ RestoreCout \/ FreeMembers \/ ReplaceNetwork
MainStep == Proceed(Main) \/ StartMain \/ Pondered \/ Raise \/ Linger \/ BestMove \/ ReturnMain
Search1 == TimeIsUp \/ CheckTime \/ FailLow \/ DeepenEnds
PoolStep(t) == Park(t) \/ Wake(t) \/ ShortJob(t) \/ HelperSearch(t) \/ MateFound(t)

\* The engine is gone.
Finished == ~loop /\ todo[UCI] = <<>> /\ UNCHANGED vars

Next ==
  \/ ReadCommand \/ UciStep \/ MainStep \/ Search1 \/ Finished
  \/ \E t \in Pool : PoolStep(t)
  \/ \E w \in Pool \cup {UCI} : SpuriousWake(w)

Spec == Init /\ [][Next]_vars

\* Every thread that can go on does.  A search sees a raised stop, and the clock or
\* the budget of a limited one runs out (CheckTime); nothing else makes a search
\* end, and nothing makes the host send a command.
Fairness ==
  /\ WF_vars(UciStep) /\ WF_vars(MainStep)
  /\ WF_vars(CheckTime) /\ WF_vars(stop /\ DeepenEnds)
  /\ \A t \in Pool :
       WF_vars(Park(t) \/ Wake(t) \/ ShortJob(t)) /\ WF_vars(stop /\ HelperSearch(t))

FairSpec == Spec /\ Fairness
-----------------------------------------------------------------------------
(* Properties *)

Jobs == {"none", "setup", "search", "clear", "zero", "alloc"}

\* Every variable has its type, and a job is only posted to a thread that is
\* marked as searching: none is left in jobFunc when the thread parks.
TypeOK ==
  /\ n \in Pool
  /\ pc \in [Pool -> {"gone", "top", "asleep", "job"}]
  /\ searching \in [Pool -> BOOLEAN] /\ exit \in [Pool -> BOOLEAN]
  /\ jobFunc \in [Pool -> Jobs] /\ job \in [Pool -> Jobs]
  /\ \A t \in Pool : jobFunc[t] # "none" => searching[t]
  /\ waiters \in [Pool -> SUBSET (Pool \cup {UCI})]
  /\ stop \in BOOLEAN /\ ponder \in BOOLEAN /\ stopOnPonderhit \in BOOLEAN
  /\ limits \in Limits
  /\ setUp \in [Pool -> [go : 0..MaxCommands, list : 0..(MaxCommands + 1)]]
  /\ {states, setupStates, pos} \subseteq 0..(MaxCommands + 1)
  /\ loop \in BOOLEAN /\ told \subseteq {"stop", "ponderhit"} /\ cout \in {"engine", "host"}
  /\ commands \in 0..MaxCommands /\ gos \in 0..MaxCommands
  /\ printed \in [{"engine", "host"} -> 0..MaxCommands]

Posted(t) == jobFunc[t] # "none" /\ ~exit[t]

\* At most one process waits for a thread at a time.  The thread and those who
\* wait for it share one condition variable and notify_one: a second one could
\* take the notification meant for the first, or for the thread itself.
OneWaiter == \A t \in Pool : Cardinality(waiters[t] \ {t}) <= 1

\* The jobs of start_thinking and of the Thread constructor capture locals of the
\* UCI thread by reference: while such a job is posted or runs, the UCI thread
\* has still to wait for it before those locals die.
CapturesAlive ==
  \A t \in Pool : {job[t], IF exit[t] THEN "none" ELSE jobFunc[t]} \cap {"setup", "alloc"} # {} =>
    \E i \in 1..Len(todo[UCI]) : todo[UCI][i].op = "wait" /\ todo[UCI][i].th = t

\* All threads that search, search the position of the current "go": the root
\* state of every worker was set up for it, and none is left over from the last.
SearchersAgree == \A t \in Pool : job[t] = "search" => setUp[t].go = gos

\* No helper searches, or is about to, when the main thread is not in a search
\* or has come to its answer, which reads the root moves of all of them.
HelpersQuiet ==
  (\E t \in Pool \ {Main} : job[t] = "search" \/ (Posted(t) /\ jobFunc[t] = "search"))
    => /\ job[Main] = "search" /\ todo[Main] # <<>>
       /\ Next1(Main).op \notin {"bestmove", "return"}

\* Threads and those who wait for them never lose each other: the types, at most
\* one waiter per condition variable, and captured locals that outlive their jobs.
WaitsAreSound == TypeOK /\ OneWaiter /\ CapturesAlive

\* The earlier states that a repetition is looked for in are there: neither the
\* workers' positions nor the engine's refer to a list that was freed.
StatesAlive ==
  /\ pos \in {states, setupStates} \ {0}
  /\ \A t \in Pool : job[t] = "search" => setUp[t].list \in {states, setupStates} \ {0}

\* All threads that search belong to the current "go", with its game before them,
\* and to a main thread that waits for them before it compares what they found.
SearchersAreCurrent == SearchersAgree /\ StatesAlive /\ HelpersQuiet

\* The pool, the histories, the hash table and the members of Engine are only
\* changed or destroyed when no thread searches and none is about to.
NoTableChange ==
  \/ \E t \in Pool : job[t] \in {"clear", "zero", "alloc"}
  \/ todo[UCI] # <<>> /\ Next1(UCI).op \in {"kill", "make", "resize", "free"}
  => \A t \in Pool : job[t] # "search" /\ ~(Posted(t) /\ jobFunc[t] = "search")

\* The network is replaced only when every search has answered.
NoNetworkChange == todo[UCI] # <<>> /\ Next1(UCI).op = "network" => Answers = gos

\* A search runs on one pool, one hash table and one network from its "go" to its
\* answer, whatever the UCI thread executes meanwhile.
NoChangeUnderSearch == NoTableChange /\ NoNetworkChange

\* A search that was told to stop answers, and so does one with a clock or a budget
\* that is neither infinite nor pondering, or no longer: no "stop" and no "ponderhit"
\* is lost, however early or late it comes.
SearchAnswered ==
  /\ gos > Answers
  /\ \/ "stop" \in told
     \/ Limited /\ ~limits.infinite /\ (limits.ponder => "ponderhit" \in told)
  ~> Answers = gos

\* Every command the UCI thread executes comes to its end, the tear-down that
\* sf_destroy waits for included.
CommandsReturn == todo[UCI] # <<>> ~> todo[UCI] = <<>>
-----------------------------------------------------------------------------
\* The pool implements UciContract.
Contract == INSTANCE UciContract WITH answers <- Answers
ImplementsUciContract == Contract!Spec
=============================================================================
