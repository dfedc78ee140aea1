# A TLA+ model of SwiftStockfish

SwiftStockfish embeds the Stockfish chess engine in a Swift package. The engine
was written as a process that owns its standard streams and ends by `exit`; here
it runs on threads of a host application, is created and destroyed many times,
talks through in-memory queues and callbacks, and needs network files that a
Swift loader downloads. Inside is a chess program that computes nothing twice: it
carries keys, masks, sums and proofs from move to move and from thread to thread,
and is right only as long as what is carried agrees with what it stands for.

These modules model both halves. TLC checks small instances of them, and TLAPS
proves, for every value of the constants, the main safety results of the concurrent
half, of the stack and the scores of the search, and of the way through positions:
moves done and taken back, and exchanges.

Paths below are relative to the repository: `CStockfish/` stands for
`Sources/CStockfish/`, `Swift/` for `Sources/SwiftStockfish/`.

## 1. The system

| Component | State | Operations | Talks to |
|---|---|---|---|
| Lifecycle gate (`CStockfish/StockfishBridge.cpp`) | `gEngineLive`, its mutex and condition variable, `sfInitialized`, the buffers of `std::cin` and `std::cout` | `sf_create`, `sf_destroy`, `sf_wait_idle`, `runEngine`'s swap of the streams | the host's threads, the engine thread |
| Command queue (`CStockfish/StockfishIO.h`) | queue, `shutdown_`, `writeMutex`, the reader's line buffer | `sf_send_command`, push, pop, `shutdown`, `underflow` | the host's threads, the UCI loop |
| Output buffer (`StockfishBridge.cpp`) | the bytes of the line being written | `overflow`, `xsputn`, the callback per line | the UCI thread, the main search thread |
| Engine object (`Swift/StockfishEngine.swift`) | references, `isShutdown`, `teardownLock`, the bridge's pointer, the stream | `init`, `send`, `quit`, `shutdown`, `deinit`, the callback | the bridge, the host's tasks |
| Network loader (`Swift/StockfishNetworkLoader.swift`) | the directory, the manifest, the task box | `ensure`, `requiredNetworksSatisfied`, cancellation | file system, URLSession, the engine object |
| Verified cache (same file) | set of identities seen to be valid | `verify` | file system |
| Thread pool (`stockfish/thread.cpp`, `thread.h`) | per thread `searching`, `exit`, `jobFunc`, mutex and cv; the pool's `stop`, `setupStates` | `idle_loop`, `run_custom_job`, `wait_for_search_finished`, `set`, `clear`, `start_thinking` | engine, workers |
| UCI loop and engine (`uci.cpp`, `engine.cpp`) | options, position and `states`, pool, table, network | `go`, `position`, `stop`, `ponderhit`, `ucinewgame`, `setoption`, `export_net`, `quit` | queue, pool |
| Search control (`search.cpp`, `timeman.cpp`) | `ponder`, `stopOnPonderhit`, `limits`, time bounds | `start_searching`, `check_time`, iterative deepening | pool, output |
| Position and move generation (`position.cpp`, `movegen.cpp`, `bitboard.*`, `attacks.*`) | the board in four forms, a chain of `StateInfo` | `set`, `fen`, `flip`, `do_move`, `undo_move`, null moves, `legal`, `pseudo_legal`, `gives_check`, `see_ge`, `upcoming_repetition`, `generate` | search, network, tablebases |
| Move picker (`movepick.cpp`) | a list in stages, cursors into it | `next_move`, `skip_quiet_moves` | search |
| Network evaluation (`nnue/`) | the accumulator stack and the refresh cache | `push`, `pop`, `reset`, `evaluate` | search |
| Search (`search.cpp`) | a stack of frames, principal variations, `nmpMinPly` | `search`, `qsearch`, `iterative_deepening` | all of the above |
| Transposition table (`tt.cpp`) | clusters, generation | `probe`, `write`, `new_search`, `resize`, `clear` | all workers, no lock |
| Tablebases (`syzygy/tbprobe.cpp`) | files mapped on demand | `probe_wdl`, `probe_dtz`, `rank_root_moves`; `syzygy_extend_pv` | search |
| Shared memory (`shm_unix.h`, `shm.h`, `numa.h`) | segments, sockets, the init lock or mutex | find, create or receive a segment; serve others; give up | other processes |
| Options (`ucioption.cpp`) | map of options | `setoption`, callbacks | engine |

Hard behaviours: the process has one pair of standard streams and one set of
engine tables but several host threads (gate); three kinds of condition variable
protocols, each with one-waiter notifications; a UCI thread that both reads
commands and waits for searches; the main search thread that prints while the
UCI thread tears down; Swift objects whose last reference may be dropped on any
thread; a download whose cancellation races its start and its end; crashes that
leave files, locks and sockets behind; a search that may be stopped between any
two steps and must not show, keep or vote for what it has not proved; incremental
state that is trusted long after the moves that made it.

What makes each part correct, in a line: at most one engine lives and the streams
are the host's when none does; the UCI loop gets every command, in order, and
ends on quit; every `go` is answered exactly once and not before the host allows
it; a call on the engine object never reaches freed memory and no line is lost;
`ensure` returns only with an exact and verified directory, and never spoils a
valid one; what the position carries is what the board says, and every legal move
is generated and picked once; a decisive score is proved wherever it turns up, in
an answer, the hash table, a line or a vote, and the moves ranked by tablebases
never give the result away; processes read whole networks and share them.

## 2. Modules

| Module | What it is |
|---|---|
| `ExclusiveEngine` | Abstract: a process-wide resource with at most one owner |
| `LifecycleGate`, `MCLifecycleGate`, `LifecycleGateProofs` | The gate, the engine thread's life, the stream swap |
| `CommandStream` | Abstract: a sequence of sent commands read in order up to quit |
| `CommandQueue`, `MCCommandQueue`, `CommandQueueProofs` | Senders, `sf_destroy`, the queue, the reader |
| `UciContract` | Abstract: what a host may rely on about `go` and its answer |
| `SearchThreads`, `MCSearchThreads`, `SearchThreadsProofs` | UCI thread, main search thread, helpers |
| `SharedMemory`, `MCSharedMemory`, `SharedMemoryProofs` | Processes that share the network's weights |
| `Bitboards`, `MoveGen`, `Position` | The board, attack tables, `generate`, class `Position` |
| `ChessRules` | The laws of chess on the board alone: a reference definition |
| `MovePicker` | class `MovePicker` |
| `Features`, `Accumulator` | The network's inputs, the accumulator stack |
| `Walk`, `ChessProperties`, `MCChess`, `ChessProofs` | The composition: a line of moves, null moves, evaluations and pickers, and what must hold along it |
| `SearchValues` | Scores, and their form in the hash table |
| `Search`, `MCSearch`, `SearchProofs` | `search` and `qsearch` on games given as graphs |
| `TableIndex` | Which table an endgame has, and its place in it |
| `Tablebases`, `RootSearch`, `MCRootSearch` | Probing and ranking; iterative deepening, the vote, shown lines |
| `EngineSession`, `MCEngineSession`, `EngineSessionProofs` | The Swift object, its host threads, the callback |
| `NetworkLoader`, `MCNetworkLoader`, `NetworkLoaderProofs` | `ensure`, the host that cancels, URLSession, crashes |

`PROJECT.json` maps every definition to its source lines. Definitions preceded by
a comment that begins with "Mutant" are altered forms of the definition after
them; they show that a property can fail, and no specification uses them.

### LifecycleGate
A host thread is at a point of `sf_create`, `sf_destroy` or `sf_wait_idle`
(`hostPc`); the engine it created is at a point of `runEngine` (`engPc`). A mutex
section is a step; `notify_one` comes after the unlock and is a step of its own.
A sleeper wakes by the notification, spuriously, or by `sf_wait_idle`'s time-out.
`SpawnFails` is the failure of thread creation. Engine work is one point
(`loop`), left when `quit` is set. `ImplementsExclusiveEngine` maps the abstract
owner to the thread between taking and opening the gate.

### CommandQueue
`Push` and the notification are two steps; `writeMutex` of `sf_send_command` is
held over both. `underflow` waits, takes a command and serves its lines; a
command may hold several. `Destroy` pushes `quit`, sets `shutdown_`, notifies, and
joins. `sent` and `taken` are history variables. The loop ends on a line that is
`quit`; the end of the input is a backstop that, as `EndsOnQuit` of the proofs
shows, never comes first.

### SearchThreads
Pool threads run `idle_loop` (`Park`, `Wake`, jobs). The UCI thread and the main
search thread each have a list of primitive steps to do (`todo`), and a command is
the list its handler performs: `Go`, `SearchClear`, `Resize`, `Hash`, `EvalFile`,
`NumaPolicy`, `TearDown`. Each thread has a single condition variable:
`waiters[t]` is the set of processes asleep on it, and `NotifyOne` removes an
arbitrary one. The search itself is reduced to its control: it may go on, look at
the clock and the nodes (`CheckTime`), find a mate it was asked for (`MateFound`, in
any thread), end its iterations (`DeepenEnds`), raise `stopOnPonderhit` (`TimeIsUp`,
`Raise`), wait for the host (`Linger`) and answer. `limits` is what of `LimitsType`
this control depends on: `infinite`, `ponder`, a `clock` (`wtime`, `btime`), a
`budget` (`movetime`, `nodes`), a `mate` to look for, in any combination; and
whether the position has legal moves (`moves`). A limit of depth needs no field,
because a search may run out of depth anyway (`DeepenEnds`); for a search with no
other limit only safety is claimed, as nothing says when it ends.

`MateFound` and `CheckTime` set `stop` as the code does: the first whatever `ponder`
and `infinite` say, the second unless the search ponders. So `UciContract` says what
the code keeps: the answer to a pondering `go` waits for `stop` or `ponderhit`, to an
infinite one for `stop`, except without legal moves, with a mate limit, or, for the
infinite one, with a clock or a budget. The lists of earlier states, which pass from
`position` to `go` by a change of owner, are numbered (`states`, `setupStates`,
`pos`): `position` does not wait for the search that reads the old one.

### EngineSession
Host threads hold references, call `send` and `shutdown` under `teardownLock` and
drop their references. Writers (UCI and search thread) write lines under the
mutex of `sync_cout`; the callback takes a reference for a moment when the build
retains (`Retains`). Dropping the last reference runs `deinit`, which is
`shutdown` on that thread. The search always ends here: `SearchThreads` has the
cases where it does not.

### NetworkLoader
One call of `ensure` at a time (the source says that concurrent calls on one
directory are not supported), with the cancelling host thread, the completion
handler and crashes interleaved at every step. A file is absent, good or bad. The
task box of a transfer has its lock sections as steps (`RequestCancel`,
`InstallTask`) and `resume` and `cancel` as steps outside the lock. `Restart` is
the next call, in the same process or after a crash, with any manifest. Where the
code writes `try?`, the operation may do nothing. Whether file operations can fail
is chosen for each run (`fsFails`), since what is promised depends on it. The progress
callback changes no state. URLSession is external: a cancelled task is taken to
report its end to the handler, also when it was cancelled before `resume`.
Verification reads the bytes; the memo of verified files is a separate component
and is assumed to agree with them.

### SharedMemory
A process is at a point of `SharedMemory::open`, of the constructor of a Windows
backend or of the destructor. On Unix it takes the init lock, asks each socket of
the directory for the segment's descriptor, creates and writes a segment if none
answers, binds its own socket and gives up the lock when it serves. `Serve` is
done by a thread of its own, so a peer answers whatever its process does, or
stalls. A call that fails ends `open` (`Fail`), except for the calls that look for
the peers and ask them, whose failure the code takes for the absence of a peer. When
`opendir` or `readdir` fails, sockets are left out (`GetPeerSockets`); when `socket`
or `connect` does, the peer is skipped, and its path removed if `connect` was refused
(`Connect`); and the peer is skipped when the descriptor does not arrive
(`GiveUpPeer`). The history variable `missed` says that one of these has happened to
a peer that listens. On Windows a segment has a name, a mutex and a flag.
`Crash` and `Exit` end a process at any point; the system then releases its locks
and mappings (`DropLocks`, `Reclaim`, external) and leaves its sockets.
`OpenSecond` is the lazy instance of another NUMA node. A process id may be used
again. The segment's contents are `"zero"`, `"torn"` or the network written.

### Position, move generation, move picker, network inputs
A bitboard is a set of squares and a Zobrist key the set of numbers it is the XOR
of, so that two keys are equal only if they are for all random numbers. A position
is a record with the board in its redundant forms, the current `StateInfo` (`st`)
and the earlier ones (`prev`); `do_move` updates all of it move by move as the
code does, and gives the changed pieces and threats (`dts`, `dp`) to the
accumulator. `MoveGen` returns sets of moves, `MovePicker` the order. An
accumulator is the bag of the features in its sum; the weights never matter.
`Walk` does what a search does to all of these: it makes moves, null moves,
evaluates, picks. Every module is tested against a definition that shares nothing
with it: `ChessRules`, `set_state` and `FromNothing` compute from the board alone.

### Search
One frame per call of `search` or `qsearch`, one action per step of the code
(`Razor`, `NullMove`, `AfterProbCut`, ...), each with the guards the code has. A
game is a graph of positions with the attributes the guards ask for. What the
tuned margins decide is a choice: a pruning or a reduction that the guards allow
may or may not happen (`MaxChoices` of them in a search). The hash table keeps one
entry per position through several searches, aborted ones included. Principal
variations are reached through `pvs`, which stands for the pointers `ss->pv`.
`Proven` says what a score claims, by the values of the game under the 50-move
rule. Left out, each without a way to make a claim that was not proved: the look-ahead
for a repetition (the game graphs that TLC walks have their cycles cut by the
50-move count), the look-up of the next position at depth 7 and more with its
penalty, the reduction without a hash move, the lower depth after an improvement,
the histories, key collisions.

### Tablebases and RootSearch
The tables are made by another program; `Tabulated` computes what they hold from
the game, and `tables` chooses what they leave out: values of positions with a
winning capture (`cares`), one side to move (`stored`), exact plies (`plies`),
whole files (`missing`). On this `probe_wdl`, `probe_dtz`, `root_probe`,
`root_probe_wdl` and the ranking are translated. `RootSearch` has the iterative
deepening of one thread: lines, aspiration windows, the marking of unfinished
lines, the abort and what is restored after it; then the vote of the threads; then
the game goes on by the answer, a reply, and the next ranking. What the search of
one move returns is any score that is right about mates, which is what `Search`
shows. A line shown with a tablebase score is extended by `syzygy_extend_pv`
(`shown`). Left out: a vote under a depth limit, the choice of a weaker move, the
ponder move.

`TableIndex` is about the entry itself: the tables that `Tablebases::init` looks for,
the numbers it prepares, `set_groups` and the index that `do_probe_table` puts
together. `Layouts` stands for what the generator has written into a file. It is
checked on positions of `Walk` with at most five men (`MaxCardinality`), at the
start of a walk and after one move, each compared with every position that has one
man elsewhere; the numbers an index is made of are checked to be used once each.

## 3. Runs

| Run | Expect | What it shows |
|---|---|---|
| `gate` | pass | Three threads create, destroy and wait in any order: no leaked gate, no dangling stream, no creator left asleep by other creators; implements `ExclusiveEngine` |
| `gate_idler_starves` | violation | A thread in `sf_wait_idle` may take the creator's notification |
| `queue` | pass | No sleep on data, implements `CommandStream`, `sf_destroy` returns |
| `threads` | pass | Waits and captured locals are sound, searchers are current and see their game, nothing changes under a search; implements `UciContract` (one answer to each `go`, not before the host asked, but for the exceptions named there); no stop or ponderhit lost, every command returns (polite host) |
| `threads_blocked` | violation | A waiting command behind an endless search blocks the tear-down |
| `session` | pass | Sends, shutdowns and dropped references in any order: no use after free, no lost line, every call returns |
| `session_self_join` | violation | The callback's reference may be the last: the engine thread joins itself |
| `loader` | pass | Exact or not at all, no unverified bytes under any fault; a run ends clean, and a cancelled one ends as cancelled even if the service hangs |
| `shm` | pass | Two processes, both systems, crashes and failing calls at any step: whole networks, nobody left waiting, and one segment of each network unless a peer that listens was missed or a second instance failed |
| `chess` | pass | From eleven positions: legal moves, checks, keys, repetitions, exchanges, picked moves and accumulators agree with the rules and with a computation from nothing; six endgames have tablebase entries of their own |
| `search` | pass | Two searches one after the other, stopped at any moment: what is answered or kept as decisive is proved, lines are lines, assertions hold |
| `root` | pass | The root's answers, the vote, tablebase ranking and shown lines, stopped at any moment and with tables that miss or round what real ones do |

Every passing property has a mutant: a plausible slip in one definition under
which the same run fails. A property that is a conjunction has one for each part
that says something of its own.

### Bounds
- Gate: three host threads. Two are needed to compete, a third to be the wrong
  one to be notified; any further one is like one of these. No counter is bounded.
- Queue: two senders, three commands (`MaxSends`), one of them of two lines, and
  quits by the host as well as by `sf_destroy`: enough for overtaking, for a quit
  among the commands and for commands behind it. A quit is a command of its own, not
  one of the lines of another.
- Threads: at most three pool threads (`MaxThreads`: the main thread, a helper,
  one more that appears and goes with a resize) and three commands
  (`MaxCommands`): a search, something that meets it, something after it. A `go`
  has one of the six combinations of limits in `AllSearches` (`MCSearchThreads`),
  which include those where one limit ends what another keeps going; the theorem
  about `UciContract` is about all combinations. The
  bound counts commands that are read; the steps of each are not bounded.
- Session: two hosts, four calls (`MaxCalls`) and three lines (`MaxLines`), so
  that both writers meet both tear-downs.
- Loader: two runs (`MaxRuns`), since what a run finds is what one run left;
  two networks, one of each release, so that a failure of the second meets a
  valid first; the contents of the directory at the start are arbitrary. The
  staging files (`Parts`) are as many as two runs can leave.
- Shared memory: two processes with two instances each, two networks and three
  calls of `open` (`MaxOpens`): one who creates, one who asks, one who comes after
  a death. Three segments are as many as can exist at once.
- Chess: depth is one to seven plies; the positions were chosen so that each
  special move, pin, kind of check and refresh occurs (named in `MCChess`). The
  endgames have leading pawns, two pawns against one, three men alone of their kind,
  two kings, and like men on both sides. With more than five men an index outgrows
  the checker's integers.
- Search: four games of at most 14 positions and depth 5, with scores, plies and
  the 50-move count scaled down (`VALUE_MATE` 32, `MAX_PLY` 6, `RULE50` 4) in the
  order they have; two prunings or reductions per search, since a false claim
  needs one and its spread another.
- Root: three moves, two iterations, two lines; three threads with one iteration;
  endgames of 10 and 14 positions with a six-ply rule. The scores of a game's
  moves are those that can be confused: mates of different length, draws.

No symmetry is used.

### Fairness
Weak fairness on every step of a thread that is running code: the operating
system schedules runnable threads, and every critical section is short. A mutex
acquisition is a step that is enabled again and again, and weak fairness suffices
where it holds (two senders cannot starve one another for ever in these bounds).
There is no fairness for what a host decides (calls, cancellations, crashes,
references dropped), for spurious wake-ups, or for answers of the download
service. A search is only fair to end once `stop` is set, or when it has a clock or a budget
(`CheckTime`): an infinite search goes on for ever unless told otherwise, and a mate
that was asked for need not exist. In
`EngineSession` searches end. `IdleTimeout` is fair, as the code passes a
time-out. `CancelEnds` assumes that URLSession reports a cancelled task. A process
that opens or gives up a segment goes on until it dies (`SharedMemory`); a lock
whose owner dies is free again, as `flock` and Windows mutexes promise.

## 4. Proofs

All theorems of these modules but two (about table scores, in `SearchProofs`) are
about `Spec`, for any sets of threads, hosts, commands, processes, names, games and
FEN strings that meet the named assumptions of the module. Each rests on an
inductive invariant, with one lemma or step per action: `IInv` (`SharedMemory` has a
second part, `ShareInv`), which TLC has checked on small instances, and for the walk
through positions `LineStands` and `PickerStands`.

- **LifecycleGateProofs**: type correctness, `OneLiveEngine`, `GateHasHolder`,
  `NoDanglingStream`, `NoEngineWithoutTables`, the absence of lost wake-ups when
  nobody calls `sf_wait_idle`, and the refinement of `ExclusiveEngine`. Mutual
  exclusion alone is not inductive: the invariant adds that the gate is shut
  exactly while some thread holds it, that holders are unique, that an engine
  thread runs only while its creator holds the gate, and what each point of
  `runEngine` has saved and installed. For the wake-ups: if the gate is open and
  someone sleeps, a notification is still to come or an awake creator will pass it
  on.
- **CommandQueueProofs**: `NothingLost` (what was sent is what was taken followed
  by the queue), `NoSleepOnData`, `EndsOnQuit`, and the refinement of
  `CommandStream`. The invariant ties the reader's place to the command it took
  last and to the lines left, and a sleeping reader to the sender that has pushed
  and not notified.
- **EngineSessionProofs**: `BridgeOutlivesCalls`, `CallbackSeesObject` and
  `AllOutputDelivered`, under `Retains => KeepsRef`: in a build whose callback
  retains the object, the host keeps a reference until `shutdown` has returned.
  `session_self_join` shows why this assumption is needed. The invariant says who
  may be in a locked section, that a freed bridge implies a finished engine
  thread, and that a writer in the middle of a line implies a live engine thread.
- **NetworkLoaderProofs**: type correctness and `NeverInstallsCorrupt` under any
  faults; `OkMeansExact` and `ValidIsKept`, which speak of runs whose file
  operations succeed, for every manifest, any number of runs, crashes and
  cancellations. The invariant follows the run: the staging file is written only
  while its transfer runs, what was verified stays so until it is moved; after the
  prune only the staging file is extra; networks before the one in hand are valid,
  and the one in hand is not (so that its removal loses nothing).
- **SearchThreadsProofs**: `WaitsAreSound` (type correctness, one waiter beside the
  thread itself on each condition variable, no job that outlives what it refers to),
  `SearchersAreCurrent`, `NoTableChange` for any host, `NoChangeUnderSearch` for a
  polite one, and the refinement of `UciContract`, for any `MaxThreads` and
  `MaxCommands` and any combinations of limits (`Searches`). The refinement needs no politeness: even a host that exports the
  network during a search gets one answer for each `go`, in order.

  None of these is inductive. What a thread has still to do is a sequence (`todo`),
  and why a step is safe is that another step comes before it, or after it, in that
  sequence. The module first names the five relations of that kind that the invariant
  needs (`Guarded`: no step of `A` before one of `B`; `Awaited`: after each of `A`
  comes one of `B`; `Barred`: none of `B` after one of `A`; `Separated`: between one
  of `A` and one of `C` is one of `B`; `Has`) and proves how they change when a
  program loses its first step, or is composed of parts or of one part for each
  thread. With them the invariant says that the UCI thread touches what a search
  uses only after it has waited for the main thread (`UciOrder`), awaits each short
  job that it posts (`JobsAreAwaited`), and posts a search last (`GoOrder`); that the
  main thread ends with its answer (`MainOrder`) and comes to it only after it has
  waited for every helper it started (`HelpersAreAwaited`); that threads are ended
  and made in an order in which a step never meets a thread that is not there
  (`Lives`); that who sleeps on another's condition variable is about to wait for it
  (`Blocked`); that a search has the position and the list of its own `go`
  (`SetUpBeforeSearch`, `Games`); that answers are counted (`Counted`); and that a
  search whose answer is kept back goes on or lingers, unstopped (`Held`). There is
  one lemma for each command the UCI thread may begin and for each step it or a pool
  thread may take.
- **SharedMemoryProofs**: type correctness, `NetworkIsWhole`, `OneSegment` and, on
  Unix, that nobody but its creator has a segment that is still to be written
  (`CreatorsWriteAlone`), for any number of processes, networks and segments. That
  weights are whole is not inductive: a segment reaches another process through a
  descriptor (Unix) or a name (Windows) before anybody has said it is written. The
  invariant adds what the segment in a process's hand holds at each point of `open`;
  on Unix that its creator alone has it until it is written; on Windows that a
  segment has one name and holds nothing but that network or a beginning of it, so
  that whoever finds the flag unset under the mutex may write it again.
  `OneSegment` rests on what the directory shows (`ShareInv`): whoever has a share
  of the network has a socket there that leads to an instance that listens
  (`ListedInv`), all that are listed have the same segment (`SharedInv`), and the
  holder of the lock (`LockInv`) has asked each of them, or will (`HasAsked`), and
  has in hand what they share (`HasFound`). All steps but one leave the directory
  with the same entries or fewer (`Unshared`), which keeps what everybody else
  knows; `Serve`, which adds one, happens under the lock. A peer that is missed, or a
  second instance that failed, breaks exactly this, and the property excludes both:
  while nothing of the kind has happened, whoever is listed is found in the directory
  and asked.
- **SearchProofs**: `LinesAreLines` and `SearchAssertionsHold`, for every finite or
  infinite game that meets `GameAssumption` (captures are moves, no move is listed
  twice, evaluations claim no mate), any windows, depths, number of searches and of
  prunings. The invariant says of each frame where its ply (`PlyOK`), its window
  (`WindowOK`), its best value (`BestOK`) and its moves (`MovesOK`) can be at each
  step. A PV node is called by PV nodes only (`CallOK`), so the PV nodes are the
  first frames of the stack, one for each ply, and the pointer into a caller's list,
  which is kept by ply, is written only by the frame that it points to: it is that
  frame when the list is to be read, and null when there is none (`PvOK`). A
  quiescence search empties the list of its caller when it is entered, in check or
  not; `search` never does, since the frame that calls it for a PV node has emptied
  its list itself (step 20). That windows stay open rests on the mate distances of
  step 3 and on the value returned being a score of the frame that receives it
  (`ScoreOK`), even when the search was aborted below, or a singular or null search
  was in between. There is one lemma for each action, over lemmas for the three
  things a step does to the stack: go on (`Continued`), call (`Called`), return
  (`Returned`).

  Two theorems are of the functions on which all of `Search`'s table properties
  rest, for all constants ordered as the engine's are (`ScoreAssumption`).
  `StoredIsAScore`: what is stored stays in range and decisive for the same side.
  `ReadBackClaimsNoMore`: read at any other ply and 50-move count, a decisive score
  claims the distance that the plies imply, and none that the 50-move rule would cut
  off; every other score is unchanged.

- **ChessProofs**: `PositionsAreKept`, `SeeIsTheExchange` and `MovesArePickedOnce`,
  from any FEN string, on any line of moves and null moves done and taken back, with
  any histories and hash moves. All three have the hypothesis `[]KingsStand`: the
  string was one that `set` accepts, and no king is captured, which do_move asserts
  as well. That legal moves lead to no such position is part of `MovesAreTheRules`,
  which TLC checks; to prove it one would have to prove what pins and check masks
  stand for. What the attack tables hold is data, of which the proofs use three facts
  (`LinesAreApart`, `BetweenIsClear`, `PassedRank` in `Bitboards`); they have no
  parameters, so TLC's evaluation of them is complete. `ScenarioAssumption` says
  what a FEN record is, `PickAssumption` that a hash move is a value of `Move`, of
  this position or of any other, and that a quiet move has a history value.

  That `undo_move` restores every field is not a fact about a position alone:
  it depends on where the castling rook came from, on what stood behind the en
  passant square, on which state was current before. So the invariant `LineStands`
  is about the whole line: there is a sequence of positions, one for each move, all
  `Sound`, each following from the one before (`Step`), the last the one at hand;
  to take a move back is to find the last but one (`UndoMoveIs`). `Sound` is what a
  move needs of a position: the four forms of the board agree (`Whole`), each side
  has one king at most, a castling right belongs to a king and a rook that stand
  where it says and whose moves lose it (`CastlingKept`), the pawn that passed the en
  passant square stands behind it (`PassingKept`), the checkers are the king's
  attackers (`CheckersKept`), pinners are men on the board. Every legal move fits such a
  position (`MoveFits`, `LegalMovesFit`), evasions because they land on the checker or
  between it and the king, where no man of one's own stands;
  `do_move` of one that fits makes the board of the rules (`DoMoveIs`) and a sound
  position again; `set` makes a sound one of every string that leaves both kings
  (`SetIsSound`), whatever castling and en passant fields say.

  `see_ge` keeps two numbers and leaves its loop as soon as the side to move cannot
  change the answer; the reference is the value of the whole sequence of captures.
  The lemmas follow the men that stand, fewer at each capture: the loop's occupancy and
  attackers stand for them although it adds X-rays only where one can open
  (`Corresponds`), and the sign of what it has swapped compares the threshold with the
  value of what is left (`Compares`). Both sides are recursive functions over sets of men; the
  equations by which they are used are proved first, by well-founded induction.

  A picker swaps and sorts its list in place, several stages share it, and the search
  calls the quiet moves off between any two of them, so no stage alone says which
  moves have gone. The invariant `PickerStands` keeps the moves that have been
  emitted (`Gone`) apart from those that are `Coming`: the entries ahead in the list
  that this stage or a later one will emit, the moves of the types still to be
  generated, and the hash move before it has been tried. What is wanted is always
  among the two, and one call of `next_move` takes one move from the second to the
  first, through however many stages (`NextMoveIs`). For that the list must hold
  each move once and stay divided as its stage says (`Running`, `InStage`): sorting
  and setting bad captures aside rearrange within a part (`SortIs`,
  `Rearranged`), and the types of moves that are generated do not overlap and leave
  nothing out (`StagesArePartition`). That the hash move, tried before anything is
  generated, is one that will be generated is `HashTestIs`: `pseudo_legal`, which
  looks at one move on the board, accepts those moves and no other.

Only model-checked: all liveness (TLAPS here proves no fairness arguments); the
other parts of `RunsEndClean`; of chess, that `KingsStand`, and what compares the code
with a reference that looks through all continuations or all placements
(`MovesAreTheRules`, `StateIsExact`, `RepetitionsAreSeen`, `AccumulatorsAreExact`,
`EndgamesHaveTheirEntries`);
`DecisiveAnswersAreProven` and `DecisiveEntriesAreProven`, the root search and
tablebases, whose references are the recursive values of games.

## 5. Findings

Each has a run that ends in a counterexample, and an entry in `PROJECT.json` with
the line and the statement it contradicts.

1. `sf_destroy` notifies one waiter of a condition variable that creators and
   idlers share; an idler can swallow it (`gate_idler_starves`).
2. A command that waits for the search, behind an endless search, blocks the UCI
   thread for ever, and with it `sf_destroy` (`threads_blocked`).
3. `deinit` may run on the engine's own thread and join it (`session_self_join`).

Observations of a smaller kind, visible in the models without a run of their own:

- `export_net` waits for nothing, and `Engine::save_network` replaces the network
  even though it only writes it: sent during a search, it frees the weights that
  the search reads (`engine.cpp:317`; `NoChangeUnderSearch` fails through
  `ReadExport` if `Polite` is `FALSE`, and `Polite` excludes it). Nor does it call
  `ensure_network_replicated`, so the next search initializes the network of its
  node lazily, which `search.cpp:187` means to avoid.
- Behind a first line that an abort has left unfinished, a line may be shown with
  an exact loss that nothing has proved: the marking of such lines
  (`search.cpp:486`) is done for later lines only. `LinesAreEarned` therefore lets
  lines from the aborted one on claim a loss only for their own move.
- On Windows a process that gets the mutex of one that died takes this for an error
  and never releases the mutex: others wait for it as long as it lives
  (`shm.h:338`; `kept` in `OpensReturn`).
- On Unix, a process that cannot list the directory, or cannot ask a peer, concludes
  that nobody has the network and creates a second segment of it (`shm_unix.h:291`,
  `317`, `378`; `missed` in `OneSegment`).
- On Unix, a second instance in one process that fails to open has removed the
  first one's socket path, and later processes create a segment of their own
  (`shm_unix.h:575`; `failed` in `OneSegment`).
- Without distance tables the ranking keeps the class of the result only, and with
  distances rounded to moves a win may be a ply too late for the 50-move rule, as
  the code's comments admit; `RankedMovesKeepTheResult` claims what is left.
- The wait at `search.cpp:224`, of which the comment above it says that an infinite
  or a pondering search does not answer before the host asks, ends as soon as
  `threads.stop` is set, and the search sets it itself: when it finds the mate that
  `go mate` asks for, in any thread and whether it ponders or not (`search.cpp:552`),
  and when the nodes or the time of an infinite search are used up
  (`search.cpp:2129`). Such a search is answered before the host asks, and so is one
  without legal moves (`search.cpp:207`). `UciContract` allows these cases, and only
  these (`MayAnswer`). An infinite search with a limit that runs out of depth before
  it runs out of time waits for the host all the same.
- `runEngine` restores `std::cout` before `UCIEngine` is destroyed, so the answer
  of a search that quit has stopped may go to the host's standard output
  (`StockfishBridge.cpp:183`; `printed.host` in `SearchThreads`).
- `quit()` ends the UCI loop but not the stream, which only `shutdown` finishes
  (`StockfishEngine.swift:178`, against the comment at line 75).
- The loader's prune ignores removals that fail, although it promises an exact
  directory (`StockfishNetworkLoader.swift:321`); `OkMeansExact` therefore holds
  only if file operations succeed, which is an assumption of `OkIsExact`.

## 6. Not modelled

- **Time management**: its formulas are in floating point. A stop may come at any
  moment in `SearchThreads`, `Search` and `RootSearch`, which is all that is left of
  it there.
- **SHA-256**, the layers of the network behind the accumulator, the files of
  networks and tablebases: functions over long byte strings, without state of their
  own. Their results are opaque values.
- **Verified cache**: it can only go wrong when somebody else replaces a file while
  it is read, which the loader excludes.
- **Options and text**: commands arrive parsed, options with values they allow.
- **Clusters and ageing of the hash table, histories, the strength limit**: they
  decide which entry is lost or which move comes first, never what is claimed. A
  torn or foreign entry's move is covered by `HashMovesAreChecked` (a part of
  `MovesAreTheRules`), which admits any move at all; its score is not covered: the code accepts that risk.
- Benchmark, logging, tuning, formatting, build scripts, documentation.

Known simplifications of what is modelled are named with each module in section 2.
Besides: the output switch of section 5 is not part of `EngineSession`; a host task
that keeps the engine alive while it iterates the stream is a host that drops its
reference late; `set` gives the empty board for a string it refuses, where the engine
ends by `terminate_on_critical_error`, and a string reaches it as a record of fields,
so text that cannot be split into fields is not covered.

What would add most next: a theorem about the accumulator stack, which has no
recursion, and one that check and pin masks say what the rules do, which would
discharge `KingsStand`; the look-ahead for repetitions in `Search`.
