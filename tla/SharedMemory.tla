---------------------------- MODULE SharedMemory ----------------------------
(***************************************************************************)
(* The network's weights in memory that the processes of a user share      *)
(* (shm_unix.h, shm.h): every instance of a network has a directory, named *)
(* after its contents, with a lock file and one socket per process.  To    *)
(* open it a process takes the lock, asks each socket for the descriptor   *)
(* of the segment, and creates a segment if nobody answers; it gives up    *)
(* the lock when it serves the segment on a socket of its own.             *)
(*                                                                         *)
(* A process has a second instance of the same name when its NUMA          *)
(* configuration splits a node of the system in two (numa.h); both use the *)
(* same socket path, which holds the process id.                           *)
(*                                                                         *)
(* Processes die at any step: the system then drops their locks and        *)
(* mappings and leaves their sockets behind.  A path of a socket is        *)
(* written as the instance it was bound for; it is dead when that instance *)
(* does not serve.                                                         *)
(*                                                                         *)
(* A call that fails ends open, except for those that look for the peers   *)
(* and ask them: then the peers that were not found or not asked are taken *)
(* for absent, although they may listen.                                   *)
(*                                                                         *)
(* On Windows the system finds the segment by its name, and a named mutex  *)
(* and a flag at the segment's end tell who writes it.  A waiter of a      *)
(* mutex whose owner died gets it as abandoned, and keeps it: it takes     *)
(* this for an error, closes its handle and releases nothing.              *)
(***************************************************************************)
EXTENDS Naturals, FiniteSets

CONSTANTS Processes,    \* process ids; a dead process's id may be used again
          Networks,     \* contents, each with a directory of its own
          Segments,     \* memory segments (bound: those that exist at once)
          NoSegment, Local,  \* no instance; an instance in the process's own memory
          Nobody, NoSocket,
          PeersStall,   \* may a peer take more than a second to answer?
          CallsFail,    \* may a system call fail?
          Platforms,    \* a subset of {"unix", "windows"}
          MaxOpens      \* bound: calls of open by all processes

Slots == {"first", "second"}    \* the instances a process can have

ASSUME SharingAssumption ==
  /\ {NoSegment, Local} \cap Segments = {} /\ NoSegment # Local
  /\ Networks # {} /\ Networks \cap {"none", "zero", "torn"} = {}
  /\ Nobody \notin Processes /\ NoSocket \notin Slots
  /\ Platforms \subseteq {"unix", "windows"}
  /\ PeersStall \in BOOLEAN /\ CallsFail \in BOOLEAN /\ MaxOpens \in Nat

VARIABLES
  pc, network, slot,  \* where each process is, with which network and instance
  instances,          \* what each of its instances holds
  hand, creator,      \* the segment open has in hand, and whether it made it
  peers, asked,       \* the sockets still to ask, and the one that was
  memory,             \* contents of every segment
  sockets, initLock,  \* the directories; the lock is the mutex on Windows
  platform,
  named,              \* the segments by name (Windows)
  abandoned, kept,    \* mutexes whose owner died, or has closed its handle
  opens, missed, failed  \* opens so far; was a peer missed, did a second open fail?

at == <<pc, network, slot>>
holdings == <<instances, hand, creator>>
inquiry == <<peers, asked>>
mutexes == <<initLock, abandoned, kept>>
history == <<opens, missed, failed>>
vars == <<at, holdings, inquiry, memory, named, sockets, mutexes, platform, history>>

Goto(p, from, to) == pc[p] = from /\ pc' = [pc EXCEPT ![p] = to]
Windows == platform = "windows"
dir(p) == network[p]

\* The processes with a handle to n's mutex (Windows); it ends with the last one.
Handles(n) == {p \in Processes : pc[p] \in {"lock", "write", "release"} /\ network[p] = n}

\* A segment lives as long as a process maps it or holds its descriptor.
Referenced(s) == \E p \in Processes : hand[p] = s \/ \E i \in Slots : instances[p][i] = s
Reclaim ==
  /\ memory' = [s \in Segments |-> IF Referenced(s)' THEN memory[s] ELSE "none"]
  /\ named' = [n \in Networks |-> IF \E s \in Segments : named[n] = s /\ Referenced(s)'
                                  THEN named[n] ELSE NoSegment]

Init ==
  /\ pc = [p \in Processes |-> "out"]
  /\ network = [p \in Processes |-> CHOOSE n \in Networks : TRUE]
  /\ slot = [p \in Processes |-> "first"]
  /\ instances = [p \in Processes |-> [i \in Slots |-> NoSegment]]
  /\ hand = [p \in Processes |-> NoSegment]
  /\ creator = [p \in Processes |-> FALSE]
  /\ peers = [p \in Processes |-> {}] /\ asked = [p \in Processes |-> NoSocket]
  /\ memory = [s \in Segments |-> "none"]
  /\ sockets = [n \in Networks |-> [p \in Processes |-> NoSocket]]
  /\ initLock = [n \in Networks |-> Nobody]
  /\ platform \in Platforms
  /\ named = [n \in Networks |-> NoSegment] /\ abandoned = {} /\ kept = {}
  /\ opens = 0 /\ missed = FALSE /\ failed = FALSE
-----------------------------------------------------------------------------
(* open *)

Begin(p) ==
  /\ opens < MaxOpens /\ opens' = opens + 1
  /\ pc' = [pc EXCEPT ![p] = IF Windows THEN "name" ELSE "lock"]
  /\ UNCHANGED <<holdings, inquiry, memory, named, sockets, mutexes, platform, missed, failed>>

\* A process loads network n; it is a new process or has cleared its instances.
Open(p, n) ==
  /\ pc[p] \in {"out", "cleared"} /\ Begin(p)
  /\ network' = [network EXCEPT ![p] = n] /\ slot' = [slot EXCEPT ![p] = "first"]

\* ensure_present: the instance of another node.
OpenSecond(p) ==
  /\ pc[p] = "running" /\ instances[p]["second"] = NoSegment /\ Begin(p)
  /\ slot' = [slot EXCEPT ![p] = "second"] /\ UNCHANGED network

\* Mutant: the lock is not waited for.
LockAtOnce(p) ==
  /\ ~Windows /\ Goto(p, "lock", "scan")
  /\ initLock' = [initLock EXCEPT ![dir(p)] = p]
  /\ UNCHANGED <<network, slot, holdings, inquiry, memory, named, sockets, abandoned, kept,
                 platform, history>>

WaitForInitLock(p) ==
  /\ initLock[dir(p)] = Nobody
  /\ ~Windows /\ Goto(p, "lock", "scan")
  /\ initLock' = [initLock EXCEPT ![dir(p)] = p]
  /\ UNCHANGED <<network, slot, holdings, inquiry, memory, named, sockets, abandoned, kept,
                 platform, history>>

\* Does instance i of process q listen in n's directory?
Listens(q, i, n) == network[q] = n /\ instances[q][i] \in Segments

\* Does the socket of process q lead to an instance that listens?
Answers(q, n) == sockets[n][q] # NoSocket /\ Listens(q, sockets[n][q], n)

\* When opendir or readdir fails, sockets of the directory are left out.
GetPeerSockets(p) ==
  LET found == {q \in Processes : sockets[dir(p)][q] # NoSocket}
  IN  /\ Goto(p, "scan", "ask")
      /\ \E listed \in SUBSET found :
           /\ listed = found \/ CallsFail
           /\ peers' = [peers EXCEPT ![p] = listed]
           /\ missed' = (missed \/ \E q \in found \ listed : Answers(q, dir(p)))
  /\ UNCHANGED <<network, slot, holdings, asked, memory, named, sockets, mutexes, platform,
                 opens, failed>>

\* connect; a socket that nobody listens on any more is removed.  Without a socket
\* of its own (socket fails), and when connect fails or times out, the process
\* skips the peer, and removes its path if connect was refused: the peer's server
\* thread has ended with a failing poll, or the queue of its socket is full.
Connect(p, q) ==
  /\ pc[p] = "ask" /\ q \in peers[p] /\ peers' = [peers EXCEPT ![p] = @ \ {q}]
  /\ LET removed == [sockets EXCEPT ![dir(p)][q] = NoSocket]
     IN  \/ /\ Answers(q, dir(p))
            /\ Goto(p, "ask", "receive")
            /\ asked' = [asked EXCEPT ![p] = <<q, sockets[dir(p)][q]>>]
            /\ UNCHANGED <<sockets, missed>>
         \/ /\ ~Answers(q, dir(p))
            /\ sockets' = removed
            /\ UNCHANGED <<pc, asked, missed>>
         \/ /\ PeersStall \/ CallsFail
            /\ sockets' \in {sockets, removed}
            /\ missed' = (missed \/ Answers(q, dir(p)))
            /\ UNCHANGED <<pc, asked>>
  /\ UNCHANGED <<network, slot, holdings, memory, named, mutexes, platform, opens, failed>>

\* The instance that was asked may have been destroyed since.
PeerListens(p) == Listens(asked[p][1], asked[p][2], dir(p))

\* The server thread of the peer sends its descriptor.
Receive(p) ==
  /\ Goto(p, "receive", "map") /\ PeerListens(p)
  /\ hand' = [hand EXCEPT ![p] = instances[asked[p][1]][asked[p][2]]]
  /\ creator' = [creator EXCEPT ![p] = FALSE]
  /\ asked' = [asked EXCEPT ![p] = NoSocket]
  /\ UNCHANGED <<network, slot, instances, peers, memory, named, sockets, mutexes, platform,
                 history>>

\* The peer is gone, does not answer within a second, or one of the calls that pass
\* the descriptor fails: ask the next one.
GiveUpPeer(p) ==
  /\ Goto(p, "receive", "ask") /\ (PeersStall \/ CallsFail \/ ~PeerListens(p))
  /\ missed' = (missed \/ PeerListens(p))
  /\ asked' = [asked EXCEPT ![p] = NoSocket]
  /\ UNCHANGED <<network, slot, holdings, peers, memory, named, sockets, mutexes, platform,
                 opens, failed>>

\* A new segment, of zeros, in hand; which one does not matter.
NewSegment(p) ==
  LET free == {s \in Segments : memory[s] = "none"}
      s == CHOOSE s \in free : TRUE
  IN  /\ free # {}
      /\ memory' = [memory EXCEPT ![s] = "zero"]
      /\ hand' = [hand EXCEPT ![p] = s]

\* memfd_create and ftruncate.
Create(p) ==
  /\ peers[p] = {} /\ Goto(p, "ask", "map")
  /\ NewSegment(p) /\ creator' = [creator EXCEPT ![p] = TRUE]
  /\ UNCHANGED <<network, slot, instances, inquiry, named, sockets, mutexes, platform, history>>

\* Mutant: the segment is served without having been written.
MapUnwritten(p) ==
  /\ Goto(p, "map", "bind")
  /\ UNCHANGED <<network, slot, holdings, inquiry, memory, named, sockets, mutexes, platform,
                 history>>

Map(p) ==
  /\ Goto(p, "map", IF creator[p] THEN "write" ELSE "bind")
  /\ UNCHANGED <<network, slot, holdings, inquiry, memory, named, sockets, mutexes, platform,
                 history>>

\* *mapped_mem = initial_value takes time; on Windows the flag comes last.
Write(p) ==
  /\ pc[p] = "write"
  /\ LET s == hand[p]
     IN  \/ /\ memory[s] = "zero"
            /\ memory' = [memory EXCEPT ![s] = "torn"] /\ UNCHANGED pc
         \/ /\ memory[s] = "torn"
            /\ memory' = [memory EXCEPT ![s] = network[p]]
            /\ pc' = [pc EXCEPT ![p] = IF Windows THEN "release" ELSE "bind"]
  /\ UNCHANGED <<network, slot, holdings, inquiry, named, sockets, mutexes, platform, history>>

\* unlink, bind and listen: the path is taken over from what it was bound to.
Bind(p) ==
  /\ Goto(p, "bind", "serve")
  /\ sockets' = [sockets EXCEPT ![dir(p)][p] = slot[p]]
  /\ UNCHANGED <<network, slot, holdings, inquiry, memory, named, mutexes, platform, history>>

\* The instance has its segment.
Hold(p) ==
  /\ instances' = [instances EXCEPT ![p][slot[p]] = hand[p]]
  /\ hand' = [hand EXCEPT ![p] = NoSegment] /\ creator' = [creator EXCEPT ![p] = FALSE]
  /\ UNCHANGED <<network, slot, inquiry, memory, named, sockets, abandoned, kept,
                 platform, history>>

\* make_server_thread; the lock goes with the end of its scope.
Serve(p) ==
  /\ Goto(p, "serve", "running") /\ Hold(p)
  /\ initLock' = [initLock EXCEPT ![dir(p)] = Nobody]
-----------------------------------------------------------------------------
(* initialize, on Windows *)

\* CreateFileMapping opens the named segment or makes one; then CreateMutex, whose
\* mutex is a new one if nobody else has a handle to it.
MapNamed(p) ==
  /\ Goto(p, "name", "lock")
  /\ \/ /\ named[dir(p)] # NoSegment
        /\ hand' = [hand EXCEPT ![p] = named[dir(p)]] /\ UNCHANGED <<memory, named>>
     \/ /\ named[dir(p)] = NoSegment /\ NewSegment(p)
        /\ named' = [named EXCEPT ![dir(p)] = hand'[p]]
  /\ LET new == dir(p) \in kept /\ Handles(dir(p)) = {}
     IN  /\ initLock' = IF new THEN [initLock EXCEPT ![dir(p)] = Nobody] ELSE initLock
         /\ kept' = IF new THEN kept \ {dir(p)} ELSE kept
  /\ UNCHANGED <<network, slot, instances, creator, inquiry, sockets, abandoned, platform, history>>

\* WAIT_OBJECT_0: the mutex is free, or the process's already.
LockMutex(p) ==
  /\ Windows /\ pc[p] = "lock" /\ initLock[dir(p)] \in {Nobody, p} /\ dir(p) \notin abandoned
  /\ pc' = [pc EXCEPT ![p] = IF memory[hand[p]] = network[p] THEN "release" ELSE "write"]
  /\ initLock' = [initLock EXCEPT ![dir(p)] = p]
  /\ UNCHANGED <<network, slot, holdings, inquiry, memory, named, sockets, abandoned, kept,
                 platform, history>>

\* WAIT_ABANDONED is an error, although it owns the mutex: the handle is closed.
LockAbandoned(p) ==
  /\ Windows /\ Goto(p, "lock", "failed") /\ dir(p) \in abandoned
  /\ initLock' = [initLock EXCEPT ![dir(p)] = p]
  /\ abandoned' = abandoned \ {dir(p)} /\ kept' = kept \cup {dir(p)}
  /\ hand' = [hand EXCEPT ![p] = NoSegment] /\ UNCHANGED instances /\ Reclaim
  /\ UNCHANGED <<network, slot, creator, inquiry, sockets, platform, history>>

ReleaseMutex(p) ==
  /\ Goto(p, "release", "running") /\ Hold(p)
  /\ initLock' = IF dir(p) \in kept THEN initLock ELSE [initLock EXCEPT ![dir(p)] = Nobody]
-----------------------------------------------------------------------------
\* Another call fails: open returns, which gives up the lock and the segment.
Fail(p) ==
  /\ CallsFail
  /\ pc[p] \in IF Windows THEN {"name"} ELSE {"lock", "ask", "map", "bind", "serve"}
  /\ pc[p] = "ask" => peers[p] = {}
  /\ pc' = [pc EXCEPT ![p] = "failed"]
  /\ initLock' = IF Windows THEN initLock
                 ELSE [n \in Networks |-> IF initLock[n] = p THEN Nobody ELSE initLock[n]]
  /\ hand' = [hand EXCEPT ![p] = NoSegment] /\ UNCHANGED instances /\ Reclaim
  /\ failed' = (failed \/ slot[p] = "second")
  /\ UNCHANGED <<network, slot, creator, inquiry, sockets, abandoned, kept, platform, opens, missed>>

\* ~SharedMemory removes the socket path, whoever bound it, and the instance is
\* allocated in the process's own memory.
Fallback(p) ==
  /\ Goto(p, "failed", "running")
  /\ sockets' = [sockets EXCEPT ![dir(p)][p] = NoSocket]
  /\ instances' = [instances EXCEPT ![p][slot[p]] = Local]
  /\ UNCHANGED <<network, slot, hand, creator, inquiry, memory, named, mutexes, platform, history>>
-----------------------------------------------------------------------------
(* the end of an instance, and of a process *)

Last(p) == instances[p]["second"] = NoSegment

\* instances.clear(), on a change of the network or at the engine's end.
Clear(p) ==
  /\ Goto(p, "running", "unlink") /\ slot' = [slot EXCEPT ![p] = "first"]
  /\ UNCHANGED <<network, holdings, inquiry, memory, named, sockets, mutexes, platform, history>>

\* ~SharedMemory: unlink_socket_path ...
Unlink(p) ==
  /\ Goto(p, "unlink", "unmap")
  /\ sockets' = IF instances[p][slot[p]] \in Segments
                THEN [sockets EXCEPT ![dir(p)][p] = NoSocket] ELSE sockets
  /\ UNCHANGED <<network, slot, holdings, inquiry, memory, named, mutexes, platform, history>>

\* ... and the end of the server thread and the mapping; then the next instance.
Unmap(p) ==
  /\ pc[p] = "unmap"
  /\ instances' = [instances EXCEPT ![p][slot[p]] = NoSegment] /\ UNCHANGED hand /\ Reclaim
  /\ pc' = [pc EXCEPT ![p] = IF slot[p] = "second" \/ Last(p) THEN "cleared" ELSE "unlink"]
  /\ slot' = [slot EXCEPT ![p] = IF Last(p) THEN @ ELSE "second"]
  /\ UNCHANGED <<network, creator, inquiry, sockets, mutexes, platform, history>>

\* Mutant: a lock outlives the process that held it, as a lock file would.
LocksStay(p) == UNCHANGED mutexes

\* The system drops a dead process's locks; a mutex that others wait for is abandoned.
DropLocks(p) ==
  LET owned == {n \in Networks : initLock[n] = p}
  IN  /\ initLock' = [n \in Networks |-> IF n \in owned THEN Nobody ELSE initLock[n]]
      /\ abandoned' = {n \in abandoned \cup owned : Windows /\ Handles(n) \ {p} # {}}
      /\ kept' = kept \ owned

\* What the system does when a process ends.
Ends(p) ==
  /\ pc' = [pc EXCEPT ![p] = "out"] /\ DropLocks(p)
  /\ instances' = [instances EXCEPT ![p] = [i \in Slots |-> NoSegment]]
  /\ hand' = [hand EXCEPT ![p] = NoSegment] /\ Reclaim
  /\ peers' = [peers EXCEPT ![p] = {}] /\ asked' = [asked EXCEPT ![p] = NoSocket]
  /\ creator' = [creator EXCEPT ![p] = FALSE] /\ slot' = [slot EXCEPT ![p] = "first"]
  /\ network' = [network EXCEPT ![p] = CHOOSE n \in Networks : TRUE]
  /\ UNCHANGED <<platform, history>>

Crash(p) == pc[p] # "out" /\ Ends(p) /\ UNCHANGED sockets

\* exit runs cleanup_at_exit, which removes every socket path of the process.
Exit(p) ==
  /\ pc[p] \in {"running", "cleared"} /\ Ends(p)
  /\ sockets' = [n \in Networks |-> [sockets[n] EXCEPT ![p] = NoSocket]]
-----------------------------------------------------------------------------
OpenStep(p) ==
  \/ WaitForInitLock(p) \/ GetPeerSockets(p) \/ \E q \in Processes : Connect(p, q)
  \/ Receive(p) \/ GiveUpPeer(p) \/ Create(p) \/ Map(p) \/ Write(p) \/ Bind(p)
  \/ Serve(p) \/ MapNamed(p) \/ LockMutex(p) \/ LockAbandoned(p) \/ ReleaseMutex(p)
  \/ Fail(p) \/ Fallback(p)
ClearStep(p) == Unlink(p) \/ Unmap(p)

Next == \E p \in Processes :
  \/ \E n \in Networks : Open(p, n)
  \/ OpenSecond(p) \/ OpenStep(p) \/ Clear(p) \/ ClearStep(p) \/ Crash(p) \/ Exit(p)

Spec == Init /\ [][Next]_vars

\* A process that is opening or clearing goes on until it dies.
FairSpec == Spec /\ \A p \in Processes : WF_vars(OpenStep(p)) /\ WF_vars(ClearStep(p))
-----------------------------------------------------------------------------
(* Properties *)

\* The weights a search reads are the weights it asked for, and all of them: no
\* instance maps a segment that is empty, half written or another network's,
\* whoever died while writing it.
NetworkIsWhole ==
  \A p \in Processes, i \in Slots :
    instances[p][i] \in Segments => memory[instances[p][i]] = network[p]

\* The processes that use a network share one segment of it, whoever created it
\* and whoever has died since, unless a process missed a peer that listens (which
\* was too slow, or a call to find or to ask it failed) or one that had an instance
\* failed to open another.  Processes that are just clearing their instances have
\* left the directory already.
OneSegment ==
  ~missed /\ ~failed =>
    \A p, q \in {r \in Processes : pc[r] \notin {"unlink", "unmap"}} : \A i, j \in Slots :
      /\ network[p] = network[q]
      /\ instances[p][i] \in Segments /\ instances[q][j] \in Segments
      => instances[p][i] = instances[q][j]

\* Whoever opens a network gets it, in shared memory or its own, although the
\* holder of the lock may die with it and sockets of the dead refuse; unless a
\* mutex is kept by a process that got it abandoned (Windows).
OpensReturn ==
  \A p \in Processes :
    pc[p] = "lock" ~> pc[p] \in {"running", "out"} \/ network[p] \in kept
=============================================================================
