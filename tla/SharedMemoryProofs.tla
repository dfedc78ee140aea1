------------------------- MODULE SharedMemoryProofs -------------------------
(* Proofs about SharedMemory, for any number of processes, networks and      *)
(* segments, on either platform, whichever calls fail and whoever dies.      *)
EXTENDS SharedMemory, TLAPS

----------------------------------------------------------------------------
(* The inductive invariant *)

Steps == {"out", "name", "lock", "scan", "ask", "receive", "map", "write", "bind", "serve",
          "release", "running", "failed", "unlink", "unmap", "cleared"}
UnixSteps == {"scan", "ask", "receive", "map", "bind", "serve"}
WindowsSteps == {"name", "release"}
Unwritten == {"zero", "torn"}
Contents == Networks \cup {"none"} \cup Unwritten

\* The types of what decides which segment is read with which contents.
TypeOK ==
  /\ pc \in [Processes -> Steps]
  /\ network \in [Processes -> Networks] /\ slot \in [Processes -> Slots]
  /\ instances \in [Processes -> [Slots -> Segments \cup {NoSegment, Local}]]
  /\ hand \in [Processes -> Segments \cup {NoSegment}]
  /\ creator \in [Processes -> BOOLEAN]
  /\ memory \in [Segments -> Contents]
  /\ named \in [Networks -> Segments \cup {NoSegment}]
  /\ sockets \in [Networks -> [Processes -> Slots \cup {NoSocket}]]
  /\ asked \in [Processes -> (Processes \X Slots) \cup {NoSocket}]
  /\ \A p \in Processes : pc[p] = "receive" => asked[p] \in Processes \X Slots

\* Each platform has steps of its own.
PlatformInv ==
  \A p \in Processes : IF Windows THEN pc[p] \notin UnixSteps ELSE pc[p] \notin WindowsSteps

\* Instances are cleared one by one, and all of them before another network.
IdleInv ==
  \A p \in Processes :
    /\ pc[p] \in {"out", "cleared"} => \A i \in Slots : instances[p][i] = NoSegment
    /\ pc[p] \in {"unlink", "unmap"} /\ slot[p] = "second" => instances[p]["first"] = NoSegment

\* Where a process has a segment in its hand, and where it alone has it.
HasHand(p) ==
  \/ pc[p] \in {"map", "write", "bind", "serve", "release"}
  \/ Windows /\ pc[p] = "lock"
MadeHand(p) == pc[p] = "write" \/ (pc[p] = "map" /\ creator[p])

\* What the segment in a process's hand holds, by where the process is.
HandInv ==
  \A p \in Processes :
    /\ HasHand(p) <=> hand[p] \in Segments
    /\ HasHand(p) => memory[hand[p]] # "none"
    /\ pc[p] \in {"bind", "serve", "release"} => memory[hand[p]] = network[p]
    /\ pc[p] = "map" => memory[hand[p]] = IF creator[p] THEN "zero" ELSE network[p]
    /\ pc[p] = "write" => memory[hand[p]] \in Unwritten \cup (IF Windows THEN {network[p]} ELSE {})

\* Under Unix nobody else has a segment that its creator has not yet written.
SoleInv ==
  ~Windows => \A p, q \in Processes : p # q /\ MadeHand(p) => hand[q] # hand[p]

\* Under Windows a segment has one name, the one it is in hand under, and holds
\* nothing but that network or a beginning of it.
NamedInv ==
  Windows =>
    /\ \A n \in Networks : named[n] \in Segments => memory[named[n]] \in Unwritten \cup {n}
    /\ \A n, m \in Networks : named[n] \in Segments /\ named[n] = named[m] => n = m
    /\ \A p \in Processes : hand[p] \in Segments => named[network[p]] = hand[p]

IInv == TypeOK /\ PlatformInv /\ IdleInv /\ HandInv /\ SoleInv /\ NamedInv /\ NetworkIsWhole

LEMMA InitInv == Init => IInv
<1>. SUFFICES ASSUME Init PROVE IInv OBVIOUS
<1>1. TypeOK
  BY SharingAssumption DEF Init, TypeOK, Steps, Slots, Contents
<1>2. PlatformInv /\ IdleInv
  BY DEF Init, PlatformInv, IdleInv, UnixSteps, WindowsSteps, Windows
<1>3. HandInv /\ SoleInv /\ NamedInv /\ NetworkIsWhole
  BY SharingAssumption
  DEF Init, HandInv, SoleInv, NamedInv, NetworkIsWhole, HasHand, MadeHand, Windows
<1>. QED BY <1>1, <1>2, <1>3 DEF IInv

----------------------------------------------------------------------------
(* Every step preserves the invariant *)

\* From the lock to a peer that answers.
LEMMA StepsThatAsk ==
    ASSUME IInv, NEW p \in Processes,
           \/ WaitForInitLock(p) \/ GetPeerSockets(p)
           \/ (\E q \in Processes : Connect(p, q)) \/ GiveUpPeer(p) \/ Receive(p)
    PROVE  IInv'
<1>. USE SharingAssumption DEF IInv, Windows, Slots, Contents, Unwritten, Goto, dir,
                               at, holdings, inquiry, mutexes, history
<1>1. CASE WaitForInitLock(p)
  <2>1. TypeOK' /\ PlatformInv' /\ IdleInv'
    BY <1>1 DEF WaitForInitLock, TypeOK, PlatformInv, IdleInv, Steps, UnixSteps, WindowsSteps
  <2>2. HandInv' /\ SoleInv'
    BY <1>1 DEF WaitForInitLock, TypeOK, PlatformInv, HandInv, SoleInv, HasHand, MadeHand
  <2>3. NamedInv' /\ NetworkIsWhole'
    BY <1>1 DEF WaitForInitLock, TypeOK, PlatformInv, HandInv, NamedInv, NetworkIsWhole, HasHand
  <2>. QED BY <2>1, <2>2, <2>3
<1>2. CASE GetPeerSockets(p)
  <2>1. TypeOK' /\ PlatformInv' /\ IdleInv'
    BY <1>2 DEF GetPeerSockets, TypeOK, PlatformInv, IdleInv, Steps, UnixSteps, WindowsSteps
  <2>2. HandInv' /\ SoleInv'
    BY <1>2 DEF GetPeerSockets, TypeOK, PlatformInv, HandInv, SoleInv, HasHand, MadeHand
  <2>3. NamedInv' /\ NetworkIsWhole'
    BY <1>2 DEF GetPeerSockets, TypeOK, PlatformInv, HandInv, NamedInv, NetworkIsWhole, HasHand
  <2>. QED BY <2>1, <2>2, <2>3
<1>3. ASSUME NEW q \in Processes, Connect(p, q) PROVE IInv'
  <2>0. UNCHANGED <<network, slot, instances, hand, creator, memory, named, platform>>
    BY <1>3 DEF Connect
  <2>1. CASE /\ UNCHANGED <<pc, asked>>
             /\ sockets' \in {sockets, [sockets EXCEPT ![network[p]][q] = NoSocket]}
    <3>0. sockets' \in [Networks -> [Processes -> Slots \cup {NoSocket}]]
      <4>1. sockets \in [Networks -> [Processes -> Slots \cup {NoSocket}]]
        BY DEF TypeOK
      <4>2. CASE sockets' = sockets
        BY <4>1, <4>2
      <4>3. CASE sockets' = [sockets EXCEPT ![network[p]][q] = NoSocket]
        BY <4>1, <4>3
      <4>. QED BY <2>1, <4>2, <4>3
    <3>1. TypeOK' /\ PlatformInv' /\ IdleInv'
      BY <2>0, <2>1, <3>0 DEF TypeOK, PlatformInv, IdleInv
    <3>2. HandInv' /\ SoleInv'
      BY <2>0, <2>1 DEF HandInv, SoleInv, HasHand, MadeHand
    <3>3. NamedInv'
      BY <2>0 DEF NamedInv
    <3>4. NetworkIsWhole'
      BY <2>0 DEF NetworkIsWhole
    <3>. QED BY <3>1, <3>2, <3>3, <3>4
  <2>2. CASE /\ pc[p] = "ask" /\ pc' = [pc EXCEPT ![p] = "receive"] /\ UNCHANGED sockets
             /\ \E i \in Slots : asked' = [asked EXCEPT ![p] = <<q, i>>]
    <3>1. TypeOK'
      BY <2>0, <2>2 DEF TypeOK, Steps
    <3>2. PlatformInv' /\ IdleInv'
      BY <2>0, <2>2 DEF TypeOK, PlatformInv, IdleInv, UnixSteps, WindowsSteps
    <3>3. HandInv' /\ SoleInv' /\ NamedInv' /\ NetworkIsWhole'
      BY <2>0, <2>2 DEF TypeOK, HandInv, SoleInv, NamedInv, NetworkIsWhole, HasHand, MadeHand
    <3>. QED BY <3>1, <3>2, <3>3
  <2>3. sockets[network[p]][q] \in Slots \cup {NoSocket}
    BY DEF TypeOK
  <2>. QED BY <1>3, <2>1, <2>2, <2>3 DEF Connect, Answers
<1>4. CASE GiveUpPeer(p)
  <2>1. TypeOK' /\ PlatformInv' /\ IdleInv'
    BY <1>4 DEF GiveUpPeer, TypeOK, PlatformInv, IdleInv, Steps, UnixSteps, WindowsSteps
  <2>2. HandInv' /\ SoleInv'
    BY <1>4 DEF GiveUpPeer, TypeOK, PlatformInv, HandInv, SoleInv, HasHand, MadeHand
  <2>3. NamedInv' /\ NetworkIsWhole'
    BY <1>4 DEF GiveUpPeer, TypeOK, PlatformInv, HandInv, NamedInv, NetworkIsWhole, HasHand
  <2>. QED BY <2>1, <2>2, <2>3
<1>5. CASE Receive(p)
  <2>0. PICK q \in Processes, i \in Slots :
           /\ hand' = [hand EXCEPT ![p] = instances[q][i]]
           /\ instances[q][i] \in Segments /\ memory[instances[q][i]] = network[p]
    <3>1. asked[p] \in Processes \X Slots /\ PeerListens(p)
      BY <1>5 DEF Receive, TypeOK
    <3>2. asked[p][1] \in Processes /\ asked[p][2] \in Slots
      BY <3>1
    <3>3. /\ instances[asked[p][1]][asked[p][2]] \in Segments
          /\ network[asked[p][1]] = network[p]
      BY <3>1 DEF PeerListens, Listens
    <3>4. memory[instances[asked[p][1]][asked[p][2]]] = network[p]
      BY <3>2, <3>3 DEF NetworkIsWhole
    <3>. QED BY <1>5, <3>2, <3>3, <3>4 DEF Receive
  <2>1. TypeOK' /\ PlatformInv' /\ IdleInv'
    BY <1>5, <2>0 DEF Receive, TypeOK, PlatformInv, IdleInv, Steps, UnixSteps, WindowsSteps
  <2>2. HandInv'
    <3>1. ~Windows /\ pc' = [pc EXCEPT ![p] = "map"] /\ creator' = [creator EXCEPT ![p] = FALSE]
          /\ network[p] # "none" /\ UNCHANGED <<network, memory, platform>>
      BY <1>5 DEF Receive, TypeOK, PlatformInv, UnixSteps
    <3>. QED BY <2>0, <3>1 DEF TypeOK, HandInv, HasHand
  <2>4. SoleInv'
    BY <1>5, <2>0 DEF Receive, TypeOK, HandInv, SoleInv, HasHand, MadeHand
  <2>3. NamedInv' /\ NetworkIsWhole'
    BY <1>5, <2>0 DEF Receive, TypeOK, PlatformInv, UnixSteps, NamedInv, NetworkIsWhole
  <2>. QED BY <2>1, <2>2, <2>3, <2>4
<1>. QED BY <1>1, <1>2, <1>3, <1>4, <1>5

\* From the segment in hand to the instance.
LEMMA StepsThatMap ==
    ASSUME IInv, NEW p \in Processes,
           \/ Create(p) \/ Map(p) \/ Write(p) \/ Bind(p) \/ Serve(p)
    PROVE  IInv'
<1>. USE SharingAssumption DEF IInv, Windows, Slots, Contents, Unwritten, Goto, dir,
                               at, holdings, inquiry, mutexes, history
<1>1. CASE Create(p)
  <2>0. PICK s \in Segments :
           /\ memory[s] = "none" /\ memory' = [memory EXCEPT ![s] = "zero"]
           /\ hand' = [hand EXCEPT ![p] = s]
    BY <1>1 DEF Create, NewSegment
  <2>1. TypeOK' /\ PlatformInv' /\ IdleInv'
    BY <1>1, <2>0 DEF Create, TypeOK, PlatformInv, IdleInv, Steps, UnixSteps, WindowsSteps
  <2>2. HandInv' /\ SoleInv'
    BY <1>1, <2>0 DEF Create, TypeOK, PlatformInv, UnixSteps, HandInv, SoleInv, HasHand, MadeHand
  <2>3. NamedInv' /\ NetworkIsWhole'
    BY <1>1, <2>0 DEF Create, TypeOK, PlatformInv, UnixSteps, NamedInv, NetworkIsWhole
  <2>. QED BY <2>1, <2>2, <2>3
<1>2. CASE Map(p)
  <2>1. TypeOK' /\ PlatformInv' /\ IdleInv'
    BY <1>2 DEF Map, TypeOK, PlatformInv, IdleInv, Steps, UnixSteps, WindowsSteps
  <2>2. HandInv' /\ SoleInv'
    BY <1>2 DEF Map, TypeOK, PlatformInv, HandInv, SoleInv, HasHand, MadeHand
  <2>3. NamedInv' /\ NetworkIsWhole'
    BY <1>2 DEF Map, TypeOK, PlatformInv, HandInv, NamedInv, NetworkIsWhole, HasHand
  <2>. QED BY <2>1, <2>2, <2>3
<1>3. CASE Write(p)
  <2>0. /\ pc[p] = "write" /\ hand[p] \in Segments /\ memory[hand[p]] \in Unwritten
        /\ \/ UNCHANGED pc /\ memory' = [memory EXCEPT ![hand[p]] = "torn"]
           \/ /\ pc' = [pc EXCEPT ![p] = IF Windows THEN "release" ELSE "bind"]
              /\ memory' = [memory EXCEPT ![hand[p]] = network[p]]
        /\ UNCHANGED <<network, slot, instances, hand, creator, asked, named, sockets, platform>>
    BY <1>3 DEF Write, HandInv, HasHand
  <2>1. TypeOK' /\ PlatformInv' /\ IdleInv'
    <3>1. TypeOK'
      <4>1. pc' \in [Processes -> Steps] /\ pc'[p] # "receive"
            /\ \A q \in Processes \ {p} : pc'[q] = pc[q]
        BY <2>0 DEF TypeOK, Steps
      <4>2. memory' \in [Segments -> Contents]
        BY <2>0 DEF TypeOK
      <4>. QED BY <2>0, <4>1, <4>2 DEF TypeOK
    <3>2. PlatformInv' /\ IdleInv'
      BY <2>0 DEF TypeOK, PlatformInv, IdleInv, UnixSteps, WindowsSteps
    <3>. QED BY <3>1, <3>2
  <2>2. \A q \in Processes : q # p /\ HasHand(q) /\ hand[q] = hand[p] =>
           Windows /\ network[q] = network[p] /\ pc[q] \in {"lock", "write"}
    BY <2>0 DEF TypeOK, PlatformInv, UnixSteps, HandInv, SoleInv, NamedInv, HasHand, MadeHand
  <2>3. HandInv'
    <3>1. SUFFICES ASSUME NEW q \in Processes
                   PROVE  /\ (HasHand(q) <=> hand[q] \in Segments)'
                          /\ (HasHand(q) => memory[hand[q]] # "none")'
                          /\ (pc[q] \in {"bind", "serve", "release"} => memory[hand[q]] = network[q])'
                          /\ (pc[q] = "map" =>
                                memory[hand[q]] = IF creator[q] THEN "zero" ELSE network[q])'
                          /\ (pc[q] = "write" =>
                                memory[hand[q]] \in
                                  Unwritten \cup (IF Windows THEN {network[q]} ELSE {}))'
      BY DEF HandInv
    <3>2. network[p] \in Networks /\ network[p] # "none"
      BY DEF TypeOK
    <3>3. CASE q = p
      BY <2>0, <3>2, <3>3 DEF TypeOK, HandInv, HasHand
    <3>4. CASE q # p /\ hand[q] = hand[p]
      BY <2>0, <2>2, <3>2, <3>4 DEF TypeOK, HandInv, HasHand
    <3>5. CASE q # p /\ hand[q] # hand[p]
      <4>1. pc'[q] = pc[q] /\ (hand[q] \in Segments => memory'[hand[q]] = memory[hand[q]])
        BY <2>0, <3>5 DEF TypeOK
      <4>. QED BY <2>0, <4>1 DEF HandInv, HasHand
    <3>. QED BY <3>3, <3>4, <3>5
  <2>4. SoleInv'
    BY <2>0 DEF TypeOK, SoleInv, MadeHand
  <2>5. NamedInv'
    <3>1. ASSUME Windows, NEW n \in Networks, named[n] \in Segments
          PROVE  memory'[named[n]] \in Unwritten \cup {n}
      <4>1. CASE named[n] = hand[p]
        <5>1. n = network[p]
          BY <2>0, <3>1, <4>1 DEF TypeOK, NamedInv
        <5>. QED BY <2>0, <4>1, <5>1 DEF TypeOK
      <4>2. CASE named[n] # hand[p]
        <5>1. memory'[named[n]] = memory[named[n]]
          BY <2>0, <3>1, <4>2 DEF TypeOK
        <5>. QED BY <3>1, <5>1 DEF NamedInv
      <4>. QED BY <4>1, <4>2
    <3>. QED BY <2>0, <3>1 DEF NamedInv
  <2>6. NetworkIsWhole'
    BY <2>0 DEF TypeOK, NetworkIsWhole
  <2>. QED BY <2>1, <2>3, <2>4, <2>5, <2>6
<1>4. CASE Bind(p)
  <2>1. TypeOK' /\ PlatformInv' /\ IdleInv'
    BY <1>4 DEF Bind, TypeOK, PlatformInv, IdleInv, Steps, UnixSteps, WindowsSteps
  <2>2. HandInv' /\ SoleInv'
    BY <1>4 DEF Bind, TypeOK, PlatformInv, HandInv, SoleInv, HasHand, MadeHand
  <2>3. NamedInv' /\ NetworkIsWhole'
    BY <1>4 DEF Bind, TypeOK, PlatformInv, HandInv, NamedInv, NetworkIsWhole, HasHand
  <2>. QED BY <2>1, <2>2, <2>3
<1>5. CASE Serve(p)
  <2>1. TypeOK' /\ PlatformInv' /\ IdleInv'
    BY <1>5 DEF Serve, Hold, TypeOK, PlatformInv, IdleInv, Steps, UnixSteps, WindowsSteps
  <2>2. HandInv' /\ SoleInv'
    BY <1>5 DEF Serve, Hold, TypeOK, PlatformInv, HandInv, SoleInv, HasHand, MadeHand
  <2>3. NamedInv' /\ NetworkIsWhole'
    BY <1>5 DEF Serve, Hold, TypeOK, PlatformInv, HandInv, NamedInv, NetworkIsWhole, HasHand
  <2>. QED BY <2>1, <2>2, <2>3
<1>. QED BY <1>1, <1>2, <1>3, <1>4, <1>5

\* The steps of the other platform.
LEMMA StepsOnWindows ==
    ASSUME IInv, NEW p \in Processes,
           \/ MapNamed(p) \/ LockMutex(p) \/ ReleaseMutex(p) \/ LockAbandoned(p)
    PROVE  IInv'
<1>. USE SharingAssumption DEF IInv, Windows, Slots, Contents, Unwritten, Goto, dir,
                               at, holdings, inquiry, mutexes, history
<1>1. CASE MapNamed(p)
  <2>0. /\ Windows /\ pc[p] = "name" /\ pc' = [pc EXCEPT ![p] = "lock"]
        /\ UNCHANGED <<network, slot, instances, creator, asked, sockets, platform>>
    BY <1>1 DEF MapNamed, PlatformInv, WindowsSteps
  <2>1. PlatformInv' /\ IdleInv' /\ SoleInv'
    BY <2>0 DEF TypeOK, PlatformInv, IdleInv, SoleInv, UnixSteps, WindowsSteps
  <2>2. CASE named[network[p]] # NoSegment
    <3>1. /\ hand' = [hand EXCEPT ![p] = named[network[p]]] /\ UNCHANGED <<memory, named>>
          /\ named[network[p]] \in Segments
          /\ memory[named[network[p]]] \in Unwritten \cup {network[p]}
      BY <1>1, <2>0, <2>2 DEF MapNamed, TypeOK, NamedInv
    <3>2. TypeOK'
      BY <2>0, <3>1 DEF TypeOK, Steps
    <3>3. HandInv'
      BY <2>0, <3>1 DEF TypeOK, HandInv, HasHand
    <3>4. NamedInv' /\ NetworkIsWhole'
      BY <2>0, <3>1 DEF TypeOK, NamedInv, NetworkIsWhole
    <3>. QED BY <2>1, <3>2, <3>3, <3>4
  <2>3. CASE named[network[p]] = NoSegment
    <3>1. PICK s \in Segments :
             /\ memory[s] = "none" /\ memory' = [memory EXCEPT ![s] = "zero"]
             /\ hand' = [hand EXCEPT ![p] = s] /\ named' = [named EXCEPT ![network[p]] = hand'[p]]
      BY <1>1, <2>3 DEF MapNamed, NewSegment
    <3>2. TypeOK'
      BY <2>0, <3>1 DEF TypeOK, Steps
    <3>3. HandInv'
      BY <2>0, <3>1 DEF TypeOK, HandInv, HasHand
    <3>4. NamedInv'
      <4>1. ASSUME NEW n \in Networks PROVE named[n] # s
        <5>1. n # "none"
          OBVIOUS
        <5>. QED BY <2>0, <3>1, <5>1 DEF NamedInv
      <4>2. \A q \in Processes : hand[q] \in Segments => network[q] # network[p]
        BY <2>0, <2>3 DEF NamedInv
      <4>. QED BY <2>0, <3>1, <4>1, <4>2 DEF TypeOK, NamedInv
    <3>5. NetworkIsWhole'
      BY <2>0, <3>1 DEF TypeOK, NetworkIsWhole
    <3>. QED BY <2>1, <3>2, <3>3, <3>4, <3>5
  <2>. QED BY <2>2, <2>3
<1>2. CASE LockMutex(p)
  <2>1. TypeOK' /\ PlatformInv' /\ IdleInv'
    BY <1>2 DEF LockMutex, TypeOK, PlatformInv, IdleInv, Steps, UnixSteps, WindowsSteps
  <2>2. HandInv' /\ SoleInv'
    BY <1>2 DEF LockMutex, TypeOK, PlatformInv, HandInv, SoleInv, HasHand, MadeHand, NamedInv
  <2>3. NamedInv' /\ NetworkIsWhole'
    BY <1>2 DEF LockMutex, TypeOK, PlatformInv, HandInv, NamedInv, NetworkIsWhole, HasHand
  <2>. QED BY <2>1, <2>2, <2>3
<1>3. CASE ReleaseMutex(p)
  <2>1. TypeOK' /\ PlatformInv' /\ IdleInv'
    BY <1>3 DEF ReleaseMutex, Hold, TypeOK, PlatformInv, IdleInv, Steps, UnixSteps, WindowsSteps
  <2>2. HandInv' /\ SoleInv'
    BY <1>3 DEF ReleaseMutex, Hold, TypeOK, PlatformInv, HandInv, SoleInv, HasHand, MadeHand
  <2>3. NamedInv' /\ NetworkIsWhole'
    BY <1>3 DEF ReleaseMutex, Hold, TypeOK, PlatformInv, HandInv, NamedInv, NetworkIsWhole, HasHand
  <2>. QED BY <2>1, <2>2, <2>3
<1>4. CASE LockAbandoned(p)
  <2>1. TypeOK' /\ PlatformInv' /\ IdleInv'
    BY <1>4 DEF LockAbandoned, Reclaim, Referenced, TypeOK, PlatformInv, IdleInv, Steps, UnixSteps, WindowsSteps
  <2>2. HandInv' /\ SoleInv'
    BY <1>4 DEF LockAbandoned, Reclaim, Referenced, TypeOK, PlatformInv, HandInv, SoleInv, HasHand, MadeHand
  <2>3. NamedInv' /\ NetworkIsWhole'
    BY <1>4 DEF LockAbandoned, Reclaim, Referenced, TypeOK, PlatformInv, HandInv, NamedInv, NetworkIsWhole, HasHand
  <2>. QED BY <2>1, <2>2, <2>3
<1>. QED BY <1>1, <1>2, <1>3, <1>4

\* The beginning of open, and its failure.
LEMMA StepsThatStart ==
    ASSUME IInv, NEW p \in Processes,
           \/ (\E n \in Networks : Open(p, n)) \/ OpenSecond(p) \/ Fail(p) \/ Fallback(p)
    PROVE  IInv'
<1>. USE SharingAssumption DEF IInv, Windows, Slots, Contents, Unwritten, Goto, dir,
                               at, holdings, inquiry, mutexes, history
<1>1. ASSUME NEW n \in Networks, Open(p, n) PROVE IInv'
  <2>0. /\ pc[p] \in {"out", "cleared"} /\ pc' = [pc EXCEPT ![p] = IF Windows THEN "name" ELSE "lock"]
        /\ network' = [network EXCEPT ![p] = n] /\ slot' = [slot EXCEPT ![p] = "first"]
        /\ UNCHANGED <<instances, hand, creator, asked, memory, named, sockets, platform>>
    BY <1>1 DEF Open, Begin
  <2>1. TypeOK' /\ PlatformInv' /\ IdleInv'
    BY <2>0 DEF TypeOK, PlatformInv, IdleInv, Steps, UnixSteps, WindowsSteps
  <2>2. hand[p] \notin Segments
    BY <2>0 DEF HandInv, HasHand
  <2>3. HandInv' /\ SoleInv'
    BY <2>0, <2>2 DEF TypeOK, HandInv, SoleInv, HasHand, MadeHand
  <2>4. NamedInv'
    BY <2>0, <2>2 DEF TypeOK, NamedInv
  <2>5. NetworkIsWhole'
    BY <2>0 DEF TypeOK, IdleInv, NetworkIsWhole
  <2>. QED BY <2>1, <2>3, <2>4, <2>5
<1>2. CASE OpenSecond(p)
  <2>1. TypeOK' /\ PlatformInv' /\ IdleInv'
    BY <1>2 DEF OpenSecond, Begin, TypeOK, PlatformInv, IdleInv, Steps, UnixSteps, WindowsSteps
  <2>2. HandInv' /\ SoleInv'
    BY <1>2 DEF OpenSecond, Begin, TypeOK, PlatformInv, HandInv, SoleInv, HasHand, MadeHand
  <2>3. NamedInv' /\ NetworkIsWhole'
    BY <1>2 DEF OpenSecond, Begin, TypeOK, PlatformInv, HandInv, NamedInv, NetworkIsWhole, HasHand
  <2>. QED BY <2>1, <2>2, <2>3
<1>3. CASE Fail(p)
  <2>1. TypeOK' /\ PlatformInv' /\ IdleInv'
    BY <1>3 DEF Fail, Reclaim, Referenced, TypeOK, PlatformInv, IdleInv, Steps, UnixSteps, WindowsSteps
  <2>2. HandInv' /\ SoleInv'
    BY <1>3 DEF Fail, Reclaim, Referenced, TypeOK, PlatformInv, HandInv, SoleInv, HasHand, MadeHand
  <2>3. NamedInv' /\ NetworkIsWhole'
    BY <1>3 DEF Fail, Reclaim, Referenced, TypeOK, PlatformInv, HandInv, NamedInv, NetworkIsWhole, HasHand
  <2>. QED BY <2>1, <2>2, <2>3
<1>4. CASE Fallback(p)
  <2>1. TypeOK' /\ PlatformInv' /\ IdleInv'
    BY <1>4 DEF Fallback, TypeOK, PlatformInv, IdleInv, Steps, UnixSteps, WindowsSteps
  <2>2. HandInv' /\ SoleInv'
    BY <1>4 DEF Fallback, TypeOK, PlatformInv, HandInv, SoleInv, HasHand, MadeHand
  <2>3. NamedInv' /\ NetworkIsWhole'
    BY <1>4 DEF Fallback, TypeOK, PlatformInv, HandInv, NamedInv, NetworkIsWhole, HasHand
  <2>. QED BY <2>1, <2>2, <2>3
<1>. QED BY <1>1, <1>2, <1>3, <1>4

\* The names of segments that are still referenced stay.
LEMMA NamesReclaimed ==
    ASSUME IInv, Reclaim, platform' = platform,
           \A q \in Processes : hand'[q] \in Segments =>
             hand'[q] = hand[q] /\ network'[q] = network[q]
    PROVE  NamedInv'
<1>. USE DEF IInv, Windows
<1>1. ASSUME NEW n \in Networks
      PROVE  named'[n] \in Segments =>
               named'[n] = named[n] /\ memory'[named[n]] = memory[named[n]]
  BY SharingAssumption DEF Reclaim, TypeOK
<1>2. ASSUME NEW q \in Processes, hand'[q] \in Segments, Windows
      PROVE  named'[network'[q]] = hand'[q]
  <2>1. named[network[q]] = hand[q] /\ network[q] \in Networks
    BY <1>2 DEF NamedInv, TypeOK
  <2>2. Referenced(hand[q])'
    BY <1>2 DEF Referenced
  <2>. QED BY <1>2, <2>1, <2>2 DEF Reclaim
<1>. QED BY <1>1, <1>2 DEF NamedInv

\* The end of instances and of processes.
LEMMA StepsThatEnd ==
    ASSUME IInv, NEW p \in Processes,
           \/ Clear(p) \/ Unlink(p) \/ Unmap(p) \/ Crash(p) \/ Exit(p)
    PROVE  IInv'
<1>. USE SharingAssumption DEF IInv, Windows, Slots, Contents, Unwritten, Goto, dir,
                               at, holdings, inquiry, mutexes, history
<1>1. CASE Clear(p)
  <2>1. TypeOK' /\ PlatformInv' /\ IdleInv'
    BY <1>1 DEF Clear, TypeOK, PlatformInv, IdleInv, Steps, UnixSteps, WindowsSteps
  <2>2. HandInv' /\ SoleInv'
    BY <1>1 DEF Clear, TypeOK, PlatformInv, HandInv, SoleInv, HasHand, MadeHand
  <2>3. NamedInv' /\ NetworkIsWhole'
    BY <1>1 DEF Clear, TypeOK, PlatformInv, HandInv, NamedInv, NetworkIsWhole, HasHand
  <2>. QED BY <2>1, <2>2, <2>3
<1>2. CASE Unlink(p)
  <2>1. TypeOK' /\ PlatformInv' /\ IdleInv'
    BY <1>2 DEF Unlink, TypeOK, PlatformInv, IdleInv, Steps, UnixSteps, WindowsSteps
  <2>2. HandInv' /\ SoleInv'
    BY <1>2 DEF Unlink, TypeOK, PlatformInv, HandInv, SoleInv, HasHand, MadeHand
  <2>3. NamedInv' /\ NetworkIsWhole'
    BY <1>2 DEF Unlink, TypeOK, PlatformInv, HandInv, NamedInv, NetworkIsWhole, HasHand
  <2>. QED BY <2>1, <2>2, <2>3
<1>3. CASE Unmap(p)
  <2>1. TypeOK' /\ PlatformInv' /\ IdleInv'
    BY <1>3 DEF Unmap, Last, Reclaim, Referenced, TypeOK, PlatformInv, IdleInv, Steps, UnixSteps, WindowsSteps
  <2>2. HandInv' /\ SoleInv'
    BY <1>3 DEF Unmap, Last, Reclaim, Referenced, TypeOK, PlatformInv, HandInv, SoleInv, HasHand, MadeHand
  <2>3. NamedInv'
    <3>1. \A q \in Processes : hand'[q] \in Segments =>
            hand'[q] = hand[q] /\ network'[q] = network[q]
      BY <1>3 DEF Unmap, TypeOK
    <3>. QED BY <1>3, <3>1, NamesReclaimed DEF Unmap
  <2>4. NetworkIsWhole'
    BY <1>3 DEF Unmap, Last, Reclaim, Referenced, TypeOK, NetworkIsWhole
  <2>. QED BY <2>1, <2>2, <2>3, <2>4
<1>4. CASE Crash(p)
  <2>1. TypeOK' /\ PlatformInv' /\ IdleInv'
    BY <1>4 DEF Crash, Ends, Reclaim, Referenced, TypeOK, PlatformInv, IdleInv, Steps, UnixSteps, WindowsSteps
  <2>2. HandInv' /\ SoleInv'
    BY <1>4 DEF Crash, Ends, Reclaim, Referenced, TypeOK, PlatformInv, HandInv, SoleInv, HasHand, MadeHand
  <2>3. NamedInv'
    <3>1. \A q \in Processes : hand'[q] \in Segments =>
            hand'[q] = hand[q] /\ network'[q] = network[q]
      BY <1>4 DEF Crash, Ends, TypeOK
    <3>. QED BY <1>4, <3>1, NamesReclaimed DEF Crash, Ends
  <2>4. NetworkIsWhole'
    BY <1>4 DEF Crash, Ends, Reclaim, Referenced, TypeOK, NetworkIsWhole
  <2>. QED BY <2>1, <2>2, <2>3, <2>4
<1>5. CASE Exit(p)
  <2>1. TypeOK' /\ PlatformInv' /\ IdleInv'
    BY <1>5 DEF Exit, Ends, Reclaim, Referenced, TypeOK, PlatformInv, IdleInv, Steps, UnixSteps, WindowsSteps
  <2>2. HandInv' /\ SoleInv'
    BY <1>5 DEF Exit, Ends, Reclaim, Referenced, TypeOK, PlatformInv, HandInv, SoleInv, HasHand, MadeHand
  <2>3. NamedInv'
    <3>1. \A q \in Processes : hand'[q] \in Segments =>
            hand'[q] = hand[q] /\ network'[q] = network[q]
      BY <1>5 DEF Exit, Ends, TypeOK
    <3>. QED BY <1>5, <3>1, NamesReclaimed DEF Exit, Ends
  <2>4. NetworkIsWhole'
    BY <1>5 DEF Exit, Ends, Reclaim, Referenced, TypeOK, NetworkIsWhole
  <2>. QED BY <2>1, <2>2, <2>3, <2>4
<1>. QED BY <1>1, <1>2, <1>3, <1>4, <1>5

LEMMA StepInv == IInv /\ [Next]_vars => IInv'
<1>. SUFFICES ASSUME IInv, [Next]_vars PROVE IInv' OBVIOUS
<1>1. ASSUME NEW p \in Processes, OpenStep(p) PROVE IInv'
  BY <1>1, StepsThatAsk, StepsThatMap, StepsOnWindows, StepsThatStart DEF OpenStep
<1>2. ASSUME NEW p \in Processes, NEW n \in Networks, Open(p, n) PROVE IInv'
  BY <1>2, StepsThatStart
<1>3. ASSUME NEW p \in Processes, OpenSecond(p) \/ Clear(p) \/ ClearStep(p) \/ Crash(p) \/ Exit(p)
      PROVE  IInv'
  BY <1>3, StepsThatStart, StepsThatEnd DEF ClearStep
<1>4. CASE UNCHANGED vars
  BY <1>4
  DEF vars, at, holdings, inquiry, IInv, TypeOK, PlatformInv, IdleInv, HandInv, SoleInv, NamedInv,
      NetworkIsWhole, HasHand, MadeHand, Windows
<1>. QED BY <1>1, <1>2, <1>3, <1>4 DEF Next

\* Every reachable state is well typed, for any numbers of processes, networks
\* and segments.
THEOREM TypeCorrect == Spec => []TypeOK
<1>1. Init => IInv
  BY InitInv
<1>2. IInv /\ [Next]_vars => IInv'
  BY StepInv
<1>3. IInv => TypeOK
  BY DEF IInv
<1>. QED BY <1>1, <1>2, <1>3, PTL DEF Spec

\* No search reads weights that are not the whole network it asked for, whichever
\* process died while it wrote or served them.
THEOREM WeightsAreWhole == Spec => []NetworkIsWhole
<1>1. Init => IInv
  BY InitInv
<1>2. IInv /\ [Next]_vars => IInv'
  BY StepInv
<1>3. IInv => NetworkIsWhole
  BY DEF IInv
<1>. QED BY <1>1, <1>2, <1>3, PTL DEF Spec

\* Nobody but its creator has a segment that is still to be written (Unix).
THEOREM CreatorsWriteAlone == Spec => []SoleInv
<1>1. Init => IInv
  BY InitInv
<1>2. IInv /\ [Next]_vars => IInv'
  BY StepInv
<1>3. IInv => SoleInv
  BY DEF IInv
<1>. QED BY <1>1, <1>2, <1>3, PTL DEF Spec
----------------------------------------------------------------------------
(* One segment for each network.                                             *)
(*                                                                           *)
(* Under Unix a process looks for the segment under the lock of the          *)
(* network's directory, and gives the lock up when its own socket is served. *)
(* So the invariant is about the directory: whoever has a share in the       *)
(* network can be found there, all that can be found share one segment, and  *)
(* what the holder of the lock has found so far is that segment.             *)

\* An instance is opened in a slot that is free, the first one before the second.
OpeningInv ==
  \A p \in Processes :
    pc[p] \notin {"out", "cleared", "running", "unlink", "unmap"} =>
      instances[p][slot[p]] = NoSegment /\ instances[p]["second"] = NoSegment

\* Who searches or fills a directory has its lock.
Searching == {"scan", "ask", "receive", "map", "write", "bind", "serve"}
LockInv ==
  /\ initLock \in [Networks -> Processes \cup {Nobody}]
  /\ peers \in [Processes -> SUBSET Processes]
  /\ ~Windows => \A p \in Processes : pc[p] \in Searching => initLock[network[p]] = p

\* Process q has a share of n that can be found in n's directory.
Shares(q) == \E i \in Slots : instances[q][i] \in Segments
Listed(q, n) == network[q] = n /\ Shares(q) /\ sockets[n][q] # NoSocket

\* Whoever has a share is listed until it clears its instances or somebody who
\* missed it removes its path, and whom a socket leads to listens on it.
ListedInv ==
  ~Windows =>
    \A q \in Processes :
      /\ pc[q] = "failed" /\ slot[q] = "second" => failed
      /\ pc[q] = "serve" => sockets[network[q]][q] = slot[q]
      /\ pc[q] = "unmap" /\ instances[q][slot[q]] \in Segments => sockets[network[q]][q] = NoSocket
      /\ ~missed /\ ~failed /\ Shares(q) =>
           /\ pc[q] \notin {"unlink", "unmap"} => sockets[network[q]][q] # NoSocket
           /\ sockets[network[q]][q] # NoSocket /\ pc[q] # "serve" =>
                instances[q][sockets[network[q]][q]] \in Segments

\* All that are listed for n have segment s.
OnlyShare(n, s) ==
  \A q \in Processes, i \in Slots :
    Listed(q, n) /\ instances[q][i] \in Segments => instances[q][i] = s

SharedInv == \A n \in Networks : \E s \in Segments \cup {NoSegment} : OnlyShare(n, s)

\* Whoever is listed has been asked, or will be, before a segment is created.
HasAsked(p) ==
  \A q \in Processes : Listed(q, network[p]) =>
    /\ pc[p] = "ask" => q \in peers[p]
    /\ pc[p] = "receive" => q \in peers[p] \/ q = asked[p][1]

\* What the holder of the lock has found is what all share.
HasFound(p) ==
  /\ pc[p] = "receive" =>
       /\ sockets[network[p]][asked[p][1]] \in {asked[p][2], NoSocket}
       /\ PeerListens(p) => OnlyShare(network[p], instances[asked[p][1]][asked[p][2]])
  /\ pc[p] \in {"map", "write", "bind", "serve"} => OnlyShare(network[p], hand[p])

DirectoryInv ==
  ~Windows /\ ~missed /\ ~failed =>
    SharedInv /\ \A p \in Processes : HasAsked(p) /\ HasFound(p)

\* On Windows the system finds the segment by its name.
NameInv ==
  Windows => \A p \in Processes, i \in Slots :
    instances[p][i] \in Segments => named[network[p]] = instances[p][i]

ShareInv == OpeningInv /\ LockInv /\ ListedInv /\ DirectoryInv /\ NameInv

\* The share-holders a directory leads to can only become fewer, and what the
\* others know of it stays as it was.
Unshared(p) ==
  /\ platform' = platform /\ (missed => missed') /\ (failed => failed')
  /\ \A q \in Processes, n \in Networks : Listed(q, n)' => Listed(q, n)
  /\ \A q \in Processes, i \in Slots : instances'[q][i] \in Segments =>
       instances[q][i] = instances'[q][i] /\ network[q] = network'[q]
  /\ \A q \in Processes \ {p} :
       /\ pc'[q] = pc[q] /\ network'[q] = network[q] /\ hand'[q] = hand[q]
       /\ peers'[q] = peers[q] /\ asked'[q] = asked[q]
       /\ pc[q] = "receive" => \A r \in Processes :
            sockets'[network[q]][r] \in {sockets[network[q]][r], NoSocket}

\* Fewer that are listed still have the one segment.
LEMMA FewerShare ==
    ASSUME NEW p \in Processes, Unshared(p), NEW n \in Networks, NEW s, OnlyShare(n, s)
    PROVE  OnlyShare(n, s)'
BY DEF Unshared, OnlyShare

\* Then all the others still have asked whom they must, and found what they may.
LEMMA OthersKeepTheirFindings ==
    ASSUME IInv, DirectoryInv, NEW p \in Processes, Unshared(p),
           ~Windows /\ ~missed' /\ ~failed' => HasAsked(p)' /\ HasFound(p)'
    PROVE  DirectoryInv'
<1>1. SUFFICES ASSUME ~Windows', ~missed', ~failed'
               PROVE  SharedInv' /\ \A q \in Processes : HasAsked(q)' /\ HasFound(q)'
  BY DEF DirectoryInv
<1>2. /\ ~Windows /\ ~missed /\ ~failed
      /\ SharedInv /\ \A q \in Processes : HasAsked(q) /\ HasFound(q)
  BY <1>1 DEF Unshared, Windows, DirectoryInv
<1>3. SharedInv'
  BY <1>2, FewerShare DEF SharedInv
<1>4. ASSUME NEW q \in Processes, q # p
      PROVE  HasAsked(q)' /\ HasFound(q)'
  <2>1. /\ pc'[q] = pc[q] /\ network'[q] = network[q] /\ hand'[q] = hand[q]
        /\ peers'[q] = peers[q] /\ asked'[q] = asked[q] /\ network[q] \in Networks
    BY <1>4 DEF Unshared, IInv, TypeOK
  <2>2. HasAsked(q)'
    BY <1>2, <2>1 DEF HasAsked, Unshared
  <2>3. ASSUME pc[q] = "receive"
        PROVE  /\ (sockets[network[q]][asked[q][1]] \in {asked[q][2], NoSocket})'
               /\ PeerListens(q)' =>
                    OnlyShare(network[q], instances[asked[q][1]][asked[q][2]])'
    <3>1. asked[q][1] \in Processes /\ asked[q][2] \in Slots
      BY <2>3 DEF IInv, TypeOK
    <3>2. (sockets[network[q]][asked[q][1]] \in {asked[q][2], NoSocket})'
      BY <1>2, <1>4, <2>1, <2>3, <3>1 DEF HasFound, Unshared
    <3>3. ASSUME PeerListens(q)'
          PROVE  OnlyShare(network[q], instances[asked[q][1]][asked[q][2]])'
      <4>1. /\ PeerListens(q)
            /\ instances'[asked'[q][1]][asked'[q][2]] = instances[asked[q][1]][asked[q][2]]
        BY <2>1, <3>1, <3>3 DEF PeerListens, Listens, Unshared, dir
      <4>2. OnlyShare(network[q], instances[asked[q][1]][asked[q][2]])
        BY <1>2, <2>3, <4>1 DEF HasFound
      <4>. QED BY <2>1, <4>1, <4>2 DEF OnlyShare, Unshared
    <3>. QED BY <3>2, <3>3
  <2>4. (pc[q] \in {"map", "write", "bind", "serve"} => OnlyShare(network[q], hand[q]))'
    BY <1>2, <2>1 DEF HasFound, OnlyShare, Unshared
  <2>. QED BY <2>1, <2>2, <2>3, <2>4 DEF HasFound
<1>. QED BY <1>1, <1>2, <1>3, <1>4 DEF Unshared, Windows

\* A process outside of the search has nothing to keep.
LEMMA NothingFound ==
    ASSUME IInv, DirectoryInv, NEW p \in Processes, Unshared(p),
           pc'[p] \notin {"ask", "receive", "map", "write", "bind", "serve"}
    PROVE  DirectoryInv'
<1>1. HasAsked(p)' /\ HasFound(p)'
  BY DEF HasAsked, HasFound
<1>. QED BY <1>1, OthersKeepTheirFindings

\* From the lock to a peer that answers.
LEMMA SharesWhileAsking ==
    ASSUME IInv, ShareInv, NEW p \in Processes,
           \/ WaitForInitLock(p) \/ GetPeerSockets(p)
           \/ (\E q \in Processes : Connect(p, q)) \/ GiveUpPeer(p) \/ Receive(p)
    PROVE  ShareInv'
<1>. USE SharingAssumption DEF IInv, ShareInv, Windows, Slots, Goto, dir,
                               at, holdings, inquiry, mutexes, history
<1>1. CASE WaitForInitLock(p)
  <2>1. OpeningInv' /\ LockInv'
    BY <1>1 DEF WaitForInitLock, TypeOK, OpeningInv, LockInv, Searching
  <2>2. ListedInv' /\ NameInv'
    BY <1>1 DEF WaitForInitLock, TypeOK, ListedInv, NameInv, Shares
  <2>3. Unshared(p) /\ pc'[p] = "scan"
    BY <1>1 DEF WaitForInitLock, TypeOK, Unshared, Listed, Shares
  <2>. QED BY <2>1, <2>2, <2>3, NothingFound
<1>2. CASE GetPeerSockets(p)
  <2>1. OpeningInv' /\ LockInv'
    BY <1>2 DEF GetPeerSockets, TypeOK, OpeningInv, LockInv, Searching
  <2>2. ListedInv' /\ NameInv'
    BY <1>2 DEF GetPeerSockets, TypeOK, ListedInv, NameInv, Shares
  <2>3. Unshared(p)
    <3>1. /\ UNCHANGED <<network, instances, hand, asked, sockets, platform, failed>>
          /\ \A q \in Processes \ {p} : pc'[q] = pc[q] /\ peers'[q] = peers[q]
          /\ missed => missed'
      BY <1>2 DEF GetPeerSockets, TypeOK, LockInv
    <3>. QED BY <3>1 DEF Unshared, Listed, Shares
  <2>4. ASSUME ~Windows, ~missed', ~failed' PROVE HasAsked(p)' /\ HasFound(p)'
    <3>1. PICK listed \in SUBSET {q \in Processes : sockets[network[p]][q] # NoSocket} :
            /\ peers' = [peers EXCEPT ![p] = listed]
            /\ \A q \in Processes :
                 sockets[network[p]][q] # NoSocket /\ q \notin listed => ~Answers(q, network[p])
      BY <1>2, <2>4 DEF GetPeerSockets
    <3>2. /\ pc[p] = "scan" /\ pc'[p] = "ask" /\ peers'[p] = listed /\ ~missed /\ ~failed
          /\ UNCHANGED <<network, instances, sockets>>
      BY <1>2, <2>4, <3>1 DEF GetPeerSockets, TypeOK, LockInv
    <3>3. ASSUME NEW q \in Processes, Listed(q, network[p]) PROVE q \in listed
      <4>1. pc[q] # "serve"
        BY <2>4, <3>2, <3>3 DEF LockInv, Searching, Listed
      <4>2. Answers(q, network[p])
        BY <2>4, <3>2, <3>3, <4>1 DEF ListedInv, Listed, Answers, Listens
      <4>. QED BY <3>1, <3>3, <4>2 DEF Listed
    <3>. QED BY <3>2, <3>3 DEF HasAsked, HasFound, Listed, Shares
  <2>. QED BY <2>1, <2>2, <2>3, <2>4, OthersKeepTheirFindings
<1>3. ASSUME NEW q \in Processes, Connect(p, q) PROVE ShareInv'
  <2>0. /\ pc[p] = "ask" /\ q \in peers[p] /\ peers' = [peers EXCEPT ![p] = @ \ {q}]
        /\ UNCHANGED <<network, slot, instances, hand, creator, memory, named, platform, initLock,
                       failed>>
        /\ (missed => missed') /\ ~Windows /\ network[p] \in Networks
    BY <1>3 DEF Connect, PlatformInv, UnixSteps, TypeOK
  <2>1. CASE /\ sockets[network[p]][q] \in Slots /\ Listens(q, sockets[network[p]][q], network[p])
             /\ pc' = [pc EXCEPT ![p] = "receive"] /\ UNCHANGED sockets
             /\ asked' = [asked EXCEPT ![p] = <<q, sockets[network[p]][q]>>] /\ missed' = missed
    <3>1. OpeningInv' /\ LockInv'
      BY <2>0, <2>1 DEF TypeOK, OpeningInv, LockInv, Searching
    <3>2. ListedInv' /\ NameInv'
      BY <2>0, <2>1 DEF TypeOK, ListedInv, NameInv, Shares
    <3>3. Unshared(p)
      BY <2>0, <2>1 DEF TypeOK, Unshared, Listed, Shares
    <3>4. ASSUME ~missed', ~failed' PROVE HasAsked(p)' /\ HasFound(p)'
      <4>1. SharedInv /\ HasAsked(p)
        BY <2>0, <3>4 DEF DirectoryInv
      <4>2. asked'[p][1] = q /\ asked'[p][2] = sockets[network[p]][q] /\ pc'[p] = "receive"
        BY <2>1 DEF TypeOK
      <4>3. HasAsked(p)'
        BY <2>0, <2>1, <4>1, <4>2 DEF TypeOK, HasAsked, Listed, Shares
      <4>4. OnlyShare(network[p], instances[q][sockets[network[p]][q]])
        BY <2>0, <2>1, <4>1 DEF SharedInv, OnlyShare, Listed, Shares, Listens
      <4>5. OnlyShare(network[p], instances[q][sockets[network[p]][q]])'
        BY <2>0, <2>1, <4>4 DEF OnlyShare, Listed, Shares
      <4>. QED BY <2>0, <2>1, <4>2, <4>3, <4>5 DEF HasFound
    <3>. QED BY <3>1, <3>2, <3>3, <3>4, OthersKeepTheirFindings
  <2>2. CASE /\ sockets' \in {sockets, [sockets EXCEPT ![network[p]][q] = NoSocket]}
             /\ UNCHANGED <<pc, asked>> /\ (~missed' => ~Answers(q, network[p]))
    <3>1. OpeningInv' /\ LockInv' /\ NameInv'
      BY <2>0, <2>2 DEF TypeOK, OpeningInv, LockInv, NameInv
    <3>2. pc[q] # "serve" \/ network[q] # network[p]
      BY <2>0 DEF LockInv, Searching
    <3>3. ListedInv'
      <4>1. CASE sockets' = sockets
        BY <2>0, <2>2, <4>1 DEF ListedInv, Shares
      <4>2. CASE sockets' = [sockets EXCEPT ![network[p]][q] = NoSocket]
        BY <2>0, <2>2, <3>2, <4>2 DEF TypeOK, ListedInv, Shares, Answers, Listens
      <4>. QED BY <2>2, <4>1, <4>2
    <3>4. Unshared(p)
      <4>1. \A r \in Processes, n \in Networks : sockets'[n][r] \in {sockets[n][r], NoSocket}
        <5>1. sockets \in [Networks -> [Processes -> Slots \cup {NoSocket}]]
          BY DEF TypeOK
        <5>2. CASE sockets' = sockets
          BY <5>2
        <5>3. CASE sockets' = [sockets EXCEPT ![network[p]][q] = NoSocket]
          BY <5>1, <5>3
        <5>. QED BY <2>2, <5>2, <5>3
      <4>2. \A r \in Processes \ {p} : peers'[r] = peers[r]
        BY <2>0 DEF LockInv
      <4>3. \A r \in Processes : network[r] \in Networks
        BY DEF TypeOK
      <4>. QED BY <2>0, <2>2, <4>1, <4>2, <4>3 DEF Unshared, Listed, Shares
    <3>5. ASSUME ~missed', ~failed' PROVE HasAsked(p)' /\ HasFound(p)'
      <4>1. HasAsked(p) /\ ~missed /\ ~failed
        BY <2>0, <3>5 DEF DirectoryInv
      <4>2. ~Listed(q, network[p])
        BY <2>0, <2>2, <3>2, <3>5, <4>1 DEF TypeOK, ListedInv, Listed, Answers, Listens
      <4>3. \A r \in Processes : Listed(r, network[p])' => Listed(r, network[p]) /\ r # q
        BY <2>0, <3>4, <4>2 DEF Unshared
      <4>. QED BY <2>0, <2>2, <4>1, <4>3 DEF TypeOK, HasAsked, HasFound
    <3>. QED BY <3>1, <3>3, <3>4, <3>5, OthersKeepTheirFindings
  <2>3. sockets[network[p]][q] \in Slots \cup {NoSocket}
    BY DEF TypeOK
  <2>. QED BY <1>3, <2>1, <2>2, <2>3 DEF Connect, Answers
<1>4. CASE GiveUpPeer(p)
  <2>0. /\ pc[p] = "receive" /\ pc' = [pc EXCEPT ![p] = "ask"]
        /\ missed' = (missed \/ PeerListens(p)) /\ asked' = [asked EXCEPT ![p] = NoSocket]
        /\ UNCHANGED <<network, slot, instances, hand, peers, named, sockets, initLock, platform, failed>>
        /\ ~Windows /\ asked[p][1] \in Processes /\ asked[p][2] \in Slots /\ network[p] \in Networks
    BY <1>4 DEF GiveUpPeer, PlatformInv, UnixSteps, TypeOK
  <2>1. OpeningInv' /\ LockInv'
    BY <2>0 DEF TypeOK, OpeningInv, LockInv, Searching
  <2>2. ListedInv' /\ NameInv'
    BY <2>0 DEF TypeOK, ListedInv, NameInv, Shares
  <2>3. Unshared(p)
    BY <2>0 DEF TypeOK, Unshared, Listed, Shares
  <2>4. ASSUME ~missed', ~failed' PROVE HasAsked(p)' /\ HasFound(p)'
    <3>1. ~PeerListens(p) /\ HasAsked(p) /\ HasFound(p)
      BY <2>0, <2>4 DEF DirectoryInv
    <3>2. ~Listed(asked[p][1], network[p])
      <4>1. SUFFICES ASSUME Listed(asked[p][1], network[p]) PROVE FALSE
        OBVIOUS
      <4>2. sockets[network[p]][asked[p][1]] = asked[p][2]
        BY <2>0, <3>1, <4>1 DEF HasFound, Listed
      <4>3. pc[asked[p][1]] # "serve"
        BY <2>0, <4>1 DEF LockInv, Searching, Listed
      <4>. QED BY <2>0, <2>4, <3>1, <4>1, <4>2, <4>3 DEF ListedInv, Listed, PeerListens, Listens
    <3>. QED BY <2>0, <3>1, <3>2 DEF TypeOK, HasAsked, HasFound, Listed, Shares
  <2>. QED BY <2>1, <2>2, <2>3, <2>4, OthersKeepTheirFindings
<1>5. CASE Receive(p)
  <2>0. /\ pc[p] = "receive" /\ pc' = [pc EXCEPT ![p] = "map"] /\ PeerListens(p)
        /\ hand' = [hand EXCEPT ![p] = instances[asked[p][1]][asked[p][2]]]
        /\ asked' = [asked EXCEPT ![p] = NoSocket]
        /\ UNCHANGED <<network, slot, instances, peers, named, sockets, initLock, platform, missed, failed>>
        /\ ~Windows /\ network[p] \in Networks
    BY <1>5 DEF Receive, PlatformInv, UnixSteps, TypeOK
  <2>1. OpeningInv' /\ LockInv'
    BY <2>0 DEF TypeOK, OpeningInv, LockInv, Searching
  <2>2. ListedInv' /\ NameInv'
    BY <2>0 DEF TypeOK, ListedInv, NameInv, Shares
  <2>3. Unshared(p)
    BY <2>0 DEF TypeOK, Unshared, Listed, Shares
  <2>4. ASSUME ~missed', ~failed' PROVE HasAsked(p)' /\ HasFound(p)'
    <3>1. HasFound(p)
      BY <2>0, <2>4 DEF DirectoryInv
    <3>. QED BY <2>0, <3>1 DEF TypeOK, HasAsked, HasFound, OnlyShare, Listed, Shares
  <2>. QED BY <2>1, <2>2, <2>3, <2>4, OthersKeepTheirFindings
<1>. QED BY <1>1, <1>2, <1>3, <1>4, <1>5

\* From the segment in hand to the instance.
LEMMA SharesWhileMapping ==
    ASSUME IInv, ShareInv, NEW p \in Processes,
           \/ Create(p) \/ Map(p) \/ Write(p) \/ Bind(p) \/ Serve(p)
    PROVE  ShareInv'
<1>. USE SharingAssumption DEF IInv, ShareInv, Windows, Slots, Goto, dir,
                               at, holdings, inquiry, mutexes, history
<1>1. CASE Create(p)
  <2>0. /\ pc[p] = "ask" /\ pc' = [pc EXCEPT ![p] = "map"] /\ peers[p] = {}
        /\ UNCHANGED <<network, slot, instances, peers, asked, named, sockets, initLock, platform,
                       missed, failed>>
        /\ \E s \in Segments : hand' = [hand EXCEPT ![p] = s]
        /\ ~Windows /\ network[p] \in Networks
    BY <1>1 DEF Create, NewSegment, PlatformInv, UnixSteps, TypeOK
  <2>1. OpeningInv' /\ LockInv'
    BY <2>0 DEF TypeOK, OpeningInv, LockInv, Searching
  <2>2. ListedInv' /\ NameInv'
    BY <2>0 DEF TypeOK, ListedInv, NameInv, Shares
  <2>3. Unshared(p)
    BY <2>0 DEF TypeOK, Unshared, Listed, Shares
  <2>4. ASSUME ~missed', ~failed' PROVE HasAsked(p)' /\ HasFound(p)'
    <3>1. \A q \in Processes : ~Listed(q, network[p])
      BY <2>0, <2>4 DEF DirectoryInv, HasAsked
    <3>2. \A q \in Processes : ~Listed(q, network[p])'
      BY <2>0, <3>1 DEF Listed, Shares
    <3>3. pc'[p] = "map"
      BY <2>0 DEF TypeOK
    <3>. QED BY <2>0, <3>2, <3>3 DEF HasAsked, HasFound, OnlyShare
  <2>. QED BY <2>1, <2>2, <2>3, <2>4, OthersKeepTheirFindings
<1>2. CASE Map(p) \/ Write(p)
  <2>0. /\ pc[p] \in {"map", "write"} /\ pc'[p] \in {"map", "write", "bind", "release"}
        /\ \E c \in Steps : pc' = [pc EXCEPT ![p] = c]
        /\ UNCHANGED <<network, slot, instances, hand, peers, asked, named, sockets, initLock, platform,
                       missed, failed>>
        /\ pc'[p] = "release" => Windows
    BY <1>2 DEF Map, Write, TypeOK, Steps
  <2>1. OpeningInv' /\ LockInv'
    BY <2>0 DEF TypeOK, OpeningInv, LockInv, Searching
  <2>2. ListedInv' /\ NameInv'
    BY <2>0 DEF TypeOK, ListedInv, NameInv, Shares
  <2>3. Unshared(p)
    BY <2>0 DEF TypeOK, Unshared, Listed, Shares
  <2>4. ASSUME ~Windows, ~missed', ~failed' PROVE HasAsked(p)' /\ HasFound(p)'
    <3>1. OnlyShare(network[p], hand[p])
      BY <2>0, <2>4 DEF DirectoryInv, HasFound
    <3>2. OnlyShare(network[p], hand[p])'
      BY <2>0, <3>1 DEF OnlyShare, Listed, Shares
    <3>. QED BY <2>0, <3>2 DEF HasAsked, HasFound
  <2>. QED BY <2>1, <2>2, <2>3, <2>4, OthersKeepTheirFindings
<1>3. CASE Bind(p)
  <2>0. /\ pc[p] = "bind" /\ pc' = [pc EXCEPT ![p] = "serve"]
        /\ sockets' = [sockets EXCEPT ![network[p]][p] = slot[p]]
        /\ UNCHANGED <<network, slot, instances, hand, peers, asked, named, initLock, platform,
                       missed, failed>>
        /\ ~Windows /\ network[p] \in Networks
    BY <1>3 DEF Bind, PlatformInv, UnixSteps, TypeOK
  <2>1. OpeningInv' /\ LockInv' /\ NameInv'
    BY <2>0 DEF TypeOK, OpeningInv, LockInv, NameInv, Searching
  <2>2. ListedInv'
    BY <2>0 DEF TypeOK, ListedInv, Shares
  <2>3. CASE missed \/ failed
    BY <2>0, <2>1, <2>2, <2>3 DEF DirectoryInv
  <2>4. CASE ~missed /\ ~failed
    <3>1. Shares(p) => sockets[network[p]][p] # NoSocket
      BY <2>0, <2>4 DEF ListedInv
    <3>2. \A q \in Processes, n \in Networks : Listed(q, n)' => Listed(q, n)
      BY <2>0, <3>1 DEF TypeOK, Listed, Shares
    <3>3. \A q \in Processes \ {p} : pc[q] = "receive" => network[q] # network[p]
      BY <2>0 DEF LockInv, Searching
    <3>4. Unshared(p)
      BY <2>0, <3>2, <3>3 DEF TypeOK, Unshared
    <3>5. ASSUME ~missed', ~failed' PROVE HasAsked(p)' /\ HasFound(p)'
      <4>1. OnlyShare(network[p], hand[p])
        BY <2>0, <3>5 DEF DirectoryInv, HasFound
      <4>2. OnlyShare(network[p], hand[p])'
        BY <2>0, <3>2, <4>1 DEF OnlyShare
      <4>. QED BY <2>0, <4>2 DEF TypeOK, HasAsked, HasFound
    <3>. QED BY <2>1, <2>2, <3>4, <3>5, OthersKeepTheirFindings
  <2>. QED BY <2>3, <2>4
<1>4. CASE Serve(p)
  <2>0. /\ pc[p] = "serve" /\ pc' = [pc EXCEPT ![p] = "running"]
        /\ instances' = [instances EXCEPT ![p][slot[p]] = hand[p]]
        /\ hand' = [hand EXCEPT ![p] = NoSegment]
        /\ initLock' = [initLock EXCEPT ![network[p]] = Nobody]
        /\ UNCHANGED <<network, slot, peers, asked, named, sockets, platform, missed, failed>>
        /\ ~Windows /\ network[p] \in Networks /\ hand[p] \in Segments /\ slot[p] \in Slots
    BY <1>4 DEF Serve, Hold, PlatformInv, UnixSteps, TypeOK, HandInv, HasHand
  <2>1. OpeningInv' /\ LockInv' /\ NameInv'
    BY <2>0 DEF TypeOK, OpeningInv, LockInv, NameInv, Searching
  <2>2. ListedInv'
    BY <2>0 DEF TypeOK, ListedInv, Shares
  <2>3. ASSUME ~missed', ~failed'
        PROVE  SharedInv' /\ \A q \in Processes : HasAsked(q)' /\ HasFound(q)'
    <3>1. SharedInv /\ \A q \in Processes : HasAsked(q) /\ HasFound(q)
      BY <2>0, <2>3 DEF DirectoryInv
    <3>2. \A q \in Processes, n \in Networks : n # network[p] => (Listed(q, n)' <=> Listed(q, n))
      BY <2>0 DEF TypeOK, Listed, Shares
    <3>3. ASSUME NEW n \in Networks, n # network[p], NEW s, OnlyShare(n, s)
          PROVE  OnlyShare(n, s)'
      BY <2>0, <3>2, <3>3 DEF TypeOK, OnlyShare, Listed
    <3>4. ASSUME NEW s \in Segments, s = hand[p]
          PROVE  OnlyShare(network[p], s)'
      <4>1. OnlyShare(network[p], hand[p])
        BY <2>0, <3>1 DEF HasFound
      <4>2. Shares(p) => Listed(p, network[p])
        BY <2>0, <2>3 DEF ListedInv, Listed
      <4>3. \A q \in Processes \ {p} : Listed(q, network[p])' => Listed(q, network[p])
        BY <2>0 DEF TypeOK, Listed, Shares
      <4>4. \A q \in Processes \ {p}, i \in Slots :
              Listed(q, network[p])' /\ instances'[q][i] \in Segments => instances'[q][i] = hand[p]
        BY <2>0, <4>1, <4>3 DEF TypeOK, OnlyShare
      <4>5. \A i \in Slots : instances'[p][i] \in Segments => instances'[p][i] = hand[p]
        BY <2>0, <4>1, <4>2 DEF TypeOK, OnlyShare, Shares
      <4>. QED BY <2>0, <3>4, <4>4, <4>5 DEF OnlyShare
    <3>5. SharedInv'
      BY <2>0, <3>1, <3>3, <3>4 DEF SharedInv
    <3>6. ASSUME NEW q \in Processes PROVE HasAsked(q)' /\ HasFound(q)'
      <4>1. CASE pc'[q] \notin Searching
        BY <4>1 DEF HasAsked, HasFound, Searching
      <4>2. CASE pc'[q] \in Searching
        <5>1. /\ q # p /\ network[q] # network[p] /\ pc'[q] = pc[q] /\ hand'[q] = hand[q]
              /\ network[q] \in Networks
          BY <2>0, <4>2 DEF TypeOK, LockInv, Searching
        <5>2. HasAsked(q)'
          BY <2>0, <3>1, <3>2, <5>1 DEF HasAsked
        <5>3. ASSUME pc[q] = "receive"
              PROVE  /\ (sockets[network[q]][asked[q][1]] \in {asked[q][2], NoSocket})'
                     /\ PeerListens(q)' =>
                          OnlyShare(network[q], instances[asked[q][1]][asked[q][2]])'
          <6>1. asked[q][1] \in Processes /\ asked[q][2] \in Slots
            BY <5>3 DEF TypeOK
          <6>2. PeerListens(q)' =>
                  /\ PeerListens(q)
                  /\ instances'[asked[q][1]][asked[q][2]] = instances[asked[q][1]][asked[q][2]]
            BY <2>0, <5>1, <6>1 DEF TypeOK, PeerListens, Listens
          <6>. QED BY <2>0, <3>1, <3>3, <5>1, <5>3, <6>2 DEF HasFound
        <5>4. (pc[q] \in {"map", "write", "bind", "serve"} => OnlyShare(network[q], hand[q]))'
          BY <2>0, <3>1, <3>3, <5>1 DEF HasFound
        <5>. QED BY <5>1, <5>2, <5>3, <5>4 DEF HasFound
      <4>. QED BY <4>1, <4>2
    <3>. QED BY <3>5, <3>6
  <2>. QED BY <2>1, <2>2, <2>3 DEF DirectoryInv
<1>. QED BY <1>1, <1>2, <1>3, <1>4

\* The steps of the other platform, where the directory plays no part.
LEMMA SharesOnWindows ==
    ASSUME IInv, ShareInv, NEW p \in Processes,
           \/ MapNamed(p) \/ LockMutex(p) \/ ReleaseMutex(p) \/ LockAbandoned(p)
    PROVE  ShareInv'
<1>. USE SharingAssumption DEF IInv, ShareInv, Windows, Slots, Goto, dir,
                               at, holdings, inquiry, mutexes, history
<1>0. Windows /\ platform' = platform
  BY DEF MapNamed, LockMutex, ReleaseMutex, LockAbandoned, Hold, PlatformInv, WindowsSteps
<1>1. ListedInv' /\ DirectoryInv'
  BY <1>0 DEF ListedInv, DirectoryInv
<1>2. CASE MapNamed(p)
  <2>1. OpeningInv'
    BY <1>2 DEF MapNamed, TypeOK, OpeningInv
  <2>2. LockInv'
    BY <1>0, <1>2 DEF MapNamed, LockInv
  <2>3. NameInv'
    BY <1>0, <1>2 DEF MapNamed, TypeOK, NameInv
  <2>. QED BY <1>1, <2>1, <2>2, <2>3
<1>3. CASE LockMutex(p)
  <2>1. OpeningInv' /\ NameInv'
    BY <1>3 DEF LockMutex, TypeOK, OpeningInv, NameInv
  <2>2. LockInv'
    BY <1>0, <1>3 DEF LockMutex, TypeOK, LockInv
  <2>. QED BY <1>1, <2>1, <2>2
<1>4. CASE ReleaseMutex(p)
  <2>1. OpeningInv'
    BY <1>4 DEF ReleaseMutex, Hold, TypeOK, OpeningInv
  <2>2. LockInv'
    BY <1>0, <1>4 DEF ReleaseMutex, Hold, TypeOK, LockInv
  <2>3. hand[p] \in Segments /\ named[network[p]] = hand[p]
    BY <1>0, <1>4 DEF ReleaseMutex, HandInv, HasHand, NamedInv
  <2>4. NameInv'
    BY <1>4, <2>3 DEF ReleaseMutex, Hold, TypeOK, NameInv
  <2>. QED BY <1>1, <2>1, <2>2, <2>4
<1>5. CASE LockAbandoned(p)
  <2>1. OpeningInv'
    BY <1>5 DEF LockAbandoned, TypeOK, OpeningInv
  <2>2. LockInv'
    BY <1>0, <1>5 DEF LockAbandoned, TypeOK, LockInv
  <2>3. NameInv'
    BY <1>5 DEF LockAbandoned, Reclaim, Referenced, TypeOK, NameInv
  <2>. QED BY <1>1, <2>1, <2>2, <2>3
<1>. QED BY <1>2, <1>3, <1>4, <1>5

\* The beginning of open, and its failure.
LEMMA SharesWhileStarting ==
    ASSUME IInv, ShareInv, NEW p \in Processes,
           \/ (\E n \in Networks : Open(p, n)) \/ OpenSecond(p) \/ Fail(p) \/ Fallback(p)
    PROVE  ShareInv'
<1>. USE SharingAssumption DEF IInv, ShareInv, Windows, Slots, Goto, dir,
                               at, holdings, inquiry, mutexes, history
<1>1. ASSUME NEW n \in Networks, Open(p, n) PROVE ShareInv'
  <2>0. /\ pc[p] \in {"out", "cleared"} /\ pc' = [pc EXCEPT ![p] = IF Windows THEN "name" ELSE "lock"]
        /\ network' = [network EXCEPT ![p] = n] /\ slot' = [slot EXCEPT ![p] = "first"]
        /\ UNCHANGED <<instances, hand, peers, asked, named, sockets, initLock, platform, missed, failed>>
        /\ \A i \in Slots : instances[p][i] = NoSegment
    BY <1>1 DEF Open, Begin, IdleInv
  <2>1. OpeningInv' /\ LockInv' /\ NameInv'
    BY <2>0 DEF TypeOK, OpeningInv, LockInv, NameInv, Searching
  <2>2. ListedInv'
    BY <2>0 DEF TypeOK, ListedInv, Shares
  <2>3. Unshared(p) /\ pc'[p] \in {"name", "lock"}
    BY <2>0 DEF TypeOK, Unshared, Listed, Shares
  <2>. QED BY <2>1, <2>2, <2>3, NothingFound
<1>2. CASE OpenSecond(p)
  <2>0. /\ pc[p] = "running" /\ pc' = [pc EXCEPT ![p] = IF Windows THEN "name" ELSE "lock"]
        /\ slot' = [slot EXCEPT ![p] = "second"] /\ instances[p]["second"] = NoSegment
        /\ UNCHANGED <<network, instances, hand, peers, asked, named, sockets, initLock, platform,
                       missed, failed>>
    BY <1>2 DEF OpenSecond, Begin
  <2>1. OpeningInv' /\ LockInv' /\ NameInv'
    BY <2>0 DEF TypeOK, OpeningInv, LockInv, NameInv, Searching
  <2>2. ListedInv'
    BY <2>0 DEF TypeOK, ListedInv, Shares
  <2>3. Unshared(p) /\ pc'[p] \in {"name", "lock"}
    BY <2>0 DEF TypeOK, Unshared, Listed, Shares
  <2>. QED BY <2>1, <2>2, <2>3, NothingFound
<1>3. CASE Fail(p)
  <2>0. /\ pc[p] \in {"name", "lock", "ask", "map", "bind", "serve"}
        /\ pc' = [pc EXCEPT ![p] = "failed"] /\ failed' = (failed \/ slot[p] = "second")
        /\ UNCHANGED <<network, slot, instances, peers, asked, sockets, platform, missed>>
        /\ \E s : hand' = [hand EXCEPT ![p] = s]
    BY <1>3 DEF Fail
  <2>1. OpeningInv'
    BY <2>0 DEF TypeOK, OpeningInv
  <2>2. LockInv'
    BY <1>3, <2>0 DEF Fail, TypeOK, LockInv, Searching
  <2>3. NameInv'
    BY <1>3 DEF Fail, Reclaim, Referenced, TypeOK, NameInv
  <2>4. ListedInv'
    <3>1. slot[p] = "first" => ~Shares(p)
      BY <2>0 DEF OpeningInv, Shares
    <3>2. ~failed' => ~Shares(p) /\ slot[p] = "first"
      BY <2>0, <3>1 DEF TypeOK
    <3>3. /\ pc'[p] = "failed" /\ (Shares(p)' <=> Shares(p))
          /\ \A q \in Processes \ {p} : pc'[q] = pc[q] /\ (Shares(q)' <=> Shares(q))
      BY <2>0 DEF TypeOK, Shares
    <3>. QED BY <2>0, <3>2, <3>3 DEF ListedInv
  <2>5. Unshared(p) /\ pc'[p] = "failed"
    BY <2>0 DEF TypeOK, Unshared, Listed, Shares
  <2>. QED BY <2>1, <2>2, <2>3, <2>4, <2>5, NothingFound
<1>4. CASE Fallback(p)
  <2>0. /\ pc[p] = "failed" /\ pc' = [pc EXCEPT ![p] = "running"]
        /\ sockets' = [sockets EXCEPT ![network[p]][p] = NoSocket]
        /\ instances' = [instances EXCEPT ![p][slot[p]] = Local]
        /\ UNCHANGED <<network, slot, hand, peers, asked, named, initLock, platform, missed, failed>>
        /\ network[p] \in Networks /\ Local \notin Segments
    BY <1>4 DEF Fallback, TypeOK
  <2>1. OpeningInv' /\ LockInv' /\ NameInv'
    BY <2>0 DEF TypeOK, OpeningInv, LockInv, NameInv, Searching
  <2>2. \A q \in Processes, i \in Slots : instances'[q][i] \in Segments => instances'[q][i] = instances[q][i]
    BY <2>0 DEF TypeOK
  <2>3. ~Windows /\ ~failed => ~Shares(p)'
    <3>1. slot[p] = "first" => ~Shares(p)
      BY <2>0 DEF OpeningInv, Shares
    <3>2. ~Windows /\ ~failed => ~Shares(p)
      BY <2>0, <3>1 DEF TypeOK, ListedInv
    <3>. QED BY <2>0, <2>2, <3>2 DEF Shares
  <2>4. ListedInv'
    BY <2>0, <2>2, <2>3 DEF TypeOK, ListedInv, Shares
  <2>5. Unshared(p) /\ pc'[p] = "running"
    BY <2>0, <2>2 DEF TypeOK, Unshared, Listed, Shares
  <2>. QED BY <2>1, <2>4, <2>5, NothingFound
<1>. QED BY <1>1, <1>2, <1>3, <1>4

\* The end of instances and of processes.
LEMMA SharesWhileEnding ==
    ASSUME IInv, ShareInv, NEW p \in Processes,
           \/ Clear(p) \/ Unlink(p) \/ Unmap(p) \/ Crash(p) \/ Exit(p)
    PROVE  ShareInv'
<1>. USE SharingAssumption DEF IInv, ShareInv, Windows, Slots, Goto, dir,
                               at, holdings, inquiry, mutexes, history
<1>1. CASE Clear(p)
  <2>0. /\ pc[p] = "running" /\ pc' = [pc EXCEPT ![p] = "unlink"] /\ slot' = [slot EXCEPT ![p] = "first"]
        /\ UNCHANGED <<network, instances, hand, peers, asked, named, sockets, initLock, platform,
                       missed, failed>>
    BY <1>1 DEF Clear
  <2>1. OpeningInv' /\ LockInv' /\ NameInv'
    BY <2>0 DEF TypeOK, OpeningInv, LockInv, NameInv, Searching
  <2>2. ListedInv'
    BY <2>0 DEF TypeOK, ListedInv, Shares
  <2>3. Unshared(p) /\ pc'[p] = "unlink"
    BY <2>0 DEF TypeOK, Unshared, Listed, Shares
  <2>. QED BY <2>1, <2>2, <2>3, NothingFound
<1>2. CASE Unlink(p)
  <2>0. /\ pc[p] = "unlink" /\ pc' = [pc EXCEPT ![p] = "unmap"]
        /\ sockets' = IF instances[p][slot[p]] \in Segments
                      THEN [sockets EXCEPT ![network[p]][p] = NoSocket] ELSE sockets
        /\ UNCHANGED <<network, slot, instances, hand, peers, asked, named, initLock, platform,
                       missed, failed>>
        /\ network[p] \in Networks
    BY <1>2 DEF Unlink, TypeOK
  <2>1. OpeningInv' /\ LockInv' /\ NameInv'
    BY <2>0 DEF TypeOK, OpeningInv, LockInv, NameInv, Searching
  <2>2. ListedInv'
    BY <2>0 DEF TypeOK, ListedInv, Shares
  <2>3. Unshared(p) /\ pc'[p] = "unmap"
    BY <2>0 DEF TypeOK, Unshared, Listed, Shares
  <2>. QED BY <2>1, <2>2, <2>3, NothingFound
<1>3. CASE Unmap(p)
  <2>0. /\ pc[p] = "unmap"
        /\ pc' = [pc EXCEPT ![p] = IF slot[p] = "second" \/ instances[p]["second"] = NoSegment
                                   THEN "cleared" ELSE "unlink"]
        /\ instances' = [instances EXCEPT ![p][slot[p]] = NoSegment]
        /\ slot' = [slot EXCEPT ![p] = IF instances[p]["second"] = NoSegment THEN @ ELSE "second"]
        /\ UNCHANGED <<network, hand, peers, asked, sockets, initLock, platform, missed, failed>>
        /\ network[p] \in Networks /\ slot[p] \in {"first", "second"}
    BY <1>3 DEF Unmap, Last, TypeOK
  <2>1. OpeningInv' /\ LockInv'
    BY <2>0 DEF TypeOK, OpeningInv, LockInv, Searching
  <2>2. NameInv'
    BY <1>3 DEF Unmap, Reclaim, Referenced, TypeOK, NameInv
  <2>3. ListedInv'
    <3>1. \A q \in Processes \ {p} : /\ instances'[q] = instances[q] /\ pc'[q] = pc[q]
                                     /\ slot'[q] = slot[q] /\ network'[q] = network[q]
      BY <2>0 DEF TypeOK
    <3>2. CASE slot[p] = "second"
      <4>1. ~Shares(p)' /\ pc'[p] = "cleared"
        BY <2>0, <3>2 DEF TypeOK, IdleInv, Shares
      <4>. QED BY <2>0, <3>1, <4>1 DEF ListedInv, Shares
    <3>3. CASE slot[p] = "first" /\ instances[p]["second"] = NoSegment
      <4>1. ~Shares(p)' /\ pc'[p] = "cleared"
        BY <2>0, <3>3 DEF TypeOK, Shares
      <4>. QED BY <2>0, <3>1, <4>1 DEF ListedInv, Shares
    <3>4. CASE slot[p] = "first" /\ instances[p]["second"] # NoSegment
      <4>1. /\ pc'[p] = "unlink" /\ instances'[p]["second"] = instances[p]["second"]
            /\ instances'[p]["first"] = NoSegment
        BY <2>0, <3>4 DEF TypeOK
      <4>2. ~Windows /\ ~missed /\ ~failed /\ Shares(p)' => sockets[network[p]][p] \in {NoSocket, "second"}
        <5>1. ASSUME ~Windows, ~missed, ~failed, Shares(p)', sockets[network[p]][p] # NoSocket
              PROVE  sockets[network[p]][p] = "second"
          <6>1. instances[p]["first"] \notin Segments
            BY <2>0, <3>4, <5>1 DEF ListedInv
          <6>2. Shares(p)
            BY <4>1, <5>1 DEF Shares
          <6>3. instances[p][sockets[network[p]][p]] \in Segments
            BY <2>0, <5>1, <6>2 DEF ListedInv
          <6>. QED BY <5>1, <6>1, <6>3 DEF TypeOK
        <5>. QED BY <5>1
      <4>. QED BY <2>0, <3>1, <3>4, <4>1, <4>2 DEF ListedInv, Shares
    <3>. QED BY <2>0, <3>2, <3>3, <3>4
  <2>4. Unshared(p) /\ pc'[p] \in {"cleared", "unlink"}
    BY <2>0 DEF TypeOK, Unshared, Listed, Shares
  <2>. QED BY <2>1, <2>2, <2>3, <2>4, NothingFound
<1>4. CASE Crash(p) \/ Exit(p)
  <2>0. /\ pc' = [pc EXCEPT ![p] = "out"]
        /\ instances' = [instances EXCEPT ![p] = [i \in Slots |-> NoSegment]]
        /\ network' = [network EXCEPT ![p] = CHOOSE n \in Networks : TRUE]
        /\ slot' = [slot EXCEPT ![p] = "first"] /\ hand' = [hand EXCEPT ![p] = NoSegment]
        /\ peers' = [peers EXCEPT ![p] = {}] /\ asked' = [asked EXCEPT ![p] = NoSocket]
        /\ initLock' = [n \in Networks |-> IF initLock[n] = p THEN Nobody ELSE initLock[n]]
        /\ UNCHANGED <<platform, missed, failed>>
        /\ \A q \in Processes \ {p}, n \in Networks : sockets'[n][q] = sockets[n][q]
        /\ \A n \in Networks : sockets'[n][p] \in {sockets[n][p], NoSocket}
    BY <1>4 DEF Crash, Exit, Ends, DropLocks, TypeOK
  <2>1. /\ \A q \in Processes \ {p} : /\ instances'[q] = instances[q] /\ pc'[q] = pc[q]
                                      /\ slot'[q] = slot[q] /\ network'[q] = network[q]
                                      /\ peers'[q] = peers[q] /\ asked'[q] = asked[q]
                                      /\ hand'[q] = hand[q]
        /\ pc'[p] = "out" /\ \A i \in Slots : instances'[p][i] = NoSegment
    BY <2>0 DEF TypeOK, LockInv
  <2>2. OpeningInv'
    BY <2>1 DEF OpeningInv
  <2>3. LockInv'
    BY <2>0, <2>1 DEF TypeOK, LockInv, Searching
  <2>4. ListedInv'
    <3>1. ~Shares(p)' /\ pc'[p] = "out"
      BY <2>1 DEF Shares
    <3>2. \A q \in Processes \ {p} :
            /\ Shares(q)' <=> Shares(q)
            /\ sockets'[network'[q]][q] = sockets[network[q]][q]
      BY <2>0, <2>1 DEF TypeOK, Shares
    <3>. QED BY <2>0, <2>1, <3>1, <3>2 DEF ListedInv
  <2>5. Unshared(p)
    <3>1. \A q \in Processes, n \in Networks : Listed(q, n)' => Listed(q, n)
      BY <2>0, <2>1 DEF Listed, Shares
    <3>2. \A q \in Processes, i \in Slots : instances'[q][i] \in Segments =>
            instances[q][i] = instances'[q][i] /\ network[q] = network'[q]
      BY <2>1
    <3>3. \A q \in Processes \ {p} : pc[q] = "receive" => \A r \in Processes :
            sockets'[network[q]][r] \in {sockets[network[q]][r], NoSocket}
      BY <2>0 DEF TypeOK
    <3>. QED BY <2>0, <2>1, <3>1, <3>2, <3>3 DEF Unshared
  <2>6. NameInv'
    <3>1. Reclaim /\ \A q \in Processes, i \in Slots :
             instances'[q][i] \in Segments => instances[q][i] = instances'[q][i] /\ network[q] = network'[q]
      BY <1>4, <2>1 DEF Crash, Exit, Ends
    <3>. QED BY <2>0, <3>1 DEF Reclaim, Referenced, TypeOK, NameInv
  <2>. QED BY <2>1, <2>2, <2>3, <2>4, <2>5, <2>6, NothingFound
<1>. QED BY <1>1, <1>2, <1>3, <1>4

LEMMA ShareStep == IInv /\ ShareInv /\ [Next]_vars => ShareInv'
<1>. SUFFICES ASSUME IInv, ShareInv, [Next]_vars PROVE ShareInv' OBVIOUS
<1>1. ASSUME NEW p \in Processes, OpenStep(p) PROVE ShareInv'
  BY <1>1, SharesWhileAsking, SharesWhileMapping, SharesOnWindows, SharesWhileStarting DEF OpenStep
<1>2. ASSUME NEW p \in Processes, NEW n \in Networks, Open(p, n) PROVE ShareInv'
  BY <1>2, SharesWhileStarting
<1>3. ASSUME NEW p \in Processes, OpenSecond(p) \/ Clear(p) \/ ClearStep(p) \/ Crash(p) \/ Exit(p)
      PROVE  ShareInv'
  BY <1>3, SharesWhileStarting, SharesWhileEnding DEF ClearStep
<1>4. CASE UNCHANGED vars
  <2>. USE <1>4 DEF vars, at, holdings, inquiry, mutexes, history, ShareInv, Windows
  <2>1. OpeningInv' /\ LockInv' /\ NameInv'
    BY DEF OpeningInv, LockInv, NameInv
  <2>2. ListedInv'
    BY DEF ListedInv, Shares
  <2>3. DirectoryInv'
    BY DEF DirectoryInv, SharedInv, HasAsked, HasFound, OnlyShare, Listed, Shares, PeerListens,
           Listens, dir
  <2>. QED BY <2>1, <2>2, <2>3
<1>. QED BY <1>1, <1>2, <1>3, <1>4 DEF Next

LEMMA ShareInit == Init => ShareInv
<1>. SUFFICES ASSUME Init PROVE ShareInv OBVIOUS
<1>1. \A q \in Processes : pc[q] = "out" /\ \A i \in Slots : instances[q][i] = NoSegment
  BY DEF Init
<1>2. NoSegment \notin Segments
  BY SharingAssumption
<1>3. OpeningInv /\ LockInv /\ NameInv
  BY <1>1, <1>2 DEF Init, OpeningInv, LockInv, NameInv, Searching
<1>4. \A q \in Processes : ~Shares(q)
  BY <1>1, <1>2 DEF Shares
<1>5. ListedInv /\ DirectoryInv
  BY <1>1, <1>4 DEF ListedInv, DirectoryInv, SharedInv, HasAsked, HasFound, OnlyShare, Listed
<1>. QED BY <1>3, <1>5 DEF ShareInv

\* Two that have a share can both be found, or have it by the same name.
LEMMA OneShare == IInv /\ ShareInv => OneSegment
<1>. SUFFICES ASSUME IInv, ShareInv, ~missed, ~failed,
                     NEW p \in Processes, NEW q \in Processes,
                     pc[p] \notin {"unlink", "unmap"}, pc[q] \notin {"unlink", "unmap"},
                     NEW i \in Slots, NEW j \in Slots, network[p] = network[q],
                     instances[p][i] \in Segments, instances[q][j] \in Segments
              PROVE  instances[p][i] = instances[q][j]
  BY DEF OneSegment
<1>1. CASE Windows
  BY <1>1 DEF ShareInv, NameInv
<1>2. CASE ~Windows
  <2>1. Listed(p, network[p]) /\ Listed(q, network[p])
    BY <1>2 DEF ShareInv, ListedInv, Listed, Shares
  <2>2. network[p] \in Networks /\ SharedInv
    BY <1>2 DEF IInv, TypeOK, ShareInv, DirectoryInv
  <2>. QED BY <2>1, <2>2 DEF SharedInv, OnlyShare
<1>. QED BY <1>1, <1>2

\* All that use a network share one segment of it, whoever created it and whoever
\* died, as long as no process missed a peer that listens (too slow, or a call to
\* find or to ask it failed) and no second instance failed to open.
THEOREM NetworksHaveOneSegment == Spec => []OneSegment
<1>1. Init => IInv /\ ShareInv
  BY InitInv, ShareInit
<1>2. IInv /\ ShareInv /\ [Next]_vars => (IInv /\ ShareInv)'
  BY StepInv, ShareStep
<1>3. IInv /\ ShareInv => OneSegment
  BY OneShare
<1>. QED BY <1>1, <1>2, <1>3, PTL DEF Spec
=============================================================================
