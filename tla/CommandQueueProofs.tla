------------------------- MODULE CommandQueueProofs -------------------------
(***************************************************************************)
(* The safety of the command queue for any number of senders and commands. *)
(*                                                                         *)
(* The argument: writeMutex makes the writers one at a time (WriterHolds), *)
(* the destroyer is the last of them and pushes "quit" before it sets the  *)
(* flag (QuitPushed), and a reader that goes back to reading has not taken *)
(* a "quit" (ReadsOn).  So the flag can be seen with an empty queue only   *)
(* by a reader that is already gone.                                       *)
(***************************************************************************)
EXTENDS CommandQueue, SequenceTheorems, TLAPS

WriterHolds ==
  \A h \in Hosts :
    hostPc[h] \in {"push", "notify", "shutdown", "notifyAll"} <=> writeMutex = h

DestroyerLast ==
  /\ \A s \in Senders : hostPc[s] \in {"out", "push", "notify"}
  /\ hostPc[Closer] # "out" => \A s \in Senders : hostPc[s] = "out"
  /\ shutdown => hostPc[Closer] \in {"notifyAll", "join", "gone"}

QuitPushed ==
  hostPc[Closer] \in {"notify", "shutdown", "notifyAll", "join", "gone"}
    => sent # <<>> /\ Last(sent) = Quit

ReadsOn ==
  /\ readerPc \in {"read", "asleep"} /\ taken # <<>> => Last(taken) # Quit
  /\ readerPc = "asleep" => left = 0
  /\ readerPc = "exec" => taken # <<>>

IInv ==
  /\ TypeOK
  /\ NothingLost
  /\ WriterHolds
  /\ DestroyerLast
  /\ QuitPushed
  /\ ReadsOn
  /\ NoSleepOnData
  /\ EndsOnQuit
-----------------------------------------------------------------------------
(* Sequences *)

LEMMA LastOfAppend ==
  ASSUME NEW S, NEW s \in Seq(S), NEW e \in S
  PROVE  /\ Append(s, e) \in Seq(S) /\ Append(s, e) # <<>>
         /\ Last(Append(s, e)) = e
  BY DEF Last

\* Taking the front of the queue moves it to the end of what was taken.
LEMMA TakeFront ==
  ASSUME NEW S, NEW t \in Seq(S), NEW q \in Seq(S), q # <<>>
  PROVE  Append(t, Head(q)) \o Tail(q) = t \o q
  OBVIOUS

\* What the front of the queue is, seen from the commands sent.
LEMMA FrontIsNext ==
  ASSUME NEW S, NEW t \in Seq(S), NEW q \in Seq(S), q # <<>>
  PROVE  Len(t) < Len(t \o q) /\ Head(q) = (t \o q)[Len(t) + 1]
  OBVIOUS

\* Pushing at the back of the queue appends to what was sent.
LEMMA PushBack ==
  ASSUME NEW S, NEW t \in Seq(S), NEW q \in Seq(S), NEW e \in S
  PROVE  t \o Append(q, e) = Append(t \o q, e)
  OBVIOUS
-----------------------------------------------------------------------------
LEMMA InitIInv == Init => IInv
<1> SUFFICES ASSUME Init PROVE IInv
  OBVIOUS
<1> USE QueueAssumption DEF Init, Hosts
<1>1. TypeOK
  <2>1. <<>> \in Seq(Commands)
    OBVIOUS
  <2>2. hostPc \in [Hosts -> HostPcs] /\ readerPc \in ReaderPcs
    BY DEF HostPcs, ReaderPcs
  <2> QED BY <2>1, <2>2 DEF TypeOK
<1>2. NothingLost
  BY DEF NothingLost
<1>3. WriterHolds /\ DestroyerLast /\ QuitPushed
  BY DEF WriterHolds, DestroyerLast, QuitPushed
<1>4. ReadsOn /\ NoSleepOnData /\ EndsOnQuit
  BY DEF ReadsOn, NoSleepOnData, EndsOnQuit
<1> QED BY <1>1, <1>2, <1>3, <1>4 DEF IInv

\* Every step preserves the invariant.
LEMMA NextIInv == ASSUME IInv, [Next]_vars PROVE IInv'
<1> USE QueueAssumption
    DEF IInv, Hosts, HostPcs, ReaderPcs, WriterHolds, DestroyerLast, Goto
<1> DEFINE Sleep == NoSleepOnData /\ EndsOnQuit
<1> USE DEF NoSleepOnData, EndsOnQuit
<1>1. CASE UNCHANGED vars
  BY <1>1 DEF vars, TypeOK, NothingLost, QuitPushed, ReadsOn
<1>2. ASSUME NEW h \in Hosts, LockForWriting(h) PROVE IInv'
  <2>1. TypeOK' /\ NothingLost' /\ QuitPushed' /\ ReadsOn'
    BY <1>2 DEF LockForWriting, TypeOK, NothingLost, QuitPushed, ReadsOn
  <2>2. WriterHolds' /\ DestroyerLast' /\ Sleep'
    BY <1>2 DEF LockForWriting, TypeOK
  <2> QED BY <2>1, <2>2
<1>3. ASSUME NEW h \in Hosts, NEW c \in Commands, Push(h, c) PROVE IInv'
  <2>1. TypeOK'
    BY <1>3 DEF Push, TypeOK
  <2>2. NothingLost'
    <3>1. taken \in Seq(Commands) /\ queue \in Seq(Commands)
      BY DEF TypeOK
    <3>2. taken \o Append(queue, c) = Append(taken \o queue, c)
      BY <3>1, PushBack
    <3> QED BY <1>3, <3>2 DEF Push, NothingLost
  <2>3. QuitPushed'
    <3>1. sent' # <<>> /\ Last(sent') = c
      BY <1>3, LastOfAppend DEF Push, TypeOK
    <3>2. CASE h = Closer
      BY <1>3, <3>1, <3>2 DEF Push, QuitPushed
    <3>3. CASE h # Closer
      BY <1>3, <3>3 DEF Push, QuitPushed, TypeOK
    <3> QED BY <3>2, <3>3
  <2>4. ReadsOn'
    BY <1>3 DEF Push, ReadsOn
  <2>5. WriterHolds' /\ DestroyerLast' /\ Sleep'
    BY <1>3 DEF Push, TypeOK
  <2> QED BY <2>1, <2>2, <2>3, <2>4, <2>5
<1>4. ASSUME NEW h \in Hosts, Notify(h) PROVE IInv'
  <2>1. TypeOK' /\ NothingLost' /\ QuitPushed' /\ ReadsOn'
    BY <1>4 DEF Notify, WakeReader, TypeOK, NothingLost, QuitPushed, ReadsOn
  <2>2. WriterHolds' /\ DestroyerLast' /\ Sleep'
    BY <1>4 DEF Notify, WakeReader, TypeOK
  <2> QED BY <2>1, <2>2
<1>5. CASE Destroy
  <2>1. TypeOK' /\ NothingLost' /\ QuitPushed' /\ ReadsOn'
    BY <1>5 DEF Destroy, Shutdown, NotifyAll, Join, WakeReader,
                TypeOK, NothingLost, QuitPushed, ReadsOn
  <2>2. WriterHolds' /\ DestroyerLast' /\ Sleep'
    BY <1>5 DEF Destroy, Shutdown, NotifyAll, Join, WakeReader, TypeOK
  <2> QED BY <2>1, <2>2
<1>6. CASE Pop
  <2>1. UNCHANGED <<shutdown, writeMutex, hostPc, sent>>
    BY <1>6 DEF Pop
  <2>2. queue # <<>>
    <3>1. SUFFICES ASSUME queue = <<>> PROVE FALSE
      OBVIOUS
    <3>2. sent = taken
      BY <3>1 DEF NothingLost, TypeOK
    <3>3. taken # <<>> /\ Last(taken) = Quit
      BY <1>6, <3>1, <3>2 DEF Pop, QuitPushed
    <3> QED BY <1>6, <3>3 DEF Pop, ReadsOn
  <2>3. /\ queue' = Tail(queue) /\ taken' = Append(taken, Head(queue))
        /\ left' = Lines[Head(queue)] - 1 /\ readerPc' = "exec"
    BY <1>6, <2>2 DEF Pop
  <2>4. Head(queue) \in Commands /\ queue' \in Seq(Commands)
    BY <2>2, <2>3 DEF TypeOK
  <2>5. taken' \in Seq(Commands) /\ taken' # <<>> /\ Last(taken') = Head(queue)
    BY <2>3, <2>4, LastOfAppend DEF TypeOK
  <2>6. TypeOK'
    BY <2>1, <2>3, <2>4, <2>5, SMTT(30) DEF TypeOK
  <2>7. NothingLost'
    <3>1. taken \in Seq(Commands) /\ queue \in Seq(Commands)
      BY DEF TypeOK
    <3>2. Append(taken, Head(queue)) \o Tail(queue) = taken \o queue
      BY <2>2, <3>1, TakeFront, SMTT(30)
    <3> QED BY <2>1, <2>3, <3>2 DEF NothingLost
  <2>8. QuitPushed' /\ ReadsOn'
    BY <2>1, <2>3, <2>5 DEF QuitPushed, ReadsOn
  <2>9. WriterHolds' /\ DestroyerLast' /\ Sleep'
    BY <2>1, <2>3
  <2> QED BY <2>6, <2>7, <2>8, <2>9
<1>7. CASE ReadLine
  <2>0. left' \in Nat /\ (left' # 0 => left' < Lines[Last(taken)]) /\ taken # <<>>
    <3>1. taken # <<>> /\ left < Lines[Last(taken)]
      BY <1>7 DEF ReadLine, TypeOK
    <3>2. Last(taken) \in Commands
      BY <3>1 DEF Last, TypeOK
    <3>3. Lines[Last(taken)] \in Nat
      BY <3>2
    <3> QED BY <1>7, <3>1, <3>3 DEF ReadLine, TypeOK
  <2>1. TypeOK' /\ NothingLost' /\ QuitPushed' /\ ReadsOn'
    BY <1>7, <2>0 DEF ReadLine, TypeOK, NothingLost, QuitPushed, ReadsOn
  <2>2. WriterHolds' /\ DestroyerLast' /\ Sleep'
    BY <1>7 DEF ReadLine
  <2> QED BY <2>1, <2>2
<1>8. CASE PopSleeps \/ SpuriousWake
  <2>1. TypeOK' /\ NothingLost' /\ QuitPushed' /\ ReadsOn'
    BY <1>8 DEF PopSleeps, SpuriousWake, TypeOK, NothingLost, QuitPushed, ReadsOn
  <2>2. WriterHolds' /\ DestroyerLast' /\ Sleep'
    BY <1>8 DEF PopSleeps, SpuriousWake
  <2> QED BY <2>1, <2>2
<1>9. CASE Execute
  <2>1. TypeOK' /\ NothingLost' /\ QuitPushed' /\ ReadsOn'
    BY <1>9 DEF Execute, TypeOK, NothingLost, QuitPushed, ReadsOn
  <2>2. WriterHolds' /\ DestroyerLast' /\ Sleep'
    BY <1>9 DEF Execute, ReadsOn
  <2> QED BY <2>1, <2>2
<1> QED
  BY <1>1, <1>2, <1>3, <1>4, <1>5, <1>6, <1>7, <1>8, <1>9
  DEF Next, Send, Reader, Finished

LEMMA AlwaysIInv == Spec => []IInv
<1>1. IInv /\ [Next]_vars => IInv'
  BY NextIInv
<1> QED BY <1>1, InitIInv, PTL DEF Spec

\* Every variable has its type, for any senders, commands and line counts.
THEOREM TypeCorrect == Spec => []TypeOK
  BY AlwaysIInv, PTL DEF IInv

\* CommandQueue neither loses, doubles nor reorders a command.
THEOREM QueueIsFifo == Spec => []NothingLost
  BY AlwaysIInv, PTL DEF IInv

\* A sleeping reader with something to read is about to be notified: unlocking
\* before cv_.notify_one() loses no wake-up.
THEOREM ReaderIsWoken == Spec => []NoSleepOnData
  BY AlwaysIInv, PTL DEF IInv

\* The UCI loop ends on a "quit" it took and on nothing else.
THEOREM LoopEndsOnQuit == Spec => []EndsOnQuit
  BY AlwaysIInv, PTL DEF IInv
-----------------------------------------------------------------------------
(* Refinement: the queue implements CommandStream. *)

LEMMA InitImplementsStream == Init => Stream!Init
  BY DEF Init, Stream!Init

\* Popping takes the next command sent, and only while the loop is to go on.
LEMMA PopTakes == ASSUME IInv, IInv', Pop PROVE Stream!Take
<1>1. readerPc = "read" /\ sent' = sent /\ shutdown' = shutdown
  BY DEF Pop
<1>2. sent = taken \o queue /\ taken \in Seq(Commands) /\ queue \in Seq(Commands)
  BY DEF IInv, TypeOK, NothingLost
<1>3. taken # <<>> => taken[Len(taken)] # Quit
  BY <1>1 DEF IInv, ReadsOn, Last
<1>4. queue # <<>>
  <2>1. SUFFICES ASSUME queue = <<>> PROVE FALSE
    OBVIOUS
  <2>2. sent = taken
    BY <1>2, <2>1
  <2>3. taken # <<>> /\ Last(taken) = Quit
    BY <2>1, <2>2 DEF IInv, Pop, DestroyerLast, QuitPushed
  <2> QED BY <1>3, <2>3 DEF Last
<1>5. taken' = Append(taken, Head(queue)) /\ readerPc' = "exec"
  BY <1>4 DEF Pop
<1>6. Len(taken) < Len(sent) /\ Head(queue) = sent[Len(taken) + 1]
  BY <1>2, <1>4, FrontIsNext
<1> QED BY <1>1, <1>3, <1>5, <1>6 DEF Stream!Take

LEMMA StepImplementsStream ==
  ASSUME IInv, IInv', [Next]_vars PROVE [Stream!Next]_(Stream!vars)
<1> DEFINE Quiet == UNCHANGED <<sent, taken, shutdown, (readerPc = "ended")>>
<1>1. CASE UNCHANGED vars
  BY <1>1 DEF vars, Stream!vars
<1>2. ASSUME NEW h \in Hosts, LockForWriting(h) \/ Notify(h) PROVE Quiet
  BY <1>2 DEF LockForWriting, Notify, WakeReader
<1>3. ASSUME NEW h \in Hosts, NEW c \in Commands, Push(h, c) PROVE Stream!Send(c)
  BY <1>3 DEF Push, Goto, Hosts, IInv, DestroyerLast, Stream!Send
<1>4. CASE Shutdown
  BY <1>4 DEF Shutdown, Stream!Close, Stream!Next
<1>5. CASE NotifyAll \/ Join \/ ReadLine \/ PopSleeps \/ SpuriousWake
  BY <1>5 DEF NotifyAll, WakeReader, Join, ReadLine, PopSleeps, SpuriousWake,
              Stream!vars
<1>6. CASE Execute
  BY <1>6 DEF Execute, Last, IInv, ReadsOn, Stream!End, Stream!Next, Stream!vars
<1>7. CASE Pop
  BY <1>7, PopTakes DEF Stream!Next
<1> QED
  BY <1>1, <1>2, <1>3, <1>4, <1>5, <1>6, <1>7
  DEF Next, Send, Destroy, Reader, Finished, Stream!Next, Stream!vars

\* Senders, destroyer and reader together are an ordered, loss-free stream of
\* commands that ends on "quit".
THEOREM QueueImplementsStream == Spec => ImplementsCommandStream
<1>1. IInv /\ IInv' /\ [Next]_vars => [Stream!Next]_(Stream!vars)
  BY StepImplementsStream
<1> QED
  BY <1>1, InitImplementsStream, AlwaysIInv, PTL
  DEF Spec, ImplementsCommandStream, Stream!Spec
=============================================================================
