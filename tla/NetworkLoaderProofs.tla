---- MODULE NetworkLoaderProofs ----
(* Proofs about NetworkLoader, for every set of names, every manifest and *)
(* any number of runs.                                                    *)
EXTENDS NetworkLoader, Functions, FiniteSetTheorems, TLAPS

----------------------------------------------------------------------------
(* Where the run is, and what it holds there *)

Transferring == {"resume", "recheck", "await"}
HasPart == {"register", "install", "verify", "staged", "verified", "move"} \cup Transferring
HasNetwork == {"keep", "fetch"} \cup HasPart

\* The staging file belongs to the download in hand; only a running transfer
\* writes it, and what was verified stays verified.
StagingInv ==
    /\ pc \in HasPart => part \in Parts /\ source \in Sources
    /\ pc \in HasNetwork => next \in DOMAIN manifest
    /\ Running /\ task \in {"created", "running"} => pc \in Transferring
    /\ pc = "install" => task = "none"
    /\ outcome # "none" => task \in {"done", "cancelled"}
    /\ pc \in {"verified", "move"} => disk[part] = "good"

IInv == TypeOK /\ StagingInv

LEMMA NetworkType ==
    ASSUME TypeOK, next \in DOMAIN manifest
    PROVE  /\ Network \in Names /\ Network \notin Parts
           /\ next \in 1..Len(manifest) /\ Len(manifest) \in Nat
  BY LoaderAssumption DEF TypeOK, Network

LEMMA RemovedType ==
    ASSUME TypeOK, NEW f, NEW d \in Removed(f)
    PROVE  /\ d \in [Files -> {"absent", "good", "bad"}]
           /\ \A g \in Files : d[g] \in {disk[g], "absent"}
           /\ \A g \in Files : g # f => d[g] = disk[g]
           /\ ~fsFails /\ f \in Files => d[f] = "absent"
  BY DEF TypeOK, Removed

LEMMA InitInv == Init => IInv
<1>. SUFFICES ASSUME Init PROVE IInv OBVIOUS
<1>1. Len(manifest) \in Nat
  BY LoaderAssumption DEF Init
<1>2. TypeOK
  <2>1. 1 \in 1..Len(manifest) + 1 /\ 1 \in 1..3 /\ 1 \in 1..MaxRuns
    BY <1>1, LoaderAssumption
  <2>. QED BY <2>1 DEF Init, TypeOK, Steps, Results, Outcomes
<1>3. StagingInv
  BY DEF Init, StagingInv, HasPart, HasNetwork, Transferring
<1>. QED
  BY <1>2, <1>3 DEF IInv

\* The invariant is preserved by every step.
LEMMA StepInv == IInv /\ [Next]_vars => IInv'
<1>. SUFFICES ASSUME IInv, [Next]_vars PROVE IInv' OBVIOUS
<1>. USE LoaderAssumption
<1>. USE DEF IInv, StagingInv, Steps, Results, Outcomes, HasPart, HasNetwork,
             Transferring, Running, End, box, host, place, run
<1>t. Len(manifest) \in Nat /\ DOMAIN manifest = 1..Len(manifest)
  BY DEF TypeOK
<1>1. CASE Validate
  BY <1>1 DEF Validate, TypeOK
<1>2. CASE CreateDirectory
  BY <1>2 DEF CreateDirectory, TypeOK
<1>3. CASE ListDirectory
  BY <1>3 DEF ListDirectory, TypeOK
<1>4. CASE PruneFile
  <2>1. PICK f \in listing :
           /\ listing' = listing \ {f}
           /\ IF f \in Required THEN UNCHANGED disk ELSE disk' \in Removed(f)
    BY <1>4 DEF PruneFile
  <2>2. disk' \in [Files -> {"absent", "good", "bad"}]
    BY <2>1, RemovedType DEF TypeOK
  <2>. QED BY <1>4, <2>1, <2>2 DEF PruneFile, TypeOK
<1>5. CASE PruneDone
  BY <1>5 DEF PruneDone, TypeOK
<1>6. CASE NextNetwork
  BY <1>6, <1>t DEF NextNetwork, TypeOK
<1>7. CASE Keep
  <2>1. disk' \in [Files -> {"absent", "good", "bad"}]
    BY <1>7, RemovedType DEF Keep, TypeOK
  <2>. QED BY <1>7, <1>t, <2>1 DEF Keep, TypeOK
<1>8. CASE Fetch
  BY <1>8 DEF Fetch, TypeOK, Sources
<1>9. CASE RegisterHandler
  BY <1>9 DEF RegisterHandler, TypeOK
<1>10. CASE InstallTask
  BY <1>10 DEF InstallTask, TypeOK
<1>11. CASE ResumeTask
  BY <1>11 DEF ResumeTask, TypeOK
<1>12. CASE CancelInstalled
  BY <1>12 DEF CancelInstalled, CancelTask, TypeOK
<1>13. CASE TransferFailed
  <2>1. disk' \in [Files -> {"absent", "good", "bad"}]
    BY <1>13, RemovedType DEF TransferFailed
  <2>2. task \in {"done", "cancelled"} /\ source \in 1..2 /\ source + 1 \in 1..3
    BY <1>13 DEF TransferFailed, Sources
  <2>5. source' \in 1..3 /\ result' \in Results /\ pc' \in Steps
    BY <1>13, <2>2 DEF TransferFailed, TypeOK
  <2>3. TypeOK'
    BY <1>13, <2>1, <2>5 DEF TransferFailed, TypeOK
  <2>4. StagingInv'
    BY <1>13, <2>2 DEF TransferFailed
  <2>. QED BY <2>3, <2>4
<1>14. CASE TransferDone
  <2>1. task \in {"done", "cancelled"}
    BY <1>14 DEF TransferDone
  <2>2. TypeOK'
    <3>1. pc' = "staged" /\ pc' \in Steps
      BY <1>14 DEF TransferDone
    <3>2. handler' \in BOOLEAN /\ fsFails' \in BOOLEAN /\ cancelled' \in BOOLEAN
      BY <1>14 DEF TransferDone, TypeOK
    <3>3. disk' = disk /\ manifest' = manifest /\ listing' = listing /\ UNCHANGED place
      BY <1>14 DEF TransferDone
    <3>. QED BY <3>1, <3>2, <3>3, <1>14 DEF TransferDone, TypeOK
  <2>3. StagingInv'
    BY <1>14, <2>1 DEF TransferDone
  <2>. QED BY <2>2, <2>3
<1>15. CASE BeforeVerify
  <2>1. disk' \in [Files -> {"absent", "good", "bad"}]
    BY <1>15, RemovedType DEF BeforeVerify, CheckStaged, TypeOK
  <2>. QED BY <1>15, <2>1 DEF BeforeVerify, CheckStaged, TypeOK
<1>16. CASE VerifyStaged
  <2>1. disk' \in [Files -> {"absent", "good", "bad"}]
    BY <1>16, RemovedType DEF VerifyStaged, TypeOK
  <2>2. source \in 1..2 /\ source + 1 \in 1..3
    BY <1>16 DEF VerifyStaged, Sources
  <2>3. TypeOK'
    BY <1>16, <2>1, <2>2 DEF VerifyStaged, TypeOK
  <2>4. pc' = "verified" => disk[part] = "good"
    BY <1>16 DEF VerifyStaged, Verified
  <2>5. StagingInv'
    BY <1>16, <2>4 DEF VerifyStaged
  <2>. QED BY <2>3, <2>5
<1>17. CASE Replace
  <2>1. disk' \in [Files -> {"absent", "good", "bad"}]
    BY <1>17, RemovedType DEF Replace, CheckStaged, TypeOK
  <2>2. pc = "verified" /\ Network \notin Parts
    BY <1>17, NetworkType DEF Replace, CheckStaged
  <2>3. pc' = "move" => disk'[part] = disk[part] /\ part' = part
    BY <1>17, <2>2, RemovedType DEF Replace, CheckStaged, Files, place
  <2>. QED BY <1>17, <2>1, <2>2, <2>3 DEF Replace, CheckStaged, TypeOK
<1>18. CASE MoveIntoPlace
  <2>1. Network \in Names /\ part \in Parts /\ disk[part] = "good"
    BY <1>18, NetworkType DEF MoveIntoPlace
  <2>2. disk' \in [Files -> {"absent", "good", "bad"}]
    BY <1>18, <2>1, RemovedType DEF MoveIntoPlace, TypeOK, Files
  <2>. QED BY <1>18, <1>t, <2>2 DEF MoveIntoPlace, TypeOK
<1>19. CASE CompleteWithError
  BY <1>19 DEF CompleteWithError, TypeOK
<1>20. CASE CompleteWithFile
  <2>1. part \in Parts /\ pc \in Transferring
    BY <1>20 DEF CompleteWithFile
  <2>2. disk' \in [Files -> {"absent", "good", "bad"}]
    BY <1>20 DEF CompleteWithFile, TypeOK
  <2>. QED BY <1>20, <2>1, <2>2 DEF CompleteWithFile, TypeOK
<1>21. CASE Cancel
  BY <1>21 DEF Cancel, TypeOK
<1>22. CASE Handler
  <2>1. CASE RequestCancel
    BY <1>22, <2>1 DEF RequestCancel, TypeOK
  <2>2. CASE CancelSeenTask
    BY <1>22, <2>2 DEF CancelSeenTask, CancelTask, TypeOK
  <2>. QED BY <1>22, <2>1, <2>2 DEF Handler
<1>23. CASE Crash
  BY <1>23 DEF Crash, TypeOK
<1>24. CASE Restart
  <2>1. Len(manifest') \in Nat
    BY <1>24 DEF Restart
  <2>4. runs' \in 1..MaxRuns
    BY <1>24 DEF Restart, TypeOK
  <2>5. next' \in 1..Len(manifest') + 1 /\ source' \in 1..3
    BY <1>24, <2>1 DEF Restart
  <2>2. TypeOK'
    BY <1>24, <2>4, <2>5 DEF Restart, TypeOK
  <2>3. StagingInv'
    BY <1>24 DEF Restart
  <2>. QED BY <2>2, <2>3
<1>25. CASE UNCHANGED vars
  BY <1>25 DEF vars, TypeOK, Network
<1>. QED
  BY <1>1, <1>2, <1>3, <1>4, <1>5, <1>6, <1>7, <1>8, <1>9, <1>10, <1>11, <1>12,
     <1>13, <1>14, <1>15, <1>16, <1>17, <1>18, <1>19, <1>20, <1>21, <1>22, <1>23,
     <1>24, <1>25
  DEF Next, Loader

LEMMA Invariance == Spec => []IInv
  BY InitInv, StepInv, PTL DEF Spec

\* Every reachable state of every instance is well typed.
THEOREM TypeCorrect == Spec => []TypeOK
  BY Invariance, PTL DEF IInv

----------------------------------------------------------------------------
(* What a step does to the directory *)

Moved == [disk EXCEPT ![Network] = disk[part], ![part] = "absent"]

\* Nothing, a removal, the installation of a verified file, or a write to the
\* staging file.
DiskStep ==
    \/ disk' = disk
    \/ pc = "prune" /\ \E f \in Files \ Required : disk' \in Removed(f)
    \/ /\ pc \in {"keep", "verified"} /\ disk' \in Removed(Network)
       /\ pc = "keep" /\ ~fsFails => disk[Network] # "good"
    \/ pc \in HasPart /\ disk' \in Removed(part)
    \/ pc = "move" /\ disk' = Moved
    \/ pc \in Transferring /\ \E c : disk' = [disk EXCEPT ![part] = c]

LEMMA StepDisk == IInv /\ [Next]_vars => DiskStep
<1>. SUFFICES ASSUME IInv, [Next]_vars PROVE DiskStep OBVIOUS
<1>. USE DEF DiskStep
<1>1. CASE PruneFile
  BY <1>1 DEF PruneFile, IInv, TypeOK
<1>2. CASE Keep
  BY <1>2 DEF Keep, Verified
<1>3. CASE TransferFailed
  BY <1>3 DEF TransferFailed, HasPart, Transferring
<1>4. CASE BeforeVerify
  BY <1>4 DEF BeforeVerify, CheckStaged, HasPart
<1>5. CASE VerifyStaged
  BY <1>5 DEF VerifyStaged, HasPart
<1>6. CASE Replace
  BY <1>6 DEF Replace, CheckStaged, HasPart
<1>7. CASE MoveIntoPlace
  BY <1>7 DEF MoveIntoPlace, HasPart, Moved
<1>8. CASE CompleteWithFile
  BY <1>8 DEF CompleteWithFile, IInv, StagingInv
<1>9. CASE \/ Validate \/ CreateDirectory \/ ListDirectory \/ PruneDone \/ NextNetwork
           \/ Fetch \/ RegisterHandler \/ InstallTask \/ ResumeTask \/ CancelInstalled
           \/ TransferDone \/ CompleteWithError \/ Cancel \/ Handler \/ Crash
           \/ Restart \/ UNCHANGED vars
  BY <1>9 DEF Validate, CreateDirectory, ListDirectory, PruneDone, NextNetwork,
              Fetch, RegisterHandler, InstallTask, ResumeTask, CancelInstalled,
              TransferDone, CompleteWithError, Cancel, Handler, RequestCancel,
              CancelSeenTask, Crash, Restart, vars
<1>. QED
  BY <1>1, <1>2, <1>3, <1>4, <1>5, <1>6, <1>7, <1>8, <1>9 DEF Next, Loader

\* A network in the directory only ever disappears or becomes a verified one.
LEMMA StepNeverCorrupts ==
    ASSUME IInv, DiskStep, NEW n \in Names, disk'[n] # disk[n]
    PROVE  disk'[n] \in {"absent", "good"}
<1>1. n \in Files /\ n \notin Parts
  BY LoaderAssumption DEF Files
<1>2. CASE \E f : disk' \in Removed(f)
  BY <1>1, <1>2, RemovedType DEF IInv
<1>3. CASE pc = "move" /\ disk' = Moved
  <2>1. disk \in [Files -> {"absent", "good", "bad"}] /\ disk[part] = "good"
    BY <1>3 DEF IInv, TypeOK, StagingInv
  <2>. QED BY <1>1, <1>3, <2>1 DEF Moved
<1>4. CASE pc \in Transferring /\ \E c : disk' = [disk EXCEPT ![part] = c]
  <2>1. part \in Parts
    BY <1>4 DEF IInv, StagingInv, HasPart
  <2>. QED BY <1>1, <1>4, <2>1 DEF IInv, TypeOK
<1>. QED BY <1>2, <1>3, <1>4 DEF DiskStep

\* Whatever the service sends, whichever file operations fail and wherever the
\* process dies, no unverified bytes take the place of a network.
THEOREM NeverCorrupts == Spec => NeverInstallsCorrupt
<1>1. IInv /\ [Next]_vars =>
         [\A n \in Names : disk'[n] # disk[n] => disk'[n] \in {"absent", "good"}]_vars
  BY StepDisk, StepNeverCorrupts
<1>. QED
  BY <1>1, Invariance, PTL DEF Spec, NeverInstallsCorrupt

----------------------------------------------------------------------------
(* What a run that returns leaves in the directory *)

\* The networks dealt with are valid.  If no file operation fails, what the prune
\* has left is still listed, after it only the staging file is extra, and the
\* network in hand is not valid.
PastPrune == {"network"} \cup HasNetwork

ManifestInv == pc \notin {"validate", "ended", "dead"} => ValidManifest

ExtraInv ==
    ~fsFails => \A f \in Files \ Required :
       /\ pc = "prune" /\ disk[f] # "absent" => f \in listing
       /\ pc \in PastPrune /\ disk[f] # "absent" => f = part /\ pc \in HasPart

DoneInv ==
    /\ pc \in {"validate", "create", "list", "prune"} => next = 1
    /\ pc \in PastPrune => \A i \in 1..next - 1 : disk[manifest[i]] = "good"

InHandInv == ~fsFails /\ pc \in {"fetch"} \cup HasPart => disk[Network] # "good"

ResultInv == pc # "ended" => result = "none"

ExactInv == ManifestInv /\ ExtraInv /\ DoneInv /\ InHandInv /\ ResultInv /\ OkMeansExact

\* The manifest of a run does not change under it.
LEMMA SameManifest ==
    ASSUME manifest' = manifest
    PROVE  /\ ValidManifest' = ValidManifest /\ Required' = Required
           /\ next' = next => Network' = Network
  BY DEF ValidManifest, Required, Network

\* Only a run that has dealt with every network returns normally.
LEMMA StepResult ==
    ASSUME IInv, ResultInv, [Next]_vars, ~Restart
    PROVE  /\ manifest' = manifest /\ fsFails' = fsFails
           /\ ResultInv'
           /\ result' = "ok" => \/ result = "ok" /\ pc = "ended" /\ pc' = "ended" /\ disk' = disk
                                \/ pc = "network" /\ next > Len(manifest) /\ disk' = disk
<1>. USE DEF ResultInv, End, box, host, place, run, Running
<1>1. CASE \/ Validate \/ CreateDirectory \/ ListDirectory \/ PruneFile \/ PruneDone
  BY <1>1 DEF Validate, CreateDirectory, ListDirectory, PruneFile, PruneDone
<1>2. CASE NextNetwork \/ Keep \/ Fetch
  BY <1>2 DEF NextNetwork, Keep, Fetch
<1>3. CASE RegisterHandler \/ InstallTask \/ ResumeTask \/ CancelInstalled
  BY <1>3 DEF RegisterHandler, InstallTask, ResumeTask, CancelInstalled
<1>4. CASE TransferFailed \/ TransferDone
  BY <1>4 DEF TransferFailed, TransferDone
<1>5. CASE BeforeVerify \/ VerifyStaged \/ Replace \/ MoveIntoPlace
  BY <1>5 DEF BeforeVerify, CheckStaged, VerifyStaged, Replace, MoveIntoPlace
<1>6. CASE CompleteWithError \/ CompleteWithFile \/ Cancel \/ Crash
  BY <1>6 DEF CompleteWithError, CompleteWithFile, Cancel, Crash
<1>7. CASE Handler \/ UNCHANGED vars
  BY <1>7 DEF Handler, RequestCancel, CancelSeenTask, vars
<1>. QED
  BY <1>1, <1>2, <1>3, <1>4, <1>5, <1>6, <1>7 DEF Next, Loader

LEMMA StepManifest ==
    ASSUME ManifestInv, [Next]_vars, manifest' = manifest
    PROVE  ManifestInv'
<1>. USE SameManifest DEF ManifestInv, End, box, host, place, run
<1>1. CASE \/ Validate \/ CreateDirectory \/ ListDirectory \/ PruneFile \/ PruneDone
  BY <1>1 DEF Validate, CreateDirectory, ListDirectory, PruneFile, PruneDone
<1>2. CASE NextNetwork \/ Keep \/ Fetch
  BY <1>2 DEF NextNetwork, Keep, Fetch
<1>3. CASE RegisterHandler \/ InstallTask \/ ResumeTask \/ CancelInstalled
  BY <1>3 DEF RegisterHandler, InstallTask, ResumeTask, CancelInstalled
<1>4. CASE TransferFailed \/ TransferDone
  BY <1>4 DEF TransferFailed, TransferDone
<1>5. CASE BeforeVerify \/ VerifyStaged \/ Replace \/ MoveIntoPlace
  BY <1>5 DEF BeforeVerify, CheckStaged, VerifyStaged, Replace, MoveIntoPlace
<1>6. CASE CompleteWithError \/ CompleteWithFile \/ Cancel \/ Crash \/ Restart
  BY <1>6 DEF CompleteWithError, CompleteWithFile, Cancel, Crash, Restart
<1>7. CASE Handler \/ UNCHANGED vars
  BY <1>7 DEF Handler, RequestCancel, CancelSeenTask, vars
<1>. QED
  BY <1>1, <1>2, <1>3, <1>4, <1>5, <1>6, <1>7 DEF Next, Loader

LEMMA StepExtra ==
    ASSUME ~fsFails, IInv, ExtraInv, [Next]_vars, manifest' = manifest
    PROVE  ExtraInv'
<1>. SUFFICES ASSUME NEW f \in Files \ Required
              PROVE  /\ pc' = "prune" /\ disk'[f] # "absent" => f \in listing'
                     /\ pc' \in PastPrune /\ disk'[f] # "absent" => f = part' /\ pc' \in HasPart
  BY SameManifest DEF ExtraInv, Files
<1>0. /\ pc = "prune" /\ disk[f] # "absent" => f \in listing
      /\ pc \in PastPrune /\ disk[f] # "absent" => f = part /\ pc \in HasPart
  BY DEF ExtraInv
<1>d. disk \in [Files -> {"absent", "good", "bad"}]
  BY DEF IInv, TypeOK
<1>n. pc \in HasNetwork => Network \in Required
  BY DEF IInv, StagingInv, Network, Required
<1>p. pc \in HasPart => part \in Files
  BY DEF IInv, StagingInv, Files
<1>. USE DEF End, box, host, place, run, PastPrune, HasNetwork, HasPart, Transferring
<1>1. CASE \/ Validate \/ CreateDirectory \/ PruneDone \/ NextNetwork
           \/ CompleteWithError \/ Cancel \/ Crash \/ Restart
  BY <1>0, <1>1 DEF Validate, CreateDirectory, PruneDone, NextNetwork,
                    CompleteWithError, Cancel, Crash, Restart
<1>2. CASE ListDirectory
  BY <1>0, <1>2 DEF ListDirectory
<1>3. CASE PruneFile
  <2>1. PICK g \in listing :
           /\ listing' = listing \ {g}
           /\ IF g \in Required THEN UNCHANGED disk ELSE disk' \in Removed(g)
    BY <1>3 DEF PruneFile
  <2>2. g = f => disk'[f] = "absent"
    BY <2>1, <1>d, RemovedType DEF IInv
  <2>3. disk'[f] # "absent" => disk[f] # "absent"
    BY <2>1, <1>d, RemovedType DEF IInv
  <2>. QED BY <1>0, <1>3, <2>1, <2>2, <2>3 DEF PruneFile
<1>4. CASE Keep
  <2>1. disk'[f] # "absent" => disk[f] # "absent"
    BY <1>4, RemovedType DEF IInv, Keep
  <2>. QED BY <1>0, <1>4, <2>1 DEF Keep
<1>5. CASE \/ Fetch \/ RegisterHandler \/ InstallTask \/ ResumeTask \/ CancelInstalled
           \/ TransferDone
  BY <1>0, <1>5 DEF Fetch, RegisterHandler, InstallTask, ResumeTask, CancelInstalled,
                    TransferDone
<1>6. CASE TransferFailed
  <2>1. f = part => disk'[f] = "absent"
    BY <1>6, <1>p, RemovedType DEF IInv, TransferFailed
  <2>2. disk'[f] # "absent" => disk[f] # "absent"
    BY <1>6, RemovedType DEF IInv, TransferFailed
  <2>. QED BY <1>0, <1>6, <2>1, <2>2 DEF TransferFailed
<1>7. CASE BeforeVerify
  BY <1>0, <1>7 DEF BeforeVerify, CheckStaged
<1>8. CASE VerifyStaged
  <2>1. pc' = "fetch" => (f = part => disk'[f] = "absent")
    BY <1>8, <1>p, RemovedType DEF IInv, VerifyStaged
  <2>2. disk'[f] # "absent" => disk[f] # "absent"
    BY <1>8, RemovedType DEF IInv, VerifyStaged
  <2>. QED BY <1>0, <1>8, <2>1, <2>2 DEF VerifyStaged
<1>9. CASE Replace
  <2>1. disk'[f] # "absent" => disk[f] # "absent"
    BY <1>9, RemovedType DEF IInv, Replace, CheckStaged
  <2>. QED BY <1>0, <1>9, <2>1 DEF Replace, CheckStaged
<1>10. CASE MoveIntoPlace
  <2>1. pc' = "network" => disk' = Moved
    BY <1>10 DEF MoveIntoPlace, Moved
  <2>2. pc' = "network" => disk'[f] = IF f = part THEN "absent" ELSE disk[f]
    BY <1>10, <1>d, <1>n, <1>p, <2>1 DEF MoveIntoPlace, Moved
  <2>. QED BY <1>0, <1>10, <2>2 DEF MoveIntoPlace
<1>11. CASE CompleteWithFile
  <2>1. pc \in Transferring /\ part \in Files
    BY <1>11, <1>p DEF CompleteWithFile, IInv, StagingInv
  <2>2. f # part => disk'[f] = disk[f]
    BY <1>11, <1>d DEF CompleteWithFile
  <2>. QED BY <1>0, <1>11, <2>1, <2>2 DEF CompleteWithFile
<1>12. CASE Handler \/ UNCHANGED vars
  BY <1>0, <1>12 DEF Handler, RequestCancel, CancelSeenTask, vars
<1>. QED
  BY <1>1, <1>2, <1>3, <1>4, <1>5, <1>6, <1>7, <1>8, <1>9, <1>10, <1>11, <1>12
  DEF Next, Loader

\* A valid required network survives every step: what is removed is not
\* required, or not valid, or a staging file.
LEMMA StepKeeps ==
    ASSUME ~fsFails, IInv, InHandInv, DiskStep,
           NEW n \in Required, disk[n] = "good"
    PROVE  disk'[n] = "good"
<1>0. n \in Names /\ n \in Files /\ n \notin Parts
  BY LoaderAssumption DEF IInv, TypeOK, Required, Files
<1>d. disk \in [Files -> {"absent", "good", "bad"}]
  BY DEF IInv, TypeOK
<1>1. CASE pc = "prune" /\ \E f \in Files \ Required : disk' \in Removed(f)
  BY <1>0, <1>1, RemovedType DEF IInv
<1>2. CASE pc \in {"keep", "verified"} /\ disk' \in Removed(Network) /\ disk[Network] # "good"
  BY <1>0, <1>2, RemovedType DEF IInv
<1>3. CASE pc \in HasPart /\ disk' \in Removed(part)
  BY <1>0, <1>3, RemovedType DEF IInv, StagingInv
<1>4. CASE pc = "move" /\ disk' = Moved
  <2>1. disk[part] = "good" /\ part \in Parts
    BY <1>4 DEF IInv, StagingInv, HasPart
  <2>. QED BY <1>0, <1>d, <1>4, <2>1 DEF Moved
<1>5. CASE pc \in Transferring /\ \E c : disk' = [disk EXCEPT ![part] = c]
  <2>1. part \in Parts
    BY <1>5 DEF IInv, StagingInv, HasPart
  <2>. QED BY <1>0, <1>d, <1>5, <2>1
<1>6. pc = "verified" => disk[Network] # "good"
  BY DEF InHandInv, HasPart
<1>. QED BY <1>1, <1>2, <1>3, <1>4, <1>5, <1>6 DEF DiskStep

\* How far the run is: it takes up the first network after the prune, and the
\* next one when the one in hand is valid.
LEMMA StepNext ==
    ASSUME IInv, DoneInv, [Next]_vars, manifest' = manifest
    PROVE  /\ pc' \in {"validate", "create", "list", "prune"} => next' = 1
           /\ pc' \in PastPrune =>
                 \/ next' = next /\ pc \in PastPrune
                 \/ next' = 1
                 \/ /\ next' = next + 1 /\ pc \in {"keep", "move"}
                    /\ disk'[Network] = "good"
<1>. USE DEF DoneInv, End, box, host, place, run, PastPrune, HasNetwork, HasPart, Transferring
<1>1. CASE \/ Validate \/ CreateDirectory \/ ListDirectory \/ PruneFile \/ PruneDone
           \/ NextNetwork
  BY <1>1 DEF Validate, CreateDirectory, ListDirectory, PruneFile, PruneDone, NextNetwork
<1>2. CASE Keep
  BY <1>2 DEF Keep, Verified
<1>3. CASE \/ Fetch \/ RegisterHandler \/ InstallTask \/ ResumeTask \/ CancelInstalled
           \/ TransferFailed \/ TransferDone
  BY <1>3 DEF Fetch, RegisterHandler, InstallTask, ResumeTask, CancelInstalled,
              TransferFailed, TransferDone
<1>4. CASE BeforeVerify \/ VerifyStaged \/ Replace
  BY <1>4 DEF BeforeVerify, CheckStaged, VerifyStaged, Replace
<1>5. CASE MoveIntoPlace
  <2>1. /\ disk[part] = "good" /\ part \in Parts /\ Network \in Names
        /\ disk \in [Files -> {"absent", "good", "bad"}]
    BY <1>5, NetworkType DEF MoveIntoPlace, IInv, StagingInv, TypeOK
  <2>2. pc' = "network" => disk'[Network] = "good"
    BY <1>5, <2>1, LoaderAssumption DEF MoveIntoPlace, Files
  <2>. QED BY <1>5, <2>2 DEF MoveIntoPlace
<1>6. CASE CompleteWithError \/ CompleteWithFile \/ Cancel \/ Crash \/ Restart
  BY <1>6 DEF CompleteWithError, CompleteWithFile, Cancel, Crash, Restart
<1>7. CASE Handler \/ UNCHANGED vars
  BY <1>7 DEF Handler, RequestCancel, CancelSeenTask, vars
<1>. QED
  BY <1>1, <1>2, <1>3, <1>4, <1>5, <1>6, <1>7 DEF Next, Loader

\* A manifest without repeated names is a bijection to the required networks.
LEMMA NoNameTwice ==
    ASSUME TypeOK, ValidManifest,
           NEW i \in DOMAIN manifest, NEW j \in DOMAIN manifest, i # j
    PROVE  manifest[i] # manifest[j]
<1>1. Len(manifest) \in Nat /\ DOMAIN manifest = 1..Len(manifest) /\ manifest \in Seq(Names)
  BY LoaderAssumption DEF TypeOK
<1>2. IsFiniteSet(1..Len(manifest)) /\ Cardinality(1..Len(manifest)) = Len(manifest)
  <2>1. /\ IsFiniteSet(1..Len(manifest))
        /\ Cardinality(1..Len(manifest))
             = IF 1 > Len(manifest) THEN 0 ELSE Len(manifest) - 1 + 1
    BY <1>1, FS_Interval
  <2>2. (IF 1 > Len(manifest) THEN 0 ELSE Len(manifest) - 1 + 1) = Len(manifest)
    BY <1>1
  <2>. QED BY <2>1, <2>2
<1>3. manifest \in Surjection(1..Len(manifest), Required)
  BY <1>1 DEF Surjection, Required
<1>4. manifest \in Injection(1..Len(manifest), Required)
  BY <1>2, <1>3, FS_SurjSameCardinalityImpliesInj DEF ValidManifest
<1>. QED BY <1>1, <1>4 DEF Injection, IsInjective

\* The networks dealt with are left alone: what is removed is not required, or
\* the network in hand, which is another one, or a staging file.
LEMMA StepKeepsDone ==
    ASSUME IInv, ManifestInv, DoneInv, DiskStep,
           pc \in PastPrune, NEW i \in 1..next - 1
    PROVE  disk'[manifest[i]] = "good"
<1>1. next \in 1..Len(manifest) + 1 /\ Len(manifest) \in Nat
      /\ DOMAIN manifest = 1..Len(manifest)
  BY LoaderAssumption DEF IInv, TypeOK
<1>2. i \in DOMAIN manifest /\ disk[manifest[i]] = "good" /\ manifest[i] \in Required
  BY <1>1 DEF DoneInv, Required
<1>3. manifest[i] \in Names /\ manifest[i] \in Files /\ manifest[i] \notin Parts
  BY <1>2, LoaderAssumption DEF IInv, TypeOK, Required, Files
<1>4. pc \in HasNetwork => manifest[i] # Network
  BY <1>1, <1>2, NoNameTwice
  DEF IInv, StagingInv, ManifestInv, Network, HasNetwork, HasPart, Transferring
<1>d. disk \in [Files -> {"absent", "good", "bad"}]
  BY DEF IInv, TypeOK
<1>5. CASE pc \in {"keep", "verified"} /\ disk' \in Removed(Network)
  BY <1>2, <1>3, <1>4, <1>5, RemovedType DEF IInv, HasNetwork, HasPart
<1>6. CASE pc \in HasPart /\ disk' \in Removed(part)
  BY <1>2, <1>3, <1>6, RemovedType DEF IInv, StagingInv
<1>7. CASE pc = "move" /\ disk' = Moved
  <2>1. disk[part] = "good" /\ part \in Parts
    BY <1>7 DEF IInv, StagingInv, HasPart
  <2>. QED BY <1>2, <1>3, <1>d, <1>7, <2>1 DEF Moved
<1>8. CASE pc \in Transferring /\ \E c : disk' = [disk EXCEPT ![part] = c]
  <2>1. part \in Parts
    BY <1>8 DEF IInv, StagingInv, HasPart
  <2>. QED BY <1>2, <1>3, <1>d, <1>8, <2>1
<1>9. pc # "prune"
  BY DEF PastPrune, HasNetwork, HasPart, Transferring
<1>. QED BY <1>2, <1>5, <1>6, <1>7, <1>8, <1>9 DEF DiskStep

LEMMA StepDone ==
    ASSUME IInv, ManifestInv, DoneInv, [Next]_vars, manifest' = manifest
    PROVE  DoneInv'
<1>. SUFFICES ASSUME pc' \in PastPrune, NEW i \in 1..next' - 1
              PROVE  disk'[manifest[i]] = "good"
  BY StepNext DEF DoneInv, PastPrune, HasNetwork, HasPart, Transferring
<1>1. next \in 1..Len(manifest) + 1 /\ Len(manifest) \in Nat
      /\ DOMAIN manifest = 1..Len(manifest)
  BY LoaderAssumption DEF IInv, TypeOK
<1>2. i \in 1..next - 1 /\ pc \in PastPrune => disk'[manifest[i]] = "good"
  BY StepKeepsDone, StepDisk
<1>3. CASE next' = next /\ pc \in PastPrune
  BY <1>2, <1>3
<1>4. CASE next' = 1
  BY <1>4
<1>5. CASE next' = next + 1 /\ pc \in {"keep", "move"} /\ disk'[Network] = "good"
  BY <1>1, <1>2, <1>5 DEF Network, PastPrune, HasNetwork, HasPart
<1>. QED BY <1>3, <1>4, <1>5, StepNext

LEMMA StepInHand ==
    ASSUME ~fsFails, IInv, InHandInv, [Next]_vars, manifest' = manifest
    PROVE  InHandInv'
<1>d. disk \in [Files -> {"absent", "good", "bad"}]
  BY DEF IInv, TypeOK
<1>n. pc \in HasNetwork => Network \in Names /\ Network \in Files /\ Network \notin Parts
  BY NetworkType DEF IInv, StagingInv, Files
<1>s. next' = next => Network' = Network
  BY SameManifest
<1>. USE DEF InHandInv, End, box, host, place, run, HasNetwork, HasPart, Transferring
<1>1. CASE \/ Validate \/ CreateDirectory \/ ListDirectory \/ PruneFile \/ PruneDone
           \/ NextNetwork
  BY <1>1 DEF Validate, CreateDirectory, ListDirectory, PruneFile, PruneDone, NextNetwork
<1>2. CASE Keep
  <2>1. pc' = "fetch" => disk'[Network] = "absent"
    BY <1>2, <1>n, RemovedType DEF Keep, IInv
  <2>. QED BY <1>2, <1>s, <2>1 DEF Keep
<1>3. CASE \/ Fetch \/ RegisterHandler \/ InstallTask \/ ResumeTask \/ CancelInstalled
           \/ TransferDone
  BY <1>3, <1>s DEF Fetch, RegisterHandler, InstallTask, ResumeTask, CancelInstalled,
                    TransferDone
<1>4. CASE TransferFailed
  <2>1. disk'[Network] \in {disk[Network], "absent"}
    BY <1>4, <1>n, RemovedType DEF TransferFailed, IInv
  <2>. QED BY <1>4, <1>s, <2>1 DEF TransferFailed
<1>5. CASE BeforeVerify \/ VerifyStaged
  <2>1. disk'[Network] \in {disk[Network], "absent"}
    BY <1>5, <1>n, RemovedType DEF BeforeVerify, CheckStaged, VerifyStaged, IInv
  <2>. QED BY <1>5, <1>s, <2>1 DEF BeforeVerify, CheckStaged, VerifyStaged
<1>6. CASE Replace
  <2>1. disk'[Network] \in {disk[Network], "absent"}
    BY <1>6, <1>n, RemovedType DEF Replace, CheckStaged, IInv
  <2>. QED BY <1>6, <1>s, <2>1 DEF Replace, CheckStaged
<1>7. CASE MoveIntoPlace
  BY <1>7 DEF MoveIntoPlace
<1>8. CASE CompleteWithFile
  <2>1. part \in Parts /\ pc \in Transferring
    BY <1>8 DEF CompleteWithFile, IInv, StagingInv
  <2>2. disk'[Network] = disk[Network]
    BY <1>8, <1>d, <1>n, <2>1 DEF CompleteWithFile
  <2>. QED BY <1>8, <1>s, <2>2 DEF CompleteWithFile
<1>9. CASE CompleteWithError \/ Cancel \/ Crash \/ Restart
  BY <1>9, <1>s DEF CompleteWithError, Cancel, Crash, Restart
<1>10. CASE Handler \/ UNCHANGED vars
  BY <1>10, <1>s DEF Handler, RequestCancel, CancelSeenTask, vars
<1>. QED
  BY <1>1, <1>2, <1>3, <1>4, <1>5, <1>6, <1>7, <1>8, <1>9, <1>10 DEF Next, Loader

\* A run that returns has left its last network behind it.
LEMMA StepOk ==
    ASSUME IInv, ExactInv, [Next]_vars, UNCHANGED <<manifest, fsFails>>, ~Restart
    PROVE  OkMeansExact'
<1>. SUFFICES ASSUME result' = "ok" PROVE OkMeansExact' BY DEF OkMeansExact
<1>0. manifest' = manifest /\ fsFails' = fsFails
  OBVIOUS
<1>1. CASE result = "ok" /\ disk' = disk
  BY <1>0, <1>1, SameManifest DEF ExactInv, OkMeansExact, RequiredNetworksSatisfied, Files
<1>2. CASE pc = "network" /\ next > Len(manifest) /\ disk' = disk
  <2>1. next = Len(manifest) + 1 /\ Len(manifest) \in Nat /\ DOMAIN manifest = 1..Len(manifest)
    BY <1>2, LoaderAssumption DEF IInv, TypeOK
  <2>2. \A n \in Required : disk[n] = "good"
    BY <1>2, <2>1 DEF ExactInv, DoneInv, Required, PastPrune
  <2>3. ~fsFails => \A f \in Files \ Required : disk[f] = "absent"
    BY <1>2 DEF ExactInv, ExtraInv, PastPrune, HasPart, Transferring
  <2>4. ValidManifest
    BY <1>2 DEF ExactInv, ManifestInv
  <2>. QED
    BY <1>0, <1>2, <2>2, <2>3, <2>4, SameManifest DEF OkMeansExact, RequiredNetworksSatisfied, Files
<1>. QED BY <1>1, <1>2, StepResult DEF ExactInv

LEMMA ExactInductive ==
    /\ Init => ExactInv
    /\ IInv /\ ExactInv /\ [Next]_vars => ExactInv'
<1>1. ASSUME Init PROVE ExactInv
  BY <1>1 DEF Init, ExactInv, ManifestInv, ExtraInv, DoneInv, InHandInv, ResultInv,
              OkMeansExact, PastPrune, HasNetwork, HasPart, Transferring
<1>2. ASSUME IInv, ExactInv, Restart PROVE ExactInv'
  BY <1>2 DEF Restart, ExactInv, ManifestInv, ExtraInv, DoneInv, InHandInv, ResultInv,
              OkMeansExact, PastPrune, HasNetwork, HasPart, Transferring
<1>3. ASSUME IInv, ExactInv, [Next]_vars, ~Restart PROVE ExactInv'
  <2>1. manifest' = manifest /\ fsFails' = fsFails /\ ResultInv'
    BY <1>3, StepResult DEF ExactInv
  <2>2. ManifestInv' /\ ExtraInv' /\ DoneInv' /\ InHandInv'
    <3>1. ManifestInv' /\ DoneInv'
      BY <1>3, <2>1, StepManifest, StepDone DEF ExactInv
    <3>2. CASE fsFails
      BY <2>1, <3>1, <3>2 DEF ExtraInv, InHandInv
    <3>3. CASE ~fsFails
      BY <1>3, <2>1, <3>1, <3>3, StepExtra, StepInHand DEF ExactInv
    <3>. QED BY <3>2, <3>3
  <2>3. OkMeansExact'
    BY <1>3, <2>1, StepOk
  <2>. QED BY <2>1, <2>2, <2>3 DEF ExactInv
<1>. QED BY <1>1, <1>2, <1>3

\* A call that returns leaves every required network valid, whichever file
\* operations fail, and nothing else if none does, after any number of crashes
\* and cancellations.
THEOREM OkIsExact == Spec => []OkMeansExact
<1>1. Init => ExactInv
  BY ExactInductive
<1>2. IInv /\ ExactInv /\ [Next]_vars => ExactInv'
  BY ExactInductive
<1>3. ExactInv => OkMeansExact
  BY DEF ExactInv
<1>. QED BY <1>1, <1>2, <1>3, Invariance, PTL DEF Spec

\* If the file operations succeed, no step of any run removes or damages a
\* valid network that the run requires.
THEOREM ValidSurvives == Spec => ValidIsKept
<1>1. Init => ExactInv
  BY ExactInductive
<1>2. IInv /\ ExactInv /\ [Next]_vars => ExactInv'
  BY ExactInductive
<1>3. IInv /\ ExactInv /\ [Next]_vars
        => [~fsFails => \A n \in Required : disk[n] = "good" => disk'[n] = "good"]_vars
  BY StepDisk, StepKeeps DEF ExactInv
<1>. QED BY <1>1, <1>2, <1>3, Invariance, PTL DEF Spec, ValidIsKept
====
