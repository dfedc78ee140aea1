---- MODULE NetworkLoader ----
(* StockfishNetworkLoader.ensure: make one directory hold exactly the      *)
(* networks of a manifest.  A run validates the manifest, prunes, and then *)
(* keeps or downloads each network in turn.  The host may cancel the task  *)
(* at any time, from a thread of its own; the process may die at any time, *)
(* and the next run, perhaps of an upgraded program with another manifest, *)
(* finds the directory as it was left.                                     *)
(*                                                                         *)
(* A file is absent, good (its digest is the expected one) or bad.  The    *)
(* download service is external: it answers with good bytes, bad bytes, an *)
(* HTTP error or a transport error, or it never answers.                   *)
EXTENDS Naturals, Sequences, FiniteSets

CONSTANTS Names,      \* nn-*.nnue file names that may be in the directory
          Malformed,  \* names whose manifest entry is not valid
          Manifests,  \* the manifests a run may be given: sequences of names
          Parts,      \* staging files, one per UUID in use at the same time
          NoPart,     \* no staging file
          MaxRuns     \* bound: calls of ensure, restarts of the process included

ASSUME LoaderAssumption ==
    /\ Malformed \subseteq Names
    /\ Manifests \subseteq Seq(Names)
    /\ NoPart \notin Parts /\ Names \cap Parts = {}
    /\ MaxRuns \in Nat \ {0}

VARIABLES
    disk,         \* content of every file of the directory
    pc,           \* where the run is
    manifest,     \* its networks
    listing,      \* files the prune has still to look at
    next,         \* index of the network in hand
    source,       \* index into Source.preferenceOrder
    part,         \* the staging file of the download in hand
    result,       \* what ensure returned or threw
    runs,         \* calls of ensure so far
    fsFails,      \* may a removal, a move, a read or a directory call fail in this run?
    cancelled,    \* the task's cancellation flag
    handler,      \* is the transport's onCancel handler registered?
    hostPc,       \* the cancelling thread, inside the handler
    task,         \* the box's download task, as URLSession has it
    boxCancel,    \* cancellationRequested
    shouldCancel, \* its value when the task was installed
    outcome       \* what the continuation was resumed with

box   == <<task, boxCancel, shouldCancel, outcome>>
host  == <<cancelled, hostPc>>
place == <<next, source, part>>
run   == <<manifest, runs, fsFails>>
vars  == <<disk, pc, manifest, listing, next, source, part, result, runs, fsFails,
           cancelled, handler, hostPc, task, boxCancel, shouldCancel, outcome>>

Files == Names \cup Parts
Required == {manifest[i] : i \in DOMAIN manifest}
Sources == 1..2
Network == manifest[next]
Results == {"none", "ok", "invalid", "cancelled", "fileSystem", "allSourcesFailed"}
Outcomes == {"none", "good", "bad", "http", "error", "fileSystem", "cancelled"}
Steps == {"validate", "create", "list", "prune", "network", "keep", "fetch",
          "register", "install", "resume", "recheck", "await", "staged",
          "verify", "verified", "move", "ended", "dead"}

Running == pc \notin {"ended", "dead"}

----------------------------------------------------------------------------
(* Helpers *)

\* validateManifest: every entry is valid and no file is named twice.
ValidManifest ==
    /\ Required \cap Malformed = {}
    /\ Cardinality(Required) = Len(manifest)

\* What `try? fm.removeItem` may leave behind.
Removed(f) == {[disk EXCEPT ![f] = "absent"]} \cup IF fsFails THEN {disk} ELSE {}

\* Mutant: a file that is present is taken to be valid.
PresentIsVerified(f) == {disk[f] # "absent"}

\* What verify may return for a file: a file that cannot be opened is not valid.
Verified(f) == {disk[f] = "good"} \cup IF fsFails THEN {FALSE} ELSE {}

\* The pre-flight of StockfishEngine.init, when every file can be read.
RequiredNetworksSatisfied == ValidManifest /\ \A n \in Required : disk[n] = "good"

\* ensure leaves with r.
End(r) == pc' = "ended" /\ result' = r

----------------------------------------------------------------------------
(* ensure up to the loop over the networks *)

Init ==
    /\ disk \in [Files -> {"absent", "good", "bad"}]
    /\ \A p \in Parts : disk[p] = "absent"
    /\ manifest \in Manifests /\ fsFails \in BOOLEAN
    /\ pc = "validate" /\ listing = {} /\ result = "none" /\ runs = 1
    /\ next = 1 /\ source = 1 /\ part = NoPart
    /\ cancelled = FALSE /\ handler = FALSE /\ hostPc = "idle"
    /\ task = "none" /\ boxCancel = FALSE /\ shouldCancel = FALSE /\ outcome = "none"

\* Mutant: the manifest is not validated first.
ValidateNothing ==
    /\ pc = "validate"
    /\ \/ cancelled /\ End("cancelled")
       \/ ~cancelled /\ pc' = "create" /\ UNCHANGED result
    /\ UNCHANGED <<disk, listing, place, run, host, handler, box>>

Validate ==
    /\ pc = "validate"
    /\ \/ cancelled /\ End("cancelled")
       \/ ~cancelled /\ ~ValidManifest /\ End("invalid")
       \/ ~cancelled /\ ValidManifest /\ pc' = "create" /\ UNCHANGED result
    /\ UNCHANGED <<disk, listing, place, run, host, handler, box>>

CreateDirectory ==
    /\ pc = "create"
    /\ \/ fsFails /\ End("fileSystem")
       \/ cancelled /\ End("cancelled")
       \/ ~cancelled /\ pc' = "list" /\ UNCHANGED result
    /\ UNCHANGED <<disk, listing, place, run, host, handler, box>>

\* Mutant: the enumeration skips hidden files.
ListVisible ==
    /\ pc = "list" /\ pc' = "prune"
    /\ listing' = {f \in Names : disk[f] # "absent"}
    /\ UNCHANGED <<disk, result, place, run, host, handler, box>>

\* pruneStaleNetworks enumerates the directory ...
ListDirectory ==
    /\ pc = "list"
    /\ \/ fsFails /\ End("fileSystem") /\ UNCHANGED listing
       \/ /\ pc' = "prune"
          /\ listing' = {f \in Files : disk[f] # "absent"}
          /\ UNCHANGED result
    /\ UNCHANGED <<disk, place, run, host, handler, box>>

\* ... and removes staging files and networks that are not required.
PruneFile ==
    /\ pc = "prune"
    /\ \E f \in listing :
          /\ listing' = listing \ {f}
          /\ IF f \in Required THEN UNCHANGED disk ELSE disk' \in Removed(f)
    /\ UNCHANGED <<pc, result, place, run, host, handler, box>>

PruneDone ==
    /\ pc = "prune" /\ listing = {}
    /\ IF cancelled THEN End("cancelled") ELSE pc' = "network" /\ UNCHANGED result
    /\ UNCHANGED <<disk, listing, place, run, host, handler, box>>

----------------------------------------------------------------------------
(* One network *)

NextNetwork ==
    /\ pc = "network"
    /\ \/ next > Len(manifest) /\ End("ok")
       \/ next <= Len(manifest) /\ cancelled /\ End("cancelled")
       \/ next <= Len(manifest) /\ ~cancelled /\ pc' = "keep" /\ UNCHANGED result
    /\ UNCHANGED <<disk, listing, place, run, host, handler, box>>

\* Mutant: a cancelled verification counts as one that failed.
KeepUnlessCancelled ==
    /\ pc = "keep"
    /\ \/ /\ disk[Network] = "good" /\ ~cancelled
          /\ pc' = "network" /\ next' = next + 1
          /\ UNCHANGED <<disk, source, part, result>>
       \/ /\ disk[Network] # "good" \/ cancelled
          /\ disk' \in Removed(Network)
          /\ pc' = "fetch" /\ source' = 1
          /\ UNCHANGED <<next, part, result>>
    /\ UNCHANGED <<listing, run, host, handler, box>>

Keep ==
    /\ pc = "keep"
    /\ \E valid \in Verified(Network) :
          \/ /\ valid /\ cancelled /\ End("cancelled")
             /\ UNCHANGED <<disk, place>>
          \/ /\ valid /\ ~cancelled
             /\ pc' = "network" /\ next' = next + 1
             /\ UNCHANGED <<disk, source, part, result>>
          \/ /\ ~valid
             /\ disk' \in Removed(Network)
             /\ pc' = "fetch" /\ source' = 1
             /\ UNCHANGED <<next, part, result>>
    /\ UNCHANGED <<listing, run, host, handler, box>>

\* Mutant: cancellation is not looked at before the next source.
FetchUnchecked ==
    /\ pc = "fetch"
    /\ \/ source \notin Sources /\ End("allSourcesFailed") /\ UNCHANGED part
       \/ /\ source \in Sources
          /\ \E p \in Parts : disk[p] = "absent" /\ part' = p
          /\ pc' = "register" /\ UNCHANGED result
    /\ UNCHANGED <<disk, listing, next, source, run, host, handler, box>>

\* The next source, if there is one; its staging file gets a fresh name.
Fetch ==
    /\ pc = "fetch"
    /\ \/ /\ source \notin Sources /\ End("allSourcesFailed")
          /\ UNCHANGED part
       \/ /\ source \in Sources /\ cancelled /\ End("cancelled")
          /\ UNCHANGED part
       \/ /\ source \in Sources /\ ~cancelled
          /\ \E p \in Parts : disk[p] = "absent" /\ part' = p
          /\ pc' = "register" /\ UNCHANGED result
    /\ UNCHANGED <<disk, listing, next, source, run, host, handler, box>>

\* withTaskCancellationHandler on a new box.  A task that is cancelled already
\* runs onCancel here: the box has no task to cancel and only notes the wish.
RegisterHandler ==
    /\ pc = "register" /\ pc' = "install"
    /\ handler' = TRUE
    /\ task' = "none" /\ boxCancel' = cancelled
    /\ shouldCancel' = FALSE /\ outcome' = "none"
    /\ UNCHANGED <<disk, listing, result, place, run, host>>

\* Mutant: the task is installed without a look at cancellationRequested.
InstallUnasked ==
    /\ pc = "install" /\ pc' = "resume"
    /\ task' = "created"
    /\ UNCHANGED <<disk, listing, result, place, run, host, handler,
                   boxCancel, shouldCancel, outcome>>

\* The locked part of installAndResume.
InstallTask ==
    /\ pc = "install" /\ pc' = "resume"
    /\ task' = "created"
    /\ shouldCancel' = boxCancel
    /\ UNCHANGED <<disk, listing, result, place, run, host, handler, boxCancel, outcome>>

\* task.resume(): nothing happens to a task that was cancelled.
ResumeTask ==
    /\ pc = "resume" /\ pc' = "recheck"
    /\ task' = IF task = "created" THEN "running" ELSE task
    /\ UNCHANGED <<disk, listing, result, place, run, host, handler,
                   boxCancel, shouldCancel, outcome>>

\* URLSessionTask.cancel: a task that has completed is not affected.
CancelTask == task' = IF task \in {"created", "running"} THEN "cancelled" ELSE task

CancelInstalled ==
    /\ pc = "recheck" /\ pc' = "await"
    /\ IF shouldCancel THEN CancelTask ELSE UNCHANGED task
    /\ UNCHANGED <<disk, listing, result, place, run, host, handler,
                   boxCancel, shouldCancel, outcome>>

----------------------------------------------------------------------------
(* URLSession calls the completion handler, on a queue of its own *)

\* Mutant: a cancelled transfer is reported as a network error.
CompleteAsNetworkError ==
    /\ Running
    /\ \/ task = "running" /\ task' = "done"
       \/ task = "cancelled" /\ outcome = "none" /\ UNCHANGED task
    /\ outcome' = "error"
    /\ UNCHANGED <<disk, pc, listing, result, place, run, host, handler,
                   boxCancel, shouldCancel>>

\* An error: what it is called depends on the box at this moment.
CompleteWithError ==
    /\ Running
    /\ \/ task = "running" /\ task' = "done"
       \/ task = "cancelled" /\ outcome = "none" /\ UNCHANGED task
    /\ outcome' = IF boxCancel THEN "cancelled" ELSE "error"
    /\ UNCHANGED <<disk, pc, listing, result, place, run, host, handler,
                   boxCancel, shouldCancel>>

\* Bytes arrived, possibly an error page: they are moved to the staging file
\* before the handler returns.
CompleteWithFile ==
    /\ Running
    /\ task = "running" /\ task' = "done"
    /\ \/ /\ outcome' \in {"good", "bad", "http"}
          /\ disk' = [disk EXCEPT ![part] = IF outcome' = "good" THEN "good" ELSE "bad"]
       \/ fsFails /\ outcome' = "fileSystem" /\ UNCHANGED disk
    /\ UNCHANGED <<pc, listing, result, place, run, host, handler,
                   boxCancel, shouldCancel>>

----------------------------------------------------------------------------
(* download, after the transport *)

\* The transport throws, or the status is not 2xx: the staging file goes.  Only
\* an error of the transfer or of the server moves on to the next source.
TransferFailed ==
    /\ pc = "await" /\ outcome \in {"http", "error", "fileSystem", "cancelled"}
    /\ handler' = FALSE
    /\ disk' \in Removed(part) /\ part' = NoPart
    /\ \/ /\ outcome \in {"http", "error"}
          /\ pc' = "fetch" /\ source' = source + 1 /\ UNCHANGED result
       \/ /\ outcome \in {"fileSystem", "cancelled"}
          /\ End(outcome) /\ UNCHANGED source
    /\ UNCHANGED <<listing, next, run, host, box>>

TransferDone ==
    /\ pc = "await" /\ outcome \in {"good", "bad"}
    /\ handler' = FALSE
    /\ pc' = "staged"
    /\ UNCHANGED <<disk, listing, result, place, run, host, box>>

\* Task.checkCancellation with a staging file in hand: the defer removes it.
CheckStaged(from, to) ==
    /\ pc = from
    /\ \/ /\ cancelled /\ End("cancelled")
          /\ disk' \in Removed(part) /\ part' = NoPart
       \/ /\ ~cancelled /\ pc' = to
          /\ UNCHANGED <<disk, part, result>>
    /\ UNCHANGED <<listing, next, source, run, host, handler, box>>

BeforeVerify == CheckStaged("staged", "verify")

\* Mutant: the download is installed without verification.
VerifyNothing ==
    /\ pc = "verify" /\ pc' = "verified"
    /\ UNCHANGED <<disk, listing, result, place, run, host, handler, box>>

VerifyStaged ==
    /\ pc = "verify"
    /\ \E valid \in Verified(part) :
          \/ valid /\ pc' = "verified" /\ UNCHANGED <<disk, source, part>>
          \/ /\ ~valid
             /\ disk' \in Removed(part) /\ part' = NoPart
             /\ pc' = "fetch" /\ source' = source + 1
    /\ UNCHANGED <<listing, result, next, run, host, handler, box>>

\* The check before the installation, then the removal of what is in the way.
Replace ==
    \/ cancelled /\ CheckStaged("verified", "move")
    \/ /\ pc = "verified" /\ ~cancelled /\ pc' = "move"
       /\ disk' \in Removed(Network)
       /\ UNCHANGED <<listing, result, place, run, host, handler, box>>

\* moveItem fails if the destination is still there.
MoveIntoPlace ==
    /\ pc = "move" /\ part' = NoPart
    /\ \/ /\ disk[Network] = "absent"
          /\ disk' = [disk EXCEPT ![Network] = disk[part], ![part] = "absent"]
          /\ pc' = "network" /\ next' = next + 1 /\ UNCHANGED result
       \/ /\ disk[Network] # "absent" \/ fsFails
          /\ End("fileSystem") /\ disk' \in Removed(part) /\ UNCHANGED next
    /\ UNCHANGED <<listing, source, run, host, handler, box>>

----------------------------------------------------------------------------
(* The host: Task.cancel, and the handler it runs *)

Cancel ==
    /\ Running /\ ~cancelled
    /\ cancelled' = TRUE
    /\ hostPc' = IF handler THEN "onCancel" ELSE "idle"
    /\ UNCHANGED <<disk, pc, listing, result, place, run, handler, box>>

\* The locked part of the box's cancel; nothing is left to do without a task.
RequestCancel ==
    /\ hostPc = "onCancel"
    /\ boxCancel' = TRUE
    /\ hostPc' = IF task = "none" THEN "idle" ELSE "cancelTask"
    /\ UNCHANGED <<disk, pc, listing, result, place, run, cancelled, handler,
                   task, shouldCancel, outcome>>

CancelSeenTask ==
    /\ hostPc = "cancelTask" /\ hostPc' = "idle"
    /\ CancelTask
    /\ UNCHANGED <<disk, pc, listing, result, place, run, cancelled, handler,
                   boxCancel, shouldCancel, outcome>>

----------------------------------------------------------------------------
(* The process dies; the directory stays.  Another call of ensure. *)

Crash ==
    /\ Running /\ pc' = "dead" /\ hostPc' = "idle"
    /\ UNCHANGED <<disk, listing, result, place, run, cancelled, handler, box>>

Restart ==
    /\ ~Running /\ hostPc = "idle" /\ runs < MaxRuns
    /\ runs' = runs + 1 /\ manifest' \in Manifests /\ fsFails' \in BOOLEAN
    /\ pc' = "validate" /\ listing' = {} /\ result' = "none"
    /\ next' = 1 /\ source' = 1 /\ part' = NoPart
    /\ cancelled' = FALSE /\ handler' = FALSE
    /\ task' = "none" /\ boxCancel' = FALSE /\ shouldCancel' = FALSE /\ outcome' = "none"
    /\ UNCHANGED <<disk, hostPc>>

Loader ==
    \/ Validate \/ CreateDirectory \/ ListDirectory \/ PruneFile \/ PruneDone
    \/ NextNetwork \/ Keep \/ Fetch \/ RegisterHandler \/ InstallTask \/ ResumeTask
    \/ CancelInstalled \/ TransferFailed \/ TransferDone \/ BeforeVerify
    \/ VerifyStaged \/ Replace \/ MoveIntoPlace

Handler == RequestCancel \/ CancelSeenTask

Next == Loader \/ CompleteWithError \/ CompleteWithFile \/ Cancel \/ Handler \/ Crash \/ Restart

Spec == Init /\ [][Next]_vars

\* The run and the handler go on, and URLSession reports a cancelled task.
\* Nothing is promised of the service: a transfer may hang for ever.
Fairness ==
    /\ WF_vars(Loader)
    /\ WF_vars(Handler)
    /\ WF_vars(task = "cancelled" /\ CompleteWithError)

FairSpec == Spec /\ Fairness

----------------------------------------------------------------------------
(* Properties *)

\* Type correctness of the directory, the run, the box and the host.
TypeOK ==
    /\ disk \in [Files -> {"absent", "good", "bad"}]
    /\ pc \in Steps /\ manifest \in Manifests /\ listing \subseteq Files
    /\ next \in 1..Len(manifest) + 1 /\ source \in 1..3 /\ part \in Parts \cup {NoPart}
    /\ result \in Results /\ runs \in 1..MaxRuns /\ fsFails \in BOOLEAN
    /\ cancelled \in BOOLEAN /\ handler \in BOOLEAN
    /\ hostPc \in {"idle", "onCancel", "cancelTask"}
    /\ task \in {"none", "created", "running", "cancelled", "done"}
    /\ boxCancel \in BOOLEAN /\ shouldCancel \in BOOLEAN /\ outcome \in Outcomes

\* When ensure returns, the pre-flight of the engine accepts the directory, and
\* unless a removal failed no other network and no staging file is left in it.
OkMeansExact ==
    result = "ok" => /\ RequiredNetworksSatisfied
                     /\ ~fsFails => \A f \in Files \ Required : disk[f] = "absent"

\* However a run without failing removals ends that came as far as a transfer (success, cancellation, no
\* source left), its staging file is gone, and so are those of dead runs.
NoStagingLeft ==
    ~fsFails /\ pc = "ended" /\ task # "none" => \A p \in Parts : disk[p] = "absent"

\* A required network is only ever removed or replaced by verified bytes: no
\* failed, cancelled or interrupted download leaves a corrupt one behind.
NeverInstallsCorrupt ==
    [][\A n \in Names : disk'[n] # disk[n] => disk'[n] \in {"absent", "good"}]_vars

\* If no file operation fails, a valid network that is required is never removed: not by the prune, not by a
\* retry, a cancellation or the run after a crash.
ValidIsKept ==
    [][~fsFails => \A n \in Required : disk[n] = "good" => disk'[n] = "good"]_vars

\* A run whose manifest is refused changes nothing in the directory.
InvalidTouchesNothing == [][~ValidManifest => UNCHANGED disk]_vars

\* A run whose transfer was cancelled ends as cancelled, never as a failed source.
CancelledTransferIsCancelled ==
    pc = "ended" /\ task = "cancelled" => result = "cancelled"

\* Once a box with a task was asked to cancel, the run opens no further box: a
\* cancellation never moves on to the other source or to the next network.
NoFallbackAfterCancel ==
    [][boxCancel /\ task # "none" /\ Running => task' # "none"]_vars

\* Every run leaves matters settled: no second source after a cancellation, which
\* is reported as one, no staging file, no valid network lost, and nothing changed
\* by a refused manifest.
RunsEndClean ==
    /\ NoFallbackAfterCancel /\ InvalidTouchesNothing /\ ValidIsKept
    /\ [](NoStagingLeft /\ CancelledTransferIsCancelled)

\* A cancelled run ends, even if the service never answers and whenever the
\* cancellation comes: before the handler, the task, its start or its end.
CancelEnds == cancelled ~> ~Running
====
