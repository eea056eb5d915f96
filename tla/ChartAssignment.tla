--------------------------- MODULE ChartAssignment ---------------------------
(***************************************************************************)
(* The ChartAssignment controller (pkg/controller/chartassignment): the    *)
(* reconciler of controller.go and the release cache of release.go, for    *)
(* one ChartAssignment name that is created, edited, deleted and created   *)
(* again.                                                                  *)
(*                                                                         *)
(* Reconcile reads the assignment from the informer's cache, which lags    *)
(* behind the API server, and writes with optimistic locking.  The work    *)
(* itself is done by the release's actor goroutine, which takes a function *)
(* only while it waits for one: start() never blocks.  The two share the   *)
(* release status (under a lock) and the field generation (under none).    *)
(*                                                                         *)
(* Synk is its contract here, not its code: Apply puts one version of the  *)
(* chart's resources in place or fails, Delete removes them or fails.      *)
(***************************************************************************)
EXTENDS Naturals

CONSTANTS
    MaxInc,          \* bound: times the assignment is created
    MaxGen,          \* bound: generations of one creation (spec edits)
    MaxFaults,       \* bound: failed calls and controller restarts
    CopyPullSecret   \* copyPullSecret of Add

ASSUME AssignmentConstants ==
    /\ MaxInc \in Nat
    /\ MaxGen \in Nat \ {0}
    /\ MaxFaults \in Nat
    /\ CopyPullSecret \in BOOLEAN

VARIABLES
    ca,          \* the ChartAssignment in the API server
    cache,       \* the informer's copy of it
    cacheFresh,  \* the copy has the current resourceVersion
    queued,      \* the assignment is in the work queue (or will be, after a delay)
    pc,          \* where Reconcile is
    as,          \* its copy of the assignment
    asFresh,     \* that copy has the current resourceVersion
    seen,        \* the release phase that setStatus has read
    ns,          \* the application's Namespace and its default ServiceAccount
    rel,         \* the release in the releases map
    actor,       \* its goroutine, and the function it runs
    rset,        \* the ResourceSet: the version synk applied
    delFailed,   \* synk.Delete has failed since the last Apply
    faults       \* failures so far

apiVars == <<ca, cache, cacheFresh>>
loopVars == <<queued, pc, as, asFresh, seen>>
relVars == <<rel, actor, rset, delFailed>>
vars == <<apiVars, loopVars, ns, relVars, faults>>

Phases == {"", "Accepted", "LoadingChart", "Updating", "Settled", "Ready", "Failed",
           "Deleting", "Deleted"}

\* st: absent, alive, or deleting (deletionTimestamp set, held by the finalizer).
Absent == [st |-> "absent", inc |-> 0, gen |-> 0, fin |-> FALSE, phase |-> "", obs |-> 0]

\* What the controller reads of its copies.
View(c) == [st |-> c.st, inc |-> c.inc, gen |-> c.gen, fin |-> c.fin]

NoRelease == [exists |-> FALSE, gen |-> 0, phase |-> "", retry |-> FALSE]
NewRelease == [exists |-> TRUE, gen |-> 0, phase |-> "Accepted", retry |-> FALSE]

\* The actor's goroutine is none, starting (not yet receiving), idle (receiving)
\* or inside update or delete, for the version (inc, gen) of the assignment.
ActorAt(step) == [step |-> step, inc |-> 0, gen |-> 0]
NoSet == [inc |-> 0, gen |-> 0, ok |-> FALSE]

Init ==
    /\ ca = Absent
    /\ cache = View(Absent)
    /\ cacheFresh = TRUE
    /\ queued = FALSE
    /\ pc = "idle"
    /\ as = View(Absent)
    /\ asFresh = FALSE
    /\ seen = ""
    /\ ns = "absent"
    /\ rel = NoRelease
    /\ actor = ActorAt("none")
    /\ rset = NoSet
    /\ delFailed = FALSE
    /\ faults = 0

Fault == faults < MaxFaults /\ faults' = faults + 1

-----------------------------------------------------------------------------
(* The API server, its users and the other controllers.                    *)

\* Somebody else writes the assignment: every copy is out of date.
UserWrites(new) ==
    /\ ca' = new
    /\ cacheFresh' = FALSE
    /\ asFresh' = FALSE
    /\ UNCHANGED <<cache, queued, pc, as, seen, ns, relVars, faults>>

Create ==
    /\ ca.st = "absent"
    /\ ca.inc < MaxInc
    /\ UserWrites([Absent EXCEPT !.st = "alive", !.inc = ca.inc + 1, !.gen = 1])

\* validate refuses an edit of the cluster or the namespace: the chart and its values
\* are what an edit changes.
Edit ==
    /\ ca.st = "alive"
    /\ ca.gen < MaxGen
    /\ UserWrites([ca EXCEPT !.gen = @ + 1])

Remove ==
    /\ ca.st = "alive"
    /\ UserWrites([ca EXCEPT !.st = IF ca.fin THEN "deleting" ELSE "absent"])

\* The watch delivers the current version and enqueues the assignment.
CacheUpdate ==
    /\ ~cacheFresh
    /\ cache' = View(ca)
    /\ cacheFresh' = TRUE
    /\ queued' = TRUE
    /\ UNCHANGED <<ca, pc, as, asFresh, seen, ns, relVars, faults>>

\* The ServiceAccount controller serves a new namespace.
ServiceAccountCreated ==
    /\ ns = "new"
    /\ ns' = "active"
    /\ UNCHANGED <<apiVars, loopVars, relVars, faults>>

\* A deleted namespace is gone.
NamespaceGone ==
    /\ ns = "terminating"
    /\ ns' = "absent"
    /\ UNCHANGED <<apiVars, loopVars, relVars, faults>>

-----------------------------------------------------------------------------
(* Reconcile and reconcile.                                                *)

\* Reconcile returns; requeue covers RequeueAfter and the backoff of an error.
Done(requeue) ==
    /\ queued' = (queued \/ requeue)
    /\ pc' = "idle"
    /\ as' = View(Absent)
    /\ asFresh' = FALSE
    /\ seen' = ""

\* Reconcile goes on.
Goto(next) == pc' = next /\ UNCHANGED <<queued, as, asFresh, seen>>

\* The controller writes the assignment with its own copy's resourceVersion.
\* An update that changes nothing leaves the resourceVersion as it is.
Write(new) ==
    /\ asFresh
    /\ ca' = new
    /\ cacheFresh' = (cacheFresh /\ new = ca)

Reconcile ==
    /\ pc = "idle"
    /\ queued
    /\ queued' = FALSE
    /\ IF cache.st = "absent" THEN UNCHANGED <<pc, as, asFresh>>
       ELSE /\ pc' = IF cache.st = "alive" THEN "namespace" ELSE "delete"
            /\ as' = cache
            /\ asFresh' = cacheFresh
    /\ UNCHANGED <<apiVars, seen, ns, relVars, faults>>

\* Any call to the API server can fail; Reconcile returns the error.
CallFails ==
    /\ pc \in {"namespace", "finalizer", "write", "nsdelete", "unfinalize"}
    /\ Fault
    /\ Done(TRUE)
    /\ UNCHANGED <<apiVars, ns, relVars>>

\* ensureNamespace and ensureServiceAccount: a namespace that is going away, or
\* whose ServiceAccount is missing, is waited for.
EnsureNamespace ==
    /\ pc = "namespace"
    /\ ns' = IF ns = "absent" THEN "new" ELSE ns
    /\ IF ns' = "active" \/ (ns' = "new" /\ ~CopyPullSecret)
       THEN Goto("finalizer") ELSE Done(TRUE)
    /\ UNCHANGED <<apiVars, relVars, faults>>

AddFinalizer ==
    /\ pc = "finalizer"
    /\ IF as.fin THEN UNCHANGED <<ca, cacheFresh>> ELSE Write([ca EXCEPT !.fin = TRUE])
    /\ as' = [as EXCEPT !.fin = TRUE]
    /\ pc' = "check"
    /\ UNCHANGED <<cache, queued, asFresh, seen, ns, relVars, faults>>

\* releases.add: a new release starts its goroutine.
AddRelease ==
    IF rel.exists THEN UNCHANGED <<rel, actor>>
    ELSE rel' = NewRelease /\ actor' = ActorAt("starting")

\* ensureUpdated, one step per access to what it shares with the actor.
CheckGeneration ==
    /\ pc = "check"
    /\ AddRelease
    /\ Goto(IF rel'.gen = as.gen /\ ~rel'.retry THEN "status" ELSE "start")
    /\ UNCHANGED <<apiVars, ns, rset, delFailed, faults>>

StartUpdate ==
    /\ pc = "start"
    /\ IF actor.step = "idle"
       THEN /\ actor' = [step |-> "update", inc |-> as.inc, gen |-> as.gen]
            /\ Goto("record")
       ELSE Goto("status") /\ UNCHANGED actor
    /\ UNCHANGED <<apiVars, ns, rel, rset, delFailed, faults>>

\* Mutant of RecordGeneration: updates are counted.
RecordGenerationCounts ==
    /\ pc = "record"
    /\ rel' = [rel EXCEPT !.gen = @ + 1]
    /\ Goto("status")
    /\ UNCHANGED <<apiVars, ns, actor, rset, delFailed, faults>>

RecordGeneration ==
    /\ pc = "record"
    /\ rel' = [rel EXCEPT !.gen = as.gen]
    /\ Goto("status")
    /\ UNCHANGED <<apiVars, ns, actor, rset, delFailed, faults>>

\* setStatus reads the release's status; a deleted one is not written.
ReadStatus ==
    /\ pc = "status"
    /\ IF rel.phase = "Deleted" THEN Done(TRUE)
       ELSE seen' = rel.phase /\ pc' = "write" /\ UNCHANGED <<queued, as, asFresh>>
    /\ UNCHANGED <<apiVars, ns, relVars, faults>>

\* Mutant of WriteStatus: a generation that was observed is not reported again.
WriteStatusOnce(allRunning) ==
    /\ pc = "write"
    /\ allRunning => seen = "Settled" /\ ns # "absent"
    /\ IF asFresh /\ ca.obs = as.gen THEN UNCHANGED <<ca, cacheFresh>>
       ELSE Write([ca EXCEPT !.phase = IF allRunning THEN "Ready" ELSE seen, !.obs = as.gen])
    /\ Done(TRUE)
    /\ UNCHANGED <<cache, ns, relVars, faults>>

\* Mutant of WriteStatus: the assignment is not requeued.
WriteStatusWaits(allRunning) ==
    /\ pc = "write"
    /\ allRunning => seen = "Settled" /\ ns # "absent"
    /\ Write([ca EXCEPT !.phase = IF allRunning THEN "Ready" ELSE seen, !.obs = as.gen])
    /\ Done(FALSE)
    /\ UNCHANGED <<cache, ns, relVars, faults>>

\* The rest of setStatus; allRunning: every pod of the namespace is running.
WriteStatus(allRunning) ==
    /\ pc = "write"
    /\ allRunning => seen = "Settled" /\ ns # "absent"
    /\ Write([ca EXCEPT !.phase = IF allRunning THEN "Ready" ELSE seen, !.obs = as.gen])
    /\ Done(TRUE)
    /\ UNCHANGED <<cache, ns, relVars, faults>>

\* The copy is out of date.  Only a status conflict of a live assignment is not
\* an error: the event that brings the new version is waited for.
WriteConflict ==
    /\ pc \in {"finalizer", "write", "unfinalize"}
    /\ pc = "finalizer" => ~as.fin
    /\ ~asFresh
    /\ Done(~(pc = "write" /\ as.st = "alive" /\ ca.st # "absent"))
    /\ UNCHANGED <<apiVars, ns, relVars, faults>>

-----------------------------------------------------------------------------
(* The deletion branch: ensureDeleted of the reconciler and the releases.  *)

StartDelete ==
    /\ pc = "delete"
    /\ IF actor.step = "idle"
       THEN actor' = [step |-> "delete", inc |-> as.inc, gen |-> as.gen] /\ UNCHANGED rel
       ELSE AddRelease
    /\ Goto("cleanup")
    /\ UNCHANGED <<apiVars, ns, rset, delFailed, faults>>

CheckDeleted ==
    /\ pc = "cleanup"
    /\ Goto(IF rel.phase = "Deleted" /\ as.fin THEN "nsdelete" ELSE "status")
    /\ UNCHANGED <<apiVars, ns, relVars, faults>>

DeleteNamespace ==
    /\ pc = "nsdelete"
    /\ ns' = IF ns = "absent" THEN ns ELSE "terminating"
    /\ Goto("unfinalize")
    /\ UNCHANGED <<apiVars, relVars, faults>>

\* Without its finalizer the assignment is gone.
RemoveFinalizer ==
    /\ pc = "unfinalize"
    /\ Write([ca EXCEPT !.st = "absent", !.fin = FALSE])
    /\ asFresh' = FALSE
    /\ pc' = "status"
    /\ UNCHANGED <<cache, queued, as, seen, ns, relVars, faults>>

-----------------------------------------------------------------------------
(* The release's actor: run, update and delete.                            *)

ActorKeeps == UNCHANGED <<apiVars, loopVars, ns>>
Idle == ActorAt("idle")
SetPhase(p) == rel' = [rel EXCEPT !.phase = p, !.retry = FALSE]
\* Only an error that is not retried changes the phase.
SetFailed(retry) ==
    rel' = [rel EXCEPT !.phase = IF retry THEN @ ELSE "Failed", !.retry = retry]

ActorReceives ==
    /\ actor.step = "starting"
    /\ actor' = Idle
    /\ ActorKeeps
    /\ UNCHANGED <<rel, rset, delFailed, faults>>

UpdateBegins ==
    /\ actor.step = "update"
    /\ SetPhase("LoadingChart")
    /\ actor' = [actor EXCEPT !.step = "loading"]
    /\ ActorKeeps
    /\ UNCHANGED <<rset, delFailed, faults>>

\* Where loadAndExpandChart fails: loadChart downloads the chart (or decodes the
\* inline one), unpacks it, checks that its dependencies are packed in and merges
\* the values; then the chart is rendered, and its manifests are decoded.
LoadErrors == {"retrieve", "archive", "requirements", "values", "render", "decode"}

\* All that loadChart meets is retried, a broken archive as well as a lost call.
Retried(err) == err \notin {"render", "decode"}

ChartLoaded ==
    /\ actor.step = "loading"
    /\ SetPhase("Updating")
    /\ actor' = [actor EXCEPT !.step = "applying"]
    /\ ActorKeeps
    /\ UNCHANGED <<rset, delFailed, faults>>

LoadFails(err) ==
    /\ actor.step = "loading"
    /\ IF Retried(err) THEN Fault ELSE UNCHANGED faults
    /\ SetFailed(Retried(err))
    /\ actor' = Idle
    /\ ActorKeeps
    /\ UNCHANGED <<rset, delFailed>>

\* synk.Apply; a failed one may have created the ResourceSet or not.
Applied ==
    /\ actor.step = "applying"
    /\ rset' = [inc |-> actor.inc, gen |-> actor.gen, ok |-> TRUE]
    /\ delFailed' = FALSE
    /\ SetPhase("Settled")
    /\ actor' = Idle
    /\ ActorKeeps
    /\ UNCHANGED faults

ApplyFails(retry, begun) ==
    /\ actor.step = "applying"
    /\ IF retry THEN Fault ELSE UNCHANGED faults
    /\ rset' = IF begun THEN [inc |-> actor.inc, gen |-> actor.gen, ok |-> FALSE] ELSE rset
    /\ SetFailed(retry)
    /\ actor' = Idle
    /\ ActorKeeps
    /\ UNCHANGED delFailed

\* Mutant of DeleteBegins: the release is marked deleted before it is.
DeleteBeginsDone ==
    /\ actor.step = "delete"
    /\ IF rel.phase = "Deleted"
       THEN actor' = Idle /\ UNCHANGED rel
       ELSE actor' = [actor EXCEPT !.step = "deleting"] /\ SetPhase("Deleted")
    /\ ActorKeeps
    /\ UNCHANGED <<rset, delFailed, faults>>

DeleteBegins ==
    /\ actor.step = "delete"
    /\ IF rel.phase = "Deleted"
       THEN actor' = Idle /\ UNCHANGED rel
       ELSE actor' = [actor EXCEPT !.step = "deleting"] /\ SetPhase("Deleting")
    /\ ActorKeeps
    /\ UNCHANGED <<rset, delFailed, faults>>

SetDeleted ==
    /\ actor.step = "deleting"
    /\ rset' = NoSet
    /\ SetPhase("Deleted")
    /\ actor' = [actor EXCEPT !.step = "resetting"]
    /\ ActorKeeps
    /\ UNCHANGED <<delFailed, faults>>

\* synk.Delete fails: the error is recorded, and delete goes on all the same.
DeleteFails(retry) ==
    /\ actor.step = "deleting"
    /\ Fault
    /\ SetFailed(retry)
    /\ delFailed' = TRUE
    /\ actor' = [actor EXCEPT !.step = "failed"]
    /\ ActorKeeps
    /\ UNCHANGED rset

SetDeletedAnyway ==
    /\ actor.step = "failed"
    /\ SetPhase("Deleted")
    /\ actor' = [actor EXCEPT !.step = "resetting"]
    /\ ActorKeeps
    /\ UNCHANGED <<rset, delFailed, faults>>

\* Mutant of ResetGeneration: the last deployed generation is kept.
ResetGenerationNever ==
    /\ actor.step = "resetting"
    /\ actor' = Idle
    /\ ActorKeeps
    /\ UNCHANGED <<rel, rset, delFailed, faults>>

\* The assignment's generation starts at 1 again when it is created again.
ResetGeneration ==
    /\ actor.step = "resetting"
    /\ rel' = [rel EXCEPT !.gen = 0]
    /\ actor' = Idle
    /\ ActorKeeps
    /\ UNCHANGED <<rset, delFailed, faults>>

-----------------------------------------------------------------------------
\* The controller's process restarts: releases and queue are gone, the informer
\* lists the assignments anew.
ControllerRestart ==
    /\ Fault
    /\ cache' = View(ca)
    /\ cacheFresh' = TRUE
    /\ queued' = TRUE
    /\ pc' = "idle"
    /\ as' = View(Absent)
    /\ asFresh' = FALSE
    /\ seen' = ""
    /\ rel' = NoRelease
    /\ actor' = ActorAt("none")
    /\ UNCHANGED <<ca, ns, rset, delFailed>>

Actor ==
    \/ ActorReceives
    \/ UpdateBegins
    \/ ChartLoaded
    \/ \E err \in LoadErrors : LoadFails(err)
    \/ Applied
    \/ \E retry, begun \in BOOLEAN : ApplyFails(retry, begun)
    \/ DeleteBegins
    \/ SetDeleted
    \/ \E retry \in BOOLEAN : DeleteFails(retry)
    \/ SetDeletedAnyway
    \/ ResetGeneration

Loop ==
    \/ Reconcile
    \/ CallFails
    \/ EnsureNamespace
    \/ AddFinalizer
    \/ CheckGeneration
    \/ StartUpdate
    \/ RecordGeneration
    \/ ReadStatus
    \/ \E allRunning \in BOOLEAN : WriteStatus(allRunning)
    \/ WriteConflict
    \/ StartDelete
    \/ CheckDeleted
    \/ DeleteNamespace
    \/ RemoveFinalizer

Next ==
    \/ Create
    \/ Edit
    \/ Remove
    \/ CacheUpdate
    \/ ServiceAccountCreated
    \/ NamespaceGone
    \/ Loop
    \/ Actor
    \/ ControllerRestart

\* The controller's goroutines run, and Kubernetes does its part.  Nothing is
\* assumed of users, and nothing says that a call succeeds: faults are bounded.
Fairness ==
    /\ WF_vars(Loop)
    /\ WF_vars(Actor)
    /\ WF_vars(CacheUpdate)
    /\ WF_vars(ServiceAccountCreated)
    /\ WF_vars(NamespaceGone)

Spec == Init /\ [][Next]_vars /\ Fairness

-----------------------------------------------------------------------------
(* Properties.                                                             *)

AssignmentType == [st : {"absent", "alive", "deleting"}, inc : 0..MaxInc, gen : 0..MaxGen,
                   fin : BOOLEAN, phase : Phases, obs : 0..MaxGen]
ViewType == [st : {"absent", "alive", "deleting"}, inc : 0..MaxInc, gen : 0..MaxGen,
             fin : BOOLEAN]

ReleaseType == [exists : BOOLEAN, gen : 0..MaxGen, phase : Phases, retry : BOOLEAN]
Steps == {"none", "starting", "idle", "update", "loading", "applying",
          "delete", "deleting", "failed", "resetting"}
ActorType == [step : Steps, inc : 0..MaxInc, gen : 0..MaxGen]
SetType == [inc : 0..MaxInc, gen : 0..MaxGen, ok : BOOLEAN]
Places == {"idle", "namespace", "finalizer", "check", "start", "record", "status",
           "write", "delete", "cleanup", "nsdelete", "unfinalize"}

\* Type invariant of the assignment, the reconciler and the release.
AssignmentTypeOK ==
    /\ ca \in AssignmentType
    /\ cache \in ViewType
    /\ cacheFresh \in BOOLEAN
    /\ queued \in BOOLEAN
    /\ pc \in Places
    /\ as \in ViewType
    /\ asFresh \in BOOLEAN
    /\ seen \in Phases
    /\ ns \in {"absent", "new", "active", "terminating"}
    /\ rel \in ReleaseType
    /\ actor \in ActorType
    /\ rset \in SetType
    /\ delFailed \in BOOLEAN
    /\ faults \in 0..MaxFaults

\* The finalizer blocks garbage collection "until the Synk ResourceSet is
\* deleted": an assignment that is gone has left no ResourceSet behind.
FinalizerGuards == ca.st = "absent" => rset = NoSet

\* The phase Deleted, on which ensureDeleted drops the namespace and the
\* finalizer, is true unless synk.Delete failed: no update that was started
\* before, retried or left over from an earlier creation is behind it.
DeletedMeansGone == rel.phase = "Deleted" => rset = NoSet \/ delFailed

\* An assignment that is left alone ends up deployed in its current generation,
\* or reported as failed: transient errors are retried, an edit during an update
\* is not lost, and an assignment created again is deployed again.
Deployed ==
    <>[](ca.st = "alive") =>
        <>[](\/ rset = [inc |-> ca.inc, gen |-> ca.gen, ok |-> TRUE]
             \/ ca.phase = "Failed" /\ ca.obs = ca.gen)

\* The published status catches up with the release.
StatusCatchesUp ==
    <>[](ca.st = "alive") =>
        <>[](/\ ca.obs = ca.gen
             /\ ca.phase \in {rel.phase} \union (IF rel.phase = "Settled" THEN {"Ready"} ELSE {}))

\* A deleted assignment does not keep its finalizer for ever.
DeletionCompletes == ca.st = "deleting" ~> ca.st # "deleting"
=============================================================================
