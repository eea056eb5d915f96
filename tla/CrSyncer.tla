------------------------------ MODULE CrSyncer ------------------------------
(***************************************************************************)
(* The custom resource syncer (cmd/cr-syncer/syncer.go), for the resource  *)
(* of one key: the spec goes from the upstream to the downstream cluster,  *)
(* the status comes back, and a deletion upstream is repeated downstream.  *)
(*                                                                         *)
(* Two workers run side by side: worker "up" takes keys from upstreamQueue *)
(* and runs syncUpstream, worker "down" takes keys from downstreamQueue    *)
(* and runs syncDownstream.  Both read both informers' caches, which lag   *)
(* behind their clusters independently; updates are checked against the    *)
(* resourceVersion of the cached copy, deletes are not.  The watch of the  *)
(* remote cluster may silently stall; conflicts on writes to that cluster  *)
(* are counted, and a worker that finds too many of them replaces both     *)
(* informers, under no lock, while the other worker goes on.               *)
(*                                                                         *)
(* "The status" is the part that is synced: all of it, or the subtree that *)
(* the CRD's annotation names.  A cached copy is an earlier version that   *)
(* the watch has delivered, or the current one.                            *)
(***************************************************************************)
EXTENDS Naturals

CONSTANTS
    ConflictErrorLimit,   \* flag conflict-error-limit
    MaxUser,              \* bound: writes of users to either cluster
    MaxRobot,             \* bound: status writes of the downstream controller
    MaxFaults,            \* bound: failed calls, stalled watches, crashes and resyncs
    MaxEvents,            \* bound: all of these together
    Configs               \* the (remote, sub, legacy, writes) that a run looks at: legacy
                          \* are the resources that have the finalizer of an older cr-syncer,
                          \* writes those of users before this one starts

ASSUME SyncerConstants ==
    /\ ConflictErrorLimit \in Nat \ {0}
    /\ MaxUser \in Nat \ {0}
    /\ MaxRobot \in Nat
    /\ MaxFaults \in Nat
    /\ MaxEvents \in Nat
    /\ Configs \subseteq {"up", "down"} \X BOOLEAN \X (SUBSET {"up", "down"}) \X (1..MaxUser)

Sides == {"up", "down"}
Other(s) == IF s = "up" THEN "down" ELSE "up"

VARIABLES
    remote,     \* the side that is the cloud cluster (spec-source robot: downstream)
    sub,        \* the CRD has a status subresource
    obj,        \* the resource in either cluster
    cache,      \* the informers' copies
    fresh,      \* the copy is the current version
    synced,     \* HasSynced of the current informers
    handled,    \* event handlers are set up on them
    inf,        \* the current informers: new, ended, or run by this caller
    infDone,    \* nil, or the caller of startInformers who made the channel
    stalled,    \* the remote watch delivers nothing
    queue,      \* the key is in the side's queue
    wrk,        \* the worker of either queue
    conflictErrors,
    user, robot, faults

cfgVars == <<remote, sub>>
infVars == <<cache, synced, handled, inf, infDone, stalled>>
countVars == <<user, robot, faults>>
vars == <<cfgVars, obj, fresh, infVars, queue, wrk, conflictErrors, countVars>>

\* inc is the creation of the upstream resource (for a downstream resource, the
\* one it was last synced from), fin the legacy finalizer of this cr-syncer.  ann is
\* the annotation remote-resource-version: 1 if it names the current version of the
\* downstream resource, 0 if it is absent or names an older one.
Gone == [st |-> "absent", inc |-> 0, spec |-> 0, status |-> 0, ann |-> 0, fin |-> FALSE]
Exists(o) == o.st # "absent"

\* cur: the version of the copy that the worker will write is still the current one.
Worker(pc) == [pc |-> pc, op |-> "none", src |-> Gone, cur |-> FALSE]

RestartSteps == {"stop", "clear", "renew", "start", "waitUp", "waitDown", "waitNew", "reset"}
Restarting(w) == wrk[w].pc \in RestartSteps

\* newCRSyncer and run up to the wait for the caches.  Both clusters have the resource,
\* from before the process started.
Init ==
    /\ \E c \in Configs :
          /\ remote = c[1]
          /\ sub = c[2]
          /\ obj = [s \in Sides |-> [Gone EXCEPT !.st = "alive", !.inc = 1, !.fin = (s \in c[3])]]
          /\ user = c[4]
    /\ cache = [s \in Sides |-> Gone]
    /\ fresh = [s \in Sides |-> FALSE]
    /\ synced = [s \in Sides |-> FALSE]
    /\ handled = FALSE
    /\ inf = "main"
    /\ infDone = "main"
    /\ stalled = FALSE
    /\ queue = [s \in Sides |-> FALSE]
    /\ wrk = [s \in Sides |-> Worker("off")]
    /\ conflictErrors = 0
    /\ robot = 0
    /\ faults = 0

\* user counts from the creation of the resource.
Room == user + robot + faults <= MaxEvents

Fault == Room /\ faults < MaxFaults /\ faults' = faults + 1

-----------------------------------------------------------------------------
(* The API servers and their other clients.                                *)

\* Cluster s stores o as a new version, with the workers as wk says: the copies of the
\* old version, and the annotations that name it, are out of date.
Store(s, o, wk) ==
    /\ obj' = IF s = "up" THEN [obj EXCEPT !["up"] = o]
              ELSE [obj EXCEPT !["down"] = o, !["up"].ann = 0]
    /\ fresh' = [fresh EXCEPT ![s] = FALSE]
    /\ wrk' = IF s = "up" THEN [wk EXCEPT !["down"].cur = FALSE]
              ELSE [wk EXCEPT !["up"].cur = FALSE, !["down"].src.ann = 0]

\* A write that changes nothing makes no new version.
Put(s, o, wk) ==
    IF o = obj[s] THEN UNCHANGED <<obj, fresh>> /\ wrk' = wk ELSE Store(s, o, wk)

UserWrites(s, o) ==
    /\ Room /\ user < MaxUser
    /\ user' = user + 1
    /\ Put(s, o, wrk)
    /\ UNCHANGED <<cfgVars, infVars, queue, conflictErrors, robot, faults>>

\* A user creates or edits the upstream resource.
Apply ==
    /\ obj["up"].st # "deleting"
    /\ UserWrites("up", IF Exists(obj["up"])
                        THEN [obj["up"] EXCEPT !.spec = user + 1]
                        ELSE [Gone EXCEPT !.st = "alive", !.inc = user + 1, !.spec = user + 1])

\* A user deletes the upstream resource; the legacy finalizer holds it.
DeleteUpstream ==
    /\ obj["up"].st = "alive"
    /\ UserWrites("up", IF obj["up"].fin THEN [obj["up"] EXCEPT !.st = "deleting"] ELSE Gone)

\* A user deletes the downstream resource; finalizers of the robot's controllers hold it.
DeleteDownstream ==
    /\ obj["down"].st = "alive"
    /\ UserWrites("down", [obj["down"] EXCEPT !.st = "deleting"])

\* A deleted resource whose finalizers are gone.
Finalized(s) ==
    /\ obj[s].st = "deleting"
    /\ ~obj[s].fin
    /\ Put(s, Gone, wrk)
    /\ UNCHANGED <<cfgVars, infVars, queue, conflictErrors, countVars>>

\* The controller of the resource in the downstream cluster reports a status.
RobotReports ==
    /\ Room /\ robot < MaxRobot
    /\ obj["down"].st = "alive"
    /\ robot' = robot + 1
    /\ Put("down", [obj["down"] EXCEPT !.status = robot + 1], wrk)
    /\ UNCHANGED <<cfgVars, infVars, queue, conflictErrors, user, faults>>

-----------------------------------------------------------------------------
(* The informers.                                                          *)

Running == inf \in Sides \cup {"main"}

\* What the workers read of a cached copy: they take the spec from upstream, the
\* status from downstream, and the upstream status for a new object that keeps it.
View(s, o) ==
    IF s = "down" THEN [Gone EXCEPT !.st = o.st, !.status = o.status, !.fin = o.fin]
    ELSE [o EXCEPT !.ann = 0, !.status = IF sub THEN 0 ELSE @]

\* The list or the watch of a running informer brings the current version; the
\* handlers put the key in the queue.
CacheUpdate(s) ==
    /\ Running
    /\ ~(stalled /\ remote = s)
    /\ ~fresh[s]
    /\ cache' = [cache EXCEPT ![s] = View(s, obj[s])]
    /\ fresh' = [fresh EXCEPT ![s] = TRUE]
    /\ synced' = [synced EXCEPT ![s] = TRUE]
    /\ queue' = [queue EXCEPT ![s] = @ \/ (handled /\ (synced[s] \/ Exists(obj[s])))]
    /\ UNCHANGED <<cfgVars, obj, handled, inf, infDone, stalled, wrk, conflictErrors, countVars>>

Cached == [s \in Sides |-> queue[s] \/ Exists(cache[s])]

\* Every resyncPeriod the handlers get the cached objects again.
Resync ==
    /\ Fault
    /\ Running
    /\ handled
    /\ queue # Cached
    /\ queue' = Cached
    /\ UNCHANGED <<cfgVars, obj, fresh, infVars, wrk, conflictErrors, user, robot>>

\* The watch that follows the list of the remote cluster is lost unnoticed.
Stall ==
    /\ Fault
    /\ Running
    /\ synced[remote]
    /\ ~stalled
    /\ stalled' = TRUE
    /\ UNCHANGED <<cfgVars, obj, fresh, cache, synced, handled, inf, infDone, queue, wrk,
                   conflictErrors, user, robot>>

\* The syncer's process starts again: main, newCRSyncer, run.
ProcessStarts ==
    /\ cache' = [s \in Sides |-> Gone]
    /\ fresh' = [s \in Sides |-> FALSE]
    /\ synced' = [s \in Sides |-> FALSE]
    /\ handled' = FALSE
    /\ inf' = "main"
    /\ infDone' = "main"
    /\ stalled' = FALSE
    /\ queue' = [s \in Sides |-> FALSE]
    /\ wrk' = [s \in Sides |-> Worker("off")]
    /\ conflictErrors' = 0

\* The stalled watch ends and the reflector lists again.  A deletion that it missed
\* reaches the handler as a tombstone: receive's type assertion panics.  (The list does
\* not show a resource that was created and deleted meanwhile; the next resync puts the
\* key in the queue as CacheUpdate does.)
Relist ==
    /\ stalled
    /\ IF handled /\ Exists(cache[remote]) /\ ~Exists(obj[remote])
       THEN ProcessStarts
       ELSE /\ stalled' = FALSE
            /\ UNCHANGED <<fresh, cache, synced, handled, inf, infDone, queue, wrk, conflictErrors>>
    /\ UNCHANGED <<cfgVars, obj, countVars>>

\* The pod restarts, or main replaces the syncer because its CRD has changed.
Crash ==
    /\ Fault
    /\ ProcessStarts
    /\ UNCHANGED <<cfgVars, obj, user, robot>>

\* run: both caches have synced; the handlers replay them and the workers start.
WorkersStart ==
    /\ \A s \in Sides : wrk[s].pc = "off" /\ synced[s]
    /\ handled' = TRUE
    /\ queue' = Cached
    /\ wrk' = [s \in Sides |-> Worker("idle")]
    /\ UNCHANGED <<cfgVars, obj, fresh, cache, synced, inf, infDone, stalled, conflictErrors, countVars>>

-----------------------------------------------------------------------------
(* processNextWorkItem.                                                    *)

\* The key is done, or goes back to its queue after an error.
Returns(w, ok, q) == queue' = [q EXCEPT ![w] = @ \/ ~ok]
Idle(w) == [wrk EXCEPT ![w] = Worker("idle")]
Goto(w, pc) == [wrk EXCEPT ![w].pc = pc]

\* Mutant of TooManyConflicts: the limit is passed before the informers are restarted.
TooManyConflictsOffByOne == conflictErrors > ConflictErrorLimit

\* The count of subsequent conflicts has reached the limit.
TooManyConflicts == conflictErrors >= ConflictErrorLimit

\* q.Get, and the check of the conflict count.
Begin(w) ==
    /\ wrk[w].pc = "idle"
    /\ queue[w]
    /\ queue' = [queue EXCEPT ![w] = FALSE]
    /\ wrk' = Goto(w, IF TooManyConflicts THEN "stop" ELSE "sync")
    /\ UNCHANGED <<cfgVars, obj, fresh, infVars, conflictErrors, countVars>>

\* A worker has closed the channel infDone and not yet set it to nil.
Closed == \E w \in Sides : wrk[w].pc = "clear"

\* stopInformers closes the channel, if there is one.  It may not be the one of the
\* current informers, when the other worker is restarting them too.
StopInformers(w) ==
    /\ wrk[w].pc = "stop" /\ ~Closed
    /\ inf' = IF inf = infDone THEN "ended" ELSE inf
    /\ wrk' = Goto(w, IF infDone = "nil" THEN "renew" ELSE "clear")
    /\ UNCHANGED <<cfgVars, obj, fresh, cache, synced, handled, infDone, stalled, queue, conflictErrors,
                   countVars>>

\* The other worker is in stopInformers too: a channel that is closed twice is a panic,
\* and so is one that is nil by then.
StopPanics(w) ==
    /\ wrk[w].pc = "stop" /\ Closed
    /\ ProcessStarts
    /\ UNCHANGED <<cfgVars, obj, countVars>>

ForgetChannel(w) ==
    /\ wrk[w].pc = "clear"
    /\ infDone' = "nil"
    /\ wrk' = Goto(w, "renew")
    /\ UNCHANGED <<cfgVars, obj, fresh, cache, synced, handled, inf, stalled, queue, conflictErrors,
                   countVars>>

\* restartInformers makes two new informers: their caches are empty.
RenewInformers(w) ==
    /\ wrk[w].pc = "renew"
    /\ inf' = "new"
    /\ cache' = [s \in Sides |-> Gone]
    /\ fresh' = [s \in Sides |-> FALSE]
    /\ synced' = [s \in Sides |-> FALSE]
    /\ handled' = FALSE
    /\ wrk' = Goto(w, "start")
    /\ UNCHANGED <<cfgVars, obj, infDone, stalled, queue, conflictErrors, countVars>>

\* startInformers up to its waits.  Informers run only once.
StartInformers(w) ==
    /\ wrk[w].pc = "start"
    /\ \/ /\ infDone # "nil"
          /\ Returns(w, FALSE, queue)
          /\ wrk' = Idle(w)
          /\ UNCHANGED <<inf, infDone, stalled>>
       \/ /\ infDone = "nil"
          /\ infDone' = w
          /\ inf' = IF inf = "new" THEN w ELSE inf
          /\ stalled' = FALSE
          /\ wrk' = Goto(w, "waitUp")
          /\ UNCHANGED queue
    /\ UNCHANGED <<cfgVars, obj, fresh, cache, synced, handled, conflictErrors, countVars>>

\* Mutant of SyncedUp: startInformers does not wait for the upstream cache.
SyncedUpUnawaited(w) ==
    /\ wrk[w].pc = "waitUp"
    /\ wrk' = Goto(w, IF inf = w THEN "waitDown" ELSE "waitNew")
    /\ UNCHANGED <<cfgVars, obj, fresh, infVars, queue, conflictErrors, countVars>>

\* WaitForCacheSync of the upstream informer.  A worker whose informers have been
\* replaced or closed may have seen them synced before; it waits for the downstream
\* informer that is there by then.
SyncedUp(w) ==
    /\ wrk[w].pc = "waitUp"
    /\ synced["up"] \/ inf # w
    /\ wrk' = Goto(w, IF inf = w THEN "waitDown" ELSE "waitNew")
    /\ UNCHANGED <<cfgVars, obj, fresh, infVars, queue, conflictErrors, countVars>>

\* WaitForCacheSync of the downstream informer, then setupInformerHandlers: the new
\* handlers get the cached objects.
SyncedDown(w) ==
    /\ \/ wrk[w].pc = "waitDown" /\ (synced["down"] \/ inf # w)
       \/ wrk[w].pc = "waitNew" /\ synced["down"]
    /\ handled' = TRUE
    /\ queue' = IF Running THEN Cached ELSE queue
    /\ wrk' = Goto(w, "reset")
    /\ UNCHANGED <<cfgVars, obj, fresh, cache, synced, inf, infDone, stalled, conflictErrors, countVars>>

\* The other worker has closed the channel of this one.
Interrupted(w) ==
    /\ wrk[w].pc \in {"waitUp", "waitDown", "waitNew"}
    /\ infDone # w \/ Closed
    /\ Returns(w, FALSE, queue)
    /\ wrk' = Idle(w)
    /\ UNCHANGED <<cfgVars, obj, fresh, infVars, conflictErrors, countVars>>

ResetConflicts(w) ==
    /\ wrk[w].pc = "reset"
    /\ conflictErrors' = 0
    /\ wrk' = Goto(w, "sync")
    /\ UNCHANGED <<cfgVars, obj, fresh, infVars, queue, countVars>>

-----------------------------------------------------------------------------
(* syncUpstream and syncDownstream.                                        *)

\* removeFinalizer updates the resource of cluster s if its copy has the old finalizer;
\* an error is only logged.
RemoveFinalizer(s, src, wk) ==
    IF src.fin /\ fresh[s]
    THEN Put(s, [obj[s] EXCEPT !.fin = FALSE], wk)
    ELSE UNCHANGED <<obj, fresh>> /\ wrk' = wk

\* syncUpstream reads the upstream resource.
ReadUpstream ==
    LET src == cache["up"]
    IN  /\ wrk["up"].pc = "sync"
        /\ RemoveFinalizer("up", src, [wrk EXCEPT !["up"].pc = "lookup",
                                                  !["up"].src = [src EXCEPT !.fin = FALSE]])
        /\ UNCHANGED <<cfgVars, infVars, queue, conflictErrors, countVars>>

\* syncUpstream reads the downstream resource and decides what to do.
LookupDownstream ==
    LET src == wrk["up"].src
        dst == cache["down"]
        op  == CASE ~Exists(src) /\ ~Exists(dst)           -> "none"
                 [] ~Exists(src) \/ src.st = "deleting"    -> "delete"
                 [] src.st = "alive" /\ ~Exists(dst)       -> "create"
                 [] OTHER                                  -> "update"
    IN  /\ wrk["up"].pc = "lookup"
        /\ wrk' = IF op = "none" THEN Idle("up")
                  ELSE [wrk EXCEPT !["up"] = [pc |-> "write", op |-> op,
                                              src |-> IF op = "delete" THEN Gone ELSE src,
                                              cur |-> op = "update" /\ fresh["down"]]]
        /\ UNCHANGED <<cfgVars, obj, fresh, infVars, queue, conflictErrors, countVars>>

\* Mutant of AskUpstream: syncDownstream forgets the key of a resource that is gone.
AskUpstreamNot(q) == q

\* syncDownstream finds the downstream resource gone: syncUpstream is to look at it.
AskUpstream(q) == [q EXCEPT !["up"] = TRUE]

\* What syncDownstream takes of the downstream resource: its status, whether it is being
\* deleted, and its version, which is the current one (1) or not.
Report(src) == [Gone EXCEPT !.st = src.st, !.status = src.status,
                            !.ann = IF fresh["down"] /\ ~sub THEN 1 ELSE 0]

\* syncDownstream reads the downstream resource.
ReadDownstream ==
    LET src == cache["down"]
    IN  /\ wrk["down"].pc = "sync"
        /\ \/ /\ ~Exists(src)
              /\ queue' = AskUpstream(queue)
              /\ wrk' = Idle("down")
              /\ UNCHANGED <<obj, fresh>>
           \/ /\ Exists(src)
              /\ RemoveFinalizer("down", src, [wrk EXCEPT !["down"].pc = "lookup",
                                                          !["down"].src = Report(src)])
              /\ UNCHANGED queue
        /\ UNCHANGED <<cfgVars, infVars, conflictErrors, countVars>>

\* syncDownstream reads the upstream resource and decides what to do.
LookupUpstream ==
    LET src == wrk["down"].src
        dst == cache["up"]
        op  == CASE Exists(dst)                            -> "status"
                 [] ~Exists(dst) /\ src.st = "alive"       -> "delete"
                 [] OTHER                                  -> "none"
    IN  /\ wrk["down"].pc = "lookup"
        /\ wrk' = IF op = "none" THEN Idle("down")
                  ELSE [wrk EXCEPT !["down"] =
                            [pc |-> "write", op |-> op,
                             src |-> IF op = "delete" THEN Gone ELSE [src EXCEPT !.st = "absent"],
                             cur |-> op = "status" /\ fresh["up"]]]
        /\ UNCHANGED <<cfgVars, obj, fresh, infVars, queue, conflictErrors, countVars>>

Writing(w, op) == wrk[w].pc = "write" /\ wrk[w].op = op

\* The deletion of the downstream resource, by name; not found is no error.
WriteDelete(w) ==
    /\ Writing(w, "delete")
    /\ Put("down", IF obj["down"].st = "alive" THEN [obj["down"] EXCEPT !.st = "deleting"]
                   ELSE obj["down"], Idle(w))
    /\ UNCHANGED <<cfgVars, infVars, queue, conflictErrors, countVars>>

\* Mutant of CountConflict: the two spec sources are mixed up.
CountConflictLocal(s) == conflictErrors' = IF remote # s THEN conflictErrors + 1 ELSE conflictErrors

\* A conflict is counted where the cluster that was written to is the remote one.
CountConflict(s) == conflictErrors' = IF remote = s THEN conflictErrors + 1 ELSE conflictErrors

\* Mutant of UpdateFails: the error of an update is not returned.
UpdateFailsQuietly(w, s) ==
    /\ \/ Exists(obj[s]) /\ CountConflict(s)
       \/ ~Exists(obj[s]) /\ UNCHANGED conflictErrors
    /\ Returns(w, TRUE, queue)
    /\ wrk' = Idle(w)
    /\ UNCHANGED <<obj, fresh>>

\* An update of a copy that is out of date: a conflict, or not found.
UpdateFails(w, s) ==
    /\ \/ Exists(obj[s]) /\ CountConflict(s)
       \/ ~Exists(obj[s]) /\ UNCHANGED conflictErrors
    /\ Returns(w, FALSE, queue)
    /\ wrk' = Idle(w)
    /\ UNCHANGED <<obj, fresh>>

\* A successful write to the remote cluster resets the count.
Succeeds(s) ==
    /\ conflictErrors' = IF remote = s THEN 0 ELSE conflictErrors
    /\ UNCHANGED queue

\* syncUpstream creates the downstream resource, with the upstream status.  (The API
\* server drops the status of a new object where it is a subresource: see View.)
WriteCreate ==
    LET src == wrk["up"].src
    IN  /\ Writing("up", "create")
        /\ \/ /\ Exists(obj["down"])
              /\ Returns("up", FALSE, queue)
              /\ wrk' = Idle("up")
              /\ UNCHANGED <<obj, fresh, conflictErrors>>
           \/ /\ ~Exists(obj["down"])
              /\ Put("down", [Gone EXCEPT !.st = "alive", !.inc = src.inc, !.spec = src.spec,
                                          !.status = src.status], Idle("up"))
              /\ Succeeds("down")
        /\ UNCHANGED <<cfgVars, infVars, countVars>>

\* Mutant of SpecCopied: the annotation is copied too; it differs from the one copied before.
SpecCopiedWithAnn(dst, src) == [dst EXCEPT !.inc = src.inc, !.spec = src.spec, !.ann = 1 - @]

\* dst with the metadata and the spec of src, without remote-resource-version.
SpecCopied(dst, src) == [dst EXCEPT !.inc = src.inc, !.spec = src.spec, !.ann = 0]

\* syncUpstream updates the downstream resource.
WriteUpdate ==
    /\ Writing("up", "update")
    /\ \/ /\ ~wrk["up"].cur
          /\ UpdateFails("up", "down")
       \/ /\ wrk["up"].cur
          /\ Put("down", SpecCopied(obj["down"], wrk["up"].src), Idle("up"))
          /\ Succeeds("down")
    /\ UNCHANGED <<cfgVars, infVars, countVars>>

\* syncDownstream writes the status upstream: UpdateStatus, which stores nothing but
\* the status, or Update, which stores the annotation as well and so makes a new
\* version even of an old status.
StoreStatus ==
    LET src == wrk["down"].src
        dst == [obj["up"] EXCEPT !.status = src.status, !.ann = src.ann]
    IN  IF sub \/ src.ann = 1 THEN Put("up", dst, Idle("down")) ELSE Store("up", dst, Idle("down"))

WriteStatus ==
    /\ Writing("down", "status")
    /\ \/ /\ ~wrk["down"].cur
          /\ UpdateFails("down", "up")
       \/ /\ wrk["down"].cur
          /\ StoreStatus
          /\ Succeeds("up")
    /\ UNCHANGED <<cfgVars, infVars, countVars>>

\* A write does not reach its API server.  (One that does, and whose answer is lost, is
\* a write and a resync.)
CallFails(w) ==
    /\ Fault
    /\ wrk[w].pc = "write"
    /\ Returns(w, FALSE, queue)
    /\ wrk' = Idle(w)
    /\ UNCHANGED <<cfgVars, obj, fresh, infVars, conflictErrors, user, robot>>

-----------------------------------------------------------------------------
Restart(w) ==
    \/ StopInformers(w)
    \/ StopPanics(w)
    \/ ForgetChannel(w)
    \/ RenewInformers(w)
    \/ StartInformers(w)
    \/ SyncedUp(w)
    \/ SyncedDown(w)
    \/ Interrupted(w)
    \/ ResetConflicts(w)

SyncUpstream == ReadUpstream \/ LookupDownstream \/ WriteDelete("up") \/ WriteCreate \/ WriteUpdate
SyncDownstream == ReadDownstream \/ LookupUpstream \/ WriteDelete("down") \/ WriteStatus

Syncer ==
    \/ WorkersStart
    \/ \E w \in Sides : Begin(w) \/ Restart(w)
    \/ SyncUpstream
    \/ SyncDownstream

Environment ==
    \/ Apply
    \/ DeleteUpstream
    \/ DeleteDownstream
    \/ \E s \in Sides : Finalized(s)
    \/ RobotReports

Informers ==
    \/ \E s \in Sides : CacheUpdate(s)
    \/ Resync

Faults ==
    \/ Stall
    \/ Relist
    \/ Crash
    \/ \E w \in Sides : CallFails(w)

Next == Syncer \/ Environment \/ Informers \/ Faults

\* The goroutines run, a watch that is not stalled delivers, and finalizers of other
\* controllers are removed.  Nothing is assumed of users, robots, faults, resyncs and
\* of the end of a stall.
Fairness ==
    /\ WF_vars(WorkersStart)
    /\ \A w \in Sides : WF_vars(Begin(w)) /\ WF_vars(Restart(w))
    /\ WF_vars(SyncUpstream)
    /\ WF_vars(SyncDownstream)
    /\ \A s \in Sides : WF_vars(CacheUpdate(s)) /\ WF_vars(Finalized(s))

Spec == Init /\ [][Next]_vars /\ Fairness

-----------------------------------------------------------------------------
(* Properties.                                                             *)

Objects == [st : {"absent", "alive", "deleting"}, inc : 0..MaxUser, spec : 0..MaxUser,
            status : 0..MaxRobot, ann : 0..1, fin : BOOLEAN]

WorkerSteps == RestartSteps \cup {"off", "idle", "sync", "lookup", "write"}
Workers == [pc : WorkerSteps, op : {"none", "delete", "create", "update", "status"},
            src : Objects, cur : BOOLEAN]

\* Types; and the count of conflicts never passes the limit, so that the check at the
\* start of an item is never too late.
SyncTypeOK ==
    /\ remote \in Sides
    /\ sub \in BOOLEAN
    /\ obj \in [Sides -> Objects]
    /\ cache \in [Sides -> Objects]
    /\ fresh \in [Sides -> BOOLEAN]
    /\ synced \in [Sides -> BOOLEAN]
    /\ handled \in BOOLEAN
    /\ inf \in Sides \cup {"main", "new", "ended"}
    /\ infDone \in Sides \cup {"main", "nil"}
    /\ stalled \in BOOLEAN
    /\ queue \in [Sides -> BOOLEAN]
    /\ wrk \in [Sides -> Workers]
    /\ conflictErrors \in 0..ConflictErrorLimit
    /\ user \in 0..MaxUser
    /\ robot \in 0..MaxRobot
    /\ faults \in 0..MaxFaults

SpecSynced ==
    /\ obj["up"].st = "alive" => /\ obj["down"].st = "alive"
                                 /\ obj["down"].inc = obj["up"].inc
                                 /\ obj["down"].spec = obj["up"].spec
    /\ obj["up"].st = "deleting" => obj["up"].fin = FALSE
    /\ obj["up"].st = "absent" => obj["down"].st = "absent"

\* The restarts come to an end and leave informers that somebody runs.  The code does
\* not ensure it: a worker may replace the informers that the other one has started
\* and then give up because infDone is set; and while one worker restarts them, the
\* other one may delete what it misses in the empty cache, which makes the next conflict.
RestartsEnd == <>[](Running /\ \A w \in Sides : ~Restarting(w))

\* Once users leave the resource alone, the downstream cluster gets the upstream spec,
\* or loses the resource if upstream has none, whatever crashes, failed calls, deletions
\* on the robot and restarts of the informers happened, also ones that overlapped;
\* provided that the restarts end and that the remote watch does not stall for good.
SpecConverges == RestartsEnd /\ <>[]~stalled => <>[]SpecSynced

StatusDiffers ==
    /\ obj["up"].st = "alive"
    /\ obj["down"].st = "alive"
    /\ obj["up"].inc = obj["down"].inc
    /\ obj["up"].status # obj["down"].status

\* The last status of the downstream resource ends up upstream: a write that loses the
\* race against another one is retried.
StatusConverges == RestartsEnd /\ <>[]~stalled => <>[]~StatusDiffers

\* A status that the robot reports reaches a remote upstream cluster although the watch
\* of that cluster has stalled: its writes conflict until the informers are restarted.
StatusDespiteStall ==
    RestartsEnd => ((remote = "up" /\ StatusDiffers /\ ~fresh["down"]) ~> ~StatusDiffers)

\* The two directions do not feed each other for ever (syncUpstream drops the annotation
\* that syncDownstream sets): unless the informers are restarted again and again, the
\* resources change no more.
Quiet == <>[](\A w \in Sides : ~Restarting(w)) => <>[][UNCHANGED obj]_vars

Alive(o) == o.inc = obj["up"].inc /\ obj["up"].st = "alive"

\* What the workers take for the absence or the deletion of the upstream resource is
\* one: while the workers run and nobody restarts the informers, the upstream cache
\* lacks no living resource that the downstream one was synced from.  (After restarts
\* that overlapped, the informers may be new ones that nobody runs.)
OrphansOnly ==
    (\A w \in Sides : wrk[w].pc # "off" /\ ~Restarting(w)) /\ inf # "new"
        => (cache["up"].st = "alive" \/ ~Alive(obj["down"]))
=============================================================================
