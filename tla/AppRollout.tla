----------------------------- MODULE AppRollout -----------------------------
(***************************************************************************)
(* The app-rollout-controller (pkg/controller/approllout), for one name of *)
(* an AppRollout that is created, edited, deleted and created again.       *)
(*                                                                         *)
(* A reconcile reads the rollout, its App, the Robots and its own          *)
(* ChartAssignments from informer caches, each of which lags behind the    *)
(* API server by itself, and then writes one object after the other.  Its  *)
(* reads follow each other without a write in between, so that one step    *)
(* stands for them: the caches are independent, and any mixture of old and *)
(* new that interleaved deliveries give is also what the caches hold at    *)
(* some instant.                                                           *)
(*                                                                         *)
(* The resourceVersion of an object is modelled by what it is used for:    *)
(* whether a copy still is the current version.  For the assignments that  *)
(* is equality of the contents: the controller changes one only from a     *)
(* current copy, so that none comes back to what a cache still holds.      *)
(***************************************************************************)
EXTENDS Integers, Sequences, FiniteSets

CONSTANTS
    Robots,           \* the robots' names: positive numbers, in their order
    Apps,             \* contents of the App: which components it has
    Specs,            \* contents of the AppRollout: its robot selectors
    DefaultNamespace, \* the rollout is in the namespace "default"
    Outcomes,         \* phases that the ChartAssignment controller may report, by name
    FirstApp,         \* the App at the start
    FirstSpec,        \* the rollout at the start
    MaxInc,           \* bound: times the rollout is created
    MaxTenant,        \* bound: versions of the Tenant's status
    MaxEdits,         \* bound: changes that users make
    MaxFaults         \* bound: failed calls and restarts of the controller

NoApp == [cloud |-> FALSE, robot |-> FALSE, version |-> 0]

ASSUME RolloutConstants ==
    /\ Robots \subseteq Nat \ {0} /\ IsFiniteSet(Robots)
    /\ \A a \in Apps : a.cloud \in BOOLEAN /\ a.robot \in BOOLEAN /\ a.version \in Nat \ {0}
    /\ \A s \in Specs : s \in Seq({"any", "labelled", "never", "empty"})
    /\ DefaultNamespace \in BOOLEAN
    /\ FirstApp \in Apps /\ FirstSpec \in Specs
    /\ MaxInc \in Nat \ {0} /\ MaxTenant \in Nat \ {0} /\ MaxEdits \in Nat /\ MaxFaults \in Nat

\* chartAssignmentName: one for the cloud, which sorts first, and one per robot.
Cloud == 0
Names == {Cloud} \union Robots

ASSUME OutcomesOfNames == Outcomes \in [Names -> SUBSET {"Settled", "Ready", "Failed"}]

VARIABLES
    ar,       \* the AppRollout in the API server
    app,      \* the App it names
    robots,   \* the Robots of its namespace: absent, or labelled on or off
    tenant,   \* the version of the Tenant's status, 0 if there is no Tenant
    cas,      \* the ChartAssignments
    cache,    \* the informers' copies of them, and whether that of ar is current
    events,   \* assignments with an update or a deletion that is not delivered yet
    queued,   \* the rollout is in the work queue
    timers,   \* an enqueueing that waits for its three seconds
    pc,       \* where the reconcile is
    job,      \* what it has read, and what it still has to write
    edits,    \* changes by users so far
    faults    \* failures so far

apiVars == <<ar, app, robots, tenant, cas>>
loopVars == <<queued, timers, pc, job>>
vars == <<apiVars, cache, events, loopVars, edits, faults>>

NoCount == [want |-> 0, settled |-> 0, ready |-> 0, failed |-> 0]
NoRollout == [alive |-> FALSE, inc |-> 0, gen |-> 0, spec |-> <<>>,
              obs |-> 0, count |-> NoCount, settled |-> "", ready |-> ""]
NewRollout(inc, s) == [NoRollout EXCEPT !.alive = TRUE, !.inc = inc, !.gen = 1, !.spec = s]
NoCA == [owner |-> 0, val |-> <<>>, fin |-> FALSE, del |-> FALSE, phase |-> "", pending |-> FALSE]
NewCA(inc, v) == [NoCA EXCEPT !.owner = inc, !.val = v, !.pending = TRUE]
NoJob == [inc |-> 0, current |-> FALSE, want |-> [n \in Names |-> <<>>], exist |-> {}, fresh |-> {},
          drop |-> {}, count |-> NoCount]

\* What a reconcile reads of a rollout.
View(a) == [alive |-> a.alive, inc |-> a.inc, spec |-> a.spec]

\* The validating webhook: a selector has labels or "any".
validate(spec) == \A i \in DOMAIN spec : spec[i] # "empty"

\* Somebody has just created the rollout, of an App and for robots that exist.
Init ==
    /\ ar = NewRollout(1, FirstSpec)
    /\ app = FirstApp
    /\ robots = [r \in Robots |-> "on"]
    /\ tenant = 1
    /\ cas = [n \in Names |-> NoCA]
    /\ cache = [ar |-> View(NoRollout), current |-> FALSE, app |-> app, robots |-> robots, cas |-> cas]
    /\ events = {}
    /\ queued = FALSE
    /\ timers = FALSE
    /\ pc = "idle"
    /\ job = NoJob
    /\ edits = 0
    /\ faults = 0

Fault == faults < MaxFaults /\ faults' = faults + 1

-----------------------------------------------------------------------------
(* What the controller wants.                                              *)

\* matchingRobots; "never" is a selector with any: false and no labels.
matchingRobots(rs, sel) ==
    {r \in Robots : \/ sel = "any" /\ rs[r] # "absent"
                    \/ sel = "labelled" /\ rs[r] = "on"}

Selected(rs, spec) == UNION {matchingRobots(rs, spec[i]) : i \in DOMAIN spec}

RobotSelectorOverlap(rs, spec) ==
    \E i, k \in DOMAIN spec : i < k /\ matchingRobots(rs, spec[i]) \intersect matchingRobots(rs, spec[k]) # {}

\* generateChartAssignments: the content of every assignment, <<>> if it is not
\* wanted.  A robot's chart depends on the selector's entry, the cloud's chart on
\* all the selected robots.
generateChartAssignments(a, spec, t, rs) ==
    [n \in Names |->
        IF n = Cloud
        THEN IF a.cloud THEN <<a, spec, Selected(rs, spec), t>> ELSE <<>>
        ELSE IF a.robot /\ n \in Selected(rs, spec)
             THEN <<a, spec, {i \in DOMAIN spec : n \in matchingRobots(rs, spec[i])}, t>>
             ELSE <<>>]

-----------------------------------------------------------------------------
(* Users, and the other controllers.                                       *)

UserEdits ==
    /\ edits < MaxEdits
    /\ edits' = edits + 1
    /\ UNCHANGED <<queued, timers, pc, faults>>

\* Every copy of the rollout is out of date.
Rewrite(new) ==
    /\ ar' = new
    /\ cache' = [cache EXCEPT !.current = FALSE]
    /\ job' = [job EXCEPT !.current = FALSE]
    /\ UserEdits
    /\ UNCHANGED <<app, robots, tenant, cas, events>>

CreateRollout ==
    /\ ~ar.alive
    /\ ar.inc < MaxInc
    /\ \E s \in Specs : validate(s) /\ Rewrite(NewRollout(ar.inc + 1, s))

EditRollout ==
    /\ ar.alive
    /\ \E s \in Specs \ {ar.spec} : validate(s) /\ Rewrite([ar EXCEPT !.spec = s, !.gen = @ + 1])

\* The rollout has no finalizer: it is gone at once, its assignments are not.
DeleteRollout ==
    /\ ar.alive
    /\ Rewrite([NoRollout EXCEPT !.inc = ar.inc])

ChangeApp ==
    /\ app' \in (Apps \union {NoApp}) \ {app}
    /\ UserEdits
    /\ UNCHANGED <<ar, robots, tenant, cas, cache, events, job>>

ChangeRobot ==
    /\ \E r \in Robots, s \in {"absent", "off", "on"} :
          robots[r] # s /\ robots' = [robots EXCEPT ![r] = s]
    /\ UserEdits
    /\ UNCHANGED <<ar, app, tenant, cas, cache, events, job>>

\* The Tenant is created or deleted, or has a new status.
ChangeTenant ==
    /\ tenant' \in (0..MaxTenant) \ {tenant}
    /\ UserEdits
    /\ UNCHANGED <<ar, app, robots, cas, cache, events, job>>

\* An assignment that exists is written or removed: the watch will tell.
Changed(n, ca) ==
    /\ cas' = [cas EXCEPT ![n] = ca]
    /\ events' = events \union {n}

\* A delete request: the object goes at once unless a finalizer holds it.
Deleted(ca) == IF ca.fin THEN [ca EXCEPT !.del = TRUE] ELSE NoCA

\* Somebody else writes assignment n: a copy that the reconcile has is old.
Others(n, ca) ==
    /\ Changed(n, ca)
    /\ job' = [job EXCEPT !.fresh = @ \ {n}]
    /\ UNCHANGED <<ar, app, robots, tenant, cache, queued, timers, pc, faults>>

DeleteAssignment(n) ==
    /\ cas[n] # NoCA /\ ~cas[n].del
    /\ Others(n, Deleted(cas[n]))
    /\ edits < MaxEdits
    /\ edits' = edits + 1

\* The garbage collector deletes what belongs to a rollout that is no more.
GarbageCollect(n) ==
    /\ cas[n].owner # 0 /\ ~cas[n].del
    /\ ~(ar.alive /\ cas[n].owner = ar.inc)
    /\ Others(n, Deleted(cas[n]))
    /\ UNCHANGED edits

\* The ChartAssignment controller puts its finalizer on the assignment, installs
\* the chart and reports; it lets a deleted assignment go.
Report(n) ==
    /\ cas[n].pending /\ ~cas[n].del
    /\ \E p \in Outcomes[n] : Others(n, [cas[n] EXCEPT !.fin = TRUE, !.phase = p, !.pending = FALSE])
    /\ UNCHANGED edits

Finalize(n) ==
    /\ cas[n].del
    /\ Others(n, NoCA)
    /\ UNCHANGED edits

-----------------------------------------------------------------------------
(* The watches of Add.                                                     *)

Delivered == UNCHANGED <<apiVars, pc, job, edits, faults>>

WatchRollout ==
    /\ ~cache.current
    /\ cache' = [cache EXCEPT !.ar = View(ar), !.current = TRUE]
    /\ queued' = TRUE
    /\ UNCHANGED <<timers, events>>
    /\ Delivered

\* Mutant: only the creation of an App is an event.
WatchAppCreated ==
    /\ cache.app # app
    /\ cache' = [cache EXCEPT !.app = app]
    /\ queued' = (queued \/ (cache.app = NoApp /\ cache.ar.alive))
    /\ UNCHANGED <<timers, events>>
    /\ Delivered

\* enqueueForApp and enqueueAllInNamespace list the rollouts that the cache holds.
WatchApp ==
    /\ cache.app # app
    /\ cache' = [cache EXCEPT !.app = app]
    /\ queued' = (queued \/ cache.ar.alive)
    /\ UNCHANGED <<timers, events>>
    /\ Delivered

\* A robot that vanished may be back soon: that event is handled later.
WatchRobots ==
    /\ cache.robots # robots
    /\ cache' = [cache EXCEPT !.robots = robots]
    /\ LET changed == {r \in Robots : cache.robots[r] # robots[r]}
           gone == {r \in changed : robots[r] = "absent"}
       IN  /\ queued' = (queued \/ (changed \ gone # {} /\ cache.ar.alive))
           /\ timers' = (timers \/ gone # {})
    /\ UNCHANGED events
    /\ Delivered

TimerFires ==
    /\ timers
    /\ timers' = FALSE
    /\ queued' = (queued \/ cache.ar.alive)
    /\ UNCHANGED <<cache, events>>
    /\ Delivered

\* Mutant: only deletions are events.
WatchAssignmentsDeleted ==
    /\ cache.cas # cas \/ events # {}
    /\ cache' = [cache EXCEPT !.cas = cas]
    /\ queued' = (queued \/ \E n \in events : cas[n] = NoCA)
    /\ events' = {}
    /\ UNCHANGED timers
    /\ Delivered

\* The creation of an assignment is no reason to reconcile.
WatchAssignments ==
    /\ cache.cas # cas \/ events # {}
    /\ cache' = [cache EXCEPT !.cas = cas]
    /\ queued' = (queued \/ events # {})
    /\ events' = {}
    /\ UNCHANGED timers
    /\ Delivered

-----------------------------------------------------------------------------
(* Reconcile and reconcile.                                                *)

\* The reconcile returns; after an error the work queue tries again.
Done(retry) ==
    /\ pc' = "idle"
    /\ job' = NoJob
    /\ queued' = (queued \/ retry)

Begins(step, j) ==
    /\ pc' = step
    /\ job' = j
    /\ queued' = FALSE

\* Mutant: the assignments are found by the rollout's name.
OwnedByName(inc) == cache.cas

\* fieldIndexOwners finds the assignments by the UID of their owner.
Owned(inc) == [n \in Names |-> IF cache.cas[n].owner = inc THEN cache.cas[n] ELSE NoCA]

Count(cur, phases) == Cardinality({n \in Names : cur[n].phase \in phases})

\* The writes that a reconcile has to do: what is missing or has changed, then
\* what nobody wants any more.  setStatus will count what is there before them.
Plan(want, cur) ==
    [inc |-> cache.ar.inc, current |-> cache.current,
     want |-> [n \in Names |-> IF cur[n].val = want[n] THEN <<>> ELSE want[n]],
     exist |-> {n \in Names : cur[n] # NoCA /\ want[n] \notin {<<>>, cur[n].val}},
     fresh |-> {n \in Names : want[n] # <<>> /\ cur[n].val # want[n] /\ cur[n] = cas[n]},
     drop |-> {n \in Names : want[n] = <<>> /\ cur[n] # NoCA},
     count |-> [want |-> Cardinality({n \in Names : want[n] # <<>>}),
                settled |-> Count(cur, {"Settled", "Ready"}),
                ready |-> Count(cur, {"Ready"}),
                failed |-> Count(cur, {"Failed"})]]

NoPlan == [NoJob EXCEPT !.inc = cache.ar.inc, !.current = cache.current]

\* The Tenant comes from a cache too.  No watch acts on it, so that reading an earlier
\* one is like reconciling earlier: it is read as it is.  Without one the queue retries.
Reconcile ==
    /\ pc = "idle" /\ queued
    /\ IF ~cache.ar.alive
       THEN Begins("idle", NoJob)
       ELSE IF cache.app = NoApp
            THEN Begins("error", NoPlan)
       ELSE IF tenant = 0 /\ ~DefaultNamespace
            THEN UNCHANGED <<pc, job, queued>>
       ELSE IF RobotSelectorOverlap(cache.robots, cache.ar.spec)
            THEN Begins("error", NoPlan)
       ELSE Begins("write", Plan(generateChartAssignments(cache.app, cache.ar.spec, tenant, cache.robots),
                                 Owned(cache.ar.inc)))
    /\ UNCHANGED <<apiVars, cache, events, timers, edits, faults>>

\* The answer to a write comes, or it is lost and the reconcile fails.
Continues(j) ==
    \/ job' = j /\ UNCHANGED <<pc, queued, faults>>
    \/ Fault /\ Done(TRUE)

Todo == {n \in Names : job.want[n] # <<>>}
NextWrite(n) == pc = "write" /\ n \in Todo /\ \A m \in Todo : n <= m
Written(n) == [job EXCEPT !.want[n] = <<>>, !.exist = @ \ {n}, !.fresh = @ \ {n}]

\* Mutant: setOwnerReference is forgotten.
CreateCAOrphan(n) ==
    /\ NextWrite(n)
    /\ n \notin job.exist
    /\ IF cas[n] = NoCA
       THEN /\ cas' = [cas EXCEPT ![n] = NewCA(0, job.want[n])]
            /\ Continues(Written(n))
       ELSE Done(TRUE) /\ UNCHANGED <<cas, faults>>
    /\ UNCHANGED <<ar, app, robots, tenant, cache, events, timers, edits>>

CreateCA(n) ==
    /\ NextWrite(n)
    /\ n \notin job.exist
    /\ IF cas[n] = NoCA
       THEN /\ cas' = [cas EXCEPT ![n] = NewCA(job.inc, job.want[n])]
            /\ Continues(Written(n))
       ELSE Done(TRUE) /\ UNCHANGED <<cas, faults>>
    /\ UNCHANGED <<ar, app, robots, tenant, cache, events, timers, edits>>

\* The new object has the generated metadata and no finalizers, and replaces the
\* old one: a deleted assignment is let go by it.
UpdateCA(n) ==
    /\ NextWrite(n)
    /\ n \in job.exist
    /\ IF n \in job.fresh
       THEN /\ Changed(n, IF cas[n].del THEN NoCA
                         ELSE [cas[n] EXCEPT !.val = job.want[n], !.fin = FALSE, !.pending = TRUE])
            /\ Continues(Written(n))
       ELSE Done(TRUE) /\ UNCHANGED <<cas, events, faults>>
    /\ UNCHANGED <<ar, app, robots, tenant, cache, timers, edits>>

\* Whatever has the name is deleted; what is gone already is an error.
DeleteCA(n) ==
    /\ pc = "write" /\ Todo = {} /\ n \in job.drop
    /\ IF cas[n] # NoCA
       THEN /\ Changed(n, Deleted(cas[n]))
            /\ Continues([job EXCEPT !.drop = @ \ {n}])
       ELSE Done(TRUE) /\ UNCHANGED <<cas, events, faults>>
    /\ UNCHANGED <<ar, app, robots, tenant, cache, timers, edits>>

Condition(b) == IF b THEN "True" ELSE "False"

\* Mutant: the counts are not reset.
setStatusAdds(a, c) ==
    [a EXCEPT !.obs = a.gen, !.count.settled = @ + c.settled, !.count.ready = @ + c.ready]

setStatus(a, c) ==
    [a EXCEPT !.obs = a.gen, !.count = c,
              !.settled = Condition(c.settled = c.want), !.ready = Condition(c.ready = c.want)]

\* updateErrorStatus: the condition Ready stays what it was.
errorStatus(a) == [a EXCEPT !.obs = a.gen, !.count = NoCount, !.settled = "False"]

NewStatus == IF pc = "error" THEN errorStatus(ar) ELSE setStatus(ar, job.count)
AtStatus == pc = "error" \/ (pc = "write" /\ Todo = {} /\ job.drop = {})

\* A conflict, or a rollout that is gone, is an error.  A status that says what it
\* said before makes no new version.
WriteStatus ==
    /\ AtStatus
    /\ IF job.current
       THEN /\ ar' = NewStatus
            /\ cache' = [cache EXCEPT !.current = @ /\ ar' = ar]
            /\ \/ Done(FALSE) /\ UNCHANGED faults
               \/ Fault /\ Done(TRUE)
       ELSE Done(TRUE) /\ UNCHANGED <<ar, cache, faults>>
    /\ UNCHANGED <<app, robots, tenant, cas, events, timers, edits>>

\* A write of the reconcile fails.
CallFails ==
    /\ pc # "idle"
    /\ Fault
    /\ Done(TRUE)
    /\ UNCHANGED <<apiVars, cache, events, timers, edits>>

\* A new process lists everything before its first reconcile.
ControllerRestart ==
    /\ Fault
    /\ cache' = [ar |-> View(ar), current |-> TRUE, app |-> app, robots |-> robots, cas |-> cas]
    /\ events' = {}
    /\ queued' = ar.alive
    /\ timers' = FALSE
    /\ pc' = "idle"
    /\ job' = NoJob
    /\ UNCHANGED <<apiVars, edits>>

-----------------------------------------------------------------------------
Next ==
    \/ CreateRollout \/ EditRollout \/ DeleteRollout
    \/ ChangeApp \/ ChangeRobot \/ ChangeTenant
    \/ \E n \in Names : DeleteAssignment(n)
    \/ \E n \in Names : GarbageCollect(n)
    \/ \E n \in Names : Report(n)
    \/ \E n \in Names : Finalize(n)
    \/ WatchRollout \/ WatchApp \/ WatchRobots \/ TimerFires \/ WatchAssignments
    \/ Reconcile
    \/ \E n \in Names : CreateCA(n)
    \/ \E n \in Names : UpdateCA(n)
    \/ \E n \in Names : DeleteCA(n)
    \/ WriteStatus
    \/ CallFails \/ ControllerRestart

\* The watches deliver, the worker goes on, Kubernetes and the ChartAssignment
\* controller do their work.  Nobody has to edit anything, and nothing has to fail.
Fairness ==
    /\ WF_vars(WatchRollout) /\ WF_vars(WatchApp) /\ WF_vars(WatchRobots)
    /\ WF_vars(WatchAssignments) /\ WF_vars(TimerFires)
    /\ WF_vars(Reconcile \/ WriteStatus \/ \E n \in Names : CreateCA(n) \/ UpdateCA(n) \/ DeleteCA(n))
    /\ \A n \in Names : WF_vars(GarbageCollect(n)) /\ WF_vars(Report(n)) /\ WF_vars(Finalize(n))

Spec == Init /\ [][Next]_vars /\ Fairness
-----------------------------------------------------------------------------
(* Properties.                                                             *)

Contents == {<<>>} \union (Apps \X Specs \X (SUBSET Nat) \X (0..MaxTenant))
Counts == [want : 0..Cardinality(Names), settled : 0..Cardinality(Names),
           ready : 0..Cardinality(Names), failed : 0..Cardinality(Names)]
Rollouts ==
    [alive : BOOLEAN, inc : 0..MaxInc, gen : 0..(MaxEdits + 1), spec : Specs \union {<<>>},
     obs : 0..(MaxEdits + 1), count : Counts,
     settled : {"", "True", "False"}, ready : {"", "True", "False"}]
Assignments ==
    [owner : 0..MaxInc, val : Contents, fin : BOOLEAN, del : BOOLEAN,
     phase : {"", "Settled", "Ready", "Failed"}, pending : BOOLEAN]

\* Every variable has its type; the counts of a status are counts of one list of
\* assignments, never sums over several reconciles.
RolloutTypeOK ==
    /\ ar \in Rollouts
    /\ ar.count.settled + ar.count.failed <= Cardinality(Names)
    /\ ar.count.ready <= ar.count.settled
    /\ app \in Apps \union {NoApp} /\ cache.app \in Apps \union {NoApp}
    /\ {robots, cache.robots} \subseteq [Robots -> {"absent", "off", "on"}]
    /\ tenant \in 0..MaxTenant
    /\ \A n \in Names : {cas[n], cache.cas[n]} \subseteq Assignments
    /\ events \subseteq Names /\ queued \in BOOLEAN /\ timers \in BOOLEAN
    /\ pc \in {"idle", "write", "error"}
    /\ job.count \in Counts /\ job.inc \in 0..MaxInc
    /\ job.fresh \subseteq Names /\ job.exist \subseteq Todo /\ job.drop \subseteq Names \ Todo
    /\ edits \in 0..MaxEdits /\ faults \in 0..MaxFaults

\* A rollout that was deleted and created again meets assignments of its earlier
\* life until they are collected.  The controller changes and deletes only
\* assignments of the life that it has read, whatever its caches hold (it finds
\* them by the owner's UID and not by name).
OwnLifeOnly ==
    [][\A n \in Names :
          UpdateCA(n) \/ DeleteCA(n) => cas'[n] = cas[n] \/ cas[n].owner = job.inc]_vars

Wanted == generateChartAssignments(app, ar.spec, tenant, robots)

\* The rollout can be carried out: it exists, its App exists, and no robot is
\* selected twice.
Rollable == /\ ar.alive /\ app # NoApp
            /\ tenant # 0 \/ DefaultNamespace
            /\ ~RobotSelectorOverlap(robots, ar.spec)

\* Once users are quiet, exactly the wanted assignments exist, with the content
\* that the current App, rollout and robots give: no failed call, lost answer,
\* stale cache, restart or assignment that somebody deleted is in the way for ever.
\* (The Tenant is left out of the content: the controller does not watch it.)
AllDeployed ==
    <>[](Rollable => \A n \in Names :
            IF Wanted[n] = <<>> THEN cas[n] = NoCA
            ELSE /\ cas[n].owner = ar.inc /\ ~cas[n].del
                 /\ SubSeq(cas[n].val, 1, 3) = SubSeq(Wanted[n], 1, 3))

TrueCount == [want |-> Cardinality({n \in Names : Wanted[n] # <<>>}),
              settled |-> Count(cas, {"Settled", "Ready"}), ready |-> Count(cas, {"Ready"}),
              failed |-> Count(cas, {"Failed"})]

\* Once users are quiet, the rollout's status is the truth: the counts are those of
\* its assignments, the conditions follow from them, and an App that is missing or
\* selectors that overlap show up as not settled.
StatusTrue ==
    <>[](ar.alive => \/ tenant = 0 /\ ~DefaultNamespace
                     \/ Rollable /\ ar = setStatus(ar, TrueCount)
                     \/ ~Rollable /\ ar = errorStatus(ar))

\* Assignments of a rollout that is gone go too, also those that a reconcile
\* creates after the deletion that it has not seen.
OrphansGo == <>[](~ar.alive => \A n \in Names : cas[n] = NoCA)
=============================================================================
