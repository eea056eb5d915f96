-------------------------------- MODULE Synk --------------------------------
(***************************************************************************)
(* Synk (pkg/synk/synk.go), which applies the resources of a chart as one  *)
(* unit: every Apply creates a ResourceSet of the next version, makes it   *)
(* the owner of all resources and, if that worked, deletes the older       *)
(* ResourceSets, whose remaining resources the garbage collector takes.    *)
(*                                                                         *)
(* The ResourceSets are those of one name.  Callers are processes that use *)
(* Synk (the ChartAssignment controller and its successor, the synk        *)
(* command); nothing keeps their calls apart, and each may crash.  An      *)
(* action is one call of the API server.  Resources are numbered in the    *)
(* order of their keys, in which applyAll goes through them.               *)
(***************************************************************************)
EXTENDS Naturals, FiniteSets

CONSTANTS
    Callers,     \* processes that call Apply and Delete
    Resources,   \* the regular resources of the chart, 1..n
    Charts,      \* the sets of resources that a version of the chart may have
    Kinds,       \* the kinds, see below, that a run gives to the resources
    MaxCalls,    \* bound: calls of Apply
    MaxDeletes,  \* bound: calls of Delete
    MaxFaults    \* bound: failed API calls, CRDs that do not appear, crashes

ASSUME SynkConstants ==
    /\ Resources \subseteq Nat \ {0}
    /\ IsFiniteSet(Resources)
    /\ Charts \subseteq SUBSET Resources
    \* patch: merged by element; merge: a custom resource, whose lists are replaced as
    \* a whole; job: patched too, but a change of its content is refused; large: too
    \* large for the last-applied annotation, and therefore updated as a whole
    /\ Kinds \subseteq [Resources -> {"patch", "merge", "job", "large"}]
    /\ MaxCalls \in Nat
    /\ MaxDeletes \in Nat
    /\ MaxFaults \in Nat

VARIABLES
    kind,      \* kind of each resource
    sets,      \* the ResourceSets, by UID
    res,       \* the resources in the cluster
    doomed,    \* history: resources that an Apply wrote although they were being deleted,
               \* or, once there was a Delete, although its ResourceSet was; all of them
               \* if such an Apply deletes a ResourceSet that it takes for an older one
    ap,        \* the Apply of each caller
    calls, deletes, faults

countVars == <<calls, deletes, faults>>
vars == <<kind, sets, res, doomed, ap, countVars>>

UIDs == 1..MaxCalls

\* st: none (not created), alive, deleting (by Delete; held by its dependents), gone
\* after that, or pruned (deleted by an Apply).  chart is the spec; phase and applied
\* are the status.
NoSet == [st |-> "none", ver |-> 0, chart |-> {}, phase |-> "", applied |-> {}]
Exists(u) == sets[u].st \in {"alive", "deleting"}

\* owners: its ResourceSet owner references; last: the owner in its last-applied
\* annotation; gen: its content.
Absent == [st |-> "absent", owners |-> {}, last |-> 0, gen |-> 0]

\* One result per resource; the CRDs of a chart (separateCRDsFromResources) have one
\* together, as number 0.
NoResults == [r \in Resources \union {0} |-> "none"]

\* An Apply: its chart and content, its ResourceSet, the resources still to do in this
\* round of applyAll, the results, the failures of the round before, what applyOne has
\* read, the resources on which it has set a resourceVersion, and the versions that
\* deleteResourceSets has listed.
Idle == [pc |-> "idle", chart |-> {}, gen |-> 0, uid |-> 0, ver |-> 0, todo |-> {},
         results |-> NoResults, prev |-> 0, last |-> 0, seen |-> Absent, versioned |-> {}, old |-> {}]

Least(s) == CHOOSE x \in s : \A y \in s : x <= y
Most(s) == CHOOSE x \in s : \A y \in s : x >= y

Init ==
    /\ kind \in Kinds
    /\ sets = [u \in UIDs |-> NoSet]
    /\ res = [r \in Resources |-> Absent]
    /\ doomed = {}
    /\ ap = [c \in Callers |-> Idle]
    /\ calls = 0
    /\ deletes = 0
    /\ faults = 0

Fault == faults < MaxFaults /\ faults' = faults + 1

Goto(c, pc) == ap' = [ap EXCEPT ![c].pc = pc]

\* Apply returns to its caller.
Return(c) == ap' = [ap EXCEPT ![c] = Idle]

-----------------------------------------------------------------------------
(* Apply: initialize.                                                      *)

\* A caller applies a version of the chart.  Filtering, defaulting and checking the
\* resources comes before any change in the cluster.
Apply(c, chart) ==
    /\ ap[c].pc = "idle"
    /\ calls < MaxCalls
    /\ calls' = calls + 1
    /\ ap' = [ap EXCEPT ![c] = [Idle EXCEPT !.pc = "next", !.chart = chart, !.gen = calls + 1]]
    /\ UNCHANGED <<kind, sets, res, doomed, deletes, faults>>

\* next: one more than the highest version that exists.
NextVersion(c) ==
    /\ ap[c].pc = "next"
    /\ ap' = [ap EXCEPT ![c].pc = "create",
                        ![c].ver = 1 + Most({0} \union {sets[u].ver : u \in {w \in UIDs : Exists(w)}})]
    /\ UNCHANGED <<kind, sets, res, doomed, countVars>>

NewSet(c) == [NoSet EXCEPT !.st = "alive", !.ver = ap[c].ver, !.chart = ap[c].chart,
                           !.phase = "Pending"]

\* Mutant of CreateSet: a ResourceSet that is there is replaced.
CreateSetAnyway(c) ==
    /\ ap[c].pc = "create"
    /\ sets' = [sets EXCEPT ![ap[c].gen] = NewSet(c)]
    /\ ap' = [ap EXCEPT ![c].pc = "crds", ![c].uid = ap[c].gen]
    /\ UNCHANGED <<kind, res, doomed, countVars>>

\* createResourceSet; fails if somebody else has created this version in between.
CreateSet(c) ==
    /\ ap[c].pc = "create"
    /\ IF \E u \in UIDs : Exists(u) /\ sets[u].ver = ap[c].ver
       THEN Return(c) /\ UNCHANGED sets
       ELSE /\ sets' = [sets EXCEPT ![ap[c].gen] = NewSet(c)]
            /\ ap' = [ap EXCEPT ![c].pc = "crds", ![c].uid = ap[c].gen]
    /\ UNCHANGED <<kind, res, doomed, countVars>>

-----------------------------------------------------------------------------
(* Apply: applyAll and applyOne.                                           *)

Errors == {"transient", "permanent"}
Failed(a) == {r \in Resources : a.results[r] \in Errors}

\* The loop of applyAll: the next resource of the round; or once more the failed ones,
\* unless there are none or as many as before.  (They get fewer with every round, so
\* the limit of ten rounds is not reached with less than ten resources.)
Round(a) ==
    LET n == Cardinality(Failed(a)) IN
    CASE a.todo # {} -> [a EXCEPT !.pc = "get"]
      [] a.todo = {} /\ n \in {0, a.prev} -> [a EXCEPT !.pc = "status"]
      [] OTHER -> [a EXCEPT !.pc = "get", !.todo = Failed(a), !.prev = n]

\* The chart's CRDs, which get no owner, are applied, with their common result as
\* number 0; once all of them are available, the first round begins.
ApplyCRDs(c, result) ==
    /\ ap[c].pc = "crds"
    /\ IF result = "ok" THEN UNCHANGED faults ELSE Fault
    /\ ap' = [ap EXCEPT ![c] = Round([ap[c] EXCEPT !.todo = ap[c].chart, !.results[0] = result])]
    /\ UNCHANGED <<kind, sets, res, doomed, calls, deletes>>

\* They are not available, after all retries: applyAll fails and the status is
\* written with the CRDs alone.
CRDsTimeout(c) ==
    /\ ap[c].pc = "crds"
    /\ Fault
    /\ ap' = [ap EXCEPT ![c].pc = "status", ![c].results[0] = "timeout"]
    /\ UNCHANGED <<kind, sets, res, doomed, calls, deletes>>

\* In the order of sortResources: a resource is its place in that order.
Current(c) == Least(ap[c].todo)

\* applyOne is done with a resource.
Result(c, result) ==
    ap' = [ap EXCEPT ![c] = Round([ap[c] EXCEPT !.todo = ap[c].todo \ {Current(c)}, !.seen = Absent,
                                                !.results[Current(c)] = result])]

\* Mutant of ValidateOwnerRefs: any owner will do.
ValidateOwnerRefsNot(c, r) == TRUE

\* validateOwnerRefs accepts a resource of the same or an older ResourceSet.
ValidateOwnerRefs(c, r) == \A u \in res[r].owners : sets[u].ver <= ap[c].ver

\* applyOne reads the resource (and computes the patch against it).
Get(c) ==
    /\ ap[c].pc = "get"
    /\ LET r == Current(c) IN
       CASE res[r].st = "absent" -> Goto(c, "new")
         [] res[r].st # "absent" /\ ~ValidateOwnerRefs(c, r) -> Result(c, "permanent")
         [] OTHER -> ap' = [ap EXCEPT ![c] =
                IF kind[r] = "large"
                THEN [ap[c] EXCEPT !.pc = "update", !.seen = res[r], !.versioned = ap[c].versioned \union {r}]
                ELSE [ap[c] EXCEPT !.pc = "patch", !.last = res[r].last]]
    /\ UNCHANGED <<kind, sets, res, doomed, countVars>>

\* setAppliedAnnotation: none on a large resource.
Annotated(c) == IF kind[Current(c)] = "large" THEN 0 ELSE ap[c].uid

\* setOwnerRef: the resource as synk wants it, owned by its ResourceSet alone.
Wanted(c) == [st |-> "alive", owners |-> {ap[c].uid}, last |-> Annotated(c), gen |-> ap[c].gen]

\* The API server accepts the resource as o.
Write(c, r, o) ==
    /\ res' = [res EXCEPT ![r] = o]
    /\ doomed' = IF o.st = "deleting" \/ (deletes > 0 /\ sets[ap[c].uid].st # "alive")
                 THEN doomed \union {r} ELSE doomed
    /\ Result(c, "ok")

\* Create, for a resource that was not there or that replace has deleted; fails if it
\* is there (again, or still), and for good if an earlier round has left a
\* resourceVersion on it: the API server creates none that has one.
CreateResource(c) ==
    /\ ap[c].pc \in {"new", "recreate"}
    /\ LET r == Current(c) IN
       IF res[r].st = "absent" /\ r \notin ap[c].versioned
       THEN Write(c, r, Wanted(c))
       ELSE /\ Result(c, IF r \in ap[c].versioned THEN "permanent" ELSE "transient")
            /\ UNCHANGED <<res, doomed>>
    /\ UNCHANGED <<kind, sets, countVars>>

\* The patch carries no resourceVersion.  By element: the owner of the last-applied
\* annotation that was read goes, the new one comes, others stay.
Patched(c, r) ==
    [Wanted(c) EXCEPT !.st = res[r].st,
                      !.owners = IF kind[r] = "merge" THEN @
                                 ELSE (res[r].owners \ {ap[c].last}) \union @]

Patch(c) ==
    /\ ap[c].pc = "patch"
    /\ LET r == Current(c) IN
       \/ /\ res[r].st = "absent"
          /\ Result(c, "transient")
          /\ UNCHANGED <<res, doomed>>
       \/ /\ res[r].st # "absent"
          /\ kind[r] = "job" => res[r].gen = ap[c].gen
          /\ Write(c, r, Patched(c, r))
    /\ UNCHANGED <<kind, sets, countVars>>

\* A large resource is updated, with the resourceVersion that was read: refused with a
\* conflict, or as not found, if anything has happened to it since.  (No resource
\* comes back to an earlier content, so that equality stands for the version.)
Update(c) ==
    /\ ap[c].pc = "update"
    /\ LET r == Current(c) IN
       IF res[r] = ap[c].seen
       THEN Write(c, r, [Wanted(c) EXCEPT !.st = res[r].st])
       ELSE Result(c, "transient") /\ UNCHANGED <<res, doomed>>
    /\ UNCHANGED <<kind, sets, countVars>>

\* The patch is refused because a field is immutable, and canReplace holds: the
\* resource is deleted (in the foreground, so it may stay for a while).
Replace(c) ==
    /\ ap[c].pc = "patch"
    /\ LET r == Current(c) IN
       /\ res[r].st # "absent"
       /\ kind[r] = "job" /\ res[r].gen # ap[c].gen
       /\ res' = [res EXCEPT ![r].st = "deleting"]
    /\ Goto(c, "recreate")
    /\ UNCHANGED <<kind, sets, doomed, countVars>>

\* The call of the API server for a resource fails.
CallFails(c, result) ==
    /\ ap[c].pc \in {"get", "new", "patch", "update", "recreate"}
    /\ Fault
    /\ Result(c, result)
    /\ UNCHANGED <<kind, sets, res, doomed, calls, deletes>>

-----------------------------------------------------------------------------
(* Apply: the status and the older ResourceSets.                           *)

Ok(c) == {r \in Resources : ap[c].results[r] = "ok"}
AllOk(c) == \A r \in ap[c].chart \union {0} : ap[c].results[r] = "ok"

\* updateResourceSetStatus writes the results, and Apply goes on if applyAll was
\* successful.  The update carries the resourceVersion of the creation, so it fails
\* if the ResourceSet has been marked for deletion or is gone.
UpdateStatus(c) ==
    /\ ap[c].pc = "status"
    /\ LET u == ap[c].uid IN
       IF sets[u].st = "alive"
       THEN /\ sets' = [sets EXCEPT ![u].applied = Ok(c),
                   ![u].phase = IF ap[c].results[0] \in Errors \/ Failed(ap[c]) # {} THEN "Failed" ELSE "Settled"]
            /\ IF AllOk(c) THEN Goto(c, "list") ELSE Return(c)
       ELSE UNCHANGED sets /\ Return(c)
    /\ UNCHANGED <<kind, res, doomed, countVars>>

\* The versions that deleteResourceSets picks from its list.
Older(c) == {sets[u].ver : u \in {w \in UIDs : Exists(w) /\ sets[w].ver < ap[c].ver}}

ListOld(c) ==
    /\ ap[c].pc = "list"
    /\ IF Older(c) = {} THEN Return(c)
       ELSE ap' = [ap EXCEPT ![c].pc = "prune", ![c].old = Older(c)]
    /\ UNCHANGED <<kind, sets, res, doomed, countVars>>

\* It deletes them by name, in the background: at once.  If there is none of that name
\* any more, Apply returns the error.  After a Delete, the names come again: an Apply
\* from before it may delete a ResourceSet that was created since.
DeleteOld(c) ==
    /\ ap[c].pc = "prune"
    /\ LET v == Least(ap[c].old)
           named == {u \in UIDs : Exists(u) /\ sets[u].ver = v} IN
       /\ sets' = [u \in UIDs |-> IF u \in named /\ sets[u].st = "alive"
                                  THEN [sets[u] EXCEPT !.st = "pruned"] ELSE sets[u]]
       /\ doomed' = IF deletes > 0 /\ sets[ap[c].uid].st # "alive" /\ \E u \in named : sets[u].st = "alive"
                    THEN Resources ELSE doomed
       /\ IF named = {} \/ ap[c].old = {v} THEN Return(c) ELSE ap' = [ap EXCEPT ![c].old = @ \ {v}]
    /\ UNCHANGED <<kind, res, countVars>>

\* Another call of the API server fails and Apply returns its error, or the process ends.
Interrupted(c) ==
    /\ ap[c].pc # "idle"
    /\ Fault
    /\ Return(c)
    /\ UNCHANGED <<kind, sets, res, doomed, calls, deletes>>

-----------------------------------------------------------------------------
(* Delete, and what the API server and its garbage collector do.           *)

\* Mutant of Delete: the dependents are orphaned.
DeleteOrphans(c) ==
    /\ ap[c].pc = "idle"
    /\ deletes < MaxDeletes
    /\ deletes' = deletes + 1
    /\ sets' = [u \in UIDs |-> IF sets[u].st = "alive" THEN [sets[u] EXCEPT !.st = "gone"] ELSE sets[u]]
    /\ res' = [r \in Resources |-> [res[r] EXCEPT !.owners = {u \in @ : sets[u].st # "alive"}]]
    /\ UNCHANGED <<kind, doomed, ap, calls, faults>>

\* Delete: foreground deletion of all ResourceSets of the name.  It is one call, which
\* the API server carries out one ResourceSet after the other; Kept says nothing of the
\* time in which some of them are still to be marked.
Delete(c) ==
    /\ ap[c].pc = "idle"
    /\ deletes < MaxDeletes
    /\ deletes' = deletes + 1
    /\ sets' = [u \in UIDs |-> IF sets[u].st = "alive" THEN [sets[u] EXCEPT !.st = "deleting"]
                               ELSE sets[u]]
    /\ UNCHANGED <<kind, res, doomed, ap, calls, faults>>

Solid(r) == {u \in res[r].owners : sets[u].st = "alive"}

\* The garbage collector deletes a resource none of whose owners is alive, and drops
\* the other references of one that still has such an owner.
Collect(r) ==
    /\ res[r].st = "alive"
    /\ res[r].owners # Solid(r)
    /\ res' = [res EXCEPT ![r] = IF Solid(r) = {} THEN [@ EXCEPT !.st = "deleting"]
                                 ELSE [@ EXCEPT !.owners = Solid(r)]]
    /\ UNCHANGED <<kind, sets, doomed, ap, countVars>>

\* A resource that is being deleted goes, after its own dependents.
ResourceGone(r) ==
    /\ res[r].st = "deleting"
    /\ res' = [res EXCEPT ![r] = Absent]
    /\ UNCHANGED <<kind, sets, doomed, ap, countVars>>

\* A ResourceSet that is being deleted goes when no resource refers to it.
SetGone(u) ==
    /\ sets[u].st = "deleting"
    /\ \A r \in Resources : u \notin res[r].owners
    /\ sets' = [sets EXCEPT ![u].st = "gone"]
    /\ UNCHANGED <<kind, res, doomed, ap, countVars>>

ApplyStep(c) ==
    \/ NextVersion(c) \/ CreateSet(c)
    \/ ApplyCRDs(c, "ok")
    \/ Get(c) \/ CreateResource(c) \/ Patch(c) \/ Update(c) \/ Replace(c)
    \/ UpdateStatus(c) \/ ListOld(c) \/ DeleteOld(c)

Next ==
    \/ \E c \in Callers :
          \/ ApplyStep(c)
          \/ \E chart \in Charts : Apply(c, chart)
          \/ Delete(c)
          \/ \E result \in Errors : ApplyCRDs(c, result) \/ CallFails(c, result)
          \/ CRDsTimeout(c)
          \/ Interrupted(c)
    \/ \E r \in Resources : Collect(r) \/ ResourceGone(r)
    \/ \E u \in UIDs : SetGone(u)

\* Callers run and the garbage collector works; nobody has to call Apply or Delete.
Fairness ==
    /\ \A c \in Callers : WF_vars(ApplyStep(c))
    /\ \A r \in Resources : WF_vars(Collect(r)) /\ WF_vars(ResourceGone(r))
    /\ \A u \in UIDs : WF_vars(SetGone(u))

Spec == Init /\ [][Next]_vars /\ Fairness

-----------------------------------------------------------------------------
(* Properties.                                                             *)

SetType == [st : {"none", "alive", "deleting", "gone", "pruned"}, ver : 0..MaxCalls,
            chart : SUBSET Resources, phase : {"", "Pending", "Settled", "Failed"},
            applied : SUBSET Resources]
ResType == [st : {"absent", "alive", "deleting"}, owners : SUBSET UIDs,
            last : 0..MaxCalls, gen : 0..MaxCalls]
ItemSteps == {"get", "new", "patch", "update", "recreate"}
Steps == {"idle", "next", "create", "crds", "status", "list", "prune"} \union ItemSteps

\* Types; and no two ResourceSets of a version exist at once.
SynkTypeOK ==
    /\ kind \in Kinds
    /\ sets \in [UIDs -> SetType]
    /\ res \in [Resources -> ResType]
    /\ doomed \subseteq Resources
    /\ \A c \in Callers :
          /\ ap[c].pc \in Steps
          /\ ap[c].todo \subseteq ap[c].chart /\ ap[c].versioned \subseteq ap[c].chart
          /\ ap[c].pc \in ItemSteps => ap[c].todo # {}
    /\ \A u, w \in UIDs : Exists(u) /\ Exists(w) /\ sets[u].ver = sets[w].ver => u = w

\* What the status of a ResourceSet lists as applied is there, and has an owner that
\* lives, for as long as all newer ResourceSets want it too: whatever Applies failed,
\* crashed or overlapped in between, the garbage collector has nothing to take.  (Not
\* so for a resource that is replaced, or of which a patch replaces the owners.)
Kept ==
    \A u \in UIDs : sets[u].st = "alive" =>
        \A r \in sets[u].applied \ doomed :
            kind[r] \in {"patch", "large"} /\ (\A w \in UIDs : sets[w].st = "alive" /\ sets[w].ver > sets[u].ver
                                                   => r \in sets[w].chart)
            => res[r].st = "alive" /\ \E w \in res[r].owners : sets[w].st = "alive"

\* Nothing is left behind: a resource that from some time on is in the chart of no
\* ResourceSet goes away, after a Delete as after an Apply of a smaller chart, even if
\* an Apply that is still under way, or was cut short, writes it once more.
Cleaned ==
    \A r \in Resources :
        <>[](\A u \in UIDs : sets[u].st = "alive" => r \notin sets[u].chart)
            => <>[](res[r].st = "absent")

=============================================================================
