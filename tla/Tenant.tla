------------------------------- MODULE Tenant -------------------------------
(***************************************************************************)
(* The tenant-controller (pkg/controller/tenant), for one name of a Tenant *)
(* that is created, edited, deleted and created again.                     *)
(*                                                                         *)
(* A reconcile works on a copy of the Tenant from the informer cache.  It  *)
(* ensures one object after the other, each looked up in its own cache,    *)
(* collects a status in its copy, and writes the status at the end.  Each  *)
(* write is optimistic: one that starts from a copy that is out of date is *)
(* refused.                                                                *)
(*                                                                         *)
(* An error, RequeueAfter(3s) and RequeueAfter(3min) all put the Tenant    *)
(* back into the queue; the model has no clock, and tells them from a      *)
(* return that does not.                                                   *)
(*                                                                         *)
(* The status is the domain and one flag for all the conditions; the       *)
(* numbers of robots, the list of namespaces, and what the controllers of  *)
(* DNS entries and certificates report are copied into it and left out.    *)
(***************************************************************************)
EXTENDS Integers, FiniteSets

CONSTANTS
    Kinds,      \* sorts of Tenants: [default |-> , gateways |-> , long |-> , apps |-> ]
    Generated,  \* what RandomString returns
    MaxInc,     \* bound: times the Tenant is created
    MaxEdits,   \* bound: changes that users make
    MaxFaults   \* bound: failed calls, restarts, and steps that meet an old copy

\* The TenantDomains of a spec: none, one of the user's, and one of more than 62
\* characters.
Specs == {"", "custom", "toolong"}

ASSUME TenantConstants ==
    /\ Kinds \subseteq [default : BOOLEAN, gateways : BOOLEAN, long : BOOLEAN, apps : Nat]
    /\ Generated \intersect ({"name"} \union Specs) = {}
    /\ \A S \in SUBSET Generated : Cardinality(S) <= 7 /\ IsFiniteSet(S) => S # Generated
    /\ MaxInc \in Nat \ {0} /\ MaxEdits \in Nat /\ MaxFaults \in Nat

\* What is ensured: the service accounts, the role bindings, the config map for the
\* setup of robots, the pull secrets, and the three that make the domain work.
Objects == {"accounts", "permissions", "config", "pullsecret", "dns", "cert", "gateway"}

\* Nothing but their owner ever changes, so that an old copy of one shows in no other
\* way than as a call that fails.
Fixed == {"accounts", "permissions", "pullsecret"}

\* The Tenant's namespaces: the main one, and the one for the setup of robots.
Namespaces == {"main", "robot"}

\* Where the objects are.  There are role bindings and pull secrets in both; the
\* certificate is in istio-system.
Home(o) == CASE o \in {"accounts", "config"} -> {"robot"}
             [] o \in {"permissions", "pullsecret"} -> Namespaces
             [] o \in {"dns", "gateway"} -> {"main"}
             [] OTHER -> {}

VARIABLES
    kind,     \* the sort of this Tenant; kind.apps bounds the AppRollouts that users create
    t,        \* the Tenant in the API server
    ns,       \* its namespaces
    obj,      \* the objects
    app,      \* the AppRollouts and the ChartAssignments of its main namespace
    tc,       \* the informer's copy of t
    current,  \* tc is the version in the API server
    nsc,      \* the informer's copy of ns
    lag,      \* objects of which the informer has an old copy
    appc,     \* the informers' lists of AppRollouts and ChartAssignments
    queued,   \* the Tenant is in the work queue
    pc,       \* where the reconcile is
    job,      \* its copy of t, and whether that is the version in the API server
    edits,    \* changes by users so far
    apps,     \* AppRollouts created so far
    faults    \* failures so far

apiVars == <<t, ns, obj, app>>
cacheVars == <<tc, current, nsc, lag, appc>>
loopVars == <<queued, pc, job>>
bounds == <<edits, apps, faults>>
vars == <<kind, apiVars, cacheVars, loopVars, bounds>>

NoTenant == [st |-> "none", inc |-> 0, fin |-> FALSE, spec |-> "", domain |-> "", ok |-> FALSE]
NewTenant(inc) == [NoTenant EXCEPT !.st = "live", !.inc = inc]
Gone(inc) == [NoTenant EXCEPT !.inc = inc]
\* A namespace is absent, active or terminating; inc is the Tenant whose owner
\* reference it bears.
NoNamespace == [st |-> "absent", inc |-> 0]
\* An object has an owner too, and the domain that it names.
NoObject == [inc |-> 0, val |-> ""]
NoJob == [t |-> NoTenant, current |-> FALSE, ok |-> FALSE]

\* The namespaces of the default Tenant are there, and not the controller's.
Init ==
    /\ kind \in Kinds
    /\ t = NewTenant(1)
    /\ ns = [k \in Namespaces |-> IF kind.default THEN [NoNamespace EXCEPT !.st = "active"] ELSE NoNamespace]
    /\ obj = [o \in Objects |-> NoObject]
    /\ app = [rollout |-> FALSE, charts |-> FALSE]
    /\ tc = NoTenant
    /\ current = FALSE
    /\ nsc = ns
    /\ lag = {}
    /\ appc = app
    /\ queued = FALSE
    /\ pc = "idle"
    /\ job = NoJob
    /\ edits = 0
    /\ apps = 0
    /\ faults = 0

Fault == faults < MaxFaults /\ faults' = faults + 1

\* A step that reads a cache which is behind is one of those that are bounded.
Reads(old) == IF old THEN Fault ELSE UNCHANGED faults

\* A write to the Tenant: every other copy is out of date.
Rewrite(new) ==
    /\ t' = new
    /\ current' = FALSE

-----------------------------------------------------------------------------
(* Users, and the other controllers.                                       *)

UserEdits(new) ==
    /\ edits < MaxEdits
    /\ edits' = edits + 1
    /\ Rewrite(new)
    /\ job' = [job EXCEPT !.current = FALSE]
    /\ UNCHANGED <<kind, ns, obj, app, tc, nsc, lag, appc, queued, pc, apps, faults>>

\* The validating webhook, for a Tenant that is alone.
Valid(spec) == kind.gateways \/ spec = ""

CreateTenant ==
    /\ t.st = "none"
    /\ t.inc < MaxInc
    /\ UserEdits(NewTenant(t.inc + 1))

EditSpec ==
    /\ t.st = "live"
    /\ \E s \in Specs \ {t.spec} : Valid(s) /\ UserEdits([t EXCEPT !.spec = s])

DeleteTenant ==
    /\ t.st = "live"
    /\ UserEdits(IF t.fin THEN [t EXCEPT !.st = "deleting"] ELSE Gone(t.inc))

AppsBecome(a) ==
    /\ app' = a
    /\ UNCHANGED <<kind, t, ns, obj, cacheVars, loopVars, edits, faults>>

InstallApp ==
    /\ apps < kind.apps
    /\ ~app.rollout
    /\ ns["main"].st = "active"
    /\ apps' = apps + 1
    /\ AppsBecome([app EXCEPT !.rollout = TRUE])

\* The app-rollout-controller, and the removal of charts that follows.
RollOut ==
    /\ app.rollout # app.charts
    /\ app.rollout => ns["main"].st # "terminating"
    /\ AppsBecome([app EXCEPT !.charts = app.rollout])
    /\ UNCHANGED apps

\* The owner has gone, or is another Tenant of that name.
Ownerless(inc) == inc # 0 /\ (t.st = "none" \/ t.inc # inc)

\* The garbage collector: namespaces begin to terminate, and are emptied.
CollectNamespaces ==
    LET collected == {k \in Namespaces : ns[k].st = "active" /\ Ownerless(ns[k].inc)}
    IN /\ collected # {}
       /\ ns' = [k \in Namespaces |-> IF k \in collected THEN [ns[k] EXCEPT !.st = "terminating"] ELSE ns[k]]
       /\ app' = [app EXCEPT !.rollout = @ /\ "main" \notin collected]
       /\ UNCHANGED <<kind, t, obj, cacheVars, loopVars, bounds>>

\* Each goes with what is in it, the main one when the charts have gone.  Of what is
\* in both the rest is nothing: it is completed or goes with the other one.
RemoveNamespace(k) ==
    /\ ns[k].st = "terminating"
    /\ k = "main" => ~app.charts
    /\ ns' = [ns EXCEPT ![k] = NoNamespace]
    /\ obj' = [o \in Objects |-> IF k \in Home(o) THEN NoObject ELSE obj[o]]
    /\ lag' = lag \union {o \in Objects \ Fixed : k \in Home(o) /\ obj[o] # NoObject}
    /\ UNCHANGED <<kind, t, app, tc, current, nsc, appc, loopVars, bounds>>

\* Objects whose namespaces stay: the certificate, all those of the default Tenant,
\* and those in namespaces that the next Tenant has adopted.  (That one collected before
\* its namespace is adopted comes to the same.)
CollectObject(o) ==
    /\ \A k \in Home(o) : ns[k].st = "active" /\ ~Ownerless(ns[k].inc)
    /\ Ownerless(obj[o].inc)
    /\ obj' = [obj EXCEPT ![o] = NoObject]
    /\ lag' = lag \union ({o} \ Fixed)
    /\ UNCHANGED <<kind, t, ns, app, tc, current, nsc, appc, loopVars, bounds>>

-----------------------------------------------------------------------------
(* The watches.                                                            *)

\* A Tenant has changed, or has gone.
WatchTenant ==
    /\ ~current
    /\ tc' = t
    /\ current' = TRUE
    /\ queued' = TRUE
    /\ UNCHANGED <<kind, apiVars, nsc, lag, appc, pc, job, bounds>>

\* enqueueFromNamespaceName: for Tenants that are in the cache, when a namespace
\* has come or gone.
WatchNamespaces ==
    /\ nsc # ns
    /\ nsc' = ns
    /\ queued' = (queued \/ (tc.st # "none" /\ \E k \in Namespaces :
                              ns[k].st # nsc[k].st /\ (nsc[k].st = "active" => ns[k].st = "absent")))
    /\ UNCHANGED <<kind, apiVars, tc, current, lag, appc, pc, job, bounds>>

\* EnqueueRequestForOwner, for the kinds of objects that Add watches.  The config map of
\* the Tenant is not watched (the one it is copied from is, and does not change here).
WatchObject(o) ==
    /\ o \in lag
    /\ lag' = lag \ {o}
    /\ queued' = (queued \/ o # "config")
    /\ UNCHANGED <<kind, apiVars, tc, current, nsc, appc, pc, job, bounds>>

\* AppRollouts and ChartAssignments are cached, and not watched.
WatchApps(k) ==
    /\ appc[k] # app[k]
    /\ appc' = [appc EXCEPT ![k] = app[k]]
    /\ UNCHANGED <<kind, apiVars, tc, current, nsc, lag, loopVars, bounds>>

-----------------------------------------------------------------------------
(* Reconcile.                                                              *)

\* It returns, with or without a further request.
Return(again) ==
    /\ pc' = "idle"
    /\ job' = NoJob
    /\ queued' = (queued \/ again)

\* ensureNamespace has nothing to do for the default Tenant.
Ensuring == IF kind.default THEN "collect" ELSE "main"

\* Mutant of FirstStep: the finalizer is forgotten.
FirstStepUnheld(copy) == IF copy.st = "deleting" THEN "ensureDeleted" ELSE Ensuring

FirstStep(copy) == IF copy.st = "deleting" THEN "ensureDeleted"
                   ELSE IF copy.fin THEN Ensuring ELSE "finalizer"

\* Mutant of Reconcile: a round that succeeds is the last one.
ReconcileOnce ==
    /\ pc = "idle"
    /\ queued
    /\ queued' = FALSE
    /\ Reads(~current)
    /\ IF tc.st = "none"
       THEN UNCHANGED <<pc, job>>
       ELSE /\ job' = [t |-> tc, current |-> current, ok |-> TRUE]
            /\ pc' = FirstStep(tc)
    /\ UNCHANGED <<kind, apiVars, cacheVars, edits, apps>>

\* A round for a live Tenant ends with another request whatever happens; the flag
\* says so from its beginning.
Reconcile ==
    /\ pc = "idle"
    /\ queued
    /\ queued' = (tc.st = "live")
    /\ Reads(~current)
    /\ IF tc.st = "none"
       THEN UNCHANGED <<pc, job>>
       ELSE /\ job' = [t |-> tc, current |-> current, ok |-> TRUE]
            /\ pc' = FirstStep(tc)
    /\ UNCHANGED <<kind, apiVars, cacheVars, edits, apps>>

\* Mutant of ensureDeleted: no request for a further round.
ensureDeletedOnce ==
    /\ pc = "ensureDeleted"
    /\ Reads(appc # app)
    /\ app' = [app EXCEPT !.rollout = @ /\ ~appc.rollout]
    /\ IF appc.rollout \/ appc.charts
       THEN Return(FALSE)
       ELSE pc' = "unfinalize" /\ UNCHANGED <<job, queued>>
    /\ UNCHANGED <<kind, t, ns, obj, cacheVars, edits, apps>>

\* DeleteAllOf works on what is in the API server, the lists are those of the cache.
ensureDeleted ==
    /\ pc = "ensureDeleted"
    /\ Reads(appc # app)
    /\ app' = [app EXCEPT !.rollout = @ /\ ~appc.rollout]
    /\ IF appc.rollout \/ appc.charts
       THEN Return(TRUE)
       ELSE pc' = "unfinalize" /\ UNCHANGED <<job, queued>>
    /\ UNCHANGED <<kind, t, ns, obj, cacheVars, edits, apps>>

RemoveFinalizer ==
    /\ pc = "unfinalize"
    /\ IF job.current
       THEN Rewrite(Gone(t.inc)) /\ Return(FALSE)
       ELSE UNCHANGED <<t, current>> /\ Return(TRUE)
    /\ UNCHANGED <<kind, ns, obj, app, tc, nsc, lag, appc, bounds>>

AddFinalizer ==
    /\ pc = "finalizer"
    /\ IF job.current
       THEN /\ Rewrite([t EXCEPT !.fin = TRUE])
            /\ job' = [job EXCEPT !.t.fin = TRUE]
            /\ pc' = Ensuring
            /\ UNCHANGED queued
       ELSE UNCHANGED <<t, current>> /\ Return(TRUE)
    /\ UNCHANGED <<kind, ns, obj, app, tc, nsc, lag, appc, bounds>>

\* An error, or a namespace in deletion: the status is written first, with conditions
\* as ok says.
Abort(ok) ==
    /\ pc' = "abort"
    /\ job' = [job EXCEPT !.ok = ok]

\* Mutant of NamespaceOwner: SetControllerReference is forgotten.
NamespaceOwnerNone(copy) == 0

NamespaceOwner(copy) == copy.inc

\* The main namespace, then the other one: created, or updated from a copy that has to
\* be current.  SetControllerReference compares the name of an owner and not its UID,
\* so that a namespace that an earlier Tenant has left is adopted.
ensureNamespace(k) ==
    /\ pc = k
    /\ Reads(nsc[k] # ns[k])
    /\ IF nsc[k] = ns[k] /\ ns[k].st # "terminating"
       THEN /\ ns' = [ns EXCEPT ![k] = [st |-> "active", inc |-> NamespaceOwner(job.t)]]
            /\ pc' = (IF k = "main" THEN "robot" ELSE "collect")
            /\ UNCHANGED job
       ELSE Abort(FALSE) /\ UNCHANGED ns
    /\ UNCHANGED <<kind, t, obj, app, cacheVars, queued, edits, apps>>

\* collectTenantNamespaces updates the namespaces that the cache lists; collectRobots,
\* which follows, only counts.  When one of them fails (CallFails) the conditions are
\* those of the copy.
collectTenantNamespaces ==
    LET old == \E k \in Namespaces : nsc[k].st # "absent" /\ nsc[k] # ns[k]
    IN /\ pc = "collect"
       /\ Reads(old)
       /\ IF old THEN Abort(job.t.ok) ELSE pc' = "accounts" /\ UNCHANGED job
       /\ UNCHANGED <<kind, apiVars, cacheVars, queued, edits, apps>>

\* An object is updated from a current copy of it, or created where its namespaces
\* are active.
Writable(o) ==
    /\ o \notin lag
    /\ obj[o] # NoObject \/ \A k \in Home(o) : ns[k].st = "active"

\* Objects of an earlier Tenant are adopted as well.  An update that changes nothing is
\* not a new version.
Write(o, v) ==
    /\ obj' = [obj EXCEPT ![o] = [inc |-> job.t.inc, val |-> v]]
    /\ lag' = IF obj' = obj THEN lag ELSE lag \union ({o} \ Fixed)

\* One of the ensure... functions: its object names v, and afterwards the copy of
\* the Tenant is copy; a failure is remembered, and leads to the step fail.
Ensure(o, v, copy, next, fail) ==
    /\ pc = o
    /\ Reads(o \in lag)
    /\ IF Writable(o)
       THEN /\ Write(o, v)
            /\ job' = [job EXCEPT !.t = copy]
            /\ pc' = next
       ELSE /\ job' = [job EXCEPT !.ok = FALSE]
            /\ pc' = fail
            /\ UNCHANGED <<obj, lag>>
    /\ UNCHANGED <<kind, t, ns, app, tc, current, nsc, appc, queued, edits, apps>>

ensureServiceAccount == Ensure("accounts", "", job.t, "permissions", "permissions")

ensurePermissions == Ensure("permissions", "", job.t, "config", "config")

\* Mutant of ensureRobotSetupConfig: a config map that is there is left as it is.
ensureRobotSetupConfigOnce ==
    Ensure("config", IF obj["config"] = NoObject THEN job.t.domain ELSE obj["config"].val,
           job.t, "pullsecret", "pullsecret")

\* It publishes the domain of the copy's status, before ensureDNS has set it.
ensureRobotSetupConfig == Ensure("config", job.t.domain, job.t, "pullsecret", "pullsecret")

\* Without gateways of their own the Tenants have no domain.
AfterAccess == IF kind.gateways THEN "dns" ELSE "status"

ensurePullSecret == Ensure("pullsecret", "", job.t, AfterAccess, AfterAccess)

InUse == {t.domain, tc.domain, job.t.domain} \union {obj[o].val : o \in Objects}

generateTenantDomain == CHOOSE g \in Generated : g \notin InUse

getDefaultTenantDomain(copy) == IF copy.spec = "" THEN "name" ELSE copy.spec

TooLong(d) == d = "toolong" \/ (d = "name" /\ kind.long)

\* The domain of the name, and random ones, end in ".t." and the domain of the cluster.
\* When the default is too long, one of these in the status is kept, and any other one
\* is replaced by a new random one.
TenantDomain(copy) ==
    IF ~TooLong(getDefaultTenantDomain(copy)) THEN getDefaultTenantDomain(copy)
    ELSE IF copy.domain \in {"name"} \union Generated THEN copy.domain ELSE generateTenantDomain

ensureDNS ==
    /\ pc = "dns"
    /\ LET d == TenantDomain(job.t)
       IN Ensure("dns", d, [job.t EXCEPT !.domain = d], "cert", "status")

ensureCertificate == Ensure("cert", job.t.domain, job.t, "gateway", "status")

ensureGateway == Ensure("gateway", job.t.domain, job.t, "status", "status")

Status == [t EXCEPT !.domain = IF kind.gateways THEN job.t.domain ELSE "", !.ok = job.ok]

\* Mutant of updateTenantStatus: a copy that is out of date is no obstacle.
updateTenantStatusBlindly ==
    /\ pc \in {"status", "abort"}
    /\ IF t.inc = job.t.inc /\ t.st # "none" /\ Status # t
       THEN Rewrite(Status)
       ELSE UNCHANGED <<t, current>>
    /\ Return(TRUE)
    /\ UNCHANGED <<kind, ns, obj, app, tc, nsc, lag, appc, bounds>>

\* updateTenantStatus: whatever its outcome there is another round.  A status that
\* is as it was is not a new version.
updateTenantStatus ==
    /\ pc \in {"status", "abort"}
    /\ IF job.current /\ Status # t
       THEN Rewrite(Status)
       ELSE UNCHANGED <<t, current>>
    /\ Return(TRUE)
    /\ UNCHANGED <<kind, ns, obj, app, tc, nsc, lag, appc, bounds>>

\* A call fails: a read or a write of any of the steps, a template that is missing,
\* a default service account that is not there yet, a load balancer without address.
CallFails ==
    /\ pc # "idle"
    /\ Fault
    /\ IF pc \in Objects
       THEN /\ job' = [job EXCEPT !.ok = FALSE]
            /\ pc' = CASE pc = "accounts" -> "permissions"
                       [] pc = "permissions" -> "config"
                       [] pc = "config" -> "pullsecret"
                       [] pc = "pullsecret" -> AfterAccess
                       [] OTHER -> "status"
            /\ UNCHANGED queued
       ELSE \/ pc \in {"main", "robot"} /\ Abort(FALSE) /\ UNCHANGED queued
            \/ pc = "collect" /\ Abort(job.t.ok) /\ UNCHANGED queued
            \/ pc \notin {"main", "robot", "collect"} /\ Return(TRUE)
    /\ UNCHANGED <<kind, apiVars, cacheVars, edits, apps>>

\* The controller stops at any point, and starts again with filled caches.
ControllerRestart ==
    /\ Fault
    /\ tc' = t
    /\ current' = TRUE
    /\ nsc' = ns
    /\ lag' = {}
    /\ appc' = app
    /\ queued' = (t.st # "none")
    /\ pc' = "idle"
    /\ job' = NoJob
    /\ UNCHANGED <<kind, apiVars, edits, apps>>

-----------------------------------------------------------------------------

Controller ==
    \/ Reconcile \/ ensureDeleted \/ RemoveFinalizer \/ AddFinalizer
    \/ (\E k \in Namespaces : ensureNamespace(k)) \/ collectTenantNamespaces
    \/ ensureServiceAccount \/ ensurePermissions \/ ensureRobotSetupConfig \/ ensurePullSecret
    \/ ensureDNS \/ ensureCertificate \/ ensureGateway
    \/ updateTenantStatus

Next ==
    \/ CreateTenant \/ EditSpec \/ DeleteTenant \/ InstallApp
    \/ RollOut
    \/ CollectNamespaces
    \/ \E k \in Namespaces : RemoveNamespace(k)
    \/ \E o \in Objects : CollectObject(o)
    \/ WatchTenant \/ WatchNamespaces
    \/ \E o \in Objects : WatchObject(o)
    \/ \E k \in {"rollout", "charts"} : WatchApps(k)
    \/ Controller
    \/ CallFails \/ ControllerRestart

Fairness ==
    /\ WF_vars(Controller)
    /\ WF_vars(WatchTenant) /\ WF_vars(WatchNamespaces)
    /\ WF_vars(\E o \in Objects : WatchObject(o))
    /\ WF_vars(\E k \in {"rollout", "charts"} : WatchApps(k))
    /\ WF_vars(RollOut)
    /\ WF_vars(CollectNamespaces) /\ WF_vars(\E k \in Namespaces : RemoveNamespace(k))
    /\ WF_vars(\E o \in Objects : CollectObject(o))

Spec == Init /\ [][Next]_vars /\ Fairness

-----------------------------------------------------------------------------
(* Properties.                                                             *)

Domains == {"name"} \union Specs \union Generated

Tenants == [st : {"none", "live", "deleting"}, inc : 0..MaxInc, fin : BOOLEAN, spec : Specs,
            domain : Domains, ok : BOOLEAN]

\* The type of the state; a Tenant that is being deleted still has the finalizer, and a
\* live one that the controller has seen is in its queue: it looks at the AppRollouts and
\* at the config map only when a round comes that no watch has asked for.
TenantTypeOK ==
    /\ t \in Tenants /\ tc \in Tenants
    /\ t.st = "deleting" => t.fin
    /\ current => tc = t
    /\ job.t \in Tenants /\ job.current \in BOOLEAN /\ job.ok \in BOOLEAN
    /\ {ns, nsc} \subseteq [Namespaces -> [st : {"absent", "active", "terminating"}, inc : 0..MaxInc]]
    /\ obj \in [Objects -> [inc : 0..MaxInc, val : Domains]]
    /\ lag \subseteq Objects
    /\ app \in [rollout : BOOLEAN, charts : BOOLEAN] /\ appc \in [rollout : BOOLEAN, charts : BOOLEAN]
    /\ queued \in BOOLEAN /\ (tc.st = "live" => queued)
    /\ pc \in {"idle", "ensureDeleted", "unfinalize", "finalizer", "main", "robot", "collect", "status", "abort"}
              \union Objects
    /\ edits \in 0..MaxEdits /\ apps \in 0..kind.apps /\ faults \in 0..MaxFaults

OwnerThere(inc) == inc # 0 => t.st # "none" /\ t.inc = inc

\* Whatever a reconcile creates or adopts belongs to the Tenant that is there: nothing
\* is given to one that has gone, or to an earlier one.
CreatedForTheLiving ==
    [][/\ \A o \in Objects : obj'[o].inc # obj[o].inc => OwnerThere(obj'[o].inc)
       /\ \A k \in Namespaces : ns'[k].inc # ns[k].inc => OwnerThere(ns'[k].inc)]_vars

\* A random domain that the status has published is not replaced by another random
\* one, whatever old copies of the Tenant a reconcile works on.
DomainKept ==
    [][t.domain \in Generated /\ t'.domain \in Generated /\ t'.inc = t.inc => t'.domain = t.domain]_vars

\* Everything is there, names the domain of the status, and the status says so.
Ready ==
    /\ t.ok
    /\ \A k \in Namespaces : ns[k] = [st |-> "active", inc |-> IF kind.default THEN 0 ELSE t.inc]
    /\ \A o \in Objects : (kind.gateways \/ o \notin {"dns", "cert", "gateway"}) => obj[o].inc = t.inc
    /\ IF kind.gateways
       THEN /\ t.domain \in (IF ~TooLong(getDefaultTenantDomain(t)) THEN {getDefaultTenantDomain(t)}
                              ELSE Generated \union {"name"})
            /\ \A o \in {"config", "dns", "cert", "gateway"} : obj[o].val = t.domain
       ELSE t.domain = "" /\ obj["config"].val = ""

\* When users leave it alone a Tenant gets ready and stays it, also one that was
\* created while the namespaces of its predecessor were still there or terminating,
\* and that has adopted some of what the garbage collector had not reached.
AllReady == <>[](t.st = "live" => Ready)

\* A deletion ends, the rollouts having been deleted and the charts waited for: there
\* always is a later moment at which the Tenant is not in deletion.
DeletionEnds == []<>(t.st # "deleting")

\* In the end nothing is left of a Tenant that was deleted.
NothingLeft ==
    <>[](t.st = "none" => /\ \A o \in Objects : obj[o] = NoObject
                          /\ kind.default \/ \A k \in Namespaces : ns[k] = NoNamespace)

=============================================================================
