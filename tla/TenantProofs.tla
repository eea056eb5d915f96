---------------------------- MODULE TenantProofs ----------------------------
(***************************************************************************)
(* Proofs about the tenant-controller, for any sorts of Tenants, numbers   *)
(* of lives, edits, apps and faults, and any set of at least eight domains *)
(* that RandomString may return.                                           *)
(*                                                                         *)
(* A reconcile works on an old copy of a Tenant, and creates objects that  *)
(* bear the identity of that copy.  That they belong to the Tenant that is *)
(* there rests on the finalizer: the copy had it when the work began, only *)
(* the controller itself takes it away, and it does so in a round of its   *)
(* own, for a copy that is in deletion and current (Finalized, Known,      *)
(* Held, Working).  That a published domain is kept rests on the refusal   *)
(* of a status from an old copy, and on what the copy says before and      *)
(* after ensureDNS (SameDomain).                                           *)
(***************************************************************************)
EXTENDS Tenant, FiniteSetTheorems, TLAPS

Jobs == [t : Tenants, current : BOOLEAN, ok : BOOLEAN]
NamespaceType == [st : {"absent", "active", "terminating"}, inc : 0..MaxInc]
ObjectType == [inc : 0..MaxInc, val : Domains]
AppType == [rollout : BOOLEAN, charts : BOOLEAN]

\* The steps that create objects, with those that write the status after them.
EnsuringSteps == {"main", "robot", "collect", "status", "abort"} \union Objects
Steps == {"idle", "ensureDeleted", "unfinalize", "finalizer"} \union EnsuringSteps

\* The steps after ensureDNS, or after it has failed.
AfterDNS == {"cert", "gateway", "status"}

TenantTypes ==
    /\ kind \in Kinds
    /\ t \in Tenants /\ tc \in Tenants /\ current \in BOOLEAN
    /\ job \in Jobs /\ pc \in Steps

\* A Tenant in deletion has the finalizer, and one that has it is there.
Finalized == (t.st = "deleting" => t.fin) /\ (t.fin => t.st # "none")

Cached == current => tc = t

\* A copy that has the finalizer is one of the Tenant that is there.
Known == tc.st = "live" /\ tc.fin => t.fin /\ t.inc = tc.inc

\* While objects are created their Tenant is there, and cannot go.
Held == pc \in EnsuringSteps => t.fin /\ t.inc = job.t.inc

\* What a copy that is still current says of the Tenant, in the other steps.
Working ==
    job.current => /\ pc = "finalizer" => t.st = "live" /\ t.inc = job.t.inc
                   /\ pc \in {"ensureDeleted", "unfinalize"} => t.st = "deleting" /\ current

\* A copy that is still current has the domain of the Tenant, and after ensureDNS
\* at least no other random one.
SameDomain ==
    job.current => /\ pc \notin AfterDNS => job.t.domain = t.domain
                   /\ t.domain \in Generated /\ job.t.domain \in Generated => job.t.domain = t.domain

\* The Tenant, its copies and the reconcile.
RoundInv == TenantTypes /\ Finalized /\ Cached /\ Known /\ Held /\ Working /\ SameDomain

\* The namespaces and the objects: a namespace that is absent has no owner, and
\* only those objects name a domain that are not fixed.
PlaceInv ==
    /\ ns \in [Namespaces -> NamespaceType] /\ nsc \in [Namespaces -> NamespaceType]
    /\ obj \in [Objects -> ObjectType]
    /\ lag \in SUBSET Objects
    /\ \A k \in Namespaces : ns[k].st = "absent" => ns[k].inc = 0
    /\ \A o \in Fixed : obj[o].val = ""

\* The rest of the state.
RestInv ==
    /\ app \in AppType /\ appc \in AppType
    /\ queued \in BOOLEAN
    /\ edits \in 0..MaxEdits /\ apps \in 0..kind.apps /\ faults \in 0..MaxFaults

\* A live Tenant that the controller has seen will be looked at again.
Asked == tc.st = "live" => queued

TenantInv == RoundInv /\ PlaceInv /\ RestInv /\ Asked

-----------------------------------------------------------------------------
(* What the operators return.                                              *)

\* The bounds, as numbers.
LEMMA Bounds == MaxInc \in Nat /\ MaxInc >= 1 /\ MaxEdits \in Nat /\ MaxFaults \in Nat
<1>1. MaxInc \in Nat \ {0} /\ MaxEdits \in Nat /\ MaxFaults \in Nat
  BY ONLY TenantConstants DEF TenantConstants
<1> QED
  BY <1>1

\* The fields of a Tenant.
LEMMA Fields ==
    ASSUME NEW x \in Tenants
    PROVE  /\ x.st \in {"none", "live", "deleting"} /\ x.inc \in 0..MaxInc /\ x.fin \in BOOLEAN
           /\ x.spec \in Specs /\ x.domain \in Domains /\ x.ok \in BOOLEAN
           /\ x = [st |-> x.st, inc |-> x.inc, fin |-> x.fin, spec |-> x.spec, domain |-> x.domain, ok |-> x.ok]
BY DEF Tenants

\* Tenants that have just been created, and those that have gone.
LEMMA PlainTenants ==
    ASSUME NEW inc \in 0..MaxInc
    PROVE  /\ NoTenant \in Tenants /\ NewTenant(inc) \in Tenants /\ Gone(inc) \in Tenants
           /\ NewTenant(inc).st = "live" /\ NewTenant(inc).fin = FALSE /\ NewTenant(inc).inc = inc
           /\ Gone(inc).st = "none" /\ Gone(inc).fin = FALSE /\ Gone(inc).inc = inc
           /\ Gone(inc).domain = "" /\ NewTenant(inc).domain = ""
<1>1. 0 \in 0..MaxInc /\ "" \in Domains /\ "" \in Specs
  BY Bounds DEF Domains, Specs
<1> QED
  BY <1>1 DEF NoTenant, NewTenant, Gone, Tenants

\* There is no copy of a Tenant between two rounds.
LEMMA NoJobTyped == NoJob \in Jobs /\ NoJob.current = FALSE
<1>1. 0 \in 0..MaxInc
  BY Bounds
<1>2. NoTenant \in Tenants
  BY <1>1, PlainTenants
<1> QED
  BY <1>2 DEF NoJob, Jobs

\* A set with one more element.
LEMMA OneMore ==
    ASSUME NEW S, NEW x, NEW n \in Nat, IsFiniteSet(S), Cardinality(S) <= n
    PROVE  IsFiniteSet(S \cup {x}) /\ Cardinality(S \cup {x}) <= n + 1
<1>1. Cardinality(S) \in Nat
  BY FS_CardinalityType
<1>2. /\ IsFiniteSet(S \cup {x})
      /\ Cardinality(S \cup {x}) = IF x \in S THEN Cardinality(S) ELSE Cardinality(S) + 1
  BY FS_AddElement
<1> QED
  BY <1>1, <1>2

\* Seven elements and no more.
LEMMA AtMostSeven ==
    ASSUME NEW a, NEW b, NEW c, NEW d, NEW e, NEW f, NEW g
    PROVE  IsFiniteSet({a, b, c, d, e, f, g}) /\ Cardinality({a, b, c, d, e, f, g}) <= 7
<1>1. IsFiniteSet({a}) /\ Cardinality({a}) <= 1
  <2>1. IsFiniteSet({a}) /\ Cardinality({a}) = 1
    BY FS_Singleton, Zenon
  <2> QED
    BY <2>1
<1>2. IsFiniteSet({a, b}) /\ Cardinality({a, b}) <= 2
  <2>1. IsFiniteSet({a} \cup {b}) /\ Cardinality({a} \cup {b}) <= 1 + 1
    BY <1>1, OneMore
  <2>2. {a} \cup {b} = {a, b}
    OBVIOUS
  <2> QED
    BY <2>1, <2>2
<1>3. IsFiniteSet({a, b, c}) /\ Cardinality({a, b, c}) <= 3
  <2>1. IsFiniteSet({a, b} \cup {c}) /\ Cardinality({a, b} \cup {c}) <= 2 + 1
    BY <1>2, OneMore
  <2>2. {a, b} \cup {c} = {a, b, c}
    OBVIOUS
  <2> QED
    BY <2>1, <2>2
<1>4. IsFiniteSet({a, b, c, d}) /\ Cardinality({a, b, c, d}) <= 4
  <2>1. IsFiniteSet({a, b, c} \cup {d}) /\ Cardinality({a, b, c} \cup {d}) <= 3 + 1
    BY <1>3, OneMore
  <2>2. {a, b, c} \cup {d} = {a, b, c, d}
    OBVIOUS
  <2> QED
    BY <2>1, <2>2
<1>5. IsFiniteSet({a, b, c, d, e}) /\ Cardinality({a, b, c, d, e}) <= 5
  <2>1. IsFiniteSet({a, b, c, d} \cup {e}) /\ Cardinality({a, b, c, d} \cup {e}) <= 4 + 1
    BY <1>4, OneMore
  <2>2. {a, b, c, d} \cup {e} = {a, b, c, d, e}
    OBVIOUS
  <2> QED
    BY <2>1, <2>2
<1>6. IsFiniteSet({a, b, c, d, e, f}) /\ Cardinality({a, b, c, d, e, f}) <= 6
  <2>1. IsFiniteSet({a, b, c, d, e} \cup {f}) /\ Cardinality({a, b, c, d, e} \cup {f}) <= 5 + 1
    BY <1>5, OneMore
  <2>2. {a, b, c, d, e} \cup {f} = {a, b, c, d, e, f}
    OBVIOUS
  <2> QED
    BY <2>1, <2>2
<1>7. IsFiniteSet({a, b, c, d, e, f, g}) /\ Cardinality({a, b, c, d, e, f, g}) <= 7
  <2>1. IsFiniteSet({a, b, c, d, e, f} \cup {g}) /\ Cardinality({a, b, c, d, e, f} \cup {g}) <= 6 + 1
    BY <1>6, OneMore
  <2>2. {a, b, c, d, e, f} \cup {g} = {a, b, c, d, e, f, g}
    OBVIOUS
  <2> QED
    BY <2>1, <2>2
<1> QED
  BY <1>7

\* There is a random domain that nobody uses: at most seven places hold one.
LEMMA FreshDomain ==
    ASSUME PlaceInv
    PROVE  generateTenantDomain \in Generated /\ generateTenantDomain \notin InUse
<1> DEFINE S == InUse \intersect Generated
           Places == {t.domain, tc.domain, job.t.domain, obj["config"].val, obj["dns"].val,
                      obj["cert"].val, obj["gateway"].val}
<1>1. "" \notin Generated
  BY TenantConstants DEF Specs
<1>2. \A o \in Objects : obj[o].val \in Places \union {""}
  BY DEF PlaceInv, Objects, Fixed
<1>3. InUse \subseteq Places \union {""}
  BY <1>2 DEF InUse
<1>4. S \in SUBSET Places /\ S \in SUBSET Generated
  BY <1>1, <1>3
<1>5. IsFiniteSet(Places) /\ Cardinality(Places) <= 7
  BY AtMostSeven
<1> HIDE DEF S, Places
<1>6. IsFiniteSet(S) /\ Cardinality(S) <= Cardinality(Places)
  BY <1>4, <1>5, FS_Subset
<1>7. Cardinality(S) \in Nat /\ Cardinality(Places) \in Nat
  BY <1>5, <1>6, FS_CardinalityType
<1>8. Cardinality(S) <= 7
  BY <1>5, <1>6, <1>7
<1>9. S # Generated
  BY <1>4, <1>6, <1>8, TenantConstants
<1>10. \E g \in Generated : g \notin InUse
  BY <1>4, <1>9 DEF S
<1> QED
  BY <1>10 DEF generateTenantDomain

\* The domain that ensureDNS gives to a Tenant is random only when there is none
\* that is to be kept.
LEMMA DomainChosen ==
    ASSUME PlaceInv, NEW copy \in Tenants
    PROVE  /\ TenantDomain(copy) \in Domains
           /\ copy.domain \in Generated /\ TenantDomain(copy) \in Generated => TenantDomain(copy) = copy.domain
<1>1. getDefaultTenantDomain(copy) \in {"name"} \union Specs
  BY Fields DEF getDefaultTenantDomain
<1>2. getDefaultTenantDomain(copy) \notin Generated
  BY <1>1, TenantConstants
<1>3. generateTenantDomain \in Generated
  BY FreshDomain
<1>4. \/ TenantDomain(copy) = getDefaultTenantDomain(copy)
      \/ TenantDomain(copy) = copy.domain /\ copy.domain \in {"name"} \union Generated
      \/ TenantDomain(copy) = generateTenantDomain /\ copy.domain \notin Generated
  BY DEF TenantDomain
<1> QED
  BY <1>1, <1>2, <1>3, <1>4 DEF Domains

-----------------------------------------------------------------------------
(* The kinds of effect that a step has on the round.                       *)

roundVars == <<kind, t, tc, current, job, pc>>

\* The work of others.
LEMMA RoundUntouched == ASSUME RoundInv, UNCHANGED roundVars PROVE RoundInv'
BY DEF roundVars, RoundInv, TenantTypes, Finalized, Cached, Known, Held, Working, SameDomain

\* A user changes the Tenant; one that has the finalizer is kept with it.
LEMMA RoundEdited ==
    ASSUME RoundInv, NEW new \in Tenants, t' = new, current' = FALSE, job' = [job EXCEPT !.current = FALSE],
           UNCHANGED <<kind, tc, pc>>,
           new.st = "deleting" => new.fin, new.fin => new.st # "none",
           t.fin => new.fin /\ new.inc = t.inc
    PROVE  RoundInv'
<1> USE DEF RoundInv
<1>1. job' \in Jobs /\ job'.current = FALSE /\ job'.t = job.t
  BY DEF TenantTypes, Jobs
<1>2. TenantTypes'
  BY <1>1 DEF TenantTypes
<1>3. Finalized' /\ Cached' /\ Working' /\ SameDomain'
  BY <1>1 DEF Finalized, Cached, Working, SameDomain
<1>4. Known'
  BY DEF Known
<1>5. Held'
  BY <1>1 DEF Held
<1> QED
  BY <1>2, <1>3, <1>4, <1>5

\* A round ends, the Tenant being as it was.
LEMMA RoundEnded ==
    ASSUME RoundInv, pc' = "idle", job' = NoJob, UNCHANGED <<kind, t, tc, current>>
    PROVE  RoundInv'
<1> USE DEF RoundInv
<1>1. TenantTypes'
  BY NoJobTyped DEF TenantTypes, Steps
<1>2. Finalized' /\ Cached' /\ Known' /\ Working' /\ SameDomain'
  BY NoJobTyped DEF Finalized, Cached, Known, Working, SameDomain
<1>3. Held'
  BY DEF Held, EnsuringSteps, Objects
<1> QED
  BY <1>1, <1>2, <1>3

\* A round ends with a Tenant that says something else.
LEMMA RoundWritten ==
    ASSUME RoundInv, pc' = "idle", job' = NoJob, current' = FALSE, t' \in Tenants,
           t'.st = t.st, t'.fin = t.fin, t'.inc = t.inc, UNCHANGED <<kind, tc>>
    PROVE  RoundInv'
<1> USE DEF RoundInv
<1>1. TenantTypes'
  BY NoJobTyped DEF TenantTypes, Steps
<1>2. Finalized' /\ Cached' /\ Known' /\ Working' /\ SameDomain'
  BY NoJobTyped DEF Finalized, Cached, Known, Working, SameDomain
<1>3. Held'
  BY DEF Held, EnsuringSteps, Objects
<1> QED
  BY <1>1, <1>2, <1>3

\* A round goes from one of the ensure... functions to the next, with a copy whose
\* domain may be another one.
LEMMA RoundGoesOn ==
    ASSUME RoundInv, pc \in EnsuringSteps, pc' \in EnsuringSteps, UNCHANGED <<kind, t, tc, current>>,
           job' \in Jobs, job'.current = job.current, job'.t.inc = job.t.inc,
           job'.t.domain # job.t.domain => pc' \in AfterDNS,
           job.current /\ t.domain \in Generated /\ job'.t.domain \in Generated => job'.t.domain = t.domain,
           pc \in AfterDNS => pc' \in AfterDNS
    PROVE  RoundInv'
<1> USE DEF RoundInv
<1>1. TenantTypes'
  BY DEF TenantTypes, Steps
<1>2. Finalized' /\ Cached' /\ Known'
  BY DEF Finalized, Cached, Known
<1>3. Held'
  BY DEF Held
<1>4. Working'
  BY DEF Working, EnsuringSteps, Objects
<1>5. SameDomain'
  BY DEF SameDomain
<1> QED
  BY <1>1, <1>2, <1>3, <1>4, <1>5

\* The same with a copy that is as it was.
LEMMA RoundGoesStraightOn ==
    ASSUME RoundInv, pc \in EnsuringSteps, pc' \in EnsuringSteps, UNCHANGED <<kind, t, tc, current>>,
           job' = job \/ \E b \in BOOLEAN : job' = [job EXCEPT !.ok = b],
           pc \in AfterDNS => pc' \in AfterDNS
    PROVE  RoundInv'
<1>1. job' \in Jobs /\ job'.current = job.current /\ job'.t = job.t
  BY DEF RoundInv, TenantTypes, Jobs
<1>2. job.current /\ t.domain \in Generated /\ job.t.domain \in Generated => job.t.domain = t.domain
  BY DEF RoundInv, SameDomain
<1> QED
  BY <1>1, <1>2, RoundGoesOn

-----------------------------------------------------------------------------
(* The round: one lemma for each operation that takes part in it.          *)

\* Users create, edit and delete the Tenant.
LEMMA UsersKeepRound ==
    ASSUME RoundInv, CreateTenant \/ EditSpec \/ DeleteTenant
    PROVE  RoundInv'
<1>1. t \in Tenants /\ tc \in Tenants
  BY DEF RoundInv, TenantTypes
<1>2. t.inc \in 0..MaxInc /\ t.fin \in BOOLEAN
  BY <1>1, Fields
<1>3. Finalized
  BY DEF RoundInv
<1>4. CASE CreateTenant
  <2>1. t.inc + 1 \in 0..MaxInc
    BY <1>2, <1>4, Bounds DEF CreateTenant
  <2>2. PICK n \in 0..MaxInc : n = t.inc + 1
    BY <2>1
  <2>3. UserEdits(NewTenant(n)) /\ t.st = "none"
    BY <1>4, <2>2 DEF CreateTenant
  <2>4. NewTenant(n) \in Tenants /\ NewTenant(n).st = "live" /\ NewTenant(n).fin = FALSE
    BY PlainTenants
  <2>5. t.fin = FALSE
    BY <1>2, <1>3, <2>3 DEF Finalized
  <2>6. PICK new \in Tenants : new = NewTenant(n)
    BY <2>4
  <2>7. UserEdits(new) /\ new.st = "live" /\ new.fin = FALSE
    BY <2>3, <2>4, <2>6
  <2> QED
    BY <2>5, <2>7, RoundEdited DEF UserEdits, Rewrite
<1>5. CASE EditSpec
  <2>1. PICK s \in Specs : UserEdits([t EXCEPT !.spec = s])
    BY <1>5 DEF EditSpec
  <2>2. [t EXCEPT !.spec = s] \in Tenants
    BY <1>1 DEF Tenants
  <2>3. PICK new \in Tenants : new = [t EXCEPT !.spec = s]
    BY <2>2
  <2>4. new.st = t.st /\ new.fin = t.fin /\ new.inc = t.inc
    BY <1>1, <2>3 DEF Tenants
  <2>5. UserEdits(new)
    BY <2>1, <2>3
  <2> QED
    BY <1>3, <2>4, <2>5, RoundEdited DEF UserEdits, Rewrite, Finalized
<1>6. CASE DeleteTenant
  <2>1. CASE t.fin
    <3>1. [t EXCEPT !.st = "deleting"] \in Tenants
      BY <1>1 DEF Tenants
    <3>2. PICK new \in Tenants : new = [t EXCEPT !.st = "deleting"]
      BY <3>1
    <3>3. new.st = "deleting" /\ new.fin = t.fin /\ new.inc = t.inc
      BY <1>1, <3>2 DEF Tenants
    <3>4. UserEdits(new)
      BY <1>6, <2>1, <3>2 DEF DeleteTenant
    <3> QED
      BY <2>1, <3>3, <3>4, RoundEdited DEF UserEdits, Rewrite
  <2>2. CASE ~t.fin
    <3>1. Gone(t.inc) \in Tenants /\ Gone(t.inc).st = "none" /\ Gone(t.inc).fin = FALSE
      BY <1>2, PlainTenants
    <3>2. PICK new \in Tenants : new = Gone(t.inc)
      BY <3>1
    <3>3. UserEdits(new) /\ new.st = "none" /\ new.fin = FALSE
      BY <1>6, <2>2, <3>1, <3>2 DEF DeleteTenant
    <3> QED
      BY <2>2, <3>3, RoundEdited DEF UserEdits, Rewrite
  <2> QED
    BY <2>1, <2>2
<1> QED
  BY <1>4, <1>5, <1>6

\* The cache receives the Tenant.
LEMMA WatchKeepsRound == ASSUME RoundInv, WatchTenant PROVE RoundInv'
<1> USE DEF RoundInv, WatchTenant, apiVars
<1>1. TenantTypes'
  BY DEF TenantTypes
<1>2. Finalized' /\ Cached' /\ Known' /\ Held'
  BY DEF Finalized, Cached, Known, Held
<1>3. Working'
  BY DEF Working
<1>4. SameDomain'
  BY DEF SameDomain
<1> QED
  BY <1>1, <1>2, <1>3, <1>4

\* A round begins, with whatever copy the cache has.
LEMMA ReconcileKeepsRound == ASSUME RoundInv, Reconcile PROVE RoundInv'
<1> USE DEF RoundInv
<1>1. UNCHANGED <<kind, t, tc, current>>
  BY DEF Reconcile, apiVars, cacheVars
<1>2. CASE tc.st = "none"
  BY <1>1, <1>2, RoundUntouched DEF Reconcile, roundVars
<1>3. CASE tc.st # "none"
  <2>1. tc \in Tenants /\ current \in BOOLEAN
    BY DEF TenantTypes
  <2>2. tc.st \in {"live", "deleting"} /\ tc.fin \in BOOLEAN
    BY <1>3, <2>1, Fields
  <2>3. job' = [t |-> tc, current |-> current, ok |-> TRUE] /\ pc' = FirstStep(tc)
    BY <1>3 DEF Reconcile
  <2>4. job' \in Jobs /\ job'.t = tc /\ job'.current = current
    BY <2>1, <2>3 DEF Jobs
  <2>5. /\ tc.st = "deleting" => pc' = "ensureDeleted"
        /\ tc.st = "live" /\ tc.fin => pc' \in {"main", "collect"}
        /\ tc.st = "live" /\ ~tc.fin => pc' = "finalizer"
    BY <2>2, <2>3 DEF FirstStep, Ensuring
  <2>6. TenantTypes'
    BY <1>1, <2>2, <2>4, <2>5 DEF TenantTypes, Steps, EnsuringSteps
  <2>7. Finalized' /\ Cached' /\ Known'
    BY <1>1 DEF Finalized, Cached, Known
  <2>8. Held'
    BY <1>1, <2>2, <2>4, <2>5 DEF Held, Known, EnsuringSteps, Objects
  <2>9. Working'
    BY <1>1, <2>2, <2>4, <2>5 DEF Working, Cached
  <2>10. SameDomain'
    BY <1>1, <2>4 DEF SameDomain, Cached
  <2> QED
    BY <2>6, <2>7, <2>8, <2>9, <2>10
<1> QED
  BY <1>2, <1>3

\* The rollouts are deleted, or are waited for, or have gone.
LEMMA EnsureDeletedKeepsRound == ASSUME RoundInv, ensureDeleted PROVE RoundInv'
<1> USE DEF RoundInv
<1>1. UNCHANGED <<kind, t, tc, current>> /\ pc = "ensureDeleted"
  BY DEF ensureDeleted, cacheVars
<1>2. CASE appc.rollout \/ appc.charts
  BY <1>1, <1>2, RoundEnded DEF ensureDeleted, Return
<1>3. CASE ~(appc.rollout \/ appc.charts)
  <2>1. pc' = "unfinalize" /\ job' = job
    BY <1>3 DEF ensureDeleted
  <2>2. TenantTypes' /\ Finalized' /\ Cached' /\ Known'
    BY <1>1, <2>1 DEF TenantTypes, Steps, Finalized, Cached, Known
  <2>3. Held'
    BY <2>1 DEF Held, EnsuringSteps, Objects
  <2>4. Working' /\ SameDomain'
    BY <1>1, <2>1 DEF Working, SameDomain, AfterDNS
  <2> QED
    BY <2>2, <2>3, <2>4
<1> QED
  BY <1>2, <1>3

\* The finalizer is taken from a Tenant that the cache, too, has in deletion.
LEMMA RemoveFinalizerKeepsRound == ASSUME RoundInv, RemoveFinalizer PROVE RoundInv'
<1> USE DEF RoundInv
<1>1. UNCHANGED <<kind, tc>> /\ pc = "unfinalize" /\ pc' = "idle" /\ job' = NoJob
  BY DEF RemoveFinalizer, Return
<1>2. CASE ~job.current
  BY <1>1, <1>2, RoundEnded DEF RemoveFinalizer
<1>3. CASE job.current
  <2>1. t' = Gone(t.inc) /\ current' = FALSE
    BY <1>3 DEF RemoveFinalizer, Rewrite
  <2>2. t.inc \in 0..MaxInc
    BY Fields DEF TenantTypes
  <2>3. t' \in Tenants /\ t'.st = "none" /\ t'.fin = FALSE
    BY <2>1, <2>2, PlainTenants
  <2>4. tc.st = "deleting"
    BY <1>1, <1>3 DEF Working, Cached
  <2>5. TenantTypes'
    BY <1>1, <2>1, <2>3, NoJobTyped DEF TenantTypes, Steps
  <2>6. Finalized' /\ Cached' /\ Known' /\ Working' /\ SameDomain'
    BY <1>1, <2>1, <2>3, <2>4, NoJobTyped DEF Finalized, Cached, Known, Working, SameDomain
  <2>7. Held'
    BY <1>1 DEF Held, EnsuringSteps, Objects
  <2> QED
    BY <2>5, <2>6, <2>7
<1> QED
  BY <1>2, <1>3

\* The finalizer is given to a Tenant that is there, and the round goes on with it.
LEMMA AddFinalizerKeepsRound == ASSUME RoundInv, AddFinalizer PROVE RoundInv'
<1> USE DEF RoundInv
<1>1. UNCHANGED <<kind, tc>> /\ pc = "finalizer"
  BY DEF AddFinalizer
<1>2. CASE ~job.current
  BY <1>1, <1>2, RoundEnded DEF AddFinalizer, Return
<1>3. CASE job.current
  <2>1. /\ t' = [t EXCEPT !.fin = TRUE] /\ current' = FALSE
        /\ job' = [job EXCEPT !.t.fin = TRUE] /\ pc' = Ensuring
    BY <1>3 DEF AddFinalizer, Rewrite
  <2>2. t \in Tenants /\ job \in Jobs
    BY DEF TenantTypes
  <2>3. /\ t' \in Tenants /\ t'.fin = TRUE /\ t'.st = t.st /\ t'.inc = t.inc
        /\ t'.domain = t.domain
    BY <2>1, <2>2 DEF Tenants
  <2>4. job.t \in Tenants
    BY <2>2 DEF Jobs
  <2>5. [job.t EXCEPT !.fin = TRUE] \in Tenants
    BY <2>4 DEF Tenants
  <2>6. job'.t = [job.t EXCEPT !.fin = TRUE] /\ job'.current = job.current /\ job'.ok = job.ok
    BY <2>1, <2>2 DEF Jobs
  <2>7. job'.t.inc = job.t.inc /\ job'.t.domain = job.t.domain
    BY <2>4, <2>6 DEF Tenants
  <2>8. job' \in Jobs
    BY <2>1, <2>2, <2>5 DEF Jobs
  <2>9. pc' \in {"main", "collect"}
    BY <2>1 DEF Ensuring
  <2>10. t.st = "live" /\ t.inc = job.t.inc /\ job.t.domain = t.domain
    BY <1>1, <1>3 DEF Working, SameDomain, AfterDNS
  <2>11. TenantTypes'
    BY <1>1, <2>1, <2>3, <2>8, <2>9 DEF TenantTypes, Steps, EnsuringSteps
  <2>12. Finalized' /\ Cached'
    BY <2>1, <2>3, <2>10 DEF Finalized, Cached
  <2>13. Known'
    BY <1>1, <2>3 DEF Known
  <2>14. Held'
    BY <2>3, <2>7, <2>10 DEF Held
  <2>15. Working'
    BY <2>9 DEF Working
  <2>16. SameDomain'
    BY <2>3, <2>7, <2>10 DEF SameDomain
  <2> QED
    BY <2>11, <2>12, <2>13, <2>14, <2>15, <2>16
<1> QED
  BY <1>2, <1>3

\* A namespace is ensured, or the list of namespaces collected; or the round is cut
\* short, with a status that says so.
LEMMA NamespaceStepsKeepRound ==
    ASSUME RoundInv, (\E k \in Namespaces : ensureNamespace(k)) \/ collectTenantNamespaces
    PROVE  RoundInv'
<1>1. UNCHANGED <<kind, t, tc, current>>
  BY DEF ensureNamespace, collectTenantNamespaces, apiVars, cacheVars
<1>2. pc \in {"main", "robot", "collect"}
  BY DEF ensureNamespace, collectTenantNamespaces, Namespaces
<1>0. job.t.ok \in BOOLEAN
  BY Fields DEF RoundInv, TenantTypes, Jobs
<1>3. \/ pc' = "abort" /\ \E b \in BOOLEAN : job' = [job EXCEPT !.ok = b]
      \/ pc' \in {"robot", "collect", "accounts"} /\ job' = job
  BY <1>0 DEF ensureNamespace, collectTenantNamespaces, Abort
<1>4. pc \in EnsuringSteps /\ pc' \in EnsuringSteps /\ pc \notin AfterDNS
  BY <1>2, <1>3 DEF EnsuringSteps, Objects, AfterDNS
<1> QED
  BY <1>1, <1>3, <1>4, RoundGoesStraightOn

\* One of the ensure... functions, for a copy that it leaves as it is.
LEMMA EnsureKeepsRound ==
    ASSUME RoundInv, NEW o \in Objects, NEW v, NEW next \in EnsuringSteps, NEW fail \in EnsuringSteps,
           Ensure(o, v, job.t, next, fail),
           o \in AfterDNS => next \in AfterDNS /\ fail \in AfterDNS
    PROVE  RoundInv'
<1>1. UNCHANGED <<kind, t, tc, current>> /\ pc = o
  BY DEF Ensure
<1>2. job \in Jobs
  BY DEF RoundInv, TenantTypes
<1>3. [job EXCEPT !.t = job.t] = job
  BY <1>2 DEF Jobs
<1>4. (pc' = next /\ job' = job) \/ (pc' = fail /\ job' = [job EXCEPT !.ok = FALSE])
  BY <1>3 DEF Ensure
<1>5. pc \in EnsuringSteps /\ pc' \in EnsuringSteps
  BY <1>1, <1>4 DEF EnsuringSteps
<1> QED
  BY <1>1, <1>4, <1>5, RoundGoesStraightOn

\* ensureDNS gives the copy its domain.
LEMMA EnsureDNSKeepsRound == ASSUME RoundInv, PlaceInv, ensureDNS PROVE RoundInv'
<1>1. PICK d : d = TenantDomain(job.t)
  OBVIOUS
<1>2. Ensure("dns", d, [job.t EXCEPT !.domain = d], "cert", "status")
  BY <1>1 DEF ensureDNS
<1>3. UNCHANGED <<kind, t, tc, current>> /\ pc = "dns"
  BY <1>2 DEF Ensure
<1>4. job \in Jobs /\ job.t \in Tenants
  BY DEF RoundInv, TenantTypes, Jobs
<1>5. /\ d \in Domains
      /\ job.t.domain \in Generated /\ d \in Generated => d = job.t.domain
  BY <1>1, <1>4, DomainChosen
<1>6. pc \in EnsuringSteps /\ pc \notin AfterDNS
  BY <1>3 DEF EnsuringSteps, Objects, AfterDNS
<1>7. CASE Writable("dns")
  <2>1. pc' = "cert" /\ job' = [job EXCEPT !.t = [job.t EXCEPT !.domain = d]]
    BY <1>2, <1>7 DEF Ensure
  <2>2. /\ [job.t EXCEPT !.domain = d] \in Tenants
        /\ [job.t EXCEPT !.domain = d].inc = job.t.inc
        /\ [job.t EXCEPT !.domain = d].domain = d
    BY <1>4, <1>5 DEF Tenants
  <2>3. /\ job' \in Jobs /\ job'.current = job.current
        /\ job'.t = [job.t EXCEPT !.domain = d]
    BY <1>4, <2>1, <2>2 DEF Jobs
  <2>4. job.current => job.t.domain = t.domain
    BY <1>6 DEF RoundInv, SameDomain
  <2>5. pc' \in EnsuringSteps /\ pc' \in AfterDNS
    BY <2>1 DEF EnsuringSteps, Objects, AfterDNS
  <2> QED
    BY <1>3, <1>5, <1>6, <2>2, <2>3, <2>4, <2>5, RoundGoesOn
<1>8. CASE ~Writable("dns")
  <2>1. pc' = "status" /\ job' = [job EXCEPT !.ok = FALSE]
    BY <1>2, <1>8 DEF Ensure
  <2>2. pc' \in EnsuringSteps
    BY <2>1 DEF EnsuringSteps
  <2> QED
    BY <1>3, <1>6, <2>1, <2>2, RoundGoesStraightOn
<1> QED
  BY <1>7, <1>8

\* The seven ensure... functions for objects.
LEMMA ObjectStepsKeepRound ==
    ASSUME RoundInv, PlaceInv,
           \/ ensureServiceAccount \/ ensurePermissions \/ ensureRobotSetupConfig \/ ensurePullSecret
           \/ ensureDNS \/ ensureCertificate \/ ensureGateway
    PROVE  RoundInv'
<1> USE DEF EnsuringSteps, Objects, AfterDNS
<1>1. CASE ensureServiceAccount
  BY <1>1, EnsureKeepsRound DEF ensureServiceAccount
<1>2. CASE ensurePermissions
  BY <1>2, EnsureKeepsRound DEF ensurePermissions
<1>3. CASE ensureRobotSetupConfig
  BY <1>3, EnsureKeepsRound DEF ensureRobotSetupConfig
<1>4. CASE ensurePullSecret
  <2>1. AfterAccess \in EnsuringSteps
    BY DEF AfterAccess
  <2> QED
    BY <1>4, <2>1, EnsureKeepsRound DEF ensurePullSecret
<1>5. CASE ensureDNS
  BY <1>5, EnsureDNSKeepsRound
<1>6. CASE ensureCertificate
  BY <1>6, EnsureKeepsRound DEF ensureCertificate
<1>7. CASE ensureGateway
  BY <1>7, EnsureKeepsRound DEF ensureGateway
<1> QED
  BY <1>1, <1>2, <1>3, <1>4, <1>5, <1>6, <1>7

\* What the status is to be.
LEMMA StatusTyped ==
    ASSUME RoundInv
    PROVE  /\ Status \in Tenants /\ Status.st = t.st /\ Status.fin = t.fin /\ Status.inc = t.inc
           /\ Status.domain = IF kind.gateways THEN job.t.domain ELSE ""
<1>1. t \in Tenants /\ job.t \in Tenants /\ job.ok \in BOOLEAN
  BY DEF RoundInv, TenantTypes, Jobs
<1>2. job.t.domain \in Domains /\ "" \in Domains
  BY <1>1, Fields DEF Domains, Specs
<1>3. PICK d \in Domains : d = IF kind.gateways THEN job.t.domain ELSE ""
  BY <1>2
<1>4. Status = [t EXCEPT !.domain = d, !.ok = job.ok]
  BY <1>3 DEF Status
<1> QED
  BY <1>1, <1>3, <1>4 DEF Tenants

\* The status is written, or not, and the round ends.
LEMMA StatusKeepsRound == ASSUME RoundInv, updateTenantStatus PROVE RoundInv'
<1>1. UNCHANGED <<kind, tc>> /\ pc' = "idle" /\ job' = NoJob
  BY DEF updateTenantStatus, Return
<1>2. CASE job.current /\ Status # t
  <2>1. t' = Status /\ current' = FALSE
    BY <1>2 DEF updateTenantStatus, Rewrite
  <2> QED
    BY <1>1, <2>1, StatusTyped, RoundWritten
<1>3. CASE ~(job.current /\ Status # t)
  BY <1>1, <1>3, RoundEnded DEF updateTenantStatus
<1> QED
  BY <1>2, <1>3

\* A call fails: the round goes on, is cut short, or ends.
LEMMA CallFailsKeepsRound == ASSUME RoundInv, CallFails PROVE RoundInv'
<1>1. UNCHANGED <<kind, t, tc, current>>
  BY DEF CallFails, apiVars, cacheVars
<1>2. CASE pc \in Objects
  <2>1. /\ job' = [job EXCEPT !.ok = FALSE]
        /\ pc' = CASE pc = "accounts" -> "permissions"
                   [] pc = "permissions" -> "config"
                   [] pc = "config" -> "pullsecret"
                   [] pc = "pullsecret" -> AfterAccess
                   [] OTHER -> "status"
    BY <1>2 DEF CallFails
  <2>2. AfterAccess \in {"dns", "status"}
    BY DEF AfterAccess
  <2>3. /\ pc' \in {"permissions", "config", "pullsecret", "dns", "status"}
        /\ pc \in AfterDNS => pc' = "status"
    BY <1>2, <2>1, <2>2 DEF Objects, AfterDNS
  <2>4. pc \in EnsuringSteps /\ pc' \in EnsuringSteps /\ (pc \in AfterDNS => pc' \in AfterDNS)
    BY <1>2, <2>3 DEF EnsuringSteps, Objects, AfterDNS
  <2> QED
    BY <1>1, <2>1, <2>4, RoundGoesStraightOn
<1>3. CASE pc \notin Objects /\ pc \in {"main", "robot", "collect"}
  <2>0. job.t.ok \in BOOLEAN
    BY Fields DEF RoundInv, TenantTypes, Jobs
  <2>1. pc' = "abort" /\ \E b \in BOOLEAN : job' = [job EXCEPT !.ok = b]
    BY <1>3, <2>0 DEF CallFails, Abort
  <2>2. pc \in EnsuringSteps /\ pc' \in EnsuringSteps /\ pc \notin AfterDNS
    BY <1>3, <2>1 DEF EnsuringSteps, AfterDNS
  <2> QED
    BY <1>1, <2>1, <2>2, RoundGoesStraightOn
<1>4. CASE pc \notin Objects /\ pc \notin {"main", "robot", "collect"}
  BY <1>1, <1>4, RoundEnded DEF CallFails, Return
<1> QED
  BY <1>2, <1>3, <1>4

\* After a restart the caches are filled, and no round is under way.
LEMMA RestartKeepsRound == ASSUME RoundInv, ControllerRestart PROVE RoundInv'
<1> USE DEF RoundInv, ControllerRestart, apiVars
<1>1. TenantTypes'
  BY NoJobTyped DEF TenantTypes, Steps
<1>2. Finalized' /\ Cached' /\ Known' /\ Working' /\ SameDomain'
  BY NoJobTyped DEF Finalized, Cached, Known, Working, SameDomain
<1>3. Held'
  BY DEF Held, EnsuringSteps, Objects
<1> QED
  BY <1>1, <1>2, <1>3

-----------------------------------------------------------------------------
(* The namespaces and the objects.                                         *)

placeVars == <<ns, nsc, obj, lag>>

\* An object that is not there, and a namespace that is not there.
LEMMA NothingTyped ==
    /\ NoObject \in ObjectType /\ NoObject.inc = 0 /\ NoObject.val = ""
    /\ NoNamespace \in NamespaceType /\ NoNamespace.st = "absent" /\ NoNamespace.inc = 0
<1>1. 0 \in 0..MaxInc /\ "" \in Domains
  BY Bounds DEF Domains, Specs
<1> QED
  BY <1>1 DEF NoObject, ObjectType, NoNamespace, NamespaceType

\* Steps that leave the namespaces and the objects alone.
LEMMA PlacesUntouched == ASSUME PlaceInv, UNCHANGED placeVars PROVE PlaceInv'
BY DEF placeVars, PlaceInv

\* The garbage collector, and the namespace controller.
LEMMA CollectorsKeepPlaces ==
    ASSUME PlaceInv,
           \/ CollectNamespaces
           \/ \E k \in Namespaces : RemoveNamespace(k)
           \/ \E o \in Objects : CollectObject(o)
    PROVE  PlaceInv'
<1> USE DEF PlaceInv
<1>1. CASE CollectNamespaces
  <2> DEFINE collected == {k \in Namespaces : ns[k].st = "active" /\ Ownerless(ns[k].inc)}
  <2>1. ns' = [k \in Namespaces |-> IF k \in collected THEN [ns[k] EXCEPT !.st = "terminating"] ELSE ns[k]]
    BY <1>1 DEF CollectNamespaces
  <2>2. UNCHANGED <<nsc, obj, lag>>
    BY <1>1 DEF CollectNamespaces, cacheVars
  <2> HIDE DEF collected
  <2>3. \A k \in Namespaces : ns[k] \in NamespaceType
    OBVIOUS
  <2>4. \A x \in NamespaceType : /\ [x EXCEPT !.st = "terminating"] \in NamespaceType
                                 /\ [x EXCEPT !.st = "terminating"].st = "terminating"
    BY DEF NamespaceType
  <2>5. /\ ns' \in [Namespaces -> NamespaceType]
        /\ \A k \in Namespaces : ns'[k] = ns[k] \/ ns'[k].st = "terminating"
    BY <2>1, <2>3, <2>4
  <2> QED
    BY <2>2, <2>5
<1>2. ASSUME NEW k \in Namespaces, RemoveNamespace(k)
      PROVE  PlaceInv'
  <2>1. /\ ns' = [ns EXCEPT ![k] = NoNamespace]
        /\ obj' = [o \in Objects |-> IF k \in Home(o) THEN NoObject ELSE obj[o]]
        /\ lag' = lag \union {o \in Objects \ Fixed : k \in Home(o) /\ obj[o] # NoObject}
        /\ nsc' = nsc
    BY <1>2 DEF RemoveNamespace
  <2>2. /\ ns' \in [Namespaces -> NamespaceType]
        /\ \A j \in Namespaces : ns'[j] = ns[j] \/ ns'[j].inc = 0
    BY <2>1, NothingTyped
  <2>3. \A o \in Objects : obj'[o] = NoObject \/ obj'[o] = obj[o]
    BY <2>1
  <2>4. obj' \in [Objects -> ObjectType]
    BY <2>1, NothingTyped
  <2>5. \A o \in Fixed : obj'[o].val = ""
    BY <2>3, NothingTyped DEF Fixed, Objects
  <2> QED
    BY <2>1, <2>2, <2>4, <2>5
<1>3. ASSUME NEW o \in Objects, CollectObject(o)
      PROVE  PlaceInv'
  <2>1. /\ obj' = [obj EXCEPT ![o] = NoObject] /\ lag' = lag \union ({o} \ Fixed)
        /\ UNCHANGED <<ns, nsc>>
    BY <1>3 DEF CollectObject
  <2>2. obj' \in [Objects -> ObjectType] /\ \A p \in Objects : obj'[p] = NoObject \/ obj'[p] = obj[p]
    BY <2>1, NothingTyped
  <2>3. \A p \in Fixed : obj'[p].val = ""
    BY <2>2, NothingTyped DEF Fixed, Objects
  <2> QED
    BY <2>1, <2>2, <2>3
<1> QED
  BY <1>1, <1>2, <1>3

\* The watches and a restart fill the caches.
LEMMA CachesKeepPlaces ==
    ASSUME PlaceInv, WatchNamespaces \/ (\E o \in Objects : WatchObject(o)) \/ ControllerRestart
    PROVE  PlaceInv'
<1> USE DEF PlaceInv, apiVars
<1>1. CASE WatchNamespaces
  BY <1>1 DEF WatchNamespaces
<1>2. CASE \E o \in Objects : WatchObject(o)
  BY <1>2 DEF WatchObject
<1>3. CASE ControllerRestart
  BY <1>3 DEF ControllerRestart
<1> QED
  BY <1>1, <1>2, <1>3

\* A namespace is created or adopted with the identity of the reconcile's copy.
LEMMA EnsureNamespaceKeepsPlaces ==
    ASSUME PlaceInv, RoundInv, NEW k \in Namespaces, ensureNamespace(k)
    PROVE  PlaceInv'
<1> USE DEF PlaceInv
<1>1. UNCHANGED <<nsc, obj, lag>>
  BY DEF ensureNamespace, cacheVars
<1>2. ns' = ns \/ ns' = [ns EXCEPT ![k] = [st |-> "active", inc |-> NamespaceOwner(job.t)]]
  BY DEF ensureNamespace
<1>3. CASE ns' = ns
  BY <1>1, <1>3
<1>4. CASE ns' = [ns EXCEPT ![k] = [st |-> "active", inc |-> NamespaceOwner(job.t)]]
  <2>1. job.t \in Tenants
    BY DEF RoundInv, TenantTypes, Jobs
  <2>2. NamespaceOwner(job.t) \in 0..MaxInc
    BY <2>1, Fields DEF NamespaceOwner
  <2>3. PICK n \in 0..MaxInc : n = NamespaceOwner(job.t)
    BY <2>2
  <2>4. [st |-> "active", inc |-> n] \in NamespaceType
    BY DEF NamespaceType
  <2>5. /\ ns' \in [Namespaces -> NamespaceType]
        /\ \A j \in Namespaces : ns'[j] = ns[j] \/ ns'[j].st = "active"
    BY <1>4, <2>3, <2>4
  <2> QED
    BY <1>1, <2>5
<1> QED
  BY <1>2, <1>3, <1>4

\* An object is created or updated; the fixed ones name no domain.
LEMMA EnsureKeepsPlaces ==
    ASSUME PlaceInv, RoundInv, NEW o \in Objects, NEW v \in Domains, NEW copy, NEW next, NEW fail,
           Ensure(o, v, copy, next, fail), o \in Fixed => v = ""
    PROVE  PlaceInv'
<1> USE DEF PlaceInv
<1>1. UNCHANGED <<ns, nsc>>
  BY DEF Ensure
<1>2. CASE Writable(o)
  <2>1. /\ obj' = [obj EXCEPT ![o] = [inc |-> job.t.inc, val |-> v]]
        /\ lag' = IF obj' = obj THEN lag ELSE lag \union ({o} \ Fixed)
    BY <1>2 DEF Ensure, Write
  <2>2. job.t \in Tenants
    BY DEF RoundInv, TenantTypes, Jobs
  <2>3. job.t.inc \in 0..MaxInc
    BY <2>2, Fields
  <2>4. PICK n \in 0..MaxInc : n = job.t.inc
    BY <2>3
  <2>5. obj' = [obj EXCEPT ![o] = [inc |-> n, val |-> v]]
    BY <2>1, <2>4
  <2>6. [inc |-> n, val |-> v] \in ObjectType
    BY DEF ObjectType
  <2>7. obj' \in [Objects -> ObjectType]
    BY <2>5, <2>6
  <2>8. \A p \in Fixed : obj'[p].val = ""
    BY <2>5 DEF Fixed, Objects
  <2>9. lag' \in SUBSET Objects
    BY <2>1
  <2> QED
    BY <1>1, <2>7, <2>8, <2>9
<1>3. CASE ~Writable(o)
  BY <1>1, <1>3 DEF Ensure
<1> QED
  BY <1>2, <1>3

\* The seven ensure... functions for objects.
LEMMA ObjectStepsKeepPlaces ==
    ASSUME RoundInv, PlaceInv,
           \/ ensureServiceAccount \/ ensurePermissions \/ ensureRobotSetupConfig \/ ensurePullSecret
           \/ ensureDNS \/ ensureCertificate \/ ensureGateway
    PROVE  PlaceInv'
<1>0. job.t \in Tenants
  BY DEF RoundInv, TenantTypes, Jobs
<1>1. job.t.domain \in Domains /\ "" \in Domains
  BY <1>0, Fields DEF Domains, Specs
<1>2. /\ "accounts" \in Objects /\ "permissions" \in Objects /\ "config" \in Objects
      /\ "pullsecret" \in Objects /\ "dns" \in Objects /\ "cert" \in Objects /\ "gateway" \in Objects
      /\ "config" \notin Fixed /\ "dns" \notin Fixed /\ "cert" \notin Fixed /\ "gateway" \notin Fixed
  BY DEF Objects, Fixed
<1>3. CASE ensureServiceAccount
  BY <1>1, <1>2, <1>3, EnsureKeepsPlaces DEF ensureServiceAccount
<1>4. CASE ensurePermissions
  BY <1>1, <1>2, <1>4, EnsureKeepsPlaces DEF ensurePermissions
<1>5. CASE ensureRobotSetupConfig
  BY <1>1, <1>2, <1>5, EnsureKeepsPlaces DEF ensureRobotSetupConfig
<1>6. CASE ensurePullSecret
  BY <1>1, <1>2, <1>6, EnsureKeepsPlaces DEF ensurePullSecret
<1>7. CASE ensureDNS
  <2>1. PICK d : d = TenantDomain(job.t)
    OBVIOUS
  <2>2. d \in Domains
    BY <1>0, <2>1, DomainChosen
  <2>3. Ensure("dns", d, [job.t EXCEPT !.domain = d], "cert", "status")
    BY <1>7, <2>1 DEF ensureDNS
  <2> QED
    BY <1>2, <2>2, <2>3, EnsureKeepsPlaces
<1>8. CASE ensureCertificate
  BY <1>1, <1>2, <1>8, EnsureKeepsPlaces DEF ensureCertificate
<1>9. CASE ensureGateway
  BY <1>1, <1>2, <1>9, EnsureKeepsPlaces DEF ensureGateway
<1> QED
  BY <1>3, <1>4, <1>5, <1>6, <1>7, <1>8, <1>9

-----------------------------------------------------------------------------
(* The rest: apps, queue and bounds.                                       *)

\* A step that counts as a fault, and one that does not.
LEMMA FaultCounted ==
    ASSUME faults \in 0..MaxFaults, Fault \/ UNCHANGED faults
    PROVE  faults' \in 0..MaxFaults
BY Bounds DEF Fault

\* Steps that change no app and count nothing but faults.
LEMMA QueueOnly ==
    ASSUME RestInv, UNCHANGED <<kind, app, appc, edits, apps>>, queued' \in BOOLEAN,
           Fault \/ UNCHANGED faults
    PROVE  RestInv'
<1>1. faults' \in 0..MaxFaults
  BY FaultCounted DEF RestInv
<1> QED
  BY <1>1 DEF RestInv

\* The steps of users and of the other controllers.
LEMMA WorldKeepsRest ==
    ASSUME RestInv, kind \in Kinds,
           \/ CreateTenant \/ EditSpec \/ DeleteTenant \/ InstallApp \/ RollOut \/ CollectNamespaces
           \/ \E k \in Namespaces : RemoveNamespace(k)
           \/ \E o \in Objects : CollectObject(o)
    PROVE  RestInv'
<1> USE DEF RestInv
<1>1. CASE CreateTenant \/ EditSpec \/ DeleteTenant
  <2>1. /\ edits < MaxEdits /\ edits' = edits + 1
        /\ UNCHANGED <<kind, app, appc, queued, apps, faults>>
    BY <1>1 DEF CreateTenant, EditSpec, DeleteTenant, UserEdits
  <2>2. edits' \in 0..MaxEdits
    BY <2>1, Bounds
  <2> QED
    BY <2>1, <2>2
<1>2. CASE InstallApp
  <2>1. /\ apps < kind.apps /\ apps' = apps + 1 /\ app' = [app EXCEPT !.rollout = TRUE]
        /\ UNCHANGED <<kind, appc, queued, edits, faults>>
    BY <1>2 DEF InstallApp, AppsBecome, cacheVars, loopVars
  <2>2. kind.apps \in Nat
    BY TenantConstants
  <2>3. apps' \in 0..kind'.apps
    BY <2>1, <2>2
  <2>4. app' \in AppType
    BY <2>1 DEF AppType
  <2> QED
    BY <2>1, <2>3, <2>4
<1>3. CASE RollOut
  <2>1. /\ app' = [app EXCEPT !.charts = app.rollout]
        /\ UNCHANGED <<kind, appc, queued, edits, faults, apps>>
    BY <1>3 DEF RollOut, AppsBecome, cacheVars, loopVars
  <2>2. app' \in AppType
    BY <2>1 DEF AppType
  <2> QED
    BY <2>1, <2>2
<1>4. CASE CollectNamespaces
  <2>1. PICK b \in BOOLEAN : app' = [app EXCEPT !.rollout = b]
    <3> DEFINE collected == {k \in Namespaces : ns[k].st = "active" /\ Ownerless(ns[k].inc)}
    <3>1. app' = [app EXCEPT !.rollout = app.rollout /\ "main" \notin collected]
      BY <1>4 DEF CollectNamespaces
    <3>2. (app.rollout /\ "main" \notin collected) \in BOOLEAN
      OBVIOUS
    <3> QED
      BY <3>1, <3>2
  <2>2. UNCHANGED <<kind, appc, queued, edits, faults, apps>>
    BY <1>4 DEF CollectNamespaces, cacheVars, loopVars, bounds
  <2>3. app' \in AppType
    BY <2>1 DEF AppType
  <2> QED
    BY <2>2, <2>3
<1>5. CASE \E k \in Namespaces : RemoveNamespace(k)
  BY <1>5 DEF RemoveNamespace, loopVars, bounds
<1>6. CASE \E o \in Objects : CollectObject(o)
  BY <1>6 DEF CollectObject, loopVars, bounds
<1> QED
  BY <1>1, <1>2, <1>3, <1>4, <1>5, <1>6

\* The watches.
LEMMA WatchesKeepRest ==
    ASSUME RestInv,
           \/ WatchTenant \/ WatchNamespaces
           \/ \E o \in Objects : WatchObject(o)
           \/ \E k \in {"rollout", "charts"} : WatchApps(k)
    PROVE  RestInv'
<1>1. CASE WatchTenant
  BY <1>1, QueueOnly DEF WatchTenant, apiVars, bounds
<1>2. CASE WatchNamespaces
  <2>1. queued' \in BOOLEAN
    BY <1>2 DEF WatchNamespaces
  <2> QED
    BY <1>2, <2>1, QueueOnly DEF WatchNamespaces, apiVars, bounds
<1>3. CASE \E o \in Objects : WatchObject(o)
  <2>1. PICK o \in Objects : WatchObject(o)
    BY <1>3
  <2>2. queued' \in BOOLEAN
    BY <2>1 DEF WatchObject
  <2> QED
    BY <2>1, <2>2, QueueOnly DEF WatchObject, apiVars, bounds
<1>4. ASSUME NEW k \in {"rollout", "charts"}, WatchApps(k)
      PROVE  RestInv'
  <2>1. appc' = [appc EXCEPT ![k] = app[k]] /\ UNCHANGED <<kind, app, queued, edits, apps, faults>>
    BY <1>4 DEF WatchApps, apiVars, loopVars, bounds
  <2>2. app[k] \in BOOLEAN
    BY <1>4 DEF RestInv, AppType
  <2>3. appc' \in AppType
    BY <1>4, <2>1, <2>2 DEF RestInv, AppType
  <2> QED
    BY <2>1, <2>3 DEF RestInv
<1> QED
  BY <1>1, <1>2, <1>3, <1>4

\* The controller, its failures and its restarts.
LEMMA ControllerKeepsRest ==
    ASSUME RestInv, Controller \/ CallFails \/ ControllerRestart
    PROVE  RestInv'
<1> USE DEF apiVars, cacheVars, bounds, Reads, Return
<1>1. CASE Reconcile
  BY <1>1, QueueOnly DEF Reconcile
<1>2. CASE ensureDeleted
  <2>1. UNCHANGED <<kind, appc, edits, apps>> /\ (Fault \/ UNCHANGED faults)
    BY <1>2 DEF ensureDeleted
  <2>2. queued' \in BOOLEAN
    BY <1>2 DEF ensureDeleted, RestInv
  <2>3. app' = [app EXCEPT !.rollout = app.rollout /\ ~appc.rollout]
    BY <1>2 DEF ensureDeleted
  <2>4. app' \in AppType
    BY <2>3 DEF RestInv, AppType
  <2>5. faults' \in 0..MaxFaults
    BY <2>1, FaultCounted DEF RestInv
  <2> QED
    BY <2>1, <2>2, <2>4, <2>5 DEF RestInv
<1>3. CASE RemoveFinalizer \/ AddFinalizer \/ updateTenantStatus
  <2>1. queued' \in BOOLEAN
    BY <1>3 DEF RemoveFinalizer, AddFinalizer, updateTenantStatus, RestInv
  <2> QED
    BY <1>3, <2>1, QueueOnly DEF RemoveFinalizer, AddFinalizer, updateTenantStatus
<1>4. CASE (\E k \in Namespaces : ensureNamespace(k)) \/ collectTenantNamespaces
  BY <1>4, QueueOnly DEF ensureNamespace, collectTenantNamespaces, RestInv
<1>5. ASSUME NEW o, NEW v, NEW copy, NEW next, NEW fail, Ensure(o, v, copy, next, fail)
      PROVE  RestInv'
  BY <1>5, QueueOnly DEF Ensure, RestInv
<1>6. CASE \/ ensureServiceAccount \/ ensurePermissions \/ ensureRobotSetupConfig \/ ensurePullSecret
           \/ ensureDNS \/ ensureCertificate \/ ensureGateway
  BY <1>5, <1>6 DEF ensureServiceAccount, ensurePermissions, ensureRobotSetupConfig, ensurePullSecret,
        ensureDNS, ensureCertificate, ensureGateway
<1>7. CASE CallFails
  <2>1. queued' \in BOOLEAN
    BY <1>7 DEF CallFails, RestInv
  <2> QED
    BY <1>7, <2>1, QueueOnly DEF CallFails
<1>8. CASE ControllerRestart
  <2>1. UNCHANGED <<kind, app, edits, apps>> /\ appc' = app /\ queued' \in BOOLEAN /\ Fault
    BY <1>8 DEF ControllerRestart
  <2>2. faults' \in 0..MaxFaults
    BY <2>1, FaultCounted DEF RestInv
  <2> QED
    BY <2>1, <2>2 DEF RestInv
<1> QED
  BY <1>1, <1>2, <1>3, <1>4, <1>6, <1>7, <1>8 DEF Controller

\* The queue: what leaves the copy of the Tenant alone takes no request back, but for
\* the beginning of a round, which asks for the next one at once.
LEMMA AskedKept == ASSUME Asked, [Next]_vars PROVE Asked'
<1>1. ASSUME UNCHANGED tc, queued => queued' PROVE Asked'
  BY <1>1 DEF Asked
<1>2. CASE WatchTenant \/ ControllerRestart \/ Reconcile
  BY <1>2 DEF WatchTenant, ControllerRestart, Reconcile, cacheVars, Asked
<1>3. CASE \/ CreateTenant \/ EditSpec \/ DeleteTenant \/ InstallApp \/ RollOut \/ CollectNamespaces
           \/ (\E k \in Namespaces : RemoveNamespace(k)) \/ (\E o \in Objects : CollectObject(o))
  BY <1>1, <1>3 DEF CreateTenant, EditSpec, DeleteTenant, UserEdits, InstallApp, RollOut, AppsBecome,
        CollectNamespaces, RemoveNamespace, CollectObject, cacheVars, loopVars
<1>4. CASE \/ WatchNamespaces \/ (\E o \in Objects : WatchObject(o))
           \/ (\E k \in {"rollout", "charts"} : WatchApps(k))
  BY <1>1, <1>4 DEF WatchNamespaces, WatchObject, WatchApps, loopVars
<1>5. CASE ensureDeleted \/ RemoveFinalizer \/ AddFinalizer \/ updateTenantStatus
  BY <1>1, <1>5 DEF ensureDeleted, RemoveFinalizer, AddFinalizer, updateTenantStatus, Return, cacheVars
<1>6. CASE (\E k \in Namespaces : ensureNamespace(k)) \/ collectTenantNamespaces
  BY <1>1, <1>6 DEF ensureNamespace, collectTenantNamespaces, cacheVars
<1>7. CASE \/ ensureServiceAccount \/ ensurePermissions \/ ensureRobotSetupConfig \/ ensurePullSecret
           \/ ensureDNS \/ ensureCertificate \/ ensureGateway
  BY <1>1, <1>7 DEF ensureServiceAccount, ensurePermissions, ensureRobotSetupConfig, ensurePullSecret,
        ensureDNS, ensureCertificate, ensureGateway, Ensure
<1>8. CASE CallFails
  BY <1>1, <1>8 DEF CallFails, Return, cacheVars
<1>9. CASE UNCHANGED vars
  BY <1>1, <1>9 DEF vars, cacheVars, loopVars
<1> QED
  BY <1>2, <1>3, <1>4, <1>5, <1>6, <1>7, <1>8, <1>9 DEF Next, Controller

-----------------------------------------------------------------------------
(* The theorems.                                                           *)

\* The first state.
LEMMA InitHolds == Init => TenantInv
<1> SUFFICES ASSUME Init PROVE TenantInv
  OBVIOUS
<1> USE DEF Init
<1>1. 0 \in 0..MaxInc /\ 1 \in 0..MaxInc
  BY Bounds
<1>2. t \in Tenants /\ t.fin = FALSE /\ t.st = "live" /\ tc \in Tenants /\ tc.st = "none"
  BY <1>1, PlainTenants DEF NoTenant
<1>3. RoundInv
  <2>1. TenantTypes
    BY <1>2, NoJobTyped DEF TenantTypes, Steps
  <2>2. Finalized /\ Cached /\ Known /\ Working /\ SameDomain
    BY <1>2, NoJobTyped DEF Finalized, Cached, Known, Working, SameDomain
  <2>3. Held
    BY DEF Held, EnsuringSteps, Objects
  <2> QED
    BY <2>1, <2>2, <2>3 DEF RoundInv
<1>4. PlaceInv
  <2>1. \A k \in Namespaces : ns[k] = [NoNamespace EXCEPT !.st = "active"] \/ ns[k] = NoNamespace
    OBVIOUS
  <2>2. [NoNamespace EXCEPT !.st = "active"] \in NamespaceType /\ [NoNamespace EXCEPT !.st = "active"].inc = 0
    BY <1>1 DEF NoNamespace, NamespaceType
  <2>3. ns \in [Namespaces -> NamespaceType] /\ \A k \in Namespaces : ns[k].inc = 0
    BY <2>1, <2>2, NothingTyped
  <2>4. obj \in [Objects -> ObjectType] /\ \A o \in Fixed : obj[o].val = ""
    BY NothingTyped DEF Fixed, Objects
  <2> QED
    BY <2>3, <2>4 DEF PlaceInv
<1>5. RestInv
  <2>1. kind.apps \in Nat
    BY TenantConstants
  <2> QED
    <3>1. app \in AppType /\ appc \in AppType /\ queued \in BOOLEAN
      BY DEF AppType
    <3>2. edits \in 0..MaxEdits /\ apps \in 0..kind.apps /\ faults \in 0..MaxFaults
      BY <2>1, Bounds
    <3> QED
      BY <3>1, <3>2 DEF RestInv
<1>6. Asked
  BY <1>2 DEF Asked
<1> QED
  BY <1>3, <1>4, <1>5, <1>6 DEF TenantInv

\* Every step.
LEMMA NextKeeps == TenantInv /\ [Next]_vars => TenantInv'
<1> SUFFICES ASSUME TenantInv, [Next]_vars PROVE TenantInv'
  OBVIOUS
<1>0. RoundInv /\ PlaceInv /\ RestInv /\ kind \in Kinds /\ Asked'
  BY AskedKept DEF TenantInv, RoundInv, TenantTypes
<1> USE <1>0
<1>1. CASE UNCHANGED vars
  BY <1>1, RoundUntouched, PlacesUntouched
     DEF vars, apiVars, cacheVars, loopVars, bounds, roundVars, placeVars, RestInv, TenantInv
<1>2. CASE CreateTenant \/ EditSpec \/ DeleteTenant
  <2>1. UNCHANGED placeVars
    BY <1>2 DEF CreateTenant, EditSpec, DeleteTenant, UserEdits, placeVars
  <2> QED
    BY <1>2, <2>1, UsersKeepRound, PlacesUntouched, WorldKeepsRest DEF TenantInv
<1>3. CASE InstallApp \/ RollOut
  <2>1. UNCHANGED placeVars /\ UNCHANGED roundVars
    BY <1>3 DEF InstallApp, RollOut, AppsBecome, placeVars, roundVars, cacheVars, loopVars
  <2> QED
    BY <1>3, <2>1, RoundUntouched, PlacesUntouched, WorldKeepsRest DEF TenantInv
<1>4. CASE \/ CollectNamespaces
           \/ \E k \in Namespaces : RemoveNamespace(k)
           \/ \E o \in Objects : CollectObject(o)
  <2>1. UNCHANGED roundVars
    BY <1>4 DEF CollectNamespaces, RemoveNamespace, CollectObject, roundVars, cacheVars, loopVars
  <2> QED
    BY <1>4, <2>1, RoundUntouched, CollectorsKeepPlaces, WorldKeepsRest DEF TenantInv
<1>5. CASE WatchTenant
  <2>1. UNCHANGED placeVars
    BY <1>5 DEF WatchTenant, apiVars, placeVars
  <2> QED
    BY <1>5, <2>1, WatchKeepsRound, PlacesUntouched, WatchesKeepRest DEF TenantInv
<1>6. CASE WatchNamespaces \/ \E o \in Objects : WatchObject(o)
  <2>1. UNCHANGED roundVars
    BY <1>6 DEF WatchNamespaces, WatchObject, apiVars, roundVars
  <2> QED
    BY <1>6, <2>1, RoundUntouched, CachesKeepPlaces, WatchesKeepRest DEF TenantInv
<1>7. CASE \E k \in {"rollout", "charts"} : WatchApps(k)
  <2>1. UNCHANGED placeVars /\ UNCHANGED roundVars
    BY <1>7 DEF WatchApps, apiVars, loopVars, placeVars, roundVars
  <2> QED
    BY <1>7, <2>1, RoundUntouched, PlacesUntouched, WatchesKeepRest DEF TenantInv
<1>8. CASE Reconcile \/ ensureDeleted \/ RemoveFinalizer \/ AddFinalizer \/ collectTenantNamespaces
           \/ updateTenantStatus
  <2>1. UNCHANGED placeVars
    BY <1>8 DEF Reconcile, ensureDeleted, RemoveFinalizer, AddFinalizer, collectTenantNamespaces,
          updateTenantStatus, apiVars, cacheVars, placeVars
  <2>2. RoundInv'
    BY <1>8, ReconcileKeepsRound, EnsureDeletedKeepsRound, RemoveFinalizerKeepsRound, AddFinalizerKeepsRound,
       NamespaceStepsKeepRound, StatusKeepsRound
  <2>3. RestInv'
    BY <1>8, ControllerKeepsRest DEF Controller
  <2> QED
    BY <2>1, <2>2, <2>3, PlacesUntouched DEF TenantInv
<1>9. CASE \E k \in Namespaces : ensureNamespace(k)
  BY <1>9, NamespaceStepsKeepRound, EnsureNamespaceKeepsPlaces, ControllerKeepsRest DEF Controller, TenantInv
<1>10. CASE \/ ensureServiceAccount \/ ensurePermissions \/ ensureRobotSetupConfig \/ ensurePullSecret
            \/ ensureDNS \/ ensureCertificate \/ ensureGateway
  BY <1>10, ObjectStepsKeepRound, ObjectStepsKeepPlaces, ControllerKeepsRest DEF Controller, TenantInv
<1>11. CASE CallFails
  <2>1. UNCHANGED placeVars
    BY <1>11 DEF CallFails, apiVars, cacheVars, placeVars
  <2> QED
    BY <1>11, <2>1, CallFailsKeepsRound, PlacesUntouched, ControllerKeepsRest DEF TenantInv
<1>12. CASE ControllerRestart
  BY <1>12, RestartKeepsRound, CachesKeepPlaces, ControllerKeepsRest DEF TenantInv
<1> QED
  BY <1>1, <1>2, <1>3, <1>4, <1>5, <1>6, <1>7, <1>8, <1>9, <1>10, <1>11, <1>12 DEF Next, Controller

\* The inductive invariant of the tenant-controller: types, what the finalizer
\* guarantees to a round that works on an old copy, and the domain of that copy.
THEOREM TenantInvariant == Spec => []TenantInv
BY InitHolds, NextKeeps, PTL DEF Spec

\* Every state is well typed, a Tenant in deletion keeps the finalizer until Reconcile
\* removes it, and a live Tenant that the controller has seen is always in its queue.
THEOREM TenantTypeCorrect == Spec => []TenantTypeOK
<1>1. ASSUME TenantInv
      PROVE  TenantTypeOK
  <2> USE <1>1 DEF TenantInv
  <2>1. job.t \in Tenants /\ job.current \in BOOLEAN /\ job.ok \in BOOLEAN
    BY DEF RoundInv, TenantTypes, Jobs
  <2>2. t \in Tenants /\ tc \in Tenants /\ (t.st = "deleting" => t.fin) /\ (current => tc = t)
    BY DEF RoundInv, TenantTypes, Finalized, Cached
  <2>3. pc \in {"idle", "ensureDeleted", "unfinalize", "finalizer", "main", "robot", "collect", "status", "abort"}
               \union Objects
    BY DEF RoundInv, TenantTypes, Steps, EnsuringSteps
  <2> QED
    BY <2>1, <2>2, <2>3 DEF TenantTypeOK, PlaceInv, RestInv, Asked, NamespaceType, ObjectType, AppType
<1> QED
  BY <1>1, TenantInvariant, PTL

\* The identity that a reconcile gives to what it creates is that of the Tenant that
\* is there.
LEMMA CopyOfTheLiving ==
    ASSUME RoundInv, pc \in EnsuringSteps
    PROVE  OwnerThere(job.t.inc)
BY DEF RoundInv, Held, Finalized, OwnerThere

\* Nothing else than an ensure... function makes an owner of an object, and it makes
\* the owner of its copy.
LEMMA OwnersOfObjects ==
    ASSUME TenantInv, Next, NEW o \in Objects, obj'[o].inc # obj[o].inc
    PROVE  OwnerThere(obj'[o].inc)
<1>0. OwnerThere(0) /\ NoObject.inc = 0
  BY NothingTyped DEF OwnerThere
<1>1. CASE obj' = obj
  BY <1>0, <1>1
<1>2. CASE (\E k \in Namespaces : RemoveNamespace(k)) \/ (\E p \in Objects : CollectObject(p))
  <2>1. obj'[o] = NoObject \/ obj'[o] = obj[o]
    BY <1>2 DEF RemoveNamespace, CollectObject, TenantInv, PlaceInv
  <2> QED
    BY <1>0, <2>1
<1>3. ASSUME NEW p \in Objects, NEW v, NEW copy, NEW next, NEW fail, Ensure(p, v, copy, next, fail)
      PROVE  OwnerThere(obj'[o].inc)
  <2>1. CASE Writable(p) /\ p = o
    <3>1. obj' = [obj EXCEPT ![o] = [inc |-> job.t.inc, val |-> v]]
      BY <1>3, <2>1 DEF Ensure, Write
    <3>2. obj'[o].inc = job.t.inc
      BY <3>1 DEF TenantInv, PlaceInv
    <3>3. pc \in EnsuringSteps
      BY <1>3 DEF Ensure, EnsuringSteps
    <3> QED
      BY <1>0, <3>2, <3>3, CopyOfTheLiving DEF TenantInv
  <2>2. CASE ~(Writable(p) /\ p = o)
    <3>1. obj'[o] = obj[o]
      BY <1>3, <2>2 DEF Ensure, Write, TenantInv, PlaceInv
    <3> QED
      BY <1>0, <3>1
  <2> QED
    BY <2>1, <2>2
<1>4. CASE \/ ensureServiceAccount \/ ensurePermissions \/ ensureRobotSetupConfig \/ ensurePullSecret
           \/ ensureDNS \/ ensureCertificate \/ ensureGateway
  BY <1>3, <1>4 DEF ensureServiceAccount, ensurePermissions, ensureRobotSetupConfig, ensurePullSecret,
        ensureDNS, ensureCertificate, ensureGateway, Objects
<1>5. CASE \/ CreateTenant \/ EditSpec \/ DeleteTenant \/ InstallApp \/ RollOut \/ CollectNamespaces
  BY <1>1, <1>5 DEF CreateTenant, EditSpec, DeleteTenant, UserEdits, InstallApp, RollOut, AppsBecome,
        CollectNamespaces
<1>6. CASE \/ WatchTenant \/ WatchNamespaces \/ (\E p \in Objects : WatchObject(p))
           \/ (\E k \in {"rollout", "charts"} : WatchApps(k)) \/ CallFails \/ ControllerRestart
  BY <1>1, <1>6 DEF WatchTenant, WatchNamespaces, WatchObject, WatchApps, CallFails, ControllerRestart, apiVars
<1>7. CASE \/ Reconcile \/ ensureDeleted \/ RemoveFinalizer \/ AddFinalizer
           \/ (\E k \in Namespaces : ensureNamespace(k)) \/ collectTenantNamespaces \/ updateTenantStatus
  BY <1>1, <1>7 DEF Reconcile, ensureDeleted, RemoveFinalizer, AddFinalizer, ensureNamespace,
        collectTenantNamespaces, updateTenantStatus, apiVars
<1> QED
  BY <1>2, <1>4, <1>5, <1>6, <1>7 DEF Next, Controller

\* The same for a namespace.
LEMMA OwnersOfNamespaces ==
    ASSUME TenantInv, Next, NEW k \in Namespaces, ns'[k].inc # ns[k].inc
    PROVE  OwnerThere(ns'[k].inc)
<1>0. OwnerThere(0) /\ NoNamespace.inc = 0
  BY NothingTyped DEF OwnerThere
<1>1. CASE ns' = ns
  BY <1>0, <1>1
<1>2. CASE CollectNamespaces \/ \E j \in Namespaces : RemoveNamespace(j)
  <2>1. ns'[k] = NoNamespace \/ ns'[k] = ns[k] \/ ns'[k] = [ns[k] EXCEPT !.st = "terminating"]
    BY <1>2 DEF CollectNamespaces, RemoveNamespace, TenantInv, PlaceInv
  <2>2. [ns[k] EXCEPT !.st = "terminating"].inc = ns[k].inc
    BY DEF TenantInv, PlaceInv, NamespaceType
  <2> QED
    BY <1>0, <2>1, <2>2
<1>3. CASE \E j \in Namespaces : ensureNamespace(j)
  <2>1. PICK j \in Namespaces : ensureNamespace(j)
    BY <1>3
  <2>2. ns'[k] = ns[k] \/ ns'[k] = [st |-> "active", inc |-> job.t.inc]
    BY <2>1 DEF ensureNamespace, NamespaceOwner, TenantInv, PlaceInv
  <2>3. pc \in EnsuringSteps
    BY <2>1 DEF ensureNamespace, Namespaces, EnsuringSteps
  <2> QED
    BY <1>0, <2>2, <2>3, CopyOfTheLiving DEF TenantInv
<1>4. CASE \/ ensureServiceAccount \/ ensurePermissions \/ ensureRobotSetupConfig \/ ensurePullSecret
           \/ ensureDNS \/ ensureCertificate \/ ensureGateway
  BY <1>1, <1>4 DEF ensureServiceAccount, ensurePermissions, ensureRobotSetupConfig, ensurePullSecret,
        ensureDNS, ensureCertificate, ensureGateway, Ensure
<1>5. CASE \/ CreateTenant \/ EditSpec \/ DeleteTenant \/ InstallApp \/ RollOut
           \/ \E p \in Objects : CollectObject(p)
  BY <1>1, <1>5 DEF CreateTenant, EditSpec, DeleteTenant, UserEdits, InstallApp, RollOut, AppsBecome,
        CollectObject
<1>6. CASE \/ WatchTenant \/ WatchNamespaces \/ (\E p \in Objects : WatchObject(p))
           \/ (\E j \in {"rollout", "charts"} : WatchApps(j)) \/ CallFails \/ ControllerRestart
  BY <1>1, <1>6 DEF WatchTenant, WatchNamespaces, WatchObject, WatchApps, CallFails, ControllerRestart, apiVars
<1>7. CASE \/ Reconcile \/ ensureDeleted \/ RemoveFinalizer \/ AddFinalizer
           \/ collectTenantNamespaces \/ updateTenantStatus
  BY <1>1, <1>7 DEF Reconcile, ensureDeleted, RemoveFinalizer, AddFinalizer,
        collectTenantNamespaces, updateTenantStatus, apiVars
<1> QED
  BY <1>2, <1>3, <1>4, <1>5, <1>6, <1>7 DEF Next, Controller

\* The ensure... functions create and adopt nothing for a Tenant that has gone, and
\* nothing with the identity of an earlier one, however old the copy is that Reconcile
\* works on.
THEOREM NothingForTheDead == Spec => CreatedForTheLiving
<1>1. TenantInv /\ Next => /\ \A o \in Objects : obj'[o].inc # obj[o].inc => OwnerThere(obj'[o].inc)
                           /\ \A k \in Namespaces : ns'[k].inc # ns[k].inc => OwnerThere(ns'[k].inc)
  BY OwnersOfObjects, OwnersOfNamespaces
<1>2. TenantInv /\ [Next]_vars =>
        [/\ \A o \in Objects : obj'[o].inc # obj[o].inc => OwnerThere(obj'[o].inc)
         /\ \A k \in Namespaces : ns'[k].inc # ns[k].inc => OwnerThere(ns'[k].inc)]_vars
  BY <1>1
<1> QED
  BY <1>2, TenantInvariant, PTL DEF Spec, CreatedForTheLiving

\* Reconcile never replaces a random domain that it has published by another random
\* one: a status from an old copy is refused, and a current copy keeps its own.
THEOREM RandomDomainKept == Spec => DomainKept
<1> DEFINE Kept == t.domain \in Generated /\ t'.domain \in Generated /\ t'.inc = t.inc => t'.domain = t.domain
<1>1. ASSUME TenantInv, Next
      PROVE  Kept
  <2>0. t \in Tenants /\ t.inc \in 0..MaxInc /\ "" \notin Generated
    BY <1>1, Fields, TenantConstants DEF TenantInv, RoundInv, TenantTypes, Specs
  <2>1. CASE t' = t
    BY <2>1
  <2>2. CASE CreateTenant
    <3>1. t' = NewTenant(t.inc + 1)
      BY <2>2 DEF CreateTenant, UserEdits, Rewrite
    <3>2. t'.domain = ""
      BY <3>1 DEF NewTenant, NoTenant
    <3> QED
      BY <2>0, <3>2
  <2>3. CASE EditSpec
    <3>1. PICK s : t' = [t EXCEPT !.spec = s]
      BY <2>3 DEF EditSpec, UserEdits, Rewrite
    <3>2. t'.domain = t.domain
      BY <2>0, <3>1 DEF Tenants
    <3> QED
      BY <3>2
  <2>4. CASE DeleteTenant
    <3>1. t' = [t EXCEPT !.st = "deleting"] \/ t' = Gone(t.inc)
      BY <2>4 DEF DeleteTenant, UserEdits, Rewrite
    <3>2. t'.domain = t.domain \/ t'.domain = ""
      BY <2>0, <3>1 DEF Tenants, Gone, NoTenant
    <3> QED
      BY <2>0, <3>2
  <2>5. CASE RemoveFinalizer
    <3>1. t' = t \/ t' = Gone(t.inc)
      BY <2>5 DEF RemoveFinalizer, Rewrite
    <3>2. t'.domain = t.domain \/ t'.domain = ""
      BY <3>1 DEF Gone, NoTenant
    <3> QED
      BY <2>0, <3>2
  <2>6. CASE AddFinalizer
    <3>1. t' = t \/ t' = [t EXCEPT !.fin = TRUE]
      BY <2>6 DEF AddFinalizer, Rewrite
    <3>2. t'.domain = t.domain
      BY <2>0, <3>1 DEF Tenants
    <3> QED
      BY <3>2
  <2>7. CASE updateTenantStatus
    <3>1. CASE job.current /\ Status # t
      <4>1. t'.domain = Status.domain
        BY <2>7, <3>1 DEF updateTenantStatus, Rewrite
      <4>2. Status.domain = job.t.domain \/ Status.domain = ""
        BY <1>1, StatusTyped DEF TenantInv
      <4>3. t.domain \in Generated /\ job.t.domain \in Generated => job.t.domain = t.domain
        BY <1>1, <3>1 DEF TenantInv, RoundInv, SameDomain
      <4> QED
        BY <2>0, <4>1, <4>2, <4>3
    <3>2. CASE ~(job.current /\ Status # t)
      BY <2>1, <2>7, <3>2 DEF updateTenantStatus
    <3> QED
      BY <3>1, <3>2
  <2>8. CASE \/ InstallApp \/ RollOut \/ CollectNamespaces
             \/ (\E k \in Namespaces : RemoveNamespace(k)) \/ (\E o \in Objects : CollectObject(o))
             \/ WatchTenant \/ WatchNamespaces \/ (\E o \in Objects : WatchObject(o))
             \/ (\E k \in {"rollout", "charts"} : WatchApps(k)) \/ CallFails \/ ControllerRestart
    BY <2>1, <2>8 DEF InstallApp, RollOut, AppsBecome, CollectNamespaces, RemoveNamespace, CollectObject,
          WatchTenant, WatchNamespaces, WatchObject, WatchApps, CallFails, ControllerRestart, apiVars
  <2>9. CASE \/ Reconcile \/ ensureDeleted \/ (\E k \in Namespaces : ensureNamespace(k))
             \/ collectTenantNamespaces
    BY <2>1, <2>9 DEF Reconcile, ensureDeleted, ensureNamespace, collectTenantNamespaces, apiVars
  <2>10. CASE \/ ensureServiceAccount \/ ensurePermissions \/ ensureRobotSetupConfig \/ ensurePullSecret
              \/ ensureDNS \/ ensureCertificate \/ ensureGateway
    BY <2>1, <2>10 DEF ensureServiceAccount, ensurePermissions, ensureRobotSetupConfig, ensurePullSecret,
          ensureDNS, ensureCertificate, ensureGateway, Ensure
  <2> HIDE DEF Kept
  <2> QED
    BY <1>1, <2>2, <2>3, <2>4, <2>5, <2>6, <2>7, <2>8, <2>9, <2>10 DEF Next, Controller
<1>2. TenantInv /\ [Next]_vars => [Kept]_vars
  BY <1>1
<1> QED
  BY <1>2, TenantInvariant, PTL DEF Spec, DomainKept
=============================================================================
