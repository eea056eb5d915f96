-------------------------- MODULE AppRolloutProofs --------------------------
(***************************************************************************)
(* Proofs about the app-rollout-controller, for any robots, contents of    *)
(* the App and of the rollout, and any number of lives, edits and faults.  *)
(*                                                                         *)
(* OwnLifeOnly is about what the controller does to objects that it knows  *)
(* from a cache.  An update is safe because it is refused unless the copy  *)
(* is current (OwnCopies).  A delete request is not: it names the object,  *)
(* and takes whatever has the name.  What saves it is the order of lives:  *)
(* an assignment never belongs to a later life than the reconcile that     *)
(* works on it (Owners) and replaces only one of an earlier life (Lineage),*)
(* so that under a name that had an assignment of this life there is one   *)
(* of this life, or none (OwnDrops).                                       *)
(***************************************************************************)
EXTENDS AppRollout, FiniteSetTheorems, TLAPS

RobotStates == [Robots -> {"absent", "off", "on"}]
AppType == Apps \union {NoApp}
Views == [alive : BOOLEAN, inc : 0..MaxInc, spec : Specs \union {<<>>}]
CacheType == [ar : Views, current : BOOLEAN, app : AppType, robots : RobotStates,
              cas : [Names -> Assignments]]
JobType == [inc : 0..MaxInc, current : BOOLEAN, want : [Names -> Contents], exist : SUBSET Names,
            fresh : SUBSET Names, drop : SUBSET Names, count : Counts]

\* RolloutTypeOK, as membership in types.
RolloutTypes ==
    /\ ar \in Rollouts
    /\ app \in AppType
    /\ robots \in RobotStates
    /\ tenant \in 0..MaxTenant
    /\ cas \in [Names -> Assignments]
    /\ cache \in CacheType
    /\ events \subseteq Names /\ queued \in BOOLEAN /\ timers \in BOOLEAN
    /\ pc \in {"idle", "write", "error"}
    /\ job \in JobType
    /\ edits \in 0..MaxEdits /\ faults \in 0..MaxFaults

\* Counts of one list of assignments.
OneList(c) == c.settled + c.failed <= Cardinality(Names) /\ c.ready <= c.settled

\* What a status may say, and how often it was written.
Counted == OneList(ar.count) /\ OneList(job.count) /\ ar.gen <= edits + 1

\* A rollout that exists has a content and a life; the cache is never ahead.
Alive ==
    /\ ar.alive => ar.spec \in Specs /\ ar.inc >= 1
    /\ cache.ar.alive => cache.ar.spec \in Specs /\ cache.ar.inc >= 1
    /\ cache.ar.inc <= ar.inc
    /\ job.inc <= cache.ar.inc
    /\ pc # "idle" => job.inc >= 1

\* What is to be written exists in the plan; what is to be dropped is not written.
Planned == job.exist \subseteq Todo /\ job.drop \subseteq Names \ Todo

\* No assignment belongs to a later life than the reconcile under way, or than the
\* one that comes next; and each belongs to some life.
Latest == IF pc = "idle" THEN cache.ar.inc ELSE job.inc
Owners ==
    /\ \A n \in Names : cas[n].owner <= Latest /\ cache.cas[n].owner <= Latest
    /\ \A n \in Names : cas[n] = NoCA \/ cas[n].owner >= 1

\* What has taken the place of a cached assignment is of the same life or a later one.
Lineage ==
    \A n \in Names : cache.cas[n].owner >= 1 /\ cas[n].owner >= 1 => cache.cas[n].owner <= cas[n].owner

\* A copy that an update can start from is of this life.
OwnCopies == \A n \in job.exist \intersect job.fresh : cas[n].owner = job.inc

\* Under a name that is to be dropped there is an assignment of this life, or none.
OwnDrops == \A n \in job.drop : cas[n] = NoCA \/ cas[n].owner = job.inc

RolloutInv ==
    /\ RolloutTypes /\ Counted /\ Alive /\ Planned
    /\ Owners /\ Lineage /\ OwnCopies /\ OwnDrops

-----------------------------------------------------------------------------
(* What the operators return.                                              *)

\* There are finitely many names.
LEMMA NamesFinite == IsFiniteSet(Names) /\ Cardinality(Names) \in Nat
<1>1. IsFiniteSet(Robots \cup {Cloud})
  BY RolloutConstants, FS_AddElement
<1>2. Names = Robots \cup {Cloud}
  BY DEF Names
<1> QED
  BY <1>1, <1>2, FS_CardinalityType

\* A set of names is counted in a status.
LEMMA SomeNames ==
    ASSUME NEW S \in SUBSET Names
    PROVE  Cardinality(S) \in 0..Cardinality(Names) /\ IsFiniteSet(S)
<1>1. IsFiniteSet(S) /\ Cardinality(S) <= Cardinality(Names)
  BY NamesFinite, FS_Subset
<1>2. Cardinality(S) \in Nat
  BY <1>1, FS_CardinalityType
<1> QED
  BY <1>1, <1>2, NamesFinite

\* setStatus counts the assignments of one list: none both as settled and as failed,
\* and those that are ready among the settled ones.
LEMMA CountsAdd ==
    ASSUME NEW cur
    PROVE  /\ Count(cur, {"Settled", "Ready"}) + Count(cur, {"Failed"}) <= Cardinality(Names)
           /\ Count(cur, {"Ready"}) <= Count(cur, {"Settled", "Ready"})
<1> DEFINE S == {n \in Names : cur[n].phase \in {"Settled", "Ready"}}
           R == {n \in Names : cur[n].phase \in {"Ready"}}
           F == {n \in Names : cur[n].phase \in {"Failed"}}
<1>1. /\ S \in SUBSET Names /\ R \in SUBSET S /\ F \in SUBSET Names
      /\ S \cap F = {} /\ S \cup F \in SUBSET Names
  OBVIOUS
<1>2. /\ Count(cur, {"Settled", "Ready"}) = Cardinality(S)
      /\ Count(cur, {"Ready"}) = Cardinality(R)
      /\ Count(cur, {"Failed"}) = Cardinality(F)
  BY DEF Count
<1> HIDE DEF S, R, F
<1>3. IsFiniteSet(S) /\ IsFiniteSet(F)
  BY <1>1, SomeNames
<1>4. Cardinality(S) \in Nat /\ Cardinality(F) \in Nat /\ Cardinality(S \cup F) <= Cardinality(Names)
  BY <1>1, <1>3, SomeNames, FS_CardinalityType, NamesFinite, FS_Subset
<1>5. Cardinality(S \cup F) = Cardinality(S) + Cardinality(F) - Cardinality(S \cap F)
  BY <1>3, FS_Union
<1>6. Cardinality(S \cap F) = 0
  BY <1>1, FS_EmptySet
<1>7. Cardinality(R) <= Cardinality(S)
  BY <1>1, <1>3, FS_Subset
<1> QED
  BY <1>2, <1>4, <1>5, <1>6, <1>7

\* The counts of a plan are counts of names.
LEMMA CountTyped ==
    ASSUME NEW cur, NEW phases
    PROVE  Count(cur, phases) \in 0..Cardinality(Names)
<1>1. {n \in Names : cur[n].phase \in phases} \in SUBSET Names
  OBVIOUS
<1> QED
  BY <1>1, SomeNames DEF Count

\* generateChartAssignments gives every name a content, of the App, the selectors and
\* the Tenant that it was given, or none.
LEMMA GeneratedTyped ==
    ASSUME NEW a \in Apps, NEW spec \in Specs, NEW v \in 0..MaxTenant, NEW rs
    PROVE  generateChartAssignments(a, spec, v, rs) \in [Names -> Contents]
<1>1. DOMAIN spec \subseteq Nat
  BY RolloutConstants
<1>2. Selected(rs, spec) \in SUBSET Nat
  BY RolloutConstants DEF Selected, matchingRobots
<1>3. <<a, spec, Selected(rs, spec), v>> \in Contents
  BY <1>2 DEF Contents
<1>4. ASSUME NEW n
      PROVE  <<a, spec, {i \in DOMAIN spec : n \in matchingRobots(rs, spec[i])}, v>> \in Contents
  <2>1. {i \in DOMAIN spec : n \in matchingRobots(rs, spec[i])} \in SUBSET Nat
    BY <1>1
  <2> QED
    BY <2>1 DEF Contents
<1>5. <<>> \in Contents
  BY DEF Contents
<1> QED
  BY <1>3, <1>4, <1>5 DEF generateChartAssignments

\* The constants of the module have their types.
LEMMA NothingTyped ==
    /\ NoCount \in Counts /\ OneList(NoCount)
    /\ NoRollout \in Rollouts
    /\ NoCA \in Assignments
    /\ NoJob \in JobType
<1>1. NoCount \in Counts /\ OneList(NoCount)
  BY NamesFinite DEF NoCount, Counts, OneList
<1>2. NoRollout \in Rollouts
  BY <1>1, RolloutConstants DEF NoRollout, Rollouts
<1>3. <<>> \in Contents
  BY DEF Contents
<1>4. NoCA \in Assignments
  BY <1>3, RolloutConstants DEF NoCA, Assignments
<1>5. NoJob \in JobType
  BY <1>1, <1>3, RolloutConstants DEF NoJob, JobType
<1> QED
  BY <1>1, <1>2, <1>4, <1>5

-----------------------------------------------------------------------------
(* Users, and the other controllers.                                       *)

\* The bounds are numbers.
LEMMA Bounds ==
    /\ MaxInc \in Nat /\ MaxInc >= 1 /\ MaxTenant \in Nat /\ MaxTenant >= 1
    /\ MaxEdits \in Nat /\ MaxFaults \in Nat
BY RolloutConstants

\* What the invariants compare are numbers.
LEMMA Numbers ==
    ASSUME RolloutTypes
    PROVE  /\ ar.inc \in 0..MaxInc /\ ar.inc \in Nat /\ ar.gen \in 0..(MaxEdits + 1) /\ ar.gen \in Nat
           /\ cache.ar \in Views /\ cache.ar.inc \in 0..MaxInc /\ cache.ar.inc \in Nat
           /\ job.inc \in 0..MaxInc /\ job.inc \in Nat
           /\ Latest \in Nat
           /\ edits \in Nat
           /\ cache.cas \in [Names -> Assignments]
           /\ \A n \in Names : cas[n].owner \in Nat /\ cache.cas[n].owner \in Nat
<1>1. ar.inc \in 0..MaxInc /\ ar.gen \in 0..(MaxEdits + 1)
  BY DEF RolloutTypes, Rollouts
<1>2. cache.ar \in Views /\ cache.cas \in [Names -> Assignments]
  BY DEF RolloutTypes, CacheType
<1>3. cache.ar.inc \in 0..MaxInc
  BY <1>2 DEF Views
<1>4. job.inc \in 0..MaxInc
  BY DEF RolloutTypes, JobType
<1>5. \A n \in Names : cas[n].owner \in 0..MaxInc /\ cache.cas[n].owner \in 0..MaxInc
  BY <1>2 DEF RolloutTypes, Assignments
<1>6. \A i \in 0..MaxInc : i \in Nat
  BY Bounds
<1>7. ar.gen \in Nat /\ edits \in Nat
  BY <1>1, Bounds DEF RolloutTypes
<1>8. Latest \in Nat
  BY <1>3, <1>4, <1>6 DEF Latest
<1> QED
  BY <1>1, <1>2, <1>3, <1>4, <1>5, <1>6, <1>7, <1>8

LEMMA InitHolds == Init => RolloutInv
<1> SUFFICES ASSUME Init
             PROVE  RolloutInv
  OBVIOUS
<1>1. NewRollout(1, FirstSpec) \in Rollouts /\ View(NoRollout) \in Views
  <2>1. 1 \in 0..MaxInc /\ 0 \in 0..MaxInc /\ 1 \in 0..(MaxEdits + 1) /\ FirstSpec \in Specs
    BY Bounds, RolloutConstants
  <2> QED
    BY <2>1, NothingTyped DEF NewRollout, NoRollout, Rollouts, View, Views
<1>2. RolloutTypes
  <2>1. ar \in Rollouts /\ app \in AppType /\ robots \in RobotStates /\ tenant \in 0..MaxTenant
    BY <1>1, RolloutConstants DEF Init, AppType, RobotStates
  <2>2. cas \in [Names -> Assignments]
    BY NothingTyped DEF Init
  <2>3. cache \in CacheType
    BY <2>1, <2>2, <1>1 DEF Init, CacheType
  <2> QED
    <3>1. 0 \in 0..MaxEdits /\ 0 \in 0..MaxFaults /\ {} \subseteq Names
      BY Bounds
    <3>2. edits = 0 /\ faults = 0 /\ events = {} /\ ~queued /\ ~timers /\ queued \in BOOLEAN /\ timers \in BOOLEAN
      BY DEF Init
    <3>3. pc \in {"idle", "write", "error"} /\ job \in JobType
      BY NothingTyped DEF Init
    <3> QED
      BY <2>1, <2>2, <2>3, <3>1, <3>2, <3>3 DEF RolloutTypes
<1>3. Counted
  <2>1. ar.count = NoCount /\ ar.gen = 1 /\ job.count = NoCount /\ edits = 0
    BY DEF Init, NewRollout, NoRollout, NoJob
  <2> QED
    BY <2>1, NothingTyped DEF Counted
<1>4. Alive
  BY RolloutConstants DEF Init, Alive, NewRollout, NoRollout, NoJob, View
<1>5. Planned
  BY DEF Init, Planned, NoJob
<1>6. Owners /\ Lineage
  <2>1. pc = "idle" /\ cache.ar.inc = 0 /\ cache.cas = cas
    BY DEF Init, View, NoRollout
  <2>2. \A n \in Names : cas[n] = NoCA /\ cas[n].owner = 0
    BY DEF Init, NoCA
  <2> QED
    BY <2>1, <2>2 DEF Owners, Latest, Lineage
<1>7. OwnCopies /\ OwnDrops
  BY DEF Init, OwnCopies, OwnDrops, NoJob
<1> QED
  BY <1>2, <1>3, <1>4, <1>5, <1>6, <1>7 DEF RolloutInv

\* A change by a user is one of a bounded number.
LEMMA EditCounted ==
    ASSUME RolloutTypes, edits < MaxEdits, edits' = edits + 1
    PROVE  edits' \in 0..MaxEdits
BY RolloutConstants DEF RolloutTypes

\* A new version of the rollout: copies of it are old, everything else stays.
LEMMA RewriteKeeps ==
    ASSUME RolloutInv, NEW new \in Rollouts, Rewrite(new),
           new.alive => new.spec \in Specs /\ new.inc >= 1,
           new.inc >= ar.inc, OneList(new.count), new.gen <= edits + 2
    PROVE  RolloutInv'
<1> USE DEF RolloutInv, Rewrite, UserEdits
<1>1. edits' \in 0..MaxEdits /\ edits \in Nat /\ edits' = edits + 1
  BY EditCounted, RolloutConstants DEF RolloutTypes
<1>2. cache' \in CacheType /\ cache'.ar = cache.ar /\ cache'.cas = cache.cas
  BY DEF RolloutTypes, CacheType
<1>3. /\ job' \in JobType /\ job'.inc = job.inc /\ job'.want = job.want /\ job'.exist = job.exist
      /\ job'.fresh = job.fresh /\ job'.drop = job.drop /\ job'.count = job.count
  BY DEF RolloutTypes, JobType
<1>4. RolloutTypes'
  BY <1>1, <1>2, <1>3 DEF RolloutTypes
<1>5. Counted'
  <2>1. new.gen \in 0..(MaxEdits + 1)
    BY DEF Rollouts
  <2>2. new.gen \in Nat
    BY <2>1, Bounds
  <2> QED
    BY <1>1, <1>3, <2>2 DEF Counted
<1>6. Alive'
  <2>1. new.inc \in 0..MaxInc
    BY DEF Rollouts
  <2>2. new.inc \in Nat
    BY <2>1, Bounds
  <2> QED
    BY <2>2, <1>2, <1>3, Numbers DEF Alive
<1>7. Planned'
  BY <1>3 DEF Planned, Todo
<1>8. Owners' /\ Lineage'
  BY <1>2, <1>3 DEF Owners, Latest, Lineage
<1>9. OwnCopies' /\ OwnDrops'
  BY <1>3 DEF OwnCopies, OwnDrops
<1> QED
  BY <1>4, <1>5, <1>6, <1>7, <1>8, <1>9

LEMMA CreateRolloutKeeps ==
    ASSUME RolloutInv, CreateRollout
    PROVE  RolloutInv'
<1>1. PICK s \in Specs : Rewrite(NewRollout(ar.inc + 1, s))
  BY DEF CreateRollout
<1>2. ar.inc \in 0..MaxInc /\ ar.inc < MaxInc /\ edits \in Nat
  BY Numbers DEF RolloutInv, CreateRollout
<1>3. ar.inc + 1 \in 0..MaxInc
  BY <1>2, Bounds
<1> DEFINE new == NewRollout(ar.inc + 1, s)
<1>4. /\ new.alive /\ new.spec = s /\ new.inc = ar.inc + 1 /\ new.gen = 1 /\ new.count = NoCount
      /\ new \in Rollouts
  <2>1. 1 \in 0..(MaxEdits + 1)
    BY Bounds
  <2> QED
    BY <1>3, <2>1, NothingTyped DEF NewRollout, NoRollout, Rollouts
<1>5. Rewrite(new)
  BY <1>1
<1>6. /\ new.alive => new.spec \in Specs /\ new.inc >= 1
      /\ new.inc >= ar.inc /\ OneList(new.count) /\ new.gen <= edits + 2
  BY <1>2, <1>4, NothingTyped
<1> HIDE DEF new
<1> QED
  BY <1>4, <1>5, <1>6, RewriteKeeps

LEMMA EditRolloutKeeps ==
    ASSUME RolloutInv, EditRollout
    PROVE  RolloutInv'
<1>1. PICK s \in Specs : Rewrite([ar EXCEPT !.spec = s, !.gen = @ + 1])
  BY DEF EditRollout
<1>2. ar \in Rollouts /\ ar.gen \in 0..(MaxEdits + 1) /\ ar.inc \in Nat /\ edits \in Nat
  BY Numbers DEF RolloutInv, RolloutTypes
<1>3. ar.gen <= edits + 1 /\ edits < MaxEdits /\ OneList(ar.count) /\ ar.inc >= 1
  BY <1>1 DEF RolloutInv, Counted, Alive, Rewrite, UserEdits, EditRollout
<1>4. ar.gen + 1 \in 0..(MaxEdits + 1)
  BY <1>2, <1>3, Bounds
<1> DEFINE new == [ar EXCEPT !.spec = s, !.gen = @ + 1]
<1>5. /\ new.spec = s /\ new.inc = ar.inc /\ new.gen = ar.gen + 1 /\ new.count = ar.count
      /\ new \in Rollouts
  BY <1>2, <1>4 DEF Rollouts
<1>6. Rewrite(new)
  BY <1>1
<1> HIDE DEF new
<1> QED
  BY <1>2, <1>3, <1>5, <1>6, RewriteKeeps

LEMMA DeleteRolloutKeeps ==
    ASSUME RolloutInv, DeleteRollout
    PROVE  RolloutInv'
<1> DEFINE new == [NoRollout EXCEPT !.inc = ar.inc]
<1>1. ar.inc \in 0..MaxInc /\ ar.inc \in Nat /\ edits \in Nat
  BY Numbers DEF RolloutInv
<1>2. /\ new.inc = ar.inc /\ new.gen = 0 /\ new.count = NoCount /\ ~new.alive
      /\ new \in Rollouts
  BY <1>1, NothingTyped DEF NoRollout, Rollouts
<1>3. Rewrite(new)
  BY DEF DeleteRollout
<1>4. new.inc >= ar.inc /\ OneList(new.count) /\ new.gen <= edits + 2
  BY <1>1, <1>2, NothingTyped
<1> HIDE DEF new
<1> QED
  BY <1>2, <1>3, <1>4, RewriteKeeps

\* What the reconcile reads changes: none of the invariants is about it.
LEMMA SurroundingsKeep ==
    ASSUME RolloutInv, ChangeApp \/ ChangeRobot \/ ChangeTenant
    PROVE  RolloutInv'
<1> USE DEF RolloutInv
<1>1. /\ UserEdits
      /\ UNCHANGED <<ar, cas, cache, events, job, queued, timers, pc, faults>>
  BY DEF ChangeApp, ChangeRobot, ChangeTenant, UserEdits
<1>2. edits' \in 0..MaxEdits /\ edits \in Nat /\ edits' = edits + 1
  BY <1>1, EditCounted, RolloutConstants DEF RolloutTypes, UserEdits
<1>3. app' \in AppType /\ robots' \in RobotStates /\ tenant' \in 0..MaxTenant
  BY DEF RolloutTypes, ChangeApp, ChangeRobot, ChangeTenant, AppType, RobotStates
<1>4. RolloutTypes'
  BY <1>1, <1>2, <1>3 DEF RolloutTypes
<1>5. Counted'
  BY <1>1, <1>2, Numbers DEF Counted
<1>6. Alive' /\ Planned' /\ Owners' /\ Lineage' /\ OwnCopies' /\ OwnDrops'
  BY <1>1 DEF Alive, Planned, Todo, Owners, Latest, Lineage, OwnCopies, OwnDrops
<1> QED
  BY <1>4, <1>5, <1>6

\* Somebody else changes an assignment: it goes, or keeps its owner.
LEMMA OthersKeep ==
    ASSUME RolloutInv, NEW n \in Names, NEW ca \in Assignments, Others(n, ca),
           ca = NoCA \/ (ca.owner = cas[n].owner /\ ca.owner >= 1),
           edits' \in 0..MaxEdits, edits' >= edits
    PROVE  RolloutInv'
<1> USE DEF RolloutInv, Others, Changed
<1>1. /\ cas' \in [Names -> Assignments] /\ cas'[n] = ca
      /\ \A m \in Names \ {n} : cas'[m] = cas[m]
  BY DEF RolloutTypes
<1>2. /\ job' \in JobType /\ job'.inc = job.inc /\ job'.want = job.want /\ job'.exist = job.exist
      /\ job'.fresh = job.fresh \ {n} /\ job'.drop = job.drop /\ job'.count = job.count
  BY DEF RolloutTypes, JobType
<1>3. RolloutTypes'
  BY <1>1, <1>2 DEF RolloutTypes
<1>4. Counted'
  <2>1. edits' \in Nat
    BY Bounds
  <2> QED
    BY <1>2, <2>1, Numbers DEF Counted
<1>5. Alive' /\ Planned'
  BY <1>2 DEF Alive, Planned, Todo
<1>6. /\ Latest \in Nat /\ Latest' = Latest
      /\ \A m \in Names : cas[m].owner \in Nat /\ cache.cas[m].owner \in Nat
  BY <1>2, Numbers DEF Latest
<1>7. NoCA.owner = 0
  BY DEF NoCA
<1>8. Owners' /\ Lineage'
  BY <1>1, <1>6, <1>7 DEF Owners, Lineage
<1>9. job.exist \subseteq Names /\ job.drop \subseteq Names
  BY DEF RolloutTypes, JobType
<1>10. OwnCopies'
  BY <1>1, <1>2, <1>9 DEF OwnCopies
<1>11. OwnDrops'
  <2>1. ASSUME NEW m \in job.drop
        PROVE  cas'[m] = NoCA \/ cas'[m].owner = job.inc
    <3>1. CASE m = n
      <4>1. cas[n] = NoCA => cas[n].owner = 0
        BY <1>7
      <4> QED
        BY <1>1, <3>1, <4>1 DEF OwnDrops
    <3>2. CASE m # n
      BY <1>1, <1>9, <3>2 DEF OwnDrops
    <3> QED
      BY <3>1, <3>2
  <2> QED
    BY <2>1, <1>2 DEF OwnDrops
<1> QED
  BY <1>10, <1>11, <1>3, <1>4, <1>5, <1>8, <1>9

\* A delete request leaves the owner as it is.
LEMMA DeletedTyped ==
    ASSUME NEW ca \in Assignments, ca = NoCA \/ ca.owner >= 1
    PROVE  /\ Deleted(ca) \in Assignments
           /\ Deleted(ca) = NoCA \/ (Deleted(ca).owner = ca.owner /\ Deleted(ca).owner >= 1)
<1>1. CASE ca.fin
  <2>1. Deleted(ca) \in Assignments /\ Deleted(ca).owner = ca.owner
    BY <1>1 DEF Deleted, Assignments
  <2>2. ca.owner >= 1
    <3>1. NoCA.fin = FALSE
      BY DEF NoCA
    <3> QED
      BY <1>1, <3>1
  <2> QED
    BY <2>1, <2>2
<1>2. CASE ~ca.fin
  BY <1>2, NothingTyped DEF Deleted
<1> QED
  BY <1>1, <1>2

LEMMA OtherControllersKeep ==
    ASSUME RolloutInv, NEW n \in Names,
           DeleteAssignment(n) \/ GarbageCollect(n) \/ Report(n) \/ Finalize(n)
    PROVE  RolloutInv'
<1>1. /\ cas[n] \in Assignments /\ (cas[n] = NoCA \/ cas[n].owner >= 1)
      /\ edits \in 0..MaxEdits /\ edits \in Nat
  BY RolloutConstants DEF RolloutInv, RolloutTypes, Owners
<1> DEFINE gone == Deleted(cas[n])
<1>2. /\ gone \in Assignments
      /\ gone = NoCA \/ (gone.owner = cas[n].owner /\ gone.owner >= 1)
  BY <1>1, DeletedTyped
<1>3. CASE DeleteAssignment(n)
  <2>1. Others(n, gone) /\ edits' \in 0..MaxEdits /\ edits' >= edits
    BY <1>1, <1>3, EditCounted DEF DeleteAssignment, RolloutInv
  <2> HIDE DEF gone
  <2> QED
    BY <1>2, <2>1, OthersKeep
<1>4. CASE GarbageCollect(n)
  <2>1. Others(n, gone) /\ edits' \in 0..MaxEdits /\ edits' >= edits
    BY <1>1, <1>4 DEF GarbageCollect
  <2> HIDE DEF gone
  <2> QED
    BY <1>2, <2>1, OthersKeep
<1>5. CASE Report(n)
  <2>1. PICK p \in Outcomes[n] : Others(n, [cas[n] EXCEPT !.fin = TRUE, !.phase = p, !.pending = FALSE])
    BY <1>5 DEF Report
  <2> DEFINE ca == [cas[n] EXCEPT !.fin = TRUE, !.phase = p, !.pending = FALSE]
  <2>2. p \in {"Settled", "Ready", "Failed"}
    BY OutcomesOfNames
  <2>3. ca \in Assignments /\ ca.owner = cas[n].owner
    BY <1>1, <2>2 DEF Assignments
  <2>4. cas[n].owner >= 1
    <3>1. NoCA.pending = FALSE
      BY DEF NoCA
    <3> QED
      BY <1>1, <1>5, <3>1 DEF Report
  <2>5. Others(n, ca) /\ edits' \in 0..MaxEdits /\ edits' >= edits
    <3>1. UNCHANGED edits
      BY <1>5 DEF Report
    <3> QED
      BY <1>1, <2>1, <3>1
  <2> HIDE DEF ca
  <2> QED
    BY <2>3, <2>4, <2>5, OthersKeep
<1>6. CASE Finalize(n)
  <2>1. Others(n, NoCA) /\ edits' \in 0..MaxEdits /\ edits' >= edits
    BY <1>1, <1>6 DEF Finalize
  <2> QED
    BY <2>1, NothingTyped, OthersKeep
<1> QED
  BY <1>3, <1>4, <1>5, <1>6

-----------------------------------------------------------------------------
(* The watches.                                                            *)

\* The cached copies of everything but the rollout and the assignments may change
\* as they like, and so may the work queue.
LEMMA DeliveryKeeps ==
    ASSUME RolloutInv, Delivered, cache' \in CacheType, cache'.ar = cache.ar,
           cache'.cas \in {cache.cas, cas}, events' \subseteq Names,
           queued' \in BOOLEAN, timers' \in BOOLEAN
    PROVE  RolloutInv'
<1> USE DEF RolloutInv, Delivered, apiVars
<1>1. RolloutTypes'
  BY DEF RolloutTypes
<1>2. Counted' /\ Alive' /\ Planned' /\ OwnCopies' /\ OwnDrops'
  BY DEF Counted, Alive, Planned, Todo, OwnCopies, OwnDrops
<1>3. Latest' = Latest
  BY DEF Latest
<1>4. Owners'
  BY <1>3 DEF Owners
<1>5. Lineage'
  BY Numbers DEF Lineage
<1> QED
  BY <1>1, <1>2, <1>4, <1>5

LEMMA WatchRolloutKeeps ==
    ASSUME RolloutInv, WatchRollout
    PROVE  RolloutInv'
<1> USE DEF RolloutInv, WatchRollout, Delivered, apiVars
<1>1. View(ar) \in Views /\ View(ar).inc = ar.inc /\ View(ar).alive = ar.alive /\ View(ar).spec = ar.spec
  BY DEF View, Views, RolloutTypes, Rollouts
<1>2. cache' \in CacheType /\ cache'.ar = View(ar) /\ cache'.cas = cache.cas
  BY <1>1 DEF RolloutTypes, CacheType
<1>3. RolloutTypes'
  BY <1>2 DEF RolloutTypes
<1>4. Counted' /\ Planned' /\ Lineage' /\ OwnCopies' /\ OwnDrops'
  BY <1>2 DEF Counted, Planned, Todo, Lineage, OwnCopies, OwnDrops
<1>5. Alive'
  BY <1>1, <1>2, Numbers DEF Alive
<1>6. Latest <= Latest' /\ Latest' \in Nat
  BY <1>1, <1>2, Numbers DEF Latest, Alive
<1>7. Owners'
  BY <1>2, <1>6, Numbers DEF Owners
<1> QED
  BY <1>3, <1>4, <1>5, <1>7

LEMMA WatchesKeep ==
    ASSUME RolloutInv, WatchApp \/ WatchRobots \/ TimerFires \/ WatchAssignments
    PROVE  RolloutInv'
<1>1. cache \in CacheType /\ events \subseteq Names /\ queued \in BOOLEAN /\ timers \in BOOLEAN
  BY DEF RolloutInv, RolloutTypes
<1>2. CASE WatchApp
  <2>1. cache' \in CacheType /\ cache'.ar = cache.ar /\ cache'.cas = cache.cas
    BY <1>1, <1>2 DEF WatchApp, RolloutInv, RolloutTypes, CacheType
  <2>2. Delivered /\ queued' \in BOOLEAN /\ timers' \in BOOLEAN /\ events' \subseteq Names
    BY <1>1, <1>2 DEF WatchApp
  <2> QED
    BY <2>1, <2>2, DeliveryKeeps
<1>3. CASE WatchRobots
  <2>1. cache' \in CacheType /\ cache'.ar = cache.ar /\ cache'.cas = cache.cas
    BY <1>1, <1>3 DEF WatchRobots, RolloutInv, RolloutTypes, CacheType
  <2>2. Delivered /\ queued' \in BOOLEAN /\ timers' \in BOOLEAN /\ events' \subseteq Names
    BY <1>1, <1>3 DEF WatchRobots
  <2> QED
    BY <2>1, <2>2, DeliveryKeeps
<1>4. CASE TimerFires
  <2>1. cache' = cache /\ Delivered /\ queued' \in BOOLEAN /\ timers' \in BOOLEAN /\ events' \subseteq Names
    BY <1>1, <1>4 DEF TimerFires
  <2> QED
    BY <1>1, <2>1, DeliveryKeeps
<1>5. CASE WatchAssignments
  <2>1. cache' \in CacheType /\ cache'.ar = cache.ar /\ cache'.cas = cas
    BY <1>1, <1>5 DEF WatchAssignments, RolloutInv, RolloutTypes, CacheType
  <2>2. Delivered /\ queued' \in BOOLEAN /\ timers' \in BOOLEAN /\ events' \subseteq Names
    BY <1>1, <1>5 DEF WatchAssignments
  <2> QED
    BY <2>1, <2>2, DeliveryKeeps
<1> QED
  BY <1>2, <1>3, <1>4, <1>5

-----------------------------------------------------------------------------
(* The reconcile begins.                                                   *)

\* A job that belongs to the cached life, and of which the plan is sound.
LEMMA BeginKeeps ==
    ASSUME RolloutInv, pc = "idle", NEW step \in {"idle", "write", "error"}, NEW j \in JobType, Begins(step, j),
           UNCHANGED <<apiVars, cache, events, timers, edits, faults>>,
           OneList(j.count), j.inc <= cache.ar.inc,
           step # "idle" => j.inc = cache.ar.inc /\ cache.ar.inc >= 1,
           \A n \in j.exist : j.want[n] # <<>>,
           \A n \in j.drop : j.want[n] = <<>>,
           \A n \in j.exist \intersect j.fresh : cas[n].owner = j.inc,
           \A n \in j.drop : cas[n] = NoCA \/ cas[n].owner = j.inc
    PROVE  RolloutInv'
<1> USE DEF RolloutInv, Begins, apiVars
<1>1. RolloutTypes'
  BY DEF RolloutTypes
<1>2. Counted' /\ Alive'
  BY DEF Counted, Alive
<1>3. Planned'
  BY DEF Planned, Todo, JobType
<1>4. Latest' = Latest
  BY DEF Latest
<1>5. Owners' /\ Lineage'
  BY <1>4 DEF Owners, Lineage
<1>6. OwnCopies' /\ OwnDrops'
  BY DEF OwnCopies, OwnDrops
<1> QED
  BY <1>1, <1>2, <1>3, <1>5, <1>6

\* An empty job writes nothing.
LEMMA EmptyJob ==
    /\ NoJob.inc = 0 /\ NoJob.count = NoCount /\ NoJob.exist = {} /\ NoJob.fresh = {} /\ NoJob.drop = {}
    /\ NoJob.want = [n \in Names |-> <<>>]
BY DEF NoJob

\* The plan of a reconcile: its lists are disjoint, and what it would change or drop
\* is of the life that the cache knows.
LEMMA PlanSound ==
    ASSUME RolloutInv, pc = "idle", cache.ar.inc >= 1, NEW want \in [Names -> Contents],
           NEW j, j = Plan(want, Owned(cache.ar.inc))
    PROVE  /\ j \in JobType /\ j.inc = cache.ar.inc /\ OneList(j.count)
           /\ \A n \in j.exist : j.want[n] # <<>>
           /\ \A n \in j.drop : j.want[n] = <<>>
           /\ \A n \in j.exist \intersect j.fresh : cas[n].owner = j.inc
           /\ \A n \in j.drop : cas[n] = NoCA \/ cas[n].owner = j.inc
<1> DEFINE cur == Owned(cache.ar.inc)
           wanted == {n \in Names : want[n] # <<>>}
<1>1. \A n \in Names : cur[n] # NoCA => cur[n] = cache.cas[n] /\ cache.cas[n].owner = cache.ar.inc
  BY DEF Owned
<1> HIDE DEF cur
<1>2. /\ j.inc = cache.ar.inc /\ j.current = cache.current
      /\ j.want = [n \in Names |-> IF cur[n].val = want[n] THEN <<>> ELSE want[n]]
      /\ j.exist = {n \in Names : cur[n] # NoCA /\ want[n] \notin {<<>>, cur[n].val}}
      /\ j.fresh = {n \in Names : want[n] # <<>> /\ cur[n].val # want[n] /\ cur[n] = cas[n]}
      /\ j.drop = {n \in Names : want[n] = <<>> /\ cur[n] # NoCA}
      /\ j.count = [want |-> Cardinality(wanted), settled |-> Count(cur, {"Settled", "Ready"}),
                    ready |-> Count(cur, {"Ready"}), failed |-> Count(cur, {"Failed"})]
      /\ j = [inc |-> j.inc, current |-> j.current, want |-> j.want, exist |-> j.exist,
              fresh |-> j.fresh, drop |-> j.drop, count |-> j.count]
  BY DEF Plan, cur
<1>3. wanted \in SUBSET Names
  OBVIOUS
<1> HIDE DEF wanted
<1>4. j.count \in Counts
  BY <1>2, <1>3, SomeNames, CountTyped DEF Counts
<1>5. OneList(j.count)
  BY <1>2, CountsAdd DEF OneList
<1>6. j.want \in [Names -> Contents]
  BY <1>2 DEF Contents
<1>7. j \in JobType
  <2>1. j.inc \in 0..MaxInc /\ j.current \in BOOLEAN
    BY <1>2, Numbers DEF RolloutInv, RolloutTypes, CacheType
  <2>2. j.exist \in SUBSET Names /\ j.fresh \in SUBSET Names /\ j.drop \in SUBSET Names
    BY <1>2
  <2> QED
    BY <1>2, <1>4, <1>6, <2>1, <2>2 DEF JobType
<1>8. (\A n \in j.exist : j.want[n] # <<>>) /\ (\A n \in j.drop : j.want[n] = <<>>)
  BY <1>2
<1>9. \A n \in j.exist \intersect j.fresh : cas[n].owner = j.inc
  BY <1>1, <1>2
<1>10. ASSUME NEW n \in j.drop
       PROVE  cas[n] = NoCA \/ cas[n].owner = j.inc
  <2>1. n \in Names /\ cache.cas[n].owner = cache.ar.inc
    BY <1>1, <1>2
  <2>2. cas[n].owner <= cache.ar.inc /\ (cas[n] = NoCA \/ cas[n].owner >= 1)
    BY <2>1 DEF RolloutInv, Owners, Latest
  <2>3. cas[n].owner >= 1 => cache.ar.inc <= cas[n].owner
    BY <2>1 DEF RolloutInv, Lineage
  <2>4. cas[n].owner \in Nat /\ cache.ar.inc \in Nat
    BY <2>1, Numbers DEF RolloutInv
  <2> QED
    BY <1>2, <2>2, <2>3, <2>4
<1> QED
  BY <1>2, <1>5, <1>7, <1>8, <1>9, <1>10

LEMMA ReconcileKeeps ==
    ASSUME RolloutInv, Reconcile
    PROVE  RolloutInv'
<1>1. pc = "idle" /\ UNCHANGED <<apiVars, cache, events, timers, edits, faults>>
  BY DEF Reconcile
<1>2. CASE Begins("idle", NoJob)
  <2>1. NoJob \in JobType /\ OneList(NoJob.count) /\ NoJob.inc <= cache.ar.inc
    BY EmptyJob, NothingTyped, Numbers DEF RolloutInv
  <2> QED
    BY <1>1, <1>2, <2>1, EmptyJob, BeginKeeps
<1>3. CASE cache.ar.alive /\ Begins("error", NoPlan)
  <2>1. cache.ar.inc >= 1 /\ cache.ar.inc \in 0..MaxInc /\ cache.ar.inc \in Nat /\ cache.current \in BOOLEAN
    BY <1>3, Numbers DEF RolloutInv, Alive, RolloutTypes, CacheType
  <2>2. NoPlan \in JobType
    BY <2>1, NothingTyped DEF NoPlan, JobType
  <2>3. /\ NoPlan.inc = cache.ar.inc /\ NoPlan.count = NoCount /\ NoPlan.exist = {} /\ NoPlan.drop = {}
    BY DEF NoPlan, NoJob
  <2> QED
    BY <1>1, <1>3, <2>1, <2>2, <2>3, NothingTyped, BeginKeeps
<1>4. CASE UNCHANGED <<pc, job, queued>>
  BY <1>1, <1>4 DEF RolloutInv, RolloutTypes, Counted, Alive, Planned, Todo, Owners, Latest, Lineage,
        OwnCopies, OwnDrops, apiVars
<1>5. CASE /\ cache.ar.alive /\ cache.app # NoApp
           /\ Begins("write", Plan(generateChartAssignments(cache.app, cache.ar.spec, tenant, cache.robots),
                                   Owned(cache.ar.inc)))
  <2>1. cache.ar.inc >= 1 /\ cache.ar.spec \in Specs /\ cache.app \in Apps /\ tenant \in 0..MaxTenant
    BY <1>5 DEF RolloutInv, Alive, RolloutTypes, CacheType, AppType
  <2> DEFINE want == generateChartAssignments(cache.app, cache.ar.spec, tenant, cache.robots)
             j == Plan(want, Owned(cache.ar.inc))
  <2>2. want \in [Names -> Contents]
    BY <2>1, GeneratedTyped
  <2> HIDE DEF want
  <2>3. /\ j \in JobType /\ j.inc = cache.ar.inc /\ OneList(j.count)
        /\ \A n \in j.exist : j.want[n] # <<>>
        /\ \A n \in j.drop : j.want[n] = <<>>
        /\ \A n \in j.exist \intersect j.fresh : cas[n].owner = j.inc
        /\ \A n \in j.drop : cas[n] = NoCA \/ cas[n].owner = j.inc
    BY <1>1, <2>1, <2>2, PlanSound
  <2>4. Begins("write", j)
    BY <1>5 DEF want
  <2>5. cache.ar.inc <= cache.ar.inc
    BY Numbers DEF RolloutInv
  <2> HIDE DEF j
  <2> QED
    BY <1>1, <2>1, <2>3, <2>4, <2>5, BeginKeeps
<1> QED
  BY <1>2, <1>3, <1>4, <1>5 DEF Reconcile

-----------------------------------------------------------------------------
(* The reconcile writes.                                                   *)

\* A write of an assignment of this life, or its removal, keeps the order of lives.
LEMMA WriteOrdered ==
    ASSUME RolloutInv, pc = "write", NEW n \in Names, NEW ca \in Assignments,
           ca = NoCA \/ ca.owner = job.inc,
           cas' = [cas EXCEPT ![n] = ca], UNCHANGED cache
    PROVE  /\ cas' \in [Names -> Assignments]
           /\ \A m \in Names : cas'[m].owner <= job.inc /\ cache.cas[m].owner <= job.inc
           /\ \A m \in Names : cas'[m] = NoCA \/ cas'[m].owner >= 1
           /\ Lineage'
<1> USE DEF RolloutInv
<1>1. /\ cas' \in [Names -> Assignments] /\ cas'[n] = ca
      /\ \A m \in Names \ {n} : cas'[m] = cas[m]
  BY DEF RolloutTypes
<1>2. Latest = job.inc /\ job.inc >= 1
  BY DEF Latest, Alive
<1>3. NoCA.owner = 0
  BY DEF NoCA
<1>4. \A m \in Names : cas'[m].owner <= job.inc /\ cache.cas[m].owner <= job.inc
  BY <1>1, <1>2, <1>3, Numbers DEF Owners
<1>5. \A m \in Names : cas'[m] = NoCA \/ cas'[m].owner >= 1
  BY <1>1, <1>2 DEF Owners
<1>6. Lineage'
  BY <1>1, <1>3, <1>4, Numbers DEF Lineage
<1> QED
  BY <1>1, <1>4, <1>5, <1>6

\* The reconcile ends: what it has written stays.
LEMMA EndKeeps ==
    ASSUME RolloutInv, NEW r \in BOOLEAN, Done(r),
           UNCHANGED <<ar, app, robots, tenant, cache, timers, edits>>,
           faults' \in 0..MaxFaults, events' \subseteq Names, cas' \in [Names -> Assignments],
           \A m \in Names : cas'[m].owner <= Latest,
           \A m \in Names : cas'[m] = NoCA \/ cas'[m].owner >= 1,
           Lineage'
    PROVE  RolloutInv'
<1> USE DEF RolloutInv, Done
<1>1. RolloutTypes'
  BY NothingTyped DEF RolloutTypes
<1>2. Counted'
  BY NothingTyped, EmptyJob DEF Counted
<1>3. Alive'
  BY EmptyJob, Numbers DEF Alive
<1>4. Planned' /\ OwnCopies' /\ OwnDrops'
  BY EmptyJob DEF Planned, OwnCopies, OwnDrops
<1>5. Latest <= Latest' /\ Latest' \in Nat
  BY Numbers DEF Latest, Alive
<1>6. \A m \in Names : cas'[m].owner \in Nat
  <2>1. \A m \in Names : cas'[m].owner \in 0..MaxInc
    BY DEF Assignments
  <2>2. \A i \in 0..MaxInc : i \in Nat
    BY Bounds
  <2> QED
    BY <2>1, <2>2
<1>7. Owners'
  BY <1>5, <1>6, Numbers DEF Owners
<1> QED
  BY <1>1, <1>2, <1>3, <1>4, <1>7

\* It goes on with the next write.
LEMMA OnKeeps ==
    ASSUME RolloutInv, pc = "write",
           UNCHANGED <<ar, app, robots, tenant, cache, timers, edits, pc, queued, faults>>,
           events' \subseteq Names, cas' \in [Names -> Assignments],
           job' \in JobType, job'.inc = job.inc, job'.count = job.count,
           \A m \in Names : cas'[m].owner <= job.inc /\ cache.cas[m].owner <= job.inc,
           \A m \in Names : cas'[m] = NoCA \/ cas'[m].owner >= 1,
           Lineage', Planned', OwnCopies', OwnDrops'
    PROVE  RolloutInv'
<1> USE DEF RolloutInv
<1>1. RolloutTypes'
  BY DEF RolloutTypes
<1>2. Counted' /\ Alive'
  BY DEF Counted, Alive
<1>3. Owners'
  BY DEF Owners, Latest
<1> QED
  BY <1>1, <1>2, <1>3

\* A failure is one of a bounded number.
LEMMA FaultCounted ==
    ASSUME RolloutTypes, Fault
    PROVE  faults' \in 0..MaxFaults
BY Bounds DEF RolloutTypes, Fault

\* A write that is refused ends the reconcile and changes nothing.
LEMMA RefusedKeeps ==
    ASSUME RolloutInv, Done(TRUE), UNCHANGED <<ar, app, robots, tenant, cache, timers, edits>>,
           UNCHANGED <<cas, events>>, faults' \in 0..MaxFaults
    PROVE  RolloutInv'
<1>1. Lineage' /\ cas' \in [Names -> Assignments] /\ events' \subseteq Names
  BY DEF RolloutInv, RolloutTypes, Lineage
<1>2. \A m \in Names : cas'[m].owner <= Latest /\ (cas'[m] = NoCA \/ cas'[m].owner >= 1)
  BY DEF RolloutInv, Owners
<1> QED
  BY <1>1, <1>2, EndKeeps

\* The job after a write of assignment n.
LEMMA WrittenTyped ==
    ASSUME RolloutTypes, NEW n \in Names, NEW j, j = Written(n)
    PROVE  /\ j \in JobType /\ j.inc = job.inc /\ j.count = job.count
           /\ j.exist = job.exist \ {n} /\ j.fresh = job.fresh \ {n} /\ j.drop = job.drop
           /\ j.want[n] = <<>> /\ \A m \in Names \ {n} : j.want[m] = job.want[m]
<1>1. <<>> \in Contents
  BY DEF Contents
<1>2. job \in JobType /\ job.want \in [Names -> Contents]
  BY DEF RolloutTypes, JobType
<1>3. [job.want EXCEPT ![n] = <<>>] \in [Names -> Contents]
  BY <1>1, <1>2
<1> QED
  BY <1>2, <1>3 DEF Written, JobType

\* A write of assignment n that is not to be dropped, or of one of this life.
LEMMA AssignedKeeps ==
    ASSUME RolloutInv, pc = "write", NEW n \in Names, NEW ca \in Assignments,
           ca = NoCA \/ ca.owner = job.inc,
           cas' = [cas EXCEPT ![n] = ca], Continues(Written(n)), events' \subseteq Names,
           UNCHANGED <<ar, app, robots, tenant, cache, timers, edits>>
    PROVE  RolloutInv'
<1>1. /\ cas' \in [Names -> Assignments]
      /\ \A m \in Names : cas'[m].owner <= job.inc /\ cache.cas[m].owner <= job.inc
      /\ \A m \in Names : cas'[m] = NoCA \/ cas'[m].owner >= 1
      /\ Lineage'
  BY WriteOrdered
<1>2. CASE job' = Written(n) /\ UNCHANGED <<pc, queued, faults>>
  <2>1. /\ job' \in JobType /\ job'.inc = job.inc /\ job'.count = job.count
        /\ job'.exist = job.exist \ {n} /\ job'.fresh = job.fresh \ {n} /\ job'.drop = job.drop
        /\ job'.want[n] = <<>> /\ \A m \in Names \ {n} : job'.want[m] = job.want[m]
    BY <1>2, WrittenTyped DEF RolloutInv
  <2>2. job.exist \subseteq Names /\ job.drop \subseteq Names
    BY DEF RolloutInv, RolloutTypes, JobType
  <2>3. cas'[n] = ca /\ \A m \in Names \ {n} : cas'[m] = cas[m]
    BY DEF RolloutInv, RolloutTypes
  <2>4. Planned'
    BY <2>1, <2>2 DEF RolloutInv, Planned, Todo
  <2>5. OwnCopies'
    BY <2>1, <2>2, <2>3 DEF RolloutInv, OwnCopies
  <2>6. OwnDrops'
    BY <2>1, <2>2, <2>3 DEF RolloutInv, OwnDrops
  <2> QED
    BY <1>1, <1>2, <2>1, <2>4, <2>5, <2>6, OnKeeps
<1>3. CASE Fault /\ Done(TRUE)
  <2>1. faults' \in 0..MaxFaults /\ Latest = job.inc
    BY <1>3, FaultCounted DEF RolloutInv, Latest
  <2> QED
    BY <1>1, <1>3, <2>1, EndKeeps
<1> QED
  BY <1>2, <1>3 DEF Continues

LEMMA CreateCAKeeps ==
    ASSUME RolloutInv, NEW n \in Names, CreateCA(n)
    PROVE  RolloutInv'
<1>1. pc = "write" /\ UNCHANGED <<ar, app, robots, tenant, cache, events, timers, edits>>
  BY DEF CreateCA, NextWrite
<1>2. CASE cas[n] = NoCA
  <2> DEFINE ca == NewCA(job.inc, job.want[n])
  <2>1. job.inc \in 0..MaxInc /\ job.want[n] \in Contents
    BY DEF RolloutInv, RolloutTypes, JobType
  <2>2. ca \in Assignments /\ ca.owner = job.inc
    BY <2>1, NothingTyped DEF NewCA, NoCA, Assignments
  <2>3. cas' = [cas EXCEPT ![n] = ca] /\ Continues(Written(n)) /\ events' \subseteq Names
    BY <1>1, <1>2 DEF CreateCA, RolloutInv, RolloutTypes
  <2> HIDE DEF ca
  <2> QED
    BY <1>1, <2>2, <2>3, AssignedKeeps
<1>3. CASE cas[n] # NoCA
  <2>1. Done(TRUE) /\ UNCHANGED <<cas, faults>> /\ faults \in 0..MaxFaults
    BY <1>3 DEF CreateCA, RolloutInv, RolloutTypes
  <2> QED
    BY <1>1, <2>1, RefusedKeeps
<1> QED
  BY <1>2, <1>3

LEMMA UpdateCAKeeps ==
    ASSUME RolloutInv, NEW n \in Names, UpdateCA(n)
    PROVE  RolloutInv'
<1>1. pc = "write" /\ n \in job.exist /\ UNCHANGED <<ar, app, robots, tenant, cache, timers, edits>>
  BY DEF UpdateCA, NextWrite
<1>2. CASE n \in job.fresh
  <2> DEFINE ca == IF cas[n].del THEN NoCA
                   ELSE [cas[n] EXCEPT !.val = job.want[n], !.fin = FALSE, !.pending = TRUE]
  <2>1. cas[n] \in Assignments /\ job.want[n] \in Contents /\ cas[n].owner = job.inc
    BY <1>1, <1>2 DEF RolloutInv, RolloutTypes, JobType, OwnCopies
  <2>2. ca \in Assignments /\ (ca = NoCA \/ ca.owner = job.inc)
    BY <2>1, NothingTyped DEF Assignments
  <2>3. cas' = [cas EXCEPT ![n] = ca] /\ Continues(Written(n)) /\ events' \subseteq Names
    BY <1>1, <1>2 DEF UpdateCA, Changed, RolloutInv, RolloutTypes
  <2> HIDE DEF ca
  <2> QED
    BY <1>1, <2>2, <2>3, AssignedKeeps
<1>3. CASE n \notin job.fresh
  <2>1. Done(TRUE) /\ UNCHANGED <<cas, events, faults>> /\ faults \in 0..MaxFaults
    BY <1>3 DEF UpdateCA, RolloutInv, RolloutTypes
  <2> QED
    BY <1>1, <2>1, RefusedKeeps
<1> QED
  BY <1>2, <1>3

LEMMA DeleteCAKeeps ==
    ASSUME RolloutInv, NEW n \in Names, DeleteCA(n)
    PROVE  RolloutInv'
<1>1. pc = "write" /\ n \in job.drop /\ UNCHANGED <<ar, app, robots, tenant, cache, timers, edits>>
  BY DEF DeleteCA
<1>2. CASE cas[n] # NoCA
  <2> DEFINE ca == Deleted(cas[n])
             j == [job EXCEPT !.drop = @ \ {n}]
  <2>1. cas[n] \in Assignments /\ cas[n].owner = job.inc /\ cas[n].owner >= 1
    BY <1>1, <1>2 DEF RolloutInv, RolloutTypes, OwnDrops, Owners
  <2>2. ca \in Assignments /\ (ca = NoCA \/ ca.owner = job.inc)
    BY <2>1, DeletedTyped
  <2>3. cas' = [cas EXCEPT ![n] = ca] /\ Continues(j) /\ events' \subseteq Names
    BY <1>1, <1>2 DEF DeleteCA, Changed, RolloutInv, RolloutTypes
  <2>4. /\ j \in JobType /\ j.inc = job.inc /\ j.count = job.count /\ j.want = job.want
        /\ j.exist = job.exist /\ j.fresh = job.fresh /\ j.drop = job.drop \ {n}
    BY DEF RolloutInv, RolloutTypes, JobType
  <2> HIDE DEF ca, j
  <2>5. /\ cas' \in [Names -> Assignments]
        /\ \A m \in Names : cas'[m].owner <= job.inc /\ cache.cas[m].owner <= job.inc
        /\ \A m \in Names : cas'[m] = NoCA \/ cas'[m].owner >= 1
        /\ Lineage'
    BY <1>1, <2>2, <2>3, WriteOrdered
  <2>6. CASE job' = j /\ UNCHANGED <<pc, queued, faults>>
    <3>1. job.exist \subseteq Names \ {n} /\ job.drop \subseteq Names
      BY <1>1 DEF RolloutInv, RolloutTypes, JobType, Planned
    <3>2. \A m \in Names \ {n} : cas'[m] = cas[m]
      BY <2>3 DEF RolloutInv, RolloutTypes
    <3>3. Planned'
      BY <2>4, <2>6 DEF RolloutInv, Planned, Todo
    <3>4. OwnCopies' /\ OwnDrops'
      BY <2>4, <2>6, <3>1, <3>2 DEF RolloutInv, OwnCopies, OwnDrops
    <3> QED
      BY <1>1, <2>3, <2>4, <2>5, <2>6, <3>3, <3>4, OnKeeps
  <2>7. CASE Fault /\ Done(TRUE)
    <3>1. faults' \in 0..MaxFaults /\ Latest = job.inc
      BY <1>1, <2>7, FaultCounted DEF RolloutInv, Latest
    <3> QED
      BY <1>1, <2>3, <2>5, <2>7, <3>1, EndKeeps
  <2> QED
    BY <2>3, <2>6, <2>7 DEF Continues
<1>3. CASE cas[n] = NoCA
  <2>1. Done(TRUE) /\ UNCHANGED <<cas, events, faults>> /\ faults \in 0..MaxFaults
    BY <1>3 DEF DeleteCA, RolloutInv, RolloutTypes
  <2> QED
    BY <1>1, <2>1, RefusedKeeps
<1> QED
  BY <1>2, <1>3

\* A status is written with the counts of the job, or with none.
LEMMA StatusTyped ==
    ASSUME RolloutInv, NEW a, a = NewStatus
    PROVE  /\ a \in Rollouts /\ a.inc = ar.inc /\ a.alive = ar.alive /\ a.spec = ar.spec
           /\ a.gen = ar.gen /\ OneList(a.count)
<1>1. /\ ar \in Rollouts /\ ar.gen \in 0..(MaxEdits + 1) /\ job.count \in Counts /\ OneList(job.count)
  BY Numbers DEF RolloutInv, RolloutTypes, JobType, Counted
<1>2. \A b \in BOOLEAN : Condition(b) \in {"", "True", "False"}
  BY DEF Condition
<1>3. CASE pc = "error"
  BY <1>1, <1>3, NothingTyped DEF NewStatus, errorStatus, Rollouts
<1>4. CASE pc # "error"
  <2>1. Condition(job.count.settled = job.count.want) \in {"", "True", "False"}
    BY <1>2
  <2>2. Condition(job.count.ready = job.count.want) \in {"", "True", "False"}
    BY <1>2
  <2>3. a = setStatus(ar, job.count)
    BY <1>4 DEF NewStatus
  <2> QED
    BY <1>1, <2>1, <2>2, <2>3 DEF setStatus, Rollouts
<1> QED
  BY <1>3, <1>4

LEMMA WriteStatusKeeps ==
    ASSUME RolloutInv, WriteStatus
    PROVE  RolloutInv'
<1>1. UNCHANGED <<app, robots, tenant, cas, events, timers, edits>> /\ faults \in 0..MaxFaults
  BY DEF WriteStatus, RolloutInv, RolloutTypes
<1>2. CASE job.current
  <2>1. ar' = NewStatus /\ cache' = [cache EXCEPT !.current = @ /\ ar' = ar]
    BY <1>2 DEF WriteStatus
  <2>2. /\ ar' \in Rollouts /\ ar'.inc = ar.inc /\ ar'.alive = ar.alive /\ ar'.spec = ar.spec
        /\ ar'.gen = ar.gen /\ OneList(ar'.count)
    BY <2>1, StatusTyped
  <2>3. cache' \in CacheType /\ cache'.ar = cache.ar /\ cache'.cas = cache.cas
    BY <2>1 DEF RolloutInv, RolloutTypes, CacheType
  <2>4. /\ job' = NoJob /\ pc' = "idle" /\ queued' \in BOOLEAN /\ faults' \in 0..MaxFaults
    <3>1. CASE Done(FALSE) /\ UNCHANGED faults
      BY <1>1, <3>1 DEF Done, RolloutInv, RolloutTypes
    <3>2. CASE Fault /\ Done(TRUE)
      BY <3>2, FaultCounted DEF Done, RolloutInv, RolloutTypes
    <3> QED
      BY <1>2, <3>1, <3>2 DEF WriteStatus
  <2>5. RolloutTypes'
    BY <1>1, <2>2, <2>3, <2>4, NothingTyped DEF RolloutInv, RolloutTypes
  <2>6. Counted'
    BY <1>1, <2>2, <2>4, NothingTyped, EmptyJob DEF RolloutInv, Counted
  <2>7. Alive'
    BY <2>2, <2>3, <2>4, EmptyJob, Numbers DEF RolloutInv, Alive
  <2>8. Planned' /\ OwnCopies' /\ OwnDrops'
    BY <2>4, EmptyJob DEF Planned, OwnCopies, OwnDrops
  <2>9. Latest <= Latest' /\ Latest' \in Nat
    BY <2>3, <2>4, Numbers DEF RolloutInv, Latest, Alive
  <2>10. Owners' /\ Lineage'
    BY <1>1, <2>3, <2>9, Numbers DEF RolloutInv, Owners, Lineage
  <2> QED
    BY <2>5, <2>6, <2>7, <2>8, <2>10 DEF RolloutInv
<1>3. CASE ~job.current
  <2>1. Done(TRUE) /\ UNCHANGED <<ar, cache, faults>>
    BY <1>3 DEF WriteStatus
  <2> QED
    BY <1>1, <2>1, RefusedKeeps
<1> QED
  BY <1>2, <1>3

LEMMA CallFailsKeeps ==
    ASSUME RolloutInv, CallFails
    PROVE  RolloutInv'
<1>1. faults' \in 0..MaxFaults
  BY FaultCounted DEF CallFails, RolloutInv
<1> QED
  BY <1>1, RefusedKeeps DEF CallFails, apiVars

LEMMA ControllerRestartKeeps ==
    ASSUME RolloutInv, ControllerRestart
    PROVE  RolloutInv'
<1> USE DEF RolloutInv, ControllerRestart, apiVars
<1>1. View(ar) \in Views /\ View(ar).inc = ar.inc /\ View(ar).alive = ar.alive /\ View(ar).spec = ar.spec
  BY DEF View, Views, RolloutTypes, Rollouts
<1>2. cache' \in CacheType /\ cache'.ar = View(ar) /\ cache'.cas = cas
  BY <1>1 DEF RolloutTypes, CacheType
<1>3. faults' \in 0..MaxFaults /\ ar.alive \in BOOLEAN
  BY FaultCounted DEF RolloutTypes, Rollouts
<1>4. RolloutTypes'
  BY <1>2, <1>3, NothingTyped DEF RolloutTypes
<1>5. Counted'
  BY NothingTyped, EmptyJob DEF Counted
<1>6. Alive'
  BY <1>1, <1>2, EmptyJob, Numbers DEF Alive
<1>7. Planned' /\ OwnCopies' /\ OwnDrops'
  BY EmptyJob DEF Planned, OwnCopies, OwnDrops
<1>8. Latest <= Latest' /\ Latest' \in Nat
  BY <1>1, <1>2, Numbers DEF Latest, Alive
<1>9. Owners' /\ Lineage'
  BY <1>2, <1>8, Numbers DEF Owners, Lineage
<1> QED
  BY <1>4, <1>5, <1>6, <1>7, <1>9

-----------------------------------------------------------------------------

LEMMA NextKeeps == RolloutInv /\ [Next]_vars => RolloutInv'
<1> SUFFICES ASSUME RolloutInv, [Next]_vars
             PROVE  RolloutInv'
  OBVIOUS
<1>1. CASE CreateRollout \/ EditRollout \/ DeleteRollout
  BY <1>1, CreateRolloutKeeps, EditRolloutKeeps, DeleteRolloutKeeps
<1>2. CASE ChangeApp \/ ChangeRobot \/ ChangeTenant
  BY <1>2, SurroundingsKeep
<1>3. CASE \E n \in Names : DeleteAssignment(n) \/ GarbageCollect(n) \/ Report(n) \/ Finalize(n)
  BY <1>3, OtherControllersKeep
<1>4. CASE WatchRollout \/ WatchApp \/ WatchRobots \/ TimerFires \/ WatchAssignments
  BY <1>4, WatchRolloutKeeps, WatchesKeep
<1>5. CASE Reconcile
  BY <1>5, ReconcileKeeps
<1>6. CASE \E n \in Names : CreateCA(n) \/ UpdateCA(n) \/ DeleteCA(n)
  BY <1>6, CreateCAKeeps, UpdateCAKeeps, DeleteCAKeeps
<1>7. CASE WriteStatus \/ CallFails \/ ControllerRestart
  BY <1>7, WriteStatusKeeps, CallFailsKeeps, ControllerRestartKeeps
<1>8. CASE UNCHANGED vars
  BY <1>8 DEF vars, apiVars, loopVars, RolloutInv, RolloutTypes, Counted, Alive, Planned, Todo, Owners,
        Latest, Lineage, OwnCopies, OwnDrops
<1> QED
  BY <1>1, <1>2, <1>3, <1>4, <1>5, <1>6, <1>7, <1>8 DEF Next

\* The inductive invariant of the app-rollout-controller: types, the order of the
\* lives of a rollout, and what a reconcile may find under the names it works on.
THEOREM RolloutInvariant == Spec => []RolloutInv
BY InitHolds, NextKeeps, PTL DEF Spec

\* Every state is well typed, and the counts that reconcile puts into the status are
\* counts of one list of assignments.
THEOREM RolloutTypeCorrect == Spec => []RolloutTypeOK
<1>1. ASSUME RolloutInv
      PROVE  RolloutTypeOK
  <2> USE <1>1 DEF RolloutInv
  <2>1. cache.app \in AppType /\ cache.robots \in RobotStates /\ cache.cas \in [Names -> Assignments]
    BY DEF RolloutTypes, CacheType
  <2>2. job.count \in Counts /\ job.inc \in 0..MaxInc /\ job.fresh \in SUBSET Names
    BY DEF RolloutTypes, JobType
  <2>3. ar.count.settled + ar.count.failed <= Cardinality(Names) /\ ar.count.ready <= ar.count.settled
    BY DEF Counted, OneList
  <2>4. /\ ar \in Rollouts /\ app \in Apps \union {NoApp} /\ cache.app \in Apps \union {NoApp}
        /\ {robots, cache.robots} \subseteq [Robots -> {"absent", "off", "on"}]
        /\ tenant \in 0..MaxTenant /\ events \subseteq Names /\ queued \in BOOLEAN /\ timers \in BOOLEAN
        /\ pc \in {"idle", "write", "error"} /\ edits \in 0..MaxEdits /\ faults \in 0..MaxFaults
    BY <2>1 DEF RolloutTypes, AppType, RobotStates
  <2>5. \A n \in Names : {cas[n], cache.cas[n]} \subseteq Assignments
    BY <2>1 DEF RolloutTypes
  <2> QED
    BY <2>2, <2>3, <2>4, <2>5 DEF Planned, RolloutTypeOK
<1> QED
  BY <1>1, RolloutInvariant, PTL

\* reconcile changes and deletes only assignments of the life of the rollout that it
\* has read, although a delete request names its object and nothing else.
THEOREM OnlyItsOwnLife == Spec => OwnLifeOnly
<1>1. ASSUME RolloutInv, NEW n \in Names, UpdateCA(n) \/ DeleteCA(n)
      PROVE  cas'[n] = cas[n] \/ cas[n].owner = job.inc
  <2>1. CASE UpdateCA(n)
    <3>1. CASE n \in job.fresh
      BY <1>1, <2>1, <3>1 DEF UpdateCA, RolloutInv, OwnCopies
    <3>2. CASE n \notin job.fresh
      BY <2>1, <3>2 DEF UpdateCA
    <3> QED
      BY <3>1, <3>2
  <2>2. CASE DeleteCA(n)
    <3>1. CASE cas[n] = NoCA
      BY <2>2, <3>1 DEF DeleteCA
    <3>2. CASE cas[n] # NoCA
      BY <1>1, <2>2, <3>2 DEF DeleteCA, RolloutInv, OwnDrops
    <3> QED
      BY <3>1, <3>2
  <2> QED
    BY <1>1, <2>1, <2>2
<1>2. RolloutInv => [\A n \in Names : UpdateCA(n) \/ DeleteCA(n) => cas'[n] = cas[n] \/ cas[n].owner = job.inc]_vars
  BY <1>1
<1> QED
  BY <1>2, RolloutInvariant, PTL DEF OwnLifeOnly
=============================================================================
