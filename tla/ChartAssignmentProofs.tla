------------------------ MODULE ChartAssignmentProofs ------------------------
(***************************************************************************)
(* Proofs about the ChartAssignment controller, for any number of          *)
(* creations, generations and faults, with or without the pull secret.     *)
(*                                                                         *)
(* DeletedMeansGone is not inductive: synk.Apply can fail for now, which   *)
(* leaves the phase as it is and a ResourceSet behind.  That the phase is  *)
(* not Deleted at that moment is because of where the actor is.            *)
(***************************************************************************)
EXTENDS ChartAssignment, TLAPS

\* A release that is not in the map has no goroutine.
NoneWithout == ~rel.exists => actor.step = "none"

\* Inside an update the phase says so, and a recorded failure of synk.Delete is
\* one that happened.
PhaseOfStep ==
    /\ actor.step = "loading" => rel.phase = "LoadingChart"
    /\ actor.step = "applying" => rel.phase = "Updating"
    /\ actor.step = "failed" => delFailed

ActorInv == NoneWithout /\ PhaseOfStep /\ DeletedMeansGone

-----------------------------------------------------------------------------
(* Records stay in their types.                                            *)

LEMMA Constants ==
    /\ Absent \in AssignmentType
    /\ View(Absent) \in ViewType
    /\ NoRelease \in ReleaseType
    /\ NewRelease \in ReleaseType
    /\ NoSet \in SetType
    /\ \A s \in {"none", "starting", "idle"} : ActorAt(s) \in ActorType
BY AssignmentConstants DEF Absent, View, NoRelease, NewRelease, NoSet, ActorAt,
   AssignmentType, ViewType, ReleaseType, SetType, ActorType, Phases, Steps

LEMMA NewAssignment ==
    ASSUME NEW i \in 0..MaxInc
    PROVE  [Absent EXCEPT !.st = "alive", !.inc = i, !.gen = 1] \in AssignmentType
<1>1. \A c \in AssignmentType, g \in 0..MaxGen :
         [c EXCEPT !.st = "alive", !.inc = i, !.gen = g] \in AssignmentType
  BY DEF AssignmentType
<1>2. 1 \in 0..MaxGen /\ Absent \in AssignmentType
  BY Constants, AssignmentConstants
<1> QED
  BY <1>1, <1>2

\* What a user's or the controller's write makes of the assignment.
LEMMA AssignmentRecords ==
    ASSUME NEW c \in AssignmentType
    PROVE  /\ View(c) \in ViewType
           /\ c.inc \in 0..MaxInc /\ c.gen \in 0..MaxGen
           /\ \A g \in 0..MaxGen : [c EXCEPT !.gen = g] \in AssignmentType
           /\ \A st \in {"absent", "alive", "deleting"} : [c EXCEPT !.st = st] \in AssignmentType
           /\ [c EXCEPT !.st = "absent", !.fin = FALSE] \in AssignmentType
           /\ [c EXCEPT !.fin = TRUE] \in AssignmentType
           /\ \A p \in Phases, o \in 0..MaxGen :
                 [c EXCEPT !.phase = p, !.obs = o] \in AssignmentType
BY DEF View, AssignmentType, ViewType

LEMMA ReleaseRecords ==
    ASSUME NEW r \in ReleaseType
    PROVE  /\ r.phase \in Phases
           /\ \A g \in 0..MaxGen : [r EXCEPT !.gen = g] \in ReleaseType
           /\ \A p \in Phases, b \in BOOLEAN :
                 [r EXCEPT !.phase = p, !.retry = b] \in ReleaseType
BY DEF ReleaseType

LEMMA ActorRecords ==
    ASSUME NEW a \in ActorType
    PROVE  /\ \A s \in Steps : [a EXCEPT !.step = s] \in ActorType
           /\ \A s \in Steps, v \in ViewType :
                 [step |-> s, inc |-> v.inc, gen |-> v.gen] \in ActorType
           /\ \A b \in BOOLEAN : [inc |-> a.inc, gen |-> a.gen, ok |-> b] \in SetType
BY DEF ActorType, ViewType, SetType

LEMMA ViewRecords ==
    ASSUME NEW v \in ViewType
    PROVE  v.gen \in 0..MaxGen /\ [v EXCEPT !.fin = TRUE] \in ViewType
BY DEF ViewType
-----------------------------------------------------------------------------
(* The helpers that most actions are made of keep the types.               *)

LEMMA FaultTyped == ASSUME AssignmentTypeOK, Fault PROVE faults' \in 0..MaxFaults
BY AssignmentConstants DEF AssignmentTypeOK, Fault

LoopTyped ==
    /\ queued \in BOOLEAN
    /\ pc \in Places
    /\ as \in ViewType
    /\ asFresh \in BOOLEAN
    /\ seen \in Phases

LEMMA DoneTyped ==
    ASSUME AssignmentTypeOK, NEW requeue \in BOOLEAN, Done(requeue)
    PROVE  LoopTyped'
<1>1. queued' \in BOOLEAN
  BY DEF AssignmentTypeOK, Done
<1> QED
  BY <1>1, Constants DEF Done, LoopTyped, Places, Phases

LEMMA GotoTyped ==
    ASSUME AssignmentTypeOK, NEW next \in Places, Goto(next)
    PROVE  LoopTyped'
BY DEF AssignmentTypeOK, Goto, LoopTyped

LEMMA WriteTyped ==
    ASSUME AssignmentTypeOK, NEW new \in AssignmentType, Write(new)
    PROVE  ca' \in AssignmentType /\ cacheFresh' \in BOOLEAN
BY DEF AssignmentTypeOK, Write

LEMMA AddReleaseTyped ==
    ASSUME AssignmentTypeOK, AddRelease
    PROVE  rel' \in ReleaseType /\ actor' \in ActorType
BY Constants DEF AssignmentTypeOK, AddRelease

LEMMA SetPhaseTyped ==
    ASSUME AssignmentTypeOK, NEW p \in Phases, SetPhase(p)
    PROVE  rel' \in ReleaseType
BY ReleaseRecords DEF AssignmentTypeOK, SetPhase

LEMMA SetFailedTyped ==
    ASSUME AssignmentTypeOK, NEW retry \in BOOLEAN, SetFailed(retry)
    PROVE  rel' \in ReleaseType
BY ReleaseRecords DEF AssignmentTypeOK, SetFailed, Phases

-----------------------------------------------------------------------------
(* The theorems.                                                           *)

\* The assignment, the reconciler and the release keep their types, whatever
\* fails, restarts or is created again.
THEOREM AssignmentTyped == Spec => []AssignmentTypeOK
<1>1. Init => AssignmentTypeOK
  <2>1. 0 \in 0..MaxFaults
    BY AssignmentConstants
  <2> QED
    BY <2>1, Constants DEF Init, AssignmentTypeOK, Phases, Places
<1>2. AssignmentTypeOK /\ [Next]_vars => AssignmentTypeOK'
  <2> SUFFICES ASSUME AssignmentTypeOK, [Next]_vars PROVE AssignmentTypeOK'
    OBVIOUS
  <2> USE DEF apiVars, loopVars, relVars
  <2>1. CASE Create
    <3>1. ca.inc \in 0..MaxInc
      BY <2>1, AssignmentRecords DEF AssignmentTypeOK
    <3>2. ca.inc + 1 \in 0..MaxInc
      BY <2>1, <3>1, AssignmentConstants DEF Create
    <3>3. ca' \in AssignmentType
      BY <2>1, <3>2, NewAssignment DEF Create, UserWrites
    <3> QED
      BY <2>1, <3>1, <3>2, <3>3 DEF Create, UserWrites, AssignmentTypeOK
  <2>2. CASE Edit
    <3>1. ca.gen \in 0..MaxGen
      BY <2>2, AssignmentRecords DEF AssignmentTypeOK
    <3>2. ca.gen + 1 \in 0..MaxGen
      BY <2>2, <3>1, AssignmentConstants DEF Edit
    <3>3. ca' \in AssignmentType
      BY <2>2, <3>2, AssignmentRecords DEF Edit, UserWrites, AssignmentTypeOK
    <3> QED
      BY <2>2, <3>1, <3>2, <3>3 DEF Edit, UserWrites, AssignmentTypeOK
  <2>3. CASE Remove
    <3>1. ca' \in AssignmentType
      BY <2>3, AssignmentRecords DEF Remove, UserWrites, AssignmentTypeOK
    <3> QED
      BY <2>3, <3>1 DEF Remove, UserWrites, AssignmentTypeOK
  <2>4. CASE CacheUpdate
    <3>1. cache' \in ViewType
      BY <2>4, AssignmentRecords DEF CacheUpdate, AssignmentTypeOK
    <3> QED
      BY <2>4, <3>1 DEF CacheUpdate, AssignmentTypeOK
  <2>5. CASE ServiceAccountCreated
    BY <2>5 DEF ServiceAccountCreated, AssignmentTypeOK
  <2>6. CASE NamespaceGone
    BY <2>6 DEF NamespaceGone, AssignmentTypeOK
  <2>7. CASE Reconcile
    <3>1. pc' \in Places /\ as' \in ViewType /\ asFresh' \in BOOLEAN
      BY <2>7 DEF Reconcile, AssignmentTypeOK, Places
    <3> QED
      BY <2>7, <3>1 DEF Reconcile, AssignmentTypeOK
  <2>8. CASE CallFails
    <3>1. LoopTyped'
      BY <2>8, DoneTyped DEF CallFails
    <3>2. faults' \in 0..MaxFaults
      BY <2>8, FaultTyped DEF CallFails
    <3> QED
      BY <2>8, <3>1, <3>2 DEF CallFails, AssignmentTypeOK, LoopTyped
  <2>9. CASE EnsureNamespace
    <3>1. LoopTyped'
      BY <2>9, DoneTyped, GotoTyped DEF EnsureNamespace, Places
    <3> QED
      BY <2>9, <3>1 DEF EnsureNamespace, AssignmentTypeOK, LoopTyped
  <2>10. CASE AddFinalizer
    <3>1. as' \in ViewType
      BY <2>10, ViewRecords DEF AddFinalizer, AssignmentTypeOK
    <3>2. ca' \in AssignmentType /\ cacheFresh' \in BOOLEAN
      BY <2>10, WriteTyped, AssignmentRecords DEF AddFinalizer, AssignmentTypeOK
    <3>3. pc' \in Places
      BY <2>10 DEF AddFinalizer, Places
    <3> QED
      BY <2>10, <3>1, <3>2, <3>3 DEF AddFinalizer, AssignmentTypeOK
  <2>11. CASE CheckGeneration
    <3>1. LoopTyped'
      BY <2>11, GotoTyped DEF CheckGeneration, Places
    <3>2. rel' \in ReleaseType /\ actor' \in ActorType
      BY <2>11, AddReleaseTyped DEF CheckGeneration
    <3> QED
      BY <2>11, <3>1, <3>2 DEF CheckGeneration, AssignmentTypeOK, LoopTyped
  <2>12. CASE StartUpdate
    <3>1. LoopTyped'
      BY <2>12, GotoTyped DEF StartUpdate, Places
    <3>2. actor' \in ActorType
      BY <2>12, ActorRecords DEF StartUpdate, AssignmentTypeOK, Steps
    <3> QED
      BY <2>12, <3>1, <3>2 DEF StartUpdate, AssignmentTypeOK, LoopTyped
  <2>13. CASE RecordGeneration
    <3>1. LoopTyped'
      BY <2>13, GotoTyped DEF RecordGeneration, Places
    <3>2. rel' \in ReleaseType
      BY <2>13, ReleaseRecords, ViewRecords DEF RecordGeneration, AssignmentTypeOK
    <3> QED
      BY <2>13, <3>1, <3>2 DEF RecordGeneration, AssignmentTypeOK, LoopTyped
  <2>14. CASE ReadStatus
    <3>1. LoopTyped'
      BY <2>14, DoneTyped, ReleaseRecords DEF ReadStatus, LoopTyped, Places, AssignmentTypeOK
    <3> QED
      BY <2>14, <3>1 DEF ReadStatus, AssignmentTypeOK, LoopTyped
  <2>15. ASSUME NEW allRunning \in BOOLEAN, WriteStatus(allRunning) PROVE AssignmentTypeOK'
    <3>1. LoopTyped'
      BY <2>15, DoneTyped DEF WriteStatus
    <3>2. (IF allRunning THEN "Ready" ELSE seen) \in Phases /\ as.gen \in 0..MaxGen
      BY <2>15, ViewRecords DEF AssignmentTypeOK, Phases
    <3>3. ca' \in AssignmentType /\ cacheFresh' \in BOOLEAN
      BY <2>15, <3>2, WriteTyped, AssignmentRecords DEF WriteStatus, AssignmentTypeOK
    <3> QED
      BY <2>15, <3>1, <3>2, <3>3 DEF WriteStatus, AssignmentTypeOK, LoopTyped
  <2>16. CASE WriteConflict
    <3>1. LoopTyped'
      BY <2>16, DoneTyped DEF WriteConflict
    <3> QED
      BY <2>16, <3>1 DEF WriteConflict, AssignmentTypeOK, LoopTyped
  <2>17. CASE StartDelete
    <3>1. LoopTyped'
      BY <2>17, GotoTyped DEF StartDelete, Places
    <3>2. rel' \in ReleaseType /\ actor' \in ActorType
      BY <2>17, AddReleaseTyped, ActorRecords DEF StartDelete, AssignmentTypeOK, Steps
    <3> QED
      BY <2>17, <3>1, <3>2 DEF StartDelete, AssignmentTypeOK, LoopTyped
  <2>18. CASE CheckDeleted
    <3>1. LoopTyped'
      BY <2>18, GotoTyped DEF CheckDeleted, Places
    <3> QED
      BY <2>18, <3>1 DEF CheckDeleted, AssignmentTypeOK, LoopTyped
  <2>19. CASE DeleteNamespace
    <3>1. LoopTyped'
      BY <2>19, GotoTyped DEF DeleteNamespace, Places
    <3> QED
      BY <2>19, <3>1 DEF DeleteNamespace, AssignmentTypeOK, LoopTyped
  <2>20. CASE RemoveFinalizer
    <3>1. ca' \in AssignmentType /\ cacheFresh' \in BOOLEAN
      BY <2>20, WriteTyped, AssignmentRecords DEF RemoveFinalizer, AssignmentTypeOK
    <3>2. pc' \in Places
      BY <2>20 DEF RemoveFinalizer, Places
    <3> QED
      BY <2>20, <3>1, <3>2 DEF RemoveFinalizer, AssignmentTypeOK
  <2>21. CASE ActorReceives
    <3>1. actor' \in ActorType
      BY <2>21, ActorRecords, Constants DEF ActorReceives, Idle, Steps, AssignmentTypeOK
    <3> QED
      BY <2>21, <3>1 DEF ActorReceives, ActorKeeps, AssignmentTypeOK
  <2>22. CASE UpdateBegins
    <3>1. actor' \in ActorType
      BY <2>22, ActorRecords, Constants DEF UpdateBegins, Idle, Steps, AssignmentTypeOK
    <3>2. rel' \in ReleaseType
      BY <2>22, SetPhaseTyped DEF UpdateBegins, Phases
    <3> QED
      BY <2>22, <3>1, <3>2 DEF UpdateBegins, ActorKeeps, AssignmentTypeOK
  <2>23. CASE ChartLoaded
    <3>1. actor' \in ActorType
      BY <2>23, ActorRecords, Constants DEF ChartLoaded, Idle, Steps, AssignmentTypeOK
    <3>2. rel' \in ReleaseType
      BY <2>23, SetPhaseTyped DEF ChartLoaded, Phases
    <3> QED
      BY <2>23, <3>1, <3>2 DEF ChartLoaded, ActorKeeps, AssignmentTypeOK
  <2>24. ASSUME NEW err \in LoadErrors, LoadFails(err) PROVE AssignmentTypeOK'
    <3>1. actor' \in ActorType
      BY <2>24, ActorRecords, Constants DEF LoadFails, Idle, Steps, AssignmentTypeOK
    <3>2. rel' \in ReleaseType
      BY <2>24, SetFailedTyped DEF LoadFails, Retried
    <3>3. faults' \in 0..MaxFaults
      BY <2>24, FaultTyped DEF LoadFails, AssignmentTypeOK
    <3> QED
      BY <2>24, <3>1, <3>2, <3>3 DEF LoadFails, ActorKeeps, AssignmentTypeOK
  <2>25. CASE Applied
    <3>1. actor' \in ActorType
      BY <2>25, ActorRecords, Constants DEF Applied, Idle, Steps, AssignmentTypeOK
    <3>2. rel' \in ReleaseType
      BY <2>25, SetPhaseTyped DEF Applied, Phases
    <3>3. rset' \in SetType
      BY <2>25, ActorRecords DEF Applied, AssignmentTypeOK
    <3> QED
      BY <2>25, <3>1, <3>2, <3>3 DEF Applied, ActorKeeps, AssignmentTypeOK
  <2>26. ASSUME NEW retry \in BOOLEAN, NEW begun \in BOOLEAN, ApplyFails(retry, begun) PROVE AssignmentTypeOK'
    <3>1. actor' \in ActorType
      BY <2>26, ActorRecords, Constants DEF ApplyFails, Idle, Steps, AssignmentTypeOK
    <3>2. rel' \in ReleaseType
      BY <2>26, SetFailedTyped DEF ApplyFails
    <3>3. faults' \in 0..MaxFaults
      BY <2>26, FaultTyped DEF ApplyFails, AssignmentTypeOK
    <3>4. rset' \in SetType
      BY <2>26, ActorRecords DEF ApplyFails, AssignmentTypeOK
    <3> QED
      BY <2>26, <3>1, <3>2, <3>3, <3>4 DEF ApplyFails, ActorKeeps, AssignmentTypeOK
  <2>27. CASE DeleteBegins
    <3>1. actor' \in ActorType
      BY <2>27, ActorRecords, Constants DEF DeleteBegins, Idle, Steps, AssignmentTypeOK
    <3>2. rel' \in ReleaseType
      BY <2>27, SetPhaseTyped DEF DeleteBegins, Phases, AssignmentTypeOK
    <3> QED
      BY <2>27, <3>1, <3>2 DEF DeleteBegins, ActorKeeps, AssignmentTypeOK
  <2>28. CASE SetDeleted
    <3>1. actor' \in ActorType
      BY <2>28, ActorRecords, Constants DEF SetDeleted, Idle, Steps, AssignmentTypeOK
    <3>2. rel' \in ReleaseType
      BY <2>28, SetPhaseTyped DEF SetDeleted, Phases
    <3> QED
      BY <2>28, <3>1, <3>2, Constants DEF SetDeleted, ActorKeeps, AssignmentTypeOK
  <2>29. ASSUME NEW retry \in BOOLEAN, DeleteFails(retry) PROVE AssignmentTypeOK'
    <3>1. actor' \in ActorType
      BY <2>29, ActorRecords, Constants DEF DeleteFails, Idle, Steps, AssignmentTypeOK
    <3>2. rel' \in ReleaseType
      BY <2>29, SetFailedTyped DEF DeleteFails
    <3>3. faults' \in 0..MaxFaults
      BY <2>29, FaultTyped DEF DeleteFails
    <3> QED
      BY <2>29, <3>1, <3>2, <3>3 DEF DeleteFails, ActorKeeps, AssignmentTypeOK
  <2>30. CASE SetDeletedAnyway
    <3>1. actor' \in ActorType
      BY <2>30, ActorRecords, Constants DEF SetDeletedAnyway, Idle, Steps, AssignmentTypeOK
    <3>2. rel' \in ReleaseType
      BY <2>30, SetPhaseTyped DEF SetDeletedAnyway, Phases
    <3> QED
      BY <2>30, <3>1, <3>2 DEF SetDeletedAnyway, ActorKeeps, AssignmentTypeOK
  <2>31. CASE ResetGeneration
    <3>1. actor' \in ActorType
      BY <2>31, ActorRecords, Constants DEF ResetGeneration, Idle, Steps, AssignmentTypeOK
    <3>2. 0 \in 0..MaxGen
      BY AssignmentConstants
    <3>3. rel' \in ReleaseType
      BY <2>31, <3>2, ReleaseRecords DEF ResetGeneration, AssignmentTypeOK
    <3> QED
      BY <2>31, <3>1, <3>2, <3>3 DEF ResetGeneration, ActorKeeps, AssignmentTypeOK
  <2>32. CASE ControllerRestart
    <3>1. LoopTyped'
      BY <2>32, Constants DEF ControllerRestart, LoopTyped, Places, Phases
    <3>2. cache' \in ViewType
      BY <2>32, AssignmentRecords DEF ControllerRestart, AssignmentTypeOK
    <3>3. faults' \in 0..MaxFaults
      BY <2>32, FaultTyped DEF ControllerRestart
    <3> QED
      BY <2>32, <3>1, <3>2, <3>3, Constants DEF ControllerRestart, AssignmentTypeOK, LoopTyped
  <2>33. CASE UNCHANGED vars
    BY <2>33 DEF vars, AssignmentTypeOK
  <2> QED
    BY <2>1, <2>2, <2>3, <2>4, <2>5, <2>6, <2>7, <2>8, <2>9, <2>10, <2>11, <2>12, <2>13,
       <2>14, <2>15, <2>16, <2>17, <2>18, <2>19, <2>20, <2>21, <2>22, <2>23, <2>24, <2>25,
       <2>26, <2>27, <2>28, <2>29, <2>30, <2>31, <2>32, <2>33 DEF Next, Loop, Actor
<1> QED
  BY <1>1, <1>2, PTL DEF Spec

\* When the release says Deleted, which is what the finalizer waits for, its
\* ResourceSet is gone, unless synk.Delete has failed: no update that was started
\* before, failed for now or was left over from an earlier creation is behind it.
THEOREM DeletedIsGone == Spec => []DeletedMeansGone
<1>1. Init => ActorInv
  <2>1. ActorAt("none").step = "none" /\ NoRelease.phase = ""
    BY DEF ActorAt, NoRelease
  <2> QED
    BY <2>1 DEF Init, ActorInv, NoneWithout, PhaseOfStep, DeletedMeansGone
<1>2. AssignmentTypeOK /\ ActorInv /\ [Next]_vars => ActorInv'
  <2> SUFFICES ASSUME AssignmentTypeOK, ActorInv, [Next]_vars PROVE ActorInv'
    OBVIOUS
  <2>1. rel \in ReleaseType /\ actor \in ActorType
    BY DEF AssignmentTypeOK
  <2> USE <2>1 DEF ActorInv, NoneWithout, PhaseOfStep, DeletedMeansGone
  \* Users, Kubernetes and most of the reconciler leave the release alone.
  <2>2. ASSUME UNCHANGED relVars PROVE ActorInv'
    BY <2>2 DEF relVars
  <2>3. CASE CheckGeneration
    BY <2>3 DEF CheckGeneration, AddRelease, NewRelease, ActorAt, ReleaseType
  <2>4. CASE StartUpdate
    <3>1. CASE actor.step = "idle"
      <4>1. actor'.step = "update" /\ rel' = rel /\ rel.exists
        BY <2>4, <3>1 DEF StartUpdate
      <4> QED
        BY <2>4, <4>1 DEF StartUpdate
    <3>2. CASE actor.step # "idle"
      BY <2>4, <3>2 DEF StartUpdate
    <3> QED
      BY <3>1, <3>2
  <2>5. CASE RecordGeneration
    BY <2>5 DEF RecordGeneration, ReleaseType
  <2>6. CASE StartDelete
    <3>1. CASE actor.step = "idle"
      <4>1. actor'.step = "delete" /\ rel' = rel /\ rel.exists
        BY <2>6, <3>1 DEF StartDelete
      <4> QED
        BY <2>6, <4>1 DEF StartDelete
    <3>2. CASE actor.step # "idle" /\ rel.exists
      BY <2>6, <3>2 DEF StartDelete, AddRelease
    <3>3. CASE actor.step # "idle" /\ ~rel.exists
      BY <2>6, <3>3 DEF StartDelete, AddRelease, NewRelease, ActorAt
    <3> QED
      BY <3>1, <3>2, <3>3
  <2>7. CASE ActorReceives
    BY <2>7 DEF ActorReceives, Idle, ActorAt, SetPhase, SetFailed, ReleaseType, ActorType
  <2>8. CASE UpdateBegins
    BY <2>8 DEF UpdateBegins, Idle, ActorAt, SetPhase, SetFailed, ReleaseType, ActorType
  <2>9. CASE ChartLoaded
    BY <2>9 DEF ChartLoaded, Idle, ActorAt, SetPhase, SetFailed, ReleaseType, ActorType
  <2>10. ASSUME NEW err \in LoadErrors, LoadFails(err) PROVE ActorInv'
    BY <2>10 DEF LoadFails, Idle, ActorAt, SetPhase, SetFailed, ReleaseType, ActorType
  <2>11. CASE Applied
    BY <2>11 DEF Applied, Idle, ActorAt, SetPhase, SetFailed, ReleaseType, ActorType
  <2>12. ASSUME NEW retry \in BOOLEAN, NEW begun \in BOOLEAN, ApplyFails(retry, begun) PROVE ActorInv'
    BY <2>12 DEF ApplyFails, Idle, ActorAt, SetPhase, SetFailed, ReleaseType, ActorType
  <2>13. CASE DeleteBegins
    <3>1. CASE rel.phase = "Deleted"
      <4>1. rel' = rel /\ actor'.step = "idle" /\ rel.exists /\ UNCHANGED <<rset, delFailed>>
        BY <2>13, <3>1 DEF DeleteBegins, Idle, ActorAt
      <4> QED
        BY <4>1
    <3>2. CASE rel.phase # "Deleted"
      BY <2>13, <3>2 DEF DeleteBegins, SetPhase, ReleaseType, ActorType
    <3> QED
      BY <3>1, <3>2
  <2>14. CASE SetDeleted
    BY <2>14 DEF SetDeleted, Idle, ActorAt, SetPhase, SetFailed, ReleaseType, ActorType
  <2>15. ASSUME NEW retry \in BOOLEAN, DeleteFails(retry) PROVE ActorInv'
    BY <2>15 DEF DeleteFails, Idle, ActorAt, SetPhase, SetFailed, ReleaseType, ActorType
  <2>16. CASE SetDeletedAnyway
    BY <2>16 DEF SetDeletedAnyway, Idle, ActorAt, SetPhase, SetFailed, ReleaseType, ActorType
  <2>17. CASE ResetGeneration
    BY <2>17 DEF ResetGeneration, Idle, ActorAt, SetPhase, SetFailed, ReleaseType, ActorType
  <2>18. CASE ControllerRestart
    BY <2>18 DEF ControllerRestart, NoRelease, ActorAt
  <2>19. CASE UNCHANGED vars
    BY <2>2, <2>19 DEF vars
  <2>20. ASSUME \/ Create \/ Edit \/ Remove \/ CacheUpdate \/ ServiceAccountCreated \/ NamespaceGone
                \/ Reconcile \/ CallFails \/ EnsureNamespace \/ AddFinalizer \/ ReadStatus
                \/ (\E b \in BOOLEAN : WriteStatus(b)) \/ WriteConflict
                \/ CheckDeleted \/ DeleteNamespace \/ RemoveFinalizer
         PROVE ActorInv'
    BY <2>2, <2>20 DEF Create, Edit, Remove, CacheUpdate, ServiceAccountCreated,
       NamespaceGone, Reconcile, CallFails, EnsureNamespace, AddFinalizer, ReadStatus,
       WriteStatus, WriteConflict, CheckDeleted, DeleteNamespace, RemoveFinalizer,
       UserWrites
  <2> QED
    BY <2>2, <2>3, <2>4, <2>5, <2>6, <2>7, <2>8, <2>9, <2>10, <2>11, <2>12, <2>13, <2>14,
       <2>15, <2>16, <2>17, <2>18, <2>19, <2>20 DEF Next, Loop, Actor
<1>3. ActorInv => DeletedMeansGone
  BY DEF ActorInv
<1> QED
  BY <1>1, <1>2, <1>3, AssignmentTyped, PTL DEF Spec
=============================================================================
