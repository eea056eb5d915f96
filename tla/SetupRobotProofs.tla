-------------------------- MODULE SetupRobotProofs --------------------------
(***************************************************************************)
(* Proofs about setup-robot, for any number of tokens, pull secrets, edits *)
(* and runs that are cut off, in every sort of cluster.                    *)
(*                                                                         *)
(* SetupInv is not inductive: it does not say where the run is.  What      *)
(* makes it true is that each step of main leaves something behind that    *)
(* no later step, nor anybody else, takes away.  Order says for each stage *)
(* of the run what is there by then.                                       *)
(***************************************************************************)
EXTENDS SetupRobot, TLAPS

\* The stages of a run, from the last one back.
Installing == {"chart", "rest"}
HasCRD == Installing \union {"crd"}
HasCert == HasCRD \union {"synk"}
HasPull == HasCert \union {"late", "patch", "certs"}
HasAuth == HasPull \union {"docker", "early", "default"}
HasRobot == HasAuth \union {"auth"}
HasToken == HasRobot \union {"config", "robot", "update"}
RightCluster == HasToken \union {"token", "poll"}
Places == RightCluster \union {"off", "network", "cluster", "namespace", "name"}

RobotType == [there : BOOLEAN, labels : SUBSET {"setup", "user"}, type : {"none", "flag", "user"}]
TokenType == [there : BOOLEAN, val : 0..MaxTokens]
PullType == [Apps \union {"default"} -> 0..MaxDocker]
ChartType == [st : {"no", "partly", "yes"}, config : {"absent", "incomplete", "nodomain", "domain"}]
JobType == [type : {"none", "flag", "user"}, token : 0..MaxTokens,
            config : {"absent", "incomplete", "nodomain", "domain"},
            robot : RobotType, fresh : BOOLEAN, docker : 0..MaxDocker, apps : SUBSET Apps,
            cert : 0..3, blind : BOOLEAN]

\* The types, those of the position and of what the run has read among them.
Types ==
    /\ kind \in Kinds
    /\ token \in TokenType
    /\ issued \in 0..MaxTokens /\ config \in 1..4 /\ docker \in 1..MaxDocker
    /\ robot \in RobotType
    /\ ns \in BOOLEAN /\ auth \in 0..MaxTokens /\ patched \in BOOLEAN
    /\ pull \in PullType
    /\ cert \in 0..3
    /\ crd \in {"absent", "created", "available"} /\ chart \in ChartType
    /\ pc \in Places /\ job \in JobType
    /\ missed \subseteq {"cluster", "patch"}
    /\ edits \in 0..MaxEdits /\ faults \in 0..MaxFaults

\* A token can be issued whenever there is none, and is in a secret that is there.
Issuing ==
    /\ token.val = 0 => issued < MaxTokens
    /\ token.val # 0 => token.there

\* What each stage of the run can rely on.
Order ==
    /\ pc \in {"namespace", "name"} => kind # "cloud" \/ "cluster" \in missed
    /\ pc \in RightCluster => ~Forbidden
    /\ pc \in HasToken => job.token # 0
    /\ pc \in HasRobot => robot.there
    /\ pc \in HasAuth => auth # 0
    /\ pc \in {"early", "default", "late"} => job.docker # 0
    /\ pc \in HasPull => kind = "public" \/ pull["default"] # 0
    /\ pc \in HasCRD => crd # "absent"
    /\ pc \in Installing => crd = "available"

\* Only the run that has created the pull secret patches the service account, and it
\* does so at once or is cut off.
Patching == pull["default"] # 0 => patched \/ "patch" \in missed \/ pc = "patch"

\* What the run has read of the Robot is what is there, and the certificate that it
\* is about to install is the one that is installed, if that has the right format
\* and could be read.
Reads ==
    /\ job.fresh => job.robot = robot
    /\ pc \in HasCert => \/ job.blind
                         \/ cert \in {1, 2} => job.cert = cert

IndInv == Types /\ Issuing /\ Order /\ Patching /\ Reads /\ Untouched /\ StartsComplete

-----------------------------------------------------------------------------
(* Who writes what.                                                        *)

LEMMA Writers ==
    ASSUME [Next]_vars
    PROVE  /\ UNCHANGED kind
           /\ FillToken \/ WithdrawToken \/ ensureTokenSecret \/ UNCHANGED <<token, issued>>
           /\ EditRobot \/ createOrUpdateRobot \/ UNCHANGED robot
           /\ storeInK8sSecret \/ UNCHANGED auth
           /\ \/ (\E a \in Apps : CopySecret(a)) \/ (\E a \in Apps : updateAppSecret(a))
              \/ updateDefaultSecret \/ UNCHANGED pull
           /\ patchServiceAccount \/ UNCHANGED patched
           /\ checkClusterFails \/ Cancel \/ UNCHANGED missed
           /\ ServeCRD \/ applyCRD \/ UNCHANGED crd
           /\ installSecret \/ UNCHANGED cert
           /\ installSecret \/ installChartOrDie \/ UNCHANGED chart
BY DEF Next, Run, Failure, checkClusterFails, ensureTenantMainNamespaceFails,
   ensureWebhookCertsFails, vars, cloudVars, localVars, CloudStep, FillToken, WithdrawToken,
   PublishConfig, RenewDocker, EditRobot, CopySecret, ServeCRD, Start, waitForCloud,
   checkCluster, ensureTenantMainNamespace, checkRobotName, ensureTokenSecret,
   waitForServiceAccountToken, getRobotSetupConfigmap, getRobot, createOrUpdateRobot,
   storeInK8sSecret, getDockerSecret, updateAppSecret, updateDefaultSecret,
   patchServiceAccount, ensureWebhookCerts, applyCRD, waitForCRD, installSecret,
   installChartOrDie, Cancel

LEMMA NoJobTyped == NoJob \in JobType /\ NoJob.robot \in RobotType /\ ~NoJob.fresh
BY SetupConstants DEF NoJob, NoRobot, JobType, RobotType, NoCert

LEMMA NewRobot ==
    ASSUME NEW r \in RobotType, NEW l \in {"setup", "user"}, NEW t \in {"none", "flag", "user"}
    PROVE  /\ [there |-> TRUE, labels |-> r.labels \union {l}, type |-> t] \in RobotType
           /\ r.labels \subseteq r.labels \union {l}
BY DEF RobotType

\* What a run notes of what it reads, and leaves as it is.
LEMMA JobFields ==
    ASSUME NEW j \in JobType
    PROVE  j.robot \in RobotType /\ j.type \in {"none", "flag", "user"}
BY DEF JobType

LEMMA JobDone ==
    ASSUME NEW j \in JobType, NEW r \in RobotType, NEW k,
           k = [j EXCEPT !.type = "none", !.robot = r, !.fresh = FALSE]
    PROVE  k \in JobType /\ ~k.fresh /\ k.robot = r /\ k.token = j.token
BY DEF JobType

LEMMA JobFlag ==
    ASSUME NEW j \in JobType, NEW t \in {"none", "flag", "user"}, NEW k, k = [j EXCEPT !.type = t]
    PROVE  k \in JobType /\ k.fresh = j.fresh /\ k.robot = j.robot
BY DEF JobType

LEMMA JobDocker ==
    ASSUME NEW j \in JobType, NEW d \in 0..MaxDocker, NEW as \in SUBSET Apps, NEW k,
           k = [j EXCEPT !.docker = d, !.apps = as]
    PROVE  k \in JobType /\ k.token = j.token /\ k.docker = d /\ k.fresh = j.fresh
           /\ k.robot = j.robot
BY DEF JobType

LEMMA JobCert ==
    ASSUME NEW j \in JobType, NEW c \in 0..3, NEW k, k = [j EXCEPT !.cert = c, !.blind = TRUE]
    PROVE  k \in JobType /\ k.token = j.token /\ k.blind
BY DEF JobType

-----------------------------------------------------------------------------
(* Every step keeps the invariant.                                         *)

LEMMA TypesKept == ASSUME IndInv, [Next]_vars PROVE Types'
<1> USE DEF IndInv, Types
<1> USE DEF Places, RightCluster, HasToken, HasRobot, HasAuth, HasPull, HasCert, HasCRD, Installing
<1>1. ASSUME FillToken PROVE Types'
  BY <1>1, SetupConstants DEF FillToken, CloudStep, localVars, Issuing, TokenType
<1>2. ASSUME WithdrawToken PROVE Types'
  BY <1>2, SetupConstants DEF WithdrawToken, CloudStep, localVars, TokenType
<1>3. ASSUME PublishConfig PROVE Types'
  BY <1>3, SetupConstants DEF PublishConfig, CloudStep, localVars
<1>4. ASSUME RenewDocker PROVE Types'
  BY <1>4, SetupConstants DEF RenewDocker, CloudStep, localVars
<1>5. ASSUME EditRobot PROVE Types'
  <2>1. robot' \in RobotType
    BY <1>5, NewRobot DEF EditRobot
  <2>2. job' \in JobType
    BY <1>5 DEF EditRobot, JobType
  <2> QED
    BY <1>5, <2>1, <2>2, SetupConstants DEF EditRobot, CloudStep, localVars
<1>6. ASSUME NEW a \in Apps, CopySecret(a) PROVE Types'
  BY <1>6 DEF CopySecret, cloudVars, PullType
<1>7. ASSUME ServeCRD PROVE Types'
  BY <1>7 DEF ServeCRD, cloudVars
<1>8. ASSUME Start PROVE Types'
  <2>1. PICK t \in {"none", "flag", "user"} : job' = [job EXCEPT !.type = t]
    BY <1>8 DEF Start
  <2>2. job' \in JobType
    BY <2>1, JobFlag
  <2> QED
    BY <1>8, <2>2 DEF Start, cloudVars, localVars
<1>9. ASSUME waitForCloud PROVE Types'
  BY <1>9 DEF waitForCloud, Goto, cloudVars, localVars
<1>10. ASSUME checkCluster PROVE Types'
  BY <1>10, NoJobTyped DEF checkCluster, Fatal, Goto, cloudVars, localVars
<1>11. ASSUME ensureTenantMainNamespace PROVE Types'
  BY <1>11 DEF ensureTenantMainNamespace, Goto, cloudVars
<1>12. ASSUME checkRobotName PROVE Types'
  BY <1>12, NoJobTyped DEF checkRobotName, Fatal, Goto, cloudVars, localVars
<1>13. ASSUME ensureTokenSecret PROVE Types'
  <2>1. token' \in TokenType
    BY <1>13 DEF ensureTokenSecret, TokenType
  <2> QED
    BY <1>13, <2>1 DEF ensureTokenSecret, Goto, localVars
<1>14. ASSUME waitForServiceAccountToken PROVE Types'
  BY <1>14, NoJobTyped DEF waitForServiceAccountToken, Fatal, cloudVars, localVars,
     TokenType, JobType
<1>15. ASSUME getRobotSetupConfigmap PROVE Types'
  BY <1>15, NoJobTyped DEF getRobotSetupConfigmap, Configs, Complete, Fatal, cloudVars,
     localVars, JobType
<1>16. ASSUME getRobot PROVE Types'
  BY <1>16 DEF getRobot, cloudVars, localVars, JobType
<1>17. ASSUME createOrUpdateRobot PROVE Types'
  <2>1. CASE job.fresh
    <3>1. job \in JobType /\ job.robot \in RobotType /\ job.type \in {"none", "flag", "user"}
      BY JobFields
    <3>0. robot' = [there |-> TRUE, labels |-> job.robot.labels \union {"setup"}, type |-> job.type]
      BY <1>17, <2>1 DEF createOrUpdateRobot, Merged
    <3>2. robot' \in RobotType
      BY <3>0, <3>1, NewRobot
    <3>3. job' = [job EXCEPT !.type = "none", !.robot = NoJob.robot, !.fresh = FALSE] /\ pc' = "auth"
      BY <1>17, <2>1 DEF createOrUpdateRobot, RobotDone
    <3>4. job' \in JobType
      BY <3>1, <3>3, JobDone, NoJobTyped
    <3> QED
      BY <1>17, <3>2, <3>3, <3>4 DEF createOrUpdateRobot, localVars
  <2>2. CASE ~job.fresh
    BY <1>17, <2>2, NoJobTyped DEF createOrUpdateRobot, Fatal, localVars
  <2> QED
    BY <2>1, <2>2
<1>18. ASSUME storeInK8sSecret PROVE Types'
  BY <1>18 DEF storeInK8sSecret, UpdateSecret, AfterAuth, Goto, cloudVars, JobType
<1>19. ASSUME getDockerSecret PROVE Types'
  <2>1. PICK as \in SUBSET Apps : job' = [job EXCEPT !.docker = docker, !.apps = as]
    BY <1>19 DEF getDockerSecret
  <2>2. docker \in 0..MaxDocker
    BY SetupConstants
  <2>3. job' \in JobType
    BY <2>1, <2>2, JobDocker
  <2> QED
    BY <1>19, <2>3 DEF getDockerSecret, cloudVars, localVars
<1>20. ASSUME NEW a \in Apps, updateAppSecret(a) PROVE Types'
  <2>1. pull' \in PullType
    BY <1>20 DEF updateAppSecret, PullType, JobType
  <2> QED
    BY <1>20, <2>1 DEF updateAppSecret, Goto, cloudVars, Apps
<1>21. ASSUME updateDefaultSecret PROVE Types'
  BY <1>21 DEF updateDefaultSecret, Goto, cloudVars, PullType, JobType
<1>22. ASSUME patchServiceAccount PROVE Types'
  BY <1>22 DEF patchServiceAccount, Goto, cloudVars
<1>23. ASSUME ensureWebhookCerts PROVE Types'
  BY <1>23 DEF ensureWebhookCerts, ReuseCert, NewCert, NoCert, OldCert, cloudVars,
     localVars, JobType
<1>24. ASSUME applyCRD PROVE Types'
  BY <1>24 DEF applyCRD, Goto, cloudVars
<1>25. ASSUME waitForCRD PROVE Types'
  BY <1>25 DEF waitForCRD, crdAvailable, Goto, cloudVars, localVars
<1>26. ASSUME installSecret PROVE Types'
  BY <1>26 DEF installSecret, Goto, cloudVars, JobType, ChartType
<1>27. ASSUME installChartOrDie PROVE Types'
  BY <1>27, NoJobTyped DEF installChartOrDie, Fatal, cloudVars, JobType, ChartType
<1>28. ASSUME Cancel PROVE Types'
  BY <1>28, NoJobTyped, SetupConstants DEF Cancel, Fault, Fatal, cloudVars, localVars
<1>29. ASSUME UNCHANGED vars PROVE Types'
  BY <1>29 DEF vars, cloudVars, localVars
<1>30. ASSUME checkClusterFails PROVE Types'
  BY <1>30, SetupConstants DEF checkClusterFails, Fault, Goto, cloudVars, localVars
<1>31. ASSUME ensureTenantMainNamespaceFails PROVE Types'
  BY <1>31, SetupConstants DEF ensureTenantMainNamespaceFails, Fault, Goto, cloudVars, localVars
<1>32. ASSUME ensureWebhookCertsFails PROVE Types'
  <2>0. NewCert \in 0..3 /\ job' = [job EXCEPT !.cert = NewCert, !.blind = TRUE]
    BY <1>32 DEF ensureWebhookCertsFails, NewCert
  <2>1. job' \in JobType
    BY <2>0, JobCert
  <2> QED
    BY <1>32, <2>1, SetupConstants DEF ensureWebhookCertsFails, Fault, cloudVars, localVars
<1> QED
  BY <1>1, <1>2, <1>3, <1>4, <1>5, <1>6, <1>7, <1>8, <1>9, <1>10, <1>11, <1>12, <1>13,
     <1>14, <1>15, <1>16, <1>17, <1>18, <1>19, <1>20, <1>21, <1>22, <1>23, <1>24, <1>25,
     <1>26, <1>27, <1>28, <1>29, <1>30, <1>31, <1>32 DEF Next, Run, Failure

LEMMA IssuingKept == ASSUME IndInv, [Next]_vars PROVE Issuing'
<1> USE DEF IndInv, Types, TokenType, Issuing
<1>1. CASE FillToken
  BY <1>1, SetupConstants DEF FillToken
<1>2. CASE WithdrawToken
  BY <1>2, SetupConstants DEF WithdrawToken
<1>3. CASE ensureTokenSecret
  BY <1>3 DEF ensureTokenSecret
<1>4. CASE UNCHANGED <<token, issued>>
  BY <1>4
<1> QED
  BY <1>1, <1>2, <1>3, <1>4, Writers

\* The wrong cluster: no run gets to a step that writes.
LEMMA UntouchedKept == ASSUME IndInv, [Next]_vars PROVE Untouched'
<1> SUFFICES ASSUME Forbidden' PROVE Untouched'
  BY DEF Untouched
<1>1. Forbidden /\ pc \notin RightCluster
  BY Writers DEF IndInv, Order, Forbidden, checkClusterFails, Cancel
<1>2. /\ ~token.there /\ "setup" \notin robot.labels
      /\ auth = 0 /\ pull["default"] = 0 /\ ~patched /\ crd = "absent" /\ chart.st = "no"
  BY <1>1 DEF IndInv, Untouched
<1>3. UNCHANGED <<auth, patched, cert, chart>>
  BY <1>1, Writers DEF storeInK8sSecret, patchServiceAccount, installSecret, installChartOrDie,
     RightCluster, HasToken, HasRobot, HasAuth, HasPull, HasCert, HasCRD, Installing
<1>4. UNCHANGED pull
  BY <1>1, <1>2, Writers DEF CopySecret, updateAppSecret, updateDefaultSecret, Apps,
     RightCluster, HasToken, HasRobot, HasAuth, HasPull
<1>5. UNCHANGED crd
  BY <1>1, <1>2, Writers DEF ServeCRD, applyCRD,
     RightCluster, HasToken, HasRobot, HasAuth, HasPull, HasCert
<1>6. ~token'.there
  <2>1. ~ensureTokenSecret
    BY <1>1 DEF ensureTokenSecret, RightCluster
  <2> QED
    BY <1>2, <2>1, Writers DEF FillToken, WithdrawToken
<1>7. "setup" \notin robot'.labels
  <2>1. ~createOrUpdateRobot
    BY <1>1 DEF createOrUpdateRobot, RightCluster, HasToken
  <2> QED
    BY <1>2, <2>1, Writers DEF EditRobot
<1> QED
  BY <1>2, <1>3, <1>4, <1>5, <1>6, <1>7 DEF Untouched

\* What the workloads need is not taken away again by anybody.
LEMMA Lasting ==
    ASSUME IndInv, [Next]_vars
    PROVE  /\ robot.there => robot'.there
           /\ auth # 0 => auth' # 0
           /\ pull["default"] # 0 => pull'["default"] # 0
           /\ crd # "absent" => crd' # "absent"
           /\ crd = "available" => crd' = "available"
           /\ patched => patched'
           /\ missed \subseteq missed'
<1>1. robot.there => robot'.there
  BY Writers DEF EditRobot, createOrUpdateRobot, Merged
<1>2. auth # 0 => auth' # 0
  BY Writers DEF storeInK8sSecret, UpdateSecret, IndInv, Order, HasToken, HasRobot
<1>3. pull["default"] # 0 => pull'["default"] # 0
  BY Writers DEF CopySecret, updateAppSecret, updateDefaultSecret, Apps, IndInv, Order, Types, PullType
<1>4. (crd # "absent" => crd' # "absent") /\ (crd = "available" => crd' = "available")
  BY Writers DEF ServeCRD, applyCRD
<1>5. patched => patched'
  BY Writers DEF patchServiceAccount
<1>6. missed \subseteq missed'
  BY Writers DEF checkClusterFails, Cancel
<1> QED
  BY <1>1, <1>2, <1>3, <1>4, <1>5, <1>6

\* No step patches later what a run was cut off before, and no step but Cancel leaves
\* the patch out.
LEMMA PatchingKept == ASSUME IndInv, [Next]_vars PROVE Patching'
<1>1. CASE patchServiceAccount
  BY <1>1 DEF patchServiceAccount, Patching
<1>2. CASE pc = "patch" /\ Cancel
  BY <1>2 DEF Cancel, Patching
<1>3. CASE updateDefaultSecret
  BY <1>3, Lasting DEF updateDefaultSecret, Goto, Patching, IndInv
<1>4. CASE UNCHANGED pull /\ (pc = "patch" => pc' = "patch")
  BY <1>4, Lasting DEF Patching, IndInv
<1>5. ASSUME NEW a \in Apps, CopySecret(a) \/ updateAppSecret(a) PROVE Patching'
  <2>1. pc # "patch" \/ pc' = pc
    BY <1>5 DEF CopySecret, updateAppSecret, Apps
  <2>2. pull'["default"] = pull["default"]
    BY <1>5 DEF CopySecret, updateAppSecret, Apps, IndInv, Types, PullType
  <2> QED
    BY <2>1, <2>2, Lasting DEF Patching, IndInv
<1>6. pc = "patch" => patchServiceAccount \/ Cancel \/ pc' = "patch"
  BY DEF Next, Run, Failure, Fault, vars, CloudStep, FillToken, WithdrawToken, PublishConfig,
     RenewDocker, EditRobot, CopySecret, ServeCRD, Start, waitForCloud, checkCluster,
     checkClusterFails, ensureTenantMainNamespace, ensureTenantMainNamespaceFails,
     checkRobotName, ensureTokenSecret, waitForServiceAccountToken, getRobotSetupConfigmap,
     getRobot, createOrUpdateRobot, storeInK8sSecret, getDockerSecret, updateAppSecret, Apps,
     updateDefaultSecret, ensureWebhookCerts, ensureWebhookCertsFails, applyCRD, waitForCRD,
     installSecret, installChartOrDie
<1> QED
  BY <1>1, <1>2, <1>3, <1>4, <1>5, <1>6, Writers

LEMMA StartsCompleteKept == ASSUME IndInv, [Next]_vars PROVE StartsComplete'
<1>1. CASE UNCHANGED chart
  BY <1>1, Lasting, Writers DEF IndInv, StartsComplete, Private
<1>2. CASE installSecret \/ installChartOrDie
  <2>1. pc \in Installing
    BY <1>2 DEF installSecret, installChartOrDie, Installing
  <2>2. /\ crd = "available" /\ auth # 0 /\ robot.there
        /\ kind = "public" \/ pull["default"] # 0
    BY <2>1 DEF IndInv, Order, HasRobot, HasAuth, HasPull, HasCert, HasCRD
  <2>3. kind = "public" \/ patched \/ "patch" \in missed
    BY <2>1, <2>2 DEF IndInv, Patching, Installing
  <2> QED
    BY <2>2, <2>3, Lasting, Writers DEF StartsComplete, Private
<1> QED
  BY <1>1, <1>2, Writers

LEMMA OrderKept == ASSUME IndInv, [Next]_vars PROVE Order'
<1>1. CASE UNCHANGED <<pc, job>>
  BY <1>1, Lasting, Writers DEF IndInv, Order, Forbidden
<1>2. CASE EditRobot
  <2>1. UNCHANGED <<pc, auth, pull, crd>> /\ job'.token = job.token /\ job'.docker = job.docker
    BY <1>2 DEF EditRobot, CloudStep, localVars, IndInv, Types, JobType
  <2> QED
    BY <2>1, Lasting, Writers DEF IndInv, Order, Forbidden
<1>3. CASE pc' = "off"
  BY <1>3 DEF Order, RightCluster, HasToken, HasRobot, HasAuth, HasPull, HasCert, HasCRD, Installing
<1> USE DEF IndInv, Types, Order, JobType, RightCluster, HasToken, HasRobot, HasAuth, HasPull, HasCert,
      HasCRD, Installing, Forbidden
<1>4. CASE waitForCloud
  BY <1>4, Lasting, Writers DEF waitForCloud, Goto
<1>5. CASE checkCluster
  BY <1>5, <1>3, Lasting, Writers DEF checkCluster, Fatal, Goto
<1>6. CASE ensureTenantMainNamespace
  BY <1>6, Lasting, Writers DEF ensureTenantMainNamespace, Goto
<1>7. CASE checkRobotName
  BY <1>7, <1>3, Lasting, Writers DEF checkRobotName, Fatal, Goto
<1>8. CASE ensureTokenSecret
  BY <1>8, Lasting, Writers DEF ensureTokenSecret, Goto
<1>9. CASE waitForServiceAccountToken
  BY <1>9, <1>3, Lasting, Writers DEF waitForServiceAccountToken, Fatal
<1>10. CASE getRobotSetupConfigmap
  BY <1>10, <1>3, Lasting, Writers DEF getRobotSetupConfigmap, Fatal
<1>11. CASE getRobot
  BY <1>11, Lasting, Writers DEF getRobot
<1>12. CASE createOrUpdateRobot
  <2>1. CASE job.fresh
    <3>1. /\ job' = [job EXCEPT !.type = "none", !.robot = NoJob.robot, !.fresh = FALSE]
          /\ pc' = "auth" /\ robot'.there
      BY <1>12, <2>1 DEF createOrUpdateRobot, RobotDone, Merged
    <3>2. job'.token = job.token
      BY <3>1
    <3> QED
      BY <1>12, <3>1, <3>2, Writers DEF createOrUpdateRobot
  <2>2. CASE ~job.fresh
    BY <1>12, <2>2, <1>3 DEF createOrUpdateRobot, Fatal
  <2> QED
    BY <2>1, <2>2
<1>13. CASE storeInK8sSecret
  BY <1>13, Lasting, Writers DEF storeInK8sSecret, Goto, UpdateSecret, AfterAuth, Private
<1>14. CASE getDockerSecret
  <2>1. PICK as \in SUBSET Apps : job' = [job EXCEPT !.docker = docker, !.apps = as]
    BY <1>14 DEF getDockerSecret
  <2>2. docker \in 0..MaxDocker /\ docker # 0
    BY SetupConstants
  <2>3. job'.docker # 0 /\ job'.token = job.token
    BY <2>1, <2>2, JobDocker
  <2> QED
    BY <1>14, <2>3, Lasting, Writers DEF getDockerSecret
<1>15. ASSUME NEW a \in Apps, updateAppSecret(a) PROVE Order'
  BY <1>15, Lasting, Writers DEF updateAppSecret, Goto, Apps
<1>16. CASE updateDefaultSecret
  BY <1>16, Lasting, Writers DEF updateDefaultSecret, Goto, PullType
<1>17. CASE patchServiceAccount
  BY <1>17, Lasting, Writers DEF patchServiceAccount, Goto
<1>18. CASE ensureWebhookCerts
  BY <1>18, Lasting, Writers DEF ensureWebhookCerts
<1>19. CASE applyCRD
  BY <1>19, Lasting, Writers DEF applyCRD, Goto
<1>20. CASE waitForCRD
  BY <1>20, Lasting, Writers DEF waitForCRD, crdAvailable, Goto
<1>21. CASE installSecret
  BY <1>21, Lasting, Writers DEF installSecret, Goto
<1>22. CASE Start
  BY <1>22, Lasting, Writers DEF Start
<1>23. \/ UNCHANGED <<pc, job>> \/ EditRobot \/ pc' = "off" \/ Run \/ Start
       \/ checkClusterFails \/ ensureTenantMainNamespaceFails \/ ensureWebhookCertsFails
  BY DEF Next, Failure, vars, Cancel, Fatal, CloudStep, FillToken, WithdrawToken, PublishConfig,
     RenewDocker, CopySecret, ServeCRD
<1>24. CASE checkClusterFails
  BY <1>24, Lasting, Writers DEF checkClusterFails, Goto
<1>25. CASE ensureTenantMainNamespaceFails
  BY <1>25, Lasting, Writers DEF ensureTenantMainNamespaceFails, Goto
<1>26. CASE ensureWebhookCertsFails
  BY <1>26, Lasting, Writers DEF ensureWebhookCertsFails
<1> QED
  BY <1>1, <1>2, <1>3, <1>4, <1>5, <1>6, <1>7, <1>8, <1>9, <1>10, <1>11, <1>12, <1>13,
     <1>14, <1>15, <1>16, <1>17, <1>18, <1>19, <1>20, <1>21, <1>22, <1>23, <1>24, <1>25,
     <1>26 DEF Run, installChartOrDie, Fatal

LEMMA ReadsKept == ASSUME IndInv, [Next]_vars PROVE Reads'
<1>1. job'.fresh => job'.robot = robot'
  <2>1. CASE EditRobot
    BY <2>1 DEF EditRobot, IndInv, Types, JobType
  <2>2. CASE createOrUpdateRobot
    <3>1. CASE job.fresh
      <4>1. job' = [job EXCEPT !.type = "none", !.robot = NoJob.robot, !.fresh = FALSE]
        BY <2>2, <3>1 DEF createOrUpdateRobot, RobotDone
      <4>2. ~job'.fresh
        BY <4>1 DEF IndInv, Types, JobType
      <4> QED
        BY <4>2
    <3>2. CASE ~job.fresh
      BY <2>2, <3>2, NoJobTyped DEF createOrUpdateRobot, Fatal
    <3> QED
      BY <3>1, <3>2
  <2>3. CASE UNCHANGED robot
    <3>1. CASE getRobot
      <4>1. job' = [job EXCEPT !.robot = robot, !.fresh = TRUE] /\ job \in JobType /\ robot \in RobotType
        BY <3>1 DEF getRobot, IndInv, Types
      <4>2. job'.robot = robot
        BY <4>1 DEF JobType
      <4> QED
        BY <2>3, <4>2
    <3>2. CASE job' = NoJob
      BY <3>2, NoJobTyped
    <3>3. CASE job'.fresh = job.fresh /\ job'.robot = job.robot
      BY <2>3, <3>3 DEF IndInv, Reads
    <3>4. \/ EditRobot \/ createOrUpdateRobot \/ getRobot \/ job' = NoJob
          \/ job'.fresh = job.fresh /\ job'.robot = job.robot
      BY DEF Next, Run, Failure, checkClusterFails, ensureTenantMainNamespaceFails,
         ensureWebhookCertsFails, vars, Fatal, Goto, CloudStep, IndInv, Types, JobType, FillToken,
         WithdrawToken, PublishConfig, RenewDocker, CopySecret, ServeCRD, Start,
         waitForCloud, checkCluster, ensureTenantMainNamespace, checkRobotName,
         ensureTokenSecret, waitForServiceAccountToken, getRobotSetupConfigmap,
         storeInK8sSecret, getDockerSecret, updateAppSecret, updateDefaultSecret,
         patchServiceAccount, ensureWebhookCerts, applyCRD, waitForCRD, installSecret,
         installChartOrDie, Cancel
    <3> QED
      BY <2>1, <2>2, <3>1, <3>2, <3>3, <3>4
  <2> QED
    BY <2>1, <2>2, <2>3, Writers
<1>2. ASSUME pc' \in HasCert
      PROVE  job'.blind \/ (cert' \in {1, 2} => job'.cert = cert')
  <2>1. CASE ensureWebhookCerts
    BY <2>1 DEF ensureWebhookCerts, ReuseCert, NewCert, NoCert, OldCert, localVars, IndInv, Types, JobType
  <2>0. CASE ensureWebhookCertsFails
    <3>1. NewCert \in 0..3 /\ job \in JobType /\ job' = [job EXCEPT !.cert = NewCert, !.blind = TRUE]
      BY <2>0 DEF ensureWebhookCertsFails, NewCert, IndInv, Types
    <3> QED
      BY <3>1, JobCert
  <2>2. CASE installSecret
    BY <2>2 DEF installSecret, Goto, IndInv, Reads, HasCert, HasCRD, Installing
  <2>3. CASE pc \in HasCert /\ job'.cert = job.cert /\ job'.blind = job.blind /\ cert' = cert
    BY <2>3 DEF IndInv, Reads
  <2>4. \/ ensureWebhookCerts \/ ensureWebhookCertsFails \/ installSecret
        \/ pc \in HasCert /\ job'.cert = job.cert /\ job'.blind = job.blind /\ cert' = cert
    BY <1>2 DEF Next, Run, Failure, checkClusterFails, ensureTenantMainNamespaceFails, Apps, vars, Fatal, Goto, RobotDone, AfterAuth, CloudStep,
       localVars, HasCert, HasCRD, Installing, IndInv, Types, JobType, FillToken,
       WithdrawToken, PublishConfig, RenewDocker, EditRobot, CopySecret, ServeCRD,
       Start, waitForCloud, checkCluster, ensureTenantMainNamespace, checkRobotName,
       ensureTokenSecret, waitForServiceAccountToken, getRobotSetupConfigmap, getRobot,
       createOrUpdateRobot, storeInK8sSecret, getDockerSecret, updateAppSecret,
       updateDefaultSecret, patchServiceAccount, applyCRD, waitForCRD,
       installChartOrDie, Cancel
  <2> QED
    BY <2>0, <2>1, <2>2, <2>3, <2>4
<1> QED
  BY <1>1, <1>2 DEF Reads

-----------------------------------------------------------------------------
(* The theorems.                                                           *)

LEMMA Invariant == Spec => []IndInv
<1>1. Init => IndInv
  <2> SUFFICES ASSUME Init PROVE IndInv
    OBVIOUS
  <2>1. Types
    <3>1. 0 \in 0..MaxTokens /\ 0 \in 0..MaxDocker /\ 1 \in 1..MaxDocker
          /\ 0 \in 0..MaxEdits /\ 0 \in 0..MaxFaults
      BY SetupConstants
    <3>2. pull \in PullType
      BY <3>1 DEF Init, PullType
    <3>3. token \in TokenType /\ robot \in RobotType /\ chart \in ChartType
      BY <3>1 DEF Init, NoRobot, TokenType, RobotType, ChartType
    <3>4. pc \in Places /\ job \in JobType /\ crd \in {"absent", "created", "available"}
      BY NoJobTyped DEF Init, Places
    <3>5. /\ issued \in 0..MaxTokens /\ config \in 1..4 /\ docker \in 1..MaxDocker
          /\ auth \in 0..MaxTokens /\ cert \in 0..3
          /\ edits \in 0..MaxEdits /\ faults \in 0..MaxFaults
      BY <3>1 DEF Init, NoCert, OldCert
    <3>6. kind \in Kinds /\ patched \in BOOLEAN /\ missed \subseteq {"cluster", "patch"}
      BY DEF Init
    <3>7. ns \in BOOLEAN
      <4>1. ns = (kind \in {"foreign", "cloud"})
        BY DEF Init
      <4> QED
        BY <4>1
    <3> QED
      BY <3>2, <3>3, <3>4, <3>5, <3>6, <3>7 DEF Types
  <2>2. Issuing /\ Untouched /\ StartsComplete /\ Patching
    BY SetupConstants DEF Init, NoRobot, Issuing, Untouched, StartsComplete, Patching
  <2>3. Order /\ Reads
    BY NoJobTyped DEF Init, Order, Reads,
       RightCluster, HasToken, HasRobot, HasAuth, HasPull, HasCert, HasCRD, Installing
  <2> QED
    BY <2>1, <2>2, <2>3 DEF IndInv
<1>2. IndInv /\ [Next]_vars => IndInv'
  BY TypesKept, IssuingKept, OrderKept, PatchingKept, ReadsKept, UntouchedKept,
     StartsCompleteKept DEF IndInv
<1> QED
  BY <1>1, <1>2, PTL DEF Spec

\* Wherever a run of main is cut off or passes over an error, and whatever is issued,
\* withdrawn, renewed or edited meanwhile: a cluster with another name is left alone,
\* and so is that of the cloud unless a Get there failed (checkClusterFails); the
\* chart is installed only where the CRD, the token, the Robot and the pull secret
\* are, and the service account uses it unless a run was cut off right before that.
THEOREM SetupIsSafe == Spec => []SetupInv
<1>1. IndInv => SetupInv
  BY DEF IndInv, Types, Issuing, Reads, SetupInv, SetupTypeOK, TokenType, RobotType, PullType,
     ChartType, JobType
<1> QED
  BY <1>1, Invariant, PTL

\* No run of setup-robot takes a label of the Robot away, and none but one that could
\* not read it replaces a certificate of the right format (createOrUpdateRobot,
\* ensureWebhookCerts, ensureWebhookCertsFails).
THEOREM SetupLosesNothing == Spec => NothingLost
<1>1. ASSUME IndInv, [Next]_vars PROVE robot.labels \subseteq robot'.labels
  <2>1. CASE EditRobot
    BY <2>1 DEF EditRobot
  <2>2. CASE createOrUpdateRobot
    BY <2>2, <1>1 DEF createOrUpdateRobot, Merged, IndInv, Reads
  <2> QED
    BY <1>1, <2>1, <2>2, Writers
<1>2. ASSUME IndInv, [Next]_vars, cert \in {1, 2} PROVE cert' = cert \/ job.blind
  <2>1. CASE installSecret
    BY <1>2, <2>1 DEF installSecret, IndInv, Reads, HasCert, HasCRD, Installing
  <2> QED
    BY <1>2, <2>1, Writers
<1>3. IndInv /\ [Next]_vars =>
        [/\ robot.labels \subseteq robot'.labels
         /\ cert \in {1, 2} => cert' = cert \/ job.blind]_vars
  BY <1>1, <1>2
<1> QED
  BY <1>3, Invariant, PTL DEF Spec, NothingLost
=============================================================================
