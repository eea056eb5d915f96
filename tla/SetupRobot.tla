----------------------------- MODULE SetupRobot -----------------------------
(***************************************************************************)
(* cmd/setup-robot, which registers a robot in the cloud and installs the  *)
(* base-robot chart in the robot's cluster.                                *)
(*                                                                         *)
(* The program is a sequence of steps; an error is the end of the run, but *)
(* for three calls whose errors it takes for an answer or drops.  The      *)
(* script that starts it removes the pod of an earlier run first, so that  *)
(* there is one run at a time in a cluster, which can be cut off between   *)
(* any two steps.  Meanwhile the cloud goes on: users, the                 *)
(* tenant-controller and the token controller write what it reads.         *)
(***************************************************************************)
EXTENDS Integers

CONSTANTS
    Kinds,      \* sorts of clusters
    MaxTokens,  \* bound: tokens issued for the robot
    MaxDocker,  \* bound: versions of the pull secret in the cloud
    MaxEdits,   \* bound: changes to the Robot by users
    MaxFaults   \* bound: calls that fail and runs that are cut off

\* A cluster that is new or was set up before, one that gets its images from a
\* public registry, one that was set up with another name, and that of the cloud.
AllKinds == {"robot", "public", "foreign", "cloud"}

ASSUME SetupConstants ==
    /\ Kinds \subseteq AllKinds
    /\ MaxTokens \in Nat \ {0} /\ MaxDocker \in Nat \ {0} /\ MaxEdits \in Nat /\ MaxFaults \in Nat

VARIABLES
    kind,    \* the sort of the cluster
    token,   \* the secret of the robot in the cloud: [there |-> , val |-> ], val 0 before it is filled
    issued,  \* tokens issued so far
    config,  \* the config map robot-setup in the cloud
    robot,   \* the Robot in the cloud: [there |-> , labels |-> , type |-> ]
    docker,  \* version of the pull secret in the cloud
    ns,      \* the local namespace of the Tenant is there
    auth,    \* the token in the local secret robot-auth, 0 if there is none
    pull,    \* versions of the local pull secrets, 0 where there is none
    patched, \* the default service account uses the pull secret
    cert,    \* certificate in the local secret of the webhook
    crd,     \* the CRD of ResourceSets: absent, created or available
    chart,   \* the base-robot chart: what is installed, and with which domain
    pc,      \* where the run is
    job,     \* what the run has read
    missed,  \* history: the failures so far that no later run makes good
    edits,
    faults

cloudVars == <<token, issued, config, robot, docker>>
localVars == <<ns, auth, pull, patched, cert, crd, chart>>
vars == <<kind, cloudVars, localVars, pc, job, missed, edits, faults>>

\* Namespaces of apps, before and after "default" in the list of namespaces.
Apps == {"early", "late"}

\* The config map is absent, incomplete, or complete without or with the domain.
Configs == <<"absent", "incomplete", "nodomain", "domain">>

\* An old certificate has no label cert-format: v2.
NoCert == 0
OldCert == 3

NoRobot == [there |-> FALSE, labels |-> {}, type |-> "none"]

NoJob == [type |-> "none", token |-> 0, config |-> "absent", robot |-> NoRobot, fresh |-> FALSE,
          docker |-> 0, apps |-> {}, cert |-> NoCert, blind |-> FALSE]

Init ==
    /\ kind \in Kinds
    /\ token = [there |-> FALSE, val |-> 0]
    /\ issued = 0
    /\ config = 1
    /\ robot = NoRobot
    /\ docker = 1
    /\ ns = (kind \in {"foreign", "cloud"})
    /\ auth = 0
    /\ pull = [n \in Apps \union {"default"} |-> 0]
    /\ patched = FALSE
    /\ cert \in {NoCert, OldCert}
    /\ crd = "absent"
    /\ chart = [st |-> "no", config |-> "absent"]
    /\ pc = "off"
    /\ job = NoJob
    /\ missed = {}
    /\ edits = 0
    /\ faults = 0

-----------------------------------------------------------------------------
(* The cloud, and the controllers in the cluster.                          *)

CloudStep == UNCHANGED <<kind, localVars, pc, missed, faults>>

\* The token controller fills a secret of a service account.
FillToken ==
    /\ token.there /\ token.val = 0
    /\ token' = [token EXCEPT !.val = issued + 1]
    /\ issued' = issued + 1
    /\ CloudStep /\ UNCHANGED <<config, robot, docker, job, edits>>

\* Somebody withdraws the token, to have another one issued.
WithdrawToken ==
    /\ token.val # 0
    /\ issued < MaxTokens
    /\ token' = [there |-> FALSE, val |-> 0]
    /\ CloudStep /\ UNCHANGED <<issued, config, robot, docker, job, edits>>

\* The tenant-controller writes the config map, the domain in a later round.
PublishConfig ==
    /\ config < 4
    /\ config' = config + 1
    /\ CloudStep /\ UNCHANGED <<token, issued, robot, docker, job, edits>>

RenewDocker ==
    /\ docker < MaxDocker
    /\ docker' = docker + 1
    /\ CloudStep /\ UNCHANGED <<token, issued, config, robot, job, edits>>

\* A user registers the Robot, or labels it and says what type it is of.
EditRobot ==
    /\ edits < MaxEdits
    /\ edits' = edits + 1
    /\ robot' = [there |-> TRUE, labels |-> robot.labels \union {"user"}, type |-> "user"]
    /\ robot' # robot
    /\ job' = [job EXCEPT !.fresh = FALSE]
    /\ CloudStep /\ UNCHANGED <<token, issued, config, docker>>

\* The ChartAssignment controller of the cluster copies the pull secret into the
\* namespace of an app.
CopySecret(a) ==
    /\ chart.st = "yes"
    /\ pull[a] = 0 /\ pull["default"] # 0
    /\ pull' = [pull EXCEPT ![a] = pull["default"]]
    /\ UNCHANGED <<kind, cloudVars, ns, auth, patched, cert, crd, chart, pc, job, missed, edits, faults>>

\* The API server serves the new resource.
ServeCRD ==
    /\ crd = "created"
    /\ crd' = "available"
    /\ UNCHANGED <<kind, cloudVars, ns, auth, pull, patched, cert, chart, pc, job, missed, edits, faults>>

-----------------------------------------------------------------------------
(* A run.                                                                  *)

\* The cluster pulls its images with a secret.
Private == kind # "public"

\* What every run brings about, whatever an earlier one has left.
Working ==
    /\ ns
    /\ chart.st = "yes" /\ chart.config = "domain"
    /\ token.val # 0 /\ auth = token.val
    /\ robot.there /\ "setup" \in robot.labels
    /\ Private => pull["default"] = docker /\ \A a \in Apps : pull[a] \in {0, docker}

\* Nothing is left to do: what the operator wants.
Healthy == Working /\ (Private => patched)

\* setup_robot.sh: the operator starts it, again if there is reason to, with or
\* without the flag robot-type.
Start ==
    /\ pc = "off"
    /\ ~Healthy
    /\ pc' = "network"
    /\ \E t \in {"none", "flag"} : job' = [job EXCEPT !.type = t]
    /\ UNCHANGED <<kind, cloudVars, localVars, missed, edits, faults>>

\* log.Fatal
Fatal == pc' = "off" /\ job' = NoJob

Goto(step) == pc' = step /\ UNCHANGED job

\* A call fails.
Fault == faults < MaxFaults /\ faults' = faults + 1

\* waitForDNS and waitForService come back without an error; see Cancel.
waitForCloud ==
    /\ pc = "network"
    /\ Goto("cluster")
    /\ UNCHANGED <<kind, cloudVars, localVars, missed, edits, faults>>

\* The Deployment of the app-rollout-controller is in the cluster of the cloud only.
checkCluster ==
    /\ pc = "cluster"
    /\ IF kind = "cloud" THEN Fatal ELSE Goto("namespace")
    /\ UNCHANGED <<kind, cloudVars, localVars, missed, edits, faults>>

\* Any error of the Get counts as "not there", not only NotFound; in another cluster
\* that is the right answer.
checkClusterFails ==
    /\ pc = "cluster" /\ kind = "cloud"
    /\ Fault
    /\ Goto("namespace")
    /\ missed' = missed \union {"cluster"}
    /\ UNCHANGED <<kind, cloudVars, localVars, edits>>

ensureTenantMainNamespace ==
    /\ pc = "namespace"
    /\ ns' = TRUE
    /\ Goto("name")
    /\ UNCHANGED <<kind, cloudVars, auth, pull, patched, cert, crd, chart, missed, edits, faults>>

\* The errors of Get and Create are wrapped, and dropped: it returns nil.
ensureTenantMainNamespaceFails ==
    /\ pc = "namespace"
    /\ Fault
    /\ Goto("name")
    /\ UNCHANGED <<kind, cloudVars, localVars, missed, edits>>

\* The Robots in the local cluster are those that the cr-syncer has brought there;
\* in the cluster of the cloud, those of the Tenant, of which there may be others.
checkRobotName ==
    /\ pc = "name"
    /\ \/ kind \in {"foreign", "cloud"} /\ Fatal
       \/ kind # "foreign" /\ Goto("token")
    /\ UNCHANGED <<kind, cloudVars, localVars, missed, edits, faults>>

\* createServiceAccountSecret, if there is none.
ensureTokenSecret ==
    /\ pc = "token"
    /\ token' = [token EXCEPT !.there = TRUE]
    /\ Goto("poll")
    /\ UNCHANGED <<kind, issued, config, robot, docker, localVars, missed, edits, faults>>

\* It polls a number of times; the last one may come too early.
waitForServiceAccountToken ==
    /\ pc = "poll"
    /\ IF token.val # 0
       THEN pc' = "config" /\ job' = [job EXCEPT !.token = token.val]
       ELSE Fatal
    /\ UNCHANGED <<kind, cloudVars, localVars, missed, edits, faults>>

Complete(c) == c \in {"nodomain", "domain"}

getRobotSetupConfigmap ==
    /\ pc = "config"
    /\ IF Complete(Configs[config])
       THEN pc' = "robot" /\ job' = [job EXCEPT !.config = Configs[config]]
       ELSE Fatal
    /\ UNCHANGED <<kind, cloudVars, localVars, missed, edits, faults>>

getRobot ==
    /\ pc = "robot"
    /\ pc' = "update"
    /\ job' = [job EXCEPT !.robot = robot, !.fresh = TRUE]
    /\ UNCHANGED <<kind, cloudVars, localVars, missed, edits, faults>>

RobotDone ==
    /\ pc' = "auth"
    /\ job' = [job EXCEPT !.type = "none", !.robot = NoJob.robot, !.fresh = FALSE]

\* mergeMaps of the labels that are there and those of the flags; the type is that
\* of the flag, also when the flag is not given and the Robot has one.
Merged == [there |-> TRUE, labels |-> job.robot.labels \union {"setup"}, type |-> job.type]

\* Mutant of createOrUpdateRobot: a Robot that has changed is no obstacle.
createOrUpdateRobotBlindly ==
    /\ pc = "update"
    /\ robot' = Merged
    /\ RobotDone
    /\ UNCHANGED <<kind, token, issued, config, docker, localVars, missed, edits, faults>>

createOrUpdateRobot ==
    /\ pc = "update"
    /\ IF job.fresh
       THEN robot' = Merged /\ RobotDone
       ELSE Fatal /\ UNCHANGED robot
    /\ UNCHANGED <<kind, token, issued, config, docker, localVars, missed, edits, faults>>

\* Mutant of AfterAuth: no cluster gets the pull secret.
AfterAuthCerts == "certs"

AfterAuth == IF Private THEN "docker" ELSE "certs"

\* kubeutils.UpdateSecret: nobody else writes the secret, so that its retries on a
\* conflict have nothing to do.
UpdateSecret(data) == auth' = data

storeInK8sSecret ==
    /\ pc = "auth"
    /\ UpdateSecret(job.token)
    /\ Goto(AfterAuth)
    /\ UNCHANGED <<kind, cloudVars, ns, pull, patched, cert, crd, chart, missed, edits, faults>>

\* syncDockerSecret: reads the secret of the cloud and lists the local namespaces,
\* among them those of some apps, then goes through the list in its order.
getDockerSecret ==
    /\ pc = "docker"
    /\ pc' = "early"
    /\ \E as \in SUBSET Apps :
          /\ \A a \in Apps : pull[a] # 0 => a \in as
          /\ job' = [job EXCEPT !.docker = docker, !.apps = as]
    /\ UNCHANGED <<kind, cloudVars, localVars, missed, edits, faults>>

\* A secret that is there is updated; of the apps' none is created.
updateAppSecret(a) ==
    /\ pc = a
    /\ pull' = [pull EXCEPT ![a] = IF @ = 0 \/ a \notin job.apps THEN @ ELSE job.docker]
    /\ Goto(IF a = "early" THEN "default" ELSE "certs")
    /\ UNCHANGED <<kind, cloudVars, ns, auth, patched, cert, crd, chart, missed, edits, faults>>

\* Mutant of updateDefaultSecret: a secret that is there is left as it is.
updateDefaultSecretOnce ==
    /\ pc = "default"
    /\ pull' = [pull EXCEPT !["default"] = IF @ = 0 THEN job.docker ELSE @]
    /\ Goto(IF pull["default"] = 0 THEN "patch" ELSE "late")
    /\ UNCHANGED <<kind, cloudVars, ns, auth, patched, cert, crd, chart, missed, edits, faults>>

\* In "default" the secret is created if need be; the service account is patched then.
updateDefaultSecret ==
    /\ pc = "default"
    /\ pull' = [pull EXCEPT !["default"] = job.docker]
    /\ Goto(IF pull["default"] = 0 THEN "patch" ELSE "late")
    /\ UNCHANGED <<kind, cloudVars, ns, auth, patched, cert, crd, chart, missed, edits, faults>>

\* syncDockerSecret returns with the result of the patch: the rest of the list is
\* left out.
patchServiceAccount ==
    /\ pc = "patch"
    /\ patched' = TRUE
    /\ Goto("certs")
    /\ UNCHANGED <<kind, cloudVars, ns, auth, pull, cert, crd, chart, missed, edits, faults>>

\* ensureWebhookCerts: another certificate than the one that is there.
NewCert == IF cert = 1 THEN 2 ELSE 1

ReuseCert(c) == IF c \in {NoCert, OldCert} THEN NewCert ELSE c

ensureWebhookCerts ==
    /\ pc = "certs"
    /\ pc' = "synk"
    /\ job' = [job EXCEPT !.cert = ReuseCert(cert)]
    /\ UNCHANGED <<kind, cloudVars, localVars, missed, edits, faults>>

\* Any error of the Get counts as "not there": a certificate is generated.
ensureWebhookCertsFails ==
    /\ pc = "certs"
    /\ Fault
    /\ pc' = "synk"
    /\ job' = [job EXCEPT !.cert = NewCert, !.blind = TRUE]
    /\ UNCHANGED <<kind, cloudVars, localVars, missed, edits>>

\* synk init: Init applies the CRD and waits until it is served; its patience of
\* two minutes can end before that.
applyCRD ==
    /\ pc = "synk"
    /\ crd' = IF crd = "absent" THEN "created" ELSE crd
    /\ Goto("crd")
    /\ UNCHANGED <<kind, cloudVars, ns, auth, pull, patched, cert, chart, missed, edits, faults>>

crdAvailable == crd = "available"

waitForCRD ==
    /\ pc = "crd"
    /\ crdAvailable
    /\ Goto("chart")
    /\ UNCHANGED <<kind, cloudVars, localVars, missed, edits, faults>>

\* installChartOrDie.  The certificate is a resource of the chart;
\* when synk is cut off it may be the only one that has been applied.
installSecret ==
    /\ pc = "chart"
    /\ cert' = job.cert
    /\ chart' = [chart EXCEPT !.st = IF @ = "no" THEN "partly" ELSE @]
    /\ Goto("rest")
    /\ UNCHANGED <<kind, cloudVars, ns, auth, pull, patched, crd, missed, edits, faults>>

installChartOrDie ==
    /\ pc = "rest"
    /\ chart' = [st |-> "yes", config |-> job.config]
    /\ Fatal \* the end of the run
    /\ UNCHANGED <<kind, cloudVars, ns, auth, pull, patched, cert, crd, missed, edits, faults>>

\* Any other call that fails is fatal, and the operator may cancel.
Cancel ==
    /\ pc # "off"
    /\ Fault
    /\ Fatal
    /\ missed' = IF pc = "patch" THEN missed \union {"patch"} ELSE missed
    /\ UNCHANGED <<kind, cloudVars, localVars, edits>>

-----------------------------------------------------------------------------

Run ==
    \/ waitForCloud \/ checkCluster \/ ensureTenantMainNamespace \/ checkRobotName
    \/ ensureTokenSecret \/ waitForServiceAccountToken \/ getRobotSetupConfigmap
    \/ getRobot \/ createOrUpdateRobot \/ storeInK8sSecret
    \/ getDockerSecret \/ (\E a \in Apps : updateAppSecret(a)) \/ updateDefaultSecret
    \/ patchServiceAccount
    \/ ensureWebhookCerts \/ applyCRD \/ waitForCRD \/ installSecret \/ installChartOrDie

Failure ==
    \/ checkClusterFails \/ ensureTenantMainNamespaceFails \/ ensureWebhookCertsFails \/ Cancel

Next ==
    \/ FillToken \/ WithdrawToken \/ PublishConfig \/ RenewDocker \/ EditRobot
    \/ (\E a \in Apps : CopySecret(a)) \/ ServeCRD
    \/ Start \/ Run \/ Failure

\* The operator runs the setup until the robot is healthy.
Fairness ==
    /\ WF_vars(Start) /\ WF_vars(Run)
    /\ WF_vars(FillToken) /\ WF_vars(PublishConfig) /\ WF_vars(ServeCRD)

Spec == Init /\ [][Next]_vars /\ Fairness

-----------------------------------------------------------------------------
(* Properties.                                                             *)

\* The type of the state; a token is in a secret that is there.
SetupTypeOK ==
    /\ kind \in Kinds
    /\ token \in [there : BOOLEAN, val : 0..MaxTokens] /\ (token.val # 0 => token.there)
    /\ issued \in 0..MaxTokens /\ config \in 1..4 /\ docker \in 1..MaxDocker
    /\ {robot, job.robot} \subseteq [there : BOOLEAN, labels : SUBSET {"setup", "user"},
                                     type : {"none", "flag", "user"}]
    /\ ns \in BOOLEAN /\ auth \in 0..MaxTokens /\ patched \in BOOLEAN
    /\ pull \in [Apps \union {"default"} -> 0..MaxDocker]
    /\ {cert, job.cert} \subseteq 0..3
    /\ crd \in {"absent", "created", "available"} /\ chart.st \in {"no", "partly", "yes"}
    /\ job.fresh => job.robot = robot
    /\ missed \subseteq {"cluster", "patch"}
    /\ edits \in 0..MaxEdits /\ faults \in 0..MaxFaults

\* A cluster that no run may change: one that has another name, and that of the
\* cloud as long as no Get of the Deployment there failed (checkClusterFails).
Forbidden == kind = "foreign" \/ (kind = "cloud" /\ "cluster" \notin missed)

\* Runs in a forbidden cluster change nothing there but the namespace, and register
\* nothing in the cloud.
Untouched ==
    Forbidden =>
        /\ ~token.there /\ "setup" \notin robot.labels
        /\ auth = 0 /\ pull["default"] = 0 /\ ~patched /\ crd = "absent" /\ chart.st = "no"

\* When the chart, or a part of it, is installed, what synk and its workloads need
\* is there: the CRD, the token, the Robot, the pull secret, and the service account
\* that uses it unless a run was cut off between the two.
StartsComplete ==
    chart.st # "no" =>
        /\ crd = "available" /\ auth # 0 /\ robot.there
        /\ Private => pull["default"] # 0 /\ (patched \/ "patch" \in missed)

\* Wherever runs were cut off and begun again, and whatever errors they have passed
\* over, a forbidden cluster is left alone and the right one never has workloads
\* without what they need to start, with the exceptions that Forbidden and
\* StartsComplete name (main takes its steps in an order that no run goes back on).
SetupInv == SetupTypeOK /\ Untouched /\ StartsComplete

\* No run takes a label from the Robot that somebody else has set in between, and a
\* certificate of the right format is kept by later runs, so that the webhook goes
\* on to serve with the one that it has mounted, but for a run whose own Get of
\* the certificate failed (ensureWebhookCertsFails).
NothingLost ==
    [][/\ robot.labels \subseteq robot'.labels
       /\ cert \in {1, 2} => cert' = cert \/ job.blind]_vars

\* An operator who repeats the setup gets to a healthy robot, whatever failed, was
\* cut off, withdrawn or renewed.  The one exception is a run that was cut off
\* between creating the pull secret and patching the service account: no later run
\* patches it, as it finds the secret there.
SetUp == kind \in {"robot", "public"} => []<>(Healthy \/ (Working /\ "patch" \in missed))
=============================================================================
