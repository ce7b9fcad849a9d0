-------------------------- MODULE GenerationProofs --------------------------
(***************************************************************************)
(* The life of an app slot on the master, for any number of generations,   *)
(* replicas, revisions, attempts and failures: types, what is declared,    *)
(* what an uninstall leaves, that it goes one way, and what serves.        *)
(***************************************************************************)
EXTENDS Generation, WellFoundedInduction, TLAPS

(* The loops over replicas take them in the order of their numbers         *)
(* (deployMcpV3, reconfigureMcpV3, upgradeMcpV3): there is a next one as   *)
(* long as one is left.                                                    *)
LEMMA MinIn == ASSUME NEW S, S \subseteq Nat, S # {} PROVE Min(S) \in S
<1> DEFINE R == {ss \in Nat \X Nat : ss[1] < ss[2]}
<1>1. IsWellFoundedOn(R, Nat)
  BY NatLessThanWellFounded DEF OpToRel
<1>2. ASSUME NEW x \in Nat, NEW y \in Nat, y < x PROVE <<y, x>> \in R
  <2>1. <<y, x>>[1] = y /\ <<y, x>>[2] = x
    OBVIOUS
  <2> QED BY <1>2, <2>1
<1> HIDE DEF R
<1>3. PICK x \in S : \A y \in S : ~(<<y, x>> \in R)
  BY <1>1, WFMin
<1>4. ASSUME NEW y \in S PROVE x <= y
  <2>1. x \in Nat /\ y \in Nat /\ ~(y < x)
    BY <1>2, <1>3
  <2> QED BY <2>1
<1> QED BY <1>4 DEF Min

(* The app's document is written by an install that inserts it, a          *)
(* replica's answer, quarantineRow and establish, the end of a reconfigure *)
(* or upgrade, and an uninstall that revokes or retires it; by nothing     *)
(* else.                                                                   *)
LEMMA RowFrame ==
    ASSUME Next
    PROVE  \/ UNCHANGED row
           \/ \E g \in Gens : deployMcpV3(g)
           \/ parseMcpV3ReplicaResponse \/ quarantineRow \/ establish
           \/ persistConfig \/ persistUpgrade
           \/ \E a \in Attempts : revokeDispatch(a) \/ retireRow(a)
<1>1. CASE hubStep
  BY <1>1 DEF hubStep, acceptInstall, refuseInstall, activateMcpV3, recoverMcpV3InventoryAttestation,
     reconfigureMcpV3, upgradeMcpV3
<1>2. CASE jobStep
  BY <1>2 DEF jobStep, buildCapturingRuntimeResourceInventoryV3, deployReplica, deployFailed,
     finalizeRuntimeResourceInventoryV3, finalizeReplicas, reconfigureReplica, reconfigureReplied,
     rollbackReplica, upgradeReplica, upgradeReplied, revertReplica, upgradeFailed
<1>3. CASE \E g \in Gens : signRuntimeInventoryAttestation(g)
  BY <1>3 DEF signRuntimeInventoryAttestation
<1>4. CASE agentStep \/ \E c \in calls : timeout(c)
  BY <1>4 DEF agentStep, timeout, deployManagedApp, deployEnds, swapBegins, swapEnds
<1>5. ASSUME NEW a \in Attempts, attemptStep(a) \/ \E g \in Gens : openOperation(a, g)
      PROVE  UNCHANGED row \/ revokeDispatch(a) \/ retireRow(a)
  BY <1>5 DEF attemptStep, openOperation, removeDeclaredResources, verifyDeclaredResources,
     signFinalAcknowledgement, storeAcknowledgement
<1>6. CASE crash
  BY <1>6 DEF crash
<1> QED BY <1>1, <1>2, <1>3, <1>4, <1>5, <1>6 DEF Next

(* The inventory of a generation is written while it is captured,          *)
(* finalized, and signed; by nothing else.                                 *)
LEMMA InventoryFrame ==
    ASSUME Next
    PROVE  \/ UNCHANGED inv
           \/ buildCapturingRuntimeResourceInventoryV3 \/ parseMcpV3ReplicaResponse
           \/ finalizeRuntimeResourceInventoryV3
           \/ \E g \in Gens : signRuntimeInventoryAttestation(g) \/ recoverMcpV3InventoryAttestation(g)
<1>1. CASE hubStep
  BY <1>1 DEF hubStep, acceptInstall, refuseInstall, deployMcpV3, activateMcpV3, reconfigureMcpV3, upgradeMcpV3
<1>2. CASE jobStep
  BY <1>2 DEF jobStep, deployReplica, deployFailed, finalizeReplicas, quarantineRow, establish,
     reconfigureReplica, reconfigureReplied, rollbackReplica, persistConfig,
     upgradeReplica, upgradeReplied, persistUpgrade, revertReplica, upgradeFailed
<1>4. CASE agentStep \/ \E c \in calls : timeout(c)
  BY <1>4 DEF agentStep, timeout, deployManagedApp, deployEnds, swapBegins, swapEnds
<1>5. CASE \E a \in Attempts : attemptStep(a) \/ \E g \in Gens : openOperation(a, g)
  BY <1>5 DEF attemptStep, openOperation, revokeDispatch, removeDeclaredResources,
     verifyDeclaredResources, signFinalAcknowledgement, storeAcknowledgement, retireRow
<1>6. CASE crash
  BY <1>6 DEF crash
<1> QED BY <1>1, <1>2, <1>4, <1>5, <1>6 DEF Next

(* What is on the nodes changes with an agent's work, the final bindings   *)
(* of an install (finalizeReplicas) and the removal of an uninstall.       *)
LEMMA NodesFrame ==
    ASSUME Next
    PROVE  \/ UNCHANGED <<ctr, side>>
           \/ finalizeReplicas
           \/ \E c \in calls : deployManagedApp(c) \/ deployEnds(c) \/ swapBegins(c) \/ swapEnds(c)
           \/ \E a \in Attempts : removeDeclaredResources(a)
<1>1. CASE hubStep
  BY <1>1 DEF hubStep, acceptInstall, refuseInstall, deployMcpV3, recoverMcpV3InventoryAttestation, activateMcpV3, reconfigureMcpV3,
     upgradeMcpV3
<1>2. CASE jobStep
  BY <1>2 DEF jobStep, buildCapturingRuntimeResourceInventoryV3, deployReplica,
     parseMcpV3ReplicaResponse, deployFailed, finalizeRuntimeResourceInventoryV3, quarantineRow, establish,
     reconfigureReplica, reconfigureReplied, rollbackReplica, persistConfig,
     upgradeReplica, upgradeReplied, persistUpgrade, revertReplica, upgradeFailed
<1>3. CASE \E g \in Gens : signRuntimeInventoryAttestation(g)
  BY <1>3 DEF signRuntimeInventoryAttestation
<1>4. CASE agentStep \/ \E c \in calls : timeout(c)
  BY <1>4 DEF agentStep, timeout
<1>5. CASE \E a \in Attempts : attemptStep(a) \/ \E g \in Gens : openOperation(a, g)
  BY <1>5 DEF attemptStep, openOperation, revokeDispatch,
     verifyDeclaredResources, signFinalAcknowledgement, storeAcknowledgement, retireRow
<1>6. CASE crash
  BY <1>6 DEF crash
<1> QED BY <1>1, <1>2, <1>3, <1>4, <1>5, <1>6 DEF Next

(* Operations and attempts change with the steps of an uninstall and with  *)
(* the death of the master.                                                *)
LEMMA UninstallFrame ==
    ASSUME Next
    PROVE  \/ UNCHANGED <<op, att>>
           \/ \E a \in Attempts : attemptStep(a) \/ \E g \in Gens : openOperation(a, g)
           \/ crash
<1>1. CASE hubStep
  BY <1>1 DEF hubStep, acceptInstall, refuseInstall, deployMcpV3, recoverMcpV3InventoryAttestation, activateMcpV3, reconfigureMcpV3,
     upgradeMcpV3
<1>2. CASE jobStep
  BY <1>2 DEF jobStep, buildCapturingRuntimeResourceInventoryV3, deployReplica,
     parseMcpV3ReplicaResponse, deployFailed, finalizeRuntimeResourceInventoryV3, finalizeReplicas,
     quarantineRow, establish, reconfigureReplica, reconfigureReplied, rollbackReplica, persistConfig,
     upgradeReplica, upgradeReplied, persistUpgrade, revertReplica, upgradeFailed
<1>3. CASE \E g \in Gens : signRuntimeInventoryAttestation(g)
  BY <1>3 DEF signRuntimeInventoryAttestation
<1>4. CASE agentStep \/ \E c \in calls : timeout(c)
  BY <1>4 DEF agentStep, timeout, deployManagedApp, deployEnds, swapBegins, swapEnds
<1> QED BY <1>1, <1>2, <1>3, <1>4 DEF Next

-----------------------------------------------------------------------------
(* Types.                                                                  *)

Asking == {"deploy", "forward", "back"}

\* What the holder of the lock is doing, and that the row is the one it took.
JobInv ==
    /\ \/ job = Idle
       \/ /\ job.gen = row.gen /\ row.gen \in Gens
          /\ \/ job.kind = "install" /\ job.pc \in {"inventory", "deploy", "finalize", "quarantine"}
             \/ job.kind = "activate" /\ job.pc = "establish"
             \/ job.kind = "configure" /\ job.pc \in {"forward", "back"} /\ job.arg \in Configs
             \/ job.kind = "upgrade" /\ job.pc \in {"forward", "back"} /\ job.arg \in Images
    /\ job.done \subseteq row.reported
    /\ job.reply # "none" => job.pc \in Asking /\ job.at \in Replicas
    /\ job.reply # "none" /\ job.kind # "install" => job.at \in row.reported
    /\ job.reply # "none" /\ job.kind = "install" => job.at \in row.plan

\* A row of a generation says what its replicas are to run, and has planned some.
IsInv ==
    /\ row.gen \in Gens => row.is \in Container /\ row.plan \in Plans
    /\ row.reported \subseteq row.plan

\* A request somebody waits for is the one the job sent last; one nobody waits for
\* makes its generation late.
CallInv ==
    /\ \A c \in calls : c.await = "yes" => job.reply = "waiting" /\ c.gen = job.gen /\ c.r = job.at
    /\ \A c \in calls : c.gen \notin late => c.await = "yes"
    /\ \A c, d \in calls : c.await = "yes" /\ d.await = "yes" => c = d
    /\ \A c \in calls : c.kind # "deploy" /\ c.phase = "gap" => c.old \in Images

\* An attempt that stands somewhere is about a generation.
AttInv == \A a \in Attempts : att[a].pc # "none" => att[a].gen \in Gens

TypeInv == TypeOK /\ JobInv /\ IsInv /\ CallInv /\ AttInv

(* The planned replicas are numbers, and those of a generation are not     *)
(* none.                                                                   *)
LEMMA PlanType ==
    ASSUME TypeInv
    PROVE  /\ row.plan \subseteq Replicas /\ row.plan \subseteq Nat /\ row.reported \subseteq row.plan
           /\ row.gen \in Gens => row.plan # {}
<1>1. row.plan \subseteq Replicas
  BY ConstantsAssumption DEF TypeInv, TypeOK, Row
<1> QED BY <1>1, ConstantsAssumption DEF TypeInv, IsInv

(* The plan that is taken is one of the new ones.                          *)
LEMMA NewPlanType ==
    ASSUME NEW g, FreshPlans(g) # {} PROVE NewPlan(g) \in FreshPlans(g) /\ NewPlan(g) \in Plans
BY DEF NewPlan, FreshPlans

(* AgentClient.request keeps the types: the job waits, and the request is  *)
(* one of the three kinds.                                                 *)
LEMMA RequestType ==
    ASSUME TypeOK, job.gen \in Gens, NEW kind \in {"deploy", "reconfigure", "redeploy"},
           NEW r \in Replicas, NEW to \in Container, request(kind, r, to)
    PROVE  job' \in Job /\ calls' \subseteq Call /\ raced' \subseteq Gens
<1>1. [kind |-> kind, gen |-> job.gen, r |-> r, to |-> to, old |-> 0,
       phase |-> "sent", await |-> "yes"] \in Call
  BY ConstantsAssumption DEF Call
<1>2. job' \in Job
  BY DEF request, TypeOK, Job, Replies
<1> QED BY <1>1, <1>2 DEF request, TypeOK

(* An agent's answer keeps the types of the job and of the open requests.  *)
LEMMA RespondType ==
    ASSUME TypeOK, NEW c \in calls, NEW answer \in Replies, respond(c, answer)
    PROVE  job' \in Job /\ calls' \subseteq Call
BY DEF respond, TypeOK, Job

(* A route that answers the Hub releases the lock: the job is the idle     *)
(* one.                                                                    *)
LEMMA FinishType ==
    ASSUME NEW answer \in Answers, Finish(answer)
    PROVE  job' \in Job /\ told' \in Answers
BY ConstantsAssumption DEF Finish, Idle, Job, JobPcs, Replies

(* A fault is counted, and stays within its bound.                         *)
LEMMA FaultType ==
    ASSUME TypeOK, Fault
    PROVE  spent' \in [faults : 0..MaxFaults, timeouts : 0..MaxTimeouts, crashes : 0..MaxCrashes]
<1>1. MaxFaults \in Nat
  BY ConstantsAssumption
<1>2. spent.faults + 1 \in 0..MaxFaults
  BY <1>1 DEF TypeOK, Fault
<1> QED BY <1>2 DEF TypeOK, Fault

(* A reconfigure asks for a container the model has, whether or not it     *)
(* carries a new size.                                                     *)
LEMMA TargetType ==
    ASSUME row.is \in Container, NEW e \in Configs
    PROVE  Target(e) \in Container /\ [Target(e) EXCEPT !.mem = row.is.mem] \in Container
BY DEF Target, Container

(* A checkpoint, also one that refuses and parks the operation, keeps the  *)
(* types of operation and attempt.                                         *)
LEMMA CheckpointType ==
    ASSUME TypeOK, NEW a \in Attempts, att[a].gen \in Gens, NEW to \in OpStates, NEW next \in AttPcs,
           NEW proven \in {"yes", "no"}, checkpoint(a, to, next, proven)
    PROVE  op' \in [Gens -> Operation] /\ att' \in [Attempts -> Attempt]
<1> DEFINE g == att[a].gen
<1>1. Quiet \in Attempt
  BY ConstantsAssumption DEF Quiet, Attempt, AttPcs
<1>2. parkInterruptedAttempt(op[g].state) \in OpStates
  BY DEF parkInterruptedAttempt, TypeOK, Operation, OpStates
<1>3. op[g] \in Operation /\ att[a] \in Attempt
  BY DEF TypeOK
<1>4. \A s \in OpStates : [op EXCEPT ![g].state = s] \in [Gens -> Operation]
  BY <1>3 DEF TypeOK, Operation
<1>5. [att EXCEPT ![a].pc = next, ![a].proven = proven] \in [Attempts -> Attempt]
  BY <1>3 DEF TypeOK, Attempt
<1>6. [att EXCEPT ![a] = Quiet] \in [Attempts -> Attempt]
  BY <1>1 DEF TypeOK
<1> QED BY <1>2, <1>4, <1>5, <1>6 DEF checkpoint

(* A job knows what it was accepted for: the epoch or image is one of the  *)
(* bounded ones, and the generation is the row's.                          *)
LEMMA AcceptedType ==
    ASSUME TypeInv
    PROVE  /\ job.kind = "configure" => job.arg \in Configs /\ row.is \in Container
           /\ job.kind = "upgrade" => job.arg \in Images /\ row.is \in Container
           /\ job.pc # "none" => job.gen = row.gen /\ job.gen \in Gens
BY DEF TypeInv, JobInv, IsInv, Idle

(* The ways an inventory is written keep its type.                         *)
LEMMA InventoryType ==
    ASSUME TypeOK, NEW g \in Gens
    PROVE  /\ \A s \in {"none", "CAPTURING", "READY"}, rs \in SUBSET Descriptor :
                [inv EXCEPT ![g].state = s, ![g].res = @ \cup rs] \in [Gens -> Inventory]
           /\ \A s \in {"none", "CAPTURING", "READY"}, rs \in SUBSET Descriptor :
                [inv EXCEPT ![g].res = rs, ![g].state = s] \in [Gens -> Inventory]
           /\ \A s \in {"none", "CAPTURING", "READY"} :
                [inv EXCEPT ![g].state = s] \in [Gens -> Inventory]
           /\ \A rs \in SUBSET Descriptor : [inv EXCEPT ![g].res = @ \cup rs] \in [Gens -> Inventory]
           /\ [inv EXCEPT ![g].signed = "yes"] \in [Gens -> Inventory]
           /\ inv[g].res \in SUBSET Descriptor /\ inv[g].res \cup {Route} \in SUBSET Descriptor
<1>1. inv \in [Gens -> Inventory] /\ inv[g] \in Inventory
  BY DEF TypeOK
<1>2. inv[g].res \in SUBSET Descriptor /\ inv[g].res \cup {Route} \in SUBSET Descriptor
  BY <1>1 DEF Inventory, Descriptor
<1>3. \A s \in {"none", "CAPTURING", "READY"}, rs \in SUBSET Descriptor :
         [inv EXCEPT ![g].res = rs, ![g].state = s] \in [Gens -> Inventory]
  BY <1>1 DEF Inventory
<1>4. \A s \in {"none", "CAPTURING", "READY"}, rs \in SUBSET Descriptor :
         [inv EXCEPT ![g].state = s, ![g].res = @ \cup rs] \in [Gens -> Inventory]
  BY <1>1 DEF Inventory
<1>5. \A s \in {"none", "CAPTURING", "READY"} : [inv EXCEPT ![g].state = s] \in [Gens -> Inventory]
  BY <1>1 DEF Inventory
<1>6. \A rs \in SUBSET Descriptor : [inv EXCEPT ![g].res = @ \cup rs] \in [Gens -> Inventory]
  BY <1>1 DEF Inventory
<1>7. [inv EXCEPT ![g].signed = "yes"] \in [Gens -> Inventory]
  BY <1>1 DEF Inventory
<1> QED BY <1>2, <1>3, <1>4, <1>5, <1>6, <1>7

(* Taking a command of the Hub keeps every type.                           *)
LEMMA HubType == ASSUME ConstantsAssumption, TypeInv, hubStep PROVE TypeOK'
<1>t. TypeOK
  BY DEF TypeInv
<1>0. Idle \in Job /\ Installed \in Container /\ Gens \subseteq 0..MaxGen
  BY DEF Idle, Job, JobPcs, Replies, Installed, Container, Images, Configs, Gens, ConstantsAssumption
<1>1. ASSUME NEW g \in Gens, deployMcpV3(g) PROVE TypeOK'
  <2>1. row' \in Row
    <3>1. \A q \in Plans : FreshRow(g, q) \in Row
      BY <1>0 DEF FreshRow, Row, States
    <3> QED BY <1>1, <1>t, <3>1, NewPlanType DEF deployMcpV3, TypeOK
  <2>2. job' \in Job
    BY <1>0, <1>1 DEF deployMcpV3, Job, JobPcs, Idle
  <2> QED BY <1>t, <1>1, <2>1, <2>2 DEF deployMcpV3, TypeOK, Answers
<1>6. ASSUME NEW g \in Gens, acceptInstall(g) \/ refuseInstall(g) PROVE TypeOK'
  BY <1>t, <1>6 DEF acceptInstall, refuseInstall, TypeOK
<1>2. ASSUME NEW g \in Gens, activateMcpV3(g) PROVE TypeOK'
  <2>1. [Idle EXCEPT !.kind = "activate", !.gen = g, !.pc = "establish"] \in Job
    BY <1>0 DEF Job, JobPcs, Idle
  <2>2. told \in Answers /\ "repeated" \in Answers
    BY <1>t DEF TypeOK, Answers
  <2>3. job' \in Job /\ told' \in Answers
    BY <1>2, <2>1, <2>2, FinishType DEF activateMcpV3
  <2> QED BY <1>t, <1>2, <2>3 DEF activateMcpV3, TypeOK
<1>3. ASSUME NEW g \in Gens, recoverMcpV3InventoryAttestation(g) PROVE TypeOK'
  <2>1. plannedResources \subseteq Descriptor
    BY PlanType DEF plannedResources, Descriptor, Kinds
  <2>2. inv' \in [Gens -> Inventory]
    <3>1. [inv EXCEPT ![g].state = "READY", ![g].res = @ \cup plannedResources] \in [Gens -> Inventory]
      BY <1>t, <2>1, InventoryType
    <3> QED BY <1>t, <1>3, <3>1 DEF recoverMcpV3InventoryAttestation, TypeOK
  <2> QED BY <1>t, <1>3, <2>2 DEF recoverMcpV3InventoryAttestation, TypeOK
<1>4. ASSUME NEW e \in Configs, reconfigureMcpV3(e) PROVE TypeOK'
  <2>1. row.gen \in Gens /\ e \in Nat
    BY <1>4 DEF reconfigureMcpV3, acceptReconfigure, Configs
  <2>2. [Idle EXCEPT !.kind = "configure", !.gen = row.gen, !.arg = e, !.pc = "forward"] \in Job
    BY <1>0, <2>1 DEF Idle, Job, JobPcs
  <2>3. job' \in Job /\ told' \in Answers
    BY <1>t, <1>0, <1>4, <2>2, FinishType DEF reconfigureMcpV3, TypeOK, Answers
  <2> QED BY <1>t, <1>4, <2>3 DEF reconfigureMcpV3, TypeOK
<1>5. ASSUME NEW n \in Images, upgradeMcpV3(n) PROVE TypeOK'
  <2>1. row.gen \in Gens /\ n \in Nat
    BY <1>5 DEF upgradeMcpV3, acceptUpgrade, Images
  <2>2. [Idle EXCEPT !.kind = "upgrade", !.gen = row.gen, !.arg = n, !.pc = "forward"] \in Job
    BY <1>0, <2>1 DEF Idle, Job, JobPcs
  <2>3. job' \in Job /\ told' \in Answers
    BY <1>t, <1>0, <1>5, <2>2, FinishType DEF upgradeMcpV3, TypeOK, Answers
  <2> QED BY <1>t, <1>5, <2>3 DEF upgradeMcpV3, TypeOK
<1> QED BY <1>1, <1>2, <1>3, <1>4, <1>5, <1>6 DEF hubStep

(* Every step of an install and of an activation keeps every type          *)
(* (deployMcpV3, activateMcpV3).                                           *)
LEMMA InstallType ==
    ASSUME ConstantsAssumption, TypeInv,
           \/ buildCapturingRuntimeResourceInventoryV3 \/ deployReplica \/ parseMcpV3ReplicaResponse
           \/ deployFailed \/ finalizeRuntimeResourceInventoryV3 \/ finalizeReplicas
           \/ quarantineRow \/ establish
    PROVE  TypeOK'
<1>t. TypeOK
  BY DEF TypeInv
<1>0. "failed" \in Answers /\ "active" \in Answers /\ Idle \in Job
  BY DEF Answers, Idle, Job, JobPcs, Replies, ConstantsAssumption
<1>g. job.pc # "none" => job.gen \in Gens
  BY AcceptedType
<1>1. CASE buildCapturingRuntimeResourceInventoryV3
  <2>1. inv' \in [Gens -> Inventory]
    BY <1>t, <1>g, <1>1, InventoryType DEF buildCapturingRuntimeResourceInventoryV3, TypeOK
  <2>2. job' \in Job
    BY <1>t, <1>1 DEF buildCapturingRuntimeResourceInventoryV3, TypeOK, Job, JobPcs
  <2> QED BY <1>t, <1>1, <2>1, <2>2 DEF buildCapturingRuntimeResourceInventoryV3, TypeOK
<1>2. CASE deployReplica
  <2>1. row.plan \ row.reported # {} /\ row.plan \ row.reported \subseteq Nat
    BY <1>2, PlanType DEF deployReplica
  <2>2. Min(row.plan \ row.reported) \in Replicas
    BY <2>1, MinIn, PlanType
  <2>3. Installed \in Container
    BY ConstantsAssumption DEF Installed, Container, Images, Configs
  <2>4. job' \in Job /\ calls' \subseteq Call /\ raced' \subseteq Gens
    BY <1>t, <1>g, <1>2, <2>2, <2>3, RequestType DEF deployReplica
  <2> QED BY <1>t, <1>2, <2>4 DEF deployReplica, TypeOK
<1>3. CASE parseMcpV3ReplicaResponse
  <2>1. job.at \in Replicas
    BY <1>3 DEF TypeInv, JobInv, parseMcpV3ReplicaResponse, Replied
  <2>2. expectedResources({job.at}) \subseteq Descriptor
    BY <2>1 DEF expectedResources, Parts, Descriptor
  <2>3. inv' \in [Gens -> Inventory]
    BY <1>t, <1>g, <1>3, <2>2, InventoryType DEF parseMcpV3ReplicaResponse, TypeOK
  <2>4. job' \in Job
    BY <1>t, <1>3 DEF parseMcpV3ReplicaResponse, TypeOK, Job, Replies
  <2>5. row' \in Row
    BY <1>t, <1>3, <2>1 DEF parseMcpV3ReplicaResponse, TypeOK, Row
  <2> QED BY <1>t, <1>3, <2>3, <2>4, <2>5 DEF parseMcpV3ReplicaResponse, TypeOK
<1>4. CASE deployFailed
  BY <1>t, <1>0, <1>4, FinishType DEF deployFailed, TypeOK
<1>5. CASE finalizeRuntimeResourceInventoryV3
  <2>1. inv' \in [Gens -> Inventory]
    <3>1. /\ inv[job.gen].res \in SUBSET Descriptor
          /\ inv[job.gen].res \cup {Route} \in SUBSET Descriptor
      <4>1. job.gen \in Gens
        BY <1>g, <1>5 DEF finalizeRuntimeResourceInventoryV3
      <4> QED BY <4>1, <1>t, InventoryType
    <3>2. PICK rs \in {inv[job.gen].res, inv[job.gen].res \cup {Route}} :
             inv' = [inv EXCEPT ![job.gen].res = rs, ![job.gen].state = "READY"]
      BY <1>5 DEF finalizeRuntimeResourceInventoryV3
    <3>3. [inv EXCEPT ![job.gen].res = rs, ![job.gen].state = "READY"] \in [Gens -> Inventory]
      <4>1. inv \in [Gens -> Inventory] /\ job.gen \in Gens /\ inv[job.gen] \in Inventory /\ rs \in SUBSET Descriptor
        BY <1>t, <1>g, <1>5, <3>1 DEF finalizeRuntimeResourceInventoryV3, TypeOK
      <4> QED BY <4>1 DEF Inventory
    <3> QED BY <3>2, <3>3
  <2>2. job' \in Job /\ told' \in Answers
    BY <1>t, <1>0, <1>5, FinishType DEF finalizeRuntimeResourceInventoryV3, TypeOK, Job, JobPcs
  <2> QED BY <1>t, <1>5, <2>1, <2>2 DEF finalizeRuntimeResourceInventoryV3, TypeOK
<1>6. CASE finalizeReplicas
  <2>1. job' \in Job /\ told' \in Answers
    BY <1>t, <1>0, <1>6, FinishType DEF finalizeReplicas, TypeOK, Job, JobPcs
  <2>2. side' \subseteq Gens \X Replicas \X {"broker", "volume"}
    BY <1>t, <1>g, <1>6, PlanType DEF finalizeReplicas, TypeOK
  <2>3. spent' \in [faults : 0..MaxFaults, timeouts : 0..MaxTimeouts, crashes : 0..MaxCrashes]
    BY <1>t, <1>6, FaultType DEF finalizeReplicas, TypeOK
  <2> QED BY <1>t, <1>6, <2>1, <2>2, <2>3 DEF finalizeReplicas, TypeOK
<1>7. CASE quarantineRow
  <2>1. job' \in Job /\ told' \in Answers /\ sign' \subseteq Gens
    BY <1>t, <1>g, <1>0, <1>7, FinishType DEF quarantineRow, TypeOK
  <2>2. row' \in Row
    BY <1>t, <1>7 DEF quarantineRow, TypeOK, Row, States
  <2> QED BY <1>t, <1>7, <2>1, <2>2 DEF quarantineRow, TypeOK
<1>8. CASE establish
  <2>1. job' \in Job /\ told' \in Answers
    BY <1>t, <1>0, <1>8, FinishType DEF establish, TypeOK
  <2>2. row' \in Row
    BY <1>t, <1>8 DEF establish, TypeOK, Row, States
  <2> QED BY <1>t, <1>8, <2>1, <2>2 DEF establish, TypeOK
<1> QED BY <1>1, <1>2, <1>3, <1>4, <1>5, <1>6, <1>7, <1>8

(* The replica a reconfigure, rollback or upgrade turns to next is one the *)
(* row reports.                                                            *)
LEMMA NextReplica ==
    ASSUME ConstantsAssumption, TypeInv
    PROVE  /\ job.done # row.reported => Min(row.reported \ job.done) \in row.reported \ job.done
           /\ job.done # {} => Min(job.done) \in job.done
           /\ row.reported \subseteq Replicas
           /\ job.done \subseteq row.reported
<1>1. row.reported \subseteq Replicas /\ job.done \subseteq row.reported /\ Replicas \subseteq Nat
  BY DEF TypeInv, TypeOK, JobInv, Row, ConstantsAssumption
<1>2. ASSUME job.done # row.reported PROVE Min(row.reported \ job.done) \in row.reported \ job.done
  <2>1. row.reported \ job.done # {} /\ row.reported \ job.done \subseteq Nat
    BY <1>1, <1>2
  <2> QED BY <2>1, MinIn
<1>3. ASSUME job.done # {} PROVE Min(job.done) \in job.done
  BY <1>1, <1>3, MinIn
<1> QED BY <1>1, <1>2, <1>3

(* Every step of a reconfigure keeps every type (reconfigureMcpV3).        *)
LEMMA ReconfigureType ==
    ASSUME ConstantsAssumption, TypeInv,
           \/ reconfigureReplica \/ reconfigureReplied \/ rollbackReplica \/ persistConfig
    PROVE  TypeOK'
<1>t. TypeOK
  BY DEF TypeInv
<1>0. "failed" \in Answers /\ "applied" \in Answers /\ Idle \in Job
  BY DEF Answers, Idle, Job, JobPcs, Replies, ConstantsAssumption
<1>k. job.kind = "configure"
  BY DEF reconfigureReplica, reconfigureReplied, rollbackReplica, persistConfig
<1>g. job.gen \in Gens /\ job.arg \in Configs /\ row.is \in Container
  BY <1>k, AcceptedType DEF TypeInv, JobInv, Idle
<1>c. Target(job.arg) \in Container /\ [Target(job.arg) EXCEPT !.mem = row.is.mem] \in Container
  BY <1>g, TargetType
<1>1. CASE reconfigureReplica
  <2>1. Min(row.reported \ job.done) \in Replicas
    BY <1>1, NextReplica DEF reconfigureReplica
  <2>2. job' \in Job /\ calls' \subseteq Call /\ raced' \subseteq Gens
    BY <1>t, <1>g, <1>c, <1>1, <2>1, RequestType DEF reconfigureReplica
  <2> QED BY <1>t, <1>1, <2>2 DEF reconfigureReplica, TypeOK
<1>2. CASE reconfigureReplied
  <2>1. job.reply # "none" => job.at \in Replicas
    BY DEF TypeInv, JobInv
  <2>2. CASE Finish("failed")
    BY <1>t, <1>0, <1>2, <2>2, FinishType DEF reconfigureReplied, TypeOK
  <2>3. CASE Replied({"ok"}) /\ job' = [job EXCEPT !.done = @ \cup {job.at}, !.reply = "none"] /\ UNCHANGED told
    <3>1. job' \in Job
      BY <1>t, <2>1, <2>3 DEF TypeOK, Job, Replies, Replied
    <3> QED BY <1>t, <1>2, <2>3, <3>1 DEF reconfigureReplied, TypeOK
  <2>4. CASE job' = [job EXCEPT !.pc = "back", !.reply = "none"] /\ UNCHANGED told
    <3>1. job' \in Job
      BY <1>t, <2>4 DEF TypeOK, Job, Replies, JobPcs
    <3> QED BY <1>t, <1>2, <2>4, <3>1 DEF reconfigureReplied, TypeOK
  <2> QED BY <1>2, <2>2, <2>3, <2>4 DEF reconfigureReplied
<1>3. CASE rollbackReplica
  <2>1. CASE /\ job.done # {}
             /\ request("reconfigure", Min(job.done), [Target(job.arg) EXCEPT !.mem = row.is.mem])
             /\ UNCHANGED told
    <3>1. Min(job.done) \in Replicas
      BY <2>1, NextReplica
    <3>2. job' \in Job /\ calls' \subseteq Call /\ raced' \subseteq Gens
      BY <1>t, <1>g, <1>c, <2>1, <3>1, RequestType
    <3> QED BY <1>t, <1>3, <2>1, <3>2 DEF rollbackReplica, TypeOK
  <2>2. CASE /\ job' = [job EXCEPT !.done = @ \ {job.at}, !.reply = "none"]
             /\ UNCHANGED <<told, calls, raced>>
    <3>1. job' \in Job
      BY <1>t, <2>2 DEF TypeOK, Job, Replies
    <3> QED BY <1>t, <1>3, <2>2, <3>1 DEF rollbackReplica, TypeOK
  <2>3. CASE Finish("failed") /\ UNCHANGED <<calls, raced>>
    BY <1>t, <1>0, <1>3, <2>3, FinishType DEF rollbackReplica, TypeOK
  <2> QED BY <1>3, <2>1, <2>2, <2>3 DEF rollbackReplica
<1>4. CASE persistConfig
  <2>1. job' \in Job /\ told' \in Answers
    BY <1>t, <1>0, <1>4, FinishType DEF persistConfig, TypeOK
  <2>2. row' \in Row
    BY <1>t, <1>c, <1>4 DEF persistConfig, TypeOK, Row
  <2>3. spent' \in [faults : 0..MaxFaults, timeouts : 0..MaxTimeouts, crashes : 0..MaxCrashes]
    BY <1>t, <1>4, FaultType DEF persistConfig, TypeOK
  <2> QED BY <1>t, <1>4, <2>1, <2>2, <2>3 DEF persistConfig, TypeOK
<1> QED BY <1>1, <1>2, <1>3, <1>4

(* Every step of an upgrade keeps every type (upgradeMcpV3).               *)
LEMMA UpgradeType ==
    ASSUME ConstantsAssumption, TypeInv,
           \/ upgradeReplica \/ upgradeReplied \/ persistUpgrade \/ revertReplica \/ upgradeFailed
    PROVE  TypeOK'
<1>t. TypeOK
  BY DEF TypeInv
<1>0. {"failed", "upgraded", "rolledback"} \subseteq Answers /\ Idle \in Job
  BY DEF Answers, Idle, Job, JobPcs, Replies, ConstantsAssumption
<1>k. job.kind = "upgrade"
  BY DEF upgradeReplica, upgradeReplied, persistUpgrade, revertReplica, upgradeFailed
<1>g. job.gen \in Gens /\ job.arg \in Images /\ row.is \in Container
  BY <1>k, AcceptedType DEF TypeInv, JobInv, Idle
<1>c. redeployBody(job.arg) \in Container /\ redeployBody(row.is.img) \in Container
  BY <1>g DEF redeployBody, Container
<1>1. CASE upgradeReplica
  <2>1. Min(row.reported \ job.done) \in Replicas
    BY <1>1, NextReplica DEF upgradeReplica
  <2>2. job' \in Job /\ calls' \subseteq Call /\ raced' \subseteq Gens
    BY <1>t, <1>g, <1>c, <1>1, <2>1, RequestType DEF upgradeReplica
  <2> QED BY <1>t, <1>1, <2>2 DEF upgradeReplica, TypeOK
<1>2. CASE upgradeReplied
  <2>1. job.reply # "none" => job.at \in Replicas
    BY DEF TypeInv, JobInv
  <2>3. ASSUME Replied({"ok"}), job' = [job EXCEPT !.done = @ \cup {job.at}, !.reply = "none"] PROVE job' \in Job
    BY <1>t, <2>1, <2>3 DEF TypeOK, Job, Replies, Replied
  <2>4. ASSUME job' = [job EXCEPT !.pc = "back", !.reply = "none"] PROVE job' \in Job
    BY <1>t, <2>4 DEF TypeOK, Job, Replies, JobPcs
  <2>5. ASSUME job' = [job EXCEPT !.pc = "back", !.reply = "none",
                                  !.recovered = IF job.reply = "recovered" THEN "yes" ELSE "no"]
        PROVE  job' \in Job
    <3> DEFINE v == IF job.reply = "recovered" THEN "yes" ELSE "no"
    <3>1. v \in {"unknown", "yes", "no"} /\ job' = [job EXCEPT !.pc = "back", !.reply = "none", !.recovered = v]
      BY <2>5
    <3> HIDE DEF v
    <3> QED BY <1>t, <3>1 DEF TypeOK, Job, Replies, JobPcs
  <2>6. job' \in Job
    BY <1>t, <1>2, <2>3, <2>4, <2>5 DEF upgradeReplied, TypeOK
  <2> QED BY <1>t, <1>2, <2>6 DEF upgradeReplied, TypeOK
<1>3. CASE persistUpgrade
  <2>1. CASE /\ row' = [row EXCEPT !.is.img = job.arg, !.is.ep = job.arg]
             /\ Finish("upgraded") /\ UNCHANGED spent
    <3>1. row' \in Row
      <4>1. [row.is EXCEPT !.img = job.arg, !.ep = job.arg] \in Container
        BY <1>g DEF Container
      <4>2. row' = [row EXCEPT !.is = [row.is EXCEPT !.img = job.arg, !.ep = job.arg]]
        BY <1>t, <1>g, <2>1 DEF TypeOK, Row, Container
      <4> QED BY <1>t, <4>1, <4>2 DEF TypeOK, Row
    <3>2. job' \in Job /\ told' \in Answers
      BY <1>0, <2>1, FinishType
    <3> QED BY <1>t, <1>3, <2>1, <3>1, <3>2 DEF persistUpgrade, TypeOK
  <2>2. CASE Fault /\ job' = [job EXCEPT !.pc = "back"] /\ UNCHANGED <<row, told>>
    <3>1. job' \in Job
      BY <1>t, <2>2 DEF TypeOK, Job, JobPcs
    <3>2. spent' \in [faults : 0..MaxFaults, timeouts : 0..MaxTimeouts, crashes : 0..MaxCrashes]
      BY <1>t, <2>2, FaultType
    <3> QED BY <1>t, <1>3, <2>2, <3>1, <3>2 DEF persistUpgrade, TypeOK
  <2> QED BY <1>3, <2>1, <2>2 DEF persistUpgrade
<1>4. CASE revertReplica
  <2>1. CASE job.done # {} /\ request("redeploy", Min(job.done), redeployBody(row.is.img))
    <3>1. Min(job.done) \in Replicas
      BY <2>1, NextReplica
    <3>2. job' \in Job /\ calls' \subseteq Call /\ raced' \subseteq Gens
      BY <1>t, <1>g, <1>c, <2>1, <3>1, RequestType
    <3> QED BY <1>t, <1>4, <2>1, <3>2 DEF revertReplica, TypeOK
  <2>2. CASE /\ job' = [job EXCEPT !.done = @ \ {job.at}, !.reply = "none",
                                   !.reverted = IF job.reply = "ok" THEN @ ELSE "some"]
             /\ UNCHANGED <<calls, raced>>
    <3>1. job' \in Job
      BY <1>t, <2>2 DEF TypeOK, Job, Replies
    <3> QED BY <1>t, <1>4, <2>2, <3>1 DEF revertReplica, TypeOK
  <2> QED BY <1>4, <2>1, <2>2 DEF revertReplica
<1>5. CASE upgradeFailed
  BY <1>t, <1>0, <1>5, FinishType DEF upgradeFailed, TypeOK
<1> QED BY <1>1, <1>2, <1>3, <1>4, <1>5

(* What an agent does with a request keeps every type; the image it puts   *)
(* back is the one it found.                                               *)
LEMMA AgentType == ASSUME ConstantsAssumption, TypeInv, NEW c \in calls,
                          deployManagedApp(c) \/ deployEnds(c) \/ swapBegins(c) \/ swapEnds(c)
                   PROVE  TypeOK'
<1>t. TypeOK
  BY DEF TypeInv
<1>c. c \in Call /\ <<c.gen, c.r>> \in Gens \X Replicas /\ c.to \in Container
  BY <1>t DEF TypeOK, Call
<1>h. Here(c) \in Container \cup {Gone}
  BY <1>t, <1>c DEF TypeOK, Here
<1>p. ASSUME NEW x \in Container \cup {Gone}, Put(c, x) PROVE ctr' \in [Gens \X Replicas -> Container \cup {Gone}]
  BY <1>t, <1>c, <1>p DEF TypeOK, Put
<1>s. {Broker(c), Volume(c)} \subseteq Gens \X Replicas \X {"broker", "volume"}
  BY <1>c DEF Broker, Volume, Call
<1>b. ASSUME NEW old \in 0..MaxImage, Begin(c, old) PROVE calls' \subseteq Call
  <2>1. [c EXCEPT !.phase = "gap", !.old = old] \in Call
    BY <1>c DEF Call
  <2> QED BY <1>t, <1>b, <2>1 DEF Begin, TypeOK
<1>r. \A answer \in {"ok", "refused", "lost", "recovered"} : respond(c, answer) => job' \in Job /\ calls' \subseteq Call
  BY <1>t, RespondType DEF Replies
<1>f. Fault => spent' \in [faults : 0..MaxFaults, timeouts : 0..MaxTimeouts, crashes : 0..MaxCrashes]
  BY <1>t, FaultType
<1>1. CASE deployManagedApp(c)
  <2>1. job' \in Job /\ calls' \subseteq Call
    BY <1>t, <1>1, <1>r, <1>b, ConstantsAssumption DEF deployManagedApp, TypeOK
  <2>2. side' \subseteq Gens \X Replicas \X {"broker", "volume"}
    BY <1>t, <1>1, <1>s DEF deployManagedApp, TypeOK
  <2> QED BY <1>t, <1>1, <2>1, <2>2 DEF deployManagedApp, TypeOK
<1>2. CASE deployEnds(c)
  <2>1. job' \in Job /\ calls' \subseteq Call
    BY <1>2, <1>r DEF deployEnds
  <2>2. side' \subseteq Gens \X Replicas \X {"broker", "volume"}
    BY <1>t, <1>2, <1>s DEF deployEnds, TypeOK
  <2>3. ctr' \in [Gens \X Replicas -> Container \cup {Gone}]
    BY <1>t, <1>2, <1>c, <1>p DEF deployEnds, TypeOK
  <2>4. spent' \in [faults : 0..MaxFaults, timeouts : 0..MaxTimeouts, crashes : 0..MaxCrashes]
    BY <1>t, <1>2, <1>f DEF deployEnds, TypeOK
  <2> QED BY <1>t, <1>2, <2>1, <2>2, <2>3, <2>4 DEF deployEnds, TypeOK
<1>3. CASE swapBegins(c)
  <2>0. Here(c) # Gone => Here(c).img \in 0..MaxImage
    BY <1>h DEF Container, Images
  <2>1. job' \in Job /\ calls' \subseteq Call
    BY <1>t, <1>3, <1>r, <1>b, <2>0 DEF swapBegins, TypeOK
  <2>2. side' \subseteq Gens \X Replicas \X {"broker", "volume"}
    BY <1>t, <1>3, <1>s DEF swapBegins, TypeOK
  <2>3. ctr' \in [Gens \X Replicas -> Container \cup {Gone}]
    BY <1>t, <1>3, <1>c, <1>p DEF swapBegins, TypeOK
  <2>4. spent' \in [faults : 0..MaxFaults, timeouts : 0..MaxTimeouts, crashes : 0..MaxCrashes]
    BY <1>t, <1>3, <1>f DEF swapBegins, TypeOK
  <2> QED BY <1>t, <1>3, <2>1, <2>2, <2>3, <2>4 DEF swapBegins, TypeOK
<1>4. CASE swapEnds(c)
  <2>1. job' \in Job /\ calls' \subseteq Call
    BY <1>4, <1>r DEF swapEnds
  <2>2. side' \subseteq Gens \X Replicas \X {"broker", "volume"}
    BY <1>t, <1>4, <1>s DEF swapEnds, TypeOK
  <2>3. ctr' \in [Gens \X Replicas -> Container \cup {Gone}]
    <3>1. c.kind = "redeploy" /\ c.phase = "gap" => [c.to EXCEPT !.img = c.old] \in Container
      BY <1>c DEF TypeInv, CallInv, Container
    <3> QED BY <1>t, <1>4, <1>c, <1>p, <3>1 DEF swapEnds, TypeOK
  <2>4. spent' \in [faults : 0..MaxFaults, timeouts : 0..MaxTimeouts, crashes : 0..MaxCrashes]
    BY <1>t, <1>4, <1>f DEF swapEnds, TypeOK
  <2> QED BY <1>t, <1>4, <2>1, <2>2, <2>3, <2>4 DEF swapEnds, TypeOK
<1> QED BY <1>1, <1>2, <1>3, <1>4

(* A request the master gives up keeps every type.                         *)
LEMMA TimeoutType ==
    ASSUME ConstantsAssumption, TypeInv, NEW c \in calls, timeout(c)
    PROVE  TypeOK'
<1>t. TypeOK
  BY DEF TypeInv
<1>1. c \in Call /\ [c EXCEPT !.await = "no"] \in Call
  BY <1>t DEF TypeOK, Call
<1>2. MaxTimeouts \in Nat
  BY DEF ConstantsAssumption
<1>3. spent' \in [faults : 0..MaxFaults, timeouts : 0..MaxTimeouts, crashes : 0..MaxCrashes]
  BY <1>t, <1>2 DEF timeout, TypeOK
<1>4. job' \in Job
  BY <1>t DEF timeout, TypeOK, Job, Replies
<1>5. calls' \subseteq Call /\ late' \subseteq Gens
  BY <1>t, <1>1 DEF timeout, TypeOK, Call
<1> QED BY <1>t, <1>3, <1>4, <1>5 DEF timeout, TypeOK

(* Opening an uninstall, or finding it again, keeps every type.            *)
LEMMA OpenType ==
    ASSUME ConstantsAssumption, TypeOK, NEW a \in Attempts, NEW g \in Gens, openOperation(a, g)
    PROVE  TypeOK'
<1>1. op[g] \in Operation
  BY DEF TypeOK
<1>2. parkInterruptedAttempt(OpenedAs(g)) \in OpStates
  BY <1>1 DEF parkInterruptedAttempt, OpenedAs, Operation, OpStates
<1>3. op' \in [Gens -> Operation]
  BY <1>1, <1>2 DEF openOperation, TypeOK, Operation
<1>4. [gen |-> g, pc |-> "revoke", proven |-> "no"] \in Attempt
  BY DEF Attempt, AttPcs, Gens, ConstantsAssumption
<1>5. att' \in [Attempts -> Attempt]
  BY <1>4 DEF openOperation, TypeOK
<1> QED BY <1>3, <1>5 DEF openOperation, TypeOK

(* removeRuntimeResource only takes away.                                  *)
LEMMA RemoveType ==
    ASSUME TypeOK, NEW g, NEW rs, removeRuntimeResource(g, rs)
    PROVE  /\ ctr' \in [Gens \X Replicas -> Container \cup {Gone}]
           /\ side' \subseteq Gens \X Replicas \X {"broker", "volume"}
BY DEF removeRuntimeResource, TypeOK

(* Every phase of an uninstall keeps every type.                           *)
LEMMA AttemptType ==
    ASSUME ConstantsAssumption, TypeOK, NEW a \in Attempts, attemptStep(a), att[a].pc # "none" => att[a].gen \in Gens
    PROVE  TypeOK'
<1>s. {"ACCESS_REVOKED", "RUNTIME_REMOVING", "VERIFYING", "COMPLETED", "CLEANUP_REQUIRED"} \subseteq OpStates
      /\ {"remove", "verify", "acknowledge", "store"} \subseteq AttPcs
  BY DEF OpStates, AttPcs
<1>q. Quiet \in Attempt
  BY ConstantsAssumption DEF Quiet, Attempt, AttPcs
<1>a. att[a] \in Attempt
  BY DEF TypeOK
<1>1. CASE revokeDispatch(a)
  <2>1. op' \in [Gens -> Operation] /\ att' \in [Attempts -> Attempt]
    BY <1>1, <1>s, CheckpointType DEF revokeDispatch
  <2>2. row' \in Row
    BY <1>1 DEF revokeDispatch, TypeOK, Row, States
  <2> QED BY <1>1, <2>1, <2>2 DEF revokeDispatch, TypeOK
<1>2. CASE removeDeclaredResources(a)
  <2>1. op' \in [Gens -> Operation] /\ att' \in [Attempts -> Attempt]
    BY <1>2, <1>s, CheckpointType DEF removeDeclaredResources
  <2>2. /\ ctr' \in [Gens \X Replicas -> Container \cup {Gone}]
        /\ side' \subseteq Gens \X Replicas \X {"broker", "volume"}
    BY <1>2, RemoveType DEF removeDeclaredResources
  <2>3. spent' \in [faults : 0..MaxFaults, timeouts : 0..MaxTimeouts, crashes : 0..MaxCrashes]
    BY <1>2, FaultType DEF removeDeclaredResources, TypeOK
  <2>4. route' \in {"on", "off"}
    BY <1>2 DEF removeDeclaredResources, TypeOK
  <2> QED BY <1>2, <2>1, <2>2, <2>3, <2>4 DEF removeDeclaredResources, TypeOK
<1>3. CASE verifyDeclaredResources(a)
  <2>1. op' \in [Gens -> Operation] /\ att' \in [Attempts -> Attempt]
    BY <1>3, <1>s, CheckpointType DEF verifyDeclaredResources
  <2>2. spent' \in [faults : 0..MaxFaults, timeouts : 0..MaxTimeouts, crashes : 0..MaxCrashes]
    BY <1>3, FaultType DEF verifyDeclaredResources, TypeOK
  <2> QED BY <1>3, <2>1, <2>2 DEF verifyDeclaredResources, TypeOK
<1>4. CASE signFinalAcknowledgement(a)
  <2>1. op' \in [Gens -> Operation] /\ att' \in [Attempts -> Attempt]
    BY <1>4, <1>s, <1>a, CheckpointType DEF signFinalAcknowledgement, Verdict, Attempt
  <2> QED BY <1>4, <2>1 DEF signFinalAcknowledgement, TypeOK
<1>5. CASE storeAcknowledgement(a)
  <2>1. [state |-> Verdict(a), ack |-> "stored"] \in Operation
    BY <1>s DEF Verdict, Operation
  <2>2. op' \in [Gens -> Operation]
    BY <1>5, <2>1 DEF storeAcknowledgement, TypeOK
  <2>3. att' \in [Attempts -> Attempt]
    BY <1>5, <1>a, <1>q DEF storeAcknowledgement, TypeOK, Attempt, AttPcs
  <2> QED BY <1>5, <2>2, <2>3 DEF storeAcknowledgement, TypeOK
<1>6. CASE retireRow(a)
  <2>1. row' \in Row
    BY <1>6 DEF retireRow, TypeOK, Row, States
  <2>2. att' \in [Attempts -> Attempt]
    BY <1>6, <1>q DEF retireRow, TypeOK
  <2> QED BY <1>6, <2>1, <2>2 DEF retireRow, TypeOK
<1> QED BY <1>1, <1>2, <1>3, <1>4, <1>5, <1>6 DEF attemptStep

(* The death of the master keeps every type.                               *)
LEMMA CrashType == ASSUME ConstantsAssumption, TypeOK, crash PROVE TypeOK'
<1>1. Idle \in Job /\ Quiet \in Attempt
  BY ConstantsAssumption DEF Idle, Job, JobPcs, Replies, Quiet, Attempt, AttPcs
<1>2. MaxCrashes \in Nat
  BY DEF ConstantsAssumption
<1>3. spent' \in [faults : 0..MaxFaults, timeouts : 0..MaxTimeouts, crashes : 0..MaxCrashes]
  BY <1>2 DEF crash, TypeOK
<1>4. \A c \in calls : c.gen \in Gens /\ [c EXCEPT !.await = "no"] \in Call
  BY DEF TypeOK, Call
<1>5. calls' \subseteq Call /\ late' \subseteq Gens
  <2>1. calls' = {[c EXCEPT !.await = "no"] : c \in calls} /\ late' = late \cup {c.gen : c \in calls}
    BY DEF crash
  <2>2. late \subseteq Gens
    BY DEF TypeOK
  <2>3. {c.gen : c \in calls} \subseteq Gens
    <3>1. \A c \in calls : c.gen \in Gens
      BY <1>4
    <3> QED BY <3>1
  <2>4. {[c EXCEPT !.await = "no"] : c \in calls} \subseteq Call
    BY <1>4
  <2> QED BY <2>1, <2>2, <2>3, <2>4
<1>6. told' \in Answers
  BY DEF crash, TypeOK, Answers
<1>7. att' \in [Attempts -> Attempt] /\ granted' \subseteq Gens /\ sign' \subseteq Gens
  BY <1>1 DEF crash
<1> QED BY <1>1, <1>3, <1>5, <1>6, <1>7 DEF crash, TypeOK

(* Signing an inventory keeps every type.                                  *)
LEMMA SignType == ASSUME TypeOK, NEW g \in Gens, signRuntimeInventoryAttestation(g) PROVE TypeOK'
<1>1. inv' \in [Gens -> Inventory]
  BY InventoryType DEF signRuntimeInventoryAttestation
<1>2. told' \in Answers
  BY DEF signRuntimeInventoryAttestation, TypeOK, Answers
<1> QED BY <1>1, <1>2 DEF signRuntimeInventoryAttestation, TypeOK

(* How the holder of the lock and the commands of the Hub touch the job    *)
(* and its requests: they take the lock, release it, go on without a       *)
(* request, or ask one agent when no answer is outstanding.                *)
LEMMA JobFrame ==
    ASSUME hubStep \/ jobStep
    PROVE  \/ UNCHANGED <<job, calls, late>>
           \/ job = Idle /\ UNCHANGED <<calls, late>>
           \/ job.pc = "none" /\ job' = Idle /\ UNCHANGED <<calls, late>>
           \/ job.pc \notin Asking /\ UNCHANGED <<calls, late>>
           \/ job.reply # "waiting" /\ UNCHANGED <<calls, late>>
           \/ /\ job.reply = "none" /\ UNCHANGED <<row, late, inv, ctr, side, op, att>> /\ job.pc \in Asking
              /\ \E kind \in {"deploy", "reconfigure", "redeploy"} : \E r, to : request(kind, r, to)
<1>1. CASE hubStep
  BY <1>1 DEF hubStep, acceptInstall, refuseInstall, deployMcpV3, activateMcpV3, acceptActivation,
     recoverMcpV3InventoryAttestation, reconfigureMcpV3, acceptReconfigure, upgradeMcpV3, acceptUpgrade
<1>2. CASE buildCapturingRuntimeResourceInventoryV3 \/ finalizeReplicas \/ quarantineRow \/ establish
  BY <1>2 DEF buildCapturingRuntimeResourceInventoryV3, finalizeReplicas, quarantineRow, establish, Asking
<1>3. CASE deployReplica
  BY <1>3 DEF deployReplica, Replied, Asking
<1>4. CASE parseMcpV3ReplicaResponse \/ deployFailed \/ finalizeRuntimeResourceInventoryV3
  BY <1>4 DEF parseMcpV3ReplicaResponse, deployFailed, finalizeRuntimeResourceInventoryV3, Replied
<1>5. CASE reconfigureReplica
  BY <1>5 DEF reconfigureReplica, Replied, Asking
<1>6. CASE reconfigureReplied \/ persistConfig
  BY <1>6 DEF reconfigureReplied, persistConfig, Replied
<1>7. CASE rollbackReplica
  BY <1>7 DEF rollbackReplica, Replied, Asking
<1>8. CASE upgradeReplica
  BY <1>8 DEF upgradeReplica, Replied, Asking
<1>9. CASE upgradeReplied \/ persistUpgrade \/ upgradeFailed
  BY <1>9 DEF upgradeReplied, persistUpgrade, upgradeFailed, Replied
<1>10. CASE revertReplica
  BY <1>10 DEF revertReplica, Replied, Asking
<1> QED BY <1>1, <1>2, <1>3, <1>4, <1>5, <1>6, <1>7, <1>8, <1>9, <1>10 DEF jobStep

(* While a job holds the lock the row stays that of its generation and     *)
(* plan, and forgets no reported replica; another document only takes a    *)
(* free slot, with a new plan.                                             *)
LEMMA GenStep ==
    ASSUME ConstantsAssumption, TypeInv, Next
    PROVE  /\ \/ row'.gen = row.gen /\ row'.plan = row.plan /\ row.reported \subseteq row'.reported
              \/ \E g \in Gens : /\ job = Idle /\ SlotFree /\ deployMcpV3(g)
                                  /\ NewPlan(g) \in FreshPlans(g)
                                  /\ row' = FreshRow(g, NewPlan(g))
           /\ IsInv'
<1> DEFINE Same == /\ row'.gen = row.gen /\ row'.plan = row.plan /\ row.reported \subseteq row'.reported
                   /\ IsInv'
<1>t. /\ row \in Row /\ row.gen \in Nat /\ Installed \in Container
      /\ row.gen \in Gens => row.is \in Container /\ row.plan \in Plans
      /\ row.reported \subseteq row.plan
  BY DEF TypeInv, TypeOK, Row, IsInv, Installed, Container, Images, Configs, ConstantsAssumption
<1>1. CASE UNCHANGED row
  BY <1>1, <1>t DEF IsInv
<1>2. ASSUME NEW g \in Gens, deployMcpV3(g)
      PROVE  \/ Same
             \/ /\ job = Idle /\ SlotFree /\ NewPlan(g) \in FreshPlans(g)
                /\ row' = FreshRow(g, NewPlan(g)) /\ IsInv'
  <2>1. CASE UNCHANGED row
    BY <2>1, <1>1
  <2>2. CASE SlotFree /\ FreshPlans(g) # {} /\ row' = FreshRow(g, NewPlan(g))
    <3>1. NewPlan(g) \in FreshPlans(g) /\ NewPlan(g) \in Plans
      BY <2>2, NewPlanType
    <3>2. row'.is = Installed /\ row'.plan = NewPlan(g) /\ row'.reported = {}
      BY <2>2 DEF FreshRow
    <3> QED BY <1>2, <2>2, <3>1, <3>2, <1>t DEF deployMcpV3, IsInv
  <2> QED BY <1>2, <2>1, <2>2 DEF deployMcpV3
<1>s. ASSUME row'.gen = row.gen, row'.plan = row.plan, row.reported \subseteq row'.reported,
             row'.reported \subseteq row.plan, row.is \in Container => row'.is \in Container
      PROVE  Same
  BY <1>s, <1>t DEF IsInv
<1>3. CASE parseMcpV3ReplicaResponse \/ quarantineRow \/ establish
  <2>1. /\ row'.gen = row.gen /\ row'.plan = row.plan /\ row.reported \subseteq row'.reported
        /\ row'.reported \subseteq row.plan /\ row'.is = row.is
    <3>1. CASE parseMcpV3ReplicaResponse
      <4>1. row' = [row EXCEPT !.reported = @ \cup {job.at}]
        BY <3>1 DEF parseMcpV3ReplicaResponse
      <4>2. job.at \in row.plan
        BY <3>1 DEF parseMcpV3ReplicaResponse, Replied, TypeInv, JobInv, Idle
      <4> QED BY <4>1, <4>2, <1>t DEF Row
    <3>2. CASE quarantineRow
      BY <3>2, <1>t DEF quarantineRow, Row
    <3>3. CASE establish
      BY <3>3, <1>t DEF establish, Row
    <3> QED BY <1>3, <3>1, <3>2, <3>3
  <2> QED BY <2>1, <1>s
<1>4. CASE persistConfig
  <2>1. row'.gen = row.gen /\ row'.plan = row.plan /\ row'.reported = row.reported
        /\ row'.is \in {row.is, Target(job.arg)} /\ job.kind = "configure"
    BY <1>4, <1>t DEF persistConfig, Row
  <2>2. Target(job.arg) \in Container
    BY <2>1, AcceptedType, TargetType
  <2> QED BY <2>1, <2>2, <1>s, <1>t
<1>5. CASE persistUpgrade
  <2>1. /\ row'.gen = row.gen /\ row'.plan = row.plan /\ row'.reported = row.reported /\ job.kind = "upgrade"
        /\ row'.is \in {row.is, [row.is EXCEPT !.img = job.arg, !.ep = job.arg]}
    <3>1. row.is \in Container /\ job.kind = "upgrade"
      BY <1>5, AcceptedType DEF persistUpgrade
    <3>2. UNCHANGED row \/ row' = [row EXCEPT !.is.img = job.arg, !.is.ep = job.arg]
      BY <1>5 DEF persistUpgrade
    <3> QED BY <3>1, <3>2, <1>t DEF Container, Row
  <2>2. row.is \in Container /\ job.arg \in Images
    BY <2>1, AcceptedType
  <2>3. [row.is EXCEPT !.img = job.arg, !.ep = job.arg] \in Container
    BY <2>2 DEF Container
  <2> QED BY <2>1, <2>2, <2>3, <1>s, <1>t
<1>6. CASE \E a \in Attempts : revokeDispatch(a) \/ retireRow(a)
  <2>1. row'.gen = row.gen /\ row'.plan = row.plan /\ row'.reported = row.reported /\ row'.is = row.is
    BY <1>6, <1>t DEF revokeDispatch, retireRow, Row
  <2> QED BY <2>1, <1>s, <1>t
<1> QED BY <1>1, <1>2, <1>3, <1>4, <1>5, <1>6, RowFrame

(* CallInv is kept: at most one request is waited for, it is the job's,    *)
(* and a request nobody waits for has made its generation late.            *)
LEMMA CallStep ==
    ASSUME ConstantsAssumption, TypeInv, Next
    PROVE  CallInv'
<1>t. TypeOK /\ CallInv
  BY DEF TypeInv
<1>c. \A c \in calls : c \in Call /\ c.gen \in Nat
  BY <1>t DEF TypeOK, Call, Gens
<1>0. ASSUME UNCHANGED <<calls, late>>, UNCHANGED job \/ job.reply # "waiting"
      PROVE  CallInv'
  BY <1>0, <1>t, <1>c DEF CallInv
<1>1. CASE hubStep \/ jobStep
  <2>1. ASSUME NEW kind \in {"deploy", "reconfigure", "redeploy"}, NEW r, NEW to, request(kind, r, to),
               job.reply = "none", UNCHANGED <<row, late>>, job.pc \in Asking
        PROVE  CallInv'
    <3> DEFINE new == [kind |-> kind, gen |-> job.gen, r |-> r, to |-> to, old |-> 0,
                       phase |-> "sent", await |-> "yes"]
    <3>1. /\ calls' = calls \cup {new} /\ new.await = "yes" /\ new.gen = job.gen /\ new.r = r /\ new.phase = "sent"
      BY <2>1 DEF request
    <3>2. job'.reply = "waiting" /\ job'.gen = job.gen /\ job'.at = r
      BY <2>1, <1>t DEF request, TypeOK, Job
    <3>3. \A c \in calls : c.await # "yes"
      BY <2>1, <1>t DEF CallInv
    <3>4. job.gen = row.gen
      BY <2>1 DEF TypeInv, JobInv, Idle, Asking
    <3> HIDE DEF new
    <3> QED BY <3>1, <3>2, <3>3, <3>4, <2>1, <1>t, <1>c DEF CallInv
  <2>2. job.pc \notin Asking => job.reply = "none"
    BY DEF TypeInv, JobInv
  <2>3. Idle.reply = "none"
    BY DEF Idle
  <2>4. job.pc = "none" => job.pc \notin Asking
    BY DEF Asking
  <2> QED BY <1>1, <1>0, <2>1, <2>2, <2>3, <2>4, JobFrame
<1>2. CASE \E g \in Gens : signRuntimeInventoryAttestation(g)
  BY <1>2, <1>0 DEF signRuntimeInventoryAttestation
<1>3. CASE agentStep
  <2>1. PICK c \in calls : deployManagedApp(c) \/ deployEnds(c) \/ swapBegins(c) \/ swapEnds(c)
    BY <1>3 DEF agentStep
  <2>2. ASSUME NEW answer, respond(c, answer), UNCHANGED <<row, late>> PROVE CallInv'
    <3>1. calls' = calls \ {c} /\ (c.await = "yes" => job' = [job EXCEPT !.reply = answer])
                               /\ (c.await # "yes" => job' = job)
      BY <2>2 DEF respond
    <3>2. c.await = "yes" => \A d \in calls' : d.await # "yes"
      BY <1>t, <3>1 DEF CallInv
    <3> QED BY <3>1, <3>2, <2>2, <1>t DEF CallInv
  <2>3. ASSUME NEW old, Begin(c, old), UNCHANGED <<row, job, late>>, c.kind # "deploy" => old \in Images
        PROVE  CallInv'
    <3> DEFINE b == [c EXCEPT !.phase = "gap", !.old = old]
    <3>1. b.gen = c.gen /\ b.r = c.r /\ b.await = c.await /\ b.kind = c.kind /\ b.old = old
      BY <1>c DEF Call
    <3>2. calls' = (calls \ {c}) \cup {b}
      BY <2>3 DEF Begin
    <3> HIDE DEF b
    <3> QED BY <3>1, <3>2, <2>3, <1>t DEF CallInv
  <2>4. CASE deployManagedApp(c)
    BY <2>4, <2>2, <2>3 DEF deployManagedApp
  <2>5. CASE deployEnds(c)
    BY <2>5, <2>2 DEF deployEnds
  <2>6. CASE swapBegins(c)
    <3>1. Here(c) # Gone => Here(c).img \in Images
      BY <1>t, <1>c DEF TypeOK, Here, Call, Container
    <3> QED BY <2>6, <2>2, <2>3, <3>1 DEF swapBegins
  <2>7. CASE swapEnds(c)
    BY <2>7, <2>2 DEF swapEnds
  <2> QED BY <2>1, <2>4, <2>5, <2>6, <2>7
<1>4. ASSUME NEW c \in calls, timeout(c) PROVE CallInv'
  <2> DEFINE b == [c EXCEPT !.await = "no"]
  <2>1. b.gen = c.gen /\ b.await = "no" /\ b.kind = c.kind /\ b.phase = c.phase /\ b.old = c.old
    BY <1>c DEF Call
  <2>2. calls' = (calls \ {c}) \cup {b} /\ late' = late \cup {c.gen} /\ UNCHANGED row /\ c.await = "yes"
    BY <1>4 DEF timeout
  <2>3. \A d \in calls' : d.await # "yes"
    BY <1>t, <2>1, <2>2 DEF CallInv
  <2> HIDE DEF b
  <2> QED BY <2>1, <2>2, <2>3, <1>t DEF CallInv
<1>5. CASE \E a \in Attempts : attemptStep(a) \/ \E g \in Gens : openOperation(a, g)
  BY <1>5, <1>0 DEF attemptStep, openOperation, revokeDispatch, removeDeclaredResources,
     verifyDeclaredResources, signFinalAcknowledgement, storeAcknowledgement, retireRow
<1>6. CASE crash
  <2>1. \A d \in calls' : \E c \in calls : d.gen = c.gen /\ d.await = "no" /\ d.kind = c.kind
                                           /\ d.phase = c.phase /\ d.old = c.old
    BY <1>6, <1>c DEF crash, Call
  <2>2. \A d \in calls' : d.gen \in late'
    BY <1>6, <2>1 DEF crash
  <2>3. UNCHANGED row
    BY <1>6 DEF crash
  <2> QED BY <2>1, <2>2, <2>3, <1>t DEF CallInv
<1> QED BY <1>1, <1>2, <1>3, <1>4, <1>5, <1>6 DEF Next

(* JobInv is kept: the holder of the lock works on the row it took, at a   *)
(* step its kind of command has.                                           *)
LEMMA JobStep ==
    ASSUME ConstantsAssumption, TypeInv, Next
    PROVE  JobInv'
<1>t. TypeOK /\ JobInv /\ job \in Job /\ row \in Row
  BY DEF TypeInv, TypeOK
<1>r. row.gen \in Gens => row.gen \in Nat
  BY DEF Gens
<1>0. job' = Idle => JobInv'
  BY DEF JobInv, Idle
<1>f. Finish("failed") \/ Finish("active") \/ Finish("applied") \/ Finish("upgraded") \/ Finish("refused")
      \/ Finish("rolledback") \/ Finish("repeated") => JobInv'
  BY <1>0 DEF Finish
<1>s. ASSUME job # Idle, row'.gen = row.gen, row'.plan = row.plan, row.reported \subseteq row'.reported, job' = job PROVE JobInv'
  BY <1>s, <1>t DEF JobInv
\* The job goes on: another place in its program, other replicas done.
<1>g. ASSUME job # Idle, row'.gen = row.gen, row'.plan = row.plan, row.reported \subseteq row'.reported,
             job'.kind = job.kind, job'.gen = job.gen, job'.arg = job.arg,
             \/ job'.pc = job.pc
             \/ job.kind = "install" /\ job'.pc \in {"inventory", "deploy", "finalize", "quarantine"}
             \/ job.kind \in {"configure", "upgrade"} /\ job'.pc \in {"forward", "back"},
             job'.done \subseteq row'.reported,
             job'.reply # "none" => job'.pc \in Asking /\ job'.at \in Replicas,
             job'.reply # "none" /\ job.kind # "install" => job'.at \in row'.reported,
             job'.reply # "none" /\ job.kind = "install" => job'.at \in row'.plan
      PROVE  JobInv'
  BY <1>g, <1>t DEF JobInv
<1>1. CASE hubStep
  <2>1. ASSUME NEW g \in Gens, deployMcpV3(g) PROVE JobInv'
    <3>1. job' = [Idle EXCEPT !.kind = "install", !.gen = g, !.pc = "inventory"] /\ row'.gen = g
      BY <2>1 DEF deployMcpV3, FreshRow, assertMcpV3AppAffinity
    <3> QED BY <3>1 DEF JobInv, Idle
  <2>2. ASSUME NEW g \in Gens, activateMcpV3(g) PROVE JobInv'
    BY <2>2, <1>f DEF activateMcpV3, acceptActivation, JobInv, Idle
  <2>3. ASSUME NEW g \in Gens, recoverMcpV3InventoryAttestation(g) PROVE JobInv'
    BY <2>3, <1>0 DEF recoverMcpV3InventoryAttestation
  <2>4. ASSUME NEW e \in Configs, reconfigureMcpV3(e) PROVE JobInv'
    BY <2>4, <1>f DEF reconfigureMcpV3, acceptReconfigure, JobInv, Idle
  <2>5. ASSUME NEW n \in Images, upgradeMcpV3(n) PROVE JobInv'
    BY <2>5, <1>f DEF upgradeMcpV3, acceptUpgrade, JobInv, Idle
  <2>6. ASSUME NEW g \in Gens, acceptInstall(g) \/ refuseInstall(g) PROVE JobInv'
    BY <2>6, <1>t DEF acceptInstall, refuseInstall, JobInv
  <2> QED BY <1>1, <2>1, <2>2, <2>3, <2>4, <2>5, <2>6 DEF hubStep
<1>2. CASE jobStep
  <2>i. job # Idle
    BY <1>2 DEF jobStep, buildCapturingRuntimeResourceInventoryV3, deployReplica, parseMcpV3ReplicaResponse,
       deployFailed, finalizeRuntimeResourceInventoryV3, finalizeReplicas, quarantineRow, establish,
       reconfigureReplica, reconfigureReplied, rollbackReplica, persistConfig,
       upgradeReplica, upgradeReplied, persistUpgrade, revertReplica, upgradeFailed, Idle
  <2>r. row'.gen = row.gen /\ row'.plan = row.plan /\ row.reported \subseteq row'.reported
    BY <2>i, GenStep
  <2>q. ASSUME NEW kind, NEW r \in Replicas, NEW to, request(kind, r, to), job.pc \in Asking,
               job.kind # "install" => r \in row.reported, job.kind = "install" => r \in row.plan
        PROVE  JobInv'
    <3>1. job' = [job EXCEPT !.at = r, !.reply = "waiting"]
      BY <2>q DEF request
    <3> QED BY <3>1, <1>t, <2>i, <2>r, <2>q, <1>g DEF Job, JobInv
  <2>1. CASE \/ buildCapturingRuntimeResourceInventoryV3 \/ deployReplica \/ parseMcpV3ReplicaResponse
             \/ deployFailed \/ finalizeRuntimeResourceInventoryV3 \/ finalizeReplicas
             \/ quarantineRow \/ establish
    <3>k. job.pc \in {"inventory", "deploy", "finalize", "quarantine"} => job.kind = "install"
      BY <1>t DEF JobInv, Idle
    <3>1. CASE buildCapturingRuntimeResourceInventoryV3
      BY <3>1, <3>k, <1>t, <1>g, <2>i, <2>r DEF buildCapturingRuntimeResourceInventoryV3, Job, JobInv, Asking
    <3>2. CASE deployReplica
      <4>1. row.plan \ row.reported # {} /\ row.plan \ row.reported \subseteq Nat
        BY <3>2, PlanType DEF deployReplica
      <4>2. Min(row.plan \ row.reported) \in row.plan /\ row.plan \subseteq Replicas
        BY <4>1, MinIn, PlanType
      <4> QED BY <3>2, <4>2, <3>k, <2>q DEF deployReplica, Asking
    <3>3. CASE parseMcpV3ReplicaResponse
      BY <3>3, <1>t, <1>g, <2>i, <2>r DEF parseMcpV3ReplicaResponse, Job, JobInv
    <3>4. CASE deployFailed
      BY <3>4, <1>f DEF deployFailed
    <3>5. CASE finalizeRuntimeResourceInventoryV3
      <4>1. Finish("failed") \/ job' = [job EXCEPT !.pc = "finalize"]
        BY <3>5 DEF finalizeRuntimeResourceInventoryV3
      <4>2. job.reply = "none" /\ job.pc = "deploy"
        BY <3>5 DEF finalizeRuntimeResourceInventoryV3, Replied
      <4> QED BY <4>1, <4>2, <3>k, <1>t, <1>f, <1>g, <2>i, <2>r DEF Job, JobInv
    <3>6. CASE finalizeReplicas
      <4>1. job.pc = "finalize" /\ (Finish("failed") \/ job' = [job EXCEPT !.pc = "quarantine"])
        BY <3>6 DEF finalizeReplicas
      <4> QED BY <4>1, <3>k, <1>t, <1>f, <1>g, <2>i, <2>r DEF Job, JobInv, Asking
    <3>7. CASE quarantineRow
      BY <3>7, <1>0, <1>f DEF quarantineRow
    <3>8. CASE establish
      BY <3>8, <1>f DEF establish
    <3> QED BY <2>1, <3>1, <3>2, <3>3, <3>4, <3>5, <3>6, <3>7, <3>8
  <2>2. CASE reconfigureReplica \/ reconfigureReplied \/ rollbackReplica \/ persistConfig
    <3>k. job.kind = "configure" /\ job.pc \in {"forward", "back"} /\ {"forward", "back"} \subseteq Asking
      BY <2>2 DEF reconfigureReplica, reconfigureReplied, rollbackReplica, persistConfig, Asking
    <3>a. job.reply # "none" => job.at \in Replicas
      BY <1>t DEF JobInv
    <3>1. CASE reconfigureReplica
      <4>1. Min(row.reported \ job.done) \in Replicas /\ Min(row.reported \ job.done) \in row.reported
        BY <3>1, NextReplica DEF reconfigureReplica
      <4> QED BY <3>1, <4>1, <3>k, <2>q DEF reconfigureReplica
    <3>2. CASE reconfigureReplied
      <4>1. CASE Replied({"ok"}) /\ job' = [job EXCEPT !.done = @ \cup {job.at}, !.reply = "none"]
        <5>1. job.at \in row.reported
          BY <4>1, <3>k, <1>t DEF JobInv, Replied
        <5> QED BY <4>1, <5>1, <1>t, <1>g, <2>i, <2>r DEF Job, JobInv
      <4>2. CASE job' = [job EXCEPT !.pc = "back", !.reply = "none"]
        BY <4>2, <3>k, <1>t, <1>g, <2>i, <2>r DEF Job, JobInv
      <4> QED BY <3>2, <4>1, <4>2, <1>f DEF reconfigureReplied
    <3>3. CASE rollbackReplica
      <4>1. CASE job.done # {} /\ request("reconfigure", Min(job.done), [Target(job.arg) EXCEPT !.mem = row.is.mem])
        BY <4>1, <3>k, <2>q, NextReplica
      <4>2. CASE job' = [job EXCEPT !.done = @ \ {job.at}, !.reply = "none"]
        BY <4>2, <1>t, <1>g, <2>i, <2>r DEF Job, JobInv
      <4> QED BY <3>3, <4>1, <4>2, <1>f DEF rollbackReplica
    <3>4. CASE persistConfig
      BY <3>4, <1>f DEF persistConfig
    <3> QED BY <2>2, <3>1, <3>2, <3>3, <3>4
  <2>3. CASE upgradeReplica \/ upgradeReplied \/ persistUpgrade \/ revertReplica \/ upgradeFailed
    <3>k. job.kind = "upgrade" /\ job.pc \in {"forward", "back"} /\ {"forward", "back"} \subseteq Asking
      BY <2>3 DEF upgradeReplica, upgradeReplied, persistUpgrade, revertReplica, upgradeFailed, Asking
    <3>1. CASE upgradeReplica
      <4>1. Min(row.reported \ job.done) \in Replicas /\ Min(row.reported \ job.done) \in row.reported
        BY <3>1, NextReplica DEF upgradeReplica
      <4> QED BY <3>1, <4>1, <3>k, <2>q DEF upgradeReplica
    <3>2. CASE upgradeReplied
      <4>1. CASE Replied({"ok"}) /\ job' = [job EXCEPT !.done = @ \cup {job.at}, !.reply = "none"]
        <5>1. job.at \in row.reported
          BY <4>1, <3>k, <1>t DEF JobInv, Replied
        <5> QED BY <4>1, <5>1, <1>t, <1>g, <2>i, <2>r DEF Job, JobInv
      <4>2. CASE \/ job' = [job EXCEPT !.pc = "back", !.reply = "none"]
                 \/ job' = [job EXCEPT !.pc = "back", !.reply = "none",
                                       !.recovered = IF job.reply = "recovered" THEN "yes" ELSE "no"]
        <5>1. /\ job'.kind = job.kind /\ job'.gen = job.gen /\ job'.arg = job.arg /\ job'.pc = "back"
              /\ job'.done = job.done /\ job'.reply = "none"
          BY <4>2, <1>t DEF Job
        <5> QED BY <5>1, <3>k, <1>t, <1>g, <2>i, <2>r DEF JobInv
      <4> QED BY <3>2, <4>1, <4>2 DEF upgradeReplied
    <3>3. CASE persistUpgrade
      <4>1. Replied({"none"}) /\ (Finish("upgraded") \/ job' = [job EXCEPT !.pc = "back"])
        BY <3>3 DEF persistUpgrade
      <4> QED BY <4>1, <3>k, <1>t, <1>f, <1>g, <2>i, <2>r DEF Job, JobInv, Replied
    <3>4. CASE revertReplica
      <4>1. CASE job.done # {} /\ request("redeploy", Min(job.done), redeployBody(row.is.img))
        BY <4>1, <3>k, <2>q, NextReplica
      <4>2. CASE job' = [job EXCEPT !.done = @ \ {job.at}, !.reply = "none",
                                    !.reverted = IF job.reply = "ok" THEN @ ELSE "some"]
        BY <4>2, <1>t, <1>g, <2>i, <2>r DEF Job, JobInv
      <4> QED BY <3>4, <4>1, <4>2 DEF revertReplica
    <3>5. CASE upgradeFailed
      <4>1. job' = Idle
        BY <3>5 DEF upgradeFailed, Finish
      <4> QED BY <4>1, <1>0
    <3> QED BY <2>3, <3>1, <3>2, <3>3, <3>4, <3>5
  <2> QED BY <1>2, <2>1, <2>2, <2>3 DEF jobStep
<1>u. ASSUME UNCHANGED <<row, job>> PROVE JobInv'
  BY <1>u, <1>t DEF JobInv
<1>3. CASE \E g \in Gens : signRuntimeInventoryAttestation(g)
  BY <1>3, <1>u DEF signRuntimeInventoryAttestation
\* Only a job that waits is answered.
<1>w. ASSUME NEW c \in calls, c.await = "yes", NEW answer, job' = [job EXCEPT !.reply = answer], UNCHANGED row
      PROVE  JobInv'
  <2>1. job.reply = "waiting"
    BY <1>w DEF TypeInv, CallInv
  <2>2. /\ job.pc \in Asking /\ job.at \in Replicas /\ job # Idle /\ job.done \subseteq row.reported
        /\ job.kind # "install" => job.at \in row.reported
        /\ job.kind = "install" => job.at \in row.plan
    BY <2>1, <1>t DEF JobInv, Idle
  <2>3. /\ job'.kind = job.kind /\ job'.gen = job.gen /\ job'.arg = job.arg /\ job'.pc = job.pc
        /\ job'.at = job.at /\ job'.done = job.done /\ row' = row
    BY <1>w, <1>t DEF Job
  <2> QED BY <2>2, <2>3, <1>g
<1>4. CASE agentStep
  <2>1. PICK c \in calls : deployManagedApp(c) \/ deployEnds(c) \/ swapBegins(c) \/ swapEnds(c)
    BY <1>4 DEF agentStep
  <2>2. UNCHANGED row
    BY <2>1 DEF deployManagedApp, deployEnds, swapBegins, swapEnds
  <2>3. ASSUME NEW answer, respond(c, answer) PROVE JobInv'
    BY <2>2, <2>3, <1>u, <1>w DEF respond
  <2> QED BY <2>1, <2>2, <2>3, <1>u DEF deployManagedApp, deployEnds, swapBegins, swapEnds
<1>5. ASSUME NEW c \in calls, timeout(c) PROVE JobInv'
  BY <1>5, <1>w DEF timeout
<1>6. CASE \E a \in Attempts : attemptStep(a) \/ \E g \in Gens : openOperation(a, g)
  <2>1. UNCHANGED job
    BY <1>6 DEF attemptStep, openOperation, revokeDispatch, removeDeclaredResources,
       verifyDeclaredResources, signFinalAcknowledgement, storeAcknowledgement, retireRow
  <2> QED BY <2>1, <1>0, <1>s, GenStep
<1>7. CASE crash
  BY <1>7, <1>0 DEF crash
<1> QED BY <1>1, <1>2, <1>3, <1>4, <1>5, <1>6, <1>7 DEF Next

(* AttInv is kept: an attempt under way names a generation.                *)
LEMMA AttStep ==
    ASSUME ConstantsAssumption, TypeInv, Next
    PROVE  AttInv'
<1>t. TypeOK /\ AttInv
  BY DEF TypeInv
<1>q. Quiet.pc = "none"
  BY DEF Quiet
<1>0. ASSUME UNCHANGED att PROVE AttInv'
  BY <1>0, <1>t DEF AttInv
<1>1. ASSUME NEW a \in Attempts, NEW g \in Gens, openOperation(a, g) PROVE AttInv'
  BY <1>1, <1>t DEF openOperation, AttInv, TypeOK
<1>2. ASSUME NEW a \in Attempts, attemptStep(a) PROVE AttInv'
  <2>1. att[a].gen \in Gens
    BY <1>2, <1>t DEF AttInv, attemptStep, revokeDispatch, removeDeclaredResources, verifyDeclaredResources,
       signFinalAcknowledgement, storeAcknowledgement, retireRow
  <2>2. att' \in [Attempts -> Attempt]
    BY <1>2, <1>t, AttemptType, <2>1 DEF TypeOK
  <2>3. \A b \in Attempts : b # a => att'[b] = att[b]
    BY <1>2, <1>t DEF attemptStep, revokeDispatch, removeDeclaredResources, verifyDeclaredResources,
       signFinalAcknowledgement, storeAcknowledgement, retireRow, checkpoint, TypeOK
  <2>4. att'[a] = Quiet \/ att'[a].gen = att[a].gen
    BY <1>2, <1>t DEF attemptStep, revokeDispatch, removeDeclaredResources, verifyDeclaredResources,
       signFinalAcknowledgement, storeAcknowledgement, retireRow, checkpoint, TypeOK, Attempt
  <2> QED BY <2>1, <2>3, <2>4, <1>t, <1>q DEF AttInv
<1>3. CASE crash
  BY <1>3, <1>q DEF crash, AttInv
<1> QED BY <1>0, <1>1, <1>2, <1>3, UninstallFrame

(* TypeInv is inductive.                                                   *)
LEMMA TypeStep ==
    ASSUME ConstantsAssumption, TypeInv, [Next]_vars
    PROVE  TypeInv'
<1>1. CASE Next
  <2>1. TypeOK'
    <3>1. TypeOK /\ \A a \in Attempts : att[a].pc # "none" => att[a].gen \in Gens
      BY DEF TypeInv, AttInv
    <3> QED BY <1>1, <3>1, HubType, InstallType, ReconfigureType, UpgradeType, SignType, AgentType, TimeoutType,
               AttemptType, OpenType, CrashType DEF Next, jobStep, agentStep
  <2>2. IsInv'
    BY <1>1, GenStep DEF IsInv
  <2>3. AttInv'
    BY <1>1, AttStep
  <2> QED BY <1>1, <2>1, <2>2, <2>3, JobStep, CallStep DEF TypeInv
<1>2. CASE UNCHANGED vars
  BY <1>2 DEF vars, TypeInv, TypeOK, JobInv, IsInv, CallInv, AttInv
<1> QED BY <1>1, <1>2

(* In every state the master can reach, the documents have the types of    *)
(* the code's interfaces, the job works on the row it took the lock for,   *)
(* and at most one agent request is waited for, by that job.               *)
THEOREM TypeCorrect == Spec => []TypeInv
<1>1. Init => TypeInv
  <2> SUFFICES ASSUME Init PROVE TypeInv
    OBVIOUS
  <2>1. /\ row \in Row /\ inv \in [Gens -> Inventory] /\ op \in [Gens -> Operation]
        /\ att \in [Attempts -> Attempt] /\ job \in Job
        /\ \A a \in Attempts : att[a].pc = "none"
    BY ConstantsAssumption DEF Init, Row, States, Inventory, Operation, OpStates, Attempt, AttPcs, Job, JobPcs, Replies,
       Idle, Quiet
  <2>2. spent \in [faults : 0..MaxFaults, timeouts : 0..MaxTimeouts, crashes : 0..MaxCrashes]
    BY ConstantsAssumption DEF Init
  <2>3. TypeOK
    BY <2>1, <2>2 DEF Init, TypeOK, Answers
  <2>4. JobInv /\ IsInv /\ CallInv
    BY <2>1 DEF Init, JobInv, IsInv, CallInv, Idle, Gens
  <2> QED BY <2>1, <2>3, <2>4 DEF TypeInv, AttInv
<1> QED BY <1>1, TypeStep, ConstantsAssumption, PTL DEF Spec

-----------------------------------------------------------------------------
(* What is declared.                                                       *)

Full == Parts(row.plan) \cup {Route}
Closed(g) == inv[g].state = "READY" /\ inv[g].res = Full

\* An inventory is signed when it is READY.  The row is bound, and the job comes to
\* its last steps, with every replica reported and everything declared.
DeclaredInv ==
    /\ \A g \in Gens : inv[g].signed = "yes" => inv[g].state = "READY"
    /\ row.bound = "yes" => row.gen \in Gens /\ row.reported = row.plan /\ Closed(row.gen)
    /\ job.pc \in {"finalize", "quarantine"} => row.reported = row.plan /\ Closed(job.gen)
    /\ row.state = "RUNNING" \/ job.pc = "establish" =>
          row.bound = "yes" /\ inv[row.gen].signed = "yes"

(* A READY inventory stays READY with the resources it has, and only a     *)
(* READY one is signed: buildCapturing... and addToSet touch CAPTURING     *)
(* documents only.                                                         *)
LEMMA ReadyIsFixed ==
    ASSUME ConstantsAssumption, TypeInv, [Next]_vars, NEW g \in Gens
    PROVE  /\ inv[g].state = "READY" => inv'[g].state = "READY" /\ inv'[g].res = inv[g].res
           /\ inv[g].signed = "yes" => inv'[g].signed = "yes"
           /\ inv[g].signed = "no" /\ inv'[g].signed = "yes" => inv[g].state = "READY"
           /\ inv[g].signed \in {"no", "yes"}
<1>t. inv \in [Gens -> Inventory] /\ inv[g] \in Inventory /\ (job.pc # "none" => job.gen \in Gens)
  BY AcceptedType DEF TypeInv, TypeOK
<1>0. CASE UNCHANGED inv
  BY <1>0, <1>t DEF Inventory
<1>1. CASE buildCapturingRuntimeResourceInventoryV3
  BY <1>1, <1>t DEF buildCapturingRuntimeResourceInventoryV3, Inventory
<1>2. CASE parseMcpV3ReplicaResponse
  BY <1>2, <1>t DEF parseMcpV3ReplicaResponse, Inventory
<1>3. CASE finalizeRuntimeResourceInventoryV3
  <2> DEFINE h == job.gen
             final == IF inv[h].state = "CAPTURING" THEN inv[h].res \cup {Route} ELSE inv[h].res
  <2>1. inv' = [inv EXCEPT ![h].res = final, ![h].state = "READY"] /\ h \in Gens
    BY <1>3, <1>t DEF finalizeRuntimeResourceInventoryV3
  <2>2. inv[h] \in Inventory
    BY <2>1, <1>t
  <2> QED BY <2>1, <2>2, <1>t DEF Inventory
<1>4. ASSUME NEW h \in Gens, signRuntimeInventoryAttestation(h) \/ recoverMcpV3InventoryAttestation(h)
      PROVE  /\ inv[g].state = "READY" => inv'[g].state = "READY" /\ inv'[g].res = inv[g].res
             /\ inv[g].signed = "yes" => inv'[g].signed = "yes"
             /\ inv[g].signed = "no" /\ inv'[g].signed = "yes" => inv[g].state = "READY"
             /\ inv[g].signed \in {"no", "yes"}
  <2>1. inv[h] \in Inventory
    BY <1>t
  <2> QED BY <1>4, <2>1, <1>t DEF signRuntimeInventoryAttestation, recoverMcpV3InventoryAttestation, Inventory
<1> QED BY <1>0, <1>1, <1>2, <1>3, <1>4, InventoryFrame DEF vars

(* DeclaredInv is inductive: an install comes to its last steps only       *)
(* through the comparison in finalizeRuntimeResourceInventoryV3, and an    *)
(* activation finds its row bound and signed.                              *)
LEMMA DeclaredStep ==
    ASSUME ConstantsAssumption, TypeInv, DeclaredInv, [Next]_vars
    PROVE  DeclaredInv'
<1>t. /\ row \in Row /\ job \in Job /\ inv \in [Gens -> Inventory] /\ inv' \in [Gens -> Inventory]
      /\ job.pc # "none" => job.gen = row.gen /\ job.gen \in Gens
  BY TypeStep, AcceptedType DEF TypeInv, TypeOK
<1>c. ASSUME NEW g \in Gens, Closed(g), row'.plan = row.plan PROVE Closed(g)'
  <2>1. inv[g].state = "READY" => inv'[g].state = "READY" /\ inv'[g].res = inv[g].res
    BY ReadyIsFixed
  <2> QED BY <1>c, <2>1 DEF Closed, Full, Parts
<1>1. ASSUME NEW g \in Gens, inv'[g].signed = "yes" PROVE inv'[g].state = "READY"
  <2>1. /\ inv[g].state = "READY" => inv'[g].state = "READY"
        /\ inv[g].signed = "no" /\ inv'[g].signed = "yes" => inv[g].state = "READY"
        /\ inv[g].signed \in {"no", "yes"}
    BY ReadyIsFixed
  <2> QED BY <1>1, <2>1 DEF DeclaredInv
<1>s. \A g \in Gens : inv[g].signed = "yes" => inv'[g].signed = "yes"
  BY ReadyIsFixed
\* A step that moves neither the row nor the place of the job.
<1>0. ASSUME UNCHANGED <<row, job>> \/ (UNCHANGED row /\ job'.pc \notin {"finalize", "quarantine", "establish"})
      PROVE  DeclaredInv'
  BY <1>0, <1>1, <1>c, <1>s, <1>t DEF DeclaredInv
<1>f. Idle.pc = "none"
  BY DEF Idle
<1>2. ASSUME NEW g \in Gens, deployMcpV3(g) PROVE DeclaredInv'
  <2>1. job'.pc = "inventory"
    BY <1>2 DEF deployMcpV3, Idle
  <2>2. UNCHANGED row \/ (row'.bound = "no" /\ row'.state = "PROVISIONING")
    BY <1>2 DEF deployMcpV3, FreshRow
  <2> QED BY <2>1, <2>2, <1>0, <1>1 DEF DeclaredInv
<1>3. CASE parseMcpV3ReplicaResponse
  <2>1. job.pc = "deploy" /\ job'.pc = "deploy"
    BY <1>3, <1>t DEF parseMcpV3ReplicaResponse, Job
  <2>2. /\ row'.bound = row.bound /\ row'.gen = row.gen /\ row'.state = row.state
        /\ row'.reported = row.reported \cup {job.at} /\ job.at \in row.plan /\ row'.plan = row.plan
    BY <1>3, <1>t DEF parseMcpV3ReplicaResponse, Row, TypeInv, JobInv, Replied, Idle
  <2> QED BY <2>1, <2>2, <1>1, <1>c, <1>s, <1>t DEF DeclaredInv
<1>4. CASE quarantineRow
  <2>1. job'.pc = "none" /\ job.pc = "quarantine"
    BY <1>4 DEF quarantineRow, Finish, Idle
  <2>2. /\ row'.gen = row.gen /\ row'.plan = row.plan /\ row'.reported = row.reported /\ (row'.state = "RUNNING" => row.state = "RUNNING")
        /\ row'.bound = "yes" \/ row'.bound = row.bound
    BY <1>4, <1>t DEF quarantineRow, Row
  <2> QED BY <2>1, <2>2, <1>1, <1>c, <1>s, <1>t DEF DeclaredInv
<1>5. CASE establish
  <2>1. job'.pc = "none" /\ job.pc = "establish"
    BY <1>5 DEF establish, Finish, Idle
  <2>2. row'.gen = row.gen /\ row'.plan = row.plan /\ row'.reported = row.reported /\ row'.bound = row.bound
    BY <1>5, <1>t DEF establish, Row
  <2> QED BY <2>1, <2>2, <1>1, <1>c, <1>s, <1>t DEF DeclaredInv
<1>6. CASE persistConfig \/ persistUpgrade
  <2>1. job'.pc \notin {"finalize", "quarantine", "establish"}
    BY <1>6, <1>t DEF persistConfig, persistUpgrade, Finish, Idle, Job
  <2>2. row'.gen = row.gen /\ row'.plan = row.plan /\ row'.reported = row.reported /\ row'.bound = row.bound /\ row'.state = row.state
    <3>1. \A x : /\ [row EXCEPT !.is = x].gen = row.gen
                 /\ [row EXCEPT !.is = x].plan = row.plan
                 /\ [row EXCEPT !.is = x].reported = row.reported
                 /\ [row EXCEPT !.is = x].bound = row.bound
                 /\ [row EXCEPT !.is = x].state = row.state
      BY <1>t DEF Row
    <3>2. row' = row \/ \E x : row' = [row EXCEPT !.is = x]
      <4>1. CASE persistConfig
        <5>1. row' = row \/ row' = [row EXCEPT !.is = Target(job.arg)]
          BY <4>1 DEF persistConfig
        <5> QED BY <5>1
      <4>2. CASE persistUpgrade
        <5>1. row.is \in Container
          BY <4>2, AcceptedType DEF persistUpgrade
        <5>2. row' = row \/ row' = [row EXCEPT !.is.img = job.arg, !.is.ep = job.arg]
          BY <4>2 DEF persistUpgrade
        <5>3. [row EXCEPT !.is.img = job.arg, !.is.ep = job.arg]
                = [row EXCEPT !.is = [row.is EXCEPT !.img = job.arg, !.ep = job.arg]]
          BY <5>1, <1>t DEF Row, Container
        <5> QED BY <5>2, <5>3
      <4> QED BY <1>6, <4>1, <4>2
    <3> QED BY <3>1, <3>2
  <2> QED BY <2>1, <2>2, <1>1, <1>c, <1>s, <1>t DEF DeclaredInv
<1>7. ASSUME NEW a \in Attempts, revokeDispatch(a) \/ retireRow(a) PROVE DeclaredInv'
  <2>1. row'.gen = row.gen /\ row'.plan = row.plan /\ row'.reported = row.reported /\ row'.bound = row.bound /\ row'.state # "RUNNING"
        /\ UNCHANGED job
    BY <1>7, <1>t DEF revokeDispatch, retireRow, Row
  <2> QED BY <2>1, <1>1, <1>c, <1>s, <1>t DEF DeclaredInv
<1>8. CASE Next /\ UNCHANGED row
  <2>1. CASE hubStep
    <3>1. ASSUME NEW g \in Gens, activateMcpV3(g) PROVE DeclaredInv'
      <4>1. /\ job'.pc \in {"establish", "none"} /\ row.bound = "yes" /\ inv[row.gen].signed = "yes"
        BY <3>1, <1>f DEF activateMcpV3, acceptActivation, Idle, Finish
      <4> QED BY <1>8, <4>1, <1>1, <1>c, <1>s, <1>t DEF DeclaredInv
    <3>5. ASSUME NEW g \in Gens, acceptInstall(g) \/ refuseInstall(g) PROVE DeclaredInv'
      BY <3>5, <1>0 DEF acceptInstall, refuseInstall
    <3>2. ASSUME NEW g \in Gens, recoverMcpV3InventoryAttestation(g) PROVE DeclaredInv'
      BY <3>2, <1>0 DEF recoverMcpV3InventoryAttestation
    <3>3. ASSUME NEW e \in Configs, reconfigureMcpV3(e) PROVE DeclaredInv'
      BY <3>3, <1>0, <1>f DEF reconfigureMcpV3, Finish, Idle
    <3>4. ASSUME NEW n \in Images, upgradeMcpV3(n) PROVE DeclaredInv'
      BY <3>4, <1>0, <1>f DEF upgradeMcpV3, Finish, Idle
    <3> QED BY <2>1, <1>2, <3>1, <3>2, <3>3, <3>4, <3>5 DEF hubStep
  <2>2. CASE finalizeRuntimeResourceInventoryV3
    <3> DEFINE h == job.gen
               final == IF inv[h].state = "CAPTURING" THEN inv[h].res \cup {Route} ELSE inv[h].res
    <3>1. /\ inv' = [inv EXCEPT ![h].res = final, ![h].state = "READY"] /\ h \in Gens
          /\ row.reported = row.plan
          /\ job'.pc = "none" \/ (final = rowResources /\ job' = [job EXCEPT !.pc = "finalize"])
      BY <2>2, <1>t, <1>f DEF finalizeRuntimeResourceInventoryV3, Finish
    <3>2. inv'[h].res = final /\ inv'[h].state = "READY"
      <4>1. inv[h] \in Inventory
        BY <3>1, <1>t
      <4> QED BY <3>1, <4>1, <1>t DEF Inventory
    <3>3. CASE job'.pc = "none"
      BY <3>3, <1>8, <1>0
    <3>4. CASE final = rowResources /\ job' = [job EXCEPT !.pc = "finalize"]
      <4>1. Closed(job.gen)' /\ job'.gen = job.gen /\ job'.pc = "finalize"
        BY <1>8, <3>1, <3>2, <3>4, <1>t DEF Closed, Full, rowResources, Parts, Job
      <4> QED BY <4>1, <1>8, <3>1, <1>1, <1>c, <1>s, <1>t DEF DeclaredInv
    <3> QED BY <3>1, <3>3, <3>4
  <2>3. CASE finalizeReplicas
    <3>1. job.pc = "finalize" /\ (job'.pc = "none" \/ (job'.gen = job.gen /\ job'.pc = "quarantine"))
      BY <2>3, <1>t DEF finalizeReplicas, Finish, Idle, Job
    <3> QED BY <1>8, <3>1, <1>1, <1>c, <1>s, <1>t DEF DeclaredInv
  <2>4. CASE quarantineRow \/ establish
    BY <2>4, <1>4, <1>5
  <2>5. CASE buildCapturingRuntimeResourceInventoryV3 \/ deployReplica \/ parseMcpV3ReplicaResponse \/ deployFailed
    <3>1. job'.pc \notin {"finalize", "quarantine", "establish"}
      <4>1. buildCapturingRuntimeResourceInventoryV3 => job'.pc = "deploy"
        BY <1>t DEF buildCapturingRuntimeResourceInventoryV3, Job
      <4>2. deployReplica \/ parseMcpV3ReplicaResponse => job'.pc = "deploy"
        BY <1>t DEF deployReplica, parseMcpV3ReplicaResponse, request, Job
      <4>3. deployFailed => job'.pc = "none"
        BY <1>f DEF deployFailed, Finish
      <4> QED BY <2>5, <4>1, <4>2, <4>3
    <3> QED BY <3>1, <1>8, <1>0
  <2>6. CASE reconfigureReplica \/ reconfigureReplied \/ rollbackReplica \/ persistConfig
    <3>1. job'.pc \notin {"finalize", "quarantine", "establish"}
      <4>1. reconfigureReplica => job'.pc = "forward"
        BY <1>t DEF reconfigureReplica, request, Job
      <4>2. reconfigureReplied => job'.pc \in {"forward", "back", "none"}
        BY <1>t, <1>f DEF reconfigureReplied, Finish, Job
      <4>3. rollbackReplica => job'.pc \in {"back", "none"}
        BY <1>t, <1>f DEF rollbackReplica, request, Finish, Job
      <4>4. persistConfig => job'.pc = "none"
        BY <1>f DEF persistConfig, Finish
      <4> QED BY <2>6, <4>1, <4>2, <4>3, <4>4
    <3> QED BY <3>1, <1>8, <1>0
  <2>7. CASE upgradeReplica \/ upgradeReplied \/ persistUpgrade \/ revertReplica \/ upgradeFailed
    <3>1. job'.pc \notin {"finalize", "quarantine", "establish"}
      <4>1. upgradeReplica => job'.pc = "forward"
        BY <1>t DEF upgradeReplica, request, Job
      <4>2. upgradeReplied => job'.pc \in {"forward", "back"}
        BY <1>t DEF upgradeReplied, Job
      <4>3. persistUpgrade => job'.pc \in {"back", "none"}
        BY <1>t, <1>f DEF persistUpgrade, Finish, Job
      <4>4. revertReplica => job'.pc = "back"
        BY <1>t DEF revertReplica, request, Job
      <4>5. upgradeFailed => job'.pc = "none"
        BY <1>f DEF upgradeFailed, Finish
      <4> QED BY <2>7, <4>1, <4>2, <4>3, <4>4, <4>5
    <3> QED BY <3>1, <1>8, <1>0
  <2>8. CASE agentStep \/ \E c \in calls : timeout(c)
    <3>1. PICK c \in calls : deployManagedApp(c) \/ deployEnds(c) \/ swapBegins(c) \/ swapEnds(c) \/ timeout(c)
      BY <2>8 DEF agentStep
    <3>2. UNCHANGED job \/ (c.await = "yes" /\ \E answer : job' = [job EXCEPT !.reply = answer])
      BY <3>1 DEF deployManagedApp, deployEnds, swapBegins, swapEnds, timeout, respond
    <3>3. UNCHANGED job \/ job'.pc \notin {"finalize", "quarantine", "establish"}
      <4>1. c.await = "yes" => job.pc \in Asking
        BY DEF TypeInv, CallInv, JobInv
      <4> QED BY <3>2, <4>1, <1>t DEF Asking, Job
    <3> QED BY <3>3, <1>8, <1>0
  <2>9. CASE \E g \in Gens : signRuntimeInventoryAttestation(g)
    BY <2>9, <1>0 DEF signRuntimeInventoryAttestation
  <2>10. CASE \E a \in Attempts : attemptStep(a) \/ \E g \in Gens : openOperation(a, g)
    <3>1. UNCHANGED job
      BY <2>10 DEF attemptStep, openOperation, revokeDispatch, removeDeclaredResources,
         verifyDeclaredResources, signFinalAcknowledgement, storeAcknowledgement, retireRow
    <3> QED BY <3>1, <1>8, <1>0
  <2>11. CASE crash
    BY <2>11, <1>0, <1>f DEF crash
  <2> QED BY <1>8, <2>1, <2>2, <2>3, <2>4, <2>5, <2>6, <2>7, <2>8, <2>9, <2>10, <2>11 DEF Next, jobStep
<1>9. CASE UNCHANGED vars
  BY <1>9, <1>0 DEF vars
<1> QED BY <1>2, <1>3, <1>4, <1>5, <1>6, <1>7, <1>8, <1>9, RowFrame

(* Whatever was retried, given up or cut off by a crash, a row is bound    *)
(* only when all its planned replicas reported and its inventory is READY  *)
(* and declares every resource they can have; a RUNNING row's inventory is *)
(* also signed (finalizeRuntimeResourceInventoryV3, quarantineRow,         *)
(* establish).                                                             *)
THEOREM DeclaredCorrect == Spec => [](TypeInv /\ DeclaredInv)
<1>1. Init => DeclaredInv
  BY DEF Init, DeclaredInv, Idle
<1>2. TypeInv /\ DeclaredInv /\ [Next]_vars => DeclaredInv'
  BY DeclaredStep, ConstantsAssumption
<1> QED BY <1>1, <1>2, TypeCorrect, PTL DEF Spec

\* What is known of a generation's replicas is known from an install that had its
\* inventory, and, as long as the generation has only had one document, is of its plan.
OwnInv ==
    /\ job.pc \notin {"none", "inventory"} => inv[job.gen].state # "none"
    /\ \A g \in Gens, r \in Replicas : Known(g, r) =>
          inv[g].state # "none" /\ (g = row.gen /\ g \notin revived => r \in row.plan)

(* A replica only becomes known by the job, which asks for the replicas of *)
(* its row's plan.                                                         *)
LEMMA KnownStep ==
    ASSUME ConstantsAssumption, TypeInv, Next, NEW g \in Gens, NEW r \in Replicas, Known(g, r)', ~Known(g, r)
    PROVE  job.gen = g /\ job.pc \notin {"none", "inventory"} /\ r \in row.plan
<1>t. /\ ctr \in [Gens \X Replicas -> Container \cup {Gone}]
      /\ \A c \in calls : c.gen \in Gens /\ c.r \in Replicas
  BY DEF TypeInv, TypeOK, Call
<1>1. CASE UNCHANGED <<ctr, side>> /\ calls' \subseteq calls
  BY <1>1 DEF Known
<1>q. ASSUME NEW kind, NEW q, NEW to, request(kind, q, to), UNCHANGED <<ctr, side>>
      PROVE  job.gen = g /\ q = r
  <2>1. \A c \in calls' : c \in calls \/ (c.gen = job.gen /\ c.r = q)
    BY <1>q DEF request
  <2> QED BY <1>q, <2>1 DEF Known
<1>2. CASE hubStep \/ jobStep
  <2>1. ASSUME NEW kind, NEW q \in row.plan, NEW to, request(kind, q, to), UNCHANGED <<ctr, side>>, job.pc \in Asking
        PROVE  job.gen = g /\ job.pc \notin {"none", "inventory"} /\ r \in row.plan
    BY <2>1, <1>q DEF Asking
  <2>2. CASE deployReplica
    <3>1. row.plan \ row.reported # {} /\ row.plan \ row.reported \subseteq Nat
      BY <2>2, PlanType DEF deployReplica
    <3>2. Min(row.plan \ row.reported) \in row.plan
      BY <3>1, MinIn
    <3> QED BY <2>2, <3>2, <2>1 DEF deployReplica, Asking
  <2>3. CASE reconfigureReplica \/ upgradeReplica
    <3>1. Min(row.reported \ job.done) \in row.plan
      BY <2>3, NextReplica, PlanType DEF reconfigureReplica, upgradeReplica
    <3> QED BY <2>3, <3>1, <2>1 DEF reconfigureReplica, upgradeReplica, Asking
  <2>4. CASE rollbackReplica \/ revertReplica
    <3>1. job.done # {} => Min(job.done) \in row.plan
      BY NextReplica, PlanType DEF TypeInv, JobInv
    <3> QED BY <2>4, <3>1, <2>1, <1>1 DEF rollbackReplica, revertReplica, Asking
  <2>5. CASE finalizeReplicas
    <3>1. job.pc = "finalize" /\ UNCHANGED <<ctr, calls>>
      BY <2>5 DEF finalizeReplicas
    <3>2. \A x \in side' : x \in side \/ \E q \in row.plan : x = <<job.gen, q, "broker">>
      BY <2>5 DEF finalizeReplicas
    <3> QED BY <3>1, <3>2 DEF Known
  <2>6. CASE hubStep
    BY <2>6, <1>1 DEF hubStep, acceptInstall, refuseInstall, deployMcpV3, recoverMcpV3InventoryAttestation,
       activateMcpV3, reconfigureMcpV3, upgradeMcpV3
  <2>7. CASE \/ buildCapturingRuntimeResourceInventoryV3 \/ parseMcpV3ReplicaResponse \/ deployFailed
             \/ finalizeRuntimeResourceInventoryV3 \/ quarantineRow \/ establish
             \/ reconfigureReplied \/ persistConfig \/ upgradeReplied \/ persistUpgrade \/ upgradeFailed
    BY <2>7, <1>1 DEF buildCapturingRuntimeResourceInventoryV3, parseMcpV3ReplicaResponse, deployFailed,
       finalizeRuntimeResourceInventoryV3, quarantineRow, establish, reconfigureReplied, persistConfig,
       upgradeReplied, persistUpgrade, upgradeFailed
  <2> QED BY <1>2, <2>2, <2>3, <2>4, <2>5, <2>6, <2>7 DEF jobStep
<1>3. CASE \E h \in Gens : signRuntimeInventoryAttestation(h)
  BY <1>3, <1>1 DEF signRuntimeInventoryAttestation
<1>4. ASSUME NEW c \in calls, deployManagedApp(c) \/ deployEnds(c) \/ swapBegins(c) \/ swapEnds(c) \/ timeout(c)
      PROVE  FALSE
  <2>1. /\ \A d \in calls' : d \in calls \/ (d.gen = c.gen /\ d.r = c.r)
        /\ \A x \in side' : x \in side \/ (x[1] = c.gen /\ x[2] = c.r)
        /\ ctr'[<<g, r>>] = ctr[<<g, r>>] \/ (c.gen = g /\ c.r = r)
    <3>1. c \in Call
      BY DEF TypeInv, TypeOK
    <3>2. \A d \in calls' : d \in calls \/ (d.gen = c.gen /\ d.r = c.r)
      <4>1. \A old : /\ [c EXCEPT !.phase = "gap", !.old = old].gen = c.gen
                     /\ [c EXCEPT !.phase = "gap", !.old = old].r = c.r
        BY <3>1 DEF Call
      <4>2. [c EXCEPT !.await = "no"].gen = c.gen /\ [c EXCEPT !.await = "no"].r = c.r
        BY <3>1 DEF Call
      <4>3. \A answer : respond(c, answer) => calls' \subseteq calls
        BY DEF respond
      <4>4. \A old : Begin(c, old) => \A d \in calls' : d \in calls \/ (d.gen = c.gen /\ d.r = c.r)
        BY <4>1 DEF Begin
      <4>5. timeout(c) => \A d \in calls' : d \in calls \/ (d.gen = c.gen /\ d.r = c.r)
        BY <4>2 DEF timeout
      <4> QED BY <1>4, <4>3, <4>4, <4>5 DEF deployManagedApp, deployEnds, swapBegins, swapEnds
    <3>3. \A x \in side' : x \in side \/ (x[1] = c.gen /\ x[2] = c.r)
      BY <1>4 DEF deployManagedApp, deployEnds, swapBegins, swapEnds, timeout, Broker, Volume
    <3>4. ctr'[<<g, r>>] = ctr[<<g, r>>] \/ (c.gen = g /\ c.r = r)
      <4>1. \A x : Put(c, x) => ctr'[<<g, r>>] = ctr[<<g, r>>] \/ (c.gen = g /\ c.r = r)
        BY <1>t DEF Put
      <4> QED BY <1>4, <4>1 DEF deployManagedApp, deployEnds, swapBegins, swapEnds, timeout
    <3> QED BY <3>2, <3>3, <3>4
  <2>2. Known(c.gen, c.r)
    BY DEF Known
  <2> QED BY <2>1, <2>2 DEF Known
<1>5. CASE \E a \in Attempts : attemptStep(a) \/ \E h \in Gens : openOperation(a, h)
  <2>1. calls' = calls /\ side' \subseteq side /\ (ctr'[<<g, r>>] # Gone => ctr[<<g, r>>] # Gone)
    <3>1. \A h, rs : removeRuntimeResource(h, rs) =>
             side' \subseteq side /\ (ctr'[<<g, r>>] # Gone => ctr[<<g, r>>] # Gone)
      BY <1>t DEF removeRuntimeResource
    <3> QED BY <1>5, <3>1 DEF attemptStep, openOperation, revokeDispatch, removeDeclaredResources,
               verifyDeclaredResources, signFinalAcknowledgement, storeAcknowledgement, retireRow
  <2> QED BY <2>1 DEF Known
<1>6. CASE crash
  <2>1. UNCHANGED <<ctr, side>> /\ \A d \in calls' : \E c \in calls : d.gen = c.gen /\ d.r = c.r
    <3>1. \A c \in calls : [c EXCEPT !.await = "no"].gen = c.gen /\ [c EXCEPT !.await = "no"].r = c.r
      BY DEF TypeInv, TypeOK, Call
    <3> QED BY <1>6, <3>1 DEF crash
  <2> QED BY <2>1 DEF Known
<1> QED BY <1>2, <1>3, <1>4, <1>5, <1>6 DEF Next, agentStep

(* An inventory that exists stays.                                         *)
LEMMA CapturedStays ==
    ASSUME TypeInv, Next, NEW g \in Gens, inv[g].state # "none"
    PROVE  inv'[g].state # "none"
<1>t. inv \in [Gens -> Inventory] /\ inv[g] \in Inventory /\ (job.pc # "none" => job.gen \in Gens)
  BY AcceptedType DEF TypeInv, TypeOK
<1>1. CASE buildCapturingRuntimeResourceInventoryV3 \/ parseMcpV3ReplicaResponse
  BY <1>1, <1>t DEF buildCapturingRuntimeResourceInventoryV3, parseMcpV3ReplicaResponse, Inventory
<1>2. CASE finalizeRuntimeResourceInventoryV3
  <2>1. PICK rs : inv' = [inv EXCEPT ![job.gen].res = rs, ![job.gen].state = "READY"]
    BY <1>2 DEF finalizeRuntimeResourceInventoryV3
  <2>2. job.gen \in Gens /\ inv[job.gen] \in Inventory
    BY <1>2, <1>t DEF finalizeRuntimeResourceInventoryV3
  <2> QED BY <2>1, <2>2, <1>t DEF Inventory
<1>3. ASSUME NEW h \in Gens, signRuntimeInventoryAttestation(h) \/ recoverMcpV3InventoryAttestation(h)
      PROVE  inv'[g].state # "none"
  <2>1. inv[h] \in Inventory
    BY <1>t
  <2> QED BY <1>3, <2>1, <1>t DEF signRuntimeInventoryAttestation, recoverMcpV3InventoryAttestation, Inventory
<1> QED BY <1>1, <1>2, <1>3, InventoryFrame

(* A generation that got a second document is remembered.                  *)
LEMMA RevivedGrows == ASSUME Next PROVE revived \subseteq revived'
<1>1. CASE hubStep
  BY <1>1 DEF hubStep, acceptInstall, refuseInstall, deployMcpV3, recoverMcpV3InventoryAttestation,
     activateMcpV3, reconfigureMcpV3, upgradeMcpV3
<1>2. CASE jobStep
  BY <1>2 DEF jobStep, buildCapturingRuntimeResourceInventoryV3, deployReplica,
     parseMcpV3ReplicaResponse, deployFailed, finalizeRuntimeResourceInventoryV3, finalizeReplicas,
     quarantineRow, establish, reconfigureReplica, reconfigureReplied, rollbackReplica, persistConfig,
     upgradeReplica, upgradeReplied, persistUpgrade, revertReplica, upgradeFailed
<1>3. CASE \E g \in Gens : signRuntimeInventoryAttestation(g)
  BY <1>3 DEF signRuntimeInventoryAttestation
<1>4. CASE agentStep \/ \E c \in calls : timeout(c)
  BY <1>4 DEF agentStep, timeout, deployManagedApp, deployEnds, swapBegins, swapEnds
<1>5. CASE \E a \in Attempts : attemptStep(a) \/ \E g \in Gens : openOperation(a, g)
  BY <1>5 DEF attemptStep, openOperation, revokeDispatch, removeDeclaredResources,
     verifyDeclaredResources, signFinalAcknowledgement, storeAcknowledgement, retireRow
<1>6. CASE crash
  BY <1>6 DEF crash
<1> QED BY <1>1, <1>2, <1>3, <1>4, <1>5, <1>6 DEF Next

(* A job comes to its work from the inventory, or takes the lock for a     *)
(* command.                                                                *)
LEMMA JobGoesOn ==
    ASSUME TypeInv, Next, job'.pc \notin {"none", "inventory"}
    PROVE  \/ job'.gen = job.gen /\ job.pc \notin {"none", "inventory"}
           \/ buildCapturingRuntimeResourceInventoryV3
           \/ \E g \in Gens : activateMcpV3(g)
           \/ \E e : reconfigureMcpV3(e) \/ upgradeMcpV3(e)
<1>t. job \in Job /\ Idle.pc = "none"
  BY DEF TypeInv, TypeOK, Idle
<1>0. ASSUME UNCHANGED job PROVE job'.gen = job.gen /\ job.pc \notin {"none", "inventory"}
  BY <1>0
<1>1. CASE hubStep
  BY <1>1, <1>t, <1>0 DEF hubStep, acceptInstall, refuseInstall, deployMcpV3,
     recoverMcpV3InventoryAttestation, Idle
<1>2. CASE jobStep
  <2>1. job.pc \notin {"none"} /\ (job.pc = "inventory" => buildCapturingRuntimeResourceInventoryV3)
    BY <1>2 DEF jobStep, buildCapturingRuntimeResourceInventoryV3, deployReplica,
       parseMcpV3ReplicaResponse, deployFailed, finalizeRuntimeResourceInventoryV3, finalizeReplicas,
       quarantineRow, establish, reconfigureReplica, reconfigureReplied, rollbackReplica, persistConfig,
       upgradeReplica, upgradeReplied, persistUpgrade, revertReplica, upgradeFailed
  <2>q. \A kind, r, to : request(kind, r, to) => job'.gen = job.gen
    BY <1>t DEF request, Job
  <2>2. job' = Idle \/ job'.gen = job.gen
    <3>1. CASE deployReplica \/ reconfigureReplica \/ upgradeReplica
      BY <3>1, <2>q DEF deployReplica, reconfigureReplica, upgradeReplica
    <3>2. CASE rollbackReplica \/ revertReplica
      BY <3>2, <2>q, <1>t DEF rollbackReplica, revertReplica, Finish, Job
    <3>3. CASE \/ buildCapturingRuntimeResourceInventoryV3 \/ parseMcpV3ReplicaResponse \/ deployFailed
               \/ finalizeRuntimeResourceInventoryV3 \/ finalizeReplicas \/ quarantineRow \/ establish
      BY <3>3, <1>t DEF buildCapturingRuntimeResourceInventoryV3, parseMcpV3ReplicaResponse, deployFailed,
         finalizeRuntimeResourceInventoryV3, finalizeReplicas, quarantineRow, establish, Finish, Job
    <3>4. CASE reconfigureReplied \/ persistConfig \/ upgradeReplied \/ persistUpgrade \/ upgradeFailed
      BY <3>4, <1>t DEF reconfigureReplied, persistConfig, upgradeReplied, persistUpgrade, upgradeFailed,
         Finish, Job
    <3> QED BY <1>2, <3>1, <3>2, <3>3, <3>4 DEF jobStep
  <2> QED BY <2>1, <2>2, <1>t
<1>3. CASE \E g \in Gens : signRuntimeInventoryAttestation(g)
  BY <1>3, <1>0 DEF signRuntimeInventoryAttestation
<1>4. CASE agentStep \/ \E c \in calls : timeout(c)
  <2>1. \A answer : job' = [job EXCEPT !.reply = answer] => job'.gen = job.gen /\ job'.pc = job.pc
    BY <1>t DEF Job
  <2>2. UNCHANGED job \/ \E answer : job' = [job EXCEPT !.reply = answer]
    BY <1>4 DEF agentStep, timeout, deployManagedApp, deployEnds, swapBegins, swapEnds, respond
  <2> QED BY <2>1, <2>2, <1>0
<1>5. CASE \E a \in Attempts : attemptStep(a) \/ \E g \in Gens : openOperation(a, g)
  BY <1>5, <1>0 DEF attemptStep, openOperation, revokeDispatch, removeDeclaredResources,
     verifyDeclaredResources, signFinalAcknowledgement, storeAcknowledgement, retireRow
<1>6. CASE crash
  BY <1>6, <1>t DEF crash
<1> QED BY <1>1, <1>2, <1>3, <1>4, <1>5, <1>6 DEF Next

(* OwnInv is inductive: a document that is inserted finds nothing of its   *)
(* generation, or makes it one that got a second document.                 *)
LEMMA OwnStep ==
    ASSUME ConstantsAssumption, TypeInv, DeclaredInv, OwnInv, [Next]_vars
    PROVE  OwnInv'
<1>t. job \in Job /\ inv \in [Gens -> Inventory] /\ inv' \in [Gens -> Inventory]
  BY TypeStep DEF TypeInv, TypeOK
<1>0. CASE UNCHANGED vars
  BY <1>0 DEF vars, OwnInv, Known
<1>1. ASSUME NEW g \in Gens, inv[g].state # "none" PROVE inv'[g].state # "none"
  BY <1>0, <1>1, CapturedStays DEF vars
<1>2. ASSUME Next, job'.pc \notin {"none", "inventory"} PROVE inv'[job'.gen].state # "none"
  <2>g. job'.pc # "none" => job'.gen \in Gens
    BY TypeStep DEF TypeInv, JobInv, Idle
  <2>1. CASE job'.gen = job.gen /\ job.pc \notin {"none", "inventory"}
    BY <2>1, <2>g, <1>1, <1>2 DEF OwnInv
  <2>2. CASE buildCapturingRuntimeResourceInventoryV3
    <3>1. job'.gen = job.gen /\ inv[job.gen] \in Inventory /\ job.gen \in Gens
      BY <2>2, <1>t, AcceptedType DEF buildCapturingRuntimeResourceInventoryV3, Job
    <3> QED BY <2>2, <3>1, <1>t DEF buildCapturingRuntimeResourceInventoryV3, Inventory
  <2>3. ASSUME NEW g \in Gens, activateMcpV3(g) PROVE inv'[job'.gen].state # "none"
    <3>0. job' # Idle
      BY <1>2 DEF Idle
    <3>1. inv[g].signed = "yes" /\ job'.gen = g /\ inv' = inv
      BY <3>0, <2>3 DEF activateMcpV3, acceptActivation, Idle, Finish
    <3> QED BY <3>1 DEF DeclaredInv
  <2>4. ASSUME NEW e, reconfigureMcpV3(e) \/ upgradeMcpV3(e) PROVE inv'[job'.gen].state # "none"
    <3>0. job' # Idle
      BY <1>2 DEF Idle
    <3>1. inv[row.gen].state = "READY" /\ job'.gen = row.gen /\ inv' = inv
      BY <3>0, <2>4 DEF reconfigureMcpV3, acceptReconfigure, upgradeMcpV3, acceptUpgrade,
         consumeReconfigureCommandV3, consumeUpgradeCommandV3, Idle, Finish
    <3> QED BY <3>1
  <2>5. \/ job'.gen = job.gen /\ job.pc \notin {"none", "inventory"}
        \/ buildCapturingRuntimeResourceInventoryV3
        \/ \E g \in Gens : activateMcpV3(g)
        \/ \E e : reconfigureMcpV3(e) \/ upgradeMcpV3(e)
    BY <1>2, JobGoesOn
  <2> QED BY <2>1, <2>2, <2>3, <2>4, <2>5
<1>3. ASSUME Next, NEW g \in Gens, NEW r \in Replicas, Known(g, r)'
      PROVE  inv'[g].state # "none" /\ (g = row'.gen /\ g \notin revived' => r \in row'.plan)
  <2>r. revived \subseteq revived'
    BY <1>3, RevivedGrows
  <2>1. CASE row'.gen = row.gen /\ row'.plan = row.plan
    <3>1. CASE Known(g, r)
      BY <3>1, <2>1, <2>r, <1>1 DEF OwnInv
    <3>2. CASE ~Known(g, r)
      BY <3>2, <1>3, <2>1, <1>1, KnownStep DEF OwnInv
    <3> QED BY <3>1, <3>2
  <2>2. ASSUME NEW h \in Gens, job = Idle, deployMcpV3(h), row' = FreshRow(h, NewPlan(h)), SlotFree
        PROVE  inv'[g].state # "none" /\ (g = row'.gen /\ g \notin revived' => r \in row'.plan)
    <3>1. Known(g, r)
      BY <1>3, <2>2, KnownStep DEF Idle
    <3>2. inv[g].state # "none" /\ inv' = inv
      BY <3>1, <2>2 DEF OwnInv, deployMcpV3
    <3>3. row'.gen = h
      BY <2>2 DEF FreshRow
    <3>4. h \in revived' \/ inv[h].state = "none"
      BY <2>2 DEF deployMcpV3, assertMcpV3AppAffinity, SlotFree
    <3> QED BY <3>2, <3>3, <3>4
  <2> QED BY <1>3, <2>1, <2>2, GenStep
<1> QED BY <1>0, <1>2, <1>3 DEF OwnInv

(* RunningIsDeclared: an app the master calls RUNNING has a signed         *)
(* inventory that declares everything that exists on the nodes for its     *)
(* generation, or for its document's replicas if the generation has had    *)
(* two, for any number of replicas, generations, uninstalls at a time,     *)
(* faults and crashes (deployMcpV3, activateMcpV3).                        *)
THEOREM RunningDeclared == Spec => []RunningIsDeclared
<1>1. Init => OwnInv
  <2> SUFFICES ASSUME Init PROVE OwnInv
    OBVIOUS
  <2>1. \A g \in Gens, r \in Replicas : ~Known(g, r)
    BY DEF Init, Known
  <2> QED BY <2>1 DEF Init, OwnInv, Idle
<1>2. TypeInv /\ DeclaredInv /\ OwnInv /\ [Next]_vars => OwnInv'
  BY OwnStep, ConstantsAssumption
<1>3. TypeInv /\ DeclaredInv /\ OwnInv => RunningIsDeclared
  <2> SUFFICES ASSUME TypeInv, DeclaredInv, OwnInv, row.state = "RUNNING"
               PROVE  /\ inv[row.gen].state = "READY" /\ inv[row.gen].signed = "yes"
                      /\ World(row.gen) \cap Parts(row.plan) \subseteq inv[row.gen].res
                      /\ row.gen \notin revived => World(row.gen) \subseteq inv[row.gen].res
    BY DEF RunningIsDeclared
  <2>1. row.gen \in Gens /\ Closed(row.gen) /\ inv[row.gen].signed = "yes"
    BY DEF DeclaredInv
  <2>2. ASSUME NEW x \in World(row.gen) PROVE Known(row.gen, x[1]) /\ x \in Parts({x[1]}) /\ x[1] \in Replicas
    <3>1. CASE \E r \in Replicas : ctr[<<row.gen, r>>] # Gone /\ x = <<r, "container">>
      BY <3>1 DEF Known, Parts, Kinds
    <3>2. CASE \E y \in side : y[1] = row.gen /\ x = <<y[2], y[3]>>
      <4>1. \A y \in side : y[2] \in Replicas /\ y[3] \in Kinds
        BY DEF TypeInv, TypeOK, Kinds
      <4> QED BY <3>2, <4>1 DEF Known, Parts
    <3> QED BY <2>2, <3>1, <3>2 DEF World
  <2>3. row.gen \notin revived => World(row.gen) \subseteq Parts(row.plan)
    BY <2>1, <2>2 DEF OwnInv, Parts
  <2> QED BY <2>1, <2>3 DEF Closed, Full
<1> QED BY <1>1, <1>2, <1>3, DeclaredCorrect, PTL DEF Spec

(* AttestedIsFixed: no step rewrites an inventory that was attested to the *)
(* Hub (addToSet and finalize only touch CAPTURING documents).             *)
THEOREM AttestedFixed == Spec => AttestedIsFixed
<1>1. ASSUME ConstantsAssumption, TypeInv, DeclaredInv, [Next]_vars
      PROVE  [\A g \in Gens : inv[g].signed = "yes" => inv'[g] = inv[g]]_vars
  <2>1. ASSUME NEW g \in Gens, inv[g].signed = "yes" PROVE inv'[g] = inv[g]
    <3>1. inv[g] \in Inventory /\ inv'[g] \in Inventory
      BY <1>1, TypeStep DEF TypeInv, TypeOK
    <3>2. /\ inv'[g].signed = "yes" /\ inv[g].state = "READY"
          /\ inv'[g].state = "READY" /\ inv'[g].res = inv[g].res
      BY <1>1, <2>1, ReadyIsFixed DEF DeclaredInv
    <3> QED BY <3>1, <3>2, <2>1 DEF Inventory
  <2> QED BY <2>1
<1>2. TypeInv /\ DeclaredInv /\ [Next]_vars => [\A g \in Gens : inv[g].signed = "yes" => inv'[g] = inv[g]]_vars
  BY <1>1, ConstantsAssumption
<1> QED BY <1>2, DeclaredCorrect, PTL DEF Spec, AttestedIsFixed

-----------------------------------------------------------------------------
(* What an uninstall leaves.                                               *)

Absent(g) == inv[g].res \cap World(g) = {}

\* Only an attested generation is uninstalled; while no agent works on it, what was
\* seen to be absent stays so, and COMPLETED says that it was seen.
GoneInv ==
    /\ \A g \in Gens : op[g].state # "none" => inv[g].signed = "yes"
    /\ \A g \in Gens \ raced : op[g].state # "none" => \A c \in calls : c.gen # g
    /\ \A a \in Attempts : att[a].pc # "none" => op[att[a].gen].state # "none"
    /\ \A a \in Attempts : att[a].pc # "none" /\ att[a].proven = "yes" /\ att[a].gen \notin raced =>
          Absent(att[a].gen)
    /\ \A g \in Gens \ raced : op[g].state = "COMPLETED" => Absent(g)

(* While no agent works on a generation and its final bindings are not     *)
(* being registered, what exists for it on the nodes can only become less. *)
LEMMA WorldStep ==
    ASSUME TypeInv, Next, NEW g \in Gens, \A c \in calls : c.gen # g,
           ~(finalizeReplicas /\ job.gen = g /\ \A r \in row.plan : ctr[<<g, r>>] # Gone)
    PROVE  World(g)' \subseteq World(g)
<1>t. /\ ctr \in [Gens \X Replicas -> Container \cup {Gone}]
      /\ side \subseteq Gens \X Replicas \X {"broker", "volume"}
  BY DEF TypeInv, TypeOK
<1>1. ASSUME \A r \in Replicas : ctr'[<<g, r>>] \in {ctr[<<g, r>>], Gone},
             \A x \in side' : x[1] = g => x \in side
      PROVE  World(g)' \subseteq World(g)
  BY <1>1 DEF World
<1>2. ASSUME UNCHANGED <<ctr, side>> PROVE World(g)' \subseteq World(g)
  BY <1>2 DEF World
<1>3. CASE finalizeReplicas
  <2>1. /\ ctr' = ctr
        /\ UNCHANGED side \/ (side' = side \cup {<<job.gen, r, "broker">> : r \in row.plan} /\ job.gen # g)
    BY <1>3 DEF finalizeReplicas
  <2>2. \A x \in side' : x[1] = g => x \in side
    BY <2>1
  <2> QED BY <1>1, <2>1, <2>2
<1>4. ASSUME NEW c \in calls, deployManagedApp(c) \/ deployEnds(c) \/ swapBegins(c) \/ swapEnds(c)
      PROVE  World(g)' \subseteq World(g)
  <2>1. c.gen # g /\ c.gen \in Gens
    BY <1>4 DEF TypeInv, TypeOK, Call
  <2>2. \A x : Put(c, x) => \A r \in Replicas : ctr'[<<g, r>>] = ctr[<<g, r>>]
    BY <1>t, <2>1 DEF Put
  <2>3. \A r \in Replicas : ctr'[<<g, r>>] = ctr[<<g, r>>]
    BY <1>4, <2>2 DEF deployManagedApp, deployEnds, swapBegins, swapEnds
  <2>4. \A x \in side' : x[1] = g => x \in side
    <3>1. Broker(c)[1] # g /\ Volume(c)[1] # g
      BY <2>1 DEF Broker, Volume
    <3>2. side' \subseteq side \cup {Broker(c), Volume(c)}
      BY <1>4 DEF deployManagedApp, deployEnds, swapBegins, swapEnds
    <3> QED BY <3>1, <3>2
  <2> QED BY <1>1, <2>3, <2>4
<1>5. ASSUME NEW a \in Attempts, removeDeclaredResources(a) PROVE World(g)' \subseteq World(g)
  <2>1. \A h, rs : removeRuntimeResource(h, rs) =>
           (\A r \in Replicas : ctr'[<<g, r>>] \in {ctr[<<g, r>>], Gone}) /\ side' \subseteq side
    BY <1>t DEF removeRuntimeResource
  <2> QED BY <1>1, <1>5, <2>1 DEF removeDeclaredResources
<1> QED BY <1>2, <1>3, <1>4, <1>5, NodesFrame

(* What is declared and absent stays absent while no agent works on the    *)
(* generation.                                                             *)
LEMMA AbsentStep ==
    ASSUME ConstantsAssumption, TypeInv, DeclaredInv, [Next]_vars, NEW g \in Gens, Absent(g),
           inv[g].signed = "yes", \A c \in calls : c.gen # g
    PROVE  Absent(g)'
<1>1. inv'[g].res = inv[g].res
  BY ReadyIsFixed DEF DeclaredInv
<1>2. CASE UNCHANGED vars
  BY <1>2 DEF vars, Absent, World
<1>3. CASE Next
  <2>1. ~(finalizeReplicas /\ job.gen = g /\ \A r \in row.plan : ctr[<<g, r>>] # Gone)
    <3>1. SUFFICES ASSUME finalizeReplicas, job.gen = g, \A r \in row.plan : ctr[<<g, r>>] # Gone PROVE FALSE
      OBVIOUS
    <3>2. inv[g].res = Full
      BY <3>1 DEF finalizeReplicas, DeclaredInv, Closed
    <3>3. PICK r \in row.plan : r \in Replicas
      BY <3>1, PlanType DEF finalizeReplicas, TypeInv, JobInv, Idle
    <3>4. <<r, "container">> \in World(g) /\ <<r, "container">> \in Full
      BY <3>1, <3>3 DEF World, Full, Parts, Kinds
    <3> QED BY <3>2, <3>4 DEF Absent
  <2>2. World(g)' \subseteq World(g)
    BY <1>3, <2>1, WorldStep
  <2> QED BY <1>1, <2>2 DEF Absent
<1> QED BY <1>2, <1>3

(* Once a generation is uninstalled, a request for it is only sent in a    *)
(* race, which `raced` records.                                            *)
LEMMA CallsOf ==
    ASSUME ConstantsAssumption, TypeInv, Next, NEW g \in Gens \ raced', op[g].state # "none",
           \A c \in calls : c.gen # g
    PROVE  \A c \in calls' : c.gen # g
<1>c. \A c \in calls : c \in Call
  BY DEF TypeInv, TypeOK
<1>1. ASSUME \A d \in calls' : \E c \in calls : d.gen = c.gen PROVE \A c \in calls' : c.gen # g
  BY <1>1
<1>2. ASSUME NEW kind \in {"deploy", "reconfigure", "redeploy"}, NEW r, NEW to, request(kind, r, to)
      PROVE  \A c \in calls' : c.gen # g
  <2>1. job.gen # g
    BY <1>2 DEF request
  <2> QED BY <1>2, <2>1 DEF request
<1>3. CASE hubStep \/ jobStep
  BY <1>3, <1>2, JobFrame
<1>4. CASE agentStep
  <2>1. PICK c \in calls : deployManagedApp(c) \/ deployEnds(c) \/ swapBegins(c) \/ swapEnds(c)
    BY <1>4 DEF agentStep
  <2>2. \A old : [c EXCEPT !.phase = "gap", !.old = old].gen = c.gen
    BY <1>c DEF Call
  <2>3. calls' \subseteq calls \/ \E old : Begin(c, old)
    BY <2>1 DEF deployManagedApp, deployEnds, swapBegins, swapEnds, respond
  <2> QED BY <2>2, <2>3, <1>1 DEF Begin
<1>5. ASSUME NEW c \in calls, timeout(c) PROVE \A d \in calls' : d.gen # g
  <2>1. [c EXCEPT !.await = "no"].gen = c.gen
    BY <1>c DEF Call
  <2> QED BY <1>5, <2>1, <1>1 DEF timeout
<1>6. CASE crash
  <2>1. \A c \in calls : [c EXCEPT !.await = "no"].gen = c.gen
    BY <1>c DEF Call
  <2> QED BY <1>6, <2>1, <1>1 DEF crash
<1>7. CASE \/ \E h \in Gens : signRuntimeInventoryAttestation(h)
           \/ \E a \in Attempts : attemptStep(a) \/ \E h \in Gens : openOperation(a, h)
  BY <1>7, <1>1 DEF signRuntimeInventoryAttestation, attemptStep, openOperation, revokeDispatch,
     removeDeclaredResources, verifyDeclaredResources, signFinalAcknowledgement, storeAcknowledgement, retireRow
<1> QED BY <1>3, <1>4, <1>5, <1>6, <1>7 DEF Next

(* A race is not forgotten.                                                *)
LEMMA RacedGrows == ASSUME Next PROVE raced \subseteq raced'
<1>1. ASSUME NEW kind, NEW r, NEW to, request(kind, r, to) PROVE raced \subseteq raced'
  BY <1>1 DEF request
<1>2. CASE hubStep
  BY <1>2 DEF hubStep, acceptInstall, refuseInstall, deployMcpV3, recoverMcpV3InventoryAttestation, activateMcpV3, reconfigureMcpV3, upgradeMcpV3
<1>3. CASE jobStep
  BY <1>3, <1>1 DEF jobStep, buildCapturingRuntimeResourceInventoryV3, deployReplica,
     parseMcpV3ReplicaResponse, deployFailed, finalizeRuntimeResourceInventoryV3, finalizeReplicas,
     quarantineRow, establish, reconfigureReplica, reconfigureReplied, rollbackReplica, persistConfig,
     upgradeReplica, upgradeReplied, persistUpgrade, revertReplica, upgradeFailed
<1>4. CASE agentStep \/ \E c \in calls : timeout(c)
  BY <1>4 DEF agentStep, timeout, deployManagedApp, deployEnds, swapBegins, swapEnds
<1>5. CASE \E a \in Attempts : attemptStep(a) \/ \E g \in Gens : openOperation(a, g)
  BY <1>5 DEF attemptStep, openOperation, revokeDispatch, removeDeclaredResources, verifyDeclaredResources,
     signFinalAcknowledgement, storeAcknowledgement, retireRow
<1>6. CASE crash \/ \E g \in Gens : signRuntimeInventoryAttestation(g)
  BY <1>6 DEF crash, signRuntimeInventoryAttestation
<1> QED BY <1>2, <1>3, <1>4, <1>5, <1>6 DEF Next

(* What a phase of an uninstall writes: its own place, and the operation   *)
(* of its generation. It is proven when verifyDeclaredResources looked and *)
(* saw nothing, and COMPLETED when it was proven.                          *)
LEMMA AttemptWrites ==
    ASSUME TypeInv, NEW a \in Attempts, attemptStep(a)
    PROVE  /\ att[a].pc # "none" /\ att[a].gen \in Gens
           /\ \A b \in Attempts : b # a => att'[b] = att[b]
           /\ \A g \in Gens : g # att[a].gen => op'[g] = op[g]
           /\ op[att[a].gen].state # "none" => op'[att[a].gen].state # "none"
           /\ op'[att[a].gen].state = "COMPLETED" =>
                 op[att[a].gen].state = "COMPLETED" \/ att[a].proven = "yes"
           /\ \/ att'[a] = Quiet
              \/ /\ att'[a].gen = att[a].gen
                 /\ att'[a].proven = "yes" => att[a].proven = "yes" \/ Absent(att[a].gen)
           /\ UNCHANGED <<inv, calls, raced, job>>
<1> DEFINE g == att[a].gen
<1>t. op \in [Gens -> Operation] /\ att \in [Attempts -> Attempt] /\ att[a] \in Attempt
  BY DEF TypeInv, TypeOK
<1>1. att[a].pc # "none" /\ g \in Gens
  <2>1. att[a].pc # "none"
    BY DEF attemptStep, revokeDispatch, removeDeclaredResources,
       verifyDeclaredResources, signFinalAcknowledgement, storeAcknowledgement, retireRow
  <2> QED BY <2>1 DEF TypeInv, AttInv
<1>o. op[g] \in Operation
  BY <1>1, <1>t
<1>2. UNCHANGED <<inv, calls, raced, job>>
  BY DEF attemptStep, revokeDispatch, removeDeclaredResources,
     verifyDeclaredResources, signFinalAcknowledgement, storeAcknowledgement, retireRow
<1> DEFINE Writes ==
       /\ \A b \in Attempts : b # a => att'[b] = att[b]
       /\ \A h \in Gens : h # g => op'[h] = op[h]
       /\ op[g].state # "none" => op'[g].state # "none"
       /\ op'[g].state = "COMPLETED" => op[g].state = "COMPLETED" \/ att[a].proven = "yes"
       /\ \/ att'[a] = Quiet
          \/ /\ att'[a].gen = g
             /\ att'[a].proven = "yes" => att[a].proven = "yes" \/ Absent(g)
<1>c. ASSUME NEW to \in OpStates \ {"none"}, NEW next, NEW proven, checkpoint(a, to, next, proven),
             to = "COMPLETED" => att[a].proven = "yes",
             proven = "yes" => att[a].proven = "yes" \/ Absent(g)
      PROVE  Writes
  <2>1. CASE op' = [op EXCEPT ![g].state = to] /\ att' = [att EXCEPT ![a].pc = next, ![a].proven = proven]
    BY <1>c, <2>1, <1>t, <1>1, <1>o DEF Operation, Attempt
  <2>2. CASE op' = [op EXCEPT ![g].state = parkInterruptedAttempt(op[g].state)] /\ att' = [att EXCEPT ![a] = Quiet]
    <3>1. /\ parkInterruptedAttempt(op[g].state) = "COMPLETED" => op[g].state = "COMPLETED"
          /\ op[g].state # "none" => parkInterruptedAttempt(op[g].state) # "none"
      BY DEF parkInterruptedAttempt
    <3> HIDE DEF g
    <3>2. op'[g].state = parkInterruptedAttempt(op[g].state)
      BY <2>2, <1>t, <1>1, <1>o DEF Operation
    <3> QED BY <2>2, <1>t, <1>1, <3>1, <3>2
  <2> QED BY <1>c, <2>1, <2>2, <1>o DEF checkpoint
<1>s. {"ACCESS_REVOKED", "RUNTIME_REMOVING", "VERIFYING", "COMPLETED", "CLEANUP_REQUIRED"} \subseteq OpStates \ {"none"}
  BY DEF OpStates
<1> HIDE DEF Writes, g
<1>3. ASSUME revokeDispatch(a) PROVE Writes
  BY <1>3, <1>c, <1>s DEF revokeDispatch
<1>4. ASSUME removeDeclaredResources(a) PROVE Writes
  BY <1>4, <1>c, <1>s DEF removeDeclaredResources
<1>5. ASSUME verifyDeclaredResources(a) PROVE Writes
  <2>1. observeRuntimeResource(att[a].gen) = {} => Absent(g)
    BY DEF observeRuntimeResource, Absent, g
  <2>2. checkpoint(a, "VERIFYING", "acknowledge", "no") \/
        (checkpoint(a, "VERIFYING", "acknowledge", "yes") /\ Absent(g))
    BY <1>5, <2>1 DEF verifyDeclaredResources
  <2> QED BY <2>2, <1>c, <1>s
<1>6. ASSUME signFinalAcknowledgement(a) PROVE Writes
  <2>1. Verdict(a) \in {"COMPLETED", "CLEANUP_REQUIRED"} /\ (Verdict(a) = "COMPLETED" => att[a].proven = "yes")
    BY DEF Verdict
  <2>2. checkpoint(a, Verdict(a), "store", att[a].proven)
    BY <1>6 DEF signFinalAcknowledgement
  <2> QED BY <2>1, <2>2, <1>c, <1>s
<1>7. ASSUME storeAcknowledgement(a) PROVE Writes
  <2>1. op'[g] = [state |-> Verdict(a), ack |-> "stored"]
    BY <1>7, <1>t, <1>1 DEF storeAcknowledgement, g
  <2>2. att'[a] = Quiet \/ (att'[a].gen = g /\ att'[a].proven = att[a].proven)
    BY <1>7, <1>t DEF storeAcknowledgement, Attempt, g
  <2>3. Verdict(a) # "none" /\ (Verdict(a) = "COMPLETED" => att[a].proven = "yes")
    BY DEF Verdict
  <2>4. \A b \in Attempts : b # a => att'[b] = att[b]
    BY <1>7, <1>t DEF storeAcknowledgement
  <2>5. \A h \in Gens : h # g => op'[h] = op[h]
    BY <1>7, <1>t DEF storeAcknowledgement, g
  <2> QED BY <2>1, <2>2, <2>3, <2>4, <2>5 DEF Writes
<1>8. ASSUME retireRow(a) PROVE Writes
  <2>1. att' = [att EXCEPT ![a] = Quiet] /\ op' = op
    BY <1>8 DEF retireRow
  <2> QED BY <2>1, <1>t DEF Writes
<1>9. Writes
  BY <1>3, <1>4, <1>5, <1>6, <1>7, <1>8 DEF attemptStep
<1> QED BY <1>1, <1>2, <1>9 DEF Writes, g

(* GoneInv is inductive: neither a crash nor a second attempt between the  *)
(* look and the acknowledgement brings back what was seen to be absent.    *)
LEMMA GoneStep ==
    ASSUME ConstantsAssumption, TypeInv, DeclaredInv, GoneInv, [Next]_vars
    PROVE  GoneInv'
<1>t. op \in [Gens -> Operation] /\ att \in [Attempts -> Attempt]
  BY DEF TypeInv, TypeOK
<1>s. \A g \in Gens : inv[g].signed = "yes" => inv'[g].signed = "yes"
  BY ReadyIsFixed
<1>0. CASE UNCHANGED vars
  BY <1>0 DEF vars, GoneInv, Absent, World
<1>1. ASSUME Next, NEW g \in Gens \ raced', op[g].state # "none"
      PROVE  /\ \A c \in calls' : c.gen # g
             /\ Absent(g) => Absent(g)'
  <2>1. g \notin raced /\ inv[g].signed = "yes"
    BY <1>1, RacedGrows DEF GoneInv
  <2>2. \A c \in calls : c.gen # g
    BY <1>1, <2>1 DEF GoneInv
  <2> QED BY <1>1, <2>1, <2>2, CallsOf, AbsentStep
<1>2. ASSUME Next, UNCHANGED op, \A a \in Attempts : att'[a] = att[a] \/ att'[a] = Quiet PROVE GoneInv'
  <2>q. Quiet.pc = "none"
    BY DEF Quiet
  <2>1. \A a \in Attempts : att'[a].pc # "none" => att'[a] = att[a] /\ att[a].gen \in Gens
    BY <1>2, <2>q DEF TypeInv, AttInv
  <2>2. raced \subseteq raced'
    BY <1>2, RacedGrows
  <2> QED BY <1>2, <2>1, <2>2, <1>1, <1>s DEF GoneInv
<1>3. ASSUME NEW a \in Attempts, NEW g \in Gens, openOperation(a, g) PROVE GoneInv'
  <2>1. /\ inv[g].signed = "yes" /\ UNCHANGED <<inv, calls, ctr, side>>
        /\ att' = [att EXCEPT ![a] = [gen |-> g, pc |-> "revoke", proven |-> "no"]]
        /\ op' = [op EXCEPT ![g].state = parkInterruptedAttempt(OpenedAs(g))]
        /\ raced' = IF \E c \in calls : c.gen = g THEN raced \cup {g} ELSE raced
    BY <1>3 DEF openOperation, acceptUninstall, consumeLifecycleCommandV3
  <2>2. op[g] \in Operation
    BY <1>t
  <2>3. /\ op'[g].state # "none"
        /\ op'[g].state = "COMPLETED" => op[g].state = "COMPLETED"
        /\ \A h \in Gens : h # g => op'[h] = op[h]
    BY <2>1, <2>2, <1>t DEF parkInterruptedAttempt, OpenedAs, Operation
  <2>4. /\ att'[a].gen = g /\ att'[a].proven = "no"
        /\ \A b \in Attempts : b # a => att'[b] = att[b]
    BY <2>1, <1>t
  <2>5. \A h \in Gens : Absent(h)' <=> Absent(h)
    BY <2>1 DEF Absent, World
  <2>6. \A b \in Attempts : att[b].pc # "none" => att[b].gen \in Gens
    BY DEF TypeInv, AttInv
  <2>7. raced \subseteq raced'
    BY <2>1
  <2>8. \A h \in Gens \ raced' : op'[h].state # "none" => \A c \in calls' : c.gen # h
    BY <2>1, <2>3, <2>7 DEF GoneInv
  <2>9. \A h \in Gens \ raced' : op'[h].state = "COMPLETED" => Absent(h)'
    BY <2>3, <2>5, <2>7 DEF GoneInv
  <2>10. \A b \in Attempts : att'[b].pc # "none" =>
            /\ op'[att'[b].gen].state # "none"
            /\ att'[b].proven = "yes" /\ att'[b].gen \notin raced' => Absent(att[b].gen)'
    <3>1. op'[att'[a].gen].state # "none" /\ att'[a].proven # "yes"
      BY <2>3, <2>4
    <3>2. ASSUME NEW b \in Attempts, b # a, att'[b].pc # "none"
          PROVE  /\ op'[att'[b].gen].state # "none"
                 /\ att'[b].proven = "yes" /\ att'[b].gen \notin raced' => Absent(att[b].gen)'
      <4>1. att'[b] = att[b] /\ att[b].gen \in Gens /\ op[att[b].gen].state # "none"
        BY <3>2, <2>4, <2>6 DEF GoneInv
      <4>2. op'[att[b].gen].state # "none"
        BY <4>1, <2>3
      <4>3. att[b].proven = "yes" /\ att[b].gen \notin raced' => Absent(att[b].gen)
        BY <4>1, <3>2, <2>7 DEF GoneInv
      <4>4. Absent(att[b].gen) => Absent(att[b].gen)'
        BY <2>1, <4>1 DEF Absent, World
      <4> QED BY <4>1, <4>2, <4>3, <4>4
    <3> QED BY <3>1, <3>2
  <2>11. \A h \in Gens : op'[h].state # "none" => inv'[h].signed = "yes"
    BY <2>1, <2>3 DEF GoneInv
  <2> QED BY <2>8, <2>9, <2>10, <2>11 DEF GoneInv
<1>4. ASSUME NEW a \in Attempts, attemptStep(a), Next PROVE GoneInv'
  <2> DEFINE g == att[a].gen
  <2>1. /\ att[a].pc # "none" /\ g \in Gens
        /\ \A b \in Attempts : b # a => att'[b] = att[b]
        /\ \A h \in Gens : h # g => op'[h] = op[h]
        /\ op[g].state # "none" => op'[g].state # "none"
        /\ op'[g].state = "COMPLETED" => op[g].state = "COMPLETED" \/ att[a].proven = "yes"
        /\ \/ att'[a] = Quiet
           \/ /\ att'[a].gen = g
              /\ att'[a].proven = "yes" => att[a].proven = "yes" \/ Absent(g)
        /\ UNCHANGED <<inv, calls, raced, job>>
    BY <1>4, AttemptWrites
  <2>2. op[g].state # "none"
    BY <2>1 DEF GoneInv
  <2>3. \A h \in Gens \ raced : op[h].state # "none" /\ Absent(h) => Absent(h)'
    BY <1>1, <1>4, <2>1
  <2>4. \A b \in Attempts : att[b].pc # "none" => att[b].gen \in Gens
    BY DEF TypeInv, AttInv
  <2>q. Quiet.pc = "none"
    BY DEF Quiet
  <2> HIDE DEF g
  <2>5. att[a].gen = g
    BY DEF g
  <2>6. \A h \in Gens : op'[h].state # "none" <=> op[h].state # "none"
    BY <2>1, <2>2
  <2>7. \A h \in Gens \ raced' : op'[h].state = "COMPLETED" => Absent(h)'
    BY <2>1, <2>2, <2>3, <2>5 DEF GoneInv
  <2>8. \A b \in Attempts : att'[b].pc # "none" =>
            /\ op'[att'[b].gen].state # "none"
            /\ att'[b].proven = "yes" /\ att'[b].gen \notin raced' => Absent(att[b].gen)'
    <3>1. ASSUME NEW b \in Attempts, att'[b].pc # "none", b # a
          PROVE  /\ op'[att'[b].gen].state # "none"
                 /\ att'[b].proven = "yes" /\ att'[b].gen \notin raced' => Absent(att[b].gen)'
      <4>1. att'[b] = att[b] /\ att[b].gen \in Gens /\ op[att[b].gen].state # "none"
        BY <3>1, <2>1, <2>4 DEF GoneInv
      <4>2. op'[att[b].gen].state # "none"
        BY <4>1, <2>6
      <4>3. att[b].proven = "yes" /\ att[b].gen \notin raced' => \E h \in Gens : h = att[b].gen /\ Absent(h)'
        BY <4>1, <3>1, <2>1, <2>3 DEF GoneInv
      <4>4. (\E h \in Gens : h = att[b].gen /\ Absent(h)') => Absent(att[b].gen)'
        BY <4>1 DEF Absent, World
      <4> QED BY <4>1, <4>2, <4>3, <4>4
    <3>2. ASSUME att'[a].pc # "none"
          PROVE  /\ op'[att'[a].gen].state # "none"
                 /\ att'[a].proven = "yes" /\ att'[a].gen \notin raced' => Absent(att[a].gen)'
      <4>1. att'[a].gen = g /\ (att'[a].proven = "yes" => att[a].proven = "yes" \/ Absent(g))
        BY <3>2, <2>q, <2>1
      <4>2. op'[g].state # "none"
        BY <2>1, <2>2
      <4>3. att[a].proven = "yes" /\ g \notin raced => Absent(g)
        BY <2>1, <2>5 DEF GoneInv
      <4>4. att[a].proven = "yes" \/ Absent(g) => (g \notin raced => \E h \in Gens : h = g /\ Absent(h)')
        BY <4>3, <2>1, <2>2, <2>3
      <4>5. (\E h \in Gens : h = g /\ Absent(h)') => Absent(att[a].gen)'
        BY <4>1 DEF Absent, World
      <4> QED BY <4>1, <4>2, <4>4, <4>5, <2>1
    <3> QED BY <3>1, <3>2
  <2>9. \A h \in Gens : op'[h].state # "none" => inv'[h].signed = "yes"
    BY <2>1, <2>6 DEF GoneInv
  <2>10. \A h \in Gens \ raced' : op'[h].state # "none" => \A c \in calls' : c.gen # h
    BY <2>1, <2>6 DEF GoneInv
  <2> QED BY <2>7, <2>8, <2>9, <2>10 DEF GoneInv
<1>5. CASE crash
  <2>1. UNCHANGED op /\ \A a \in Attempts : att'[a] = Quiet
    BY <1>5 DEF crash
  <2> QED BY <1>5, <2>1, <1>2 DEF Next
<1>6. CASE Next /\ UNCHANGED <<op, att>>
  BY <1>6, <1>2
<1> QED BY <1>0, <1>3, <1>4, <1>5, <1>6, UninstallFrame

(* GoneInv holds in every state the master can reach.                      *)
LEMMA GoneCorrect == Spec => [](TypeInv /\ DeclaredInv /\ GoneInv)
<1>1. Init => GoneInv
  <2> SUFFICES ASSUME Init PROVE GoneInv
    OBVIOUS
  <2>1. (\A g \in Gens : op[g].state = "none") /\ \A a \in Attempts : att[a].pc = "none"
    BY DEF Init, Quiet
  <2> QED BY <2>1 DEF GoneInv
<1>2. TypeInv /\ DeclaredInv /\ GoneInv /\ [Next]_vars => GoneInv'
  BY GoneStep, ConstantsAssumption
<1> QED BY <1>1, <1>2, DeclaredCorrect, PTL DEF Spec

(* CompletedIsGone: an uninstall that is COMPLETED left no declared        *)
(* resource on any node, unless an agent worked on the generation while it *)
(* was uninstalled; for any number of concurrent attempts, crashes and     *)
(* failing nodes (runAttempt, parkInterruptedAttempt).                     *)
THEOREM CompletedGone == Spec => []CompletedIsGone
<1>1. GoneInv => CompletedIsGone
  BY DEF GoneInv, CompletedIsGone, Absent
<1> QED BY <1>1, GoneCorrect, PTL

-----------------------------------------------------------------------------
(* The row and the generations after it.                                   *)

(* How a step moves the state of the row: an install inserts it into a     *)
(* free slot, a job brings it from PROVISIONING to RUNNING, an uninstall   *)
(* takes it away.                                                          *)
LEMMA RowMoves ==
    ASSUME ConstantsAssumption, TypeInv, Next
    PROVE  \/ row'.gen = row.gen /\ row'.plan = row.plan /\ row'.state = row.state
           \/ \E g \in Gens : /\ job = Idle /\ SlotFree /\ deployMcpV3(g)
                              /\ NewPlan(g) \in FreshPlans(g) /\ NewPlan(g) \in Plans
                              /\ row' = FreshRow(g, NewPlan(g))
           \/ /\ row'.gen = row.gen /\ row'.plan = row.plan
              /\ row.state \in {"PROVISIONING", "QUARANTINED"} /\ row'.state \in {"QUARANTINED", "RUNNING"}
              /\ UNCHANGED <<inv, op, att>>
           \/ \E a \in Attempts : revokeDispatch(a) \/ retireRow(a)
<1>t. row \in Row
  BY DEF TypeInv, TypeOK
<1> DEFINE Stays == row'.gen = row.gen /\ row'.plan = row.plan /\ row'.state = row.state
<1>1. ASSUME NEW g \in Gens, deployMcpV3(g)
      PROVE  \/ Stays
             \/ /\ job = Idle /\ SlotFree
                /\ NewPlan(g) \in FreshPlans(g) /\ NewPlan(g) \in Plans
                /\ row' = FreshRow(g, NewPlan(g))
  BY <1>1, NewPlanType DEF deployMcpV3
<1>2. CASE parseMcpV3ReplicaResponse \/ persistConfig
  <2>1. Stays
    BY <1>2, <1>t DEF parseMcpV3ReplicaResponse, persistConfig, Row
  <2> QED BY <2>1
<1>4. CASE persistUpgrade
  <2>1. Stays
    BY <1>4, <1>t DEF persistUpgrade, Row
  <2> QED BY <2>1
<1>3. CASE quarantineRow \/ establish
  <2>1. UNCHANGED <<inv, op, att>>
    BY <1>3 DEF quarantineRow, establish
  <2>2. \/ row' = row
        \/ /\ row.state \in {"PROVISIONING", "QUARANTINED"}
           /\ \/ row' = [row EXCEPT !.state = "QUARANTINED", !.bound = "yes"]
              \/ row' = [row EXCEPT !.state = "RUNNING"]
    BY <1>3 DEF quarantineRow, establish
  <2>3. \/ Stays
        \/ /\ row'.gen = row.gen /\ row'.plan = row.plan
           /\ row.state \in {"PROVISIONING", "QUARANTINED"} /\ row'.state \in {"QUARANTINED", "RUNNING"}
    BY <2>2, <1>t DEF Row
  <2> QED BY <2>1, <2>3
<1> QED BY <1>1, <1>2, <1>3, <1>4, RowFrame

(* The state of an inventory only changes for the generation of the row.   *)
LEMMA InventoryOfTheRow ==
    ASSUME TypeInv, Next, NEW g \in Gens, g # row.gen
    PROVE  inv'[g].state = inv[g].state
<1>t. inv \in [Gens -> Inventory] /\ inv[g] \in Inventory /\ (job.pc # "none" => job.gen = row.gen /\ job.gen \in Gens)
  BY AcceptedType DEF TypeInv, TypeOK
<1>1. CASE buildCapturingRuntimeResourceInventoryV3 \/ parseMcpV3ReplicaResponse
           \/ finalizeRuntimeResourceInventoryV3
  <2>1. inv'[g] = inv[g]
    BY <1>1, <1>t DEF buildCapturingRuntimeResourceInventoryV3, parseMcpV3ReplicaResponse,
       finalizeRuntimeResourceInventoryV3
  <2> QED BY <2>1
<1>2. ASSUME NEW h \in Gens, signRuntimeInventoryAttestation(h) PROVE inv'[g].state = inv[g].state
  <2>1. inv' = [inv EXCEPT ![h].signed = "yes"] /\ inv[h] \in Inventory
    BY <1>2, <1>t DEF signRuntimeInventoryAttestation
  <2> QED BY <2>1, <1>t DEF Inventory
<1>3. ASSUME NEW h \in Gens, recoverMcpV3InventoryAttestation(h) PROVE inv'[g].state = inv[g].state
  BY <1>3, <1>t DEF recoverMcpV3InventoryAttestation
<1> QED BY <1>1, <1>2, <1>3, InventoryFrame

\* Without a row there is no inventory.  An attempt is about a READY inventory; one that
\* took the access of the row's generation away finds it taken away, or a document with
\* replicas the inventory does not have.
AccessInv ==
    /\ row.state = "NONE" <=> row.gen = 0
    /\ row.gen = 0 => \A g \in Gens : inv[g].state = "none"
    /\ \A a \in Attempts : att[a].pc # "none" => inv[att[a].gen].state = "READY"
    /\ \A a \in Attempts : att[a].pc \notin {"none", "revoke"} /\ att[a].gen = row.gen =>
          row.state \in {"REVOKING", "REMOVED"} \/ inv[row.gen].res \cap Parts(row.plan) = {}

(* A container changes with an agent's work on its generation and replica, *)
(* or goes when an uninstall removes it.                                   *)
LEMMA ContainerStep ==
    ASSUME TypeInv, Next, NEW g \in Gens, NEW r \in Replicas
    PROVE  \/ ctr'[<<g, r>>] = ctr[<<g, r>>]
           \/ \E c \in calls : c.gen = g /\ c.r = r /\ deployEnds(c) /\ ctr'[<<g, r>>] = c.to
           \/ \E c \in calls : c.gen = g /\ c.r = r /\ (swapBegins(c) \/ swapEnds(c))
           \/ \E a \in Attempts : /\ att[a].pc = "remove" /\ att[a].gen = g /\ removeDeclaredResources(a)
                                  /\ <<r, "container">> \in inv[g].res
                                  /\ ctr'[<<g, r>>] = Gone
<1>t. ctr \in [Gens \X Replicas -> Container \cup {Gone}]
  BY DEF TypeInv, TypeOK
<1>1. CASE UNCHANGED <<ctr, side>> \/ finalizeReplicas
  BY <1>1 DEF finalizeReplicas
<1>2. ASSUME NEW c \in calls, deployManagedApp(c) \/ deployEnds(c) \/ swapBegins(c) \/ swapEnds(c)
      PROVE  \/ ctr'[<<g, r>>] = ctr[<<g, r>>]
             \/ c.gen = g /\ c.r = r /\ deployEnds(c) /\ ctr'[<<g, r>>] = c.to
             \/ c.gen = g /\ c.r = r /\ (swapBegins(c) \/ swapEnds(c))
  <2>1. c.gen \in Gens /\ c.r \in Replicas
    BY <1>2 DEF TypeInv, TypeOK, Call
  <2>2. \A x : Put(c, x) => \/ ctr'[<<g, r>>] = ctr[<<g, r>>]
                            \/ c.gen = g /\ c.r = r /\ ctr'[<<g, r>>] = x
    BY <1>t, <2>1 DEF Put
  <2> QED BY <1>2, <2>2 DEF deployManagedApp, deployEnds, swapBegins, swapEnds
<1>3. ASSUME NEW a \in Attempts, removeDeclaredResources(a)
      PROVE  \/ ctr'[<<g, r>>] = ctr[<<g, r>>]
             \/ att[a].pc = "remove" /\ att[a].gen = g /\ <<r, "container">> \in inv[g].res /\ ctr'[<<g, r>>] = Gone
  <2>1. \A h, rs : removeRuntimeResource(h, rs) =>
           ctr'[<<g, r>>] = ctr[<<g, r>>] \/ (h = g /\ <<r, "container">> \in inv[g].res /\ ctr'[<<g, r>>] = Gone)
    BY <1>t DEF removeRuntimeResource
  <2> QED BY <1>3, <2>1 DEF removeDeclaredResources
<1> QED BY <1>1, <1>2, <1>3, NodesFrame

(* AccessInv is inductive: a row is inserted with replicas the inventory   *)
(* of its generation does not have, and an attempt takes the access away   *)
(* before it removes anything.                                             *)
LEMMA AccessStep ==
    ASSUME ConstantsAssumption, TypeInv, DeclaredInv, AccessInv, [Next]_vars
    PROVE  AccessInv'
<1>t. /\ row \in Row /\ row.gen \in Nat /\ \A g \in Gens : g \in Nat /\ g > 0
      /\ att \in [Attempts -> Attempt]
      /\ row.gen = 0 \/ row.gen \in Gens
  <2>1. row \in Row /\ att \in [Attempts -> Attempt]
    BY DEF TypeInv, TypeOK
  <2> QED BY <2>1 DEF Row, Gens
<1>q. Quiet.pc = "none"
  BY DEF Quiet
<1>a. \A a \in Attempts : att[a].pc # "none" => att[a].gen \in Gens
  BY DEF TypeInv, AttInv
<1>0. CASE UNCHANGED vars
  BY <1>0 DEF vars, AccessInv, Parts
<1>r. \A g \in Gens : inv[g].state = "READY" => inv'[g].state = "READY" /\ inv'[g].res = inv[g].res
  BY ReadyIsFixed
<1>n. ASSUME Next, row.gen = 0, NEW g \in Gens PROVE inv'[g].state = "none"
  BY <1>n, <1>t, InventoryOfTheRow DEF AccessInv
\* A step that keeps the document.
<1>1. ASSUME Next, row'.gen = row.gen, row'.plan = row.plan, row'.state = "NONE" <=> row.state = "NONE",
             \A a \in Attempts : att'[a].pc # "none" => att'[a].gen \in Gens /\ inv[att'[a].gen].state = "READY",
             \A a \in Attempts : att'[a].pc \notin {"none", "revoke"} /\ att'[a].gen = row.gen =>
                row'.state \in {"REVOKING", "REMOVED"} \/ inv[row.gen].res \cap Parts(row.plan) = {}
      PROVE  AccessInv'
  <2>1. \A a \in Attempts : att'[a].pc # "none" => inv'[att'[a].gen].state = "READY"
    BY <1>1, <1>r
  <2>2. \A a \in Attempts : att'[a].pc \notin {"none", "revoke"} /\ att'[a].gen = row.gen =>
           row'.state \in {"REVOKING", "REMOVED"} \/ inv'[row.gen].res \cap Parts(row.plan) = {}
    <3> SUFFICES ASSUME NEW a \in Attempts, att'[a].pc \notin {"none", "revoke"}, att'[a].gen = row.gen
                 PROVE  row'.state \in {"REVOKING", "REMOVED"} \/ inv'[row.gen].res \cap Parts(row.plan) = {}
      OBVIOUS
    <3>1. row.gen \in Gens /\ inv'[row.gen].res = inv[row.gen].res
      BY <1>1, <1>r
    <3> QED BY <1>1, <3>1
  <2> QED BY <1>1, <1>n, <2>1, <2>2 DEF AccessInv, Parts
<1>2. CASE Next /\ UNCHANGED <<op, att>>
  <2>a. \A a \in Attempts : att[a].pc # "none" => att[a].gen \in Gens /\ inv[att[a].gen].state = "READY"
    BY <1>a DEF AccessInv
  <2>1. CASE row'.gen = row.gen /\ row'.plan = row.plan /\ row'.state = row.state
    BY <1>2, <2>1, <2>a, <1>1 DEF AccessInv
  <2>2. ASSUME NEW g \in Gens, deployMcpV3(g), NewPlan(g) \in FreshPlans(g), row' = FreshRow(g, NewPlan(g))
        PROVE  AccessInv'
    <3>1. UNCHANGED <<inv, att>>
      BY <2>2 DEF deployMcpV3
    <3>2. row'.gen = g /\ row'.plan = NewPlan(g) /\ row'.state = "PROVISIONING"
      BY <2>2 DEF FreshRow
    <3>3. inv[g].res \cap Parts(NewPlan(g)) = {}
      BY <2>2 DEF FreshPlans
    <3>4. g # 0
      BY <1>t
    <3> HIDE DEF NewPlan
    <3> QED BY <3>1, <3>2, <3>3, <3>4, <2>a DEF AccessInv, Parts
  <2>3. CASE /\ row'.gen = row.gen /\ row'.plan = row.plan
             /\ row.state \in {"PROVISIONING", "QUARANTINED"} /\ row'.state \in {"QUARANTINED", "RUNNING"}
    BY <1>2, <2>3, <2>a, <1>1 DEF AccessInv
  <2>4. ASSUME NEW a \in Attempts, revokeDispatch(a) \/ retireRow(a) PROVE AccessInv'
    <3>1. row'.gen = row.gen /\ row'.plan = row.plan /\ row'.state \in {"REVOKING", "REMOVED"}
      BY <2>4, <1>t DEF revokeDispatch, retireRow, Row
    <3>2. att[a].gen \in Gens /\ inv[att[a].gen].state = "READY"
      BY <2>4, <2>a DEF revokeDispatch, retireRow
    <3>3. row.state # "NONE"
      BY <3>2 DEF AccessInv
    <3> QED BY <3>1, <3>3, <1>2, <2>a, <1>1
  <2> QED BY <1>2, <2>1, <2>2, <2>3, <2>4, RowMoves
<1>3. ASSUME NEW a \in Attempts, NEW g \in Gens, openOperation(a, g), Next PROVE AccessInv'
  <2>1. UNCHANGED row /\ att' = [att EXCEPT ![a] = [gen |-> g, pc |-> "revoke", proven |-> "no"]]
    BY <1>3 DEF openOperation
  <2>2. inv[g].state = "READY"
    BY <1>3 DEF openOperation, acceptUninstall, consumeLifecycleCommandV3
  <2>4. \A b \in Attempts : att'[b] = IF b = a THEN [gen |-> g, pc |-> "revoke", proven |-> "no"] ELSE att[b]
    BY <2>1, <1>t
  <2>5. \A b \in Attempts : att'[b].pc # "none" => att'[b].gen \in Gens /\ inv[att'[b].gen].state = "READY"
    BY <2>2, <2>4, <1>a DEF AccessInv
  <2> QED BY <1>3, <2>1, <2>4, <2>5, <1>1 DEF AccessInv
<1>4. ASSUME NEW a \in Attempts, attemptStep(a), Next PROVE AccessInv'
  <2>1. /\ \A b \in Attempts : b # a => att'[b] = att[b]
        /\ att'[a].pc = "none" \/ att'[a].gen = att[a].gen
        /\ att[a].pc # "none"
    BY <1>4, <1>q, AttemptWrites
  <2>2. row'.gen = row.gen /\ row'.plan = row.plan /\ (row'.state = row.state \/ row'.state \in {"REVOKING", "REMOVED"})
        /\ (att[a].pc = "revoke" => row'.state \in {"REVOKING", "REMOVED"})
    BY <1>4, <1>t DEF attemptStep, revokeDispatch, retireRow, removeDeclaredResources, verifyDeclaredResources,
       signFinalAcknowledgement, storeAcknowledgement, Row
  <2>3. \A b \in Attempts : att'[b].pc # "none" => att'[b].gen \in Gens /\ inv[att'[b].gen].state = "READY"
    BY <2>1, <1>a DEF AccessInv
  <2>4. \A b \in Attempts : att'[b].pc \notin {"none", "revoke"} /\ att'[b].gen = row.gen =>
                row'.state \in {"REVOKING", "REMOVED"} \/ inv[row.gen].res \cap Parts(row.plan) = {}
    BY <2>1, <2>2 DEF AccessInv
  <2>5. row'.state = "NONE" <=> row.state = "NONE"
    <3>1. att[a].gen \in Gens /\ inv[att[a].gen].state = "READY"
      BY <2>1, <1>a DEF AccessInv
    <3>2. row.state # "NONE"
      BY <3>1 DEF AccessInv
    <3> QED BY <3>2, <2>2
  <2> QED BY <1>4, <2>2, <2>3, <2>4, <2>5, <1>1
<1>5. CASE crash
  <2>1. UNCHANGED row /\ \A a \in Attempts : att'[a].pc = "none"
    BY <1>5, <1>q DEF crash
  <2> QED BY <1>5, <2>1, <1>1 DEF Next
<1> QED BY <1>0, <1>2, <1>3, <1>4, <1>5, UninstallFrame

(* AccessInv holds in every state the master can reach.                    *)
LEMMA AccessCorrect == Spec => [](TypeInv /\ DeclaredInv /\ AccessInv)
<1>1. Init => AccessInv
  <2> SUFFICES ASSUME Init PROVE AccessInv
    OBVIOUS
  <2>1. /\ \A g \in Gens : inv[g].state = "none"
        /\ \A a \in Attempts : att[a].pc = "none"
        /\ row.gen = 0 /\ row.state = "NONE"
    BY DEF Init, Quiet
  <2> QED BY <2>1 DEF AccessInv
<1>2. TypeInv /\ DeclaredInv /\ AccessInv /\ [Next]_vars => AccessInv'
  BY AccessStep, ConstantsAssumption
<1> QED BY <1>1, <1>2, DeclaredCorrect, PTL DEF Spec

(* UninstallIsOneWay: a REVOKING row only becomes REMOVED, a REMOVED one   *)
(* only gives way to a newly inserted document, however installs,          *)
(* activations, reconfigurations, upgrades and other uninstalls go on      *)
(* meanwhile (revokeDispatch against quarantineRow, establish and the      *)
(* writes that end a command).                                             *)
THEOREM UninstallOneWay == Spec => UninstallIsOneWay
<1> DEFINE Step == /\ row.state = "REVOKING" => row'.state \in {"REVOKING", "REMOVED"}
                   /\ row.state = "REMOVED" => \/ row'.state \in {"REVOKING", "REMOVED"}
                                               \/ \E p \in Plans : row' = FreshRow(row'.gen, p)
<1>1. ASSUME TypeInv, Next PROVE Step
  <2>1. CASE row'.state = row.state
    BY <2>1
  <2>2. ASSUME NEW g \in Gens, SlotFree, NewPlan(g) \in Plans, row' = FreshRow(g, NewPlan(g)) PROVE Step
    <3>1. row'.gen = g
      BY <2>2 DEF FreshRow
    <3> QED BY <2>2, <3>1 DEF SlotFree
  <2>3. CASE row.state \in {"PROVISIONING", "QUARANTINED"}
    BY <2>3
  <2>4. ASSUME NEW a \in Attempts, revokeDispatch(a) \/ retireRow(a) PROVE Step
    <3>1. row \in Row
      BY <1>1 DEF TypeInv, TypeOK
    <3>2. row'.state \in {"REVOKING", "REMOVED"}
      BY <2>4, <3>1 DEF revokeDispatch, retireRow, Row
    <3> QED BY <3>2
  <2> QED BY <1>1, <2>1, <2>2, <2>3, <2>4, RowMoves, ConstantsAssumption
<1>2. TypeInv /\ [Next]_vars => [Step]_vars
  BY <1>1
<1> QED BY <1>2, TypeCorrect, PTL DEF Spec, UninstallIsOneWay

-----------------------------------------------------------------------------
(* What serves.                                                            *)

Moving == {"configure", "upgrade"}
Success == {"active", "applied", "upgraded"}

\* Until the row is RUNNING its generation is only installed: the agents are asked for
\* nothing else, and with the row bound every replica is there.
InstallInv ==
    /\ row.state \in {"PROVISIONING", "QUARANTINED"} =>
          /\ row.is = Installed
          /\ job.kind \notin Moving
          /\ \A c \in calls : c.gen = row.gen /\ c.r \in row.plan => c.kind = "deploy" /\ c.to = Installed
          /\ \A r \in row.plan : ctr[<<row.gen, r>>] \in {Gone, Installed}
          /\ row.bound = "yes" \/ job.pc = "quarantine" => \A r \in row.plan : ctr[<<row.gen, r>>] = Installed
    /\ job.kind = "install" /\ job.reply # "none" => row.bound = "no"

\* What a job that moves the replicas asks them to run.
NewIs == IF job.kind = "configure" THEN Target(job.arg) ELSE redeployBody(job.arg)

\* Nothing but the one request of such a job is under way, and the replicas it is done
\* with have moved.
MoveInv ==
    job.kind \in Moving /\ job.pc = "forward" /\ row.state = "RUNNING" /\ row.gen \notin late =>
       /\ \A r \in job.done : ctr[<<row.gen, r>>] = NewIs
       /\ job.reply = "ok" => ctr[<<row.gen, job.at>>] = NewIs
       /\ \A c \in calls : c.gen = row.gen =>
             /\ c.kind # "deploy" /\ c.to = NewIs /\ c.r \notin job.done
             /\ job.kind = "configure" => c.kind = "reconfigure"

ServeInv ==
    row.state = "RUNNING" /\ row.gen \notin late /\ job.kind \notin Moving /\ told \in Success =>
       \A r \in row.plan : ctr[<<row.gen, r>>] = row.is

(* No attempt removes a replica of a row whose access was not taken away.  *)
LEMMA NoRemoval ==
    ASSUME TypeInv, AccessInv, row.state \notin {"REVOKING", "REMOVED"}, NEW a \in Attempts,
           att[a].pc = "remove", att[a].gen = row.gen, NEW r \in row.plan
    PROVE  <<r, "container">> \notin inv[row.gen].res
<1>1. inv[row.gen].res \cap Parts(row.plan) = {}
  BY DEF AccessInv
<1>2. <<r, "container">> \in Parts(row.plan)
  BY DEF Parts, Kinds
<1> QED BY <1>1, <1>2

(* A replica's container of such a row changes only with an agent's work   *)
(* on it.                                                                  *)
LEMMA ServingContainer ==
    ASSUME TypeInv, AccessInv, Next, row.state \notin {"REVOKING", "REMOVED"},
           row.gen \in Gens, NEW r \in row.plan
    PROVE  \/ ctr'[<<row.gen, r>>] = ctr[<<row.gen, r>>]
           \/ \E c \in calls : c.gen = row.gen /\ c.r = r /\ deployEnds(c) /\ ctr'[<<row.gen, r>>] = c.to
           \/ \E c \in calls : c.gen = row.gen /\ c.r = r /\ (swapBegins(c) \/ swapEnds(c))
<1>1. r \in Replicas
  BY PlanType
<1>2. \A a \in Attempts : att[a].pc = "remove" /\ att[a].gen = row.gen => <<r, "container">> \notin inv[row.gen].res
  BY NoRemoval
<1> QED BY <1>1, <1>2, ContainerStep

(* Whatever the commands of the Hub and the job do, they move no container *)
(* and no attempt themselves.                                              *)
LEMMA JobLeavesContainers ==
    ASSUME TypeInv, hubStep \/ jobStep PROVE UNCHANGED <<ctr, att>>
<1>1. CASE hubStep
  BY <1>1 DEF hubStep, acceptInstall, refuseInstall, deployMcpV3, recoverMcpV3InventoryAttestation, activateMcpV3, reconfigureMcpV3,
     upgradeMcpV3
<1>2. CASE jobStep
  BY <1>2 DEF jobStep, buildCapturingRuntimeResourceInventoryV3, deployReplica,
     parseMcpV3ReplicaResponse, deployFailed, finalizeRuntimeResourceInventoryV3, finalizeReplicas,
     quarantineRow, establish, reconfigureReplica, reconfigureReplied, rollbackReplica, persistConfig,
     upgradeReplica, upgradeReplied, persistUpgrade, revertReplica, upgradeFailed
<1> QED BY <1>1, <1>2

(* The steps by who takes them, and what each leaves alone.                *)
LEMMA Others ==
    ASSUME TypeInv, Next
    PROVE  \/ hubStep \/ jobStep
           \/ agentStep /\ UNCHANGED <<row, late, att, told>>
           \/ /\ UNCHANGED <<row, ctr, calls, late, job, att>>
              /\ \E g \in Gens : signRuntimeInventoryAttestation(g)
           \/ /\ UNCHANGED <<job, calls, late, told>>
              /\ \E a \in Attempts : attemptStep(a) \/ \E g \in Gens : openOperation(a, g)
              /\ row' = row \/ row'.state \in {"REVOKING", "REMOVED"}
           \/ UNCHANGED <<row, ctr, att, told>> /\ \E c \in calls : timeout(c)
           \/ UNCHANGED <<row, ctr>> /\ crash
<1>t. row \in Row
  BY DEF TypeInv, TypeOK
<1>1. CASE agentStep
  BY <1>1 DEF agentStep, deployManagedApp, deployEnds, swapBegins, swapEnds
<1>2. CASE \E g \in Gens : signRuntimeInventoryAttestation(g)
  BY <1>2 DEF signRuntimeInventoryAttestation
<1>3. ASSUME NEW a \in Attempts, attemptStep(a) \/ \E g \in Gens : openOperation(a, g)
      PROVE  UNCHANGED <<job, calls, late, told>> /\ (row' = row \/ row'.state \in {"REVOKING", "REMOVED"})
  BY <1>3, <1>t DEF attemptStep, openOperation, revokeDispatch, removeDeclaredResources,
     verifyDeclaredResources, signFinalAcknowledgement, storeAcknowledgement, retireRow, Row
<1>4. ASSUME NEW c \in calls, timeout(c) PROVE UNCHANGED <<row, ctr, att, told>>
  BY <1>4 DEF timeout
<1>5. CASE crash
  BY <1>5 DEF crash
<1> QED BY <1>1, <1>2, <1>3, <1>4, <1>5 DEF Next

(* What the holder of the lock asks of an agent: an install the installed  *)
(* container, a reconfigure or upgrade that goes forward the new one, of a *)
(* replica it is not done with.                                            *)
LEMMA NewRequest ==
    ASSUME ConstantsAssumption, TypeInv, hubStep \/ jobStep, NEW d \in calls', d \notin calls
    PROVE  /\ d.gen = job.gen /\ UNCHANGED <<row, late, told>> /\ job.reply = "none"
           /\ job' = [job EXCEPT !.at = d.r, !.reply = "waiting"]
           /\ \/ job.kind = "install" /\ d.kind = "deploy" /\ d.to = Installed /\ row.reported # row.plan
              \/ /\ job.kind = "configure" /\ d.kind = "reconfigure"
                 /\ job.pc = "forward" => d.to = Target(job.arg) /\ d.r \notin job.done
              \/ /\ job.kind = "upgrade" /\ d.kind = "redeploy"
                 /\ job.pc = "forward" => d.to = redeployBody(job.arg) /\ d.r \notin job.done
<1>q. ASSUME NEW kind, NEW r, NEW to, request(kind, r, to)
      PROVE  /\ d.gen = job.gen /\ d.kind = kind /\ d.to = to /\ d.r = r
             /\ job' = [job EXCEPT !.at = d.r, !.reply = "waiting"]
  <2>1. d = [kind |-> kind, gen |-> job.gen, r |-> r, to |-> to, old |-> 0, phase |-> "sent", await |-> "yes"]
    BY <1>q DEF request
  <2>2. d.gen = job.gen /\ d.kind = kind /\ d.to = to /\ d.r = r
    BY <2>1
  <2> QED BY <1>q, <2>2 DEF request
<1>k. job.pc = "deploy" => job.kind = "install"
  BY DEF TypeInv, JobInv, Idle
<1>1. CASE deployReplica
  BY <1>1, <1>q, <1>k DEF deployReplica, Replied
<1>2. CASE reconfigureReplica
  BY <1>2, <1>q, NextReplica DEF reconfigureReplica, Replied
<1>3. CASE rollbackReplica
  BY <1>3, <1>q DEF rollbackReplica, Replied
<1>4. CASE upgradeReplica
  BY <1>4, <1>q, NextReplica DEF upgradeReplica, Replied
<1>5. CASE revertReplica
  BY <1>5, <1>q DEF revertReplica, Replied
<1>6. CASE hubStep
  BY <1>6 DEF hubStep, acceptInstall, refuseInstall, deployMcpV3, recoverMcpV3InventoryAttestation, activateMcpV3, reconfigureMcpV3,
     upgradeMcpV3
<1>7. ~(buildCapturingRuntimeResourceInventoryV3 \/ parseMcpV3ReplicaResponse \/ deployFailed
        \/ finalizeRuntimeResourceInventoryV3 \/ finalizeReplicas \/ quarantineRow \/ establish
        \/ reconfigureReplied \/ persistConfig \/ upgradeReplied \/ persistUpgrade \/ upgradeFailed)
  BY DEF buildCapturingRuntimeResourceInventoryV3, parseMcpV3ReplicaResponse, deployFailed,
     finalizeRuntimeResourceInventoryV3, finalizeReplicas, quarantineRow, establish,
     reconfigureReplied, persistConfig, upgradeReplied, persistUpgrade, upgradeFailed
<1> QED BY <1>1, <1>2, <1>3, <1>4, <1>5, <1>6, <1>7 DEF jobStep

(* An agent changes a request in its phase only, and so does a master that *)
(* gives it up or dies: generation, kind, replica and target stay.         *)
LEMMA SameCalls ==
    ASSUME TypeInv, agentStep \/ (\E c \in calls : timeout(c)) \/ crash, NEW d \in calls'
    PROVE  \E c \in calls : d.gen = c.gen /\ d.kind = c.kind /\ d.to = c.to /\ d.r = c.r
<1>c. \A c \in calls : c \in Call
  BY DEF TypeInv, TypeOK
<1>2. CASE agentStep
  <2>1. PICK c \in calls : deployManagedApp(c) \/ deployEnds(c) \/ swapBegins(c) \/ swapEnds(c)
    BY <1>2 DEF agentStep
  <2>2. \A old : LET b == [c EXCEPT !.phase = "gap", !.old = old] IN
           b.gen = c.gen /\ b.kind = c.kind /\ b.to = c.to /\ b.r = c.r
    BY <1>c DEF Call
  <2>3. d \in calls \/ \E old : Begin(c, old)
    BY <2>1 DEF deployManagedApp, deployEnds, swapBegins, swapEnds, respond
  <2> QED BY <2>2, <2>3 DEF Begin
<1>3. ASSUME NEW c \in calls, timeout(c) PROVE \E e \in calls : d.gen = e.gen /\ d.kind = e.kind /\ d.to = e.to /\ d.r = e.r
  <2>1. LET b == [c EXCEPT !.await = "no"] IN b.gen = c.gen /\ b.kind = c.kind /\ b.to = c.to /\ b.r = c.r
    BY <1>c DEF Call
  <2> QED BY <1>3, <2>1 DEF timeout
<1>4. CASE crash
  <2>1. \A c \in calls : LET b == [c EXCEPT !.await = "no"] IN
           b.gen = c.gen /\ b.kind = c.kind /\ b.to = c.to /\ b.r = c.r
    BY <1>c DEF Call
  <2>2. PICK c \in calls : d = [c EXCEPT !.await = "no"]
    BY <1>4 DEF crash
  <2> QED BY <2>1, <2>2
<1> QED BY <1>2, <1>3, <1>4

(* A request after a step was there before it, or the job has just sent    *)
(* it.                                                                     *)
LEMMA CallMoves ==
    ASSUME TypeInv, Next, NEW d \in calls'
    PROVE  \/ \E c \in calls : d.gen = c.gen /\ d.kind = c.kind /\ d.to = c.to /\ d.r = c.r
           \/ d \notin calls /\ (hubStep \/ jobStep)
BY SameCalls, Others

(* An agent's answer and a timeout are only seen by a job that waits; its  *)
(* place is left alone.                                                    *)
LEMMA AnswerMoves ==
    ASSUME TypeInv, agentStep \/ \E c \in calls : timeout(c)
    PROVE  \/ job' = job
           \/ /\ job'.kind = job.kind /\ job'.arg = job.arg /\ job'.gen = job.gen /\ job'.pc = job.pc
              /\ job'.at = job.at /\ job'.done = job.done /\ job.reply = "waiting"
<1>t. job \in Job
  BY DEF TypeInv, TypeOK
<1>1. PICK c \in calls : deployManagedApp(c) \/ deployEnds(c) \/ swapBegins(c) \/ swapEnds(c) \/ timeout(c)
  BY DEF agentStep
<1>2. job' = job \/ (c.await = "yes" /\ \E answer : job' = [job EXCEPT !.reply = answer])
  BY <1>1 DEF deployManagedApp, deployEnds, swapBegins, swapEnds, timeout, respond
<1>3. c.await = "yes" => job.reply = "waiting"
  BY DEF TypeInv, CallInv
<1> QED BY <1>2, <1>3, <1>t DEF Job

(* InstallInv is inductive: until the row is RUNNING its agents are only   *)
(* asked to install, and finalizeReplicas finds every container.           *)
LEMMA InstallStep ==
    ASSUME ConstantsAssumption, TypeInv, DeclaredInv, AccessInv, InstallInv, [Next]_vars
    PROVE  InstallInv'
<1>t. /\ row \in Row /\ row.gen \in Nat /\ job \in Job /\ \A g \in Gens : g \in Nat /\ g > 0
      /\ \A c \in calls : c \in Call /\ c.gen \in Nat
      /\ job.pc # "none" => job.gen = row.gen /\ job.gen \in Gens
      /\ Idle.kind = "idle" /\ Idle.pc = "none" /\ Idle.reply = "none"
  <2>1. row \in Row /\ row.gen \in Nat /\ job \in Job
    BY DEF TypeInv, TypeOK, Row
  <2>2. \A g \in Gens : g \in Nat /\ g > 0
    BY ConstantsAssumption DEF ConstantsAssumption, Gens
  <2>3. \A c \in calls : c \in Call /\ c.gen \in Nat
    BY <2>2 DEF TypeInv, TypeOK, Call
  <2>4. Idle.kind = "idle" /\ Idle.pc = "none" /\ Idle.reply = "none"
    BY DEF Idle
  <2> QED BY <2>1, <2>2, <2>3, <2>4, AcceptedType
<1>0. CASE UNCHANGED vars
  BY <1>0 DEF vars, InstallInv
\* A deploy the job waits for finds the row unbound.
<1>1. ASSUME Next, job'.kind = "install", job'.reply # "none" PROVE row'.bound = "no"
  <2>1. CASE \E d \in calls' : d \notin calls /\ (hubStep \/ jobStep)
    <3>1. PICK d \in calls' : d \notin calls /\ (hubStep \/ jobStep)
      BY <2>1
    <3>2. /\ job' = [job EXCEPT !.at = d.r, !.reply = "waiting"] /\ row' = row
          /\ job.kind = "install" => row.reported # row.plan
      BY <3>1, NewRequest, ConstantsAssumption
    <3>3. job.kind = "install"
      BY <3>2, <1>1, <1>t DEF Job
    <3> QED BY <3>2, <3>3, <1>t DEF DeclaredInv, Row
  <2>2. CASE job' = job /\ row'.bound = row.bound
    BY <2>2, <1>1 DEF InstallInv
  <2>3. CASE agentStep \/ \E c \in calls : timeout(c)
    <3>1. UNCHANGED row
      BY <2>3 DEF agentStep, timeout, deployManagedApp, deployEnds, swapBegins, swapEnds
    <3> QED BY <2>3, <3>1, <1>1, AnswerMoves DEF InstallInv
  <2>4. CASE hubStep
    <3>1. ASSUME NEW g \in Gens, deployMcpV3(g) \/ activateMcpV3(g) \/ recoverMcpV3InventoryAttestation(g)
          PROVE  job'.reply = "none" \/ job'.kind # "install"
      BY <3>1, <1>t DEF deployMcpV3, activateMcpV3, recoverMcpV3InventoryAttestation, acceptActivation, Finish, Idle
    <3>4. ASSUME NEW g \in Gens, acceptInstall(g) \/ refuseInstall(g) PROVE row'.bound = "no"
      BY <3>4, <2>2 DEF acceptInstall, refuseInstall
    <3>2. ASSUME NEW e \in Configs, reconfigureMcpV3(e) PROVE job'.kind # "install"
      BY <3>2, <1>t DEF reconfigureMcpV3, acceptReconfigure, Finish, Idle
    <3>3. ASSUME NEW n \in Images, upgradeMcpV3(n) PROVE job'.kind # "install"
      BY <3>3, <1>t DEF upgradeMcpV3, acceptUpgrade, Finish, Idle
    <3> QED BY <2>4, <1>1, <3>1, <3>2, <3>3, <3>4 DEF hubStep
  <2>5. CASE jobStep
    <3>1. job.pc \in {"inventory", "finalize", "quarantine", "establish"} => job.reply = "none"
      BY DEF TypeInv, JobInv, Asking
    <3>2. CASE \/ buildCapturingRuntimeResourceInventoryV3 \/ deployReplica \/ parseMcpV3ReplicaResponse
               \/ deployFailed \/ finalizeRuntimeResourceInventoryV3 \/ finalizeReplicas
               \/ quarantineRow \/ establish
      <4>1. CASE deployReplica
        <5>1. row' = row /\ job.kind = "install" /\ row.reported # row.plan
          BY <4>1 DEF deployReplica, TypeInv, JobInv, Idle
        <5> QED BY <5>1, <1>t DEF DeclaredInv, Row
      <4>2. CASE buildCapturingRuntimeResourceInventoryV3
        BY <4>2, <3>1, <1>1, <1>t DEF buildCapturingRuntimeResourceInventoryV3, Job
      <4>3. CASE parseMcpV3ReplicaResponse \/ deployFailed
        BY <4>3, <1>1, <1>t DEF parseMcpV3ReplicaResponse, deployFailed, Finish, Job
      <4>4. CASE finalizeRuntimeResourceInventoryV3
        <5>1. job' = Idle \/ job' = [job EXCEPT !.pc = "finalize"]
          BY <4>4 DEF finalizeRuntimeResourceInventoryV3, Finish
        <5>2. job.reply = "none"
          BY <4>4 DEF finalizeRuntimeResourceInventoryV3, Replied
        <5> QED BY <5>1, <5>2, <1>1, <1>t DEF Job
      <4>5. CASE finalizeReplicas
        BY <4>5, <3>1, <1>1, <1>t DEF finalizeReplicas, Finish, Job
      <4>6. CASE quarantineRow \/ establish
        BY <4>6, <1>1, <1>t DEF quarantineRow, establish, Finish
      <4> QED BY <3>2, <4>1, <4>2, <4>3, <4>4, <4>5, <4>6
    <3>3. CASE reconfigureReplica \/ reconfigureReplied \/ rollbackReplica \/ persistConfig
      BY <3>3, <1>1, <1>t DEF reconfigureReplica, reconfigureReplied, rollbackReplica, persistConfig,
         request, Finish, Job
    <3>4. CASE upgradeReplica \/ upgradeReplied \/ persistUpgrade \/ revertReplica \/ upgradeFailed
      BY <3>4, <1>1, <1>t DEF upgradeReplica, upgradeReplied, persistUpgrade, revertReplica, upgradeFailed,
         request, Finish, Job
    <3> QED BY <2>5, <3>2, <3>3, <3>4 DEF jobStep
  <2>6. CASE crash
    BY <2>6, <1>1, <1>t DEF crash
  <2>7. CASE \/ \E g \in Gens : signRuntimeInventoryAttestation(g)
             \/ \E a \in Attempts : attemptStep(a) \/ \E g \in Gens : openOperation(a, g)
    <3>1. UNCHANGED job /\ row'.bound = row.bound
      BY <2>7, <1>t DEF signRuntimeInventoryAttestation, attemptStep, openOperation, revokeDispatch, removeDeclaredResources,
         verifyDeclaredResources, signFinalAcknowledgement, storeAcknowledgement, retireRow, Row
    <3> QED BY <3>1, <2>2
  <2> QED BY <1>1, <2>3, <2>4, <2>5, <2>6, <2>7 DEF Next
<1> DEFINE Fresh == {"PROVISIONING", "QUARANTINED"}
\* While the row stays as it is, the requests and the containers of its generation do too.
<1>2. ASSUME Next, row.state \in Fresh
      PROVE  \A d \in calls' : d.gen = row.gen /\ d.r \in row.plan => d.kind = "deploy" /\ d.to = Installed
  <2> SUFFICES ASSUME NEW d \in calls', d.gen = row.gen, d.r \in row.plan PROVE d.kind = "deploy" /\ d.to = Installed
    OBVIOUS
  <2>1. CASE d \notin calls /\ (hubStep \/ jobStep)
    <3>1. \/ d.kind = "deploy" /\ d.to = Installed
          \/ job.kind \in {"configure", "upgrade"}
      BY <2>1, NewRequest, ConstantsAssumption
    <3> QED BY <1>2, <3>1 DEF InstallInv, Moving
  <2>2. CASE \E c \in calls : d.gen = c.gen /\ d.kind = c.kind /\ d.to = c.to /\ d.r = c.r
    BY <2>2, <1>2 DEF InstallInv
  <2> QED BY <2>1, <2>2, <1>2, CallMoves
<1>3. ASSUME Next, row.state \in Fresh, row.gen \in Gens, NEW r \in row.plan
      PROVE  ctr'[<<row.gen, r>>] \in {ctr[<<row.gen, r>>], Installed}
  <2>1. row.state \notin {"REVOKING", "REMOVED"}
    BY <1>3
  <2>2. \A c \in calls : c.gen = row.gen /\ c.r = r => ~swapBegins(c) /\ ~swapEnds(c) /\ c.to = Installed
    BY <1>3 DEF InstallInv, swapBegins, swapEnds
  <2> QED BY <1>3, <2>1, <2>2, ServingContainer
<1>4. row.state \in Fresh => row.gen \in Gens
  BY <1>t DEF AccessInv, Row, Gens
\* A step that leaves a row of a generation that is being installed.
<1>5. ASSUME Next, row.state \in Fresh, row'.gen = row.gen, row'.plan = row.plan, row'.is = row.is,
             job'.kind \notin Moving,
             (row'.bound = "yes" \/ job'.pc = "quarantine") =>
                row.bound = "yes" \/ job.pc = "quarantine" \/ \A r \in row.plan : ctr[<<row.gen, r>>] # Gone
      PROVE  InstallInv'
  <2>1. \A r \in row.plan : ctr[<<row.gen, r>>] \in {Gone, Installed}
    BY <1>5 DEF InstallInv
  <2>2. row'.bound = "yes" \/ job'.pc = "quarantine" => \A r \in row.plan : ctr[<<row.gen, r>>] = Installed
    BY <1>5, <2>1 DEF InstallInv
  <2>3. \A r \in row.plan : ctr'[<<row.gen, r>>] \in {ctr[<<row.gen, r>>], Installed}
    BY <1>5, <1>3, <1>4
  <2>4. \A d \in calls' : d.gen = row.gen /\ d.r \in row.plan => d.kind = "deploy" /\ d.to = Installed
    BY <1>5, <1>2
  <2>5. row'.is = Installed
    BY <1>5 DEF InstallInv
  <2> HIDE DEF Fresh
  <2>6. \A r \in row.plan : ctr'[<<row.gen, r>>] \in {Gone, Installed}
    BY <2>1, <2>3
  <2>7. row'.bound = "yes" \/ job'.pc = "quarantine" => \A r \in row.plan : ctr'[<<row.gen, r>>] = Installed
    BY <2>2, <2>3
  <2> QED BY <1>1, <1>5, <2>4, <2>5, <2>6, <2>7 DEF InstallInv
<1>6. ASSUME Next, row'.state \notin Fresh PROVE InstallInv'
  BY <1>1, <1>6 DEF InstallInv
<1>7. ASSUME NEW g \in Gens, deployMcpV3(g), Next PROVE InstallInv'
  <2>1. job'.kind = "install" /\ job'.pc = "inventory" /\ UNCHANGED <<ctr, calls>>
    BY <1>7 DEF deployMcpV3, Idle
  <2>2. CASE UNCHANGED row
    BY <2>1, <2>2, <1>7, <1>5, <1>6 DEF Moving
  <2>3. CASE FreshPlans(g) # {} /\ row' = FreshRow(g, NewPlan(g))
    <3>1. NewPlan(g) \in FreshPlans(g)
      BY <2>3, NewPlanType
    <3>2. \A r \in NewPlan(g) : ~Known(g, r)
      BY <3>1 DEF FreshPlans
    <3> HIDE DEF NewPlan
    <3>3. /\ \A c \in calls : c.gen = g => c.r \notin NewPlan(g)
          /\ \A r \in NewPlan(g) : ctr[<<g, r>>] = Gone
      BY <3>2 DEF Known
    <3>4. row'.gen = g /\ row'.plan = NewPlan(g) /\ row'.is = Installed /\ row'.bound = "no"
      BY <2>3 DEF FreshRow
    <3> QED BY <2>1, <3>3, <3>4, <1>7, <1>1 DEF InstallInv, Moving
  <2> QED BY <1>7, <2>2, <2>3 DEF deployMcpV3
<1>8. CASE hubStep /\ Next
  <2>1. ASSUME NEW g \in Gens, activateMcpV3(g) \/ recoverMcpV3InventoryAttestation(g) PROVE InstallInv'
    <3>1. UNCHANGED row /\ job'.kind \in {job.kind, "activate", "idle"} /\ job'.pc \in {job.pc, "establish", "none"}
      <4>1. /\ [Idle EXCEPT !.kind = "activate", !.gen = g, !.pc = "establish"].kind = "activate"
            /\ [Idle EXCEPT !.kind = "activate", !.gen = g, !.pc = "establish"].pc = "establish"
        BY DEF Idle
      <4>2. \/ job' = job \/ job' = Idle
            \/ job' = [Idle EXCEPT !.kind = "activate", !.gen = g, !.pc = "establish"]
        BY <2>1 DEF activateMcpV3, recoverMcpV3InventoryAttestation, Finish
      <4>3. UNCHANGED row
        BY <2>1 DEF activateMcpV3, recoverMcpV3InventoryAttestation
      <4> QED BY <4>1, <4>2, <4>3, <1>t
    <3>2. row.state \in Fresh => job'.kind \notin Moving
      BY <3>1 DEF InstallInv, Moving
    <3> QED BY <3>1, <3>2, <1>8, <1>5, <1>6
  <2>2. ASSUME NEW e \in Configs, reconfigureMcpV3(e) PROVE InstallInv'
    BY <2>2, <1>8, <1>6 DEF reconfigureMcpV3
  <2>3. ASSUME NEW n \in Images, upgradeMcpV3(n) PROVE InstallInv'
    BY <2>3, <1>8, <1>6 DEF upgradeMcpV3
  <2>4. ASSUME NEW g \in Gens, acceptInstall(g) \/ refuseInstall(g) PROVE InstallInv'
    <3>1. UNCHANGED <<row, job>>
      BY <2>4 DEF acceptInstall, refuseInstall
    <3>2. row.state \in Fresh => job.kind \notin Moving
      BY DEF InstallInv
    <3> QED BY <3>1, <3>2, <1>8, <1>5, <1>6
  <2> QED BY <1>8, <1>7, <2>1, <2>2, <2>3, <2>4 DEF hubStep
<1>9. CASE jobStep /\ Next
  <2> SUFFICES ASSUME row'.state \in Fresh PROVE InstallInv'
    BY <1>9, <1>6
  <2>1. CASE \/ buildCapturingRuntimeResourceInventoryV3 \/ deployReplica \/ parseMcpV3ReplicaResponse
             \/ deployFailed \/ finalizeRuntimeResourceInventoryV3 \/ finalizeReplicas
             \/ quarantineRow \/ establish
    <3>1. job.kind \in {"install", "activate"}
      BY <2>1 DEF TypeInv, JobInv, Idle, buildCapturingRuntimeResourceInventoryV3, deployReplica, parseMcpV3ReplicaResponse,
         deployFailed, finalizeRuntimeResourceInventoryV3, finalizeReplicas, quarantineRow, establish
    <3>2. job'.kind \in {"install", "activate", "idle"}
      <4>1. CASE deployReplica \/ parseMcpV3ReplicaResponse
        BY <4>1, <3>1, <1>t DEF deployReplica, parseMcpV3ReplicaResponse, request, Job
      <4>2. \/ job' = Idle \/ \E pc : job' = [job EXCEPT !.pc = pc]
            \/ deployReplica \/ parseMcpV3ReplicaResponse
        BY <2>1 DEF buildCapturingRuntimeResourceInventoryV3, deployFailed, finalizeRuntimeResourceInventoryV3,
           finalizeReplicas, quarantineRow, establish, Finish
      <4>3. \A pc : [job EXCEPT !.pc = pc].kind = job.kind
        BY <1>t DEF Job
      <4> QED BY <3>1, <4>1, <4>2, <4>3, <1>t
    <3>3. row.state \in Fresh /\ row'.gen = row.gen /\ row'.plan = row.plan /\ row'.is = row.is
      <4>1. CASE UNCHANGED row
        BY <4>1
      <4>2. CASE parseMcpV3ReplicaResponse
        BY <4>2, <1>t DEF parseMcpV3ReplicaResponse, Row
      <4>3. CASE quarantineRow
        BY <4>3, <1>t DEF quarantineRow, Row
      <4>4. CASE establish
        <5>1. row' = row \/ row' = [row EXCEPT !.state = "RUNNING"]
          BY <4>4 DEF establish
        <5>2. [row EXCEPT !.state = "RUNNING"].state = "RUNNING"
          BY <1>t DEF Row
        <5> QED BY <5>1, <5>2
      <4> QED BY <2>1, <4>1, <4>2, <4>3, <4>4 DEF buildCapturingRuntimeResourceInventoryV3, deployReplica, deployFailed,
         finalizeRuntimeResourceInventoryV3, finalizeReplicas
    <3>4. (row'.bound = "yes" \/ job'.pc = "quarantine") =>
             row.bound = "yes" \/ job.pc = "quarantine" \/ \A r \in row.plan : ctr[<<row.gen, r>>] # Gone
      <4>1. CASE finalizeReplicas
        BY <4>1, <1>t DEF finalizeReplicas, Finish
      <4>2. CASE quarantineRow \/ establish
        BY <4>2, <1>t DEF quarantineRow, establish, Finish, Row
      <4>3. CASE \/ buildCapturingRuntimeResourceInventoryV3 \/ deployReplica \/ parseMcpV3ReplicaResponse
                 \/ deployFailed \/ finalizeRuntimeResourceInventoryV3
        <5>1. row'.bound = row.bound
          BY <4>3, <1>t DEF buildCapturingRuntimeResourceInventoryV3, deployReplica, parseMcpV3ReplicaResponse,
             deployFailed, finalizeRuntimeResourceInventoryV3, Row
        <5>2. job'.pc # "quarantine"
          BY <4>3, <1>t DEF buildCapturingRuntimeResourceInventoryV3, deployReplica, parseMcpV3ReplicaResponse,
             deployFailed, finalizeRuntimeResourceInventoryV3, request, Finish, Job
        <5> QED BY <5>1, <5>2
      <4> QED BY <2>1, <4>1, <4>2, <4>3
    <3> QED BY <1>9, <3>2, <3>3, <3>4, <1>5 DEF Moving
  <2>2. CASE \/ reconfigureReplica \/ reconfigureReplied \/ rollbackReplica \/ persistConfig
             \/ upgradeReplica \/ upgradeReplied \/ persistUpgrade \/ revertReplica \/ upgradeFailed
    <3>1. job.kind \in Moving
      BY <2>2 DEF reconfigureReplica, reconfigureReplied, rollbackReplica, persistConfig,
         upgradeReplica, upgradeReplied, persistUpgrade, revertReplica, upgradeFailed, Moving
    <3>2. row'.state = row.state
      BY <2>2, <1>t DEF reconfigureReplica, reconfigureReplied, rollbackReplica, persistConfig,
         upgradeReplica, upgradeReplied, persistUpgrade, revertReplica, upgradeFailed, Row
    <3> QED BY <3>1, <3>2 DEF InstallInv
  <2> QED BY <1>9, <2>1, <2>2 DEF jobStep
<1>10. CASE Next /\ UNCHANGED row /\ (job' = Idle \/ (job'.kind = job.kind /\ job'.pc = job.pc))
  <2>1. row.state \in Fresh => job'.kind \notin Moving
    BY <1>10, <1>t DEF InstallInv, Moving
  <2>2. job'.pc = "quarantine" => job.pc = "quarantine"
    BY <1>10, <1>t
  <2> QED BY <1>10, <2>1, <2>2, <1>5, <1>6
<1>11. CASE Next /\ ~hubStep /\ ~jobStep
  <2>1. CASE agentStep \/ \E c \in calls : timeout(c)
    <3>1. UNCHANGED row
      BY <2>1 DEF agentStep, timeout, deployManagedApp, deployEnds, swapBegins, swapEnds
    <3> QED BY <2>1, <3>1, <1>10, <1>11, AnswerMoves
  <2>2. CASE crash
    BY <2>2, <1>10, <1>11 DEF crash
  <2>3. CASE UNCHANGED job /\ (row' = row \/ row'.state \in {"REVOKING", "REMOVED"})
    BY <2>3, <1>10, <1>11, <1>6
  <2> QED BY <1>11, <2>1, <2>2, <2>3, Others
<1> QED BY <1>0, <1>8, <1>9, <1>11 DEF vars

(* While no request of the row's generation was given up, one that is open *)
(* is the one the job waits for.                                           *)
LEMMA WaitedFor ==
    ASSUME TypeInv, row.gen \notin late, NEW c \in calls, c.gen = row.gen
    PROVE  job.reply = "waiting" /\ c.await = "yes" /\ c.r = job.at /\ job # Idle
<1>1. job.reply = "waiting" /\ c.await = "yes" /\ c.r = job.at
  BY DEF TypeInv, CallInv
<1> QED BY <1>1 DEF Idle

(* A request that was given up is not forgotten.                           *)
LEMMA LateGrows == ASSUME Next PROVE late \subseteq late'
<1>1. CASE hubStep \/ jobStep
  BY <1>1, JobFrame
<1>2. CASE agentStep
  BY <1>2 DEF agentStep, deployManagedApp, deployEnds, swapBegins, swapEnds
<1>3. CASE crash \/ \E c \in calls : timeout(c)
  BY <1>3 DEF crash, timeout
<1>4. CASE \/ \E g \in Gens : signRuntimeInventoryAttestation(g)
           \/ \E a \in Attempts : attemptStep(a) \/ \E g \in Gens : openOperation(a, g)
  BY <1>4 DEF signRuntimeInventoryAttestation, attemptStep, openOperation, revokeDispatch,
     removeDeclaredResources, verifyDeclaredResources, signFinalAcknowledgement, storeAcknowledgement, retireRow
<1> QED BY <1>1, <1>2, <1>3, <1>4 DEF Next

(* MoveInv is inductive: a reconfigure or upgrade that goes forward is     *)
(* done with a replica only when it runs the new container.                *)
LEMMA MoveStep ==
    ASSUME ConstantsAssumption, TypeInv, DeclaredInv, AccessInv, MoveInv, [Next]_vars
    PROVE  MoveInv'
<1>t. /\ row \in Row /\ job \in Job /\ ctr \in [Gens \X Replicas -> Container \cup {Gone}]
      /\ \A c \in calls : c \in Call
      /\ job.pc # "none" => job.gen = row.gen /\ job.gen \in Gens
      /\ Idle.kind = "idle" /\ Idle.pc = "none" /\ Idle.reply = "none" /\ Idle.done = {}
  BY AcceptedType DEF TypeInv, TypeOK, Idle
<1>0. CASE UNCHANGED vars
  BY <1>0 DEF vars, MoveInv, NewIs, Target, redeployBody
\* It is vacuous unless such a job goes forward.
<1>v. ASSUME job'.kind \notin Moving \/ job'.pc # "forward" \/ row'.state # "RUNNING" \/ row'.gen \in late'
      PROVE  MoveInv'
  BY <1>v DEF MoveInv
<1>i. job' = Idle => MoveInv'
  BY <1>v, <1>t DEF Moving
\* The job begins.
<1>1. ASSUME hubStep, Next PROVE MoveInv'
  <2>1. CASE job = Idle /\ UNCHANGED <<row, calls, late>> /\ job'.done = {} /\ job'.reply = "none"
    <3>1. row'.gen \notin late' => \A c \in calls' : c.gen # row'.gen
      BY <2>1, WaitedFor
    <3> QED BY <2>1, <3>1 DEF MoveInv
  <2>2. ASSUME NEW g \in Gens, deployMcpV3(g) \/ activateMcpV3(g) PROVE MoveInv'
    <3>1. job'.kind \notin Moving
      <4>1. /\ [Idle EXCEPT !.kind = "activate", !.gen = g, !.pc = "establish"].kind = "activate"
            /\ [Idle EXCEPT !.kind = "install", !.gen = g, !.pc = "inventory"].kind = "install"
        BY DEF Idle
      <4>2. job' = Idle \/ job' = [Idle EXCEPT !.kind = "activate", !.gen = g, !.pc = "establish"]
            \/ job' = [Idle EXCEPT !.kind = "install", !.gen = g, !.pc = "inventory"]
        BY <2>2 DEF deployMcpV3, activateMcpV3, Finish
      <4> QED BY <4>1, <4>2, <1>t DEF Moving
    <3> QED BY <3>1, <1>v
  <2>3. ASSUME NEW g \in Gens, recoverMcpV3InventoryAttestation(g) PROVE MoveInv'
    BY <2>3, <1>i DEF recoverMcpV3InventoryAttestation
  <2>4. ASSUME NEW e \in Configs, reconfigureMcpV3(e) PROVE MoveInv'
    BY <2>4, <2>1, <1>i DEF reconfigureMcpV3, acceptReconfigure, Finish, Idle
  <2>5. ASSUME NEW n \in Images, upgradeMcpV3(n) PROVE MoveInv'
    BY <2>5, <2>1, <1>i DEF upgradeMcpV3, acceptUpgrade, Finish, Idle
  <2>6. ASSUME NEW g \in Gens, acceptInstall(g) \/ refuseInstall(g) PROVE MoveInv'
    <3>1. UNCHANGED <<row, job, calls, ctr, late>>
      BY <2>6 DEF acceptInstall, refuseInstall
    <3> QED BY <3>1 DEF MoveInv, NewIs, Target, redeployBody
  <2> QED BY <1>1, <2>2, <2>3, <2>4, <2>5, <2>6 DEF hubStep
\* It goes on.
<1> DEFINE Forward == /\ job.kind \in Moving /\ job.pc = "forward" /\ row.state = "RUNNING" /\ row.gen \notin late
                      /\ row.gen \in Gens
<1>s. ASSUME Forward, row'.gen = row.gen, row'.is = row.is, job'.kind = job.kind, job'.arg = job.arg
      PROVE  NewIs' = NewIs
  BY <1>s DEF NewIs, Target, redeployBody
<1>2. ASSUME jobStep, Next PROVE MoveInv'
  <2>1. CASE \/ buildCapturingRuntimeResourceInventoryV3 \/ deployReplica \/ parseMcpV3ReplicaResponse
             \/ deployFailed \/ finalizeRuntimeResourceInventoryV3 \/ finalizeReplicas
             \/ quarantineRow \/ establish
    <3>1. job'.pc # "forward"
      BY <2>1, <1>t DEF buildCapturingRuntimeResourceInventoryV3, deployReplica, parseMcpV3ReplicaResponse,
         deployFailed, finalizeRuntimeResourceInventoryV3, finalizeReplicas, quarantineRow, establish, request, Finish, Job
    <3> QED BY <3>1, <1>v
  <2>2. ASSUME Forward, UNCHANGED <<row, ctr, late>>, job'.pc = "forward", \E d \in calls' : d \notin calls PROVE MoveInv'
    <3>1. PICK d \in calls' : d \notin calls
      BY <2>2
    <3>2. /\ d.gen = job.gen /\ job.reply = "none"
          /\ job' = [job EXCEPT !.at = d.r, !.reply = "waiting"]
          /\ d.to = NewIs /\ d.r \notin job.done /\ d.kind # "deploy"
          /\ job.kind = "configure" => d.kind = "reconfigure"
      BY <1>2, <2>2, <3>1, NewRequest DEF NewIs, Moving
    <3>3. \A e \in calls' : e.gen = row.gen => e \notin calls
      BY <2>2, <3>2, WaitedFor
    <3>4. \A e \in calls' : e \notin calls =>
             /\ e.to = NewIs /\ e.r \notin job.done /\ e.kind # "deploy"
             /\ job.kind = "configure" => e.kind = "reconfigure"
      BY <1>2, <2>2, NewRequest DEF NewIs, Moving
    <3>5. /\ job'.reply = "waiting" /\ job'.done = job.done /\ job'.kind = job.kind /\ job'.arg = job.arg
      BY <3>2, <1>t DEF Job
    <3>6. NewIs' = NewIs
      BY <2>2, <3>5, <1>s
    <3>7. \A r \in job.done : ctr[<<row.gen, r>>] = NewIs
      BY <2>2 DEF MoveInv
    <3> QED BY <2>2, <3>3, <3>4, <3>5, <3>6, <3>7 DEF MoveInv
  <2>3. ASSUME Forward, UNCHANGED <<row, ctr, late, calls>>, job.reply = "ok",
               job' = [job EXCEPT !.done = @ \cup {job.at}, !.reply = "none"]
        PROVE  MoveInv'
    <3>1. \A c \in calls : c.gen # row.gen
      BY <2>3, WaitedFor
    <3>2. job'.reply = "none" /\ job'.done = job.done \cup {job.at} /\ job'.kind = job.kind /\ job'.arg = job.arg
      BY <2>3, <1>t DEF Job
    <3>3. NewIs' = NewIs
      BY <2>3, <3>2, <1>s
    <3>4. \A r \in job.done \cup {job.at} : ctr[<<row.gen, r>>] = NewIs
      BY <2>3 DEF MoveInv
    <3> QED BY <2>3, <3>1, <3>2, <3>3, <3>4 DEF MoveInv
  <2>f. ASSUME job.kind \in Moving, job.pc = "forward", row' = row, late' = late PROVE Forward \/ MoveInv'
    BY <2>f, <1>v, <1>t
  <2>4. CASE reconfigureReplica \/ upgradeReplica
    <3>1. /\ job.kind \in Moving /\ job.pc = "forward" /\ UNCHANGED <<row, ctr, late>> /\ job'.pc = "forward"
      BY <2>4, <1>t DEF reconfigureReplica, upgradeReplica, request, Job, Moving
    <3>2. job.reply = "none" /\ job'.reply = "waiting"
      BY <2>4, <1>t DEF reconfigureReplica, upgradeReplica, request, Replied, Job
    <3>3. CASE \E d \in calls' : d \notin calls
      BY <3>1, <3>3, <2>2, <2>f
    <3>4. CASE \A d \in calls' : d \in calls
      <4>1. \E d \in calls' : d.gen = job.gen /\ d.await = "yes"
        <5>1. ASSUME NEW kind, NEW r, NEW to, request(kind, r, to)
              PROVE  \E d \in calls' : d.gen = job.gen /\ d.await = "yes"
          <6> DEFINE d == [kind |-> kind, gen |-> job.gen, r |-> r, to |-> to, old |-> 0,
                           phase |-> "sent", await |-> "yes"]
          <6>1. d \in calls' /\ d.gen = job.gen /\ d.await = "yes"
            BY <5>1 DEF request
          <6> QED BY <6>1
        <5>2. \E kind, r, to : request(kind, r, to)
          BY <2>4 DEF reconfigureReplica, upgradeReplica
        <5> QED BY <5>1, <5>2
      <4> QED BY <4>1, <3>4, <3>2 DEF TypeInv, CallInv
    <3> QED BY <3>3, <3>4
  <2>5. CASE reconfigureReplied \/ upgradeReplied
    <3>1. /\ job.kind \in Moving /\ job.pc = "forward" /\ UNCHANGED <<row, ctr, late, calls>>
          /\ \/ job'.pc # "forward"
             \/ job.reply = "ok" /\ job' = [job EXCEPT !.done = @ \cup {job.at}, !.reply = "none"]
      BY <2>5, <1>t DEF reconfigureReplied, upgradeReplied, Finish, Replied, Job, Moving
    <3> QED BY <3>1, <2>3, <2>f, <1>v
  <2>6. CASE \/ rollbackReplica \/ revertReplica \/ upgradeFailed
    <3>1. job'.pc # "forward"
      BY <2>6, <1>t DEF rollbackReplica, revertReplica, upgradeFailed, request, Finish, Job
    <3> QED BY <3>1, <1>v
  <2>7. CASE persistConfig \/ persistUpgrade
    <3>1. job'.pc # "forward"
      BY <2>7, <1>t DEF persistConfig, persistUpgrade, Finish, Job
    <3> QED BY <3>1, <1>v
  <2> QED BY <1>2, <2>1, <2>4, <2>5, <2>6, <2>7 DEF jobStep
<1>3. ASSUME agentStep, Next PROVE MoveInv'
  <2>1. PICK c \in calls : deployManagedApp(c) \/ deployEnds(c) \/ swapBegins(c) \/ swapEnds(c)
    BY <1>3 DEF agentStep
  <2>2. UNCHANGED <<row, late, told>>
    BY <2>1 DEF deployManagedApp, deployEnds, swapBegins, swapEnds
  <2>3. /\ job'.kind = job.kind /\ job'.arg = job.arg /\ job'.pc = job.pc /\ job'.done = job.done
        /\ job'.at = job.at
    BY <1>3, AnswerMoves
  <2> SUFFICES ASSUME Forward PROVE MoveInv'
    BY <2>2, <2>3, <1>v, <1>t
  <2>4. NewIs' = NewIs
    BY <2>2, <2>3, <1>s
  <2>m. /\ \A r \in job.done : ctr[<<row.gen, r>>] = NewIs
        /\ job.reply = "ok" => ctr[<<row.gen, job.at>>] = NewIs
        /\ \A d \in calls : d.gen = row.gen =>
             /\ d.kind # "deploy" /\ d.to = NewIs /\ d.r \notin job.done
             /\ job.kind = "configure" => d.kind = "reconfigure"
    BY DEF MoveInv
  <2>5. ASSUME NEW d \in calls', d.gen = row.gen
        PROVE  /\ d.kind # "deploy" /\ d.to = NewIs /\ d.r \notin job.done
               /\ job.kind = "configure" => d.kind = "reconfigure"
    <3>1. \E e \in calls : d.gen = e.gen /\ d.kind = e.kind /\ d.to = e.to /\ d.r = e.r
      BY <1>3, SameCalls
    <3> QED BY <2>5, <2>m, <3>1
  <2>c. c.gen \in Gens /\ c.r \in Replicas /\ c \in Call
    BY <1>t DEF Call
  <2>6. \A r \in row.plan : ctr'[<<row.gen, r>>] = ctr[<<row.gen, r>>] \/ (c.gen = row.gen /\ c.r = r)
    <3>1. \A x : Put(c, x) => \A r \in row.plan : ctr'[<<row.gen, r>>] = ctr[<<row.gen, r>>] \/ (c.gen = row.gen /\ c.r = r)
      BY <1>t, <2>c DEF Put
    <3> QED BY <2>1, <3>1 DEF deployManagedApp, deployEnds, swapBegins, swapEnds
  <2>d. job.done \subseteq row.plan /\ (job.reply # "none" => job.at \in row.plan) /\ row.plan \subseteq Replicas
    BY PlanType DEF TypeInv, JobInv, Moving
  <2>7. CASE c.gen # row.gen
    <3>1. c.await # "yes"
      <4>1. job.gen = row.gen
        BY <1>t
      <4> QED BY <4>1, <2>7 DEF TypeInv, CallInv
    <3>2. job' = job
      BY <2>1, <3>1 DEF deployManagedApp, deployEnds, swapBegins, swapEnds, respond
    <3>3. \A r \in row.plan : ctr'[<<row.gen, r>>] = ctr[<<row.gen, r>>]
      BY <2>6, <2>7
    <3> QED BY <2>2, <2>m, <2>4, <2>5, <2>d, <3>2, <3>3 DEF MoveInv
  <2>8. CASE c.gen = row.gen
    <3>1. /\ job.reply = "waiting" /\ c.await = "yes" /\ c.r = job.at
          /\ c.kind # "deploy" /\ c.to = NewIs /\ c.r \notin job.done
      BY <2>8, <2>m, WaitedFor
    <3>2. \A r \in job.done : ctr'[<<row.gen, r>>] = NewIs
      BY <3>1, <2>6, <2>d, <2>m
    <3>3. ASSUME job'.reply = "ok" PROVE ctr'[<<row.gen, job.at>>] = NewIs
      <4>1. \A answer : respond(c, answer) => job'.reply = answer
        BY <3>1, <1>t DEF respond, Job
      <4>2. swapEnds(c) /\ Put(c, c.to)
        BY <2>1, <3>1, <3>3, <4>1 DEF deployManagedApp, deployEnds, swapBegins, swapEnds
      <4> QED BY <4>2, <3>1, <2>8, <2>c, <1>t DEF Put
    <3> QED BY <2>2, <2>3, <2>4, <2>5, <3>2, <3>3 DEF MoveInv
  <2> QED BY <2>7, <2>8
<1>4. ASSUME NEW c \in calls, timeout(c) PROVE MoveInv'
  <2>1. UNCHANGED row /\ late' = late \cup {c.gen} /\ c.await = "yes"
    BY <1>4 DEF timeout
  <2>2. c.gen = job.gen
    BY <2>1 DEF TypeInv, CallInv
  <2>3. job'.pc = job.pc
    BY <1>4, <1>t DEF timeout, Job
  <2> QED BY <2>1, <2>2, <2>3, <1>t, <1>v
<1>5. ASSUME Next, UNCHANGED <<job, calls, late>>, row' = row \/ row'.state \in {"REVOKING", "REMOVED"},
             ~agentStep
      PROVE  MoveInv'
  <2>1. CASE row'.state \in {"REVOKING", "REMOVED"}
    BY <2>1, <1>v
  <2>2. CASE row' = row /\ Forward
    <3>1. \A r \in row.plan : ctr'[<<row.gen, r>>] = ctr[<<row.gen, r>>]
      <4>1. row.state \notin {"REVOKING", "REMOVED"} /\ row.gen \in Gens
        BY <2>2
      <4> QED BY <1>5, <4>1, ServingContainer DEF agentStep
    <3>2. NewIs' = NewIs
      BY <1>5, <2>2, <1>s
    <3>d. job.done \subseteq row.plan /\ (job.reply # "none" => job.at \in row.plan)
      BY <2>2, PlanType DEF TypeInv, JobInv, Moving
    <3> QED BY <1>5, <2>2, <3>1, <3>2, <3>d DEF MoveInv
  <2>3. row' = row => Forward \/ MoveInv'
    BY <1>5, <1>v, <1>t
  <2> QED BY <1>5, <2>1, <2>2, <2>3
<1>6. CASE crash
  BY <1>6, <1>i DEF crash
<1> HIDE DEF Forward
<1>7. CASE Next /\ UNCHANGED <<row, ctr, calls, late, job, att>> /\ \E g \in Gens : signRuntimeInventoryAttestation(g)
  <2>1. ~agentStep \/ agentStep
    OBVIOUS
  <2> QED BY <1>7, <2>1, <1>3, <1>5
<1>8. CASE /\ Next /\ UNCHANGED <<job, calls, late, told>>
           /\ row' = row \/ row'.state \in {"REVOKING", "REMOVED"}
  BY <1>8, <1>3, <1>5
<1>9. CASE Next
  BY <1>9, <1>1, <1>2, <1>3, <1>4, <1>6, <1>7, <1>8, Others
<1> QED BY <1>0, <1>9

(* ServeInv is inductive: persistConfig, persistUpgrade and establish      *)
(* write what the replicas run, and nothing moves a container between an   *)
(* answer of success and the next command.                                 *)
LEMMA ServeStep ==
    ASSUME ConstantsAssumption, TypeInv, DeclaredInv, AccessInv, InstallInv, MoveInv, ServeInv, [Next]_vars
    PROVE  ServeInv'
<1>t. /\ row \in Row /\ job \in Job
      /\ job.pc # "none" => job.gen = row.gen /\ job.gen \in Gens
      /\ Idle.kind = "idle"
  BY AcceptedType DEF TypeInv, TypeOK, Idle
<1>0. CASE UNCHANGED vars
  BY <1>0 DEF vars, ServeInv
<1>v. ASSUME job'.kind \in Moving \/ row'.state # "RUNNING" \/ row'.gen \in late' \/ told' \notin Success
      PROVE  ServeInv'
  BY <1>v DEF ServeInv
<1>l. Next => late \subseteq late'
  BY LateGrows
\* Nothing moves.
<1>1. ASSUME Next, row'.gen = row.gen, row'.plan = row.plan, row'.is = row.is, row'.state = row.state,
             told' = told, job.kind \notin Moving
      PROVE  ServeInv'
  <2> SUFFICES ASSUME row.state = "RUNNING", row.gen \notin late, told \in Success PROVE ServeInv'
    BY <1>1, <1>v, <1>l
  <2>1. row.bound = "yes" /\ row.gen \in Gens
    BY DEF DeclaredInv
  <2>2. job.reply = "none"
    <3>1. job.kind = "install" => job.reply = "none"
      BY <2>1, <1>t DEF InstallInv
    <3>2. job.kind # "install" => job.reply = "none"
      BY <1>1 DEF TypeInv, JobInv, Idle, Asking, Moving
    <3> QED BY <3>1, <3>2
  <2>3. \A c \in calls : c.gen # row.gen
    BY <2>2, WaitedFor
  <2>5. \A r \in row.plan : ctr'[<<row.gen, r>>] = ctr[<<row.gen, r>>]
    <3> SUFFICES ASSUME NEW r \in row.plan PROVE ctr'[<<row.gen, r>>] = ctr[<<row.gen, r>>]
      OBVIOUS
    <3>1. ctr'[<<row.gen, r>>] = ctr[<<row.gen, r>>] \/ \E c \in calls : c.gen = row.gen
      <4>1. row.state \notin {"REVOKING", "REMOVED"}
        OBVIOUS
      <4> QED BY <1>1, <2>1, <4>1, ServingContainer
    <3> QED BY <3>1, <2>3
  <2> QED BY <1>1, <2>5 DEF ServeInv
<1>2. ASSUME job.kind \in Moving, job.pc = "forward", row.state = "RUNNING", row.gen \notin late, job.done = row.reported,
             row'.is = NewIs, row'.gen = row.gen, row'.plan = row.plan, UNCHANGED ctr
      PROVE  ServeInv'
  <2>1. row.reported = row.plan
    BY <1>2 DEF DeclaredInv
  <2>2. \A r \in row.plan : ctr[<<row.gen, r>>] = NewIs
    BY <1>2, <2>1 DEF MoveInv
  <2> QED BY <1>2, <2>2 DEF ServeInv
<1>3. ASSUME Next, hubStep PROVE ServeInv'
  <2>1. ASSUME NEW g \in Gens, deployMcpV3(g) PROVE ServeInv'
    <3>1. CASE told' = "none"
      BY <3>1, <1>v DEF Success
    <3>2. CASE UNCHANGED <<row, told>>
      <4>1. job.kind \notin Moving
        BY <2>1, <1>t DEF deployMcpV3, acceptInstall, Moving
      <4> QED BY <1>3, <3>2, <4>1, <1>1
    <3> QED BY <2>1, <3>1, <3>2 DEF deployMcpV3
  <2>2. ASSUME NEW g \in Gens, activateMcpV3(g) \/ recoverMcpV3InventoryAttestation(g) PROVE ServeInv'
    <3>1. job.kind \notin Moving /\ UNCHANGED row /\ (told' = told \/ told' = "repeated")
      BY <2>2, <1>t DEF activateMcpV3, acceptActivation, recoverMcpV3InventoryAttestation, Finish, Moving
    <3> QED BY <1>3, <3>1, <1>1, <1>v DEF Success
  <2>5. ASSUME NEW g \in Gens, acceptInstall(g) \/ refuseInstall(g) PROVE ServeInv'
    BY <2>5 DEF acceptInstall, refuseInstall, ServeInv
  <2>3. ASSUME NEW e \in Configs, reconfigureMcpV3(e) PROVE ServeInv'
    <3>1. job'.kind \in Moving \/ told' \notin Success
      BY <2>3 DEF reconfigureMcpV3, Finish, Moving, Success, Idle
    <3> QED BY <3>1, <1>v
  <2>4. ASSUME NEW n \in Images, upgradeMcpV3(n) PROVE ServeInv'
    <3>1. job'.kind \in Moving \/ told' \notin Success
      BY <2>4 DEF upgradeMcpV3, Finish, Moving, Success, Idle
    <3> QED BY <3>1, <1>v
  <2> QED BY <1>3, <2>1, <2>2, <2>3, <2>4, <2>5 DEF hubStep
<1>4. ASSUME Next, jobStep PROVE ServeInv'
  <2>c. UNCHANGED <<ctr, late>>
    BY <1>4, JobLeavesContainers, JobFrame
  <2>1. CASE \/ buildCapturingRuntimeResourceInventoryV3 \/ deployReplica \/ parseMcpV3ReplicaResponse
             \/ deployFailed \/ finalizeRuntimeResourceInventoryV3 \/ finalizeReplicas \/ quarantineRow
    <3>1. job.kind \notin Moving
      BY <2>1 DEF TypeInv, JobInv, Idle, Moving, buildCapturingRuntimeResourceInventoryV3, deployReplica, parseMcpV3ReplicaResponse,
         deployFailed, finalizeRuntimeResourceInventoryV3, finalizeReplicas, quarantineRow
    <3>2. row'.gen = row.gen /\ row'.plan = row.plan /\ row'.is = row.is
          /\ (row'.state = row.state \/ row'.state # "RUNNING")
      <4>1. CASE UNCHANGED row
        BY <4>1
      <4>2. CASE parseMcpV3ReplicaResponse
        BY <4>2, <1>t DEF parseMcpV3ReplicaResponse, Row
      <4>3. CASE quarantineRow
        BY <4>3, <1>t DEF quarantineRow, Row
      <4> QED BY <2>1, <4>1, <4>2, <4>3 DEF buildCapturingRuntimeResourceInventoryV3, deployReplica, deployFailed,
         finalizeRuntimeResourceInventoryV3, finalizeReplicas
    <3>3. told' = told \/ told' \notin Success
      BY <2>1 DEF buildCapturingRuntimeResourceInventoryV3, deployReplica, parseMcpV3ReplicaResponse,
         deployFailed, finalizeRuntimeResourceInventoryV3, finalizeReplicas, quarantineRow, Finish, Success
    <3> QED BY <1>4, <3>1, <3>2, <3>3, <1>1, <1>v
  <2>2. CASE establish
    <3>1. CASE row.state = "QUARANTINED" /\ row' = [row EXCEPT !.state = "RUNNING"]
      <4>1. row.bound = "yes" /\ row'.gen = row.gen /\ row'.plan = row.plan /\ row'.is = row.is
        BY <2>2, <3>1, <1>t DEF establish, DeclaredInv, Row
      <4>2. \A r \in row.plan : ctr[<<row.gen, r>>] = row.is
        BY <3>1, <4>1 DEF InstallInv
      <4> QED BY <2>c, <4>1, <4>2 DEF ServeInv
    <3>2. CASE told' = "failed"
      BY <3>2, <1>v DEF Success
    <3> QED BY <2>2, <3>1, <3>2 DEF establish, Finish
  <2>3. CASE reconfigureReplica \/ reconfigureReplied \/ rollbackReplica
    <3>1. (job'.kind = job.kind /\ job.kind \in Moving) \/ told' \notin Success
      BY <2>3, <1>t DEF reconfigureReplica, reconfigureReplied, rollbackReplica, request, Finish, Job, Moving, Success
    <3> QED BY <3>1, <1>v
  <2>4. CASE upgradeReplica \/ upgradeReplied \/ revertReplica \/ upgradeFailed
    <3>1. (job'.kind = job.kind /\ job.kind \in Moving) \/ told' \notin Success
      BY <2>4, <1>t DEF upgradeReplica, upgradeReplied, revertReplica, upgradeFailed, request, Finish, Job, Moving, Success
    <3> QED BY <3>1, <1>v
  <2>5. CASE persistConfig
    <3>1. CASE told' \notin Success
      BY <3>1, <1>v
    <3>2. CASE row' = [row EXCEPT !.is = Target(job.arg)]
      <4>1. row'.is = NewIs /\ row'.gen = row.gen /\ row'.plan = row.plan /\ row'.state = row.state /\ job.kind \in Moving /\ job.pc = "forward"
            /\ job.done = row.reported
        BY <2>5, <3>2, <1>t DEF persistConfig, NewIs, Moving, Row
      <4> QED BY <4>1, <2>c, <1>2, <1>v
    <3> QED BY <2>5, <3>1, <3>2 DEF persistConfig, Finish, Success
  <2>6. CASE persistUpgrade
    <3>1. CASE job'.kind \in Moving
      BY <3>1, <1>v
    <3>2. CASE row' = [row EXCEPT !.is.img = job.arg, !.is.ep = job.arg]
      <4>1. row.is \in Container
        BY <2>6, AcceptedType DEF persistUpgrade
      <4>2. row'.is = [row.is EXCEPT !.img = job.arg, !.ep = job.arg] /\ row'.gen = row.gen
            /\ row'.plan = row.plan /\ row'.state = row.state
        BY <3>2, <4>1, <1>t DEF Row, Container
      <4>3. row'.is = NewIs /\ job.kind \in Moving /\ job.pc = "forward" /\ job.done = row.reported
        BY <2>6, <4>2 DEF persistUpgrade, NewIs, Moving, redeployBody
      <4> QED BY <4>2, <4>3, <2>c, <1>2, <1>v
    <3>3. job'.kind \in Moving \/ row' = [row EXCEPT !.is.img = job.arg, !.is.ep = job.arg]
      BY <2>6, <1>t DEF persistUpgrade, Moving, Job
    <3> QED BY <3>1, <3>2, <3>3
  <2> QED BY <1>4, <2>1, <2>2, <2>3, <2>4, <2>5, <2>6 DEF jobStep
<1>5. ASSUME Next, UNCHANGED told, row' = row \/ row'.state \in {"REVOKING", "REMOVED"},
             job'.kind = job.kind
      PROVE  ServeInv'
  BY <1>5, <1>1, <1>v
<1>6. CASE Next /\ agentStep
  <2>1. UNCHANGED <<row, told>>
    BY <1>6 DEF agentStep, deployManagedApp, deployEnds, swapBegins, swapEnds
  <2>2. job'.kind = job.kind
    BY <1>6, AnswerMoves
  <2> QED BY <1>6, <2>1, <2>2, <1>5
<1>7. ASSUME Next, NEW c \in calls, timeout(c) PROVE ServeInv'
  <2>1. UNCHANGED <<row, told>> /\ job'.kind = job.kind
    BY <1>7, <1>t DEF timeout, Job
  <2> QED BY <1>7, <2>1, <1>5
<1>8. CASE Next /\ crash
  <2>1. UNCHANGED row /\ (told' = "failed" \/ (job = Idle /\ told' = told))
    BY <1>8 DEF crash
  <2> QED BY <1>8, <2>1, <1>1, <1>v, <1>t DEF Success, Moving
<1>9. ASSUME Next, NEW g \in Gens, signRuntimeInventoryAttestation(g) PROVE ServeInv'
  <2>1. UNCHANGED <<row, job>> /\ (told' = "installed" \/ told' = told)
    BY <1>9 DEF signRuntimeInventoryAttestation
  <2> QED BY <1>9, <2>1, <1>5, <1>v DEF Success
<1>10. CASE Next
  BY <1>10, <1>3, <1>4, <1>5, <1>6, <1>7, <1>8, <1>9, Others
<1> QED BY <1>0, <1>10

(* ServeInv, with the invariants it rests on, holds in every state the     *)
(* master can reach.                                                       *)
LEMMA ServeCorrect == Spec => [](TypeInv /\ DeclaredInv /\ AccessInv /\ InstallInv /\ MoveInv /\ ServeInv)
<1>1. Init => InstallInv /\ MoveInv /\ ServeInv
  <2> SUFFICES ASSUME Init PROVE InstallInv /\ MoveInv /\ ServeInv
    OBVIOUS
  <2>1. row.state = "NONE" /\ job.kind = "idle"
    BY DEF Init, Idle
  <2> QED BY <2>1 DEF InstallInv, MoveInv, ServeInv, Moving
<1>2. TypeInv /\ DeclaredInv /\ AccessInv /\ InstallInv /\ [Next]_vars => InstallInv'
  BY InstallStep, ConstantsAssumption
<1>3. TypeInv /\ DeclaredInv /\ AccessInv /\ MoveInv /\ [Next]_vars => MoveInv'
  BY MoveStep, ConstantsAssumption
<1>4. TypeInv /\ DeclaredInv /\ AccessInv /\ InstallInv /\ MoveInv /\ ServeInv /\ [Next]_vars => ServeInv'
  BY ServeStep, ConstantsAssumption
<1> QED BY <1>1, <1>2, <1>3, <1>4, AccessCorrect, PTL DEF Spec

(* SuccessServes: after an answer of success every replica runs exactly    *)
(* what the row says, and a dispatch passes the master's and the agent's   *)
(* check, unless a request of this generation was given up; for any number *)
(* of replicas, revisions and configuration epochs (activateMcpV3,         *)
(* reconfigureMcpV3, upgradeMcpV3).                                        *)
THEOREM SuccessIsServed == Spec => []SuccessServes
<1>1. TypeInv /\ DeclaredInv /\ ServeInv => SuccessServes
  <2> SUFFICES ASSUME TypeInv, DeclaredInv, ServeInv, Still, row.state = "RUNNING", row.gen \notin late,
                      told \in {"active", "applied", "upgraded"}, NEW r \in row.plan
               PROVE  Dispatchable(r) /\ ctr[<<row.gen, r>>] = row.is
    BY DEF SuccessServes
  <2>1. job.kind \notin Moving
    BY DEF Still, Idle, Moving
  <2>2. ctr[<<row.gen, r>>] = row.is
    BY <2>1 DEF ServeInv, Success
  <2>3. row.is \in Container
    BY DEF DeclaredInv, TypeInv, IsInv
  <2>4. Gone \notin Container
    BY DEF Gone, Container, Images, Configs
  <2>5. row.is # Gone
    BY <2>3, <2>4
  <2> QED BY <2>2, <2>5 DEF Dispatchable, consumeDispatchAssertionV3, verifyAgentDispatchAssertionV3
<1> QED BY <1>1, ServeCorrect, PTL
=============================================================================
