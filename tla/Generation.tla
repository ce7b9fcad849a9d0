----------------------------- MODULE Generation -----------------------------
(***************************************************************************)
(* The life of one app slot on the cluster master: generations that are    *)
(* installed, activated, reconfigured, upgraded and uninstalled under      *)
(* signed commands of the Hub, on agents that fail and answer late.        *)
(*   master/deployment-service.ts        deployMcpV3 ... upgradeMcpV3      *)
(*   master/mcp-uninstall-service-v3.ts  uninstall                         *)
(*   master/runtime-resource-inventory.ts, master/mcp-security.ts,         *)
(*   master/cluster-master-identity.ts, master/hub-facing-routes.ts,       *)
(*   protocol/protocol-v3.ts, and of the agent handlers/mcp.ts and         *)
(*   services/lifecycle-service.ts as far as the master can tell.          *)
(*                                                                         *)
(* Installing, activating, recovering, reconfiguring and upgrading hold    *)
(* the workspace lock (`job`); uninstalling does not (`att`).  A request   *)
(* to an agent has a beginning and an end with other steps between them,   *)
(* and goes on when the master gave up waiting or died.  Digests, hashes,  *)
(* receipts and signatures are numbers: generation g, image n (revision n  *)
(* installs image n and rotates the authorization epoch to n), epoch e of  *)
(* the configuration.  A grant may be redelivered at any time, also when   *)
(* the row of its generation is REMOVED: each document that is inserted    *)
(* plans replicas with new ids, here a plan of which nothing is left       *)
(* anywhere.  A container that Docker created and the agent never saw      *)
(* beside another one is ContainerSwap's.                                  *)
(***************************************************************************)
EXTENDS Naturals, FiniteSets

CONSTANTS
    MaxGen,      \* bound: generations
    Replicas,    \* bound: replica ids, numbers in the order of the loops
    Plans,       \* the sets of replicas that documents plan
    MaxImage,    \* bound: revisions
    MaxConfig,   \* bound: configuration epochs
    Resizes,     \* the configuration epochs that also carry a new size
    Attempts,    \* uninstall requests the Hub has open at a time
    MaxFaults,   \* bound: failures of agents and of the route programmer
    MaxTimeouts, \* bound: requests the master gives up after 30 s
    MaxCrashes   \* bound: deaths of the master

ASSUME ConstantsAssumption ==
    /\ MaxGen \in Nat \ {0}
    /\ Replicas \subseteq Nat \ {0}
    /\ IsFiniteSet(Replicas)
    /\ Plans \subseteq SUBSET Replicas
    /\ {} \notin Plans
    /\ MaxImage \in Nat \ {0}
    /\ MaxConfig \in Nat \ {0}
    /\ Resizes \subseteq 2..MaxConfig
    /\ Attempts # {}
    /\ MaxFaults \in Nat
    /\ MaxTimeouts \in Nat
    /\ MaxCrashes \in Nat

VARIABLES
    row,     \* the app's document in `apps`
    granted, \* generations whose install waits for the image or the lock
    inv,     \* generation -> its document in runtimeResourceInventories
    ctr,     \* <<generation, replica>> -> the container, or Gone
    side,    \* <<generation, replica, kind>> of the other resources on the nodes
    route,   \* what the route programmer points the app's label at: "on" | "off"
    job,     \* the holder of the workspace lock
    calls,   \* requests agents work on
    op,      \* generation -> its lifecycle operation
    att,     \* attempt -> where uninstall stands
    sign,    \* generations whose inventory a route still has to sign and return
    told,    \* the answer to the Hub's last command for the row
    raced,   \* history: generations an agent worked on while they were uninstalled
    late,    \* history: generations with a request the master gave up
    revived, \* history: generations that got a second document
    spent    \* faults, timeouts and crashes so far

vars == <<row, granted, inv, ctr, side, route, job, calls, op, att, sign, told, raced, late,
          revived, spent>>

Gens    == 1..MaxGen
Images  == 1..MaxImage
Configs == 1..MaxConfig
Kinds   == {"container", "broker", "volume"}
Route   == <<0, "route">>                       \* the INGRESS descriptor

Container  == [img : Images, ep : Images, cfg : Configs, mem : Configs]
Gone       == [img |-> 0, ep |-> 0, cfg |-> 0, mem |-> 0]
Installed  == [img |-> 1, ep |-> 1, cfg |-> 1, mem |-> 1]
Descriptor == (Replicas \X Kinds) \cup {Route}

Idle  == [kind |-> "idle", gen |-> 0, arg |-> 0, pc |-> "none", at |-> 0,
          reply |-> "none", done |-> {}, recovered |-> "unknown", reverted |-> "all"]
Quiet == [gen |-> 0, pc |-> "none", proven |-> "no"]

States == {"NONE", "PROVISIONING", "QUARANTINED", "RUNNING", "REVOKING", "REMOVED"}
OpStates == {"none", "COMMAND_VERIFIED", "ACCESS_REVOKED", "RUNTIME_REMOVING",
             "VERIFYING", "COMPLETED", "CLEANUP_REQUIRED"}
Replies == {"none", "waiting", "ok", "refused", "recovered", "lost", "timeout"}
Answers == {"none", "installed", "active", "applied", "upgraded", "rolledback",
            "repeated", "refused", "failed"}
JobPcs  == {"none", "inventory", "deploy", "finalize", "quarantine", "establish", "forward", "back"}
AttPcs  == {"none", "revoke", "remove", "verify", "acknowledge", "store", "retire"}

Row       == [state : States, gen : 0..MaxGen, is : Container \cup {Gone},
              plan : Plans \cup {{}}, reported : SUBSET Replicas, bound : {"no", "yes"}]
Inventory == [state : {"none", "CAPTURING", "READY"}, res : SUBSET Descriptor,
              signed : {"no", "yes"}]
Job       == [kind : {"idle", "install", "activate", "configure", "upgrade"},
              gen : 0..MaxGen, arg : Nat, pc : JobPcs, at : Replicas \cup {0},
              reply : Replies, done : SUBSET Replicas,
              recovered : {"unknown", "yes", "no"}, reverted : {"all", "some"}]
Call      == [kind : {"deploy", "reconfigure", "redeploy"}, gen : Gens, r : Replicas,
              to : Container, old : 0..MaxImage, phase : {"sent", "gap"}, await : {"no", "yes"}]
Operation == [state : OpStates, ack : {"none", "stored"}]
Attempt   == [gen : 0..MaxGen, pc : AttPcs, proven : {"no", "yes"}]

TypeOK ==
    /\ row \in Row
    /\ granted \subseteq Gens
    /\ inv \in [Gens -> Inventory]
    /\ ctr \in [Gens \X Replicas -> Container \cup {Gone}]
    /\ side \subseteq Gens \X Replicas \X {"broker", "volume"}
    /\ route \in {"on", "off"}
    /\ job \in Job
    /\ calls \subseteq Call
    /\ op \in [Gens -> Operation]
    /\ att \in [Attempts -> Attempt]
    /\ sign \subseteq Gens
    /\ told \in Answers
    /\ raced \subseteq Gens
    /\ late \subseteq Gens
    /\ revived \subseteq Gens
    /\ spent \in [faults : 0..MaxFaults, timeouts : 0..MaxTimeouts, crashes : 0..MaxCrashes]

Init ==
    /\ row = [state |-> "NONE", gen |-> 0, is |-> Gone, plan |-> {}, reported |-> {}, bound |-> "no"]
    /\ granted = {}
    /\ inv = [g \in Gens |-> [state |-> "none", res |-> {}, signed |-> "no"]]
    /\ ctr = [x \in Gens \X Replicas |-> Gone]
    /\ side = {}
    /\ route = "off"
    /\ job = Idle
    /\ calls = {}
    /\ op = [g \in Gens |-> [state |-> "none", ack |-> "none"]]
    /\ att = [a \in Attempts |-> Quiet]
    /\ sign = {}
    /\ told = "none"
    /\ raced = {}
    /\ late = {}
    /\ revived = {}
    /\ spent = [faults |-> 0, timeouts |-> 0, crashes |-> 0]

-----------------------------------------------------------------------------
(* What is on the nodes, and what an inventory declares.                   *)

Parts(rs) == rs \X Kinds

World(g) ==
    {<<r, "container">> : r \in {q \in Replicas : ctr[<<g, q>>] # Gone}}
      \cup {<<x[2], x[3]>> : x \in {y \in side : y[1] = g}}

(* What an agent reports for a replica it runs, and the whole set for the  *)
(* row: the replicas' resources and the route.                             *)
expectedResources(rs) == Parts(rs)
rowResources == Parts(row.reported) \cup {Route}

(* Both checks of a dispatch assertion: the master's against the row, the  *)
(* agent's against the labels of the container.                            *)
consumeDispatchAssertionV3 == row.state = "RUNNING"

verifyAgentDispatchAssertionV3(g, r, img, ep) ==
    /\ ctr[<<g, r>>] # Gone
    /\ ctr[<<g, r>>].img = img
    /\ ctr[<<g, r>>].ep = ep

Dispatchable(r) ==
    /\ consumeDispatchAssertionV3
    /\ verifyAgentDispatchAssertionV3(row.gen, r, row.is.img, row.is.ep)

(* Commands are only accepted for a generation whose inventory is READY;   *)
(* the Hub can name its hash once the attestation was signed.              *)
consumeReconfigureCommandV3(g) == inv[g].state = "READY" /\ inv[g].signed = "yes"
consumeUpgradeCommandV3(g)     == inv[g].state = "READY" /\ inv[g].signed = "yes"
consumeLifecycleCommandV3(g)   == inv[g].state = "READY" /\ inv[g].signed = "yes"

(* A grant has a higher number than the row's generation, if that is       *)
(* another one; exact redelivery is let through.                           *)
consumeProvisioningDeploymentGrantV3(g) == row.gen = g \/ row.gen < g

(* assertMcpV3AppAffinity: a redelivered grant matches the row while its   *)
(* active key is set and neither image nor epoch moved on.                 *)
assertMcpV3AppAffinity(g) ==
    /\ row.gen = g
    /\ row.state \in {"PROVISIONING", "QUARANTINED", "RUNNING"}
    /\ row.is.img = 1
    /\ row.is.ep = 1

-----------------------------------------------------------------------------
(* The workspace lock and the requests of its holder.                      *)

Min(S) == CHOOSE x \in S : \A y \in S : x <= y

Fault == /\ spent.faults < MaxFaults
         /\ spent' = [spent EXCEPT !.faults = @ + 1]

(* The route answers the Hub and the lock goes to the next.                *)
Finish(answer) ==
    /\ job' = Idle
    /\ told' = answer

(* AgentClient.request: the job waits for its one request.                 *)
request(kind, r, to) ==
    /\ job' = [job EXCEPT !.at = r, !.reply = "waiting"]
    /\ calls' = calls \cup
         {[kind |-> kind, gen |-> job.gen, r |-> r, to |-> to, old |-> 0,
           phase |-> "sent", await |-> "yes"]}
    /\ raced' = IF op[job.gen].state = "none" THEN raced ELSE raced \cup {job.gen}

(* The agent is done with c; a master that still waits has the answer.     *)
respond(c, answer) ==
    /\ calls' = calls \ {c}
    /\ job' = IF c.await = "yes" THEN [job EXCEPT !.reply = answer] ELSE job

Replied(answers) == job.reply \in answers

-----------------------------------------------------------------------------
(* deployMcpV3                                                             *)

(* The install route consumes the grant, and looks for a node and has an   *)
(* agent inspect the image before it asks for the lock.                    *)
acceptInstall(g) ==
    /\ consumeProvisioningDeploymentGrantV3(g)
    /\ granted' = granted \cup {g}
    /\ UNCHANGED <<row, inv, ctr, side, route, job, calls, op, att, told, raced, sign, late,
                   revived, spent>>

(* No node, another image, no quota or capacity, or the row of another     *)
(* generation: nothing is changed.                                         *)
refuseInstall(g) ==
    /\ g \in granted
    /\ granted' = granted \ {g}
    /\ UNCHANGED <<row, inv, ctr, side, route, job, calls, op, att, told, raced, sign, late,
                   revived, spent>>

(* The document that is inserted: PROVISIONING, with the plan of replicas. *)
FreshRow(g, p) == [state |-> "PROVISIONING", gen |-> g, is |-> Installed, plan |-> p,
                   reported |-> {}, bound |-> "no"]

(* The plan's ids are new: no node, request or inventory of the generation *)
(* knows them.  Which new ones it takes makes no difference.               *)
Known(g, r) ==
    \/ ctr[<<g, r>>] # Gone
    \/ \E x \in side : x[1] = g /\ x[2] = r
    \/ \E c \in calls : c.gen = g /\ c.r = r

FreshPlans(g) ==
    {p \in Plans : (\A r \in p : ~Known(g, r)) /\ inv[g].res \cap Parts(p) = {}}

NewPlan(g) == CHOOSE p \in FreshPlans(g) : TRUE

(* The insert finds the slot free, or collides with a tombstone, which it  *)
(* replaces, whatever generation that was of.                              *)
SlotFree == row.state \in {"NONE", "REMOVED"}

(* The lock is taken: a new row, or the row of this generation goes on.    *)
deployMcpV3(g) ==
    /\ job = Idle
    /\ g \in granted
    /\ granted' = granted \ {g}
    /\ \/ /\ SlotFree
          /\ FreshPlans(g) # {}
          /\ row' = FreshRow(g, NewPlan(g))
          /\ told' = "none"
          /\ revived' = IF inv[g].state = "none" THEN revived ELSE revived \cup {g}
       \/ assertMcpV3AppAffinity(g) /\ UNCHANGED <<row, told, revived>>
    /\ job' = [Idle EXCEPT !.kind = "install", !.gen = g, !.pc = "inventory"]
    /\ UNCHANGED <<inv, ctr, side, route, calls, op, att, raced, sign, late, spent>>

buildCapturingRuntimeResourceInventoryV3 ==
    /\ job.pc = "inventory"
    /\ inv' = IF inv[job.gen].state = "none"
              THEN [inv EXCEPT ![job.gen].state = "CAPTURING"] ELSE inv
    /\ job' = [job EXCEPT !.pc = "deploy"]
    /\ UNCHANGED <<row, granted, ctr, side, route, calls, op, att, told, raced, sign, late,
                   revived, spent>>

deployReplica ==
    /\ job.pc = "deploy"
    /\ Replied({"none"})
    /\ row.reported # row.plan
    /\ request("deploy", Min(row.plan \ row.reported), Installed)
    /\ UNCHANGED <<row, granted, inv, ctr, side, route, op, att, told, sign, late, revived, spent>>

\* Mutant: an answer is recorded also in an inventory that is no longer CAPTURING.
parseResponseAlways ==
    /\ job.pc = "deploy"
    /\ Replied({"ok"})
    /\ inv' = [inv EXCEPT ![job.gen].res = @ \cup expectedResources({job.at})]
    /\ row' = [row EXCEPT !.reported = @ \cup {job.at}]
    /\ job' = [job EXCEPT !.reply = "none"]
    /\ UNCHANGED <<granted, ctr, side, route, calls, op, att, told, raced, sign, late, revived,
                   spent>>

(* The reported resources join the inventory while it is CAPTURING, and    *)
(* the replica joins the row.                                              *)
parseMcpV3ReplicaResponse ==
    /\ job.pc = "deploy"
    /\ Replied({"ok"})
    /\ inv' = IF inv[job.gen].state = "CAPTURING"
              THEN [inv EXCEPT ![job.gen].res = @ \cup expectedResources({job.at})] ELSE inv
    /\ row' = [row EXCEPT !.reported = @ \cup {job.at}]
    /\ job' = [job EXCEPT !.reply = "none"]
    /\ UNCHANGED <<granted, ctr, side, route, calls, op, att, told, raced, sign, late, revived,
                   spent>>

deployFailed ==
    /\ job.pc = "deploy"
    /\ Replied(Replies \ {"none", "waiting", "ok"})
    /\ Finish("failed")
    /\ UNCHANGED <<row, granted, inv, ctr, side, route, calls, op, att, raced, sign, late,
                   revived, spent>>

\* Mutant: the inventory is finalized without comparing it with the row.
finalizeUncompared ==
    /\ job.pc = "deploy"
    /\ Replied({"none"})
    /\ row.reported = row.plan
    /\ inv' = IF inv[job.gen].state = "CAPTURING"
              THEN [inv EXCEPT ![job.gen].res = @ \cup {Route}, ![job.gen].state = "READY"] ELSE inv
    /\ job' = [job EXCEPT !.pc = "finalize"]
    /\ UNCHANGED <<row, granted, ctr, side, route, calls, op, att, told, raced, sign, late,
                   revived, spent>>

(* Every replica reported: the route joins, the inventory becomes READY,   *)
(* and must be what the row's replicas hold.                               *)
finalizeRuntimeResourceInventoryV3 ==
    LET g == job.gen
        final == IF inv[g].state = "CAPTURING" THEN inv[g].res \cup {Route} ELSE inv[g].res
    IN  /\ job.pc = "deploy"
        /\ Replied({"none"})
        /\ row.reported = row.plan
        /\ inv' = [inv EXCEPT ![g].res = final, ![g].state = "READY"]
        /\ IF final = rowResources
           THEN /\ job' = [job EXCEPT !.pc = "finalize"]
                /\ UNCHANGED told
           ELSE Finish("failed")
        /\ UNCHANGED <<row, granted, ctr, side, route, calls, op, att, raced, sign, late,
                       revived, spent>>

(* The agents register the final binding of each replica, which needs its  *)
(* container.                                                              *)
finalizeReplicas ==
    /\ job.pc = "finalize"
    /\ \/ /\ \A r \in row.plan : ctr[<<job.gen, r>>] # Gone
          /\ side' = side \cup {<<job.gen, r, "broker">> : r \in row.plan}
          /\ job' = [job EXCEPT !.pc = "quarantine"]
          /\ UNCHANGED <<told, spent>>
       \/ /\ \E r \in row.plan : ctr[<<job.gen, r>>] = Gone
          /\ Finish("failed")
          /\ UNCHANGED <<side, spent>>
       \/ /\ Fault
          /\ Finish("failed")
          /\ UNCHANGED side
    /\ UNCHANGED <<row, granted, inv, ctr, route, calls, op, att, raced, sign, late, revived>>

\* Mutant: the row is QUARANTINED whatever became of it meanwhile.
quarantineRowAny ==
    /\ job.pc = "quarantine"
    /\ row' = [row EXCEPT !.state = "QUARANTINED", !.bound = "yes"]
    /\ job' = Idle
    /\ sign' = sign \cup {job.gen}
    /\ UNCHANGED <<granted, inv, ctr, side, route, calls, op, att, told, raced, late, revived,
                   spent>>

quarantineRow ==
    /\ job.pc = "quarantine"
    /\ row' = IF row.state \in {"PROVISIONING", "QUARANTINED"}
              THEN [row EXCEPT !.state = "QUARANTINED", !.bound = "yes"] ELSE row
    /\ IF row'.state \in {"QUARANTINED", "RUNNING"}
       THEN /\ job' = Idle
            /\ sign' = sign \cup {job.gen}
            /\ UNCHANGED told
       ELSE Finish("failed") /\ UNCHANGED sign
    /\ UNCHANGED <<granted, inv, ctr, side, route, calls, op, att, raced, late, revived, spent>>

(* The install and the recovery route sign a READY inventory after the     *)
(* lock was given back; a second time they return what is stored.          *)
signRuntimeInventoryAttestation(g) ==
    /\ g \in sign
    /\ inv[g].state = "READY"
    /\ inv' = [inv EXCEPT ![g].signed = "yes"]
    /\ sign' = sign \ {g}
    /\ told' = IF row.gen = g /\ row.state = "QUARANTINED" THEN "installed" ELSE told
    /\ UNCHANGED <<row, granted, ctr, side, route, job, calls, op, att, raced, late, revived,
                   spent>>

-----------------------------------------------------------------------------
(* activateMcpV3 and recoverMcpV3InventoryAttestation                      *)

(* The Hub shows the stored attestation of the generation.                 *)
acceptActivation(g) ==
    /\ job = Idle
    /\ row.gen = g
    /\ row.bound = "yes"
    /\ inv[g].signed = "yes"

(* The label is routed before the row is RUNNING; a row that is RUNNING    *)
(* already is the answer.                                                  *)
activateMcpV3(g) ==
    /\ acceptActivation(g)
    /\ \/ /\ row.state = "QUARANTINED"
          /\ route' = "on"
          /\ job' = [Idle EXCEPT !.kind = "activate", !.gen = g, !.pc = "establish"]
          /\ UNCHANGED told
       \/ /\ row.state = "RUNNING"
          /\ Finish("repeated")
          /\ UNCHANGED route
    /\ UNCHANGED <<row, granted, inv, ctr, side, calls, op, att, raced, sign, late, revived, spent>>

establish ==
    /\ job.pc = "establish"
    /\ IF row.state = "QUARANTINED"
       THEN row' = [row EXCEPT !.state = "RUNNING"] /\ Finish("active")
       ELSE UNCHANGED row /\ Finish("failed")
    /\ UNCHANGED <<granted, inv, ctr, side, route, calls, op, att, raced, sign, late, revived,
                   spent>>

(* What a CAPTURING inventory lacks when it is closed without the install: *)
(* the REPLICA and the CONTAINER of every planned replica, and the route.  *)
plannedResources == (row.plan \X {"container", "broker"}) \cup {Route}

(* For a Hub that never got the install's answer.                          *)
recoverMcpV3InventoryAttestation(g) ==
    /\ job = Idle
    /\ row.gen = g
    /\ inv[g].state # "none"
    /\ inv[g].signed = "no"
    /\ inv' = IF inv[g].state = "CAPTURING"
              THEN [inv EXCEPT ![g].state = "READY", ![g].res = @ \cup plannedResources] ELSE inv
    /\ sign' = sign \cup {g}
    /\ UNCHANGED <<row, granted, ctr, side, route, job, calls, op, att, told, raced, late,
                   revived, spent>>

-----------------------------------------------------------------------------
(* reconfigureMcpV3                                                        *)

Target(e) == [row.is EXCEPT !.cfg = e, !.mem = IF e \in Resizes THEN e ELSE @]

acceptReconfigure(e) ==
    /\ job = Idle
    /\ row.gen \in Gens
    /\ consumeReconfigureCommandV3(row.gen)
    /\ e >= row.is.cfg

(* A stale epoch changes nothing; a repeated one is answered from the row. *)
(* Quota, capacity or a node that is not ACTIVE may refuse the command.    *)
reconfigureMcpV3(e) ==
    /\ acceptReconfigure(e)
    /\ row.state = "RUNNING"
    /\ \/ /\ e > row.is.cfg
          /\ job' = [Idle EXCEPT !.kind = "configure", !.gen = row.gen, !.arg = e,
                                 !.pc = "forward"]
          /\ UNCHANGED told
       \/ e > row.is.cfg /\ Finish("failed")
       \/ e = row.is.cfg /\ Finish("repeated")
    /\ UNCHANGED <<row, granted, inv, ctr, side, route, calls, op, att, raced, sign, late,
                   revived, spent>>

reconfigureReplica ==
    /\ job.kind = "configure"
    /\ job.pc = "forward"
    /\ Replied({"none"})
    /\ job.done # row.reported
    /\ request("reconfigure", Min(row.reported \ job.done), Target(job.arg))
    /\ UNCHANGED <<row, granted, inv, ctr, side, route, op, att, told, sign, late, revived, spent>>

(* A replica answered.  A refusal in a resize starts the way back; a       *)
(* request that got no answer throws past it.                              *)
reconfigureReplied ==
    /\ job.kind = "configure"
    /\ job.pc = "forward"
    /\ \/ /\ Replied({"ok"})
          /\ job' = [job EXCEPT !.done = @ \cup {job.at}, !.reply = "none"]
          /\ UNCHANGED told
       \/ /\ Replied({"refused", "lost"})
          /\ job.arg \in Resizes
          /\ job' = [job EXCEPT !.pc = "back", !.reply = "none"]
          /\ UNCHANGED told
       \/ /\ \/ Replied({"timeout"})
             \/ Replied({"refused", "lost"}) /\ job.arg \notin Resizes
          /\ Finish("failed")
    /\ UNCHANGED <<row, granted, inv, ctr, side, route, calls, op, att, raced, sign, late,
                   revived, spent>>

(* The replicas that moved go back to the old size, with the new           *)
(* environment; the first that does not ends it.                           *)
rollbackReplica ==
    /\ job.kind = "configure"
    /\ job.pc = "back"
    /\ \/ /\ Replied({"none"})
          /\ job.done # {}
          /\ request("reconfigure", Min(job.done), [Target(job.arg) EXCEPT !.mem = row.is.mem])
          /\ UNCHANGED told
       \/ /\ Replied({"ok"})
          /\ job' = [job EXCEPT !.done = @ \ {job.at}, !.reply = "none"]
          /\ UNCHANGED <<told, calls, raced>>
       \/ /\ Replied({"refused", "lost", "timeout"}) \/ (Replied({"none"}) /\ job.done = {})
          /\ Finish("failed")
          /\ UNCHANGED <<calls, raced>>
    /\ UNCHANGED <<row, granted, inv, ctr, side, route, op, att, sign, late, revived, spent>>

(* Every replica moved: the row follows, or a call to Mongo fails, before  *)
(* or after the row was written, and nothing goes back.                    *)
persistConfig ==
    /\ job.kind = "configure"
    /\ job.pc = "forward"
    /\ Replied({"none"})
    /\ job.done = row.reported
    /\ \/ /\ row.is.cfg < job.arg
          /\ row' = [row EXCEPT !.is = Target(job.arg)]
          /\ Finish("applied")
          /\ UNCHANGED spent
       \/ /\ Fault
          /\ row' \in {row, [row EXCEPT !.is = Target(job.arg)]}
          /\ Finish("failed")
    /\ UNCHANGED <<granted, inv, ctr, side, route, calls, op, att, raced, sign, late, revived>>

-----------------------------------------------------------------------------
(* upgradeMcpV3                                                            *)

(* The route: the command follows the image the row has, or is the one     *)
(* that brought it, and an agent has inspected the image it names.         *)
acceptUpgrade(n) ==
    /\ job = Idle
    /\ row.gen \in Gens
    /\ consumeUpgradeCommandV3(row.gen)
    /\ n = row.is.img + 1 \/ (n = row.is.img /\ n > 1)

(* The inspection, a row that is not RUNNING that image, or a node that is *)
(* not ACTIVE refuse the command; the revision the row has is answered     *)
(* from the row.                                                           *)
upgradeMcpV3(n) ==
    /\ acceptUpgrade(n)
    /\ row.state = "RUNNING"
    /\ \/ /\ n > row.is.img
          /\ job' = [Idle EXCEPT !.kind = "upgrade", !.gen = row.gen, !.arg = n, !.pc = "forward"]
          /\ UNCHANGED told
       \/ n > row.is.img /\ Finish("refused")
       \/ n = row.is.img /\ Finish("repeated")
    /\ UNCHANGED <<row, granted, inv, ctr, side, route, calls, op, att, raced, sign, late,
                   revived, spent>>

(* redeployBody: image d under the resulting epoch, everything else as the *)
(* row has it.                                                             *)
redeployBody(d) == [row.is EXCEPT !.img = d, !.ep = job.arg]

upgradeReplica ==
    /\ job.kind = "upgrade"
    /\ job.pc = "forward"
    /\ Replied({"none"})
    /\ job.done # row.reported
    /\ request("redeploy", Min(row.reported \ job.done), redeployBody(job.arg))
    /\ UNCHANGED <<row, granted, inv, ctr, side, route, op, att, told, sign, late, revived, spent>>

upgradeReplied ==
    /\ job.kind = "upgrade"
    /\ job.pc = "forward"
    /\ \/ /\ Replied({"ok"})
          /\ job' = [job EXCEPT !.done = @ \cup {job.at}, !.reply = "none"]
       \/ /\ Replied({"refused", "timeout"})
          /\ job' = [job EXCEPT !.pc = "back", !.reply = "none"]
       \/ /\ Replied({"recovered", "lost"})
          /\ job' = [job EXCEPT !.pc = "back", !.reply = "none",
                                !.recovered = IF job.reply = "recovered" THEN "yes" ELSE "no"]
    /\ UNCHANGED <<row, granted, inv, ctr, side, route, calls, op, att, told, raced, sign, late,
                   revived, spent>>

\* Mutant: the image is written and the epoch forgotten.
persistImageOnly ==
    /\ job.kind = "upgrade"
    /\ job.pc = "forward"
    /\ Replied({"none"})
    /\ job.done = row.reported
    /\ row' = [row EXCEPT !.is.img = job.arg]
    /\ Finish("upgraded")
    /\ UNCHANGED <<granted, inv, ctr, side, route, calls, op, att, raced, sign, late, revived,
                   spent>>

(* Image, epoch and revision move together, or the write fails and the     *)
(* replicas go back.  (A write that matches no row, persistenceFailed,     *)
(* needs a second upgrade of the row, which the lock keeps out.)           *)
persistUpgrade ==
    /\ job.kind = "upgrade"
    /\ job.pc = "forward"
    /\ Replied({"none"})
    /\ job.done = row.reported
    /\ \/ /\ row.is.img < job.arg
          /\ row' = [row EXCEPT !.is.img = job.arg, !.is.ep = job.arg]
          /\ Finish("upgraded")
          /\ UNCHANGED spent
       \/ /\ Fault
          /\ job' = [job EXCEPT !.pc = "back"]
          /\ UNCHANGED <<row, told>>
    /\ UNCHANGED <<granted, inv, ctr, side, route, calls, op, att, raced, sign, late, revived>>

revertReplica ==
    /\ job.kind = "upgrade"
    /\ job.pc = "back"
    /\ \/ /\ Replied({"none"})
          /\ job.done # {}
          /\ request("redeploy", Min(job.done), redeployBody(row.is.img))
       \/ /\ Replied(Replies \ {"none", "waiting"})
          /\ job' = [job EXCEPT !.done = @ \ {job.at}, !.reply = "none",
                                !.reverted = IF job.reply = "ok" THEN @ ELSE "some"]
          /\ UNCHANGED <<calls, raced>>
    /\ UNCHANGED <<row, granted, inv, ctr, side, route, op, att, told, sign, late, revived, spent>>

(* ROLLED_BACK when every replica that had moved is back and the one that  *)
(* failed says it runs its previous image; FAILED otherwise.               *)
rolledBack == job.reverted = "all" /\ job.recovered = "yes"

upgradeFailed ==
    /\ job.kind = "upgrade"
    /\ job.pc = "back"
    /\ Replied({"none"})
    /\ job.done = {}
    /\ Finish(IF rolledBack THEN "rolledback" ELSE "failed")
    /\ UNCHANGED <<row, granted, inv, ctr, side, route, calls, op, att, raced, sign, late,
                   revived, spent>>

-----------------------------------------------------------------------------
(* The agents.  A request begins, does its work, and ends; nothing keeps   *)
(* two requests for one container apart.                                   *)

Put(c, x) == ctr' = [ctr EXCEPT ![<<c.gen, c.r>>] = x]
Here(c)   == ctr[<<c.gen, c.r>>]
Broker(c) == <<c.gen, c.r, "broker">>
Volume(c) == <<c.gen, c.r, "volume">>
Begin(c, old) == calls' = (calls \ {c}) \cup {[c EXCEPT !.phase = "gap", !.old = old]}

(* The same labels: the container is there already.  None: broker and      *)
(* volume are made, then the container.                                    *)
deployManagedApp(c) ==
    /\ c.kind = "deploy"
    /\ c.phase = "sent"
    /\ \/ /\ Here(c) # Gone
          /\ LET same == Here(c).img = c.to.img /\ Here(c).ep = c.to.ep
             IN  /\ respond(c, IF same THEN "ok" ELSE "refused")
                 /\ side' = IF same THEN side \cup {Broker(c)} ELSE side
       \/ /\ Here(c) = Gone
          /\ Begin(c, 0)
          /\ side' = side \cup {Broker(c), Volume(c)}
          /\ UNCHANGED job
    /\ UNCHANGED <<row, granted, inv, ctr, route, op, att, told, raced, sign, late, revived, spent>>

(* The failed deploy takes back what it made; the volume stays where       *)
(* another container holds it, or the one that Docker created and the      *)
(* agent failed to look at, which it does not know and leaves.             *)
deployEnds(c) ==
    /\ c.kind = "deploy"
    /\ c.phase = "gap"
    /\ \/ /\ Put(c, c.to)
          /\ side' = side \cup {Broker(c)}
          /\ respond(c, "ok")
          /\ UNCHANGED spent
       \/ /\ Fault
          /\ side' = side \ (IF Here(c) = Gone THEN {Broker(c), Volume(c)} ELSE {Broker(c)})
          /\ respond(c, "refused")
          /\ UNCHANGED ctr
       \/ /\ Fault
          /\ Put(c, c.to)
          /\ side' = side \ {Broker(c)}
          /\ respond(c, "refused")
    /\ UNCHANGED <<row, granted, inv, route, op, att, told, raced, sign, late, revived>>

(* A container with other labels, or none, and a failed pull refuse the    *)
(* request before anything is touched; then binding and container go.      *)
swapBegins(c) ==
    /\ c.kind \in {"reconfigure", "redeploy"}
    /\ c.phase = "sent"
    /\ \/ /\ \/ Here(c) = Gone
             \/ c.kind = "reconfigure" /\ <<Here(c).img, Here(c).ep>> # <<c.to.img, c.to.ep>>
          /\ respond(c, "refused")
          /\ UNCHANGED <<ctr, side, spent>>
       \/ /\ Here(c) # Gone
          /\ Fault
          /\ respond(c, "refused")
          /\ UNCHANGED <<ctr, side>>
       \/ /\ Here(c) # Gone
          /\ c.kind = "reconfigure" => <<Here(c).img, Here(c).ep>> = <<c.to.img, c.to.ep>>
          /\ Begin(c, Here(c).img)
          /\ Put(c, Gone)
          /\ side' = side \ {Broker(c)}
          /\ UNCHANGED <<job, spent>>
    /\ UNCHANGED <<row, granted, inv, route, op, att, told, raced, sign, late, revived>>

(* The new container runs.  It does not: a reconfigure leaves the replica  *)
(* without one; a redeploy puts back the image it found, under the labels  *)
(* of the request, or leaves none either.                                  *)
swapEnds(c) ==
    /\ c.kind \in {"reconfigure", "redeploy"}
    /\ c.phase = "gap"
    /\ \/ /\ Put(c, c.to)
          /\ side' = side \cup {Broker(c)}
          /\ respond(c, "ok")
          /\ UNCHANGED spent
       \/ /\ Fault
          /\ c.kind = "redeploy"
          /\ Put(c, [c.to EXCEPT !.img = c.old])
          /\ side' = side \cup {Broker(c)}
          /\ respond(c, "recovered")
       \/ /\ Fault
          /\ respond(c, "lost")
          /\ UNCHANGED <<ctr, side>>
    /\ UNCHANGED <<row, granted, inv, route, op, att, told, raced, sign, late, revived>>

(* 30 s passed, or the connection broke: the request may go on.            *)
timeout(c) ==
    /\ c.await = "yes"
    /\ spent.timeouts < MaxTimeouts
    /\ spent' = [spent EXCEPT !.timeouts = @ + 1]
    /\ calls' = (calls \ {c}) \cup {[c EXCEPT !.await = "no"]}
    /\ job' = [job EXCEPT !.reply = "timeout"]
    /\ late' = late \cup {c.gen}
    /\ UNCHANGED <<row, granted, inv, ctr, side, route, op, att, told, raced, sign, revived>>

-----------------------------------------------------------------------------
(* uninstall                                                               *)

lifecycleTransitions ==
    [s \in OpStates |->
       CASE s = "none"             -> {"COMMAND_VERIFIED"}
         [] s = "COMMAND_VERIFIED" -> {"ACCESS_REVOKED", "CLEANUP_REQUIRED"}
         [] s = "ACCESS_REVOKED"   -> {"RUNTIME_REMOVING", "CLEANUP_REQUIRED"}
         [] s = "RUNTIME_REMOVING" -> {"VERIFYING", "CLEANUP_REQUIRED"}
         [] s = "VERIFYING"        -> {"COMPLETED", "CLEANUP_REQUIRED"}
         [] s = "CLEANUP_REQUIRED" -> {"ACCESS_REVOKED", "RUNTIME_REMOVING", "VERIFYING"}
         [] s = "COMPLETED"        -> {}]

Legal(from, to) == from = to \/ to \in lifecycleTransitions[from]

\* Mutant: an interrupted attempt is left where it stopped.
parkNothing(s) == s

(* MID_ATTEMPT_STATES: what an attempt that died or threw leaves behind.   *)
parkInterruptedAttempt(s) ==
    IF s \in {"ACCESS_REVOKED", "RUNTIME_REMOVING", "VERIFYING"} THEN "CLEANUP_REQUIRED" ELSE s

(* A phase ends with its checkpoint; an operation another attempt moved    *)
(* on refuses it, and the attempt throws and parks the operation.          *)
checkpoint(a, to, next, proven) ==
    LET g == att[a].gen
    IN  IF Legal(op[g].state, to)
        THEN /\ op' = [op EXCEPT ![g].state = to]
             /\ att' = [att EXCEPT ![a].pc = next, ![a].proven = proven]
        ELSE /\ op' = [op EXCEPT ![g].state = parkInterruptedAttempt(@)]
             /\ att' = [att EXCEPT ![a] = Quiet]

acceptUninstall(a, g) == att[a] = Quiet /\ consumeLifecycleCommandV3(g)

(* A repeated command finds its operation as it is.                        *)
OpenedAs(g) == IF op[g].state = "none" THEN "COMMAND_VERIFIED" ELSE op[g].state

(* The command is verified, its operation opened or found again, and       *)
(* what a dead attempt left is parked.  A completed one replays its        *)
(* acknowledgement and changes nothing.                                    *)
openOperation(a, g) ==
    /\ acceptUninstall(a, g)
    /\ ~(op[g].state = "COMPLETED" /\ op[g].ack = "stored")
    /\ op' = [op EXCEPT ![g].state = parkInterruptedAttempt(OpenedAs(g))]
    /\ att' = [att EXCEPT ![a] = [gen |-> g, pc |-> "revoke", proven |-> "no"]]
    /\ raced' = IF \E c \in calls : c.gen = g THEN raced \cup {g} ELSE raced
    /\ UNCHANGED <<row, granted, inv, ctr, side, route, job, calls, told, sign, late, revived,
                   spent>>

(* The row of the app, whatever its generation.                            *)
revokeDispatch(a) ==
    /\ att[a].pc = "revoke"
    /\ row' = [row EXCEPT !.state = "REVOKING"]
    /\ checkpoint(a, "ACCESS_REVOKED", "remove", "no")
    /\ UNCHANGED <<granted, inv, ctr, side, route, job, calls, told, raced, sign, late, revived,
                   spent>>

(* One agent removes what is declared of a replica: the binding, the       *)
(* container and, when no container holds it any more, the volume.         *)
removeRuntimeResource(g, rs) ==
    LET declared(r, k) == <<r, k>> \in inv[g].res
    IN  /\ ctr' = [x \in DOMAIN ctr |->
                     IF x[1] = g /\ x[2] \in rs /\ declared(x[2], "container") THEN Gone ELSE ctr[x]]
        /\ side' = {x \in side : ~(x[1] = g /\ x[2] \in rs /\ declared(x[2], x[3]))}

(* Each node may fail, its resources stay; so may the route programmer.    *)
removeDeclaredResources(a) ==
    LET g == att[a].gen
    IN  /\ att[a].pc = "remove"
        /\ \/ /\ removeRuntimeResource(g, Replicas)
              /\ route' = IF Route \in inv[g].res THEN "off" ELSE route
              /\ UNCHANGED spent
           \/ /\ Fault
              /\ \E r \in Replicas : removeRuntimeResource(g, Replicas \ {r})
              /\ route' = IF Route \in inv[g].res THEN "off" ELSE route
           \/ /\ Fault
              /\ removeRuntimeResource(g, Replicas)
              /\ UNCHANGED route
        /\ checkpoint(a, "RUNTIME_REMOVING", "verify", "no")
        /\ UNCHANGED <<row, granted, inv, job, calls, told, raced, sign, late, revived>>

(* What the agents see of the declared resources; the route counts as      *)
(* absent without a look.                                                  *)
observeRuntimeResource(g) == inv[g].res \cap World(g)

\* Mutant: the resources are reported absent without a look.
verifyTrusting(a) ==
    /\ att[a].pc = "verify"
    /\ checkpoint(a, "VERIFYING", "acknowledge", "yes")
    /\ UNCHANGED <<row, granted, inv, ctr, side, route, job, calls, told, raced, sign, late,
                   revived, spent>>

verifyDeclaredResources(a) ==
    LET g == att[a].gen
    IN  /\ att[a].pc = "verify"
        /\ \/ /\ checkpoint(a, "VERIFYING", "acknowledge",
                            IF observeRuntimeResource(g) = {} THEN "yes" ELSE "no")
              /\ UNCHANGED spent
           \/ /\ Fault
              /\ checkpoint(a, "VERIFYING", "acknowledge", "no")
        /\ UNCHANGED <<row, granted, inv, ctr, side, route, job, calls, told, raced, sign, late,
                       revived>>

Verdict(a) == IF att[a].proven = "yes" THEN "COMPLETED" ELSE "CLEANUP_REQUIRED"

signFinalAcknowledgement(a) ==
    /\ att[a].pc = "acknowledge"
    /\ checkpoint(a, Verdict(a), "store", att[a].proven)
    /\ UNCHANGED <<row, granted, inv, ctr, side, route, job, calls, told, raced, sign, late,
                   revived, spent>>

storeAcknowledgement(a) ==
    /\ att[a].pc = "store"
    /\ op' = [op EXCEPT ![att[a].gen] = [state |-> Verdict(a), ack |-> "stored"]]
    /\ att' = [att EXCEPT ![a] = IF Verdict(a) = "COMPLETED"
                                 THEN [@ EXCEPT !.pc = "retire"] ELSE Quiet]
    /\ UNCHANGED <<row, granted, inv, ctr, side, route, job, calls, told, raced, sign, late,
                   revived, spent>>

(* The row of the app, whatever its generation.                            *)
retireRow(a) ==
    /\ att[a].pc = "retire"
    /\ row' = [row EXCEPT !.state = "REMOVED"]
    /\ att' = [att EXCEPT ![a] = Quiet]
    /\ UNCHANGED <<granted, inv, ctr, side, route, job, calls, op, told, raced, sign, late,
                   revived, spent>>

-----------------------------------------------------------------------------

(* The master dies: lock, attempts and open waits go, the documents and    *)
(* the agents' work stay.                                                  *)
crash ==
    /\ spent.crashes < MaxCrashes
    /\ spent' = [spent EXCEPT !.crashes = @ + 1]
    /\ granted' = {}
    /\ job' = Idle
    /\ att' = [a \in Attempts |-> Quiet]
    /\ sign' = {}
    /\ late' = late \cup {c.gen : c \in calls}
    /\ calls' = {[c EXCEPT !.await = "no"] : c \in calls}
    /\ told' = IF job = Idle THEN told ELSE "failed"
    /\ UNCHANGED <<row, inv, ctr, side, route, op, raced, revived>>

jobStep ==
    \/ buildCapturingRuntimeResourceInventoryV3 \/ deployReplica \/ parseMcpV3ReplicaResponse
    \/ deployFailed \/ finalizeRuntimeResourceInventoryV3 \/ finalizeReplicas
    \/ quarantineRow \/ establish
    \/ reconfigureReplica \/ reconfigureReplied \/ rollbackReplica \/ persistConfig
    \/ upgradeReplica \/ upgradeReplied \/ persistUpgrade \/ revertReplica \/ upgradeFailed

agentStep == \E c \in calls : deployManagedApp(c) \/ deployEnds(c) \/ swapBegins(c) \/ swapEnds(c)

attemptStep(a) ==
    \/ revokeDispatch(a) \/ removeDeclaredResources(a) \/ verifyDeclaredResources(a)
    \/ signFinalAcknowledgement(a) \/ storeAcknowledgement(a) \/ retireRow(a)

hubStep ==
    \/ \E g \in Gens : \/ acceptInstall(g) \/ refuseInstall(g) \/ deployMcpV3(g)
                       \/ activateMcpV3(g) \/ recoverMcpV3InventoryAttestation(g)
    \/ \E e \in Configs : reconfigureMcpV3(e)
    \/ \E n \in Images : upgradeMcpV3(n)

Next ==
    \/ hubStep
    \/ jobStep
    \/ \E g \in Gens : signRuntimeInventoryAttestation(g)
    \/ agentStep
    \/ \E c \in calls : timeout(c)
    \/ \E a \in Attempts : attemptStep(a) \/ \E g \in Gens : openOperation(a, g)
    \/ crash

Spec == Init /\ [][Next]_vars

(* The event loop runs every pending continuation, an agent ends what it   *)
(* works on, and the Hub repeats an uninstall it has no completion for.    *)
Fairness ==
    /\ WF_vars(jobStep)
    /\ WF_vars(agentStep)
    /\ \A a \in Attempts : WF_vars(attemptStep(a))
    /\ \A g \in Gens : WF_vars(op[g].state # "none" /\ \E a \in Attempts : openOperation(a, g))

FairSpec == Spec /\ Fairness

-----------------------------------------------------------------------------
(* Properties                                                              *)

(* Nobody works on the slot.                                               *)
Still == job = Idle /\ calls = {} /\ \A a \in Attempts : att[a] = Quiet

(* An app the master calls RUNNING has a signed inventory, and everything  *)
(* that exists on the nodes for its generation is declared there, so that  *)
(* its uninstall can reach it: whatever was retried, given up or cut off   *)
(* by a crash on the way (deployMcpV3, activateMcpV3).  Of a generation    *)
(* that was removed and then got a second document by a redelivered grant, *)
(* only the resources of that document's own replicas.                     *)
RunningIsDeclared ==
    row.state = "RUNNING" =>
       /\ inv[row.gen].state = "READY"
       /\ inv[row.gen].signed = "yes"
       /\ World(row.gen) \cap Parts(row.plan) \subseteq inv[row.gen].res
       /\ row.gen \notin revived => World(row.gen) \subseteq inv[row.gen].res

(* After an answer of success every replica runs exactly what the row says *)
(* and a dispatch passes both the master's and the agent's check, unless a *)
(* request that the master gave up may still have its effect               *)
(* (activateMcpV3, reconfigureMcpV3, upgradeMcpV3).  The answer to a       *)
(* repeated command comes from the row alone and promises no replica.      *)
SuccessServes ==
    (Still /\ row.state = "RUNNING" /\ row.gen \notin late
       /\ told \in {"active", "applied", "upgraded"}) =>
          \A r \in row.plan : Dispatchable(r) /\ ctr[<<row.gen, r>>] = row.is

(* An uninstall that is COMPLETED left no declared resource on any node,   *)
(* unless an agent worked on the generation while it was uninstalled       *)
(* (runAttempt).                                                           *)
CompletedIsGone ==
    \A g \in Gens : op[g].state = "COMPLETED" /\ g \notin raced =>
       inv[g].res \cap World(g) = {}

(* ROLLED_BACK: every replica runs the image the row names, for            *)
(* upgradeMcpV3 says it is "true only when every touched replica is        *)
(* CONFIRMED back on the previous image".                                  *)
RolledBackRunsPrevious ==
    Still /\ row.state = "RUNNING" /\ told = "rolledback" =>
       \A r \in row.plan : ctr[<<row.gen, r>>] # Gone => ctr[<<row.gen, r>>].img = row.is.img

(* An uninstall goes one way: however an install, an activation, a         *)
(* reconfigure or an upgrade under the lock goes on, a REVOKING row is not *)
(* served again and can only become REMOVED, and a REMOVED one gives way   *)
(* to nothing but a newly inserted document (revokeDispatch against        *)
(* quarantineRow, establish and the writes that end a command).            *)
UninstallIsOneWay ==
    [][/\ row.state = "REVOKING" => row'.state \in {"REVOKING", "REMOVED"}
       /\ row.state = "REMOVED" => \/ row'.state \in {"REVOKING", "REMOVED"}
                                   \/ \E p \in Plans : row' = FreshRow(row'.gen, p)]_vars

(* What was attested is never rewritten: the Hub's commands name its hash  *)
(* and its count (addToSet and finalize only touch CAPTURING documents).   *)
AttestedIsFixed ==
    [][\A g \in Gens : inv[g].signed = "yes" => inv'[g] = inv[g]]_vars

(* An uninstall the Hub keeps asking for completes, whatever crashes and   *)
(* failures came in between (parkInterruptedAttempt).                      *)
UninstallCompletes ==
    \A g \in Gens : op[g].state # "none" ~> op[g].state = "COMPLETED"
=============================================================================
