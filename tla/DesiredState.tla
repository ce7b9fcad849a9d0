---------------------------- MODULE DesiredState ----------------------------
(***************************************************************************)
(* The fleet agent's record of which managed containers should run, and    *)
(* everything that races on it:                                            *)
(*   docker/desired-state.ts           the record file and its queue       *)
(*   docker/desired-state-recovery.ts  the restart of containers at boot   *)
(*   docker/container-manager.ts       create, start, stop, restart, remove*)
(*   services/lifecycle-service.ts     the operator requests that use them *)
(*   services/health-monitor.ts        probes and automatic restarts       *)
(*   server.ts                         order of the agent's start          *)
(* Every await is an interleaving point: a request handler, a recovery     *)
(* worker and the health monitor of one agent process run between each     *)
(* other's steps.  The store's own queue makes one store operation one     *)
(* step.  A container is a Docker id, so it is created and removed once.   *)
(***************************************************************************)
EXTENDS Naturals, FiniteSets

CONSTANTS
    Containers,   \* Docker ids
    Mcp,          \* those with an MCP broker socket (label privos.mcp.schema)
    AutoRestart,  \* those whose health policy says restart
    Handlers,     \* request handlers the agent may have in flight at once
    PoolSize,     \* RECOVERY_CONCURRENCY
    MaxFails,     \* health policy maxFails
    MaxBoots,     \* bound: host boots
    MaxCrashes,   \* bound: deaths of the agent process
    DockerFaults, \* whether a Docker or broker call may fail for its own reasons
    StoreFaults   \* whether reading or writing the file may fail

ASSUME ConstantsAssumption ==
    /\ Mcp \subseteq Containers
    /\ AutoRestart \subseteq Containers
    /\ PoolSize \in Nat \ {0}
    /\ MaxFails \in Nat \ {0}
    /\ MaxBoots \in Nat \ {0}
    /\ MaxCrashes \in Nat
    /\ DockerFaults \in BOOLEAN
    /\ StoreFaults \in BOOLEAN

VARIABLES
    docker,    \* container -> its state in the Docker daemon
    rec,       \* file: container -> desired state, "none" when it has no entry
    fileBoot,  \* file: boot id of the last stamp, 0 for the empty string
    boot,      \* the host's current boot id
    agent,     \* "up" | "down"
    bound,     \* containers whose broker socket this process listens on
    rpc,       \* where recoverDesiredState is
    seen,      \* its list `running`, taken before the pool starts
    queue,     \* candidates no worker has taken
    wk,        \* container -> where recoverOne is on it, "idle" if nowhere
    op,        \* handler -> the request it serves
    mon,       \* container -> where checkOne is on it
    fails,     \* container -> failCount
    crashes,   \* number of agent deaths so far
    owed,      \* history: recorded running when the host went down, not yet handled
    acked,     \* history: what the last finished request left the container as
    excused    \* history: runs against its record for a reason listed below

storeVars   == <<rec, fileBoot>>
hostVars    == <<boot, agent, crashes, bound>>
recoverVars == <<rpc, seen, queue, wk>>
monVars     == <<mon, fails>>
opVars      == <<op, acked>>

vars == <<docker, storeVars, hostVars, recoverVars, monVars, opVars,
          owed, excused>>

-----------------------------------------------------------------------------
(* State spaces.                                                           *)

DockerState == {"none", "created", "running", "exited", "oom", "gone"}
Desired     == {"none", "running", "stopped"}
Kind        == {"deploy", "start", "stop", "restart", "delete"}
OpPc        == {"create", "markCreated", "bind", "dstart", "drestart",
                "markRunning", "markStopped", "dstop", "dremove", "unmark",
                "unbind"}
Idle        == [kind |-> "none"]
Request     == {Idle} \cup [kind : Kind, c : Containers, pc : OpPc]
RecoverPc   == {"off", "read", "list", "pool", "stamp", "done", "aborted"}
WorkerPc    == {"idle", "get", "inspect", "drop", "start", "check", "stop"}
MonPc       == {"idle", "probe", "restart"}

TypeOK ==
    /\ docker \in [Containers -> DockerState]
    /\ rec \in [Containers -> Desired]
    /\ fileBoot \in 0..MaxBoots
    /\ boot \in 1..MaxBoots
    /\ agent \in {"up", "down"}
    /\ bound \subseteq Containers
    /\ rpc \in RecoverPc
    /\ seen \subseteq Containers
    /\ queue \subseteq Containers
    /\ wk \in [Containers -> WorkerPc]
    /\ op \in [Handlers -> Request]
    /\ mon \in [Containers -> MonPc]
    /\ fails \in [Containers -> 0..MaxFails]
    /\ crashes \in 0..MaxCrashes
    /\ owed \subseteq Containers
    /\ acked \in [Containers -> {"none", "stopped", "running"}]
    /\ excused \subseteq Containers

Exists(c)  == docker[c] \notin {"none", "gone"}
Running    == {c \in Containers : docker[c] = "running"}
Serves(h, pc) == op[h].kind # "none" /\ op[h].pc = pc
Busy(c)    == \E h \in Handlers : op[h].kind # "none" /\ op[h].c = c

-----------------------------------------------------------------------------
(* Docker daemon (external): what its calls do to one container.  A stop   *)
(* leaves an exit reason alone when the container is not running (304).    *)

DockerStart(c) == docker' = [docker EXCEPT ![c] = "running"]

DockerStop(c) ==
    docker' = [docker EXCEPT ![c] = IF @ = "running" THEN "exited" ELSE @]

(* The store.  `mark` and `remove` are one queued read-modify-write; a     *)
(* failure is logged and swallowed, so the caller goes on in either case.  *)

mark(c, desired) ==
    \/ rec' = [rec EXCEPT ![c] = desired]
    \/ StoreFaults /\ UNCHANGED rec

\* Mutant: stamps the boot without seeding.
seedAndStampNoSeed == fileBoot' = boot /\ UNCHANGED rec

seedAndStamp ==
    \/ /\ fileBoot' = boot
       /\ rec' = [c \in Containers |->
                    IF c \in seen /\ rec[c] = "none" THEN "running" ELSE rec[c]]
    \/ StoreFaults /\ UNCHANGED storeVars

-----------------------------------------------------------------------------
(* Start and death of the agent, reboot of the host.                       *)

\* What the process keeps in memory is gone: requests, recovery, monitor,
\* broker sockets.
ProcessLost ==
    /\ agent' = "down"
    /\ bound' = {}
    /\ rpc' = "off"
    /\ seen' = {}
    /\ queue' = {}
    /\ wk' = [c \in Containers |-> "idle"]
    /\ op' = [h \in Handlers |-> Idle]
    /\ mon' = [c \in Containers |-> "idle"]
    /\ fails' = [c \in Containers |-> 0]

AgentCrash ==
    /\ agent = "up"
    /\ crashes < MaxCrashes
    /\ crashes' = crashes + 1
    /\ ProcessLost
    /\ excused' = excused \cup {c \in Running : rec[c] = "stopped"}
    /\ UNCHANGED <<docker, storeVars, boot, owed, acked>>

\* RestartPolicy is `no`: Docker brings nothing back by itself.
HostReboot ==
    /\ boot < MaxBoots
    /\ boot' = boot + 1
    /\ ProcessLost
    /\ docker' = [c \in Containers |->
                    IF docker[c] = "running" THEN "exited" ELSE docker[c]]
    /\ owed' = IF fileBoot = 0 THEN {}
               ELSE {c \in Containers : rec[c] = "running"}
    /\ excused' = {}
    /\ UNCHANGED <<storeVars, crashes, acked>>

\* main(): brokers are rebound one by one, each in its own try/catch, then the
\* agent listens, then recovery runs in the background.
AgentStart ==
    /\ agent = "down"
    /\ agent' = "up"
    /\ bound' \in SUBSET {c \in Mcp : Exists(c)}
    /\ rpc' = "read"
    /\ UNCHANGED <<docker, storeVars, boot, crashes, seen, queue, wk,
                   monVars, opVars, owed, excused>>

-----------------------------------------------------------------------------
(* recoverDesiredState                                                     *)

\* The snapshot `recorded` fixes both the new-boot decision and the candidates.
\* A failed read yields null: no boot id, hence no candidates.
RecoverRead ==
    /\ rpc = "read"
    /\ rpc' = "list"
    /\ \/ queue' = IF fileBoot # 0 /\ fileBoot # boot
                   THEN {c \in Containers : rec[c] = "running"} ELSE {}
       \/ StoreFaults /\ queue' = {}
    /\ UNCHANGED <<docker, storeVars, hostVars, seen, wk, monVars, opVars,
                   owed, excused>>

RecoverList ==
    /\ rpc = "list"
    /\ \/ rpc' = "pool" /\ seen' = Running /\ UNCHANGED queue
       \/ /\ DockerFaults                             \* listManaged threw
          /\ rpc' = "aborted" /\ queue' = {} /\ UNCHANGED seen
    /\ UNCHANGED <<docker, storeVars, hostVars, wk, monVars, opVars,
                   owed, excused>>

Workers == {c \in Containers : wk[c] # "idle"}

\* Mutant: the pool is bounded one short, so its last slot is never used.
RecoverTakeOneShort(c) ==
    /\ rpc = "pool"
    /\ c \in queue
    /\ Cardinality(Workers) + 1 < PoolSize
    /\ queue' = queue \ {c}
    /\ wk' = [wk EXCEPT ![c] = "get"]
    /\ UNCHANGED <<docker, storeVars, hostVars, rpc, seen, monVars, opVars,
                   owed, excused>>

RecoverTake(c) ==
    /\ rpc = "pool"
    /\ c \in queue
    /\ Cardinality(Workers) < PoolSize
    /\ queue' = queue \ {c}
    /\ wk' = [wk EXCEPT ![c] = "get"]
    /\ UNCHANGED <<docker, storeVars, hostVars, rpc, seen, monVars, opVars,
                   owed, excused>>

\* Mutant: the pool is not awaited, only its queue is looked at.
RecoverPoolDoneEarly ==
    /\ rpc = "pool"
    /\ queue = {}
    /\ rpc' = "stamp"
    /\ UNCHANGED <<docker, storeVars, hostVars, seen, queue, wk, monVars,
                   opVars, owed, excused>>

RecoverPoolDone ==
    /\ rpc = "pool"
    /\ queue = {}
    /\ Workers = {}
    /\ rpc' = "stamp"
    /\ UNCHANGED <<docker, storeVars, hostVars, seen, queue, wk, monVars,
                   opVars, owed, excused>>

RecoverStamp ==
    /\ rpc = "stamp"
    /\ rpc' = "done"
    /\ seedAndStamp
    /\ UNCHANGED <<docker, hostVars, seen, queue, wk, monVars, opVars,
                   owed, excused>>

(* recoverOne, one step per await.  Outcome(c) ends it: the container was  *)
(* handled, whatever the result; a failure is logged and not retried.      *)

Goto(c, pc)  == wk' = [wk EXCEPT ![c] = pc] /\ UNCHANGED owed
Outcome(c)   == wk' = [wk EXCEPT ![c] = "idle"] /\ owed' = owed \ {c}

RecoverGet(c) ==
    /\ wk[c] = "get"
    /\ \/ IF rec[c] = "running" THEN Goto(c, "inspect") ELSE Outcome(c)
       \/ StoreFaults /\ Outcome(c)
    /\ UNCHANGED <<docker, storeVars, hostVars, rpc, seen, queue, monVars,
                   opVars, excused>>

RecoverInspect(c) ==
    /\ wk[c] = "inspect"
    /\ \/ docker[c] = "gone" /\ Goto(c, "drop")
       \/ docker[c] \in {"running", "oom"} /\ Outcome(c)
       \/ c \in Mcp \ bound /\ Exists(c) /\ Outcome(c)
       \/ docker[c] \in {"created", "exited"} /\ c \notin Mcp \ bound /\ Goto(c, "start")
       \/ DockerFaults /\ Outcome(c)  \* inspect failed, wrong network, repairNetwork failed
    /\ UNCHANGED <<docker, storeVars, hostVars, rpc, seen, queue, monVars,
                   opVars, excused>>

RecoverDrop(c) ==
    /\ wk[c] = "drop"
    /\ mark(c, "none")
    /\ Outcome(c)
    /\ UNCHANGED <<docker, fileBoot, hostVars, rpc, seen, queue, monVars,
                   opVars, excused>>

\* startContainerWithoutRecord: starting a running container is a 304.
RecoverStart(c) ==
    /\ wk[c] = "start"
    /\ \/ Exists(c) /\ DockerStart(c) /\ Goto(c, "check")
       \/ /\ DockerFaults \/ ~Exists(c)              \* refused, or removed meanwhile
          /\ UNCHANGED docker /\ Outcome(c)
    /\ UNCHANGED <<storeVars, hostVars, rpc, seen, queue, monVars, opVars, excused>>

\* Mutant: the record is not read again after the start.
RecoverCheckSkipped(c) ==
    /\ wk[c] = "check"
    /\ Outcome(c)
    /\ UNCHANGED <<docker, storeVars, hostVars, rpc, seen, queue, monVars,
                   opVars, excused>>

RecoverCheck(c) ==
    /\ wk[c] = "check"
    /\ \/ IF rec[c] = "stopped" THEN Goto(c, "stop") /\ UNCHANGED excused
                                ELSE Outcome(c) /\ UNCHANGED excused
       \/ StoreFaults /\ Outcome(c) /\ excused' = excused \cup {c}
    /\ UNCHANGED <<docker, storeVars, hostVars, rpc, seen, queue, monVars,
                   opVars>>

\* stopContainerWithoutRecord; an error other than 304 and 404 is thrown, and
\* the container is left as it is.
RecoverStop(c) ==
    /\ wk[c] = "stop"
    /\ Outcome(c)
    /\ \/ DockerStop(c) /\ excused' = excused \ {c}
       \/ DockerFaults /\ UNCHANGED docker /\ excused' = excused \cup ({c} \cap Running)
    /\ UNCHANGED <<storeVars, hostVars, rpc, seen, queue, monVars, opVars>>

-----------------------------------------------------------------------------
(* Operator requests.  Each is a chain of awaited calls; Then(h, pc) moves *)
(* to the next call, Finish(h, s) answers the request.  A request that     *)
(* touched a container settles what recovery owed it.                      *)

FirstCall == [deploy |-> "create", start |-> "dstart", restart |-> "drestart",
              stop |-> "markStopped", delete |-> "markStopped"]

Then(h, pc) ==
    /\ op' = [op EXCEPT ![h] = [kind |-> op[h].kind, c |-> op[h].c, pc |-> pc]]
    /\ UNCHANGED acked

Finish(h, s) ==
    /\ op' = [op EXCEPT ![h] = Idle]
    /\ acked' = [acked EXCEPT ![op[h].c] = s]

\* getContainerOr404 for all but deploy.
Begin(h, k, c) ==
    /\ agent = "up"
    /\ op[h].kind = "none"
    /\ IF k = "deploy" THEN docker[c] = "none" /\ ~Busy(c) ELSE Exists(c)
    /\ op' = [op EXCEPT ![h] = [kind |-> k, c |-> c, pc |-> FirstCall[k]]]
    /\ acked' = [acked EXCEPT ![c] = "none"]
    /\ UNCHANGED <<docker, storeVars, hostVars, recoverVars, monVars, owed, excused>>

\* createAppContainer: Docker creates, then the record says running.
OpCreate(h) ==
    /\ Serves(h, "create")
    /\ \/ docker' = [docker EXCEPT ![op[h].c] = "created"] /\ Then(h, "markCreated")
       \/ DockerFaults /\ UNCHANGED docker /\ Finish(h, "none")
    /\ UNCHANGED <<storeVars, hostVars, recoverVars, monVars, owed, excused>>

OpMarkCreated(h) ==
    /\ Serves(h, "markCreated")
    /\ mark(op[h].c, "running")
    /\ Then(h, IF op[h].c \in Mcp THEN "bind" ELSE "dstart")
    /\ UNCHANGED <<docker, fileBoot, hostVars, recoverVars, monVars, owed, excused>>

\* The broker listens before the container starts; a failure takes deployManagedApp
\* to its cleanup: stop, remove, forget.
OpBind(h) ==
    /\ Serves(h, "bind")
    /\ \/ bound' = bound \cup {op[h].c} /\ Then(h, "dstart")
       \/ DockerFaults /\ UNCHANGED bound /\ Then(h, "markStopped")
    /\ UNCHANGED <<docker, storeVars, boot, agent, crashes, recoverVars, monVars,
                   owed, excused>>

Refused(h) ==
    IF op[h].kind = "deploy" THEN Then(h, "markStopped") ELSE Finish(h, "none")

OpStart(h) ==
    /\ Serves(h, "dstart")
    /\ \/ Exists(op[h].c) /\ DockerStart(op[h].c) /\ Then(h, "markRunning")
       \/ (DockerFaults \/ ~Exists(op[h].c)) /\ UNCHANGED docker /\ Refused(h)
    /\ owed' = owed \ {op[h].c}
    /\ UNCHANGED <<storeVars, hostVars, recoverVars, monVars, excused>>

\* Docker's restart also starts a stopped container.
OpRestart(h) ==
    /\ Serves(h, "drestart")
    /\ \/ Exists(op[h].c) /\ DockerStart(op[h].c) /\ Then(h, "markRunning")
       \/ (DockerFaults \/ ~Exists(op[h].c)) /\ UNCHANGED docker /\ Refused(h)
    /\ owed' = owed \ {op[h].c}
    /\ UNCHANGED <<storeVars, hostVars, recoverVars, monVars, excused>>

\* A deploy that cannot read its container back undoes everything.
OpMarkRunning(h) ==
    /\ Serves(h, "markRunning")
    /\ mark(op[h].c, "running")
    /\ \/ Finish(h, "running")
       \/ DockerFaults /\ op[h].kind = "deploy" /\ Then(h, "markStopped")
    /\ excused' = IF rec'[op[h].c] = "running" THEN excused \ {op[h].c}
                  ELSE excused \cup {op[h].c}
    /\ UNCHANGED <<docker, fileBoot, hostVars, recoverVars, monVars, owed>>

\* The record is written before Docker is asked.
OpMarkStopped(h) ==
    /\ Serves(h, "markStopped")
    /\ mark(op[h].c, "stopped")
    /\ Then(h, "dstop")
    /\ owed' = owed \ {op[h].c}
    /\ UNCHANGED <<docker, fileBoot, hostVars, recoverVars, monVars, excused>>

\* Only a plain stop reports the error; a cleanup and a delete go on.
OpStop(h) ==
    /\ Serves(h, "dstop")
    /\ \/ /\ DockerStop(op[h].c)
          /\ excused' = excused \ {op[h].c}
          /\ IF op[h].kind = "stop" THEN Finish(h, "stopped") ELSE Then(h, "dremove")
       \/ /\ DockerFaults
          /\ UNCHANGED docker
          /\ excused' = excused \cup ({op[h].c} \cap Running)
          /\ IF op[h].kind = "stop" THEN Finish(h, "none") ELSE Then(h, "dremove")
    /\ UNCHANGED <<storeVars, hostVars, recoverVars, monVars, owed>>

\* removeContainer: the record goes only when Docker removed the container.
OpRemove(h) ==
    /\ Serves(h, "dremove")
    /\ \/ docker' = [docker EXCEPT ![op[h].c] = "gone"] /\ Then(h, "unmark")
       \/ DockerFaults /\ UNCHANGED docker /\ Then(h, "unbind")
    /\ UNCHANGED <<storeVars, hostVars, recoverVars, monVars, owed, excused>>

OpUnmark(h) ==
    /\ Serves(h, "unmark")
    /\ mark(op[h].c, "none")
    /\ Then(h, "unbind")
    /\ UNCHANGED <<docker, fileBoot, hostVars, recoverVars, monVars, owed, excused>>

OpUnbind(h) ==
    /\ Serves(h, "unbind")
    /\ bound' = bound \ {op[h].c}
    /\ Finish(h, "none")
    /\ UNCHANGED <<docker, storeVars, boot, agent, crashes, recoverVars,
                   monVars, owed, excused>>

-----------------------------------------------------------------------------
(* Health monitor.  `busy` keeps ticks apart: the next one begins when     *)
(* every checkOne of the last one has settled.                             *)

\* checkAll: list, prune the counters of removed containers, probe the rest.
MonTick ==
    /\ agent = "up"
    /\ \A c \in Containers : mon[c] = "idle"
    /\ mon' = [c \in Containers |-> IF docker[c] = "running" THEN "probe" ELSE "idle"]
    /\ fails' = [c \in Containers |-> IF Exists(c) THEN fails[c] ELSE 0]
    /\ UNCHANGED <<docker, storeVars, hostVars, recoverVars, opVars, owed, excused>>

\* computeHealthTransition: a container that cannot answer is unhealthy.
MonProbe(c, healthy) ==
    /\ mon[c] = "probe"
    /\ healthy => docker[c] = "running"
    /\ LET n == IF fails[c] < MaxFails THEN fails[c] + 1 ELSE MaxFails
           restart == ~healthy /\ n >= MaxFails /\ c \in AutoRestart
       IN  /\ fails' = [fails EXCEPT ![c] = IF healthy \/ restart THEN 0 ELSE n]
           /\ mon' = [mon EXCEPT ![c] = IF restart THEN "restart" ELSE "idle"]
    /\ UNCHANGED <<docker, storeVars, hostVars, recoverVars, opVars, owed, excused>>

\* The restart that was decided before the await; it writes no record.
MonRestart(c) ==
    /\ mon[c] = "restart"
    /\ mon' = [mon EXCEPT ![c] = "idle"]
    /\ \/ /\ Exists(c)
          /\ DockerStart(c)
          /\ excused' = IF rec[c] = "running" THEN excused ELSE excused \cup {c}
          /\ UNCHANGED fails
       \/ /\ DockerFaults \/ ~Exists(c)
          /\ fails' = [fails EXCEPT ![c] = MaxFails]   \* revertFailedRestart
          /\ UNCHANGED <<docker, excused>>
    /\ UNCHANGED <<storeVars, hostVars, recoverVars, opVars, owed>>

\* A container ends by itself, killed for memory or not.
ContainerDies(c) ==
    /\ docker[c] = "running"
    /\ docker' \in {[docker EXCEPT ![c] = s] : s \in {"exited", "oom"}}
    /\ excused' = excused \ {c}
    /\ UNCHANGED <<storeVars, hostVars, recoverVars, monVars, opVars, owed>>

-----------------------------------------------------------------------------

Init ==
    /\ docker = [c \in Containers |-> "none"]
    /\ rec = [c \in Containers |-> "none"]
    /\ fileBoot = 0
    /\ boot = 1
    /\ agent = "down"
    /\ bound = {}
    /\ rpc = "off"
    /\ seen = {}
    /\ queue = {}
    /\ wk = [c \in Containers |-> "idle"]
    /\ op = [h \in Handlers |-> Idle]
    /\ mon = [c \in Containers |-> "idle"]
    /\ fails = [c \in Containers |-> 0]
    /\ crashes = 0
    /\ owed = {}
    /\ acked = [c \in Containers |-> "none"]
    /\ excused = {}

RecoverMain == RecoverRead \/ RecoverList \/ RecoverPoolDone \/ RecoverStamp

RecoverOne(c) ==
    \/ RecoverTake(c) \/ RecoverGet(c) \/ RecoverInspect(c) \/ RecoverDrop(c)
    \/ RecoverStart(c) \/ RecoverCheck(c) \/ RecoverStop(c)

OpStep(h) ==
    \/ OpCreate(h) \/ OpMarkCreated(h) \/ OpBind(h) \/ OpStart(h)
    \/ OpRestart(h) \/ OpMarkRunning(h) \/ OpMarkStopped(h) \/ OpStop(h)
    \/ OpRemove(h) \/ OpUnmark(h) \/ OpUnbind(h)

Monitor ==
    \/ MonTick
    \/ \E c \in Containers :
         MonRestart(c) \/ \E healthy \in BOOLEAN : MonProbe(c, healthy)

Next ==
    \/ AgentCrash \/ HostReboot \/ AgentStart
    \/ RecoverMain
    \/ \E c \in Containers : RecoverOne(c) \/ ContainerDies(c)
    \/ \E h \in Handlers : OpStep(h)
    \/ \E h \in Handlers, k \in Kind, c \in Containers : Begin(h, k, c)
    \/ Monitor

Spec == Init /\ [][Next]_vars

(* The service manager restarts the agent, and the process's own promises  *)
(* are eventually scheduled.                                               *)
FairSpec ==
    /\ Spec
    /\ WF_vars(AgentStart)
    /\ WF_vars(RecoverMain)
    /\ \A c \in Containers : WF_vars(RecoverOne(c))
    /\ \A h \in Handlers : WF_vars(OpStep(h))
-----------------------------------------------------------------------------
(* Properties.                                                             *)

\* A stop or a start of c that the living process still has to carry out.
Pending(c) ==
    \/ wk[c] \in {"check", "stop"}
    \/ \E h \in Handlers : op[h].kind # "none" /\ op[h].c = c
                            /\ op[h].pc \in {"dstop", "markRunning"}

\* container-manager.ts stopContainer records before it stops and recoverOne
\* re-reads after it starts: between them no order of requests, recovery and
\* crashes leaves a container running against a `stopped` record, unless some
\* call is still in flight, Docker or the file failed, the process died in the
\* middle, or the health monitor restarted it (the reasons kept in excused).
StopHonoured ==
    \A c \in Running : rec[c] = "stopped" => Pending(c) \/ c \in excused

\* seedAndStamp and the marks of create, start and restart: once recovery has
\* finished, a running container without an entry is one whose request is still
\* on its way to write it (or one the health monitor restarted before it had an
\* entry), even when the process died before it could.
RunningIsRecorded ==
    rpc = "done" =>
        \A c \in Running : rec[c] # "none" \/ Busy(c) \/ c \in excused

\* "Stamped last: a crash half-way leaves the old boot id": once the file carries
\* the current boot, every container that was recorded running when the host went
\* down has been handled, whatever crashes came between.
StampedMeansHandled == fileBoot = boot => owed = {}

\* A reboot must not bring back a container someone stopped on purpose: when the
\* requests for a container come one after the other and recovery is over, one whose
\* last request was an acknowledged stop is not running, unless Docker or the file
\* failed, the process died between recovery's start and its second look at the
\* record, or the health monitor restarted it (the reasons kept in excused).
AckedStopHolds ==
    rpc \in {"done", "aborted"} =>
        \A c \in Running : acked[c] = "stopped" => c \in excused

\* After a reboot every container recorded running is handled by recovery or by a
\* request, however often the agent dies in between, unless listing the
\* containers failed (recovery then waits for the next start of the agent).
RebootHandled ==
    \A c \in Containers : c \in owed ~> c \notin owed \/ rpc = "aborted"

=============================================================================
