# Formal models of privos-cluster

privos-cluster runs containerised applications ("managed apps", among them MCP
servers) on hosts with Docker. One code base ships three programs:

* **the fleet agent** (`src/src/server.ts`): an HTTP service on each host that
  deploys, starts, stops, redeploys and deletes managed containers, keeps them
  healthy, terminates and proxies their traffic, and hands each MCP replica an
  identity socket;
* **the tunnel agent with the local runtime driver** (`src/src/tunnel/`,
  `src/src/local-runtime/`): the same host software behind a WebSocket to the Hub,
  paired with a one-time token, which runs one container per *runtime id* for the
  Hub's control plane;
* **the private master** (`src/src/master/`): the control plane over MongoDB that
  places apps on agents, enforces quotas, publishes host tables and runs the
  uninstall saga.

This directory holds TLA+ modules that model the parts in which orders of events,
failures and restarts decide correctness, TLC configurations that check them on
small instances, and TLAPS proofs for every instance. `PROJECT.json` is the index:
components, runs, mutants, the map from definitions to source lines, findings,
hazards and theorems.

## Inventory

State: what survives a step. "Hard": what a test would hardly reach.

| Component | State it keeps | Operations | Hard behaviour | What makes it correct |
|---|---|---|---|---|
| Desired-state record (`docker/desired-state.ts`) | JSON file: boot id, container -> running/stopped | mark, remove, get, seedAndStamp, each queued | write failures are swallowed | the record says what the operator last asked for |
| Boot recovery (`docker/desired-state-recovery.ts`) | none (local list, worker pool) | recoverDesiredState, recoverOne | races requests and the monitor; crash in the middle | a stop is never undone; everything recorded running is handled; the stamp comes last |
| Container manager, lifecycle service (`docker/container-manager.ts`, `services/lifecycle-service.ts`) | Docker's containers | deploy, start, stop, restart, delete, redeploy, rolling redeploy, reconfigure | every call is a chain of awaits without a lock; compensation on failure | record and container agree; a failed swap leaves the old container |
| Health monitor (`services/health-monitor.ts`) | fail counters, last results | tick, probe, restart | a probe takes seconds and then acts on what it listed before | it never undoes an operator's stop |
| Identity broker (`services/mcp-broker.ts`) | directories on tmpfs, sockets, in-memory entries | prepare, register, rebind, close, cleanup | memory is lost with the process, the directories with the host | a replica's socket is bound before it starts |
| Local runtime driver (`local-runtime/runtime-service.ts`) | none of its own; ledger, Docker, broker | ENSURE_READY, STATUS, ACTIVATE, REMOVE, artifact erasure, start-up rebind and sweep | any await may fail, the process may die anywhere, requests are retried and cross each other | the ledger accounts for every container and directory; activation is irrevocable except by REMOVE |
| Runtime ledger (`local-runtime/ledger.ts`) | JSON file: rows, generation slot; keyed mutex | claim, markReady, claimActivation, activate, delete | two calls on one id | one call at a time per id; rows only move forward |
| Artifact store (`local-runtime/artifact-store.ts`) | index file, Docker images | stage, remove | crash between `docker load` and the index | ABSENT means the bytes are gone |
| Pairing (`tunnel/pairing.ts`, `state-dir.ts`) | credential, cluster id and pair token, a file each | dial, redeem, bootstrap, drop a dead credential | death between two writes; a token dropped while a credential is stored | a live credential is kept, a dead one dropped, a token redeemed |
| Tunnel (`tunnel/tunnel-client.ts`) | socket, backoff, pending chunk, stage sessions, staging directory | connect, reconnect, dispatch, forward, chunked staging | sockets lost in the middle of a transfer or of a chunk; replies after a reconnect | success means the announced bytes are stored; one answer per id; no file is left |
| Container swap (`services/lifecycle-service.ts`, `services/mcp-broker.ts`, `services/redeploy-secret-guard.ts`) | containers with their labels, the socket, two durable copies of its binding | redeploy (rolling or swap), upgrade with its way back, reconfigure, delete, rebind and sweep at start-up | Docker may refuse any call; the agent or host dies in between; the way back meets what the failed attempt left | one container, one writer of the volume; an answer means what it says; the replica attests |
| Proxy (`proxy/`, `handlers/host-table.ts`) | runtime and ingress tables with a revision, replay cache | replace a table, look a host up, sign, verify, forward | late tables; nodes that lost theirs | a request ends where the rows say |
| Master: MCP v3 generations (`master/deployment-service.ts`, `mcp-security.ts`, `runtime-resource-inventory.ts`) | the app's row, the inventory of declared resources, job journal | install, activate, recover, reconfigure, upgrade, each with its rollback | agents that answer after the master gave up; redelivered commands; uninstall in the middle | RUNNING is attested and declared; a success serves |
| Master: uninstall v3 (`mcp-uninstall-service-v3.ts`) | operation, evidence, acknowledgement | begin, remove, verify, acknowledge, park, repeat | a crash in any phase; a job under the lock at the same time | COMPLETED means gone; a repeated uninstall completes |
| Master: raw and v2 apps (`deployment-service.ts`, `app-lifecycle-service.ts`, scheduler, quota, usage) | app documents, events, lock per workspace | deploy, activate, change tier; start, stop, redeploy, power, revoke, remove, unquarantine | half of the operations hold the lock, half do not; a deploy is several containers | documents, containers, quota and bill agree |
| Master: reconcile, quarantine reaper | - | adopt or mark after a restart; destroy after the grace window | acts on listings that are already old | an app in its grace window, or taken back, is not destroyed |
| Master: host names (`app-host-registry.ts`, `cf-custom-hostname-worker.ts`) | labels, rows, Cloudflare objects | reserve, put, suspend and resume a workspace, remove; create and delete objects; release after 30 days | a PUT, a sweep, the worker and retention write the same rows without a common lock | one owner per label; an operator's suspension stays; rows and objects agree |
| Master: host-table publisher (`host-table-publisher.ts`) | revision, dirty flag | snapshot, push, retry, periodic resync | several masters, lost and late pushes | every node converges to the rows |
| Docker event state, images, networks, files, terminal, settings, usage | caches or none | reads, thin calls | - | - |
| Protocol v3, OCI archives, canonical JSON, schemas | none | parse, validate, hash | - | refuse everything that is not canonical |

Interactions. In the agent, requests, recovery and the monitor share Docker and the
record file and nothing else: there is no per-container lock. In the local runtime
driver, calls share the ledger (synchronous methods), Docker and the broker, and are
serialised per runtime id by the ledger's keyed mutex; artifact staging and the
start-up sweep run outside it. The master calls agents over HTTP with a time limit of
30 seconds, after which the agent goes on. It has a lock per workspace (none per node
or per app), which installing, activating, upgrading and reconfiguring hold and which
uninstalling, lifecycle calls, the reaper and the sweeps do not. The registry's
methods, the lifecycle service and the timers tell the publisher that something
changed; the publisher reads the rows and the apps, and pushes whole tables.

## Modules

| Module | What it is |
|---|---|
| `DesiredState` | record, recovery, requests, monitor, agent process, host |
| `MCDesiredState` | symmetry sets for TLC |
| `DesiredStateProofs` | TLAPS: `TypeCorrect`, `StopIsHonoured`, `StampComesLast`, `RunningsAreRecorded`, `AckedStopsHold` |
| `LocalRuntime` | driver, ledger, mutex, broker directories, artifact store, start-up |
| `RuntimeContract` | abstract specification: what the driver promises the Hub |
| `MCLocalRuntime` | small instances for TLC |
| `LocalRuntimeProofs` | TLAPS: type, every safety property of the runs, and the refinement of `RuntimeContract` |
| `Pairing`, `MCPairing` | the state files, redemption and loss of the credential; its instances |
| `PairingProofs` | TLAPS: `TypeCorrect`, `LiveCredentialIsKept` |
| `Tunnel`, `MCTunnel` | connections, requests, chunked transfers; its instance |
| `TunnelProofs` | TLAPS: `TypeCorrect`, `NoFileLeaks`, `ChunkHalvesMeet`, `AnswersAreTrue` |
| `Generation`, `MCGeneration` | MCP v3 apps on the master: generations, inventory, uninstall, agents that answer late |
| `GenerationProofs` | TLAPS: `TypeCorrect`, `RunningDeclared`, `AttestedFixed`, `CompletedGone`, `UninstallOneWay`, `SuccessIsServed` |
| `Fleet`, `MCFleet` | raw and MCP v2 apps of a workspace on the master: placement, quota, bill, lifecycle, reaper, boot reconciliation |
| `FleetProofs` | TLAPS: `TypeCorrect`, `InstalledIsBilled`, `StopsHold`, `ReapsAreDue`, `ContainersAreAccounted`, `QuotaIsHeld` |
| `ContainerSwap`, `MCContainerSwap` | the agent's side of a redeploy, upgrade, reconfigure or delete, with the identity broker |
| `SwapProofs` | TLAPS: `TypeCorrect`, `AnswersHold`, `RevertsAreNotBlocked`, `OneContainerLeft`, `RollingAlwaysServes`, `AnsweredContainersAttest` |
| `HostRegistry` | labels, rows, workspace sweeps, Cloudflare worker and retention |
| `HostTable`, `MCHostTable` | extends `HostRegistry` with publishers, pushes, node tables and the two listeners |
| `HostProofs` | TLAPS: `TypeCorrect`, `LabelsOwned`, `SuspensionHolds`, `RowsMatchObjects`, `RequestsReach`, `RuntimeComesFirst` |

`Generation` and `Fleet` model the same deployment service for the two families of
apps, which share its lock but no document. What `Generation` takes of an agent's swap
as one request with a beginning and an end is what `ContainerSwap` takes apart.

### DesiredState

`rec` and `fileBoot` are the file; `docker` is the daemon; `bound` the broker sockets
of this process; `rpc`, `seen`, `queue`, `wk` are the program counter, the list, the
shared candidate array and the workers of `recoverDesiredState`; `op` is the program
counter of each request handler; `mon`, `fails` the monitor. One action is what
happens between two awaits. The store's own promise queue makes each of its
operations one step. `mark` and `seedAndStamp` may leave the file as it was
(`StoreFaults`), because the code logs and swallows the error; a Docker call may fail
(`DockerFaults`), each time with the branch the code takes: a plain stop reports it,
a delete and the cleanup of a failed deploy go on.

`AgentCrash` forgets what the process kept in memory; `HostReboot` also stops the
containers (restart policy `no`). Three history variables are read by no guard:
`owed` (recorded running when the host went down and not handled since), `acked`
(what the last answered request left) and `excused` (the reasons, all named in the
actions, for which a container may run against its record).

### LocalRuntime and RuntimeContract

`row` and `slot` are the ledger, `container` the container of each runtime id with
the labels `assertContainerMatchesPolicy` compares (phase, request, activation,
replica, cluster), `dirs` and `sockets` the broker, `images` and `index` the artifact
store, `call` and `lock` the operations in flight and the keyed mutex. `k` numbers the
rows claimed for an id and stands for the replica UUIDs minted with each. Ledger
methods are synchronous, so the write and the decision it rests on are one step;
every await is an interleaving point, a failure point (`Fail`, `SocketLost`) and a
point where the process dies (`Crash`, `Reboot`). `Rebind` and `Sweep` are the start-up:
any subset of the rebinds may fail. `Pair` changes the cluster id between calls.

`RuntimeContract` has no containers, locks or files: a runtime is claimed, READY,
takes one activation intent, becomes ACTIVE; a candidate may be withdrawn, an
activated runtime goes only while a REMOVE for it is served. The mapping is
`Promise` (the row without its counter) and `Removing` (REMOVE calls that hold the
mutex).

### Pairing

`credential`, `clusterId` and `pairToken` are the three files of the state directory;
an absent, empty or torn file is `None`. `connect` reads them afresh at every dial, as
`buildAuthHeaders` does; the close handler is `Close`; `handlePaired` is one step of a
process that lives through it and `CrashInPaired(n, torn)` a death after `n` of its
three file operations. `bootstrap` is the bootstrap request in flight: its answer
writes the token file whatever was written meanwhile. The Hub (`minted`, `burnt`,
`honoured`), the operator and the network are external: a token is redeemed once, a
credential is accepted under its cluster's id until revoked or replaced, and a
connection may break at any time with the frame under way on it. A connect token is
abstracted to the pair it signs: a credential and an id.

### Tunnel

`pending`, `sessions`, `announced`, `running` are `pendingChunk`, the keys of
`stageSessions` and `pendingStageReplies`, and the unsettled promises of `handleReq`
and `dispatchForwardFrame`; `storing` holds the calls of `finalizeStage` that wait for
the artifact store, `files` is the staging directory. A file's content is the sequence
of its chunk numbers, 0 standing for bytes of some other frame, so that the digest
check is `content = <<1, ..., Last>>`. `socket = "closing"` lies between `close()` and
the `close` event: replies are dropped, messages are still delivered. The model keeps
two things one might tidy away: `pending` survives the `close` event, and a reply
goes to the socket of the moment. External: the socket delivers in order, the Hub
sends the two halves of a chunk back to back, uses an id once and does not continue
a transfer on another connection.

### Generation

`row` is the app's document, `inv` the inventory of each generation with its state,
its declared resources and whether it was signed, `ctr` and `side` what exists on the
nodes, `route` the route. `job` is the one operation that holds the workspace lock: its
program counter follows `deployMcpV3`, `activateMcpV3`, `reconfigureMcpV3` and
`upgradeMcpV3` from one await to the next, the loops over replicas and the rollback
loops included. `calls` are requests an agent works on: they begin, have a gap in which
the old container is gone, and end; `timeout` lets the master go on without one. `op` and `att` are the
uninstall operation and the attempts under way; an attempt is interrupted by `crash`
and parked at the next. Digests, receipts and grants are numbers (generation, image,
epochs), compared where `mcp-security.ts` and the agent compare them. The Hub is
external: it sends the next command the protocol allows, may repeat the last one, and
repeats an uninstall until it completes. A grant is accepted (`granted`) before the lock is
taken, and may be redelivered; `row.plan` are the replicas `deployMcpV3` planned, whose ids
are new each time, so that a grant that comes again after its own uninstall revives the
tombstone with replicas nobody declared (`revived`). A command that is a repeat is answered
from the row ("repeated").

### Fleet

`row` is an app's document (state, kind, tier, replica list, suspension marker, clock),
`ctr` the containers, `open` the replica count of the open billable interval that
`usage-aggregator.ts` derives from events, `lock` the workspace lock, `req` the
requests in flight, each with what it has read (`snap`, `plan`, `made`). `Locked` are
deploy, install, activation and the change of tier; `Unlocked` everything of
`app-lifecycle-service.ts`. A call to an agent answers, fails, or takes effect and
loses its answer. The reaper is a process like the clients: its tick (`reaperTick`) lists, then claims
each app, then destroys it. `crash` forgets requests and lock; `reconcileContainer`
and `reconcileUnanswered` are `reconcile-service.ts` at boot. History: `grace` (how much of an
app's window has passed), `torn` (operations on an app overlapped or were cut off),
`moved` (a call wrote a state without looking at the old one), `revived` (an app came back
without a quota check: out of quarantine, or by the resume of one that was being removed),
`held` (stopped by the operator while not suspended), `leaked`.

### ContainerSwap

`box` are the containers of one app with their labels; `sock` is the bound socket,
`store` and `legacy` the two durable copies of its binding, `conn` the app's open
connection to it. `req.todo` is the list of calls the function in flight still has to make;
`redeployPlan`, `rollingPlan`, `reconfigurePlan` and `deletePlan` are the lists of the four
functions, and each step may be refused, which continues with the catch block's own list
(`undo`, `revert`). `dies` ends the agent or the host between any two; `rebindMcpBrokers`,
`sweepOrphanBrokerState` and `recoverDesiredState` are the next start. `mcp` and the flags of a container
choose among the five kinds of app. `leaked` is history: the containers left to themselves,
because Docker refused to remove them, a death cut their request off, or a later request did
not take them for the app's (`getById` chooses one of several with the same id), and
those that were created and whose inspection then failed, which `createAppContainer` throws
away without removing. `spent`
counts the mishaps, among them the rebinds that failed (`rebinds`).

### HostRegistry and HostTable

`label`, `row` and `obj` are `host_labels`, `app_hosts` and the objects at Cloudflare.
`put` is, for each master and workspace, the PUT or reservation that holds the workspace's
lock, which is one of the master's process, and the removal of an uninstall, which holds
none: from the first read through each insert, update, delete and mark to `notify`. `power` are
the sweeps of suspended and resumed workspaces, which may overlap, `worker` a pass of
`CfCustomHostnameWorker`, `keep` the retention job; both run at the master that has the
Cloudflare token (`scene.cf`), and only that master's changes tell its worker. Each call
to Mongo or Cloudflare is a step. `pub[m]` is the publisher of master `m` between
its awaits (bump the revision, read the rows, read the apps, push the runtime tables, push the ingress
tables); `runtime` and `ingress` are the tables of each node; `net` holds pushes the master
gave up on; `forward(i, h)` is what a request for host `h` gets at ingress `i`: look-up,
signature, verification, choice of the container, which `findByAppId` finds for MCP v3 apps
only (`McpV3`): the others get 502. A *scene* is an instance: which
processes exist, which hosts, how many changes and faults. One run checks all scenes.

## Runs

| Run | Instance | Shows |
|---|---|---|
| `desired_races` | 1 container, 2 handlers, 1 reboot, 1 crash, Docker and file faults, monitor restarts | `StopHonoured` |
| `desired_boot` | 1 MCP container, 1 handler, 2 reboots, 2 deaths, Docker faults, fairness | `StampedMeansHandled`, `RunningIsRecorded`, `AckedStopHolds`, `RebootHandled` |
| `runtime_races` | 1 id, 2 requests, 2 activations, 2 calls, 2 claims, 1 crash, 1 new pairing | `LedgerAccounts`, `AbsentIsAbsent`, `IdentityBound`, `SupersededGone`, `ActivationAuthorized`, `ImplementsContract` |
| `runtime_ends` | 1 id, 2 calls, 1 crash, fairness | `EveryCallEnds` |
| `pairing` | 2 operator tokens, the bootstrap token, 2 cluster ids, 2 deaths, fairness | `LiveCredentialKept`, `DeadCredentialDropped`, `TokenRedeemed` |
| `tunnel` | 3 requests (1 forward) over a limit of 1, 1 transfer of 2 chunks, 2 connections, 1 death, fairness | `AnswersTrue`, `FilesAccounted`, `StageAnswered` |
| `generation` | 1 generation, a plan of 2 replicas, redelivered grants, 2 images, 2 configurations (1 resize), 1 fault, 1 timeout | `RunningIsDeclared`, `SuccessServes`, `AttestedIsFixed` |
| `reinstall` | 2 generations in one slot, redelivered grants, 2 plans of 1 replica each, 1 fault, 1 crash, fairness | `CompletedIsGone`, `UninstallIsOneWay`, `UninstallCompletes` |
| `fleet` | 1 raw and 1 v2 app, 3 nodes in 2 failure domains, 2 requests at a time of 4, 3 containers, 1 mishap | `ContainersAccounted`, `BilledIsInstalled`, `QuotaHeld`, `OperatorStopHolds`, `ReapIsDue` |
| `swap` | 5 kinds of app, 2 versions, 2 epochs, 2 requests, 2 mishaps, fairness | `OneContainer`, `AnswerHolds`, `RevertNotBlocked`, `RollingServes`, `AnsweredAttests`, `RedeployEnds` |
| `hosts` | 10 scenes: 1 or 2 masters, 1 or 2 workspaces, 1 or 2 hosts, 1 to 4 changes, at most 1 fault, fairness; 527,731 states | `LabelOwned`, `AdminSuspensionHolds`, `ObjectsMatchRows`, `RequestsReachRows`, `TablesConverge` |
| `hosts_signing` | a runtime node that is no ingress, cold start | violates `RequestsReachRows` |

Bounds. `MaxBoots = 3` is two reboots: a record tells apart this boot and another, and
the second reboot meets a record the first one's recovery did not finish. Deaths are
put at every point of every operation; what more of them could add is covered by the
proofs, where every bound is arbitrary. `PoolSize` is arbitrary there too. `MaxClaims = 2` lets an id be torn
down and claimed afresh under a call that was meant for the first claim;
`MaxPairings = 1` lets the cluster id change under existing containers. Runtimes with
different ids share only the artifact index and the generation slot; the proofs cover
any number of them. In `pairing` the two operator tokens belong to different clusters,
so that a crash between two files can mix them. In `tunnel` two connections are what
a stale control half and a late reply need, and two chunks let a transfer be cut in
its middle; several transfers at once are covered by the proofs.

In `generation` two replicas are needed for a loop that fails half-way, one timeout
for a late swap; an agent's fault and the timeout may happen in one behaviour. A second
generation and the crash are in `reinstall`, with one replica at a time; its two plans let a
redelivered grant revive the tombstone of its own generation once (2,671,986 and 593,226
states). In `fleet` the capacities
(1, 2, 1) make the choice of nodes and the second failure domain matter, `MaxApps = 2` and
`MaxReplicas = 2` make quota refusals happen, and three containers allow an HA app and one
other or a second attempt; with four requests an app is deployed, revoked, taken back and
revoked again. In `swap` two versions and epochs tell the old from the new binding, five
containers are more than two requests create, two mishaps let the way back fail as well.
In `hosts` the host `s` has a label that is free or anybody's, and two workspaces want it, at
one master with a process that ends between `hold` and the insert, or at two masters whose locks
do not know each other; `t` is the own label of the app of `w1`. A workspace has one app, an app one replica, and the set of nodes is constant;
a timer's tick that would publish the same tables again is left out, and a push that
outlives its master is lost with it. `CHECK_DEADLOCK FALSE` stands in the runs that stop when their
bound on requests, connections or changes is used up.

Fairness. `DesiredState!FairSpec`: weak fairness of the agent's start (the service
manager restarts it), of recovery, of each worker and of each request: a promise
that is ready is run by the event loop, and every Docker call has an outcome. None on
requests arriving, crashes or the monitor. `LocalRuntime!FairSpec`: weak fairness of
each call's continuation and of start-up; strong fairness of `Acquire`, since the mutex
is a FIFO chain of promises and a waiter cannot be overtaken for ever. `EveryCallEnds`
does not need Docker to succeed: a failing call also ends. `Pairing!FairSpec`: weak
fairness of the reconnect timer, of the service manager's restart, of the handler of a
frame that arrived and of the Hub's hanging up; strong fairness of the Hub's answer,
since a dial may be lost any number of times and one of them gets through (the client
never stops dialing). `Tunnel!FairSpec`: weak fairness of the continuations (`Answer`,
`finalizeStage`), nothing of the Hub or the network. `Generation!FairSpec`: weak fairness of the
job, the agents' work and each attempt, and of the Hub opening the uninstall again, which it
does until it has the completion. `ContainerSwap!FairSpec`: weak fairness of the
steps of a request: Docker answers one way or the other, and the only wait without a limit
is `server.close` for open connections, which is enabled only when there is none.
`HostTable!FairHostSpec`: weak fairness of the worker, of each publisher and of its timer;
nobody is obliged to send a PUT.

## Proofs

TLAPS checks the eight proof modules for every value of the constants. Assumed are the
typing of the parameters (`ConstantsAssumption` of each module and the named assumptions of
`HostRegistry` and `HostTable`; they also say that `"none"` is no app and no host, and
neither `"free"` nor `"none"` a workspace) and, by three kinds of theorems, what they name:
`StoreFaults = FALSE` (the record file can be read and written), `Apart` (the requests for one
container come one after the other) and, in `RequestsReach`, that the nodes which have
containers are ingress nodes too. Without these three the properties fail; "Findings",
"Further hazards" and "Known divergences" say how.

Every proof has the same shape: an inductive invariant in named parts, a lemma per part
and action (or a lemma that says once what the actions of a kind leave alone, and the
actions cite it), and the temporal step at the end.

*DesiredState.* `TypeOK` is inductive. `StopHonoured` becomes inductive with what
recovery knows: a worker in `start` or earlier has not yet started anything, and one
past it is `Pending`; the proof is one step per action. `StampComesLast` assumes
`StoreFaults = FALSE` and needs that, while a recovery of the current boot is under
way, `owed` is inside the queue and the workers' containers (`PoolInv`), and that a
stamped file means nothing is owed (`HandledInv`). `RunningsAreRecorded` and
`AckedStopsHold` need that Docker does not use an id again (`LifeInv`: an entry is erased
only when its container is gone). The first then follows how an entry comes about
(`EntryInv`): from recovery's list on, a running container without one was listed and will
be seeded, or has a request that is about to write it. The second says what an acknowledged
stop leaves (`AckInv`): nobody at work on the container, `stopped` in the record, and, if it
runs, a recovery worker that has still to look at the record again.

*LocalRuntime.* The inductive invariant `IInv` is the conjunction of `TypeOK`, who
holds which lock (`LockInv`, `IdleInv`), `sockets \subseteq dirs`, what a row's state
says about its fields (`RowInv`), about its container (`ContInv`) and directories
(`DirInv`), and what a call past the mutex knows at each program counter
(`CallInv`). The last one carries the argument: a call that holds the mutex of a
runtime is the only one that changes the row, so what it read stays true. Steps of
other runtimes are framed once (`Moves` and the step lemmas) instead of in each
action. `LedgerIsComplete` puts the containers' and the directories' half together.
`IdentityIsBound` and `SupersededIsGone` come from `IdentityInv`, inductive beside `IInv`:
which socket a call has bound and what a teardown has put behind it (`ServeInv`), and that
an active container excludes the directory of the replica before it (`BoundInv`).
`DriverKeepsContract` maps each step to a step or stutter of `RuntimeContract`.

*Pairing.* `TypeOK` is inductive. `LiveCredentialKept` is an action property; the
invariant behind it (`CredentialInv`) says that the socket presented what the files
still hold (`ShownIsStored`), that a token being redeemed is still in its file
(`TokenStays`), and that without a token file the stored id is the credential's own
(`IdMatches`, because `handlePaired` deletes the token last). So a live credential is
refused only under a wrong id, which means a death inside `handlePaired`, and then the
token file is there and the close handler keeps the credential.

*Tunnel.* `FilesAccounted` needs that a transfer being stored was sent completely and
that a pending half is the last one sent of a stream that is not being stored
(`StoringInv`, `PendingInv`): otherwise a late chunk could reopen the file under its
reader. `HalvesMeet` needs that a pending half never belongs to a later connection.
`AnswersTrue` rests on `OwedInv`: whatever is still owed a reply
has none and its id was used. `FinishStage` states once what a payload does to its own
stream and that it leaves the others alone; the actions cite it.

*Generation.* `TypeInv` adds to the types that the job works on the row it took the lock
for and that at most one request to an agent is waited for. `DeclaredInv` says that an
inventory is signed only when READY, and that a row is bound, and the job comes to its last
steps, only with every replica reported and everything declared; `RunningDeclared` and
`AttestedFixed` follow. For `CompletedGone`, `GoneInv` says that while no agent works on an
uninstalled generation, what was seen to be absent stays so (`WorldStep`). `UninstallOneWay`
needs the types only and a lemma on who writes the row (`RowMoves`): every write of a job compares the
row's state, and those of an attempt are REVOKING and REMOVED; it holds for any number of
attempts. `OwnInv` says that every replica anybody knows of the row's
generation is one of the row's plan, unless the generation was revived; `AccessInv` that an
attempt past its revocation finds the row REVOKING or REMOVED, or revived with replicas its
inventory does not declare. `SuccessIsServed` follows the containers: until the row is
RUNNING its generation is only installed (`InstallInv`); a job that moves replicas has
moved those it is done with and has one request under way (`MoveInv`); so a success leaves
every replica as the row says (`ServeInv`).

*Hosts.* All theorems are about `HostSpec`, the registry composed with publishers, pushes
and node tables. `HostMoves`, `CloudMoves` and `WorkerMoves` say once how any step may write
a row, an object or the worker's lists. `LabelsOwned`: a PUT that is about to insert a
tenant's row holds its label, at whichever master, and a label once held is never given away. `SuspensionHolds`: a suspended host is SUSPENDED, or was taken
out of service with SUSPENDED as what it was before. `RowsMatchObjects` needs that numbers
are used once and a row's number is on record (`ObjInv`), what the worker's two lists and its
current host say (`Lists`, `AtHost`), and what the retention job has deleted and not yet
written (`KeepInv`); a DELETE that took effect without an answer is in `hist.released`. `RequestsReach` is about the tables, and rests on `RouteInv`: no table, push or pass is
ahead of the revision the masters share (`RevInv`); unless somebody has still to be told or
to take a revision (`Stale`), whatever bears the newest revision was made of the rows as they
are (`FreshInv`), because the revision is taken before the rows are read; and the newest pass has
brought its tables to every node it is done with, but for pushes that failed and nodes started
since (`DoneInv`). Two masters never bear one revision, and a push that comes late bears an
older one, which `isNewer` refuses or the newer table overwrites. `Routes` is what any step
does to all this, in seven forms (`RouteMoves`), and each part is kept form by form.
`RuntimeComesFirst` is what `pushSnapshot` promises with its two waves, for one master and no
fault. `AloneInv`: nothing is late, a node whose turn in the first wave has not come is behind the
pass's revision, and one whose turn has come holds that pass's table, as all do in the second wave.

*Container swap.* What makes it hard is that a step depends on the list of calls still to come.
`ListInv` says of that list what the proofs use of it: which calls, none twice, in their order (`IsList`,
with `Pop` and `Join` for its head and for two lists one after the other). `Core` adds what has been done
(`OldInv`, `PhaseInv`), what a call to come entails (`AheadInv`), that ids are given in order
and suffice (`MadeInv`), and that the new container is there until it is undone (`BuiltInv`).
Every step moves the request in one of a few ways (`Moves`) and the containers in one of a few
(`BoxMoves`); each invariant is kept way by way. `AnswersHold` needs
what the new container was made of and what the request keeps (`HeldInv`);
`RevertsAreNotBlocked` that the copies of the binding are gone when the way back writes its
own (`RevertInv`); `OneContainerLeft` who exists and runs besides `leaked`, and that each of those has
its mishap (`SingleInv`; a creation whose inspection failed is one); `RollingAlwaysServes` which of the two containers serves at which
point (`RollInv`, `ServeInv`); `AnsweredContainersAttest` what is bound, stored and wished at
each point of a request (`RegisterInv`) and what of it outlives the agent and the host
(`LastInv`).

Three things came to light in proving these. `OneContainer` did not hold of three mishaps
or more when only a refused removal and a death counted: of two running containers with one id the
next request takes one and leaves the other, which `leaked` has now. `AnsweredAttests` did
not hold of three: a rebind that fails after a reboot also keeps recovery from starting the container, and
a container left behind with the same labels may get the socket; both are named in it now.
And two cases of the catch block (`Caught`) overlapped; they are alternatives now.

*Fleet.* `CoreInv` has the types, where each request may be, who holds the lock, and that
what is listed was created. Half of the operations take no lock, so nothing can be said of
an app that two requests are at; `hist.torn` records that, and `OverlapInv` says that every
other app has at most one request at work. For those, `Phase` says what the request at each
point means for the document, the bill and the operator's stop, and `Settles` what holds when nobody is
at the app; `AccountInv` is both, and `InstalledIsBilled` and `StopsHold` are what it says of
settled apps. `ReapsAreDue` needs what the reaper's list says of the clock (`DueInv`).
`ContainersAreAccounted` needs what a removal past the agents says of the containers
(`GoneInv`) and what the lock's holder has yet to write of what it made (`ListInv`).
`QuotaIsHeld` carries the room that was found at the check to the document that uses it
(`Headroom` in `QuotaInv`): every other step takes no room, which two lemmas about counting
(`Eases`, `Grown`) state once.

Only model-checked: liveness (`RebootHandled`, `EveryCallEnds`, `DeadCredentialDropped`,
`TokenRedeemed`, `StageAnswered`, `UninstallCompletes`, `RedeployEnds`, `TablesConverge`: the prover has no
ENABLED and no fairness). Every invariant and every action property of the runs, and the
refinement of `RuntimeContract`, is also a theorem.

Stated beside the properties of the runs: the type invariants (proved, but for
`HostRegistry!RegistryTypeOK`, which holds on the instances of `hosts`; `HostProofs` proves
its own `TypeInv`), `HalvesMeet` (proved),
`HostTable!RuntimeFirst` (proved), `Fleet!HaSpread` and `HostRegistry!CustomProvisioned` (hold on
the instances of `fleet` and `hosts`).

## Findings

`hosts_signing`: a node that is RUNTIME but not INGRESS answers 401 to every forwarded
request. The publisher sends the signing keys with the ingress table, which such a node
never gets (`host-table-publisher.ts:274` and `:238`), while its listener looks for the
key in its own ingress table (`proxy/host-table.ts:28`); the comments at
`host-table-publisher.ts:179` and `portal-admin-routes.ts:62` say that runtime nodes get
the keys. With nodes that are BOTH or INGRESS the property holds (`hosts`).

## Known divergences

Other places where a comment says more than the code does. Each is a definition one can add to the named configuration to get the counterexample.

| What the code does | Definition | Configuration |
|---|---|---|
| The health monitor restarts a container whose stop was acknowledged during the probe (`health-monitor.ts:126`) | `AckedStopHolds` without the monitor's entry in `excused` (`MonRestart`) | `desired_boot` with `AutoRestart = {c1}` |
| A start and a stop that overlap leave a container running whose stop was acknowledged last (`container-manager.ts:360`) | `AckedStopHolds` | `desired_boot` with two handlers |
| ACTIVATE after a half-failed REMOVE claims its intent without a preactivation container (`runtime-service.ts:654`, `:575`) | `ReconciledBeforeIntent` (property) | `runtime_ends` |
| Erasure answers ABSENT for an image whose staging died before the index was written (`artifact-store.ts:242`, `:226`) | `ErasedIsGone` | `runtime_ends` |
| A pair token dropped while a dead credential is stored is never presented: the credential is preferred to the token, and the token keeps the credential (`pairing.ts:47`, `:185`, `tunnel-client.ts:356`) | `RepairRedeems` (property) | `pairing` |
| A redelivered grant of a removed generation revives its tombstone, which then stays PROVISIONING: its inventory is signed already and names other replicas, whose containers no uninstall of the generation removes, because its operation is COMPLETED (`deployment-service.ts:421`, `mcp-security.ts:344`) | that a row whose generation's operation is COMPLETED is REVOKING or REMOVED | `reinstall` |
| The retention job's DELETE takes effect and its answer is lost: the retry gets 404, the row keeps its number, and after the resumption that "restores it instantly" (`app-host-registry.ts:293`) the host is served without an object and never gets one (`cf-custom-hostname-worker.ts:113`, `:82`) | `ServedHasObject` without `hist.released` | `hosts` |
| ROLLED_BACK is answered although a replica runs the new image, when its swap outlived the master's patience (`deployment-service.ts:1433`, `:1439`) | `RolledBackRunsPrevious` | `generation` |

## Further hazards

`PROJECT.json` lists the hazards that a property covers. The code is exposed to these
as well; in the models of the modules named they can happen, and no property speaks of them.

* *Agent* (`DesiredState`, `ContainerSwap`). A swallowed write of the record
  (`desired-state.ts:52`). A listing that fails ends recovery until the next start
  (`desired-state-recovery.ts:79`). Containers that ended by themselves since the boot are
  started while the old boot id is recorded (`:60`). Two requests for one app are kept
  apart by the master only (`lifecycle-service.ts:917`). A death between the removal of the
  old container and the creation of the new one leaves none (`:1020`), as does a failure of
  a rolling redeploy's last look (`:1227`) or of a reconfigure (`:560`). `reconfigure`
  waits without limit for an idle connection to the broker (`:540`). `delete` answers ok
  when Docker refused (`:1331`). A rebind that fails is not tried again
  (`mcp-broker.ts:559`).
* *Local runtime* (`LocalRuntime`). The generation slot can end on a runtime that is not
  live (`ledger.ts:406`; nothing reads it). Keyed mutex entries are never deleted
  (`ledger.ts:93`). A rebind that fails at start-up leaves an application without its
  socket (`runtime-service.ts:861`).
* *Tunnel* (`Tunnel`, `Pairing`). `handlePaired` deletes whichever token file is there
  (`tunnel-client.ts:522`); a burnt one left behind by a crash keeps a dead credential. An
  id used again truncates the file being stored (`:617`). Forwards are not limited
  (`:583`). A reply that is too large is dropped (`:465`).
* *Generations* (`Generation`). A resize that times out throws past the rollback loop
  (`deployment-service.ts:1098`). After ROLLED_BACK the container's epoch is ahead of the
  row's (`:1311`). The answer to a repeated command says nothing of the replicas
  (`:725`, `:995`, `:1234`). A write of a new configuration that throws may have been made, and
  nothing is rolled back (`:1137`). Two attempts of one uninstall name the app and not the
  generation (`mcp-uninstall-service-v3.ts:317`), and the slower one can write CLEANUP_REQUIRED
  over COMPLETED (`:157`). A deploy that fails leaves its container when Docker
  refuses to remove it, or when it was never known (`lifecycle-service.ts:436`). A master that dies between COMPLETED and the stored
  acknowledgement leaves the row REVOKING (`:176`). The route is reported absent without a
  look (`:387`). A late redeploy recreates a container of an uninstalled generation
  (`lifecycle-service.ts:1060`).
* *Fleet* (`Fleet`). A master that dies between REMOVED and the UNINSTALLED event leaves the
  interval open in the event log (`app-lifecycle-service.ts:344`). The reaper's claim does not compare the clock
  (`app-lifecycle-service.ts:380`), and a reap that fails after it is not retried (`:386`). A
  removal of an HA app that fails on one replica fails for ever (`:335`). start, stop and
  redeploy write their state over any other (`:59`). A revoked workspace can get a RUNNING
  app from a deploy in flight (`portal-admin-routes.ts:150`). An MCP app that was not
  activated is never reaped (`app-lifecycle-service.ts:283`). Boot reconciliation makes a
  container's state the app's (`reconcile-service.ts:79`). Locks of two workspaces do not
  keep them from overcommitting a node (`deployment-service.ts:173`).
* *Hosts* (`HostRegistry`, `HostTable`). The worker writes the state a row had when its
  pass began (`cf-custom-hostname-worker.ts:163`). A PUT during a suspension writes ACTIVE
  (`app-host-registry.ts:182`). The retention job can delete the object of a row that was
  just resumed (`cf-custom-hostname-worker.ts:113`). A row that is retired while its object
  is being created has no number yet and goes; the object stays at Cloudflare for ever (`:161`). A
  raw or v2 app on its own label gets 502 (`docker-state.ts:92`, `runtime-listener.ts:271`).
  Not in the model: two masters that both have the Cloudflare token run two workers without a
  common lock, and the slower one can record a number whose object is gone, or write over the
  newer one (`master-server.ts:109`). A DELETE whose answer is lost leaves the
  row DELETING for ever (`:177`). A create that failed waits for the next PUT (`:166`).
  With two masters the ingress can learn of a route before the runtime node
  (`host-table-publisher.ts:235`). Removing an app's last row routes its own label again
  (`:212`).

## Plan

The modules are complete as far as "Not modelled" says, and every safety property the runs
check is proved. What could come next, in this order:

1. `Fleet!HaSpread`, which is stated and holds on the instance, as a theorem.
2. An abstract specification of routing (rows that change, requests that reach them) which
   `HostTable` implements once the tables are level.
3. The storage part of the quota, and nodes that are registered and drained while apps are placed.

## Not modelled

Byte-level parsing and hashing (OCI archives, canonical JSON, protocol documents,
schemas), cryptography, stream plumbing (terminal, files), HTTP parsing, logging and
the one-shot command line tools and migrations: they either change no state or refuse a
request without effect. The agent's settings, quota monitor and usage counters are reads
and one JSON file; images and networks are thin idempotent calls. Of the proxy, the legacy
router of a single node, the replay cache, and the rewriting of paths and cookies are left
out; of the master, the registration of nodes, the storage part of the quota and the v1
subdomain registry. Also left out are the backfill of ledger rows written by older
releases and a failure to create the private network, which counts as a failed step.
