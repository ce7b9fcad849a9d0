------------------------------- MODULE Fleet -------------------------------
(***************************************************************************)
(* The master's apps of one workspace that no generation protects: raw     *)
(* apps and MCP v2 apps.  Deploying, activating and changing the tier hold *)
(* the workspace lock; every other operation does not, and neither does    *)
(* the reaper of quarantined apps, so they meet in the documents.          *)
(*   master/deployment-service.ts     deploy, deployMcp, activateMcp,      *)
(*                                    changeAvailabilityTier               *)
(*   master/app-lifecycle-service.ts, master/quarantine-reaper.ts,         *)
(*   master/reconcile-service.ts, master/quota-service.ts,                 *)
(*   master/scheduler.ts, master/usage-aggregator.ts,                      *)
(*   master/workspace-lock.ts, master/workspace-cluster-service.ts         *)
(*                                                                         *)
(* An operation is a sequence of steps - read, ask the agents, write the   *)
(* document, write the events - with other steps between them.  An agent   *)
(* answers, fails, or acts and its answer is lost.  Resources are counted  *)
(* in replicas of one size.  Billing is the open interval that             *)
(* aggregateWorkspaceDay derives from the app-level events.  The 7 days of *)
(* grace pass only when nothing is in flight (a request takes 30 s).       *)
(***************************************************************************)
EXTENDS Naturals, Sequences, FiniteSets

CONSTANTS
    Apps,          \* application ids
    McpApps,       \* those the Hub installs as MCP v2
    Nodes,         \* app nodes
    Domain,        \* node -> its failure domain
    Capacity,      \* node -> replicas it has room for
    MaxApps,       \* quota: installed apps
    MaxReplicas,   \* quota: reserved replicas
    Clients,       \* requests the master works on at a time
    MaxContainers, \* bound: containers ever created
    MaxRequests,   \* bound: requests
    MaxMishaps     \* bound: failures of agents and of the route programmer, deaths
                   \* of the master, and changes of a node's status; agents that
                   \* fail while the master boots are not counted

ASSUME ConstantsAssumption ==
    /\ IsFiniteSet(Apps) /\ Apps # {}
    /\ McpApps \subseteq Apps
    /\ IsFiniteSet(Nodes) /\ Nodes # {}
    /\ Capacity \in [Nodes -> Nat]
    /\ DOMAIN Domain = Nodes
    /\ IsFiniteSet(Clients) /\ Clients # {}
    /\ {"free", "reaper"} \cap Clients = {}
    /\ "none" \notin Apps
    /\ {MaxApps, MaxReplicas, MaxContainers, MaxRequests, MaxMishaps} \subseteq Nat

VARIABLES
    ws,      \* the workspace's status
    power,   \* what the Portal last asked for: "on" | "off"
    status,  \* node -> its status
    row,     \* app -> its document
    ctr,     \* container id -> the container
    open,    \* app -> replica count of its open billable interval, 0 if closed
    lock,    \* holder of the workspace lock, or "free"
    req,     \* client, or the reaper -> the request it works on
    boot,    \* is the master serving, and what boot reconciliation has still to look at
    hist,    \* history
    spent    \* requests and mishaps so far

vars == <<ws, power, status, row, ctr, open, lock, req, boot, hist, spent>>

Ids   == 1..MaxContainers
Procs == Clients \cup {"reaper"}
None  == [st |-> "NONE", kind |-> "raw", tier |-> "single", reps |-> <<>>,
          susp |-> "no", stamp |-> "none"]
Absent == [app |-> "none", node |-> "none", st |-> "unused"]
Rest  == [op |-> "none", app |-> "none", pc |-> "none", todo |-> {},
          snap |-> [a \in Apps |-> <<>>], plan |-> <<>>, made |-> <<>>]

Init ==
    /\ ws = "ACTIVE"
    /\ power = "on"
    /\ status = [n \in Nodes |-> "ACTIVE"]
    /\ row = [a \in Apps |-> None]
    /\ ctr = [i \in Ids |-> Absent]
    /\ open = [a \in Apps |-> 0]
    /\ lock = "free"
    /\ req = [c \in Procs |-> Rest]
    /\ boot = [up |-> "yes", todo |-> {}]
    /\ hist = [torn |-> {}, moved |-> {}, revived |-> {}, held |-> {}, leaked |-> {},
               drained |-> {}, grace |-> [a \in Apps |-> "none"]]
    /\ spent = [requests |-> 0, mishaps |-> 0]

-----------------------------------------------------------------------------
(* Helpers *)

Listed(s)  == {s[i] : i \in DOMAIN s}
Exists(i)  == ctr[i].st \in {"running", "stopped"}
Loaded(a)  == row[a].st \notin {"NONE", "REMOVED"}
Touches(r) == IF r.op = "none" THEN {} ELSE {r.app} \cup r.todo
InFlight   == UNION {Touches(req[c]) : c \in Procs}
Snap(as)   == [a \in Apps |-> IF a \in as THEN row[a].reps ELSE <<>>]
Fault      == spent.mishaps < MaxMishaps
Faulted    == [spent EXCEPT !.mishaps = @ + 1]

\* Histories that end as soon as two operations on an app overlap.
Torn(as)   == [hist EXCEPT !.torn = @ \cup (as \cap InFlight)]

\* One replica's share of a request to the agents.
Answer(verb, st) ==
    IF st = "gone" THEN "gone"
    ELSE CASE verb = "start"    -> "running"
           [] verb = "stop"     -> "stopped"
           [] verb = "redeploy" -> "running"
           [] verb = "lose"     -> "gone"
           [] verb = "delete"   -> "gone"

\* The containers ids are asked for verb; those in bad answer with an error, and
\* of those the ones in hit acted all the same (a redeploy that fails after it
\* removed the container leaves none).
Asked(verb, ids, bad, hit) ==
    [i \in Ids |->
        IF i \in ids \ bad THEN [ctr[i] EXCEPT !.st = Answer(verb, @)]
        ELSE IF i \in hit
             THEN [ctr[i] EXCEPT !.st = Answer(IF verb = "redeploy" THEN "lose" ELSE verb, @)]
             ELSE ctr[i]]

assertResponses(ids, bad, tolerateNotFound) ==
    /\ bad = {}
    /\ tolerateNotFound \/ \A i \in ids : Exists(i)

-----------------------------------------------------------------------------
(* Scheduling and quota *)

remainingNodeCapacity(n) ==
    Capacity[n] - Cardinality({i \in Ids : /\ ctr[i].node = n
                                           /\ \E a \in Apps : /\ row[a].st = "RUNNING"
                                                              /\ i \in Listed(row[a].reps)})

Roomiest(C) ==
    {n \in C : /\ remainingNodeCapacity(n) >= 1
               /\ \A m \in C : remainingNodeCapacity(m) <= remainingNodeCapacity(n)}

\* The selections selectNodes may return for k replicas (equal nodes come in any
\* order); none when some replica finds no node.
selectNodes(C, k) ==
    LET active   == {n \in C : status[n] = "ACTIVE"}
        apart(n) == {m \in active : m # n /\ Domain[m] # Domain[n]}
    IN  IF k = 1 THEN {<<n>> : n \in Roomiest(active)}
        ELSE UNION {{<<n, m>> : m \in Roomiest(apart(n))} : n \in Roomiest(active)}

isInstalledForQuota(r) ==
    \/ r.st \in {"RUNNING", "STOPPED"}
    \/ r.st = "QUARANTINED" /\ r.stamp = "none"

InstalledApps     == {a \in Apps : isInstalledForQuota(row[a])}
ReservedReplicas  == Cardinality({x \in Apps \X Ids : /\ x[1] \in InstalledApps
                                                      /\ x[2] \in DOMAIN row[x[1]].reps})

assertDeployAllowed(k) ==
    /\ ws = "ACTIVE"
    /\ Cardinality(InstalledApps) < MaxApps
    /\ ReservedReplicas + k <= MaxReplicas

assertAdditionalReplicaAllowed ==
    /\ ws = "ACTIVE"
    /\ ReservedReplicas + 1 <= MaxReplicas

-----------------------------------------------------------------------------
(* Billing: what aggregateWorkspaceDay makes of an app-level event *)

INSTALLED(a, k)        == [open EXCEPT ![a] = IF @ = 0 THEN k ELSE @]
REPLICAS_CHANGED(a, k) == [open EXCEPT ![a] = IF @ = 0 THEN 0 ELSE k]
CLOSED(a)              == [open EXCEPT ![a] = 0]

\* A REMOVED document ends the interval its events left open.
Billed(a) == IF row[a].st = "REMOVED" THEN 0 ELSE open[a]

-----------------------------------------------------------------------------
(* Requests that hold the workspace lock *)

\* Mutant: an action that does not wait for the one before it.
AcquireAtOnce(c) == lock' = c

\* WorkspaceLock.run: the next action begins when the one before has settled.
Acquire(c) == lock = "free" /\ lock' = c

Free(c) ==
    /\ boot.up = "yes"
    /\ req[c] = Rest
    /\ spent.requests < MaxRequests
    /\ spent' = [spent EXCEPT !.requests = @ + 1]

\* A workspace key only verifies while the workspace is ACTIVE, and a Hub whose
\* workspace is suspended is down.
Hub(c) == Free(c) /\ ws = "ACTIVE" /\ power = "on"

\* The quota allows k more replicas and the scheduler finds nodes for them.
Begin(c, a, k, op) ==
    /\ Hub(c)
    /\ Acquire(c)
    /\ ~Loaded(a)
    /\ assertDeployAllowed(k)
    /\ \E sel \in selectNodes(Nodes, k) :
          req' = [req EXCEPT ![c] = [Rest EXCEPT !.op = op, !.app = a, !.pc = "place",
                                                 !.plan = sel]]
    /\ hist' = Torn({a})
    /\ UNCHANGED <<ws, power, status, row, ctr, open, boot>>

deploy(c, a, k) == a \notin McpApps /\ Begin(c, a, k, "deploy")

deployMcp(c, a, k) == a \in McpApps /\ Begin(c, a, k, "install")

\* changeAvailabilityTier, as far as its first request to an agent.  The failure
\* domains already used are looked up among the ACTIVE nodes only.
changeAvailabilityTier(c, a, tier) ==
    /\ Hub(c)
    /\ Acquire(c)
    /\ Loaded(a)
    /\ row[a].kind = "raw"
    /\ row[a].tier # tier
    /\ row[a].st = "RUNNING"
    /\ LET used    == {ctr[i].node : i \in Listed(row[a].reps)}
           domains == {Domain[n] : n \in {m \in used : status[m] = "ACTIVE"}}
           cands   == {n \in Nodes \ used : Domain[n] \notin domains}
       IN  \/ /\ tier = "ha"
              /\ assertAdditionalReplicaAllowed
              /\ \E sel \in selectNodes(cands, 1) :
                    req' = [req EXCEPT ![c] = [Rest EXCEPT
                               !.op = "tierUp", !.app = a, !.pc = "place", !.plan = sel,
                               !.snap = Snap({a})]]
           \/ /\ tier = "single"
              /\ row[a].reps # <<>>
              /\ req' = [req EXCEPT ![c] = [Rest EXCEPT
                             !.op = "tierDown", !.app = a, !.pc = "shrink",
                             !.snap = Snap({a})]]
    /\ hist' = Torn({a})
    /\ UNCHANGED <<ws, power, status, row, ctr, open, boot>>

\* activateMcp up to the route programmer.
activateMcp(c, a) ==
    /\ Hub(c)
    /\ Acquire(c)
    /\ row[a].kind = "v2"
    /\ row[a].st = "QUARANTINED"
    /\ req' = [req EXCEPT ![c] = [Rest EXCEPT !.op = "activate", !.app = a, !.pc = "ingress",
                                              !.snap = Snap({a})]]
    /\ hist' = Torn({a})
    /\ UNCHANGED <<ws, power, status, row, ctr, open, boot>>

\* The request is over; whatever it did not write stays unwritten.
End(c) ==
    /\ req' = [req EXCEPT ![c] = Rest]
    /\ lock' = IF lock = c THEN "free" ELSE lock

Goto(c, pc) == req' = [req EXCEPT ![c].pc = pc]

Fresh == CHOOSE i \in Ids : ctr[i].st = "unused" /\ \A j \in 1..(i - 1) : ctr[j].st # "unused"

\* One agent is asked to deploy one replica: it answers, it fails, or it creates
\* the container and the master never learns of it.
Placed(c, pc) ==
    /\ ctr' = [ctr EXCEPT ![Fresh] = [app |-> req[c].app, node |-> Head(req[c].plan), st |-> "running"]]
    /\ req' = [req EXCEPT ![c] = [req[c] EXCEPT !.made = Append(@, Fresh), !.plan = Tail(@),
                                                !.pc = IF Len(req[c].plan) > 1 THEN "place" ELSE pc]]
    /\ UNCHANGED <<lock, hist, spent>>

NotPlaced(c) ==
    /\ Fault
    /\ spent' = Faulted
    /\ \/ UNCHANGED <<ctr, hist>>
       \/ /\ ctr' = [ctr EXCEPT ![Fresh] = [app |-> req[c].app, node |-> Head(req[c].plan),
                                            st |-> "running"]]
          /\ hist' = [hist EXCEPT !.leaked = @ \cup {Fresh}]

Placing(c, op) ==
    /\ req[c].op = op
    /\ req[c].pc = "place"
    /\ \E i \in Ids : ctr[i].st = "unused"
    /\ UNCHANGED <<ws, power, status, row, open, boot>>

deployToNodes(c) ==
    /\ Placing(c, "deploy")
    /\ \/ Placed(c, "ingress")
       \/ NotPlaced(c) /\ Goto(c, "undo") /\ UNCHANGED lock

\* An answer with the wrong node identity comes too late: the container is there.
deployMcpToNodes(c) ==
    /\ Placing(c, "install")
    /\ \/ Placed(c, "row")
       \/ NotPlaced(c) /\ Goto(c, "undo") /\ UNCHANGED lock

\* The second replica of a tier change; nothing is undone.
deploySecond(c) ==
    /\ Placing(c, "tierUp")
    /\ \/ Placed(c, "ingress")
       \/ NotPlaced(c) /\ End(c)

\* Mutant: only the replica deployed last is deleted again.
compensateLast(c) ==
    LET last == {req[c].made[i] : i \in {Len(req[c].made)} \ {0}}
    IN  /\ req[c].pc = "undo"
        /\ ctr' = Asked("delete", last, {}, {})
        /\ End(c)
        /\ UNCHANGED <<ws, power, status, row, open, boot, hist, spent>>

compensate(c) ==
    LET ids == Listed(req[c].made)
    IN  /\ req[c].pc = "undo"
        /\ \E bad \in SUBSET ids :
              /\ bad # {} => Fault
              /\ ctr' = Asked("delete", ids, bad, {})
              /\ hist' = [hist EXCEPT !.leaked = @ \cup bad]
              /\ spent' = IF bad = {} THEN spent ELSE Faulted
        /\ End(c)
        /\ UNCHANGED <<ws, power, status, row, open, boot>>

\* changeAvailabilityTier to single: the replicas but the first are deleted, a
\* missing one counts as deleted.
shrink(c) ==
    LET r   == req[c]
        ids == Listed(Tail(r.snap[r.app]))
    IN  /\ r.pc = "shrink"
        /\ \E bad \in SUBSET ids : \E hit \in SUBSET bad :
              /\ bad # {} => Fault
              /\ ctr' = Asked("delete", ids, bad, hit)
              /\ spent' = IF bad = {} THEN spent ELSE Faulted
              /\ IF assertResponses(ids, bad, TRUE)
                 THEN Goto(c, "ingress") /\ UNCHANGED lock
                 ELSE End(c)
        /\ UNCHANGED <<ws, power, status, row, open, boot, hist>>

\* The route programmer; only a deploy undoes what it did when it fails.
programRoute(c) ==
    LET r == req[c]
    IN  /\ r.pc = "ingress"
        /\ r.op \in {"deploy", "tierUp", "tierDown", "activate"}
        /\ \/ Goto(c, "row") /\ UNCHANGED <<lock, hist, spent>>
           \/ /\ Fault
              /\ spent' = Faulted
              /\ IF r.op = "deploy"
                 THEN Goto(c, "undo") /\ UNCHANGED <<lock, hist>>
                 ELSE /\ End(c)
                      /\ hist' = [hist EXCEPT !.leaked = @ \cup Listed(r.made)]
        /\ UNCHANGED <<ws, power, status, row, ctr, open, boot>>

\* The documents of a raw app, which runs at once, and of an MCP v2 app, which
\* waits for its activation.
RawApp(reps) == [None EXCEPT !.st = "RUNNING", !.reps = reps,
                             !.tier = IF Len(reps) = 2 THEN "ha" ELSE "single"]
McpApp(reps) == [RawApp(reps) EXCEPT !.st = "QUARANTINED", !.kind = "v2"]

\* The document is inserted; appId is unique, so the document of a removed app
\* makes the insertion fail.
insertApp(c) ==
    LET r == req[c]
    IN  /\ r.op \in {"deploy", "install"}
        /\ r.pc = "row"
        /\ \/ /\ row[r.app].st = "NONE"
              /\ row' = [row EXCEPT ![r.app] = IF r.op = "deploy" THEN RawApp(r.made)
                                               ELSE McpApp(r.made)]
              /\ IF r.op = "deploy" THEN Goto(c, "events") /\ UNCHANGED lock ELSE End(c)
              /\ UNCHANGED hist
           \/ /\ row[r.app].st # "NONE"
              /\ End(c)
              /\ hist' = [hist EXCEPT !.leaked = @ \cup Listed(r.made)]
              /\ UNCHANGED row
        /\ UNCHANGED <<ws, power, status, ctr, open, boot, spent>>

\* The tier change writes the document whatever has become of it meanwhile.
writeTier(c) ==
    LET r == req[c]
    IN  /\ r.op \in {"tierUp", "tierDown"}
        /\ r.pc = "row"
        /\ row' = [row EXCEPT ![r.app] =
                     IF r.op = "tierUp"
                     THEN [row[r.app] EXCEPT !.tier = "ha", !.reps = @ \o r.made]
                     ELSE [row[r.app] EXCEPT !.tier = "single", !.reps = <<Head(r.snap[r.app])>>]]
        /\ Goto(c, "events")
        /\ UNCHANGED <<ws, power, status, ctr, open, lock, boot, hist, spent>>

\* activateMcp: only the caller that moves the document out of QUARANTINED opens
\* the billable interval.
flipActivated(c) ==
    LET r == req[c]
    IN  /\ r.op = "activate"
        /\ r.pc = "row"
        /\ IF row[r.app].st = "QUARANTINED"
           THEN /\ row' = [row EXCEPT ![r.app].st = "RUNNING"]
                /\ hist' = [hist EXCEPT !.moved = IF row[r.app].stamp # "none"
                                                  THEN @ \cup {r.app} ELSE @]
                /\ Goto(c, "events") /\ UNCHANGED lock
           ELSE End(c) /\ UNCHANGED <<row, hist>>
        /\ UNCHANGED <<ws, power, status, ctr, open, boot, spent>>

\* recordAppInstalledEvent, and the REPLICAS_CHANGED event of a tier change.
recordLocked(c) ==
    LET r == req[c]
    IN  /\ r.op \in {"deploy", "activate", "tierUp", "tierDown"}
        /\ r.pc = "events"
        /\ open' = CASE r.op = "deploy"   -> INSTALLED(r.app, Len(r.made))
                     [] r.op = "activate" -> INSTALLED(r.app, Len(r.snap[r.app]))
                     [] r.op = "tierUp"   -> REPLICAS_CHANGED(r.app, Len(r.snap[r.app]) + 1)
                     [] r.op = "tierDown" -> IF Len(r.snap[r.app]) > 1
                                             THEN REPLICAS_CHANGED(r.app, 1) ELSE open
        /\ End(c)
        /\ UNCHANGED <<ws, power, status, row, ctr, boot, hist, spent>>

-----------------------------------------------------------------------------
(* Requests that take no lock *)

\* invoke: start (restart does the same to the document) or stop; only the
\* document of an MCP v3 app would be refused.
invoke(c, a, verb) ==
    /\ Hub(c)
    /\ Loaded(a)
    /\ req' = [req EXCEPT ![c] = [Rest EXCEPT !.op = verb, !.app = a, !.pc = "agents",
                                              !.snap = Snap({a})]]
    /\ hist' = Torn({a})
    /\ UNCHANGED <<ws, power, status, row, ctr, open, lock, boot>>

redeploy(c, a) == row[a].kind = "raw" /\ invoke(c, a, "redeploy")

\* Mutant: suspending takes everything that is installed.
powerTargetsAll(action) ==
    IF action = "suspend" THEN {a \in Apps : row[a].st \in {"RUNNING", "STOPPED"}}
    ELSE {a \in Apps : Loaded(a) /\ row[a].susp = "yes"}

\* setWorkspacePower: suspending takes what is RUNNING, resuming what suspending
\* stopped.
powerTargets(action) ==
    IF action = "suspend" THEN {a \in Apps : row[a].st = "RUNNING"}
    ELSE {a \in Apps : Loaded(a) /\ row[a].susp = "yes"}

setWorkspacePower(c, action) ==
    LET apps == powerTargets(action)
    IN  /\ Free(c)
        /\ action = "resume" => power = "off"
        /\ power' = "off"
        /\ req' = [req EXCEPT ![c] = [Rest EXCEPT !.op = action, !.pc = "next",
                                                  !.todo = apps, !.snap = Snap(apps)]]
        /\ hist' = Torn(apps)
        /\ UNCHANGED <<ws, status, row, ctr, open, lock, boot>>

\* The Portal's DELETE of a workspace.
revokeWorkspace(c) ==
    LET apps == {a \in Apps : Loaded(a)}
    IN  /\ Free(c)
        /\ ws = "ACTIVE"
        /\ req' = [req EXCEPT ![c] = [Rest EXCEPT !.op = "revoke", !.pc = "next", !.todo = apps]]
        /\ hist' = Torn(apps)
        /\ UNCHANGED <<ws, power, status, row, ctr, open, lock, boot>>

\* The Portal's POST of a workspace makes a revoked one ACTIVE again.
upsert(c) ==
    /\ Free(c)
    /\ ws = "REVOKED"
    /\ ws' = "ACTIVE"
    /\ UNCHANGED <<power, status, row, ctr, open, lock, req, boot, hist>>

\* remove: loads the document, then destroys.
remove(c, a) ==
    /\ Hub(c)
    /\ Loaded(a)
    /\ req' = [req EXCEPT ![c] = [Rest EXCEPT !.op = "remove", !.app = a, !.pc = "mark",
                                              !.snap = Snap({a})]]
    /\ hist' = Torn({a})
    /\ UNCHANGED <<ws, power, status, row, ctr, open, lock, boot>>

\* Mutant: the claim without its condition on the state.
ClaimsAny(a) == Loaded(a)

\* The claim both unquarantine and the reaper make before they act.
Claims(a) == row[a].st = "QUARANTINED"

\* unquarantine, which no route calls: claims the document, then starts the replicas.
unquarantine(c, a) ==
    /\ Free(c)
    /\ Claims(a)
    /\ row' = [row EXCEPT ![a].st = "RUNNING", ![a].stamp = "none"]
    /\ req' = [req EXCEPT ![c] = [Rest EXCEPT !.op = "unquarantine", !.app = a, !.pc = "agents",
                                              !.snap = Snap({a})]]
    /\ hist' = [Torn({a}) EXCEPT !.revived = @ \cup {a}, !.grace[a] = "none",
                                 !.held = @ \ {a}]
    /\ UNCHANGED <<ws, power, status, ctr, open, lock, boot>>

\* reapExpiredQuarantines: one tick lists what has been quarantined long enough.
reaperTick ==
    LET due == {a \in Apps : row[a].st = "QUARANTINED" /\ row[a].stamp = "old"}
    IN  /\ boot.up = "yes"
        /\ req["reaper"] = Rest
        /\ due # {}
        /\ req' = [req EXCEPT !["reaper"] = [Rest EXCEPT !.op = "reap", !.pc = "next", !.todo = due]]
        /\ hist' = Torn(due)
        /\ UNCHANGED <<ws, power, status, row, ctr, open, lock, boot, spent>>

-----------------------------------------------------------------------------
(* The loops over several apps *)

Turn(c, a, pc) ==
    req' = [req EXCEPT ![c] = [req[c] EXCEPT !.app = a, !.todo = @ \ {a}, !.pc = pc]]

Skip(c, a) == req' = [req EXCEPT ![c].todo = @ \ {a}]

nextPowered(c) ==
    /\ req[c].op \in {"suspend", "resume"} /\ req[c].pc = "next"
    /\ \/ \E a \in req[c].todo : Turn(c, a, "agents") /\ UNCHANGED <<power, lock>>
       \/ /\ req[c].todo = {}
          /\ End(c)
          /\ power' = IF req[c].op = "resume" THEN "on" ELSE "off"
    /\ UNCHANGED <<ws, status, row, ctr, open, boot, hist, spent>>

\* remove(workspaceRevoked) loads each app again; a missing one ends the request,
\* and a QUARANTINED one keeps the grace clock it has.
nextRevoked(c) ==
    /\ req[c].op = "revoke" /\ req[c].pc = "next"
    /\ \/ \E a \in req[c].todo :
             \/ /\ ~Loaded(a)
                /\ End(c)
                /\ UNCHANGED ws
             \/ /\ row[a].st = "QUARANTINED"
                /\ Skip(c, a)
                /\ UNCHANGED <<ws, lock>>
             \/ /\ Loaded(a)
                /\ row[a].st # "QUARANTINED"
                /\ req' = [req EXCEPT ![c] = [req[c] EXCEPT !.app = a, !.todo = @ \ {a},
                                                            !.pc = "agents", !.snap = Snap({a})]]
                /\ UNCHANGED <<ws, lock>>
       \/ /\ req[c].todo = {}
          /\ ws' = "REVOKED"
          /\ End(c)
    /\ UNCHANGED <<power, status, row, ctr, open, boot, hist, spent>>

\* reapQuarantined: the app is claimed, read again, and destroyed.
nextReaped ==
    LET c == "reaper"
    IN  /\ req[c].op = "reap" /\ req[c].pc = "next"
        /\ \/ \E a \in req[c].todo :
                 \/ /\ Claims(a)
                    /\ row' = [row EXCEPT ![a].st = "REMOVING"]
                    /\ req' = [req EXCEPT ![c] = [req[c] EXCEPT !.app = a, !.todo = @ \ {a},
                                                                !.pc = "agents", !.snap = Snap({a})]]
                    /\ UNCHANGED lock
                 \/ /\ ~Claims(a)
                    /\ Skip(c, a)
                    /\ UNCHANGED <<row, lock>>
           \/ req[c].todo = {} /\ End(c) /\ UNCHANGED row
        /\ UNCHANGED <<ws, power, status, ctr, open, boot, hist, spent>>

-----------------------------------------------------------------------------
(* The steps of one app *)

\* An app of a loop is done: on to the next one.
Done(c) ==
    IF req[c].op \in {"suspend", "resume", "revoke", "reap"}
    THEN req' = [req EXCEPT ![c] = [req[c] EXCEPT !.pc = "next", !.app = "none"]] /\ UNCHANGED lock
    ELSE End(c)

\* A failed app of the reaper is logged and the next one runs; every other
\* failure ends the request.
Failed(c) == IF req[c].op = "reap" THEN Done(c) ELSE End(c)

Verb(op) ==
    CASE op \in {"start", "resume", "unquarantine"} -> "start"
      [] op \in {"stop", "suspend", "revoke"}       -> "stop"
      [] op = "redeploy"                            -> "redeploy"
      [] op \in {"remove", "reap"}                  -> "delete"

AfterAgents(op) ==
    CASE op \in {"remove", "reap"}  -> "ingress"
      [] op = "unquarantine"        -> "events"
      [] OTHER                      -> "row"

\* The agents of all replicas are asked at once.  A revocation ignores what they
\* answer, the reaper takes a missing container for a deleted one.
askAgents(c) ==
    LET r   == req[c]
        ids == Listed(r.snap[r.app])
    IN  /\ r.pc = "agents"
        /\ \E bad \in SUBSET ids : \E hit \in SUBSET bad :
              /\ bad # {} => Fault
              /\ ctr' = Asked(Verb(r.op), ids, bad, hit)
              /\ spent' = IF bad = {} THEN spent ELSE Faulted
              /\ IF r.op = "revoke" \/ assertResponses(ids, bad, r.op = "reap")
                 THEN Goto(c, AfterAgents(r.op)) /\ UNCHANGED <<lock, hist>>
                 ELSE /\ Failed(c)
                      /\ hist' = IF r.op = "unquarantine"
                                 THEN [hist EXCEPT !.torn = @ \cup {r.app}] ELSE hist
        /\ UNCHANGED <<ws, power, status, row, open, boot>>

\* start, stop and redeploy write the state whatever it was.
writeInvoked(c) ==
    LET r == req[c]
    IN  /\ r.op \in {"start", "stop", "redeploy"}
        /\ r.pc = "row"
        /\ row' = [row EXCEPT ![r.app].st = IF r.op = "stop" THEN "STOPPED" ELSE "RUNNING"]
        /\ hist' = [hist EXCEPT
                      !.moved = IF row[r.app].st \notin {"RUNNING", "STOPPED"}
                                THEN @ \cup {r.app} ELSE @,
                      !.held = IF r.op # "stop" THEN @ \ {r.app}
                               ELSE IF row[r.app].susp = "no" THEN @ \cup {r.app} ELSE @]
        /\ End(c)
        /\ UNCHANGED <<ws, power, status, ctr, open, boot, spent>>

writePowered(c) ==
    LET r == req[c]
    IN  /\ r.op \in {"suspend", "resume"}
        /\ r.pc = "row"
        /\ row' = [row EXCEPT ![r.app].st = IF r.op = "suspend" THEN "STOPPED" ELSE "RUNNING",
                              ![r.app].susp = IF r.op = "suspend" THEN "yes" ELSE "no"]
        /\ hist' = [hist EXCEPT !.revived = IF row[r.app].st \notin {"RUNNING", "STOPPED"}
                                            THEN @ \cup {r.app} ELSE @]
        /\ Done(c)
        /\ UNCHANGED <<ws, power, status, ctr, open, boot, spent>>

\* quarantine: the document, with a clock that starts now.
Quarantined(r) == [r EXCEPT !.st = "QUARANTINED", !.stamp = "fresh", !.susp = "no"]

writeQuarantined(c) ==
    LET r == req[c]
    IN  /\ r.op = "revoke"
        /\ r.pc = "row"
        /\ row' = [row EXCEPT ![r.app] = Quarantined(@)]
        /\ hist' = [hist EXCEPT !.grace[r.app] = "running", !.held = @ \ {r.app}]
        /\ Goto(c, "events")
        /\ UNCHANGED <<ws, power, status, ctr, open, lock, boot, spent>>

\* destroy: the document is REMOVING before any agent is asked ...
markRemoving(c) ==
    /\ req[c].pc = "mark"
    /\ row' = [row EXCEPT ![req[c].app].st = "REMOVING"]
    /\ Goto(c, "agents")
    /\ UNCHANGED <<ws, power, status, ctr, open, lock, boot, hist, spent>>

\* ... then the route and the host names are given back ...
removeRoute(c) ==
    /\ req[c].op \in {"remove", "reap"}
    /\ req[c].pc = "ingress"
    /\ \/ Goto(c, "row") /\ UNCHANGED <<lock, spent>>
       \/ Fault /\ spent' = Faulted /\ Failed(c)
    /\ UNCHANGED <<ws, power, status, row, ctr, open, boot, hist>>

\* ... and the document is REMOVED.
writeRemoved(c) ==
    /\ req[c].op \in {"remove", "reap"}
    /\ req[c].pc = "row"
    /\ row' = [row EXCEPT ![req[c].app].st = "REMOVED"]
    /\ Goto(c, "events")
    /\ UNCHANGED <<ws, power, status, ctr, open, lock, boot, hist, spent>>

\* Mutant: unquarantine does not open the billable interval again.
recordUnlockedOnce(c) ==
    LET r == req[c]
    IN  /\ r.op \in {"revoke", "remove", "reap", "unquarantine"}
        /\ r.pc = "events"
        /\ open' = IF r.op = "unquarantine" THEN open ELSE CLOSED(r.app)
        /\ Done(c)
        /\ UNCHANGED <<ws, power, status, row, ctr, boot, hist, spent>>

\* The events that follow the document.
recordUnlocked(c) ==
    LET r == req[c]
    IN  /\ r.op \in {"revoke", "remove", "reap", "unquarantine"}
        /\ r.pc = "events"
        /\ open' = IF r.op = "unquarantine" THEN INSTALLED(r.app, Len(r.snap[r.app]))
                   ELSE CLOSED(r.app)
        /\ Done(c)
        /\ UNCHANGED <<ws, power, status, row, ctr, boot, hist, spent>>

-----------------------------------------------------------------------------
(* Time, nodes, and the master's death *)

\* The grace window of a quarantined app runs out.
graceExpires(a) ==
    /\ row[a].stamp = "fresh"
    /\ InFlight = {}
    /\ row' = [row EXCEPT ![a].stamp = "old"]
    /\ hist' = [hist EXCEPT !.grace[a] = IF row[a].st = "QUARANTINED" THEN "over" ELSE @]
    /\ UNCHANGED <<ws, power, status, ctr, open, lock, req, boot, spent>>

\* The Portal's PATCH of a node's status.
setStatus(n, s) ==
    /\ boot.up = "yes"
    /\ Fault
    /\ status[n] # s
    /\ status' = [status EXCEPT ![n] = s]
    /\ hist' = [hist EXCEPT !.drained = @ \cup {n}]
    /\ spent' = Faulted
    /\ UNCHANGED <<ws, power, row, ctr, open, lock, req, boot>>

\* The master dies and starts again.  Reconciliation asks about ACTIVE workspaces.
crash ==
    /\ boot.up = "yes"
    /\ Fault
    /\ spent' = Faulted
    /\ boot' = [up |-> "no", todo |-> IF ws = "ACTIVE" THEN {i \in Ids : Exists(i)} ELSE {}]
    /\ lock' = "free"
    /\ req' = [c \in Procs |-> Rest]
    /\ hist' = [hist EXCEPT !.torn = @ \cup InFlight,
                            !.leaked = @ \cup UNION {Listed(req[c].made) : c \in Procs}]
    /\ UNCHANGED <<ws, power, status, row, ctr, open>>

\* reconcileContainer's document: an unlisted container is pushed and its state
\* becomes the app's; without a document one is made from the labels.
adopted(r, i) ==
    LET st == IF ctr[i].st = "running" THEN "RUNNING" ELSE "STOPPED"
    IN  IF r.st = "NONE" THEN [None EXCEPT !.st = st, !.reps = <<i>>]
        ELSE [r EXCEPT !.st = st, !.reps = Append(@, i)]

reconcileContainer(i) ==
    LET a == ctr[i].app
    IN  /\ i \in boot.todo
        /\ boot' = [boot EXCEPT !.todo = @ \ {i}]
        /\ \/ /\ row[a].st = "QUARANTINED"
              /\ \/ ctr' = [ctr EXCEPT ![i].st = "stopped"]
                 \/ UNCHANGED ctr
              /\ UNCHANGED <<row, hist>>
           \/ /\ row[a].st # "QUARANTINED"
              /\ i \notin Listed(row[a].reps)
              /\ row' = [row EXCEPT ![a] = adopted(@, i)]
              /\ hist' = [hist EXCEPT !.moved = @ \cup {a}, !.leaked = @ \ {i}]
              /\ UNCHANGED ctr
           \/ /\ row[a].st # "QUARANTINED"
              /\ i \in Listed(row[a].reps)
              /\ UNCHANGED <<row, hist, ctr>>
        /\ UNCHANGED <<ws, power, status, open, lock, req, spent>>

\* A node that does not answer is passed over.
reconcileUnanswered(n) ==
    /\ \E i \in boot.todo : ctr[i].node = n
    /\ boot' = [boot EXCEPT !.todo = {i \in @ : ctr[i].node # n}]
    /\ UNCHANGED <<ws, power, status, row, ctr, open, lock, req, hist, spent>>

serve ==
    /\ boot = [up |-> "no", todo |-> {}]
    /\ boot' = [boot EXCEPT !.up = "yes"]
    /\ UNCHANGED <<ws, power, status, row, ctr, open, lock, req, hist, spent>>

-----------------------------------------------------------------------------

Locked(c) ==
    \/ \E a \in Apps, k \in {1, 2} : deploy(c, a, k) \/ deployMcp(c, a, k)
    \/ \E a \in Apps, t \in {"single", "ha"} : changeAvailabilityTier(c, a, t)
    \/ \E a \in Apps : activateMcp(c, a)
    \/ deployToNodes(c)
    \/ deployMcpToNodes(c)
    \/ deploySecond(c)
    \/ compensate(c)
    \/ shrink(c)
    \/ programRoute(c)
    \/ insertApp(c)
    \/ writeTier(c)
    \/ flipActivated(c)
    \/ recordLocked(c)

Unlocked(c) ==
    \/ \E a \in Apps, v \in {"start", "stop"} : invoke(c, a, v)
    \/ \E a \in Apps : redeploy(c, a)
    \/ \E v \in {"suspend", "resume"} : setWorkspacePower(c, v)
    \/ revokeWorkspace(c)
    \/ upsert(c)
    \/ \E a \in Apps : remove(c, a)
    \/ \E a \in Apps : unquarantine(c, a)
    \/ nextPowered(c)
    \/ nextRevoked(c)
    \/ writeInvoked(c)
    \/ writePowered(c)
    \/ writeQuarantined(c)
    \/ markRemoving(c)

OneApp(c) ==
    \/ askAgents(c)
    \/ removeRoute(c)
    \/ writeRemoved(c)
    \/ recordUnlocked(c)

Next ==
    \/ \E c \in Clients : Locked(c) \/ Unlocked(c)
    \/ reaperTick
    \/ nextReaped
    \/ \E c \in Procs : OneApp(c)
    \/ \E a \in Apps : graceExpires(a)
    \/ \E n \in Nodes, s \in {"ACTIVE", "DRAINING"} : setStatus(n, s)
    \/ crash
    \/ \E i \in Ids : reconcileContainer(i)
    \/ \E n \in Nodes : reconcileUnanswered(n)
    \/ serve

Spec == Init /\ [][Next]_vars

-----------------------------------------------------------------------------
(* Properties *)

RowState == {"NONE", "RUNNING", "STOPPED", "QUARANTINED", "REMOVING", "REMOVED"}
Ops      == {"none", "deploy", "install", "activate", "tierUp", "tierDown", "start", "stop",
             "redeploy", "suspend", "resume", "revoke", "remove", "unquarantine", "reap"}
Pcs      == {"none", "place", "undo", "shrink", "ingress", "row", "events", "next", "agents", "mark"}

Documents == [st : RowState, kind : {"raw", "v2"}, tier : {"single", "ha"}, reps : Seq(Ids),
              susp : {"yes", "no"}, stamp : {"none", "fresh", "old"}]
Containers == [app : Apps, node : Nodes, st : {"running", "stopped", "gone"}] \cup {Absent}
Requests  == [op : Ops, app : Apps \cup {"none"}, pc : Pcs, todo : SUBSET Apps,
              snap : [Apps -> Seq(Ids)], plan : Seq(Nodes), made : Seq(Ids)]
Histories == [torn : SUBSET (Apps \cup {"none"}), moved : SUBSET Apps, revived : SUBSET Apps,
              held : SUBSET Apps, leaked : SUBSET Ids, drained : SUBSET Nodes,
              grace : [Apps -> {"none", "running", "over"}]]

\* Every variable stays in its domain.
TypeOK ==
    /\ ws \in {"ACTIVE", "REVOKED"}
    /\ power \in {"on", "off"}
    /\ status \in [Nodes -> {"ACTIVE", "DRAINING"}]
    /\ row \in [Apps -> Documents]
    /\ ctr \in [Ids -> Containers]
    /\ open \in [Apps -> Nat]
    /\ lock \in Clients \cup {"free"}
    /\ req \in [Procs -> Requests]
    /\ boot \in [up : {"yes", "no"}, todo : SUBSET Ids]
    /\ hist \in Histories
    /\ spent \in [requests : Nat, mishaps : Nat]

\* An app nobody works on.
Settled(a) == boot.up = "yes" /\ a \notin InFlight

\* The reaper takes an app only when the whole grace window has passed since its
\* last revocation, and never one that was started again or that unquarantine (which
\* no route calls) took back: the claim of QUARANTINED -> REMOVING
\* (app-lifecycle-service.ts reapQuarantined) against the clock quarantine() writes,
\* whatever list the tick started from.  The claim does
\* not compare the clock, so an app revoked again while the tick runs is excused.
ReapIsDue ==
    [][LET r == req'["reaper"]
       IN  req["reaper"].pc = "next" /\ r.pc = "agents" =>
              \/ hist.grace[r.app] = "over"
              \/ hist.grace[r.app] = "running" /\ r.app \in hist.torn]_vars

\* A REMOVED document lists no container that still exists, unless another
\* operation on the app ran at the same time: destroy() writes REMOVED only after
\* every agent confirmed, or, for the reaper, no longer knows the container.
RemovedIsGone ==
    \A a \in Apps \ (hist.torn \cup hist.moved) :
        row[a].st = "REMOVED" => \A i \in Listed(row[a].reps) : ~Exists(i)

\* Every container is listed in the document of its app, is about to be, or was
\* leaked by a lost answer, a failed undo, a failed route, a reused id or a
\* crash - and boot reconciliation takes the leaked ones it sees back in.
ListedOrLeaked ==
    \A i \in Ids : Exists(i) =>
        \/ ctr[i].app \in Apps /\ i \in Listed(row[ctr[i].app].reps)
        \/ \E c \in Clients : i \in Listed(req[c].made)
        \/ i \in hist.leaked

\* Documents and nodes account for each other: no container without a document
\* and none under a document that says REMOVED (destroy, deployToNodes' undo).
ContainersAccounted == RemovedIsGone /\ ListedOrLeaked

\* What is billed is what is installed: an app RUNNING or STOPPED is billed for
\* as many replicas as its document lists and any other app for none, unless
\* operations on it overlapped or were cut off, or a start, stop, redeploy or
\* activation moved a document it should not have (quota-service.ts "reserved
\* capacity the workspace is billed for").
BilledIsInstalled ==
    \A a \in Apps \ (hist.torn \cup hist.moved) :
        Settled(a) =>
            Billed(a) = CASE row[a].st \in {"RUNNING", "STOPPED"} -> Len(row[a].reps)
                          [] row[a].st = "REMOVING" -> Billed(a)
                          [] OTHER -> 0

\* The workspace's quota holds as long as no app came back without a check (out of
\* quarantine, from a removal under way, or by a state written unseen): what
\* assertDeployAllowed read is still true when the document is written, because
\* the lock is held until then.
QuotaHeld ==
    hist.moved \cup hist.revived \cup hist.torn = {} =>
        /\ Cardinality(InstalledApps) <= MaxApps
        /\ ReservedReplicas <= MaxReplicas

\* An app that the operator stopped before a suspension is not started by the resume
\* after it (the comment in setWorkspacePower).
OperatorStopHolds ==
    \A a \in hist.held \ (hist.torn \cup hist.moved) : row[a].st # "RUNNING"

\* Two replicas of an HA app are in different failure domains while no node they
\* are on was ever drained.
HaSpread ==
    \A a \in Apps \ hist.moved :
        \A i, j \in Listed(row[a].reps) :
            i # j /\ {ctr[i].node, ctr[j].node} \cap hist.drained = {} =>
                Domain[ctr[i].node] # Domain[ctr[j].node]

=============================================================================
