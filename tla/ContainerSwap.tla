--------------------------- MODULE ContainerSwap ---------------------------
(***************************************************************************)
(* How an agent replaces the container of one app: redeploy (rolling, or   *)
(* stop-then-create), the upgrade of an MCP v3 app with its way back,      *)
(* reconfigure and delete, and the identity broker whose socket, tmpfs     *)
(* copy and durable copy of the binding go with a v3 container.            *)
(*   services/lifecycle-service.ts, services/mcp-broker.ts,                *)
(*   services/redeploy-secret-guard.ts, docker/container-manager.ts,       *)
(*   handlers/apps.ts, server.ts                                           *)
(*                                                                         *)
(* A request is the sequence `todo` of the calls its function still has to *)
(* make; Docker may refuse any of them, the app may exit, the agent or the *)
(* host may die between any two.  A binding is the image version and the   *)
(* epoch, which stands for everything else an upgrade rewrites (receipt,   *)
(* grant, resource manifest).  One request at a time: the master holds a   *)
(* lock for each; nothing in the agent does.                               *)
(***************************************************************************)
EXTENDS Naturals, Sequences, FiniteSets

CONSTANTS
    Apps,          \* the kinds of app: MCP v3 or not, with a data volume, with secrets
    MaxVer,        \* image versions
    MaxEpoch,      \* authorization epochs
    MaxMade,       \* containers ever created
    MaxRequests,
    MaxMishaps     \* refusals by Docker, exits of the app, deaths of the agent or host

ASSUME AppsAssumption == Apps \subseteq [mcp : {"yes", "no"}, vol : {"yes", "no"}, sec : {"yes", "no"}]
ASSUME BoundsAssumption == /\ MaxVer \in Nat \ {0} /\ MaxEpoch \in Nat \ {0}
                           /\ MaxMade \in Nat \ {0} /\ MaxRequests \in Nat
                           /\ MaxMishaps \in Nat

VARIABLES
    mcp,      \* is the app an MCP v3 app
    box,      \* docker id -> its container
    sock,     \* McpBrokerManager.servers: the socket, its container and binding
    store,    \* the durable copy of the binding
    legacy,   \* the copy in the socket's folder, on tmpfs
    conn,     \* the container with an open connection to the socket
    agent,    \* start-up phase, result of the rebind, containers to recover
    req,      \* the request in flight
    last,     \* history: the last answer
    leaked,   \* history: containers left to themselves: Docker refused to remove them or
              \* created them and failed to say so, a death cut that off, or a request
              \* took another one for the app's
    spent     \* history: requests and mishaps so far

vars == <<mcp, box, sock, store, legacy, conn, agent, req, last, leaked, spent>>

Ids      == 1..MaxMade
YesNo    == {"yes", "no"}
NoBox    == [st |-> "none", ver |-> 0, epoch |-> 0, vol |-> "no", sec |-> "no", want |-> "none"]
NoBind   == [ver |-> 0, epoch |-> 0]
Closed   == [of |-> 0, bind |-> NoBind]
Rest     == [op |-> "none", todo |-> <<>>, old |-> 0, new |-> 0, bind |-> NoBind, vol |-> "no",
             sec |-> "no", found |-> NoBox, phase |-> "forward", res |-> "ok", at |-> "none",
             known |-> "yes", blame |-> "none"]
NoAnswer == [op |-> "none", res |-> "none", box |-> 0, found |-> NoBox, at |-> "none",
             blame |-> "none"]

Exists(d)  == box[d].st \in {"created", "running", "exited"}
Existing   == {d \in Ids : Exists(d)}
Running    == {d \in Ids : box[d].st = "running"}
Made       == {d \in Ids : box[d].st # "none"}
Labels(d)  == [ver |-> box[d].ver, epoch |-> box[d].epoch]
Newest(S)  == CHOOSE d \in S : \A e \in S : e <= d

\* dockerState.getById: of the containers with one id a running one, the newest.
getById == IF Running # {} THEN Newest(Running) ELSE IF Existing # {} THEN Newest(Existing) ELSE 0

Init ==
    /\ \E a \in Apps :
         /\ mcp = a.mcp
         /\ box = [d \in Ids |-> IF d # 1 THEN NoBox
                   ELSE [st |-> "running", ver |-> 1, epoch |-> IF mcp = "yes" THEN 1 ELSE 0,
                         vol |-> a.vol, sec |-> a.sec, want |-> "running"]]
    /\ sock = IF mcp = "yes" THEN [of |-> 1, bind |-> Labels(1)] ELSE Closed
    /\ store = sock.bind
    /\ legacy = sock.bind
    /\ conn = 0
    /\ agent = [phase |-> "up", rebind |-> "ok", recover |-> {}]
    /\ req = Rest
    /\ last = [NoAnswer EXCEPT !.op = "deploy", !.res = "ok", !.box = 1, !.found = box[1]]
    /\ leaked = {}
    /\ spent = [mishaps |-> 0, exits |-> 0, reboots |-> 0, requests |-> 0,
                leaks |-> 0, rebinds |-> 0]

-----------------------------------------------------------------------------
(* The calls each function makes, in its order *)

cleanup == <<"close", "closed", "rmdir", "rmstore">>
register == <<"store", "legacy", "bind">>

\* createAndStartRedeployedContainer.
createAndStart ==
    IF mcp = "yes" THEN <<"create">> \o register \o <<"start", "address", "inspect", "look">>
    ELSE <<"create", "start", "address", "look">>

\* Mutant: the old container first.
rollingPlanOldFirst == <<"pull", "stop", "remove", "create", "start", "address", "health", "look">>

rollingPlan == <<"pull", "create", "start", "address", "health", "stop", "remove", "look">>

\* Mutant: the broker before the container.
redeployPlanBrokerFirst ==
    IF mcp = "yes"
    THEN <<"pull", "mounts">> \o cleanup \o <<"stop", "remove">> \o createAndStart
    ELSE <<"pull", "stop", "remove">> \o createAndStart

\* Mutant: the new container before the old one is gone.
redeployPlanOverlap ==
    IF mcp = "yes"
    THEN <<"pull", "mounts", "stop", "remove">> \o cleanup \o createAndStart
    ELSE <<"pull">> \o createAndStart \o <<"stop", "remove">>

redeployPlan ==
    IF mcp = "yes"
    THEN <<"pull", "mounts", "stop", "remove">> \o cleanup \o createAndStart
    ELSE <<"pull", "stop", "remove">> \o createAndStart

reconfigurePlan ==
    <<"pull">> \o cleanup \o <<"stop", "remove", "create">> \o register
        \o <<"start", "address", "look">>

deletePlan == <<"inspect", "stop", "remove", "volumes">>

\* Mutant: the binding of a failed upgrade stays.
undoContainerOnly(r) ==
    IF r.op # "upgrade" THEN <<"stopNew", "removeNew">>
    ELSE <<"stopNew", "removeNew">> \o (IF r.phase = "forward" THEN <<"again">> ELSE <<>>)

\* What the catch blocks undo: the container of this attempt and, for a v3 app,
\* its binding; an upgrade then tries again with the image it found.
undo(r) ==
    IF r.op # "upgrade" THEN <<"stopNew", "removeNew">>
    ELSE <<"stopNew", "removeNew">> \o cleanup
             \o (IF r.phase = "forward" THEN <<"again">> ELSE <<>>)

-----------------------------------------------------------------------------
(* Requests *)

\* A request about container d leaves the others there are to themselves.
Others(d) == (leaked \union Existing) \ {d}

Begin(r) ==
    /\ agent.phase = "up"
    /\ req = Rest
    /\ getById # 0
    /\ spent.requests < MaxRequests
    /\ Cardinality(Made) + 2 <= MaxMade
    /\ spent' = [spent EXCEPT !.requests = @ + 1]
    /\ req' = r
    /\ last' = NoAnswer
    /\ leaked' = IF r.old = 0 THEN leaked ELSE Others(r.old)
    /\ UNCHANGED <<mcp, box, sock, store, legacy, conn, agent>>

selectRedeploySwapStrategy(old, rolling, v3) ==
    IF rolling = "yes" /\ old.vol = "no" /\ old.st = "running" /\ v3 = "no"
    THEN "rolling" ELSE "swap"

\* assertRawRedeployAllowed: the environment of a raw redeploy comes from the
\* labels, which name no secret's value; an upgrade restates it, or is refused.
assertRawRedeployAllowed(old, r) ==
    IF r.op = "upgrade" THEN old.sec = "yes" => r.sec = "yes" ELSE mcp = "no" /\ old.sec = "no"

\* redeployContainerSmart without a binding: the strategy comes from a first look
\* at the container, the function it selects takes a second one.
redeployContainerSmart(v, rolling) ==
    Begin([Rest EXCEPT !.op = selectRedeploySwapStrategy(box[getById], rolling, "no"),
                       !.todo = <<"read">>, !.bind = [ver |-> v, epoch |-> 0]])

\* With a binding: sec says whether the caller restates the secrets, vol whether
\* the new image declares a data volume ("bad": for several replicas, or in a
\* manifest that is not the signed one).
upgradeMcpV3(v, e, sec, vol) ==
    /\ mcp = "yes"
    /\ getById # 0
    /\ e >= box[getById].epoch
    /\ Begin([Rest EXCEPT !.op = "upgrade", !.todo = <<"read">>, !.sec = sec, !.vol = vol,
                          !.bind = [ver |-> v, epoch |-> e]])

\* reconfigureManagedAppV3: the labels must be the binding the master names.
reconfigureManagedAppV3(v, e) ==
    LET d == getById
        r == [Rest EXCEPT !.op = "reconfigure", !.old = d, !.found = box[d],
                          !.vol = box[d].vol, !.sec = box[d].sec,
                          !.bind = [ver |-> v, epoch |-> e]]
    IN  /\ mcp = "yes"
        /\ Begin(IF Labels(d) = r.bind THEN [r EXCEPT !.todo = reconfigurePlan]
                 ELSE [r EXCEPT !.res = "failed", !.at = "read"])

deleteContainer ==
    Begin([Rest EXCEPT !.op = "delete", !.old = getById, !.found = box[getById],
                       !.todo = deletePlan])

-----------------------------------------------------------------------------
(* The steps of a request *)

At(s) == agent.phase = "up" /\ req.todo # <<>> /\ Head(req.todo) = s

Go == req' = [req EXCEPT !.todo = Tail(@)]

\* A call that throws: before the old container is touched the request fails;
\* rolling leaves the old container and delete goes on, whatever Docker says;
\* reconfigure undoes nothing; an attempt is undone.
Caught(r) ==
    LET s  == Head(r.todo)
        b  == [r EXCEPT !.at = s, !.blame = IF @ = "none" /\ r.phase = "revert" THEN s ELSE @]
        rs == IF r.op = "upgrade" /\ r.phase = "revert" THEN "unrecovered" ELSE "failed"
    IN  IF r.op = "delete"
        THEN [r EXCEPT !.todo = Tail(@), !.known = IF s = "inspect" THEN "no" ELSE @,
                       !.res = IF s = "volumes" THEN "failed" ELSE @]
        ELSE IF r.op = "rolling" /\ s \in {"stop", "remove"} THEN [r EXCEPT !.todo = <<"look">>]
        ELSE IF r.op = "reconfigure" \/ s \in {"read", "pull", "mounts", "stop", "remove"}
        THEN [b EXCEPT !.todo = <<>>, !.res = "failed"]
        ELSE [b EXCEPT !.todo = undo(r), !.res = rs]

Throws == req' = Caught(req)

Refuses ==
    /\ spent.mishaps < MaxMishaps
    /\ spent' = [spent EXCEPT !.mishaps = @ + 1]

\* A refusal after which the request leaves container d behind.
Leaves(d) ==
    /\ spent.mishaps < MaxMishaps
    /\ spent' = [spent EXCEPT !.mishaps = @ + 1, !.leaks = @ + 1]
    /\ leaked' = leaked \union {d}

\* The second look: rollingRedeployContainer and redeployContainer read the
\* container again and check what they are about to replace.
read ==
    LET d     == getById
        found == box[d]
        r     == [req EXCEPT !.old = d, !.found = found,
                             !.vol = IF req.op = "upgrade" /\ found.vol = "no" THEN @ ELSE found.vol]
    IN  /\ At("read")
        /\ IF \/ d = 0
              \/ ~assertRawRedeployAllowed(found, req)
              \/ req.op = "rolling" /\ found.st # "running"
           THEN Throws /\ UNCHANGED leaked
           ELSE /\ req' = [r EXCEPT !.todo = IF r.op = "rolling" THEN rollingPlan ELSE redeployPlan]
                /\ leaked' = Others(d)
        /\ UNCHANGED <<mcp, box, sock, store, legacy, conn, agent, last, spent>>

\* pullImage, of the new image and for an upgrade of the one it replaces; nothing
\* has been touched yet.
pullImage ==
    /\ At("pull")
    /\ \/ Go /\ UNCHANGED spent
       \/ Refuses /\ Throws
    /\ UNCHANGED <<mcp, box, sock, store, legacy, conn, agent, last, leaked>>

\* mountsForMcpV3Upgrade refuses before the old container is touched.
mountsForMcpV3Upgrade ==
    /\ At("mounts")
    /\ IF req.vol = "bad" THEN Throws ELSE Go
    /\ UNCHANGED <<mcp, box, sock, store, legacy, conn, agent, last, leaked, spent>>

Target(s) == IF s \in {"stopNew", "removeNew"} THEN req.new ELSE req.old

\* The end of a container ends its connection to the socket.
Hangup(d) == conn' = IF conn = d THEN 0 ELSE conn

\* containerManager.stopContainer records the wish first; 304 and 404 are fine.
\* The catch blocks go on when Docker refuses.
stopContainer(s) ==
    LET d  == Target(s)
        ex == IF d = 0 THEN FALSE ELSE Exists(d)
        stopped(st) == IF ex THEN [box EXCEPT ![d].want = "stopped", ![d].st = st] ELSE box
    IN  /\ At(s)
        /\ \/ /\ Go
              /\ box' = stopped(IF ex /\ box[d].st = "running" THEN "exited"
                                ELSE IF ex THEN box[d].st ELSE "none")
              /\ Hangup(d)
              /\ UNCHANGED <<leaked, spent>>
           \/ /\ ex
              /\ box' = stopped(box[d].st)
              /\ IF s = "stop" THEN Throws ELSE Go
              /\ IF req.op = "rolling" /\ s = "stop" THEN Leaves(d) ELSE Refuses /\ UNCHANGED leaked
              /\ UNCHANGED conn
        /\ UNCHANGED <<mcp, sock, store, legacy, agent, last>>

\* containerManager.removeContainer, by force; the record goes with it.
removeContainer(s) ==
    LET d  == Target(s)
        ex == IF d = 0 THEN FALSE ELSE Exists(d)
    IN  /\ At(s)
        /\ \/ /\ Go
              /\ box' = IF ex THEN [box EXCEPT ![d] = [NoBox EXCEPT !.st = "gone"]] ELSE box
              /\ Hangup(d)
              /\ UNCHANGED <<leaked, spent>>
           \/ /\ ex
              /\ IF s = "remove" THEN Throws ELSE Go
              /\ IF s = "removeNew" \/ req.op \in {"rolling", "delete"}
                 THEN Leaves(d) ELSE Refuses /\ UNCHANGED leaked
              /\ UNCHANGED <<box, conn>>
        /\ UNCHANGED <<mcp, sock, store, legacy, agent, last>>

\* createAppContainer with the labels of the binding; rolling mounts nothing, and
\* a raw redeploy knows no secret.  A revert mounts what the old container did.  When
\* Docker created the container and the inspection that follows fails, its id never
\* reaches the request: nobody removes it, and no wish is recorded for it.
createAppContainer ==
    LET d   == Cardinality(Made) + 1
        v   == IF req.phase = "revert" THEN req.found.vol
               ELSE IF req.op = "rolling" THEN "no" ELSE req.vol
        new == [st |-> "created", ver |-> req.bind.ver, epoch |-> req.bind.epoch,
                vol |-> v, want |-> "running",
                sec |-> IF req.op \in {"rolling", "swap"} THEN "no" ELSE req.sec]
    IN  /\ At("create")
        /\ \/ /\ box' = [box EXCEPT ![d] = new]
              /\ req' = [req EXCEPT !.todo = Tail(@), !.new = d]
              /\ UNCHANGED <<leaked, spent>>
           \/ Refuses /\ Throws /\ UNCHANGED <<box, leaked>>
           \/ Leaves(d) /\ Throws /\ box' = [box EXCEPT ![d] = [new EXCEPT !.want = "none"]]
        /\ UNCHANGED <<mcp, sock, store, legacy, conn, agent, last>>

startContainer ==
    /\ At("start")
    /\ \/ box' = [box EXCEPT ![req.new].st = "running", ![req.new].want = "running"] /\ Go
          /\ UNCHANGED spent
       \/ Refuses /\ Throws /\ UNCHANGED box
    /\ UNCHANGED <<mcp, sock, store, legacy, conn, agent, last, leaked>>

\* getInternalUrl: a container that is not running has no address.
getInternalUrl ==
    /\ At("address")
    /\ \/ req.new \in Running /\ Go /\ UNCHANGED spent
       \/ req.new \notin Running /\ Throws /\ UNCHANGED spent
       \/ Refuses /\ Throws
    /\ UNCHANGED <<mcp, box, sock, store, legacy, conn, agent, last, leaked>>

\* waitForHealthy decides for rolling only; the other functions log a warning.
waitForHealthy ==
    /\ At("health")
    /\ \/ req.new \in Running /\ Go /\ UNCHANGED spent
       \/ req.new \notin Running /\ Throws /\ UNCHANGED spent
       \/ Refuses /\ Throws
    /\ UNCHANGED <<mcp, box, sock, store, legacy, conn, agent, last, leaked>>

\* An upgrade that started and exited is not up; delete reads what to clean up.
inspectContainer ==
    /\ At("inspect")
    /\ \/ /\ UNCHANGED spent
          /\ IF req.op = "delete" THEN req' = [req EXCEPT !.todo = Tail(@) \o IF mcp = "yes" THEN cleanup ELSE <<>>]
             ELSE IF req.new \in Running THEN Go ELSE Throws
       \/ Refuses /\ Throws
    /\ UNCHANGED <<mcp, box, sock, store, legacy, conn, agent, last, leaked>>

\* The last look, for the answer.
look ==
    /\ At("look")
    /\ \/ getById # 0 /\ Go /\ UNCHANGED spent
       \/ getById = 0 /\ Throws /\ UNCHANGED spent
       \/ Refuses /\ Throws
    /\ UNCHANGED <<mcp, box, sock, store, legacy, conn, agent, last, leaked>>

\* deleteContainer's volumes: a refused one is reported as 500.
removeVolume ==
    /\ At("volumes")
    /\ \/ Go /\ UNCHANGED spent
       \/ req.known = "yes" /\ req.found.vol = "yes" /\ Refuses /\ Throws
    /\ UNCHANGED <<mcp, box, sock, store, legacy, conn, agent, last, leaked>>

\* Mutant: the second attempt is the first one again.
revertForward ==
    /\ At("again")
    /\ req' = [req EXCEPT !.phase = "revert", !.res = "recovered", !.new = 0,
                          !.todo = createAndStart]
    /\ UNCHANGED <<mcp, box, sock, store, legacy, conn, agent, last, leaked, spent>>

\* redeployContainer's catch: the image it found, under the new binding's epoch.
revert ==
    /\ At("again")
    /\ req' = [req EXCEPT !.phase = "revert", !.res = "recovered", !.new = 0,
                          !.bind.ver = req.found.ver, !.todo = createAndStart]
    /\ UNCHANGED <<mcp, box, sock, store, legacy, conn, agent, last, leaked, spent>>

\* The route's answer.
answer ==
    /\ agent.phase = "up"
    /\ req # Rest
    /\ req.todo = <<>>
    /\ last' = [op |-> req.op, res |-> req.res, found |-> req.found, at |-> req.at,
                blame |-> req.blame, box |-> req.new]
    /\ req' = Rest
    /\ UNCHANGED <<mcp, box, sock, store, legacy, conn, agent, leaked, spent>>

-----------------------------------------------------------------------------
(* The broker *)

\* persistFinalizedV3 writes the durable copy and then the other; a copy that is
\* there must be the same.
Persists(s, copy) ==
    /\ At(s)
    /\ IF copy \in {NoBind, req.bind} THEN Go ELSE Throws

\* Mutant: only the copy on tmpfs is written.
persistStoreNever ==
    /\ Persists("store", store)
    /\ UNCHANGED <<mcp, box, sock, store, legacy, conn, agent, last, leaked, spent>>

persistStore ==
    /\ Persists("store", store)
    /\ store' = IF store = NoBind THEN req.bind ELSE store
    /\ UNCHANGED <<mcp, box, sock, legacy, conn, agent, last, leaked, spent>>

persistLegacy ==
    /\ Persists("legacy", legacy)
    /\ legacy' = IF legacy = NoBind THEN req.bind ELSE legacy
    /\ UNCHANGED <<mcp, box, sock, store, conn, agent, last, leaked, spent>>

\* registerSocket; the socket before it was closed by cleanup.
registerSocket ==
    /\ At("bind")
    /\ conn = 0
    /\ sock' = [of |-> req.new, bind |-> req.bind]
    /\ Go
    /\ UNCHANGED <<mcp, box, store, legacy, conn, agent, last, leaked, spent>>

\* server.close: no new connection, and the callback waits for the open ones.
close ==
    /\ At("close")
    /\ sock' = Closed
    /\ Go
    /\ UNCHANGED <<mcp, box, store, legacy, conn, agent, last, leaked, spent>>

closed ==
    /\ At("closed")
    /\ conn = 0
    /\ Go
    /\ UNCHANGED <<mcp, box, sock, store, legacy, conn, agent, last, leaked, spent>>

\* cleanup removes the socket's folder, then the durable copy.
rmDirectory ==
    /\ At("rmdir")
    /\ legacy' = NoBind
    /\ Go
    /\ UNCHANGED <<mcp, box, sock, store, conn, agent, last, leaked, spent>>

rmStore ==
    /\ At("rmstore")
    /\ store' = NoBind
    /\ Go
    /\ UNCHANGED <<mcp, box, sock, legacy, conn, agent, last, leaked, spent>>

\* assertContainerBinding: evidence is issued to a running container that carries
\* the labels of the socket's binding.
Attests(d) == sock.of = d /\ d \in Running /\ sock.bind = Labels(d)

\* The app connects; the broker answers, with evidence or a refusal, when the app
\* has sent its request.
dial ==
    /\ conn = 0
    /\ sock.of \in Running
    /\ conn' = sock.of
    /\ UNCHANGED <<mcp, box, sock, store, legacy, agent, req, last, leaked, spent>>

respond ==
    /\ conn # 0
    /\ conn' = 0
    /\ UNCHANGED <<mcp, box, sock, store, legacy, agent, req, last, leaked, spent>>

-----------------------------------------------------------------------------
(* Exits, deaths, start-up *)

exits(d) ==
    /\ d \in Running
    /\ spent.mishaps < MaxMishaps
    /\ spent' = [spent EXCEPT !.mishaps = @ + 1, !.exits = @ + 1]
    /\ box' = [box EXCEPT ![d].st = "exited"]
    /\ Hangup(d)
    /\ UNCHANGED <<mcp, sock, store, legacy, agent, req, last, leaked>>

\* The agent dies; with the host, its containers and the tmpfs copy go too.
dies(host) ==
    /\ spent.mishaps < MaxMishaps
    /\ spent' = [spent EXCEPT !.mishaps = @ + 1, !.reboots = IF host = "yes" THEN @ + 1 ELSE @,
                              !.leaks = @ + Cardinality({req.old, req.new} \intersect Existing)]
    /\ agent' = [phase |-> "rebind", rebind |-> "ok",
                 recover |-> IF host = "yes" \/ agent.recover # {}
                             THEN {d \in Existing : box[d].want = "running"} ELSE {}]
    /\ box' = IF host = "no" THEN box
              ELSE [d \in Ids |-> IF d \in Running THEN [box[d] EXCEPT !.st = "exited"] ELSE box[d]]
    /\ legacy' = IF host = "yes" THEN NoBind ELSE legacy
    /\ sock' = Closed
    /\ conn' = 0
    /\ leaked' = leaked \union ({req.old, req.new} \intersect Existing)
    /\ req' = Rest
    /\ UNCHANGED <<mcp, store, last>>

\* readPersistedV3: the durable copy, else the one on tmpfs.
readPersistedV3 == IF store # NoBind THEN store ELSE legacy

\* restoreFinalizedV3: the container whose labels are the persisted binding.
Restorable == {d \in Existing : readPersistedV3 # NoBind /\ Labels(d) = readPersistedV3}

\* rebindMcpBrokers: what cannot be restored is counted and left; of several that
\* can be the last one listed keeps the socket.
rebindMcpBrokers ==
    /\ agent.phase = "rebind"
    /\ \/ /\ mcp = "yes"
          /\ Restorable # {}
          /\ LET b == readPersistedV3
             IN  /\ \E d \in Restorable : sock' = [of |-> d, bind |-> b]
                 /\ store' = b
                 /\ legacy' = b
          /\ agent' = [agent EXCEPT !.phase = "sweep"]
          /\ UNCHANGED spent
       \/ /\ mcp = "no" \/ Restorable = {}
          /\ agent' = [agent EXCEPT !.phase = "sweep"]
          /\ UNCHANGED <<sock, store, legacy, spent>>
       \/ /\ mcp = "yes"
          /\ spent.mishaps < MaxMishaps
          /\ spent' = [spent EXCEPT !.mishaps = @ + 1, !.rebinds = @ + 1]
          /\ agent' = [agent EXCEPT !.phase = "sweep", !.rebind = "failed"]
          /\ UNCHANGED <<sock, store, legacy>>
    /\ UNCHANGED <<mcp, box, conn, req, last, leaked>>

\* sweepOrphanBrokerState: a durable copy without a container is removed.
sweepOrphanBrokerState ==
    /\ agent.phase = "sweep"
    /\ store' = IF Existing = {} THEN NoBind ELSE store
    /\ agent' = [agent EXCEPT !.phase = "up"]
    /\ UNCHANGED <<mcp, box, sock, legacy, conn, req, last, leaked, spent>>

\* recoverDesiredState: after a boot of the host, what was to run is started (a
\* start-up that did not get through them leaves the old boot id, so the next one
\* begins again); a v3 container only when its socket is bound.
recoverDesiredState(d) ==
    /\ agent.phase = "up"
    /\ d \in agent.recover
    /\ agent' = [agent EXCEPT !.recover = @ \ {d}]
    /\ box' = IF box[d].st = "exited" /\ box[d].want = "running" /\ (mcp = "yes" => sock.of # 0)
              THEN [box EXCEPT ![d].st = "running"] ELSE box
    /\ UNCHANGED <<mcp, sock, store, legacy, conn, req, last, leaked, spent>>

-----------------------------------------------------------------------------
Requests ==
    \/ \E v \in 1..MaxVer, y \in YesNo : redeployContainerSmart(v, y)
    \/ \E v \in 1..MaxVer, e \in 1..MaxEpoch, sec \in YesNo, vol \in {"yes", "no", "bad"} :
         upgradeMcpV3(v, e, sec, vol)
    \/ \E v \in 1..MaxVer, e \in 1..MaxEpoch : reconfigureManagedAppV3(v, e)
    \/ deleteContainer

\* What the agent does by itself once it has a request or has been started.
Steps ==
    \/ read \/ pullImage \/ mountsForMcpV3Upgrade
    \/ \E s \in {"stop", "stopNew"} : stopContainer(s)
    \/ \E s \in {"remove", "removeNew"} : removeContainer(s)
    \/ createAppContainer \/ startContainer \/ getInternalUrl \/ waitForHealthy
    \/ inspectContainer \/ look \/ removeVolume \/ revert \/ answer
    \/ persistStore \/ persistLegacy \/ registerSocket
    \/ close \/ closed \/ rmDirectory \/ rmStore
    \/ rebindMcpBrokers \/ sweepOrphanBrokerState

Next ==
    \/ Requests
    \/ Steps
    \/ dial \/ respond
    \/ \E d \in Ids : exits(d) \/ recoverDesiredState(d)
    \/ \E host \in YesNo : dies(host)

Spec == Init /\ [][Next]_vars

\* Docker answers, one way or the other, and no wait of the agent is unbounded
\* but the one for the broker's connections.
FairSpec == Spec /\ WF_vars(Steps)

-----------------------------------------------------------------------------
(* Properties *)

Box     == [st : {"none", "created", "running", "exited", "gone"}, ver : 0..MaxVer,
            epoch : 0..MaxEpoch, vol : YesNo, sec : YesNo, want : {"none", "running", "stopped"}]
Binding == [ver : 0..MaxVer, epoch : 0..MaxEpoch]

\* Types of the state; a container never gets a mount the request was refused for.
TypeOK ==
    /\ mcp \in YesNo
    /\ box \in [Ids -> Box]
    /\ sock \in [of : 0..MaxMade, bind : Binding]
    /\ store \in Binding /\ legacy \in Binding
    /\ conn \in 0..MaxMade
    /\ agent \in [phase : {"up", "rebind", "sweep"}, rebind : {"ok", "failed"}, recover : SUBSET Ids]
    /\ req.op \in {"none", "rolling", "swap", "upgrade", "reconfigure", "delete"}
    /\ req.old \in 0..MaxMade /\ req.new \in 0..MaxMade /\ req.bind \in Binding
    /\ last.res \in {"none", "ok", "failed", "recovered", "unrecovered"}
    /\ leaked \subseteq Ids

\* Between requests the app has one container at most, and one more for every
\* removal Docker refused or a death of the agent cut off, and for every one that
\* was created but could not be inspected; where there was none of these a delete
\* answered with ok left nothing (lifecycle-service.ts: the catch blocks and
\* deleteContainer).
SettledSingle ==
    req = Rest => /\ Cardinality(Existing) <= 1 + spent.leaks
                  /\ last.op = "delete" /\ last.res = "ok" /\ leaked = {} => Existing = {}

\* Two running containers never share the data volume, the corruption rolling is
\* refused for and a failed attempt is removed for; again but for containers
\* that were left to themselves.
SingleWriter == Cardinality({d \in Running \ leaked : box[d].vol = "yes"}) <= 1

\* What a swap leaves behind, at its end and on the way: no second container, and
\* never a second writer of the volume.
OneContainer == SettledSingle /\ SingleWriter

\* A swap answered with ok or recovered lost neither the data volume nor the
\* secrets of the container it replaced.
KeepsItsOwn ==
    LET b == box[last.box]
    IN  last.res \in {"ok", "recovered"} /\ last.box # 0 /\ last.box \in Existing =>
          /\ last.found.vol = "yes" => b.vol = "yes"
          /\ last.found.sec = "yes" => b.sec = "yes"

\* recovered means what the master takes it for: the image the upgrade found is
\* back, under the data it had.
RecoveredIsPrevious ==
    last.res = "recovered" /\ last.box \in Existing =>
      /\ box[last.box].ver = last.found.ver
      /\ box[last.box].vol = last.found.vol

\* What the answer of a swap promises of the container it names (redeployContainer,
\* assertRawRedeployAllowedForLabels).
AnswerHolds == KeepsItsOwn /\ RecoveredIsPrevious

\* Only Docker or the app itself can keep an upgrade from being reverted: what
\* the failed attempt left on disk never does (`the revert would throw every
\* time`, the comment on createAndStartRedeployedContainer).
RevertNotBlocked ==
    last.res = "unrecovered" => last.blame \notin {"store", "legacy", "bind"}

\* A rolling redeploy leaves the app serving at every moment, also when it fails;
\* but for a failure of the very last look, whose catch block removes the new
\* container after the old one is gone.
RollingServes ==
    LET rolls == \/ req.op = "rolling" /\ req.old # 0 /\ req.at # "look"
                 \/ req = Rest /\ last.op = "rolling" /\ last.at \notin {"look", "read"}
    IN  rolls /\ spent.exits = 0 /\ spent.reboots = 0 => Running # {}

\* A v3 container that an answer has reported runs and gets its evidence from the
\* broker, also after the agent or the host was started again, unless the app has
\* exited; unless the rebind at start-up failed, which nothing retries (and without
\* a socket recovery does not start the container); and unless a container that was
\* left behind has the same labels, and may be given the socket instead.
AnsweredAttests ==
    (/\ mcp = "yes" /\ agent.phase = "up" /\ agent.rebind = "ok"
     /\ req = Rest /\ last.res \in {"ok", "recovered"} /\ last.op # "delete"
     /\ \A d \in Existing \ {last.box} : Labels(d) # Labels(last.box)
     /\ \/ last.box \in Running
        \/ last.box \in Existing /\ agent.recover = {} /\ spent.exits = 0 /\ spent.rebinds = 0)
    => Attests(last.box)

\* A redeploy or an upgrade comes to an end: the old container is stopped before
\* the broker waits for its connections.
RedeployEnds ==
    req.op \in {"rolling", "swap", "upgrade"} ~> (req = Rest \/ req.new \in leaked)

=============================================================================
