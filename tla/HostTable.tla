------------------------------ MODULE HostTable ------------------------------
(***************************************************************************)
(* From the registry's rows to a request: every master publishes the rows  *)
(* as routing tables to the fleet's nodes, each node keeps the newest one  *)
(* in memory, an ingress listener looks a host up, signs the request and   *)
(* forwards it to the runtime listener of the node that has the container. *)
(*   master/host-table-publisher.ts, master/master-entry.ts,               *)
(*   handlers/host-table.ts, proxy/host-table.ts,                          *)
(*   proxy/ingress-listener.ts, proxy/runtime-listener.ts                  *)
(* Composed with HostRegistry, which writes the rows and marks masters     *)
(* dirty.  The app of a workspace has one replica.                         *)
(***************************************************************************)
EXTENDS HostRegistry

CONSTANTS
    Role,          \* node -> "RUNTIME", "INGRESS" or "BOTH"
    Place,         \* workspace -> the node of its app's replica
    Default,       \* workspace -> the app's own label, or "none"
    McpV3          \* the workspaces whose app is an MCP v3 app

Nodes        == DOMAIN Role
RuntimeNodes == {n \in Nodes : Role[n] \in {"RUNTIME", "BOTH"}}
IngressNodes == {n \in Nodes : Role[n] \in {"INGRESS", "BOTH"}}

ASSUME PlaceAssumption   == \A w \in Workspaces : Place[w] \in RuntimeNodes
ASSUME DefaultAssumption == \A w \in Workspaces : Default[w] \in Tenant \union {"none"}
ASSUME McpV3Assumption   == McpV3 \subseteq Workspaces

VARIABLES
    app,      \* apps: workspace -> the state of its app
    rev,      \* apps_master_meta: the routing revision
    pub,      \* master -> its HostTablePublisher
    runtime,  \* node -> runtimeTable
    ingress,  \* node -> ingressTable
    net,      \* pushes a master gave up on that are still under way
    floor,    \* history: node -> the revision when the node was started
    silent    \* history: a row changed and no master was told since

tableVars == <<app, rev, pub, runtime, ingress, net, floor, silent>>
hostVars  == <<registryVars, dirty, tableVars>>

NoRule    == [ws |-> "none", st |-> "none"]
NoRules   == [h \in Hosts |-> NoRule]
NoRuntime == [rev |-> 0, hosts |-> [h \in Hosts |-> "none"]]
NoIngress == [rev |-> 0, rules |-> NoRules, keys |-> {}]
Idle      == [at |-> "idle", rev |-> 0, rows |-> <<>>, apps |-> <<>>, rules |-> NoRules,
              left |-> {}, failed |-> "no"]

Listed(r) == r.st \in {"PENDING", "ACTIVE", "SUSPENDED", "WS_SUSPENDED"}

\* buildSnapshot's rules: the rows of an app, or its own label when it has none.
rulesOf(rows, apps) ==
    LET has(w)     == \E h \in Hosts : rows[h].ws = w /\ Listed(rows[h])
        owners(h)  == {w \in Workspaces : /\ apps[w] # "REMOVED"
                                          /\ \/ Listed(rows[h]) /\ rows[h].ws = w
                                             \/ Default[w] = h /\ ~has(w)}
        rule(h, w) == [ws |-> w, st |-> IF apps[w] # "RUNNING" \/ rows[h].st \in {"SUSPENDED", "WS_SUSPENDED"}
                                        THEN "closed" ELSE "open"]
    IN  [h \in Hosts |-> IF owners(h) = {} THEN NoRule ELSE rule(h, CHOOSE w \in owners(h) : TRUE)]

\* The keys of the nodes that sign; they are part of the ingress table.
signingKeys == IngressNodes

\* An app's hosts are pushed to the node of its replica.
RuntimeTable(n, r, rules) ==
    [rev |-> r, hosts |-> [h \in Hosts |-> IF rules[h].ws # "none" /\ Place[rules[h].ws] = n THEN rules[h].ws ELSE "none"]]

IngressTable(r, rules) == [rev |-> r, rules |-> rules, keys |-> signingKeys]

\* Masters that start together, or a fleet that is served already.
HostInit ==
    /\ Init
    /\ \A w \in Workspaces : Default[w] # "none" => label[Default[w]] = w
    /\ \A h \in Tenant \ scene.hosts : (\A w \in Workspaces : Default[w] # h) => label[h] = "free"
    /\ app = [w \in Workspaces |-> "RUNNING"]
    /\ rev = IF scene.publishes = "warm" THEN 1 ELSE 0
    /\ pub = [m \in scene.masters |-> Idle]
    /\ runtime = [n \in Nodes |->
                    IF rev = 1 /\ n \in RuntimeNodes THEN RuntimeTable(n, 1, rulesOf(row, app)) ELSE NoRuntime]
    /\ ingress = [n \in Nodes |->
                    IF rev = 1 /\ n \in IngressNodes THEN IngressTable(1, rulesOf(row, app)) ELSE NoIngress]
    /\ net = {}
    /\ floor = [n \in Nodes |-> 0]
    /\ silent = "no"

-----------------------------------------------------------------------------
(* The rows and the states of the apps *)

\* What changes rows and tells no master leaves the tables behind.
tablesWait ==
    /\ silent' = IF dirty' # {} THEN "no" ELSE IF row' # row THEN "yes" ELSE silent
    /\ UNCHANGED <<app, rev, pub, runtime, ingress, net, floor>>

rowsChange == (Calls \/ Writes \/ Work \/ Retention) /\ tablesWait

\* AppLifecycleService writes the app's state and tells the publisher.
setAppState(m, w, st) ==
    /\ scene.publishes # "no"
    /\ Change
    /\ app[w] \notin {st, "REMOVED"}
    /\ app' = [app EXCEPT ![w] = st]
    /\ dirty' = dirty \union {m}
    /\ silent' = "no"
    /\ UNCHANGED <<scene, label, row, obj, made, put, power, worker, keep, hist,
                   rev, pub, runtime, ingress, net, floor>>

\* A master ends, its publisher with it; started again, it publishes.
restart(m) ==
    /\ crash(m)
    /\ pub' = [pub EXCEPT ![m] = Idle]
    /\ silent' = "no"
    /\ UNCHANGED <<app, rev, runtime, ingress, net, floor>>

\* A table that its node has lost, or rows nobody was told of.
Behind == silent = "yes" \/ \E n \in Nodes : \/ n \in RuntimeNodes /\ runtime[n].rev <= floor[n]
                                             \/ n \in IngressNodes /\ ingress[n].rev <= floor[n]

\* Mutant: the timer only repeats what is known to have changed.
resyncChanges(m) == silent = "yes" /\ dirty' = dirty \union {m}

resync(m) == dirty' = dirty \union {m}

\* The resync timer, every five minutes.  It is left out where it would publish the
\* same tables again: that bounds the revisions.
tick(m) ==
    /\ scene.publishes # "no"
    /\ dirty = {} /\ \A x \in scene.masters : pub[x].at = "idle"
    /\ Behind
    /\ resync(m)
    /\ silent' = "no"
    /\ UNCHANGED <<registryVars, app, rev, pub, runtime, ingress, net, floor>>

-----------------------------------------------------------------------------
(* HostTablePublisher *)

\* Mutant: the revision is taken when the snapshot is there.
passLate == <<"snapshot", "revision">>

\* The revision is taken before the snapshot is read.
passOrder == <<"revision", "snapshot">>

\* pushSnapshot: all the runtime tables, then the ingress tables.
pushOrder == <<"runtime", "ingress">>

Steps     == passOrder \o pushOrder \o <<"end">>
After(at) == Steps[1 + CHOOSE i \in 1..4 : Steps[i] = at]
onto(p, at) == [p EXCEPT !.at = at, !.left = CASE at = "runtime" -> RuntimeNodes
                                               [] at = "ingress" -> IngressNodes
                                               [] OTHER -> {}]

\* markDirty kicks the pump, which takes one pass after the other while it is dirty.
pump(m) ==
    /\ scene.publishes # "no"
    /\ m \in dirty
    /\ pub[m].at = "idle"
    /\ dirty' = dirty \ {m}
    /\ pub' = [pub EXCEPT ![m] = onto(Idle, Head(Steps))]
    /\ UNCHANGED <<registryVars, app, rev, runtime, ingress, net, floor, silent>>

nextRevision(m) ==
    /\ pub[m].at = "revision"
    /\ rev' = rev + 1
    /\ pub' = [pub EXCEPT ![m] = onto([@ EXCEPT !.rev = rev + 1], After("revision"))]
    /\ UNCHANGED <<registryVars, dirty, app, runtime, ingress, net, floor, silent>>

\* buildSnapshot reads the hosts and the apps, in either order.
buildSnapshot(m) ==
    LET p == pub[m]
    IN  /\ p.at = "snapshot"
        /\ \E q \in {[p EXCEPT !.rows = row], [p EXCEPT !.apps = app]} :
             /\ q # p
             /\ pub' = [pub EXCEPT ![m] = IF q.rows = <<>> \/ q.apps = <<>> THEN q
                                          ELSE onto([q EXCEPT !.rules = rulesOf(q.rows, q.apps),
                                                              !.rows = <<>>, !.apps = <<>>], After("snapshot"))]
        /\ UNCHANGED <<registryVars, dirty, app, rev, runtime, ingress, net, floor, silent>>

Message(p, n) == [kind |-> p.at, to |-> n, rev |-> p.rev, rules |-> p.rules]

isNewer(candidate, current) == candidate.rev > current.rev

\* PUT /fleet/host-table/...: the newer table is kept.
receive(msg) ==
    LET n == msg.to
    IN  IF msg.kind = "runtime"
        THEN /\ runtime' = IF isNewer(msg, runtime[n])
                          THEN [runtime EXCEPT ![n] = RuntimeTable(n, msg.rev, msg.rules)] ELSE runtime
             /\ UNCHANGED ingress
        ELSE /\ ingress' = IF isNewer(msg, ingress[n])
                          THEN [ingress EXCEPT ![n] = IngressTable(msg.rev, msg.rules)] ELSE ingress
             /\ UNCHANGED runtime

\* One push settles: it was answered, or it failed, or the master gave up on it
\* while it is still under way.  One failure does not stop the others.
pushTable(m) ==
    LET p == pub[m]
    IN  \E n \in p.left :
          /\ \/ /\ receive(Message(p, n))
                /\ pub' = [pub EXCEPT ![m].left = @ \ {n}]
                /\ UNCHANGED <<net, spent>>
             \/ /\ Fault
                /\ net' \in {net, net \union {Message(p, n)}}
                /\ pub' = [pub EXCEPT ![m].left = @ \ {n}, ![m].failed = "yes"]
                /\ UNCHANGED <<runtime, ingress>>
          /\ UNCHANGED <<scene, label, row, obj, made, put, power, worker, keep, hist, dirty, app, rev, floor, silent>>

\* The runtime tables are settled, then the ingress tables.  What failed is pushed
\* again, with its revision, unless something new is to be published.
pushSettled(m) ==
    LET p == pub[m]
    IN  /\ p.at \in {"runtime", "ingress"}
        /\ p.left = {}
        /\ pub' = [pub EXCEPT ![m] =
                     IF After(p.at) # "end" THEN onto(p, After(p.at))
                     ELSE IF p.failed = "yes" /\ m \notin dirty THEN onto([p EXCEPT !.failed = "no"], Head(pushOrder))
                     ELSE Idle]
        /\ UNCHANGED <<registryVars, dirty, app, rev, runtime, ingress, net, floor, silent>>

deliverLate ==
    /\ \E msg \in net : receive(msg) /\ net' = net \ {msg}
    /\ UNCHANGED <<registryVars, dirty, app, rev, pub, floor, silent>>

\* The tables are kept in memory only.
nodeRestart(n) ==
    /\ scene.publishes # "no"
    /\ Fault
    /\ runtime' = [runtime EXCEPT ![n] = NoRuntime]
    /\ ingress' = [ingress EXCEPT ![n] = NoIngress]
    /\ floor' = [floor EXCEPT ![n] = rev]
    /\ UNCHANGED <<scene, label, row, obj, made, put, power, worker, keep, hist, dirty, app, rev, pub, net, silent>>

-----------------------------------------------------------------------------
(* A request for host h that arrives at ingress node i *)

\* The runtime listener looks for the signer's key in its own ingress table.
findSigningKey(n, kid) == kid \in ingress[n].keys

\* authenticateRuntimeRequest: the signature is good when the key is known.
authenticated(n, kid) == findSigningKey(n, kid)

\* resolveTarget: an app that runs has its container, but findByAppId sees those of
\* MCP v3 apps only.
resolveTarget(n, h) ==
    LET w == runtime[n].hosts[h]
    IN  IF w = "none" THEN "404" ELSE IF w \in McpV3 THEN w ELSE "502"

runtimeListener(n, kid, h) == IF authenticated(n, kid) THEN resolveTarget(n, h) ELSE "401"

\* The ingress listener: an exact rule, open, and the node of the replica.
forward(i, h) ==
    LET rule == ingress[i].rules[h]
    IN  CASE rule.st = "none"   -> "404"
          [] rule.st = "closed" -> "503"
          [] OTHER              -> runtimeListener(Place[rule.ws], i, h)

Publish(m) == pump(m) \/ nextRevision(m) \/ buildSnapshot(m) \/ pushTable(m) \/ pushSettled(m)

HostNext ==
    \/ rowsChange
    \/ \E m \in scene.masters : restart(m) \/ tick(m) \/ Publish(m)
    \/ \E m \in scene.masters, w \in scene.ws, st \in {"RUNNING", "STOPPED", "REMOVED"} : setAppState(m, w, st)
    \/ deliverLate
    \/ \E n \in Nodes : nodeRestart(n)

HostSpec == HostInit /\ [][HostNext]_hostVars

\* The worker, the publishers and their timers go on; nobody is obliged to call.
FairHostSpec ==
    /\ HostSpec
    /\ WF_hostVars(Work /\ tablesWait)
    /\ \A m \in {"m1", "m2"} : WF_hostVars(m \in scene.masters /\ Publish(m)) /\ WF_hostVars(m \in scene.masters /\ tick(m))

-----------------------------------------------------------------------------
(* Properties *)

\* What the rows and the apps say about a host.
Expected(h) ==
    LET rule == rulesOf(row, app)[h]
    IN  CASE rule.st = "none"   -> "404"
          [] rule.st = "closed" -> "503"
          [] OTHER              -> IF rule.ws \in McpV3 THEN rule.ws ELSE "502"

Agreed == \A i \in IngressNodes, h \in Hosts : forward(i, h) = Expected(h)

\* When every master that was told is done and no node has lost its tables, every
\* request ends where the rows say: at the app's container (502 when the app is not
\* an MCP v3 app), at the 503 of what is suspended, or at 404 -- whatever two masters,
\* retries and late pushes did to the tables in between (HostTablePublisher:
\* `revision alone is both necessary and sufficient`).
RequestsReachRows ==
    /\ scene.publishes # "no"
    /\ dirty = {} /\ \A m \in scene.masters : pub[m].at = "idle"
    /\ ~Behind
    => Agreed

\* An ingress node learns of a route after the runtime node behind it (pushSnapshot:
\* `an ingress node must never learn a route before the runtime node behind it has
\* the container to serve it`), with one master and no push that failed.
RuntimeFirst ==
    [][\A i \in IngressNodes, h \in Hosts :
         LET new == ingress'[i].rules[h]
         IN  /\ Cardinality(scene.masters) = 1 /\ spent.faults = 0
             /\ new.ws \notin {"none", ingress[i].rules[h].ws}
             => runtime[Place[new.ws]].hosts[h] = new.ws]_hostVars

\* After the last change and the last failure the whole fleet answers as the rows
\* say, for good: a change that nobody was told of and a node that lost its tables
\* are made good by the timer.
TablesConverge == scene.publishes # "no" ~> [](scene.publishes # "no" => Agreed)

=============================================================================
