---------------------------- MODULE HostRegistry ----------------------------
(***************************************************************************)
(* The apps master's registry of public hostnames: the label namespace,    *)
(* the rows of app_hosts, the sweep of a workspace's rows when it is       *)
(* suspended or resumed, and the worker that creates and deletes the       *)
(* Cloudflare objects of CUSTOM hosts.                                     *)
(*   master/app-host-registry.ts, master/label-namespace.ts,               *)
(*   master/cf-custom-hostname-worker.ts, master/portal-admin-routes.ts,   *)
(*   migrations/seed-host-labels.ts                                        *)
(*                                                                         *)
(* Each call to Mongo or Cloudflare is a step.  A PUT of a workspace holds *)
(* that workspace's lock, which is one of its master's process; sweeps,    *)
(* the removal at uninstall, the worker and the retention job hold none.   *)
(* One app per workspace; the worker is configured at one master at most.  *)
(***************************************************************************)
EXTENDS Naturals, Sequences, FiniteSets

CONSTANTS
    Workspaces,
    Tenant,        \* hosts under the base domain, whose first label is shared
    Custom,        \* hosts on a domain of the operator
    Scenes         \* the instances: processes at work and bounds, one per behaviour

Hosts   == Tenant \union Custom
Masters == {"m1", "m2"}

\* Who writes rows: a master for a workspace, under its lock or at an uninstall, and in
\* a sweep.
Callers == Masters \X Workspaces \X {"locked", "uninstall"}
Powers  == Masters \X Workspaces \X {"suspend", "resume"}

ASSUME HostsAssumption == Tenant \intersect Custom = {} /\ "none" \notin Hosts
ASSUME WorkspacesAssumption == "free" \notin Workspaces /\ "none" \notin Workspaces
ASSUME ScenesAssumption ==
    Scenes \subseteq [masters : SUBSET Masters \ {{}}, cf : Masters \union {"off"}, publishes : {"cold", "warm", "no"},
                      ws : SUBSET Workspaces, hosts : SUBSET Hosts, changes : Nat, faults : Nat]

VARIABLES
    scene,    \* the instance
    label,    \* host_labels: tenant host -> the holder of its label
    row,      \* app_hosts: host -> its document
    obj,      \* Cloudflare: custom host -> the object, by number
    made,     \* Cloudflare: objects created so far
    put,      \* caller -> its PUT, reservation or removal
    power,    \* sweep -> how far it is
    worker,   \* CfCustomHostnameWorker
    keep,     \* the retention job
    dirty,    \* masters whose publisher was told that the table changed
    hist,     \* history, see Init
    spent     \* changes and faults so far

registryVars == <<scene, label, row, obj, made, put, power, worker, keep, hist, spent>>

Routed  == {"PENDING", "ACTIVE", "SUSPENDED"}
Wanted  == {"none", "ACTIVE", "SUSPENDED"}
NoRow   == [ws |-> "none", st |-> "none", pre |-> "none", cf |-> 0]
NoObj   == [id |-> 0, ours |-> "no"]
Foreign == [id |-> 0, ours |-> "foreign"]
NoPut   == [op |-> "none", at |-> "none", want |-> [h \in Hosts |-> "none"], cur |-> {}, todo |-> {},
            h |-> "none", told |-> "no"]
NoPower == [left |-> <<>>, modified |-> "no"]
NoWork  == [pending |-> "no", at |-> "idle", create |-> {}, delete |-> {},
            snap |-> [h \in Custom |-> [st |-> "none", cf |-> 0]], h |-> "none", id |-> 0]
NoKeep  == [list |-> [h \in Custom |-> 0], h |-> "none"]

Rows(w)      == {h \in Hosts : row[h].ws = w /\ row[h].st # "none"}
Change       == /\ spent.changes < scene.changes
                /\ spent' = [spent EXCEPT !.changes = @ + 1]
Fault        == /\ spent.faults < scene.faults
                /\ spent' = [spent EXCEPT !.faults = @ + 1]
notified(m) == IF scene.cf = m THEN [worker EXCEPT !.pending = "yes"] ELSE worker

Set(h, st) == [row EXCEPT ![h].st = st]

\* A label of an app from before the registry is held although it has no row.
seedHostLabels == [Tenant -> Workspaces \union {"free"}]

\* hist.held: the hosts an operator suspended; hist.undone: those whose state the
\* worker wrote over since; hist.recorded: the numbers a row has held; hist.released:
\* the hosts that lost their object behind their row: by a write without lock, or by
\* a DELETE of the retention job whose answer was lost.
Init ==
    /\ scene \in Scenes
    /\ label \in seedHostLabels
    /\ row = [h \in Hosts |-> NoRow]
    /\ \E S \in SUBSET (Custom \intersect scene.hosts) :
         /\ scene.cf = "off" => S = {}
         /\ obj = [h \in Custom |-> IF h \in S THEN Foreign ELSE NoObj]
    /\ made = 0
    /\ put = [s \in Callers |-> NoPut]
    /\ power = [p \in Powers |-> NoPower]
    /\ worker = NoWork
    /\ keep = NoKeep
    /\ dirty = IF scene.publishes = "warm" THEN {} ELSE scene.masters
    /\ hist = [held |-> {}, undone |-> {}, recorded |-> {}, released |-> {}]
    /\ spent = [changes |-> 0, faults |-> 0]

-----------------------------------------------------------------------------
(* reserve and setDesiredHosts *)

\* The row exists: it is returned to its app, anyone else gets 409; else the
\* label is asked for.
reserve(m, w, h) ==
    LET s == <<m, w, "locked">>
    IN  /\ Change
        /\ put[s] = NoPut
        /\ row[h].st = "none"
        /\ put' = [put EXCEPT ![s] = [NoPut EXCEPT !.op = "reserve", !.at = "hold", !.h = h]]
        /\ UNCHANGED <<scene, label, row, obj, made, power, worker, keep, dirty, hist>>

\* A PUT begins: dead rows of the app are cleared, the others are read.
setDesiredHosts(m, w, want) ==
    LET s    == <<m, w, "locked">>
        dead == {h \in Rows(w) : row[h].st = "DELETING" /\ row[h].cf = 0}
    IN  /\ Change
        /\ put[s] = NoPut
        /\ row' = [h \in Hosts |-> IF h \in dead THEN NoRow ELSE row[h]]
        /\ put' = [put EXCEPT ![s] =
                     [NoPut EXCEPT !.op = "put", !.at = "next", !.want = want,
                                   !.todo = {h \in Hosts : want[h] # "none"},
                                   !.cur = {h \in Rows(w) : row[h].st # "DELETING"}]]
        /\ UNCHANGED <<scene, label, obj, made, power, worker, keep, dirty, hist>>

\* The next host of the list: its row is updated, whatever it is by now, or its
\* label is asked for.
nextHost(s) ==
    LET p == put[s]
    IN  /\ p.at = "next"
        /\ \E h \in p.todo :
             IF h \in p.cur
             THEN /\ row' = IF row[h].st = "none" THEN row ELSE Set(h, p.want[h])
                  /\ put' = [put EXCEPT ![s].todo = @ \ {h}]
                  /\ hist' = [hist EXCEPT !.held = IF p.want[h] = "SUSPENDED" /\ row[h].st # "none"
                                                   THEN @ \union {h} ELSE @ \ {h},
                                          !.released = IF row[h].st = "DELETING" THEN @ \union {h} ELSE @,
                                          !.undone = @ \ {h}]
             ELSE put' = [put EXCEPT ![s].at = "hold", ![s].h = h] /\ UNCHANGED <<row, hist>>
        /\ UNCHANGED <<scene, label, obj, made, power, worker, keep, dirty, spent>>

\* Mutant: a label that is claimed counts as the caller's, whoever holds it.
mayUseAny(w, h) == h \in Hosts /\ w \in Workspaces

\* LabelNamespace.hold and, when it is claimed, isAvailableFor.
mayUse(w, h) == h \in Tenant => label[h] \in {"free", w}

holdLabel(s) ==
    LET p == put[s]
        w == s[2]
    IN  /\ p.at = "hold"
        /\ IF mayUse(w, p.h)
           THEN /\ label' = IF p.h \in Tenant /\ label[p.h] = "free" THEN [label EXCEPT ![p.h] = w] ELSE label
                /\ put' = [put EXCEPT ![s].at = "insert"]
           ELSE put' = [put EXCEPT ![s] = NoPut] /\ UNCHANGED label
        /\ UNCHANGED <<scene, row, obj, made, power, worker, keep, dirty, hist, spent>>

\* insertOne: the _id is the hostname, of any workspace, in any state; new rows
\* are PENDING, also those that were to be SUSPENDED.
insertRow(s) ==
    LET p == put[s]
    IN  /\ p.at = "insert"
        /\ IF row[p.h].st # "none" THEN put' = [put EXCEPT ![s] = NoPut] /\ UNCHANGED <<row, hist>>
           ELSE /\ row' = [row EXCEPT ![p.h] = [NoRow EXCEPT !.ws = s[2], !.st = "PENDING"]]
                /\ hist' = [hist EXCEPT !.held = @ \ {p.h}, !.undone = @ \ {p.h}]
                /\ put' = [put EXCEPT ![s] = IF p.op = "reserve" THEN NoPut
                                             ELSE [p EXCEPT !.at = "next", !.todo = @ \ {p.h}, !.h = "none"]]
        /\ UNCHANGED <<scene, label, obj, made, power, worker, keep, dirty, spent>>

-----------------------------------------------------------------------------
(* retire: deleteMany of what has no Cloudflare object, then updateMany    *)

\* What is retired is an operator's concern no more.
dropped(S) == [hist EXCEPT !.held = @ \ S, !.undone = @ \ S]

deleteMany(S) ==
    LET D == {h \in S : row[h].cf = 0}
    IN  /\ row' = [h \in Hosts |-> IF h \in D THEN NoRow ELSE row[h]]
        /\ hist' = dropped(D)

updateMany(S) ==
    LET D == {h \in S : row[h].st \notin {"none", "DELETING"}}
    IN  /\ row' = [h \in Hosts |-> IF h \in D THEN [row[h] EXCEPT !.st = "DELETING"] ELSE row[h]]
        /\ hist' = dropped(D)

Unwanted(p) == {h \in p.cur : p.want[h] = "none"}

\* The end of a PUT: what is no longer wanted is retired, by its hostnames.
retireRest(s) ==
    /\ put[s].at = "next"
    /\ put[s].todo = {}
    /\ deleteMany(Unwanted(put[s]))
    /\ put' = [put EXCEPT ![s].at = "mark"]
    /\ UNCHANGED <<scene, label, obj, made, power, worker, keep, dirty, spent>>

\* Then the publisher and the worker of its master are told.
markRest(s) ==
    /\ put[s].at = "mark"
    /\ put[s].op = "put"
    /\ updateMany(Unwanted(put[s]))
    /\ put' = [put EXCEPT ![s] = NoPut]
    /\ dirty' = dirty \union {s[1]}
    /\ worker' = notified(s[1])
    /\ UNCHANGED <<scene, label, obj, made, power, keep, spent>>

\* removeAllAppHosts, a step of every uninstall: S, the rows of the app that carry
\* the generation; a reserved row carries none.
removeAllAppHosts(m, w) ==
    LET s == <<m, w, "uninstall">>
    IN  /\ Change
        /\ put[s] = NoPut
        /\ \E S \in SUBSET Rows(w) :
             /\ S # {}
             /\ deleteMany(S)
             /\ put' = [put EXCEPT ![s] = [NoPut EXCEPT !.op = "remove", !.at = "mark",
                                                        !.told = IF \E h \in S : row[h].cf = 0 THEN "yes" ELSE "no"]]
        /\ UNCHANGED <<scene, label, obj, made, power, worker, keep, dirty>>

\* The same filter, over the rows there are by now; told when rows were retired.
markAppHosts(s) ==
    /\ put[s].at = "mark"
    /\ put[s].op = "remove"
    /\ \E S \in SUBSET {h \in Rows(s[2]) : row[h].st # "DELETING"} :
         /\ updateMany(S)
         /\ IF put[s].told = "yes" \/ S # {}
            THEN dirty' = dirty \union {s[1]} /\ worker' = notified(s[1])
            ELSE UNCHANGED <<dirty, worker>>
    /\ put' = [put EXCEPT ![s] = NoPut]
    /\ UNCHANGED <<scene, label, obj, made, power, keep, spent>>

-----------------------------------------------------------------------------
(* setWorkspaceHostsSuspended *)

\* One updateMany for each of the three states; the last one of a resumption is for
\* rows that do not say what they were.
setWorkspaceHostsSuspended(m, w, dir) ==
    LET p == <<m, w, dir>>
    IN  /\ Change
        /\ power[p] = NoPower
        /\ Rows(w) # {}
        /\ power' = [power EXCEPT ![p].left = <<"PENDING", "ACTIVE", "SUSPENDED">>
                                               \o IF dir = "resume" THEN <<"none">> ELSE <<>>]
        /\ UNCHANGED <<scene, label, row, obj, made, put, worker, keep, dirty, hist>>

Swept(p, st) == {h \in Rows(p[2]) : IF p[3] = "suspend" THEN row[h].st = st
                                    ELSE row[h].st \in {"WS_SUSPENDED", "CF_RELEASED"} /\ row[h].pre = st}

\* Mutant: whatever a row was before, it is ACTIVE again.
resumedActive(st, r) == [r EXCEPT !.st = "ACTIVE", !.pre = "none"]

\* To the state it was in.
resumed(st, r) == [r EXCEPT !.st = IF st = "none" THEN "ACTIVE" ELSE st, !.pre = "none"]

sweep(p) ==
    LET st == Head(power[p].left)
        S  == Swept(p, st)
    IN  /\ power[p].left # <<>>
        /\ row' = [h \in Hosts |-> IF h \notin S THEN row[h]
                                   ELSE IF p[3] = "suspend" THEN [row[h] EXCEPT !.st = "WS_SUSPENDED", !.pre = st]
                                   ELSE resumed(st, row[h])]
        /\ power' = [power EXCEPT ![p].left = Tail(@), ![p].modified = IF S # {} THEN "yes" ELSE @]
        /\ UNCHANGED <<scene, label, obj, made, put, worker, keep, dirty, hist, spent>>

sweepDone(p) ==
    /\ power[p].left = <<>>
    /\ power[p].modified = "yes"
    /\ dirty' = dirty \union {p[1]}
    /\ worker' = IF p[3] = "resume" THEN notified(p[1]) ELSE worker
    /\ power' = [power EXCEPT ![p] = NoPower]
    /\ UNCHANGED <<scene, label, row, obj, made, put, keep, hist, spent>>

-----------------------------------------------------------------------------
(* The worker: notify, pump, runOnce, create, delete *)

\* The pump looks at `pending` again before it stops.
passEnds(wk) == [NoWork EXCEPT !.pending = wk.pending]

\* What comes after one host: the next one, deletions last, or the end.
onward(wk) == IF wk.create = {} /\ wk.delete = {} THEN passEnds(wk)
              ELSE [wk EXCEPT !.at = "pick", !.h = "none", !.id = 0]

\* runOnce reads what to create and what to delete, each with its state.
runOnce ==
    /\ worker.at = "idle"
    /\ worker.pending = "yes"
    /\ worker' = onward([NoWork EXCEPT
                    !.create = {h \in Custom : row[h].st \in Routed /\ row[h].cf = 0},
                    !.delete = {h \in Custom : row[h].st = "DELETING" /\ row[h].cf # 0},
                    !.snap = [h \in Custom |-> [st |-> row[h].st, cf |-> row[h].cf]]])
    /\ UNCHANGED <<scene, label, row, obj, made, put, power, keep, dirty, hist, spent>>

\* findExisting: an object that carries our tag is adopted, another one is not ours;
\* when the call fails the host is left to another pass.
findExisting ==
    /\ worker.at = "pick"
    /\ \E h \in worker.create :
         LET wk == [worker EXCEPT !.create = @ \ {h}]
         IN  \/ /\ obj[h].ours = "no"
                /\ worker' = [wk EXCEPT !.at = "post", !.h = h]
                /\ UNCHANGED <<row, hist, spent>>
             \/ /\ obj[h].ours = "yes"
                /\ worker' = [wk EXCEPT !.at = "record", !.h = h, !.id = obj[h].id]
                /\ UNCHANGED <<row, hist, spent>>
             \/ /\ obj[h].ours = "foreign"
                /\ row' = IF row[h].st = "none" THEN row ELSE Set(h, "FAILED")
                /\ hist' = [hist EXCEPT !.undone = @ \union {h}]
                /\ worker' = onward(wk)
                /\ UNCHANGED spent
             \/ /\ Fault
                /\ worker' = onward(wk)
                /\ UNCHANGED <<row, hist>>
    /\ UNCHANGED <<scene, label, obj, made, put, power, keep, dirty>>

\* POST custom_hostnames, which may also fail, with or without effect.
postHostname ==
    LET h == worker.h
        o == [id |-> made + 1, ours |-> "yes"]
    IN  /\ worker.at = "post"
        /\ \/ /\ obj' = [obj EXCEPT ![h] = o]
              /\ made' = made + 1
              /\ worker' = [worker EXCEPT !.at = "record", !.id = o.id]
              /\ UNCHANGED spent
           \/ /\ Fault
              /\ \/ UNCHANGED <<obj, made>>
                 \/ obj' = [obj EXCEPT ![h] = o] /\ made' = made + 1
              /\ worker' = onward(worker)
        /\ UNCHANGED <<scene, label, row, put, power, keep, dirty, hist>>

\* The id and the state the row had when the pass read it, whatever it is now.
recordHostname ==
    LET h  == worker.h
        st == IF worker.snap[h].st = "PENDING" THEN "ACTIVE" ELSE worker.snap[h].st
    IN  /\ worker.at = "record"
        /\ IF row[h].st = "none" THEN UNCHANGED <<row, hist>>
           ELSE /\ row' = [row EXCEPT ![h].cf = worker.id, ![h].st = st]
                /\ hist' = [hist EXCEPT !.recorded = @ \union {worker.id}, !.released = @ \ {h},
                                        !.undone = IF row[h].st # worker.snap[h].st THEN @ \union {h} ELSE @]
        /\ worker' = onward(worker)
        /\ UNCHANGED <<scene, label, obj, made, put, power, keep, dirty, spent>>

\* DELETE of object n, which is asked again when it fails: it was answered, or it
\* failed for good, with or without effect; what is not there is 404, an error.
answered(h, n) ==
    /\ obj[h].id = n
    /\ obj' = [obj EXCEPT ![h] = NoObj]
    /\ UNCHANGED spent

unanswered(h, n) ==
    \/ obj[h].id # n /\ UNCHANGED <<obj, spent>>
    \/ Fault /\ obj[h].id = n /\ obj' \in {obj, [obj EXCEPT ![h] = NoObj]}

deleteHostname ==
    /\ worker.at = "pick"
    /\ worker.create = {}
    /\ \E h \in worker.delete :
         LET wk == [worker EXCEPT !.delete = @ \ {h}]
         IN  \/ answered(h, worker.snap[h].cf) /\ worker' = [wk EXCEPT !.at = "forget", !.h = h]
             \/ unanswered(h, worker.snap[h].cf) /\ worker' = onward(wk)
    /\ UNCHANGED <<scene, label, row, made, put, power, keep, dirty, hist>>

forgetRow ==
    LET h == worker.h
    IN  /\ worker.at = "forget"
        /\ row' = IF row[h].st = "DELETING" THEN [row EXCEPT ![h] = NoRow] ELSE row
        /\ worker' = onward(worker)
        /\ UNCHANGED <<scene, label, obj, made, put, power, keep, dirty, hist, spent>>

-----------------------------------------------------------------------------
(* releaseSuspendedCfHostnames, the retention job; crashes *)

\* What has been suspended for long enough is read once, with its numbers.
releaseSuspendedCfHostnames ==
    /\ scene.cf # "off"
    /\ Change
    /\ keep = NoKeep
    /\ \E S \in SUBSET {h \in Custom : row[h].st = "WS_SUSPENDED" /\ row[h].cf # 0} :
         /\ S # {}
         /\ keep' = [NoKeep EXCEPT !.list = [h \in Custom |-> IF h \in S THEN row[h].cf ELSE 0]]
    /\ UNCHANGED <<scene, label, row, obj, made, put, power, worker, dirty, hist>>

\* The DELETE of one of them; when it fails the row is left as it is.
releaseHostname ==
    /\ keep.h = "none"
    /\ \E h \in Custom :
         /\ keep.list[h] # 0
         /\ \/ /\ answered(h, keep.list[h])
               /\ keep' = [keep EXCEPT !.list[h] = 0, !.h = h]
               /\ UNCHANGED hist
            \/ /\ unanswered(h, keep.list[h])
               /\ keep' = [keep EXCEPT !.list[h] = 0]
               /\ hist' = IF obj' # obj THEN [hist EXCEPT !.released = @ \union {h}] ELSE hist
    /\ UNCHANGED <<scene, label, row, made, put, power, worker, dirty>>

\* Mutant: the number of the object that is gone stays in the row.
releasedKeepingId(h) == [row EXCEPT ![h].st = "CF_RELEASED"]

released(h) == [row EXCEPT ![h].st = "CF_RELEASED", ![h].cf = 0]

\* Only when the row is still WS_SUSPENDED.
recordReleased ==
    LET h == keep.h
    IN  /\ h # "none"
        /\ row' = IF row[h].st = "WS_SUSPENDED" THEN released(h) ELSE row
        /\ hist' = IF row[h].st = "WS_SUSPENDED" THEN hist ELSE [hist EXCEPT !.released = @ \union {h}]
        /\ keep' = [keep EXCEPT !.h = "none"]
        /\ UNCHANGED <<scene, label, obj, made, put, power, worker, dirty, spent>>

\* The process of master m ends; when it is started again it publishes.
crash(m) ==
    /\ Fault
    /\ put' = [s \in Callers |-> IF s[1] = m THEN NoPut ELSE put[s]]
    /\ power' = [p \in Powers |-> IF p[1] = m THEN NoPower ELSE power[p]]
    /\ worker' = IF scene.cf = m THEN NoWork ELSE worker
    /\ hist' = IF scene.cf = m /\ keep.h # "none" THEN [hist EXCEPT !.released = @ \union {keep.h}] ELSE hist
    /\ keep' = IF scene.cf = m THEN NoKeep ELSE keep
    /\ dirty' = dirty \union {m}
    /\ UNCHANGED <<scene, label, row, obj, made>>

-----------------------------------------------------------------------------
Calls ==
    \E m \in scene.masters, w \in scene.ws :
      \/ \E h \in scene.hosts : reserve(m, w, h)
      \/ \E list \in [scene.hosts -> Wanted] :
           setDesiredHosts(m, w, [h \in Hosts |-> IF h \in scene.hosts THEN list[h] ELSE "none"])
      \/ removeAllAppHosts(m, w)
      \/ \E dir \in {"suspend", "resume"} : setWorkspaceHostsSuspended(m, w, dir)

Writes ==
    \/ \E s \in Callers : nextHost(s) \/ holdLabel(s) \/ insertRow(s) \/ retireRest(s) \/ markRest(s) \/ markAppHosts(s)
    \/ \E p \in Powers : sweep(p) \/ sweepDone(p)

Work == runOnce \/ findExisting \/ postHostname \/ recordHostname \/ deleteHostname \/ forgetRow

Retention == releaseSuspendedCfHostnames \/ releaseHostname \/ recordReleased

-----------------------------------------------------------------------------
(* Properties *)

Object == [id : 0..9, ours : {"no", "yes", "foreign"}]

\* Types of the registry's documents; a row that is PENDING or dead has no sweep
\* to be taken back from, and an object that is ours has a number.
RegistryTypeOK ==
    /\ label \in [Tenant -> Workspaces \union {"free"}]
    /\ \A h \in Hosts :
         /\ row[h].st \in {"none", "PENDING", "ACTIVE", "SUSPENDED", "WS_SUSPENDED", "CF_RELEASED", "FAILED", "DELETING"}
         /\ row[h].ws \in Workspaces \union {"none"}
         /\ row[h].pre \in {"none", "PENDING", "ACTIVE", "SUSPENDED"}
         /\ row[h].st = "WS_SUSPENDED" => row[h].pre # "none"
    /\ obj \in [Custom -> Object]
    /\ dirty \subseteq scene.masters

\* Two workspaces never get hosts under one label: whoever has the row holds the
\* label, however reservations, PUTs, crashes and retries are interleaved
\* (`a truly foreign owner still gets refused`, app-host-registry.ts).
LabelOwned == \A h \in Tenant : row[h].st # "none" => label[h] = row[h].ws

\* A host that an operator suspended stays out of service through suspension and
\* resumption of its workspace (setWorkspaceHostsSuspended: `resume must never
\* silently reactivate`), but for what the worker wrote over.
AdminSuspensionHolds ==
    \A h \in hist.held \ hist.undone : row[h].st \notin {"PENDING", "ACTIVE", "FAILED"}

\* An object at Cloudflare whose number a row has held is not lost sight of: the
\* row keeps the number until the object is gone.
ObjectTracked ==
    \A h \in Custom : obj[h].id \in hist.recorded => row[h].cf = obj[h].id

\* A host in service that has a number has the object, unless the retention job
\* deleted it while the workspace was resumed or never got the answer, or an
\* uninstall took the row from under a PUT.
ServedHasObject ==
    \A h \in Custom :
      /\ row[h].st \in {"PENDING", "ACTIVE", "SUSPENDED"} /\ row[h].cf # 0
      /\ h \notin hist.released /\ keep.h # h
      => obj[h].id = row[h].cf

\* Rows and Cloudflare's objects agree: none is lost, none is missing.
ObjectsMatchRows == ObjectTracked /\ ServedHasObject

\* When a PUT has told the worker of a custom host, the host gets its object or is
\* refused for good, also when the worker was busy at the time; nothing but a
\* failing call or the end of the process lets one wait.
CustomProvisioned ==
    \A h \in Custom :
      (worker.pending = "yes" /\ row[h].st \in Routed)
        ~> (row[h].cf # 0 \/ row[h].st \notin Routed \/ spent.faults > 0)

=============================================================================
