------------------------------ MODULE HostProofs ------------------------------
(***************************************************************************)
(* The registry of public hostnames, for any number of workspaces, hosts,  *)
(* changes and failures: who holds a label, what an operator suspended,    *)
(* how rows and Cloudflare's objects go together, and that the tables the  *)
(* masters publish bring every request to where the rows say, the runtime  *)
(* node first.                                                             *)
(***************************************************************************)
EXTENDS HostTable, FiniteSetTheorems, SequenceTheorems, TLAPS

-----------------------------------------------------------------------------
(* Types.                                                                  *)

RowStates == {"none", "PENDING", "ACTIVE", "SUSPENDED", "WS_SUSPENDED", "CF_RELEASED", "FAILED", "DELETING"}
PreStates == {"none", "PENDING", "ACTIVE", "SUSPENDED"}

AppHost == [ws : Workspaces \union {"none"}, st : RowStates, pre : PreStates, cf : Nat]
Put     == [op : {"none", "put", "reserve", "remove"}, at : {"none", "next", "hold", "insert", "mark"},
            want : [Hosts -> Wanted], cur : SUBSET Hosts, todo : SUBSET Hosts, h : Hosts \union {"none"},
            told : {"no", "yes"}]
Sweep   == [left : Seq(PreStates), modified : {"no", "yes"}]
Seen    == [st : RowStates, cf : Nat]
Pass    == [pending : {"no", "yes"}, at : {"idle", "pick", "post", "record", "forget"},
            create : SUBSET Custom, delete : SUBSET Custom, snap : [Custom -> Seen],
            h : Custom \union {"none"}, id : Nat]
Keep    == [list : [Custom -> Nat], h : Custom \union {"none"}]
CfObject == [id : Nat, ours : {"no", "yes", "foreign"}]
History == [held : SUBSET Hosts, undone : SUBSET Hosts, recorded : SUBSET Nat, released : SUBSET Hosts]
Scene   == [masters : SUBSET Masters \ {{}}, cf : Masters \union {"off"}, publishes : {"cold", "warm", "no"},
            ws : SUBSET Workspaces, hosts : SUBSET Hosts, changes : Nat, faults : Nat]

\* A host without a row has no number at Cloudflare.
RowInv ==
    /\ row \in [Hosts -> AppHost]
    /\ \A h \in Hosts : row[h].st = "none" => row[h].cf = 0

\* A PUT that asks for a label, or inserts, does it for a host; what it still has to
\* bring about is wanted.
PutInv ==
    /\ put \in [Callers -> Put]
    /\ \A s \in Callers : put[s].at \in {"hold", "insert"} => put[s].h \in Hosts
    /\ \A s \in Callers : \A h \in put[s].todo : put[s].want[h] # "none"
    /\ power \in [Powers -> Sweep]

\* The worker is at a custom host; what it records is the state of a row it has
\* seen, and what it deletes had a number.
PassInv ==
    /\ worker \in Pass
    /\ worker.at \in {"post", "record", "forget"} => worker.h \in Custom
    /\ worker.at \in {"post", "record"} => worker.snap[worker.h].st # "none"
    /\ \A h \in worker.create : worker.snap[h].st # "none"
    /\ \A h \in worker.delete : worker.snap[h].cf # 0
    /\ keep \in Keep

TypeInv ==
    /\ scene \in Scene
    /\ label \in [Tenant -> Workspaces \union {"free"}]
    /\ RowInv
    /\ PutInv
    /\ PassInv
    /\ obj \in [Custom -> CfObject]
    /\ made \in Nat
    /\ hist \in History

\* What the invariants of the registry are about.
Registry == <<scene, label, row, obj, made, put, power, worker, keep, hist>>

RegistryNext == Calls \/ Writes \/ Work \/ Retention \/ \E m \in scene.masters : crash(m)

(* Publishing, the apps' states and the nodes leave the registry alone: a  *)
(* step of the whole is one of the registry's, or changes none of its      *)
(* documents.                                                              *)
LEMMA RegistryFrame == ASSUME [HostNext]_hostVars PROVE RegistryNext \/ UNCHANGED Registry
<1>1. CASE UNCHANGED hostVars
  BY <1>1 DEF hostVars, registryVars, Registry
<1>2. CASE rowsChange
  BY <1>2 DEF rowsChange, RegistryNext
<1>3. ASSUME NEW m \in scene.masters, restart(m) \/ tick(m) \/ Publish(m)
      PROVE  RegistryNext \/ UNCHANGED Registry
  BY <1>3 DEF restart, RegistryNext, tick, Publish, pump, nextRevision, buildSnapshot, pushTable, pushSettled,
     registryVars, Registry
<1>4. CASE \/ \E m \in scene.masters, w \in scene.ws, st \in {"RUNNING", "STOPPED", "REMOVED"} : setAppState(m, w, st)
           \/ deliverLate \/ \E n \in Nodes : nodeRestart(n)
  BY <1>4 DEF setAppState, deliverLate, nodeRestart, registryVars, Registry
<1> QED BY <1>1, <1>2, <1>3, <1>4 DEF HostNext

(* Who calls, and where.                                                   *)
LEMMA Who ==
    /\ \A s \in Callers : s[1] \in Masters /\ s[2] \in Workspaces
    /\ \A p \in Powers : p[1] \in Masters /\ p[2] \in Workspaces
    /\ \A m \in Masters, w \in Workspaces :
         /\ <<m, w, "locked">> \in Callers /\ <<m, w, "uninstall">> \in Callers
         /\ \A dir \in {"suspend", "resume"} : <<m, w, dir>> \in Powers
BY DEF Callers, Powers

(* The documents of the registry's processes begin with these.             *)
LEMMA Empty ==
    /\ NoRow \in AppHost /\ NoPut \in Put /\ NoPower \in Sweep /\ NoWork \in Pass /\ NoKeep \in Keep
    /\ NoObj \in CfObject
    /\ NoRow.st = "none" /\ NoRow.cf = 0 /\ NoPut.at = "none" /\ NoPut.todo = {} /\ NoWork.at = "idle" /\ NoWork.create = {}
    /\ NoWork.delete = {} /\ NoObj.id = 0 /\ NoObj.ours = "no" /\ NoKeep.h = "none" /\ \A h \in Custom : NoKeep.list[h] = 0
<1>1. NoRow \in AppHost /\ NoObj \in CfObject /\ NoRow.st = "none" /\ NoRow.cf = 0 /\ NoObj.id = 0
      /\ NoObj.ours = "no"
  BY DEF NoRow, AppHost, RowStates, PreStates, NoObj, CfObject
<1>2. NoPut \in Put /\ NoPut.at = "none" /\ NoPut.todo = {}
  BY DEF NoPut, Put, Wanted
<1>3. NoPower \in Sweep
  <2>1. <<>> \in Seq(PreStates)
    OBVIOUS
  <2> QED BY <2>1 DEF NoPower, Sweep
<1>4. NoWork \in Pass /\ NoWork.at = "idle" /\ NoWork.create = {} /\ NoWork.delete = {}
  BY DEF NoWork, Pass, RowStates, Seen
<1>5. NoKeep \in Keep /\ NoKeep.h = "none" /\ \A h \in Custom : NoKeep.list[h] = 0
  BY DEF NoKeep, Keep
<1> QED BY <1>1, <1>2, <1>3, <1>4, <1>5

(* A host that is not retired stays as it is, for the history too.         *)
Untouched(h) == /\ row'[h] = row[h]
                /\ (h \in hist'.held) = (h \in hist.held) /\ (h \in hist'.undone) = (h \in hist.undone)

(* What the first half of retiring a set of hosts does to one: without a   *)
(* number its row goes.                                                    *)
LEMMA DeletedRows ==
    ASSUME TypeInv, NEW S, deleteMany(S)
    PROVE  /\ row' \in [Hosts -> AppHost]
           /\ hist' \in History /\ hist'.recorded = hist.recorded /\ hist'.released = hist.released
           /\ \A h \in Hosts :
                \/ Untouched(h)
                \/ h \in S /\ row[h].cf = 0 /\ row'[h] = NoRow /\ h \notin hist'.held
<1> DEFINE D == {h \in S : row[h].cf = 0}
<1>1. row' = [h \in Hosts |-> IF h \in D THEN NoRow ELSE row[h]] /\ hist' = [hist EXCEPT !.held = @ \ D, !.undone = @ \ D]
  BY DEF deleteMany, dropped
<1>2. \A h \in Hosts : row[h] \in AppHost
  BY DEF TypeInv, RowInv
<1>3. \A h \in D : h \in S /\ row[h].cf = 0
  OBVIOUS
<1> HIDE DEF D
<1>4. /\ hist' \in History /\ hist'.recorded = hist.recorded /\ hist'.released = hist.released
      /\ hist'.held = hist.held \ D /\ hist'.undone = hist.undone \ D
  BY <1>1 DEF TypeInv, History
<1>5. row' \in [Hosts -> AppHost]
  BY <1>1, <1>2, Empty
<1>6. ASSUME NEW h \in Hosts
      PROVE  Untouched(h) \/ (h \in S /\ row[h].cf = 0 /\ row'[h] = NoRow /\ h \notin hist'.held)
  <2>1. CASE h \in D
    BY <2>1, <1>1, <1>3, <1>4
  <2>2. CASE h \notin D
    BY <2>2, <1>1, <1>4 DEF Untouched
  <2> QED BY <2>1, <2>2
<1> QED BY <1>4, <1>5, <1>6

(* The second half: the row that is left waits for its object's end.       *)
LEMMA MarkedRows ==
    ASSUME TypeInv, NEW S, updateMany(S)
    PROVE  /\ row' \in [Hosts -> AppHost]
           /\ hist' \in History /\ hist'.recorded = hist.recorded /\ hist'.released = hist.released
           /\ \A h \in Hosts :
                \/ Untouched(h)
                \/ /\ h \in S /\ row[h].st \notin {"none", "DELETING"} /\ h \notin hist'.held
                   /\ row'[h].st = "DELETING" /\ row'[h].ws = row[h].ws /\ row'[h].cf = row[h].cf
<1> DEFINE D == {h \in S : row[h].st \notin {"none", "DELETING"}}
           d(h) == [row[h] EXCEPT !.st = "DELETING"]
<1>1. row' = [h \in Hosts |-> IF h \in D THEN d(h) ELSE row[h]] /\ hist' = [hist EXCEPT !.held = @ \ D, !.undone = @ \ D]
  BY DEF updateMany, dropped
<1>2. \A h \in Hosts : row[h] \in AppHost /\ d(h) \in AppHost /\ d(h).st = "DELETING" /\ d(h).ws = row[h].ws /\ d(h).cf = row[h].cf
  BY DEF TypeInv, RowInv, AppHost, RowStates
<1>3. \A h \in D : h \in S /\ row[h].st \notin {"none", "DELETING"}
  OBVIOUS
<1> HIDE DEF D, d
<1>4. /\ hist' \in History /\ hist'.recorded = hist.recorded /\ hist'.released = hist.released
      /\ hist'.held = hist.held \ D /\ hist'.undone = hist.undone \ D
  BY <1>1 DEF TypeInv, History
<1>5. row' \in [Hosts -> AppHost]
  BY <1>1, <1>2
<1>6. ASSUME NEW h \in Hosts
      PROVE  \/ Untouched(h)
             \/ /\ h \in S /\ row[h].st \notin {"none", "DELETING"} /\ h \notin hist'.held
                /\ row'[h].st = "DELETING" /\ row'[h].ws = row[h].ws /\ row'[h].cf = row[h].cf
  <2>1. CASE h \in D
    BY <2>1, <1>1, <1>2, <1>3, <1>4
  <2>2. CASE h \notin D
    BY <2>2, <1>1, <1>4 DEF Untouched
  <2> QED BY <2>1, <2>2
<1> QED BY <1>4, <1>5, <1>6

(* A step of a sweep: rows of its workspace are taken out of service and   *)
(* remember their state, or are taken back to it.                          *)
LEMMA SweptRows ==
    ASSUME TypeInv, NEW p \in Powers, sweep(p)
    PROVE  /\ row' \in [Hosts -> AppHost]
           /\ \A h \in Hosts :
                \/ row'[h] = row[h]
                \/ /\ row[h].st \in Routed
                   /\ row'[h].ws = row[h].ws /\ row'[h].cf = row[h].cf
                   /\ row'[h].st = "WS_SUSPENDED" /\ row'[h].pre = row[h].st
                \/ /\ row[h].st \in {"WS_SUSPENDED", "CF_RELEASED"}
                   /\ row'[h].ws = row[h].ws /\ row'[h].cf = row[h].cf
                   /\ row'[h].st = IF row[h].pre = "none" THEN "ACTIVE" ELSE row[h].pre
<1> DEFINE st == Head(power[p].left)
<1>1. st \in PreStates
  <2>1. power[p].left \in Seq(PreStates) /\ power[p].left # <<>>
    BY DEF sweep, TypeInv, PutInv, Sweep
  <2>2. \A S, s : s \in Seq(S) /\ s # <<>> => Head(s) \in S
    OBVIOUS
  <2> QED BY <2>1, <2>2
<1>2. \A h \in Hosts : row[h] \in AppHost
  BY DEF TypeInv, RowInv
<1>4. row' = [h \in Hosts |-> IF h \notin Swept(p, st) THEN row[h]
                              ELSE IF p[3] = "suspend" THEN [row[h] EXCEPT !.st = "WS_SUSPENDED", !.pre = st]
                              ELSE resumed(st, row[h])]
  BY DEF sweep, st
<1> HIDE DEF st
<1> DEFINE back == IF st = "none" THEN "ACTIVE" ELSE st
<1>b. back \in PreStates
  BY <1>1 DEF PreStates
<1>3. ASSUME NEW h \in Hosts
      PROVE  /\ LET d == [row[h] EXCEPT !.st = "WS_SUSPENDED", !.pre = st] IN
                  d \in AppHost /\ d.ws = row[h].ws /\ d.cf = row[h].cf /\ d.st = "WS_SUSPENDED" /\ d.pre = st
             /\ LET d == resumed(st, row[h]) IN
                  d \in AppHost /\ d.ws = row[h].ws /\ d.cf = row[h].cf /\ d.st = back
  <2>1. row[h] \in AppHost
    BY <1>2
  <2>2. resumed(st, row[h]) = [row[h] EXCEPT !.st = back, !.pre = "none"]
    BY DEF resumed
  <2> HIDE DEF back
  <2> QED BY <2>1, <2>2, <1>1, <1>b DEF AppHost, RowStates, PreStates
<1>5. \A h \in Swept(p, st) : IF p[3] = "suspend" THEN row[h].st = st /\ row[h].st \in Routed
                              ELSE row[h].st \in {"WS_SUSPENDED", "CF_RELEASED"} /\ row[h].pre = st
  BY <1>1 DEF Swept, Rows, Routed, PreStates
<1>6. ASSUME NEW h \in Hosts
      PROVE  /\ row'[h] \in AppHost
             /\ \/ row'[h] = row[h]
                \/ /\ row[h].st \in Routed /\ row'[h].ws = row[h].ws /\ row'[h].cf = row[h].cf
                   /\ row'[h].st = "WS_SUSPENDED" /\ row'[h].pre = row[h].st
                \/ /\ row[h].st \in {"WS_SUSPENDED", "CF_RELEASED"}
                   /\ row'[h].ws = row[h].ws /\ row'[h].cf = row[h].cf
                   /\ row'[h].st = IF row[h].pre = "none" THEN "ACTIVE" ELSE row[h].pre
  <2>1. CASE h \notin Swept(p, st)
    BY <2>1, <1>2, <1>4
  <2>2. CASE h \in Swept(p, st) /\ p[3] = "suspend"
    BY <2>2, <1>3, <1>4, <1>5
  <2>3. CASE h \in Swept(p, st) /\ p[3] # "suspend"
    BY <2>3, <1>3, <1>4, <1>5
  <2> QED BY <2>1, <2>2, <2>3
<1> QED BY <1>4, <1>6

(* The types of the rows are kept by every call of a workspace.            *)
LEMMA CallRows ==
    ASSUME TypeInv, Calls
    PROVE  RowInv'
<1>t. row \in [Hosts -> AppHost] /\ \A h \in Hosts : row[h].st = "none" => row[h].cf = 0
  BY DEF TypeInv, RowInv
<1>1. ASSUME NEW m \in scene.masters, NEW w \in scene.ws, NEW h \in scene.hosts, reserve(m, w, h) PROVE RowInv'
  BY <1>1, <1>t DEF reserve, RowInv
<1>2. ASSUME NEW m \in scene.masters, NEW w \in scene.ws, NEW want, setDesiredHosts(m, w, want) PROVE RowInv'
  BY <1>2, <1>t, Empty DEF setDesiredHosts, RowInv
<1>3. ASSUME NEW m \in scene.masters, NEW w \in scene.ws, removeAllAppHosts(m, w) PROVE RowInv'
  <2>1. PICK S : deleteMany(S)
    BY <1>3 DEF removeAllAppHosts
  <2>2. \A h \in Hosts : row'[h].st = "none" => row'[h].cf = 0
    BY <2>1, DeletedRows, <1>t, Empty DEF Untouched
  <2> QED BY <2>1, <2>2, DeletedRows DEF RowInv
<1>4. ASSUME NEW m \in scene.masters, NEW w \in scene.ws, NEW dir, setWorkspaceHostsSuspended(m, w, dir) PROVE RowInv'
  BY <1>4, <1>t DEF setWorkspaceHostsSuspended, RowInv
<1> QED BY <1>1, <1>2, <1>3, <1>4 DEF Calls

(* The types of the rows are kept by a PUT, a removal and a sweep.         *)
LEMMA WriteRows ==
    ASSUME TypeInv, Writes
    PROVE  RowInv'
<1>t. row \in [Hosts -> AppHost] /\ (\A h \in Hosts : row[h] \in AppHost) /\ \A h \in Hosts : row[h].st = "none" => row[h].cf = 0
  BY DEF TypeInv, RowInv
<1>p. ASSUME NEW s \in Callers
      PROVE  /\ put[s] \in Put /\ (put[s].at \in {"hold", "insert"} => put[s].h \in Hosts)
             /\ \A h \in put[s].todo : h \in Hosts /\ put[s].want[h] \in Wanted \ {"none"}
  BY DEF TypeInv, PutInv, Put
<1>1. ASSUME NEW s \in Callers, nextHost(s) PROVE RowInv'
  <2>1. PICK h \in put[s].todo : \/ row' = row
                                 \/ row[h].st # "none" /\ row' = Set(h, put[s].want[h])
    BY <1>1 DEF nextHost
  <2>2. h \in Hosts /\ put[s].want[h] \in RowStates \ {"none"}
    BY <1>p DEF Wanted, RowStates
  <2>3. CASE row' = Set(h, put[s].want[h])
    <3>1. [row[h] EXCEPT !.st = put[s].want[h]] \in AppHost /\ [row[h] EXCEPT !.st = put[s].want[h]].st # "none"
      BY <1>t, <2>2 DEF AppHost
    <3>2. row' = [row EXCEPT ![h] = [row[h] EXCEPT !.st = put[s].want[h]]]
      BY <2>3, <2>2, <1>t DEF Set
    <3> QED BY <1>t, <2>2, <3>1, <3>2 DEF RowInv
  <2> QED BY <1>t, <2>1, <2>3 DEF RowInv
<1>2. ASSUME NEW s \in Callers, holdLabel(s) PROVE RowInv'
  BY <1>2, <1>t DEF holdLabel, RowInv
<1>3. ASSUME NEW s \in Callers, insertRow(s) PROVE RowInv'
  <2> DEFINE d == [NoRow EXCEPT !.ws = s[2], !.st = "PENDING"]
  <2>1. d \in AppHost /\ d.st # "none"
    BY Who DEF NoRow, AppHost, RowStates, PreStates
  <2>2. row' = row \/ row' = [row EXCEPT ![put[s].h] = d]
    BY <1>3 DEF insertRow
  <2> HIDE DEF d
  <2>3. put[s].h \in Hosts
    BY <1>3, <1>p DEF insertRow
  <2> QED BY <2>1, <2>2, <2>3, <1>t DEF RowInv
<1>4. ASSUME NEW S, deleteMany(S) PROVE RowInv'
  <2>1. \A h \in Hosts : row'[h].st = "none" => row'[h].cf = 0
    BY <1>4, DeletedRows, <1>t, Empty DEF Untouched
  <2> QED BY <1>4, <2>1, DeletedRows DEF RowInv
<1>5. ASSUME NEW S, updateMany(S) PROVE RowInv'
  <2>1. \A h \in Hosts : row'[h].st = "none" => row'[h].cf = 0
    BY <1>5, MarkedRows, <1>t DEF Untouched
  <2> QED BY <1>5, <2>1, MarkedRows DEF RowInv
<1>6. ASSUME NEW s \in Callers, retireRest(s) \/ markRest(s) \/ markAppHosts(s) PROVE RowInv'
  BY <1>4, <1>5, <1>6 DEF retireRest, markRest, markAppHosts
<1>7. ASSUME NEW p \in Powers, sweep(p) PROVE RowInv'
  <2>1. ASSUME NEW h \in Hosts, row'[h].st = "none" PROVE row'[h].cf = 0
    <3>1. row[h] \in AppHost
      BY <1>t
    <3> QED BY <1>7, <2>1, <3>1, <1>t, SweptRows
  <2> QED BY <1>7, <2>1, SweptRows DEF RowInv
<1>8. ASSUME NEW p \in Powers, sweepDone(p) PROVE RowInv'
  BY <1>8, <1>t DEF sweepDone, RowInv
<1> QED BY <1>1, <1>2, <1>3, <1>6, <1>7, <1>8 DEF Writes

(* What the worker writes at the end of a call: the state it read when the *)
(* pass began, whatever the row is now, or that the host is refused.       *)
LEMMA WorkerRow ==
    ASSUME TypeInv, NEW h \in Custom
    PROVE  /\ [row[h] EXCEPT !.st = "FAILED"] \in AppHost
           /\ \A st \in RowStates, id \in Nat :
                LET d == [row[h] EXCEPT !.cf = id, !.st = st] IN
                  d \in AppHost /\ d.st = st /\ d.cf = id /\ d.ws = row[h].ws /\ d.pre = row[h].pre
           /\ row[h] \in AppHost /\ h \in Hosts
<1>1. row[h] \in AppHost /\ h \in Hosts
  BY DEF TypeInv, RowInv, Hosts
<1> QED BY <1>1 DEF AppHost, RowStates

(* The state a row is given with its number, and what else that writes.    *)
LEMMA Recorded ==
    ASSUME TypeInv, recordHostname
    PROVE  LET h == worker.h IN
           /\ h \in Custom /\ h \in Hosts
           /\ \/ row' = row /\ hist' = hist
              \/ /\ row[h].st # "none"
                 /\ \E st \in RowStates \ {"none"} :
                      /\ row' = [row EXCEPT ![h] = [row[h] EXCEPT !.cf = worker.id, !.st = st]]
                      /\ st = worker.snap[h].st \/ (worker.snap[h].st = "PENDING" /\ st = "ACTIVE")
                 /\ hist'.recorded = hist.recorded \union {worker.id} /\ hist'.released = hist.released \ {h}
                 /\ hist'.held = hist.held
                 /\ hist'.undone = IF row[h].st # worker.snap[h].st THEN hist.undone \union {h} ELSE hist.undone
<1> DEFINE h == worker.h
           st == IF worker.snap[h].st = "PENDING" THEN "ACTIVE" ELSE worker.snap[h].st
<1>1. h \in Custom /\ h \in Hosts /\ worker.snap[h].st \in RowStates \ {"none"}
  BY DEF TypeInv, PassInv, Pass, Seen, recordHostname, Hosts
<1>2. st \in RowStates \ {"none"} /\ (st = worker.snap[h].st \/ (worker.snap[h].st = "PENDING" /\ st = "ACTIVE"))
  BY <1>1 DEF RowStates
<1>3. CASE row[h].st = "none"
  BY <1>1, <1>3 DEF recordHostname
<1>4. CASE row[h].st # "none"
  <2>1. row' = [row EXCEPT ![h].cf = worker.id, ![h].st = st]
    BY <1>4 DEF recordHostname
  <2>2. hist' = [hist EXCEPT !.recorded = @ \union {worker.id}, !.released = @ \ {h},
                             !.undone = IF row[h].st # worker.snap[h].st THEN @ \union {h} ELSE @]
    BY <1>4 DEF recordHostname
  <2> HIDE DEF h, st
  <2>3. row' = [row EXCEPT ![h] = [row[h] EXCEPT !.cf = worker.id, !.st = st]]
    BY <2>1, <1>1 DEF TypeInv, RowInv
  <2>4. /\ hist'.recorded = hist.recorded \union {worker.id} /\ hist'.released = hist.released \ {h}
        /\ hist'.held = hist.held
        /\ hist'.undone = IF row[h].st # worker.snap[h].st THEN hist.undone \union {h} ELSE hist.undone
    BY <2>2 DEF TypeInv, History
  <2>5. row[h].st # "none" /\ h = worker.h
    BY <1>4 DEF h
  <2> QED BY <2>3, <2>4, <2>5, <1>1, <1>2
<1> QED BY <1>3, <1>4

(* What the retention job writes: the row without the number, when it is   *)
(* still out of service; else that the host lost its object.               *)
LEMMA ReleasedRow ==
    ASSUME TypeInv, recordReleased
    PROVE  LET h == keep.h IN
           /\ h \in Custom /\ h \in Hosts /\ keep'.h = "none" /\ keep'.list = keep.list /\ keep' \in Keep
           /\ \/ /\ row[h].st = "WS_SUSPENDED" /\ hist' = hist
                 /\ row' = [row EXCEPT ![h] = [row[h] EXCEPT !.st = "CF_RELEASED", !.cf = 0]]
              \/ /\ row[h].st # "WS_SUSPENDED" /\ row' = row
                 /\ hist' = [hist EXCEPT !.released = @ \union {h}]
<1> DEFINE h == keep.h
<1>1. h \in Custom /\ h \in Hosts /\ keep'.h = "none" /\ keep'.list = keep.list /\ keep' \in Keep
  BY DEF recordReleased, TypeInv, PassInv, Keep, Hosts
<1>2. ASSUME row[h].st = "WS_SUSPENDED" PROVE row' = [row EXCEPT ![h] = [row[h] EXCEPT !.st = "CF_RELEASED", !.cf = 0]]
  <2>1. row' = [row EXCEPT ![h].st = "CF_RELEASED", ![h].cf = 0]
    BY <1>2 DEF recordReleased, released
  <2> HIDE DEF h
  <2> QED BY <1>1, <2>1 DEF TypeInv, RowInv
<1>3. row[h].st = "WS_SUSPENDED" => hist' = hist
  BY DEF recordReleased
<1>4. row[h].st # "WS_SUSPENDED" => row' = row /\ hist' = [hist EXCEPT !.released = @ \union {h}]
  BY DEF recordReleased
<1> QED BY <1>1, <1>2, <1>3, <1>4

(* The types of the rows are kept by the worker, the retention job and the *)
(* end of a process.                                                       *)
LEMMA WorkRows ==
    ASSUME TypeInv, Work \/ Retention \/ \E m \in scene.masters : crash(m)
    PROVE  RowInv'
<1>t. row \in [Hosts -> AppHost] /\ (\A h \in Hosts : row[h] \in AppHost) /\ \A h \in Hosts : row[h].st = "none" => row[h].cf = 0
  BY DEF TypeInv, RowInv
<1>1. CASE UNCHANGED row
  BY <1>1, <1>t DEF RowInv
<1>2. CASE findExisting
  <2>1. PICK h \in Custom : row' = row \/ row' = Set(h, "FAILED")
    BY <1>2 DEF findExisting, TypeInv, PassInv, Pass
  <2>2. [row[h] EXCEPT !.st = "FAILED"] \in AppHost /\ [row[h] EXCEPT !.st = "FAILED"].st # "none" /\ h \in Hosts
    BY <1>t, WorkerRow DEF AppHost, Hosts
  <2>3. row' = row \/ row' = [row EXCEPT ![h] = [row[h] EXCEPT !.st = "FAILED"]]
    BY <2>1, <2>2, <1>t DEF Set
  <2> QED BY <2>2, <2>3, <1>t DEF RowInv
<1>3. CASE recordHostname
  <2>1. worker.h \in Custom /\ worker.h \in Hosts /\ worker.id \in Nat
    BY <1>3, Recorded DEF TypeInv, PassInv, Pass
  <2>2. CASE row' = row
    BY <2>2, <1>1
  <2>3. ASSUME NEW st \in RowStates \ {"none"},
               row' = [row EXCEPT ![worker.h] = [row[worker.h] EXCEPT !.cf = worker.id, !.st = st]]
        PROVE  RowInv'
    <3>1. LET d == [row[worker.h] EXCEPT !.cf = worker.id, !.st = st] IN d \in AppHost /\ d.st # "none"
      BY <2>1, <1>t DEF AppHost
    <3> QED BY <3>1, <2>1, <2>3, <1>t DEF RowInv
  <2> QED BY <1>3, <2>2, <2>3, Recorded
<1>4. CASE forgetRow
  <2>1. worker.h \in Hosts
    BY <1>4 DEF forgetRow, TypeInv, PassInv, Hosts
  <2>2. row' = row \/ row' = [row EXCEPT ![worker.h] = NoRow]
    BY <1>4 DEF forgetRow
  <2> QED BY <2>1, <2>2, <1>t, Empty DEF RowInv
<1>5. CASE recordReleased
  <2> DEFINE h == keep.h
             d == [row[h] EXCEPT !.st = "CF_RELEASED", !.cf = 0]
  <2>1. h \in Hosts /\ (row' = row \/ row' = [row EXCEPT ![h] = d])
    BY <1>5, ReleasedRow
  <2>2. ASSUME NEW r \in AppHost
        PROVE  LET e == [r EXCEPT !.st = "CF_RELEASED", !.cf = 0] IN e \in AppHost /\ e.cf = 0
    <3>1. "CF_RELEASED" \in RowStates
      BY DEF RowStates
    <3> QED BY <3>1 DEF AppHost
  <2>3. row[h] \in AppHost
    BY <2>1, <1>t
  <2>4. d \in AppHost /\ d.cf = 0
    BY <2>2, <2>3
  <2> HIDE DEF d, h
  <2> QED BY <2>1, <2>4, <1>t DEF RowInv
<1>6. runOnce \/ postHostname \/ deleteHostname \/ releaseSuspendedCfHostnames \/ releaseHostname
        \/ (\E m \in scene.masters : crash(m)) => UNCHANGED row
  BY DEF runOnce, postHostname, deleteHostname, releaseSuspendedCfHostnames, releaseHostname, crash
<1> QED BY <1>1, <1>2, <1>3, <1>4, <1>5, <1>6 DEF Work, Retention

(* What a call writes down for the caller.                                 *)
LEMMA CallPut ==
    ASSUME TypeInv, Calls
    PROVE  PutInv'
<1>t. /\ put \in [Callers -> Put] /\ power \in [Powers -> Sweep]
      /\ \A s \in Callers : put[s].at \in {"hold", "insert"} => put[s].h \in Hosts
      /\ \A s \in Callers : \A h \in put[s].todo : put[s].want[h] # "none"
      /\ scene.masters \subseteq Masters /\ scene.ws \subseteq Workspaces /\ scene.hosts \subseteq Hosts
  BY DEF TypeInv, PutInv, Scene
<1> DEFINE Good(p) == /\ p \in Put
                      /\ p.at \in {"hold", "insert"} => p.h \in Hosts
                      /\ \A h \in p.todo : p.want[h] # "none"
<1>s. ASSUME NEW s \in Callers, NEW p, Good(p), put' = [put EXCEPT ![s] = p], UNCHANGED power PROVE PutInv'
  BY <1>s, <1>t DEF PutInv
<1>1. ASSUME NEW m \in scene.masters, NEW w \in scene.ws, NEW h \in scene.hosts, reserve(m, w, h) PROVE PutInv'
  <2> DEFINE p == [NoPut EXCEPT !.op = "reserve", !.at = "hold", !.h = h]
  <2>1. Good(p)
    BY <1>1, <1>t, Empty DEF NoPut, Put
  <2>2. put' = [put EXCEPT ![<<m, w, "locked">>] = p] /\ UNCHANGED power /\ <<m, w, "locked">> \in Callers
    BY <1>1, <1>t, Who DEF reserve
  <2> HIDE DEF p, Good
  <2> QED BY <2>1, <2>2, <1>s
<1>2. ASSUME NEW m \in scene.masters, NEW w \in scene.ws, NEW want \in [Hosts -> Wanted], setDesiredHosts(m, w, want)
      PROVE  PutInv'
  <2> DEFINE todo == {h \in Hosts : want[h] # "none"}
             cur  == {h \in Rows(w) : row[h].st # "DELETING"}
             p    == [NoPut EXCEPT !.op = "put", !.at = "next", !.want = want, !.todo = todo, !.cur = cur]
  <2>1. todo \subseteq Hosts /\ cur \subseteq Hosts /\ \A h \in todo : want[h] # "none"
    BY DEF Rows
  <2>2. put' = [put EXCEPT ![<<m, w, "locked">>] = p] /\ UNCHANGED power /\ <<m, w, "locked">> \in Callers
    BY <1>2, <1>t, Who DEF setDesiredHosts
  <2> HIDE DEF todo, cur
  <2>p. p \in Put /\ p.at = "next" /\ p.todo = todo /\ p.want = want
    BY <2>1, <1>2, <1>t, Empty DEF NoPut, Put
  <2> HIDE DEF p
  <2>3. Good(p)
    BY <2>1, <2>p
  <2> HIDE DEF p, Good
  <2> QED BY <2>2, <2>3, <1>s
<1>3. ASSUME NEW m \in scene.masters, NEW w \in scene.ws, NEW dir \in {"suspend", "resume"},
             setWorkspaceHostsSuspended(m, w, dir)
      PROVE  PutInv'
  <2> DEFINE p    == <<m, w, dir>>
             left == <<"PENDING", "ACTIVE", "SUSPENDED">> \o IF dir = "resume" THEN <<"none">> ELSE <<>>
  <2>1. left \in Seq(PreStates)
    <3>1. <<"PENDING", "ACTIVE", "SUSPENDED">> \in Seq(PreStates) /\ <<"none">> \in Seq(PreStates) /\ <<>> \in Seq(PreStates)
      BY DEF PreStates
    <3>2. \A a, b \in Seq(PreStates) : a \o b \in Seq(PreStates)
      OBVIOUS
    <3> QED BY <3>1, <3>2
  <2>2. power' = [power EXCEPT ![p].left = left] /\ UNCHANGED put /\ p \in Powers
    BY <1>3, <1>t, Who DEF setWorkspaceHostsSuspended
  <2> HIDE DEF left, p
  <2>3. power' = [power EXCEPT ![p] = [power[p] EXCEPT !.left = left]]
    BY <2>2, <1>t
  <2>4. [power[p] EXCEPT !.left = left] \in Sweep
    BY <2>1, <2>2, <1>t DEF Sweep
  <2> QED BY <2>2, <2>3, <2>4, <1>t DEF PutInv
<1>4. ASSUME NEW m \in scene.masters, NEW w \in scene.ws, removeAllAppHosts(m, w) PROVE PutInv'
  <2> DEFINE s == <<m, w, "uninstall">>
  <2>1. PICK y \in {"yes", "no"} : put' = [put EXCEPT ![s] = [NoPut EXCEPT !.op = "remove", !.at = "mark", !.told = y]]
    BY <1>4 DEF removeAllAppHosts
  <2>2. UNCHANGED power /\ s \in Callers
    BY <1>4, <1>t, Who DEF removeAllAppHosts
  <2>3. Good([NoPut EXCEPT !.op = "remove", !.at = "mark", !.told = y])
    BY Empty DEF NoPut, Put
  <2> HIDE DEF s, Good
  <2> QED BY <2>1, <2>2, <2>3, <1>s
<1>w. ASSUME NEW list \in [scene.hosts -> Wanted]
      PROVE  [h \in Hosts |-> IF h \in scene.hosts THEN list[h] ELSE "none"] \in [Hosts -> Wanted]
  BY DEF Wanted
<1> HIDE DEF Good
<1> QED BY <1>1, <1>2, <1>3, <1>4, <1>w DEF Calls

(* A PUT, a reservation, a removal and a sweep keep their types.           *)
LEMMA WritePut ==
    ASSUME TypeInv, Writes
    PROVE  PutInv'
<1>t. /\ put \in [Callers -> Put] /\ (\A s \in Callers : put[s] \in Put) /\ power \in [Powers -> Sweep]
      /\ \A s \in Callers : put[s].at \in {"hold", "insert"} => put[s].h \in Hosts
      /\ \A s \in Callers : \A h \in put[s].todo : put[s].want[h] # "none"
  BY DEF TypeInv, PutInv
\* One PUT goes on, the others stay.
<1> DEFINE Good(p) == /\ p \in Put
                      /\ p.at \in {"hold", "insert"} => p.h \in Hosts
                      /\ \A h \in p.todo : p.want[h] # "none"
<1>s. ASSUME NEW s \in Callers, NEW p, Good(p), put' = [put EXCEPT ![s] = p], UNCHANGED power PROVE PutInv'
  BY <1>s, <1>t DEF PutInv
<1>g. \A s \in Callers : Good(put[s])
  BY <1>t
<1>n. Good(NoPut)
  BY Empty
<1>4. ASSUME NEW s \in Callers, nextHost(s) PROVE PutInv'
  <2>1. PICK h \in put[s].todo : \/ put' = [put EXCEPT ![s].todo = @ \ {h}]
                                 \/ put' = [put EXCEPT ![s].at = "hold", ![s].h = h]
    BY <1>4 DEF nextHost
  <2>2. h \in Hosts
    BY <1>t DEF Put
  <2> DEFINE p == [put[s] EXCEPT !.todo = @ \ {h}]
             q == [put[s] EXCEPT !.at = "hold", !.h = h]
  <2>3. Good(p) /\ Good(q)
    BY <1>g, <2>2 DEF Put
  <2>4. put' = [put EXCEPT ![s] = p] \/ put' = [put EXCEPT ![s] = q]
    BY <2>1, <1>t
  <2>5. UNCHANGED power
    BY <1>4 DEF nextHost
  <2> HIDE DEF p, q, Good
  <2> QED BY <2>3, <2>4, <2>5, <1>s
<1>5. ASSUME NEW s \in Callers, holdLabel(s) PROVE PutInv'
  <2> DEFINE p == [put[s] EXCEPT !.at = "insert"]
  <2>1. Good(p)
    BY <1>5, <1>g DEF Put, holdLabel
  <2>2. put' = [put EXCEPT ![s] = p] \/ put' = [put EXCEPT ![s] = NoPut]
    BY <1>5, <1>t DEF holdLabel
  <2>3. UNCHANGED power
    BY <1>5 DEF holdLabel
  <2> HIDE DEF p, Good
  <2> QED BY <2>1, <2>2, <2>3, <1>s, <1>n
<1>6. ASSUME NEW s \in Callers, insertRow(s) PROVE PutInv'
  <2> DEFINE p == [put[s] EXCEPT !.at = "next", !.todo = @ \ {put[s].h}, !.h = "none"]
  <2>1. Good(p)
    BY <1>g DEF Put
  <2>2. put' = [put EXCEPT ![s] = p] \/ put' = [put EXCEPT ![s] = NoPut]
    BY <1>6, <1>t DEF insertRow
  <2>3. UNCHANGED power
    BY <1>6 DEF insertRow
  <2> HIDE DEF p, Good
  <2> QED BY <2>1, <2>2, <2>3, <1>s, <1>n
<1>7. ASSUME NEW s \in Callers, retireRest(s) PROVE PutInv'
  <2> DEFINE p == [put[s] EXCEPT !.at = "mark"]
  <2>1. put' = [put EXCEPT ![s] = p] /\ UNCHANGED power
    BY <1>7, <1>t DEF retireRest
  <2>2. Good(p)
    BY <1>g DEF Put
  <2> HIDE DEF p, Good
  <2> QED BY <2>1, <2>2, <1>s
<1>8. ASSUME NEW s \in Callers, markRest(s) \/ markAppHosts(s) PROVE PutInv'
  <2>1. put' = [put EXCEPT ![s] = NoPut] /\ UNCHANGED power
    BY <1>8 DEF markRest, markAppHosts
  <2> HIDE DEF Good
  <2> QED BY <2>1, <1>s, <1>n
<1>9. ASSUME NEW p \in Powers, sweep(p) PROVE PutInv'
  <2>1. \A S, q : q \in Seq(S) /\ q # <<>> => Tail(q) \in Seq(S)
    OBVIOUS
  <2>2. power[p] \in Sweep /\ power[p].left # <<>>
    BY <1>9, <1>t DEF sweep
  <2>3. Tail(power[p].left) \in Seq(PreStates)
    BY <2>1, <2>2 DEF Sweep
  <2>4. UNCHANGED put /\ \E y \in {"no", "yes"} : power' = [power EXCEPT ![p].left = Tail(@), ![p].modified = y]
    BY <1>9, <2>2, <1>t DEF sweep, Sweep
  <2>5. PICK y \in {"no", "yes"} : power' = [power EXCEPT ![p] = [power[p] EXCEPT !.left = Tail(@), !.modified = y]]
    BY <2>4, <1>t
  <2>6. [power[p] EXCEPT !.left = Tail(@), !.modified = y] \in Sweep
    BY <2>2, <2>3 DEF Sweep
  <2> QED BY <2>4, <2>5, <2>6, <1>t DEF PutInv
<1>10. ASSUME NEW p \in Powers, sweepDone(p) PROVE PutInv'
  BY <1>10, <1>t, Empty DEF sweepDone, PutInv
<1> HIDE DEF Good
<1> QED BY <1>4, <1>5, <1>6, <1>7, <1>8, <1>9, <1>10 DEF Writes

(* PUTs, reservations, removals and sweeps keep their types.               *)
LEMMA PutStep ==
    ASSUME TypeInv, RegistryNext
    PROVE  PutInv'
<1>t. /\ put \in [Callers -> Put] /\ power \in [Powers -> Sweep]
      /\ \A s \in Callers : put[s].at \in {"hold", "insert"} => put[s].h \in Hosts
      /\ \A s \in Callers : \A h \in put[s].todo : put[s].want[h] # "none"
  BY DEF TypeInv, PutInv
<1>1. CASE Work \/ Retention
  <2>1. UNCHANGED <<put, power>>
    BY <1>1 DEF Work, runOnce, findExisting, postHostname, recordHostname, deleteHostname, forgetRow,
       Retention, releaseSuspendedCfHostnames, releaseHostname, recordReleased
  <2> QED BY <2>1, <1>t DEF PutInv
<1>2. ASSUME NEW m \in scene.masters, crash(m) PROVE PutInv'
  <2>1. /\ put' = [s \in Callers |-> IF s[1] = m THEN NoPut ELSE put[s]]
        /\ power' = [p \in Powers |-> IF p[1] = m THEN NoPower ELSE power[p]]
    BY <1>2 DEF crash
  <2> QED BY <2>1, <1>t, Empty DEF PutInv
<1> QED BY <1>1, <1>2, CallPut, WritePut DEF RegistryNext

(* What the worker goes on to after a host: the lists only get shorter.    *)
LEMMA Onward ==
    ASSUME NEW wk \in Pass
    PROVE  /\ onward(wk) \in Pass /\ onward(wk).at \in {"idle", "pick"}
           /\ onward(wk).create \subseteq wk.create /\ onward(wk).delete \subseteq wk.delete
           /\ onward(wk).at = "pick" => onward(wk).snap = wk.snap
           /\ onward(wk).at = "idle" => onward(wk).create = {} /\ onward(wk).delete = {}
           /\ passEnds(wk) \in Pass
<1>1. /\ passEnds(wk) \in Pass /\ passEnds(wk).at = "idle" /\ passEnds(wk).create = {} /\ passEnds(wk).delete = {}
  BY DEF passEnds, NoWork, Pass, RowStates, Seen
<1> DEFINE n == [wk EXCEPT !.at = "pick", !.h = "none", !.id = 0]
<1>2. n \in Pass /\ n.at = "pick" /\ n.create = wk.create /\ n.delete = wk.delete /\ n.snap = wk.snap
  BY DEF Pass
<1> HIDE DEF n
<1>3. onward(wk) = passEnds(wk) \/ onward(wk) = n
  BY DEF onward, n
<1> QED BY <1>1, <1>2, <1>3

(* Being told changes nothing but `pending`.                               *)
LEMMA Notified ==
    ASSUME TypeInv, NEW m
    PROVE  /\ notified(m) \in Pass
           /\ notified(m).at = worker.at /\ notified(m).create = worker.create
           /\ notified(m).delete = worker.delete /\ notified(m).snap = worker.snap
           /\ notified(m).h = worker.h /\ notified(m).id = worker.id
BY DEF notified, TypeInv, PassInv, Pass

(* Who tells the worker.                                                   *)
LEMMA WhoNotifies ==
    /\ Calls => UNCHANGED worker
    /\ Writes => worker' = worker \/ \E m : worker' = notified(m)
    /\ Retention => UNCHANGED worker
    /\ (\E m \in scene.masters : crash(m)) => worker' = worker \/ worker' = NoWork
<1>1. Calls => UNCHANGED worker
  BY DEF Calls, reserve, setDesiredHosts, removeAllAppHosts, setWorkspaceHostsSuspended
<1>2. ASSUME NEW s \in Callers, nextHost(s) \/ holdLabel(s) \/ insertRow(s) \/ retireRest(s) PROVE worker' = worker
  BY <1>2 DEF nextHost, holdLabel, insertRow, retireRest
<1>3. ASSUME NEW s \in Callers, markRest(s) \/ markAppHosts(s) PROVE worker' = worker \/ \E m : worker' = notified(m)
  BY <1>3 DEF markRest, markAppHosts
<1>4. ASSUME NEW p \in Powers, sweep(p) \/ sweepDone(p) PROVE worker' = worker \/ \E m : worker' = notified(m)
  BY <1>4 DEF sweep, sweepDone
<1>5. Retention => UNCHANGED worker
  BY DEF Retention, releaseSuspendedCfHostnames, releaseHostname, recordReleased
<1>6. (\E m \in scene.masters : crash(m)) => worker' = worker \/ worker' = NoWork
  BY DEF crash
<1> QED BY <1>1, <1>2, <1>3, <1>4, <1>5, <1>6 DEF Writes

(* Who writes what the retention job remembers.                            *)
LEMMA KeepWriters ==
    ASSUME RegistryNext
    PROVE  \/ keep' = keep \/ releaseSuspendedCfHostnames \/ releaseHostname \/ recordReleased
           \/ \E m \in scene.masters : crash(m)
<1>1. Calls => keep' = keep
  BY DEF Calls, reserve, setDesiredHosts, removeAllAppHosts, setWorkspaceHostsSuspended
<1>2. Writes => keep' = keep
  BY DEF Writes, nextHost, holdLabel, insertRow, retireRest, markRest, markAppHosts, sweep, sweepDone
<1>3. Work => keep' = keep
  BY DEF Work, runOnce, findExisting, postHostname, recordHostname, deleteHostname, forgetRow
<1> QED BY <1>1, <1>2, <1>3 DEF RegistryNext, Retention

(* The retention job keeps its type.                                       *)
LEMMA KeepTypes ==
    ASSUME TypeInv, RegistryNext
    PROVE  keep' \in Keep
<1>t. keep \in Keep /\ (\A h \in Hosts : row[h] \in AppHost) /\ \A h \in Custom : h \in Hosts
  BY DEF TypeInv, PassInv, RowInv, Hosts
<1>1. CASE keep' = keep \/ keep' = NoKeep
  BY <1>1, <1>t, Empty
<1>2. CASE releaseSuspendedCfHostnames
  <2>1. PICK S : keep' = [NoKeep EXCEPT !.list = [h \in Custom |-> IF h \in S THEN row[h].cf ELSE 0]]
    BY <1>2 DEF releaseSuspendedCfHostnames
  <2>2. [h \in Custom |-> IF h \in S THEN row[h].cf ELSE 0] \in [Custom -> Nat]
    BY <1>t DEF AppHost
  <2> QED BY <1>2, <2>1, <2>2 DEF Keep, NoKeep
<1>3. CASE releaseHostname
  <2>1. PICK h \in Custom : keep' = [keep EXCEPT !.list[h] = 0, !.h = h] \/ keep' = [keep EXCEPT !.list[h] = 0]
    BY <1>3 DEF releaseHostname
  <2>2. keep' = [keep EXCEPT !.list = [keep.list EXCEPT ![h] = 0], !.h = h]
        \/ keep' = [keep EXCEPT !.list = [keep.list EXCEPT ![h] = 0]]
    BY <2>1
  <2>3. [keep.list EXCEPT ![h] = 0] \in [Custom -> Nat]
    BY <1>t DEF Keep
  <2> QED BY <1>3, <2>2, <2>3, <1>t DEF Keep
<1>4. CASE recordReleased
  BY <1>4, ReleasedRow
<1>5. (\E m \in scene.masters : crash(m)) => keep' = keep \/ keep' = NoKeep
  BY DEF crash
<1> QED BY <1>1, <1>2, <1>3, <1>4, <1>5, KeepWriters

(* The worker and the retention job keep their types.                      *)
LEMMA PassStep ==
    ASSUME TypeInv, RegistryNext
    PROVE  PassInv'
<1>t. /\ worker \in Pass
      /\ worker.at \in {"post", "record", "forget"} => worker.h \in Custom
      /\ worker.at \in {"post", "record"} => worker.snap[worker.h].st # "none"
      /\ \A h \in worker.create : worker.snap[h].st # "none"
      /\ \A h \in worker.delete : worker.snap[h].cf # 0
      /\ \A h \in Hosts : row[h] \in AppHost
      /\ \A h \in Custom : h \in Hosts
  BY DEF TypeInv, PassInv, RowInv, Hosts
<1> DEFINE Lists(wk) == /\ \A h \in wk.create : wk.snap[h].st # "none"
                        /\ \A h \in wk.delete : wk.snap[h].cf # 0
           Good(wk) == /\ wk \in Pass
                       /\ wk.at \in {"post", "record", "forget"} => wk.h \in Custom
                       /\ wk.at \in {"post", "record"} => wk.snap[wk.h].st # "none"
                       /\ Lists(wk)
<1>g. Good(worker) /\ Good(NoWork) /\ \A m : Good(notified(m))
  BY <1>t, Empty, Notified
<1>o. ASSUME NEW wk \in Pass, Lists(wk) PROVE Good(onward(wk))
  <2>1. /\ onward(wk) \in Pass /\ onward(wk).at \in {"idle", "pick"} /\ onward(wk).create \subseteq wk.create
        /\ onward(wk).delete \subseteq wk.delete
        /\ onward(wk).at = "pick" => onward(wk).snap = wk.snap
        /\ onward(wk).at = "idle" => onward(wk).create = {} /\ onward(wk).delete = {}
    BY Onward
  <2> QED BY <2>1, <1>o
<1>m. ASSUME Good(worker') PROVE PassInv'
  BY <1>m, KeepTypes DEF PassInv
<1>0. CASE worker' = worker \/ worker' = NoWork \/ \E m : worker' = notified(m)
  <2> HIDE DEF Good
  <2> QED BY <1>0, <1>g, <1>m
<1>1. CASE runOnce
  <2> DEFINE create == {h \in Custom : row[h].st \in Routed /\ row[h].cf = 0}
             delete == {h \in Custom : row[h].st = "DELETING" /\ row[h].cf # 0}
             snap   == [h \in Custom |-> [st |-> row[h].st, cf |-> row[h].cf]]
             wk     == [NoWork EXCEPT !.create = create, !.delete = delete, !.snap = snap]
  <2>1. create \subseteq Custom /\ delete \subseteq Custom /\ snap \in [Custom -> Seen]
        /\ (\A h \in create : snap[h].st # "none") /\ \A h \in delete : snap[h].cf # 0
    BY <1>t DEF AppHost, Routed, Seen
  <2>2. worker' = onward(wk)
    BY <1>1 DEF runOnce
  <2> HIDE DEF create, delete, snap
  <2>3. wk \in Pass /\ wk.create = create /\ wk.delete = delete /\ wk.snap = snap
    BY <2>1, Empty DEF NoWork, Pass
  <2> HIDE DEF wk
  <2>4. Good(worker')
    BY <2>1, <2>2, <2>3, <1>o
  <2> HIDE DEF Good
  <2> QED BY <2>4, <1>m
<1>2. CASE findExisting
  <2>1. PICK h \in worker.create :
          LET wk == [worker EXCEPT !.create = @ \ {h}] IN
            \/ worker' = [wk EXCEPT !.at = "post", !.h = h]
            \/ worker' = [wk EXCEPT !.at = "record", !.h = h, !.id = obj[h].id]
            \/ worker' = onward(wk)
    BY <1>2 DEF findExisting
  <2> DEFINE wk == [worker EXCEPT !.create = @ \ {h}]
  <2>2. /\ wk \in Pass /\ wk.create \subseteq worker.create /\ wk.delete = worker.delete /\ wk.snap = worker.snap
        /\ h \in Custom /\ obj[h].id \in Nat
    BY <1>t DEF Pass, TypeInv, CfObject
  <2>3. worker' = [wk EXCEPT !.at = "post", !.h = h] \/ worker' = [wk EXCEPT !.at = "record", !.h = h, !.id = obj[h].id]
        \/ worker' = onward(wk)
    BY <2>1
  <2> HIDE DEF wk
  <2>4. Good(onward(wk))
    BY <2>2, <1>t, <1>o
  <2> DEFINE p == [wk EXCEPT !.at = "post", !.h = h]
             r == [wk EXCEPT !.at = "record", !.h = h, !.id = obj[h].id]
  <2>p. p \in Pass /\ p.h = h /\ p.create = wk.create /\ p.delete = wk.delete /\ p.snap = wk.snap
    BY <2>2 DEF Pass
  <2>r. r \in Pass /\ r.h = h /\ r.create = wk.create /\ r.delete = wk.delete /\ r.snap = wk.snap
    BY <2>2 DEF Pass
  <2> HIDE DEF p, r
  <2>5. Good(p) /\ Good(r)
    BY <2>2, <2>p, <2>r, <1>t
  <2>6. worker' = p \/ worker' = r \/ worker' = onward(wk)
    BY <2>3 DEF p, r
  <2> HIDE DEF Good
  <2> QED BY <2>4, <2>5, <2>6, <1>m
<1>3. CASE postHostname
  <2>1. worker' = [worker EXCEPT !.at = "record", !.id = made + 1] \/ worker' = onward(worker)
    BY <1>3 DEF postHostname
  <2>2. made + 1 \in Nat /\ worker.at = "post"
    BY <1>3 DEF TypeInv, postHostname
  <2>3. Good([worker EXCEPT !.at = "record", !.id = made + 1])
    BY <2>2, <1>t DEF Pass
  <2>4. Good(onward(worker))
    BY <1>t, <1>o
  <2> HIDE DEF Good
  <2> QED BY <2>1, <2>3, <2>4, <1>m
<1>4. CASE recordHostname \/ forgetRow
  <2>1. worker' = onward(worker)
    BY <1>4 DEF recordHostname, forgetRow
  <2>2. Good(onward(worker))
    BY <1>t, <1>o
  <2> HIDE DEF Good
  <2> QED BY <2>1, <2>2, <1>m
<1>5. CASE deleteHostname
  <2>1. PICK h \in worker.delete :
          LET wk == [worker EXCEPT !.delete = @ \ {h}] IN
            worker' = [wk EXCEPT !.at = "forget", !.h = h] \/ worker' = onward(wk)
    BY <1>5 DEF deleteHostname
  <2> DEFINE wk == [worker EXCEPT !.delete = @ \ {h}]
  <2>2. /\ wk \in Pass /\ wk.create = worker.create /\ wk.delete \subseteq worker.delete /\ wk.snap = worker.snap
        /\ h \in Custom
    BY <1>t DEF Pass
  <2>3. worker' = [wk EXCEPT !.at = "forget", !.h = h] \/ worker' = onward(wk)
    BY <2>1
  <2> HIDE DEF wk
  <2>4. Good(onward(wk))
    BY <2>2, <1>t, <1>o
  <2> DEFINE f == [wk EXCEPT !.at = "forget", !.h = h]
  <2>5. f \in Pass /\ f.at = "forget" /\ f.h = h /\ f.create = wk.create /\ f.delete = wk.delete /\ f.snap = wk.snap
    BY <2>2 DEF Pass
  <2>6. worker' = f \/ worker' = onward(wk)
    BY <2>3
  <2> HIDE DEF f
  <2>7. Good(f)
    BY <2>2, <2>5, <1>t
  <2> HIDE DEF Good
  <2> QED BY <2>4, <2>6, <2>7, <1>m
<1>6. CASE Calls \/ Writes \/ Retention \/ \E m \in scene.masters : crash(m)
  <2> HIDE DEF Good
  <2> QED BY <1>6, <1>0, WhoNotifies
<1> QED BY <1>1, <1>2, <1>3, <1>4, <1>5, <1>6 DEF RegistryNext, Work

(* Who writes labels, objects and the history.                             *)
LEMMA Writers ==
    ASSUME RegistryNext
    PROVE  /\ UNCHANGED scene
           /\ label' = label \/ \E s \in Callers : holdLabel(s)
           /\ UNCHANGED <<obj, made>> \/ postHostname \/ deleteHostname \/ releaseHostname
           /\ UNCHANGED made \/ postHostname
           /\ \/ UNCHANGED hist \/ findExisting \/ recordHostname \/ releaseHostname \/ recordReleased
              \/ \E s \in Callers : nextHost(s) \/ insertRow(s)
              \/ \E S : deleteMany(S) \/ updateMany(S)
              \/ \E m \in scene.masters : crash(m)
<1>1. CASE Calls
  BY <1>1 DEF Calls, reserve, setDesiredHosts, removeAllAppHosts, setWorkspaceHostsSuspended
<1>2. ASSUME NEW s \in Callers, nextHost(s) \/ holdLabel(s) \/ insertRow(s)
      PROVE  UNCHANGED <<scene, obj, made>> /\ (UNCHANGED label \/ holdLabel(s)) /\ (UNCHANGED hist \/ nextHost(s) \/ insertRow(s))
  BY <1>2 DEF nextHost, holdLabel, insertRow
<1>3. ASSUME NEW s \in Callers, retireRest(s) \/ markRest(s) \/ markAppHosts(s)
      PROVE  UNCHANGED <<scene, label, obj, made>> /\ \E S : deleteMany(S) \/ updateMany(S)
  BY <1>3 DEF retireRest, markRest, markAppHosts
<1>4. ASSUME NEW p \in Powers, sweep(p) \/ sweepDone(p) PROVE UNCHANGED <<scene, label, obj, made, hist>>
  BY <1>4 DEF sweep, sweepDone
<1>5. CASE Writes
  BY <1>5, <1>2, <1>3, <1>4 DEF Writes
<1>6. CASE Work
  BY <1>6 DEF Work, runOnce, findExisting, postHostname, recordHostname, deleteHostname, forgetRow
<1>7. CASE Retention \/ \E m \in scene.masters : crash(m)
  BY <1>7 DEF Retention, releaseSuspendedCfHostnames, releaseHostname, recordReleased, crash
<1> QED BY <1>1, <1>5, <1>6, <1>7 DEF RegistryNext

(* The history keeps its type.                                             *)
LEMMA HistoryStep ==
    ASSUME TypeInv, RegistryNext
    PROVE  hist' \in History
<1>t. /\ hist \in History /\ worker.id \in Nat
      /\ \A s \in Callers : put[s] \in Put /\ (put[s].at = "insert" => put[s].h \in Hosts)
      /\ \A s \in Callers : \A h \in put[s].todo : h \in Hosts
      /\ keep.h # "none" => keep.h \in Hosts
      /\ \A h \in Custom : h \in Hosts
  BY DEF TypeInv, PutInv, PassInv, Pass, Put, Keep, Hosts
<1>r. ASSUME NEW h \in Hosts PROVE [hist EXCEPT !.released = @ \union {h}] \in History
  BY <1>t DEF History
<1>1. CASE findExisting
  <2>1. PICK h \in worker.create : hist' = hist \/ hist' = [hist EXCEPT !.undone = @ \union {h}]
    BY <1>1 DEF findExisting
  <2>2. h \in Hosts
    BY DEF TypeInv, PassInv, Pass, Hosts
  <2> QED BY <2>1, <2>2, <1>t DEF History
<1>2. CASE recordHostname
  <2> DEFINE U == IF row[worker.h].st # worker.snap[worker.h].st THEN hist.undone \union {worker.h} ELSE hist.undone
  <2>1. worker.h \in Hosts
    BY <1>2, Recorded
  <2>2. \/ hist' = hist
        \/ hist' = [hist EXCEPT !.recorded = @ \union {worker.id}, !.released = @ \ {worker.h}, !.undone = U]
    BY <1>2 DEF recordHostname
  <2>3. U \in SUBSET Hosts /\ hist.recorded \union {worker.id} \in SUBSET Nat /\ hist.released \ {worker.h} \in SUBSET Hosts
    BY <2>1, <1>t DEF History
  <2> HIDE DEF U
  <2> QED BY <2>1, <2>2, <2>3, <1>t DEF History
<1>3. CASE recordReleased
  BY <1>3, <1>r, <1>t, ReleasedRow
<1>4. CASE releaseHostname
  <2>1. \E h \in Hosts : hist' = hist \/ hist' = [hist EXCEPT !.released = @ \union {h}]
    BY <1>4, <1>t DEF releaseHostname
  <2> QED BY <2>1, <1>r, <1>t
<1>5. CASE \E m \in scene.masters : crash(m)
  <2>1. hist' = hist \/ (keep.h # "none" /\ hist' = [hist EXCEPT !.released = @ \union {keep.h}])
    BY <1>5 DEF crash
  <2> QED BY <2>1, <1>r, <1>t
<1>6. ASSUME NEW s \in Callers, nextHost(s) PROVE hist' \in History
  <2>1. PICK h \in put[s].todo :
          \/ hist' = hist
          \/ hist' = [hist EXCEPT !.held = IF put[s].want[h] = "SUSPENDED" /\ row[h].st # "none"
                                           THEN @ \union {h} ELSE @ \ {h},
                                  !.released = IF row[h].st = "DELETING" THEN @ \union {h} ELSE @,
                                  !.undone = @ \ {h}]
    BY <1>6 DEF nextHost
  <2> DEFINE A == IF put[s].want[h] = "SUSPENDED" /\ row[h].st # "none" THEN hist.held \union {h} ELSE hist.held \ {h}
             R == IF row[h].st = "DELETING" THEN hist.released \union {h} ELSE hist.released
  <2>2. A \in SUBSET Hosts /\ R \in SUBSET Hosts
    BY <1>t DEF History
  <2>3. hist' = hist \/ hist' = [hist EXCEPT !.held = A, !.released = R, !.undone = @ \ {h}]
    BY <2>1
  <2> HIDE DEF A, R
  <2> QED BY <2>2, <2>3, <1>t DEF History
<1>7. ASSUME NEW s \in Callers, insertRow(s) PROVE hist' \in History
  <2>1. \E S : hist' = hist \/ hist' = [hist EXCEPT !.held = @ \ S, !.undone = @ \ S]
    BY <1>7 DEF insertRow
  <2> QED BY <2>1, <1>t DEF History
<1>8. ASSUME NEW S, deleteMany(S) \/ updateMany(S) PROVE hist' \in History
  BY <1>8, DeletedRows, MarkedRows
<1> QED BY <1>1, <1>2, <1>3, <1>4, <1>5, <1>6, <1>7, <1>8, <1>t, Writers

(* TypeInv is inductive.                                                   *)
LEMMA TypeStep ==
    ASSUME TypeInv, [HostNext]_hostVars
    PROVE  TypeInv'
<1>1. CASE UNCHANGED Registry
  BY <1>1 DEF Registry, TypeInv, RowInv, PutInv, PassInv
<1>2. CASE RegistryNext
  <2>1. RowInv'
    BY <1>2, CallRows, WriteRows, WorkRows DEF RegistryNext
  <2>2. label' \in [Tenant -> Workspaces \union {"free"}]
    <3>1. \A s \in Callers : holdLabel(s) => label' = label \/ \E h \in Tenant : label' = [label EXCEPT ![h] = s[2]]
      BY DEF holdLabel
    <3> QED BY <1>2, <3>1, Writers, Who DEF TypeInv
  <2>3. made' \in Nat
    BY <1>2, Writers DEF TypeInv, postHostname
  <2>4. obj' \in [Custom -> CfObject]
    <3>1. CASE postHostname
      <4>1. [id |-> made + 1, ours |-> "yes"] \in CfObject
        BY DEF TypeInv, CfObject
      <4>2. obj' = obj \/ obj' = [obj EXCEPT ![worker.h] = [id |-> made + 1, ours |-> "yes"]]
        BY <3>1 DEF postHostname
      <4> QED BY <4>1, <4>2 DEF TypeInv
    <3>2. CASE deleteHostname \/ releaseHostname
      <4>1. \E h : obj' = obj \/ obj' = [obj EXCEPT ![h] = NoObj]
        BY <3>2 DEF deleteHostname, releaseHostname, answered, unanswered
      <4> QED BY <4>1, Empty DEF TypeInv
    <3> QED BY <1>2, <3>1, <3>2, Writers DEF TypeInv
  <2> QED BY <1>2, <2>1, <2>2, <2>3, <2>4, PutStep, PassStep, HistoryStep, Writers DEF TypeInv
<1> QED BY <1>1, <1>2, RegistryFrame

(* Every document of the registry, and what its processes know of them,    *)
(* has the type the code's interfaces give it, in every reachable state of *)
(* the whole; a host without a row has no number at Cloudflare.            *)
THEOREM TypeCorrect == HostSpec => []TypeInv
<1>1. HostInit => TypeInv
  <2> SUFFICES ASSUME HostInit PROVE TypeInv
    OBVIOUS
  <2>1. Init
    BY DEF HostInit
  <2>2. scene \in Scene
    BY <2>1, ScenesAssumption DEF Init, Scene
  <2>3. label \in [Tenant -> Workspaces \union {"free"}]
    BY <2>1 DEF Init, seedHostLabels
  <2>4. obj \in [Custom -> CfObject]
    <3>1. Foreign \in CfObject /\ NoObj \in CfObject
      BY DEF Foreign, NoObj, CfObject
    <3> QED BY <2>1, <3>1 DEF Init
  <2>5. hist \in History /\ made \in Nat
    BY <2>1 DEF Init, History
  <2>6. RowInv
    BY <2>1, Empty DEF Init, RowInv
  <2>7. PutInv
    BY <2>1, Empty DEF Init, PutInv
  <2>8. PassInv
    BY <2>1, Empty DEF Init, PassInv
  <2> QED BY <2>2, <2>3, <2>4, <2>5, <2>6, <2>7, <2>8 DEF TypeInv
<1> QED BY <1>1, TypeStep, PTL DEF HostSpec

-----------------------------------------------------------------------------
(* Labels.                                                                 *)

\* A tenant host that is about to be inserted has its label.
LabelInv ==
    /\ LabelOwned
    /\ \A s \in Callers : put[s].at = "insert" /\ put[s].h \in Tenant => label[put[s].h] = s[2]

(* How a step writes the row of a host: it is inserted by the PUT that     *)
(* holds its label, removed, or stays with its workspace.                  *)
LEMMA RowMoves ==
    ASSUME TypeInv, RegistryNext, NEW h \in Hosts
    PROVE  \/ row'[h].st = "none"
           \/ row[h].st # "none" /\ row'[h].ws = row[h].ws
           \/ \E s \in Callers : insertRow(s) /\ put[s].h = h /\ row'[h].ws = s[2]
<1>t. row \in [Hosts -> AppHost] /\ (\A x \in Hosts : row[x] \in AppHost) /\ \A x \in Custom : x \in Hosts
  BY DEF TypeInv, RowInv, Hosts
<1> DEFINE Goal == \/ row'[h].st = "none"
                   \/ row[h].st # "none" /\ row'[h].ws = row[h].ws
                   \/ \E s \in Callers : insertRow(s) /\ put[s].h = h /\ row'[h].ws = s[2]
<1> SUFFICES Goal
  OBVIOUS
<1>0. row'[h] = row[h] => Goal
  OBVIOUS
<1>s. ASSUME NEW x \in Hosts, NEW st, row[x].st # "none", row' = [row EXCEPT ![x].st = st] PROVE Goal
  <2>1. [row[x] EXCEPT !.st = st].ws = row[x].ws
    BY <1>t DEF AppHost
  <2>2. row'[h] = row[h] \/ (h = x /\ row'[h] = [row[x] EXCEPT !.st = st])
    BY <1>s, <1>t
  <2> QED BY <2>1, <2>2, <1>s
<1>r. ASSUME NEW S, deleteMany(S) \/ updateMany(S) PROVE Goal
  BY <1>r, DeletedRows, MarkedRows, Empty DEF Untouched
<1>1. CASE Calls
  <2>1. ASSUME NEW m \in scene.masters, NEW w \in scene.ws, NEW x \in scene.hosts, reserve(m, w, x) PROVE Goal
    BY <2>1, <1>0 DEF reserve
  <2>2. ASSUME NEW m \in scene.masters, NEW w \in scene.ws, NEW want, setDesiredHosts(m, w, want) PROVE Goal
    BY <2>2, <1>t, Empty DEF setDesiredHosts
  <2>3. ASSUME NEW m \in scene.masters, NEW w \in scene.ws, removeAllAppHosts(m, w) PROVE Goal
    <3>1. \E S : deleteMany(S)
      BY <2>3 DEF removeAllAppHosts
    <3> HIDE DEF Goal
    <3> QED BY <3>1, <1>r
  <2>4. ASSUME NEW m \in scene.masters, NEW w \in scene.ws, NEW dir, setWorkspaceHostsSuspended(m, w, dir) PROVE Goal
    BY <2>4, <1>0 DEF setWorkspaceHostsSuspended
  <2> HIDE DEF Goal
  <2> QED BY <1>1, <2>1, <2>2, <2>3, <2>4 DEF Calls
<1>2. CASE Writes
  <2>p. \A s \in Callers : put[s].todo \subseteq Hosts
    BY DEF TypeInv, PutInv, Put
  <2>1. ASSUME NEW s \in Callers, nextHost(s) PROVE Goal
    <3>1. PICK x \in put[s].todo : row' = row \/ (row[x].st # "none" /\ row' = [row EXCEPT ![x].st = put[s].want[x]])
      BY <2>1 DEF nextHost, Set
    <3>2. x \in Hosts
      BY <2>p
    <3> HIDE DEF Goal
    <3> QED BY <3>1, <3>2, <1>0, <1>s
  <2>2. ASSUME NEW s \in Callers, insertRow(s) PROVE Goal
    <3> DEFINE d == [NoRow EXCEPT !.ws = s[2], !.st = "PENDING"]
    <3>1. row' = row \/ row' = [row EXCEPT ![put[s].h] = d]
      BY <2>2 DEF insertRow
    <3>2. d.ws = s[2] /\ put[s].h \in Hosts
      BY <2>2 DEF NoRow, insertRow, TypeInv, PutInv
    <3> HIDE DEF d
    <3>3. CASE row' = [row EXCEPT ![put[s].h] = d] /\ h = put[s].h
      BY <3>2, <3>3, <2>2, <1>t
    <3>4. row' = [row EXCEPT ![put[s].h] = d] /\ h # put[s].h => row'[h] = row[h]
      BY <1>t
    <3> HIDE DEF Goal
    <3> QED BY <3>1, <3>3, <3>4, <1>0
  <2>3. ASSUME NEW s \in Callers, retireRest(s) \/ markRest(s) \/ markAppHosts(s) PROVE Goal
    <3>1. \E S : deleteMany(S) \/ updateMany(S)
      BY <2>3 DEF retireRest, markRest, markAppHosts
    <3> HIDE DEF Goal
    <3> QED BY <3>1, <1>r
  <2>4. ASSUME NEW p \in Powers, sweep(p) PROVE Goal
    BY <2>4, SweptRows DEF Routed
  <2>5. (\E p \in Powers : sweepDone(p)) \/ (\E s \in Callers : holdLabel(s)) => row'[h] = row[h]
    BY DEF sweepDone, holdLabel
  <2> HIDE DEF Goal
  <2> QED BY <1>2, <1>0, <2>1, <2>2, <2>3, <2>4, <2>5 DEF Writes
<1>3. CASE findExisting
  <2>1. PICK x \in Custom : row' = row \/ (row[x].st # "none" /\ row' = [row EXCEPT ![x].st = "FAILED"])
    BY <1>3 DEF findExisting, Set, TypeInv, PassInv, Pass
  <2> HIDE DEF Goal
  <2> QED BY <2>1, <1>0, <1>s, <1>t
<1>4. CASE recordHostname
  <2>1. ASSUME NEW st \in RowStates, row[worker.h].st # "none", worker.h \in Hosts,
               row' = [row EXCEPT ![worker.h] = [row[worker.h] EXCEPT !.cf = worker.id, !.st = st]]
        PROVE  Goal
    <3>1. [row[worker.h] EXCEPT !.cf = worker.id, !.st = st].ws = row[worker.h].ws
      BY <2>1, <1>t DEF AppHost
    <3> QED BY <2>1, <3>1, <1>t
  <2> HIDE DEF Goal
  <2> QED BY <1>4, <1>0, <2>1, Recorded
<1>5. CASE forgetRow
  <2>1. row' = row \/ row' = [row EXCEPT ![worker.h] = NoRow]
    BY <1>5 DEF forgetRow
  <2> QED BY <2>1, <1>t, Empty
<1>6. CASE recordReleased
  <2> DEFINE d == [row[keep.h] EXCEPT !.st = "CF_RELEASED", !.cf = 0]
  <2>1. keep.h \in Hosts /\ (row' = row \/ (row[keep.h].st # "none" /\ row' = [row EXCEPT ![keep.h] = d]))
    BY <1>6, ReleasedRow
  <2>2. d.ws = row[keep.h].ws
    BY <2>1, <1>t DEF AppHost
  <2> HIDE DEF d
  <2> QED BY <2>1, <2>2, <1>t
<1>7. runOnce \/ postHostname \/ deleteHostname \/ releaseSuspendedCfHostnames \/ releaseHostname
        \/ (\E m \in scene.masters : crash(m)) => row'[h] = row[h]
  BY DEF runOnce, postHostname, deleteHostname, releaseSuspendedCfHostnames, releaseHostname, crash
<1> HIDE DEF Goal
<1> QED BY <1>0, <1>1, <1>2, <1>3, <1>4, <1>5, <1>6, <1>7 DEF RegistryNext, Work, Retention

(* Only a caller that was given its label comes to insert.                 *)
LEMMA NewInsert ==
    ASSUME TypeInv, RegistryNext, NEW s \in Callers, put'[s].at = "insert"
    PROVE  put'[s] = put[s] \/ \E v \in Callers : holdLabel(v)
<1>t. put \in [Callers -> Put] /\ (\A v \in Callers : put[v] \in Put) /\ scene.ws \subseteq Workspaces /\ scene.masters \subseteq Masters
  BY DEF TypeInv, PutInv, Scene
<1>s. ASSUME NEW v, NEW p, put' = [put EXCEPT ![v] = p], p.at # "insert" PROVE put'[s] = put[s]
  BY <1>s, <1>t
<1>1. CASE Calls
  <2>1. ASSUME NEW m \in scene.masters, NEW v \in scene.ws, NEW h \in scene.hosts, reserve(m, v, h) PROVE put'[s] = put[s]
    <3> DEFINE p == [NoPut EXCEPT !.op = "reserve", !.at = "hold", !.h = h]
    <3>1. put' = [put EXCEPT ![<<m, v, "locked">>] = p]
      BY <2>1 DEF reserve
    <3>2. p.at # "insert"
      BY DEF NoPut
    <3> HIDE DEF p
    <3> QED BY <3>1, <3>2, <1>s, <1>t
  <2>2. ASSUME NEW m \in scene.masters, NEW v \in scene.ws, NEW want, setDesiredHosts(m, v, want) PROVE put'[s] = put[s]
    <3> DEFINE todo == {h \in Hosts : want[h] # "none"}
               cur  == {h \in Rows(v) : row[h].st # "DELETING"}
               p    == [NoPut EXCEPT !.op = "put", !.at = "next", !.want = want, !.todo = todo, !.cur = cur]
    <3>1. put' = [put EXCEPT ![<<m, v, "locked">>] = p]
      BY <2>2 DEF setDesiredHosts
    <3> HIDE DEF todo, cur
    <3>2. p.at # "insert"
      BY DEF NoPut
    <3> HIDE DEF p
    <3> QED BY <3>1, <3>2, <1>s, <1>t
  <2>3. ASSUME NEW m \in scene.masters, NEW v \in scene.ws, removeAllAppHosts(m, v) PROVE put'[s] = put[s]
    <3>1. PICK y : put' = [put EXCEPT ![<<m, v, "uninstall">>] = [NoPut EXCEPT !.op = "remove", !.at = "mark", !.told = y]]
      BY <2>3 DEF removeAllAppHosts
    <3> DEFINE p == [NoPut EXCEPT !.op = "remove", !.at = "mark", !.told = y]
    <3>2. put' = [put EXCEPT ![<<m, v, "uninstall">>] = p]
      BY <3>1
    <3>3. p.at # "insert"
      BY DEF NoPut
    <3> HIDE DEF p
    <3> QED BY <3>2, <3>3, <1>s, <1>t
  <2>4. ASSUME NEW m, NEW v, NEW dir, setWorkspaceHostsSuspended(m, v, dir) PROVE put'[s] = put[s]
    BY <2>4 DEF setWorkspaceHostsSuspended
  <2> QED BY <1>1, <2>1, <2>2, <2>3, <2>4 DEF Calls
<1>2. CASE Writes
  <2>1. ASSUME NEW v \in Callers, nextHost(v) PROVE put'[s] = put[s]
    <3>1. put[v].at = "next" /\ \E h : \/ put' = [put EXCEPT ![v].todo = @ \ {h}]
                                       \/ put' = [put EXCEPT ![v].at = "hold", ![v].h = h]
      BY <2>1 DEF nextHost
    <3>2. PICK h : put' = [put EXCEPT ![v].todo = @ \ {h}] \/ put' = [put EXCEPT ![v].at = "hold", ![v].h = h]
      BY <3>1
    <3> DEFINE p == [put[v] EXCEPT !.todo = @ \ {h}]
               q == [put[v] EXCEPT !.at = "hold", !.h = h]
    <3>3. p.at = "next" /\ q.at = "hold"
      BY <3>1, <1>t DEF Put
    <3>4. put' = [put EXCEPT ![v] = p] \/ put' = [put EXCEPT ![v] = q]
      BY <3>2, <1>t
    <3> HIDE DEF p, q
    <3> QED BY <3>3, <3>4, <1>s
  <2>2. ASSUME NEW v \in Callers, insertRow(v) PROVE put'[s] = put[s]
    <3> DEFINE p == [put[v] EXCEPT !.at = "next", !.todo = @ \ {put[v].h}, !.h = "none"]
    <3>1. put' = [put EXCEPT ![v] = NoPut] \/ put' = [put EXCEPT ![v] = p]
      BY <2>2, <1>t DEF insertRow
    <3>2. p.at # "insert"
      BY <1>t DEF Put
    <3> HIDE DEF p
    <3> QED BY <3>1, <3>2, <1>s, Empty
  <2>3. ASSUME NEW v \in Callers, retireRest(v) PROVE put'[s] = put[s]
    <3> DEFINE p == [put[v] EXCEPT !.at = "mark"]
    <3>1. put' = [put EXCEPT ![v] = p]
      BY <2>3, <1>t DEF retireRest
    <3>2. p.at # "insert"
      BY <1>t DEF Put
    <3> HIDE DEF p
    <3> QED BY <3>1, <3>2, <1>s
  <2>4. ASSUME NEW v \in Callers, markRest(v) \/ markAppHosts(v) PROVE put'[s] = put[s]
    BY <2>4, <1>s, Empty DEF markRest, markAppHosts
  <2>5. ASSUME NEW p \in Powers, sweep(p) \/ sweepDone(p) PROVE put'[s] = put[s]
    BY <2>5 DEF sweep, sweepDone
  <2> QED BY <1>2, <2>1, <2>2, <2>3, <2>4, <2>5 DEF Writes
<1>3. ASSUME NEW m, crash(m) PROVE put'[s] = put[s]
  BY <1>3, Empty DEF crash
<1>4. Work \/ Retention => put' = put
  BY DEF Work, runOnce, findExisting, postHostname, recordHostname, deleteHostname, forgetRow, Retention,
     releaseSuspendedCfHostnames, releaseHostname, recordReleased
<1> QED BY <1>1, <1>2, <1>3, <1>4 DEF RegistryNext

(* LabelInv is inductive: a label is taken once, by the workspace that     *)
(* then inserts, and nothing gives it to another.                          *)
LEMMA LabelStep ==
    ASSUME TypeInv, LabelInv, [HostNext]_hostVars
    PROVE  LabelInv'
<1>1. CASE UNCHANGED Registry
  BY <1>1 DEF Registry, LabelInv, LabelOwned
<1>2. CASE RegistryNext
  <2>t. label \in [Tenant -> Workspaces \union {"free"}] /\ \A h \in Tenant : h \in Hosts
    BY DEF TypeInv, Hosts
  <2>f. \A s \in Callers : holdLabel(s) => row' = row
    BY DEF holdLabel
  <2>3. ASSUME NEW s \in Callers, holdLabel(s) PROVE LabelInv'
    <3> DEFINE w == s[2]
    <3>1. put[s] \in Put /\ put \in [Callers -> Put]
      BY DEF TypeInv, PutInv
    <3>2. CASE label' = label /\ put' = [put EXCEPT ![s] = NoPut]
      <4>1. \A v \in Callers : put'[v] = put[v] \/ put'[v] = NoPut
        BY <3>2, <3>1
      <4> QED BY <3>2, <4>1, <2>3, <2>f, Empty DEF LabelInv, LabelOwned
    <3>3. CASE put' = [put EXCEPT ![s].at = "insert"] /\ mayUse(w, put[s].h)
               /\ label' = IF put[s].h \in Tenant /\ label[put[s].h] = "free" THEN [label EXCEPT ![put[s].h] = w] ELSE label
      <4>1. \A h \in Tenant : row[h].st # "none" => label'[h] = label[h]
        <5>1. \A h \in Tenant : row[h].st # "none" => label[h] # "free"
          <6>1. \A h \in Tenant : row[h].ws # "free"
            BY WorkspacesAssumption, <2>t DEF TypeInv, RowInv, AppHost, WorkspacesAssumption
          <6> QED BY <6>1 DEF LabelInv, LabelOwned
        <5> QED BY <5>1, <3>3, <2>t
      <4>2. LabelOwned'
        BY <4>1, <2>3, <2>f DEF LabelInv, LabelOwned
      <4>3. put[s].h \in Tenant => label'[put[s].h] = w
        BY <3>3, <2>t DEF mayUse
      <4>4. \A v \in Callers : /\ v # s => put'[v] = put[v]
                               /\ v = s => put'[v].h = put[s].h
        BY <3>3, <3>1 DEF Put
      <4>w. \A v \in Callers : v[2] # "free"
        BY Who, WorkspacesAssumption DEF WorkspacesAssumption
      <4>5. \A v \in Callers : v # s /\ put[v].at = "insert" /\ put[v].h \in Tenant => label'[put[v].h] = v[2]
        <5> HIDE DEF w
        <5> QED BY <3>3, <2>t, <4>w DEF LabelInv
      <4>6. \A v \in Callers : put'[v].at = "insert" /\ put'[v].h \in Tenant => label'[put'[v].h] = v[2]
        <5>1. ASSUME NEW v \in Callers, v # s, put'[v].at = "insert", put'[v].h \in Tenant PROVE label'[put'[v].h] = v[2]
          <6>1. put'[v] = put[v]
            BY <5>1, <4>4
          <6> QED BY <5>1, <6>1, <4>5
        <5>2. put'[s].h \in Tenant => label'[put'[s].h] = s[2]
          <6>1. put'[s].h = put[s].h
            BY <4>4
          <6> QED BY <6>1, <4>3
        <5> QED BY <5>1, <5>2
      <4> QED BY <4>2, <4>6 DEF LabelInv
    <3> QED BY <2>3, <3>2, <3>3 DEF holdLabel
  <2>4. CASE label' = label
    <3>1. LabelOwned'
      <4> SUFFICES ASSUME NEW h \in Tenant, row'[h].st # "none" PROVE label[h] = row'[h].ws
        BY <2>4 DEF LabelOwned
      <4>1. \/ row[h].st # "none" /\ row'[h].ws = row[h].ws
            \/ \E s \in Callers : insertRow(s) /\ put[s].h = h /\ row'[h].ws = s[2]
        BY <1>2, <2>t, RowMoves
      <4>2. \A s \in Callers : insertRow(s) => put[s].at = "insert"
        BY DEF insertRow
      <4> QED BY <4>1, <4>2 DEF LabelInv, LabelOwned
    <3>2. ASSUME NEW s \in Callers, put'[s].at = "insert" PROVE put'[s] = put[s] \/ \E v \in Callers : holdLabel(v)
      BY <1>2, <3>2, NewInsert
    <3>3. CASE \E v \in Callers : holdLabel(v)
      BY <3>3, <2>3
    <3>4. CASE \A s \in Callers : put'[s].at = "insert" => put'[s] = put[s]
      BY <2>4, <3>1, <3>4 DEF LabelInv
    <3> QED BY <3>2, <3>3, <3>4
  <2> QED BY <1>2, <2>3, <2>4, Writers
<1> QED BY <1>1, <1>2, RegistryFrame

(* LabelOwned: two workspaces never get hosts under one label; whoever has *)
(* the row holds the label, however reservations, PUTs, crashes and retries *)
(* are interleaved (LabelNamespace.hold, isAvailableFor, insertOne).       *)
THEOREM LabelsOwned == HostSpec => []LabelOwned
<1>1. HostInit => LabelInv
  <2> SUFFICES ASSUME HostInit PROVE LabelInv
    OBVIOUS
  <2>1. Init
    BY DEF HostInit
  <2>2. (\A h \in Hosts : row[h].st = "none") /\ \A s \in Callers : put[s].at = "none"
    BY <2>1, Empty DEF Init
  <2> QED BY <2>2 DEF LabelInv, LabelOwned, Hosts
<1>2. TypeInv /\ LabelInv /\ [HostNext]_hostVars => LabelInv'
  BY LabelStep
<1>3. LabelInv => LabelOwned
  BY DEF LabelInv
<1> QED BY <1>1, <1>2, <1>3, TypeCorrect, PTL DEF HostSpec


-----------------------------------------------------------------------------
(* What a step does to a host: its row, and what is remembered of it.      *)

\* The host is not put on record as suspended by an operator, nor as released no longer.
Remembered(x) == /\ x \in hist'.held \ hist'.undone => x \in hist.held \ hist.undone
                 /\ x \in hist.released => x \in hist'.released

Rests(x) == row'[x] = row[x] /\ Remembered(x)

\* A dead row is cleared, by a PUT or by the worker when its object is gone.
Drops(x) == /\ row[x].st = "DELETING" /\ row'[x] = NoRow
            /\ row[x].cf = 0 \/ (worker.at = "forget" /\ x = worker.h)
            /\ Remembered(x)

\* deleteMany, updateMany
Retires(x) == /\ x \notin hist'.held
              /\ x \in hist.released => x \in hist'.released
              /\ \/ row[x].cf = 0 /\ row'[x] = NoRow
                 \/ row[x].st # "none" /\ row'[x].st = "DELETING" /\ row'[x].cf = row[x].cf

\* A PUT writes the state that is wanted over whatever the row is by now.
Updates(x) == /\ row[x].st # "none" /\ row'[x].cf = row[x].cf
              /\ row'[x].st \in {"ACTIVE", "SUSPENDED"} /\ (x \in hist'.held => row'[x].st = "SUSPENDED")
              /\ x \in hist.released \/ row[x].st = "DELETING" => x \in hist'.released

Inserts(x) == /\ row[x].st = "none" /\ row'[x].st = "PENDING" /\ row'[x].cf = 0
              /\ x \notin hist'.held

Sweeps(x) == /\ Remembered(x) /\ row'[x].cf = row[x].cf
             /\ \/ row[x].st \in Routed /\ row'[x].st = "WS_SUSPENDED" /\ row'[x].pre = row[x].st
                \/ /\ row[x].st \in {"WS_SUSPENDED", "CF_RELEASED"}
                   /\ row'[x].st = IF row[x].pre = "none" THEN "ACTIVE" ELSE row[x].pre
                   /\ row[x].pre \in PreStates

Refuses(x) == /\ worker.at = "pick" /\ x \in worker.create
              /\ row'[x].st = "FAILED" /\ row'[x].cf = row[x].cf
              /\ x \in hist'.undone
              /\ x \in hist.released => x \in hist'.released

\* The worker gives a row its number and the state it had when the pass began.
Numbers(x) == /\ worker.at = "record" /\ x = worker.h
              /\ row'[x].cf = worker.id /\ row'[x].pre = row[x].pre
              /\ x \in hist'.held \ hist'.undone =>
                   /\ x \in hist.held \ hist.undone
                   /\ row'[x].st = row[x].st \/ row[x].st = "PENDING"
              /\ hist'.recorded = hist.recorded \union {worker.id}
              /\ worker' = onward(worker) /\ UNCHANGED <<obj, made, keep>>

Releases(x) == /\ x = keep.h
               /\ row[x].st = "WS_SUSPENDED" /\ row'[x].st = "CF_RELEASED"
               /\ row'[x].pre = row[x].pre /\ row'[x].cf = 0
               /\ Remembered(x) /\ keep'.h = "none"

Moves(x) == \/ Rests(x) \/ Drops(x) \/ Retires(x) \/ Updates(x) \/ Inserts(x)
            \/ Sweeps(x) \/ Refuses(x) \/ Numbers(x) \/ Releases(x)

(* recordHostname gives a row its number, or finds no row.                 *)
LEMMA RecordMoves ==
    ASSUME TypeInv, recordHostname
    PROVE  UNCHANGED <<row, hist>> \/ (Numbers(worker.h) /\ \A y \in Hosts : y # worker.h => Rests(y))
<1> DEFINE h == worker.h
<1> SUFFICES ASSUME ~UNCHANGED <<row, hist>> PROVE Numbers(h) /\ \A y \in Hosts : y # h => Rests(y)
  OBVIOUS
<1>t. row \in [Hosts -> AppHost] /\ row[h] \in AppHost /\ h \in Hosts /\ worker.at = "record"
  BY Recorded DEF TypeInv, RowInv, recordHostname
<1>1. /\ hist'.released = hist.released \ {h} /\ hist'.held = hist.held
      /\ hist'.undone = IF row[h].st # worker.snap[h].st THEN hist.undone \union {h} ELSE hist.undone
      /\ hist'.recorded = hist.recorded \union {worker.id}
      /\ worker' = onward(worker) /\ UNCHANGED <<obj, made, keep>>
  BY Recorded DEF recordHostname
<1>2. PICK st \in RowStates \ {"none"} :
        /\ row' = [row EXCEPT ![h] = [row[h] EXCEPT !.cf = worker.id, !.st = st]]
        /\ st = worker.snap[h].st \/ (worker.snap[h].st = "PENDING" /\ st = "ACTIVE")
  BY Recorded
<1> DEFINE d == [row[h] EXCEPT !.cf = worker.id, !.st = st]
<1>3. d.cf = worker.id /\ d.st = st /\ d.pre = row[h].pre
  BY <1>t DEF AppHost
<1>4. row' = [row EXCEPT ![h] = d]
  BY <1>2
<1> HIDE DEF d
<1>5. Numbers(h)
  <2>1. row'[h] = d
    BY <1>4, <1>t
  <2>2. row[h].st = worker.snap[h].st => d.st = row[h].st \/ row[h].st = "PENDING"
    BY <1>2, <1>3
  <2>3. h \in hist'.held \ hist'.undone => h \in hist.held \ hist.undone /\ row[h].st = worker.snap[h].st
    BY <1>1
  <2> QED BY <1>1, <1>3, <1>t, <2>1, <2>2, <2>3 DEF Numbers
<1>6. ASSUME NEW y \in Hosts, y # h PROVE Rests(y)
  <2>1. row'[y] = row[y]
    BY <1>4, <1>6, <1>t
  <2> QED BY <2>1, <1>1, <1>6 DEF Rests, Remembered
<1> QED BY <1>5, <1>6

(* What the retention job writes is remembered, or takes the number away.  *)
LEMMA ReleaseMoves ==
    ASSUME TypeInv, recordReleased
    PROVE  /\ Releases(keep.h) \/ keep.h \in hist'.released
           /\ hist'.recorded = hist.recorded
           /\ \A y \in Hosts : Rests(y) \/ Releases(y)
<1> DEFINE h == keep.h
<1>t. row \in [Hosts -> AppHost] /\ row[h] \in AppHost /\ h \in Hosts /\ keep'.h = "none" /\ hist \in History
  BY ReleasedRow DEF TypeInv, RowInv
<1> DEFINE d == [row[h] EXCEPT !.st = "CF_RELEASED", !.cf = 0]
<1>1. \/ row[h].st = "WS_SUSPENDED" /\ hist' = hist /\ row' = [row EXCEPT ![h] = d]
      \/ row' = row /\ hist' = [hist EXCEPT !.released = @ \union {h}]
  BY ReleasedRow
<1>2. d.st = "CF_RELEASED" /\ d.cf = 0 /\ d.pre = row[h].pre
  BY <1>t DEF AppHost
<1> HIDE DEF d
<1>3. CASE row[h].st = "WS_SUSPENDED" /\ hist' = hist /\ row' = [row EXCEPT ![h] = d]
  <2>1. row'[h] = d /\ \A y \in Hosts : y # h => row'[y] = row[y]
    BY <1>3, <1>t
  <2>2. Releases(h)
    BY <1>2, <1>3, <1>t, <2>1 DEF Releases, Remembered
  <2> QED BY <1>3, <2>1, <2>2 DEF Rests, Remembered
<1>4. CASE row' = row /\ hist' = [hist EXCEPT !.released = @ \union {h}]
  <2>1. hist'.held = hist.held /\ hist'.undone = hist.undone /\ hist'.released = hist.released \union {h}
        /\ hist'.recorded = hist.recorded
    BY <1>4, <1>t DEF History
  <2> QED BY <1>4, <2>1 DEF Rests, Remembered
<1> QED BY <1>1, <1>3, <1>4

(* Every step of the registry is, for every host, one of these.            *)
LEMMA HostMoves ==
    ASSUME TypeInv, RegistryNext, NEW x \in Hosts
    PROVE  Moves(x)
<1>t. /\ row \in [Hosts -> AppHost] /\ (\A h \in Hosts : row[h] \in AppHost) /\ hist \in History
      /\ \A h \in Hosts : row[h].st = "none" => row[h].cf = 0
      /\ \A h \in Custom : h \in Hosts
      /\ \A s \in Callers : put[s] \in Put /\ put[s].todo \subseteq Hosts
  BY DEF TypeInv, RowInv, Hosts, PutInv, Put
<1>0. UNCHANGED <<row, hist>> => Rests(x)
  BY DEF Rests, Remembered
<1>r. ASSUME NEW S, deleteMany(S) \/ updateMany(S) PROVE Rests(x) \/ Retires(x)
  <2>1. CASE deleteMany(S)
    BY <2>1, DeletedRows DEF Untouched, Rests, Remembered, Retires
  <2>2. CASE updateMany(S)
    BY <2>2, MarkedRows DEF Untouched, Rests, Remembered, Retires
  <2> QED BY <1>r, <2>1, <2>2
<1>1. CASE Calls
  <2>1. ASSUME NEW m \in scene.masters, NEW w \in scene.ws, NEW h \in scene.hosts, reserve(m, w, h) PROVE Rests(x)
    BY <2>1, <1>0 DEF reserve
  <2>2. ASSUME NEW m \in scene.masters, NEW w \in scene.ws, NEW want, setDesiredHosts(m, w, want) PROVE Rests(x) \/ Drops(x)
    BY <2>2, <1>t DEF setDesiredHosts, Rests, Remembered, Drops
  <2>3. ASSUME NEW m \in scene.masters, NEW w \in scene.ws, removeAllAppHosts(m, w) PROVE Rests(x) \/ Retires(x)
    BY <2>3, <1>r DEF removeAllAppHosts
  <2>4. ASSUME NEW m \in scene.masters, NEW w \in scene.ws, NEW dir, setWorkspaceHostsSuspended(m, w, dir) PROVE Rests(x)
    BY <2>4, <1>0 DEF setWorkspaceHostsSuspended
  <2> QED BY <1>1, <2>1, <2>2, <2>3, <2>4 DEF Calls, Moves
<1>2. CASE Writes
  <2>1. ASSUME NEW s \in Callers, nextHost(s) PROVE Rests(x) \/ Updates(x)
    <3>1. CASE UNCHANGED <<row, hist>>
      BY <3>1, <1>0
    <3>2. CASE ~UNCHANGED <<row, hist>>
      <4>1. PICK h \in put[s].todo :
              /\ row' = IF row[h].st = "none" THEN row ELSE Set(h, put[s].want[h])
              /\ hist' = [hist EXCEPT !.held = IF put[s].want[h] = "SUSPENDED" /\ row[h].st # "none"
                                               THEN @ \union {h} ELSE @ \ {h},
                                      !.released = IF row[h].st = "DELETING" THEN @ \union {h} ELSE @,
                                      !.undone = @ \ {h}]
        BY <2>1, <3>2 DEF nextHost
      <4>2. h \in Hosts /\ put[s].want[h] \in {"ACTIVE", "SUSPENDED"}
        BY <1>t DEF TypeInv, PutInv, Put, Wanted
      <4>3. /\ hist'.held = IF put[s].want[h] = "SUSPENDED" /\ row[h].st # "none" THEN hist.held \union {h} ELSE hist.held \ {h}
            /\ hist'.released = IF row[h].st = "DELETING" THEN hist.released \union {h} ELSE hist.released
            /\ hist'.undone = hist.undone \ {h}
        BY <4>1, <1>t DEF History
      <4> DEFINE d == [row[h] EXCEPT !.st = put[s].want[h]]
      <4>4. d.st = put[s].want[h] /\ d.cf = row[h].cf
        BY <1>t, <4>2 DEF AppHost
      <4>5. \/ row' = row /\ row[h].st = "none"
            \/ row' = [row EXCEPT ![h] = d] /\ row[h].st # "none"
        <5>1. \A v : [row EXCEPT ![h].st = v] = [row EXCEPT ![h] = [row[h] EXCEPT !.st = v]]
          BY <4>2, <1>t
        <5> QED BY <4>1, <5>1 DEF Set
      <4> HIDE DEF d
      <4>6. CASE x # h
        <5>1. row'[x] = row[x]
          BY <4>5, <4>6, <1>t
        <5> QED BY <5>1, <4>3, <4>6 DEF Rests, Remembered
      <4>7. CASE x = h /\ row[h].st # "none"
        <5>1. row'[x] = d
          BY <4>5, <4>7, <1>t
        <5> QED BY <5>1, <4>2, <4>3, <4>4, <4>7 DEF Updates
      <4>8. CASE x = h /\ row[h].st = "none"
        <5>1. row' = row /\ x \notin hist'.undone /\ hist'.held = hist.held \ {x} /\ hist'.released = hist.released
          BY <4>3, <4>5, <4>8
        <5> QED BY <5>1 DEF Rests, Remembered
      <4> QED BY <4>6, <4>7, <4>8
    <3> QED BY <3>1, <3>2
  <2>2. ASSUME NEW s \in Callers, insertRow(s) PROVE Rests(x) \/ Inserts(x)
    <3>1. CASE UNCHANGED <<row, hist>>
      BY <3>1, <1>0
    <3>2. CASE ~UNCHANGED <<row, hist>>
      <4> DEFINE d == [NoRow EXCEPT !.ws = s[2], !.st = "PENDING"]
                 h == put[s].h
      <4>1. /\ row[h].st = "none" /\ row' = [row EXCEPT ![h] = d]
            /\ hist' = [hist EXCEPT !.held = @ \ {h}, !.undone = @ \ {h}]
        BY <2>2, <3>2 DEF insertRow
      <4>2. d.st = "PENDING" /\ d.cf = 0
        BY DEF NoRow
      <4> HIDE DEF d, h
      <4>3. hist'.held = hist.held \ {h} /\ hist'.undone = hist.undone \ {h} /\ hist'.released = hist.released
        BY <4>1, <1>t DEF History
      <4>4. CASE x = h
        BY <4>1, <4>2, <4>3, <4>4, <1>t DEF Inserts
      <4>5. CASE x # h
        <5>1. row'[x] = row[x]
          BY <4>1, <4>5, <1>t
        <5> QED BY <5>1, <4>3, <4>5 DEF Rests, Remembered
      <4> QED BY <4>4, <4>5
    <3> QED BY <3>1, <3>2
  <2>3. ASSUME NEW s \in Callers, retireRest(s) \/ markRest(s) \/ markAppHosts(s) PROVE Rests(x) \/ Retires(x)
    <3>1. \E S : deleteMany(S) \/ updateMany(S)
      BY <2>3 DEF retireRest, markRest, markAppHosts
    <3> QED BY <3>1, <1>r
  <2>4. ASSUME NEW p \in Powers, sweep(p) PROVE Rests(x) \/ Sweeps(x)
    <3>1. hist' = hist
      BY <2>4 DEF sweep
    <3>2. row[x].pre \in PreStates
      BY <1>t DEF AppHost
    <3>3. Remembered(x)
      BY <3>1 DEF Remembered
    <3>4. \/ row'[x] = row[x]
          \/ /\ row[x].st \in Routed /\ row'[x].cf = row[x].cf
             /\ row'[x].st = "WS_SUSPENDED" /\ row'[x].pre = row[x].st
          \/ /\ row[x].st \in {"WS_SUSPENDED", "CF_RELEASED"} /\ row'[x].cf = row[x].cf
             /\ row'[x].st = IF row[x].pre = "none" THEN "ACTIVE" ELSE row[x].pre
      BY <2>4, SweptRows
    <3> QED BY <3>2, <3>3, <3>4 DEF Rests, Sweeps
  <2>5. (\E p \in Powers : sweepDone(p)) \/ (\E s \in Callers : holdLabel(s)) => UNCHANGED <<row, hist>>
    BY DEF sweepDone, holdLabel
  <2> QED BY <1>2, <1>0, <2>1, <2>2, <2>3, <2>4, <2>5 DEF Writes, Moves
<1>3. CASE findExisting
  <2>1. CASE UNCHANGED <<row, hist>>
    BY <2>1, <1>0 DEF Moves
  <2>2. CASE ~UNCHANGED <<row, hist>>
    <3>1. PICK h \in worker.create : /\ row' = IF row[h].st = "none" THEN row ELSE Set(h, "FAILED")
                                     /\ hist' = [hist EXCEPT !.undone = @ \union {h}]
      BY <1>3, <2>2 DEF findExisting
    <3>2. h \in Hosts /\ worker.at = "pick"
      BY <1>3, <1>t DEF TypeInv, PassInv, Pass, findExisting
    <3> DEFINE d == [row[h] EXCEPT !.st = "FAILED"]
    <3>3. d.st = "FAILED" /\ d.cf = row[h].cf
      BY <1>t, <3>2 DEF AppHost
    <3>4. row' = row \/ row' = [row EXCEPT ![h] = d]
      BY <3>1, <3>2, <1>t DEF Set
    <3>5. hist'.held = hist.held /\ hist'.undone = hist.undone \union {h} /\ hist'.released = hist.released
      BY <3>1, <1>t DEF History
    <3> HIDE DEF d
    <3>6. CASE row' = row
      BY <3>5, <3>6 DEF Rests, Remembered, Moves
    <3>7. CASE row' = [row EXCEPT ![h] = d]
      <4>1. CASE x = h
        BY <3>2, <3>3, <3>5, <3>7, <4>1, <1>t DEF Refuses, Moves
      <4>2. CASE x # h
        <5>1. row'[x] = row[x]
          BY <3>7, <4>2, <1>t
        <5> QED BY <5>1, <3>5, <4>2 DEF Rests, Remembered, Moves
      <4> QED BY <4>1, <4>2
    <3> QED BY <3>4, <3>6, <3>7
  <2> QED BY <2>1, <2>2
<1>4. CASE recordHostname
  <2>1. CASE UNCHANGED <<row, hist>>
    BY <2>1, <1>0 DEF Moves
  <2>2. CASE Numbers(worker.h) /\ \A y \in Hosts : y # worker.h => Rests(y)
    BY <2>2 DEF Moves
  <2> QED BY <1>4, <2>1, <2>2, RecordMoves
<1>5. CASE forgetRow
  <2>1. hist' = hist /\ worker.at = "forget"
        /\ (row' = row \/ (row[worker.h].st = "DELETING" /\ row' = [row EXCEPT ![worker.h] = NoRow]))
    BY <1>5 DEF forgetRow
  <2>2. CASE x = worker.h /\ row' # row
    BY <2>1, <2>2, <1>t DEF Drops, Remembered, Moves
  <2>3. CASE x # worker.h \/ row' = row
    <3>1. row'[x] = row[x]
      BY <2>1, <2>3, <1>t
    <3> QED BY <2>1, <3>1 DEF Rests, Remembered, Moves
  <2> QED BY <2>2, <2>3
<1>6. CASE recordReleased
  BY <1>6, ReleaseMoves DEF Moves
<1>7. ASSUME NEW S, row' = row, hist' = [hist EXCEPT !.released = @ \union S] PROVE Rests(x)
  <2>1. hist'.held = hist.held /\ hist'.undone = hist.undone /\ hist.released \subseteq hist'.released
    BY <1>7, <1>t DEF History
  <2> QED BY <1>7, <2>1 DEF Rests, Remembered
<1>8. CASE releaseHostname \/ \E m \in scene.masters : crash(m)
  <2>1. row' = row /\ (hist' = hist \/ \E h : hist' = [hist EXCEPT !.released = @ \union {h}])
    BY <1>8 DEF releaseHostname, crash
  <2>2. Rests(x)
    BY <2>1, <1>7, <1>0
  <2> QED BY <2>2 DEF Moves
<1>9. runOnce \/ postHostname \/ deleteHostname \/ releaseSuspendedCfHostnames => UNCHANGED <<row, hist>>
  BY DEF runOnce, postHostname, deleteHostname, releaseSuspendedCfHostnames
<1>10. Rests(x) => Moves(x)
  BY DEF Moves
<1> QED BY <1>0, <1>1, <1>2, <1>3, <1>4, <1>5, <1>6, <1>8, <1>9, <1>10 DEF RegistryNext, Work, Retention

-----------------------------------------------------------------------------
(* What an operator suspended.                                             *)

\* A host that an operator suspended is in that state, or was taken out of service
\* from it.
HeldInv ==
    \A h \in hist.held \ hist.undone :
      \/ row[h].st = "SUSPENDED"
      \/ row[h].st \in {"WS_SUSPENDED", "CF_RELEASED"} /\ row[h].pre = "SUSPENDED"

(* HeldInv is inductive: a sweep keeps what the row was, and goes back to  *)
(* it; nothing else writes over a suspension unless it is recorded.        *)
LEMMA HeldStep ==
    ASSUME TypeInv, HeldInv, [HostNext]_hostVars
    PROVE  HeldInv'
<1>1. CASE UNCHANGED Registry
  BY <1>1 DEF Registry, HeldInv
<1>2. CASE RegistryNext
  <2> SUFFICES ASSUME NEW h \in hist'.held \ hist'.undone
               PROVE  \/ row'[h].st = "SUSPENDED"
                      \/ row'[h].st \in {"WS_SUSPENDED", "CF_RELEASED"} /\ row'[h].pre = "SUSPENDED"
    BY DEF HeldInv
  <2>1. h \in Hosts
    BY <1>2, HistoryStep DEF History
  <2> DEFINE Kept == \/ row[h].st = "SUSPENDED"
                     \/ row[h].st \in {"WS_SUSPENDED", "CF_RELEASED"} /\ row[h].pre = "SUSPENDED"
  <2>2. h \in hist.held \ hist.undone => Kept
    BY DEF HeldInv
  <2>3. Moves(h)
    BY <1>2, <2>1, HostMoves
  <2>4. CASE Rests(h)
    BY <2>2, <2>4 DEF Rests, Remembered
  <2>5. CASE Sweeps(h)
    BY <2>2, <2>5 DEF Sweeps, Remembered, Routed
  <2>6. CASE Numbers(h)
    BY <2>2, <2>6 DEF Numbers
  <2>7. CASE Releases(h)
    BY <2>2, <2>7 DEF Releases, Remembered
  <2>8. CASE Drops(h)
    BY <2>2, <2>8 DEF Drops, Remembered
  <2>9. CASE Updates(h)
    BY <2>9 DEF Updates
  <2>10. ~Retires(h) /\ ~Inserts(h) /\ ~Refuses(h)
    BY DEF Retires, Inserts, Refuses
  <2> QED BY <2>3, <2>4, <2>5, <2>6, <2>7, <2>8, <2>9, <2>10 DEF Moves
<1> QED BY <1>1, <1>2, RegistryFrame

(* AdminSuspensionHolds: a host that an operator suspended stays out of    *)
(* service through suspensions and resumptions of its workspace, those     *)
(* that overlap too, but for what the worker wrote over                    *)
(* (setWorkspaceHostsSuspended, runOnce).                                  *)
THEOREM SuspensionHolds == HostSpec => []AdminSuspensionHolds
<1>1. HostInit => HeldInv
  BY DEF HostInit, Init, HeldInv
<1>2. TypeInv /\ HeldInv /\ [HostNext]_hostVars => HeldInv'
  BY HeldStep
<1>3. HeldInv => AdminSuspensionHolds
  BY DEF HeldInv, AdminSuspensionHolds
<1> QED BY <1>1, <1>2, <1>3, TypeCorrect, PTL DEF HostSpec

-----------------------------------------------------------------------------
(* What a step does to Cloudflare's objects, and where the worker goes.    *)

\* postHostname, with effect; the row of the host is as it was.
Created(x) == /\ worker.at = "post" /\ x = worker.h /\ worker'.at # "post"
              /\ made' = made + 1 /\ obj'[x].id = made + 1 /\ obj'[x].ours = "yes"
              /\ UNCHANGED <<row, hist, keep>>

\* deleteHostname, with effect.
Deleted(x) == /\ worker.at = "pick" /\ x \in worker.delete
              /\ obj[x].id # 0 /\ obj'[x] = NoObj
              /\ UNCHANGED <<row, hist, keep>>

\* releaseHostname, with effect: the job remembers the host, or it never knows and the
\* history does.
Withdrawn(x) == /\ keep.h = "none" /\ keep.list[x] # 0 /\ obj[x].id = keep.list[x]
                /\ obj'[x] = NoObj
                /\ keep'.h = x \/ x \in hist'.released
                /\ UNCHANGED <<row, worker>>

(* A DELETE that has effect took the object of that number, answered or    *)
(* not.                                                                    *)
LEMMA DeleteMoves ==
    ASSUME TypeInv, NEW h \in Custom, NEW n, answered(h, n) \/ unanswered(h, n)
    PROVE  \/ obj' = obj
           \/ obj[h].id = n /\ obj' = [obj EXCEPT ![h] = NoObj]
BY DEF answered, unanswered

(* The retention job's DELETE.                                             *)
LEMMA WithdrawMoves ==
    ASSUME TypeInv, releaseHostname
    PROVE  /\ \A x \in Custom : obj'[x] = obj[x] \/ Withdrawn(x)
           /\ keep'.h = "none" \/ (keep'.h \in Custom /\ Withdrawn(keep'.h))
           /\ \A x \in Custom : keep'.list[x] \in {0, keep.list[x]}
           /\ keep.h = "none" /\ hist'.recorded = hist.recorded
<1>t. obj \in [Custom -> CfObject] /\ keep \in Keep /\ hist \in History /\ \A x \in Custom : x \in Hosts
  BY DEF TypeInv, PassInv, Hosts
<1>1. PICK h \in Custom :
        /\ keep.list[h] # 0
        /\ \/ /\ answered(h, keep.list[h])
              /\ keep' = [keep EXCEPT !.list[h] = 0, !.h = h]
              /\ UNCHANGED hist
           \/ /\ unanswered(h, keep.list[h])
              /\ keep' = [keep EXCEPT !.list[h] = 0]
              /\ hist' = IF obj' # obj THEN [hist EXCEPT !.released = @ \union {h}] ELSE hist
  BY DEF releaseHostname
<1>2. keep.h = "none" /\ UNCHANGED <<row, worker>>
  BY DEF releaseHostname
<1> DEFINE list == [keep.list EXCEPT ![h] = 0]
<1>3. list \in [Custom -> Nat] /\ \A x \in Custom : list[x] \in {0, keep.list[x]}
  BY <1>t DEF Keep
<1>4. CASE answered(h, keep.list[h]) /\ keep' = [keep EXCEPT !.list[h] = 0, !.h = h] /\ UNCHANGED hist
  <2>1. keep' = [keep EXCEPT !.list = list, !.h = h]
    BY <1>4
  <2> HIDE DEF list
  <2>2. keep'.h = h /\ keep'.list = list
    BY <2>1, <1>t DEF Keep
  <2>3. obj[h].id = keep.list[h] /\ obj' = [obj EXCEPT ![h] = NoObj]
    BY <1>4 DEF answered
  <2>4. Withdrawn(h)
    BY <1>1, <1>2, <1>t, <2>2, <2>3 DEF Withdrawn
  <2> QED BY <1>2, <1>3, <1>4, <1>t, <2>2, <2>3, <2>4
<1>5. CASE /\ unanswered(h, keep.list[h]) /\ keep' = [keep EXCEPT !.list[h] = 0]
           /\ hist' = IF obj' # obj THEN [hist EXCEPT !.released = @ \union {h}] ELSE hist
  <2>1. keep' = [keep EXCEPT !.list = list]
    BY <1>5
  <2> HIDE DEF list
  <2>2. keep'.h = "none" /\ keep'.list = list
    BY <2>1, <1>2, <1>t DEF Keep
  <2>3. hist'.recorded = hist.recorded /\ (obj' # obj => h \in hist'.released)
    BY <1>5, <1>t DEF History
  <2>4. obj' = obj \/ (obj[h].id = keep.list[h] /\ obj' = [obj EXCEPT ![h] = NoObj])
    BY <1>5, DeleteMoves
  <2>5. ASSUME NEW x \in Custom PROVE obj'[x] = obj[x] \/ Withdrawn(x)
    <3>1. CASE x = h /\ obj' # obj
      BY <3>1, <1>1, <1>2, <1>t, <2>3, <2>4 DEF Withdrawn
    <3>2. CASE x # h \/ obj' = obj
      BY <3>2, <1>t, <2>4
    <3> QED BY <3>1, <3>2
  <2> QED BY <1>2, <1>3, <2>2, <2>3, <2>5
<1> QED BY <1>1, <1>4, <1>5

(* An object is created by the worker, deleted by it, or deleted by the    *)
(* retention job, which then remembers the host; numbers are never used    *)
(* twice, and a number is on record when a row holds it.                   *)
LEMMA CloudMoves ==
    ASSUME TypeInv, RegistryNext
    PROVE  /\ \A x \in Custom : obj'[x] = obj[x] \/ Created(x) \/ Deleted(x) \/ Withdrawn(x)
           /\ made' = made \/ made' = made + 1
           /\ hist'.recorded = hist.recorded \/ Numbers(worker.h)
           /\ \A x \in Custom : keep'.list[x] \in {0, keep.list[x], row[x].cf}
           /\ \/ keep'.h = keep.h
              \/ keep'.h \in Custom /\ Withdrawn(keep'.h)
              \/ keep'.h = "none" /\ (keep.h = "none" \/ keep.h \in hist'.released \/ Releases(keep.h))
<1>t. /\ obj \in [Custom -> CfObject] /\ hist \in History /\ made \in Nat
      /\ row \in [Hosts -> AppHost]
      /\ \A x \in Custom : x \in Hosts
      /\ worker \in Pass /\ keep \in Keep
      /\ worker.at \in {"post", "record", "forget"} => worker.h \in Custom
  BY DEF TypeInv, PassInv, Hosts, RowInv
<1>1. ASSUME NEW x \in Custom PROVE obj'[x] = obj[x] \/ Created(x) \/ Deleted(x) \/ Withdrawn(x)
  <2>1. CASE postHostname
    <3>1. /\ worker.at = "post" /\ UNCHANGED <<row, hist, keep>>
          /\ \/ obj' = obj
             \/ obj' = [obj EXCEPT ![worker.h] = [id |-> made + 1, ours |-> "yes"]] /\ made' = made + 1
      BY <2>1 DEF postHostname
    <3>2. worker'.at # "post"
      <4>1. worker' = [worker EXCEPT !.at = "record", !.id = made + 1] \/ worker' = onward(worker)
        BY <2>1 DEF postHostname
      <4>2. onward(worker).at # "post" /\ [worker EXCEPT !.at = "record", !.id = made + 1].at # "post"
        BY <1>t, Onward DEF Pass
      <4> QED BY <4>1, <4>2
    <3> QED BY <3>1, <3>2, <1>t DEF Created
  <2>2. CASE deleteHostname
    <3>1. worker.at = "pick" /\ UNCHANGED <<row, hist, keep>>
      BY <2>2 DEF deleteHostname
    <3>2. PICK h \in worker.delete : answered(h, worker.snap[h].cf) \/ unanswered(h, worker.snap[h].cf)
      BY <2>2 DEF deleteHostname
    <3>3. h \in Custom /\ worker.snap[h].cf # 0
      BY <1>t DEF TypeInv, PassInv, Pass
    <3>4. obj' = obj \/ (obj[h].id # 0 /\ obj' = [obj EXCEPT ![h] = NoObj])
      BY <3>2, <3>3, DeleteMoves
    <3> QED BY <3>1, <3>3, <3>4, <1>t DEF Deleted
  <2>3. CASE releaseHostname
    BY <2>3, WithdrawMoves
  <2> QED BY <2>1, <2>2, <2>3, Writers
<1>2. made' = made \/ made' = made + 1
  BY Writers DEF postHostname
<1>3. hist'.recorded = hist.recorded \/ Numbers(worker.h)
  <2>1. CASE recordHostname
    BY <2>1, RecordMoves
  <2>2. CASE findExisting \/ \E m \in scene.masters : crash(m)
    <3>1. \E S : \/ hist' = hist \/ hist' = [hist EXCEPT !.released = S] \/ hist' = [hist EXCEPT !.undone = S]
      BY <2>2 DEF findExisting, crash
    <3> QED BY <3>1, <1>t DEF History
  <2>3. ASSUME NEW s \in Callers, nextHost(s) PROVE hist'.recorded = hist.recorded
    <3>1. PICK h \in put[s].todo :
            \/ hist' = hist
            \/ hist' = [hist EXCEPT !.held = IF put[s].want[h] = "SUSPENDED" /\ row[h].st # "none"
                                             THEN @ \union {h} ELSE @ \ {h},
                                    !.released = IF row[h].st = "DELETING" THEN @ \union {h} ELSE @,
                                    !.undone = @ \ {h}]
      BY <2>3 DEF nextHost
    <3> QED BY <3>1, <1>t DEF History
  <2>4. ASSUME NEW s \in Callers, insertRow(s) PROVE hist'.recorded = hist.recorded
    <3>1. \E S : hist' = hist \/ hist' = [hist EXCEPT !.held = @ \ S, !.undone = @ \ S]
      BY <2>4 DEF insertRow
    <3> QED BY <3>1, <1>t DEF History
  <2>5. ASSUME NEW S, deleteMany(S) \/ updateMany(S) PROVE hist'.recorded = hist.recorded
    BY <2>5, DeletedRows, MarkedRows
  <2>6. releaseHostname \/ recordReleased => hist'.recorded = hist.recorded
    BY WithdrawMoves, ReleaseMoves
  <2> QED BY <2>1, <2>2, <2>3, <2>4, <2>5, <2>6, Writers
<1> DEFINE Job == /\ \A x \in Custom : keep'.list[x] \in {0, keep.list[x], row[x].cf}
                  /\ \/ keep'.h = keep.h
                     \/ keep'.h \in Custom /\ Withdrawn(keep'.h)
                     \/ keep'.h = "none" /\ (keep.h = "none" \/ keep.h \in hist'.released \/ Releases(keep.h))
<1>4. Job
  <2>1. CASE keep' = keep
    BY <2>1
  <2>2. CASE releaseSuspendedCfHostnames
    <3>1. PICK S : keep = NoKeep /\ keep' = [NoKeep EXCEPT !.list = [h \in Custom |-> IF h \in S THEN row[h].cf ELSE 0]]
      BY <2>2 DEF releaseSuspendedCfHostnames
    <3>2. keep'.h = "none" /\ \A x \in Custom : keep'.list[x] \in {0, row[x].cf}
      BY <3>1 DEF NoKeep
    <3> QED BY <3>1, <3>2, Empty
  <2>3. CASE releaseHostname
    BY <2>3, WithdrawMoves
  <2>4. CASE recordReleased
    BY <2>4, ReleasedRow, ReleaseMoves
  <2>5. ASSUME NEW m, crash(m) PROVE keep' = keep \/ Job
    <3>1. keep' = keep \/ (keep' = NoKeep /\ (keep.h # "none" => hist' = [hist EXCEPT !.released = @ \union {keep.h}]))
      BY <2>5 DEF crash
    <3>2. keep' = NoKeep => Job
      BY <3>1, <1>t, Empty DEF History
    <3> QED BY <3>1, <3>2
  <2> HIDE DEF Job
  <2> QED BY <2>1, <2>2, <2>3, <2>4, <2>5, KeepWriters
<1> QED BY <1>1, <1>2, <1>3, <1>4

\* The worker is where it was; it has come to the end of a host or of the pass, or its
\* process has ended; a pass begins.
Stays  == /\ worker'.at = worker.at /\ worker'.create = worker.create /\ worker'.delete = worker.delete
          /\ worker'.h = worker.h /\ worker'.id = worker.id
Leaves == /\ worker'.at \in {"idle", "pick"}
          /\ worker'.create \subseteq worker.create /\ worker'.delete \subseteq worker.delete
Begins == /\ worker'.at \in {"idle", "pick"} /\ UNCHANGED <<row, hist, obj, keep>>
          /\ \A h \in worker'.create : row[h].cf = 0
          /\ \A h \in worker'.delete : row[h].st = "DELETING" /\ row[h].cf # 0

\* findExisting: the host has no object, or has ours.
Asks(h)   == /\ h \in worker.create /\ obj[h].ours = "no"
             /\ worker'.at = "post" /\ worker'.h = h
             /\ worker'.create = worker.create \ {h} /\ worker'.delete = worker.delete
             /\ UNCHANGED <<row, hist, obj, keep>>
Adopts(h) == /\ h \in worker.create /\ obj[h].ours = "yes"
             /\ worker'.at = "record" /\ worker'.h = h /\ worker'.id = obj[h].id
             /\ worker'.create = worker.create \ {h} /\ worker'.delete = worker.delete
             /\ UNCHANGED <<row, hist, obj, keep>>

\* postHostname and deleteHostname were answered.
Posts      == /\ worker.at = "post" /\ worker'.at = "record" /\ worker'.h = worker.h
              /\ worker'.id = made + 1 /\ obj'[worker.h].id = made + 1
              /\ worker'.create = worker.create /\ worker'.delete = worker.delete
              /\ UNCHANGED <<row, hist, keep>>
Removes(h) == /\ h \in worker.delete /\ obj[h].id # 0 /\ obj'[h] = NoObj
              /\ worker'.at = "forget" /\ worker'.h = h
              /\ worker'.create = worker.create /\ worker'.delete \subseteq worker.delete
              /\ UNCHANGED <<row, hist, keep>>

(* Every step of the registry is, for the worker, one of these.            *)
LEMMA WorkerMoves ==
    ASSUME TypeInv, RegistryNext
    PROVE  \/ Stays \/ Leaves \/ Begins \/ Posts
           \/ \E h \in Custom : Asks(h) \/ Adopts(h) \/ Removes(h)
<1>t. /\ worker \in Pass /\ worker.create \subseteq Custom /\ worker.delete \subseteq Custom
      /\ obj \in [Custom -> CfObject]
      /\ worker.at = "post" => worker.h \in Custom
      /\ \A h \in worker.delete : worker.snap[h].cf # 0
  BY DEF TypeInv, PassInv, Pass
<1>s. worker' = worker \/ (\E m : worker' = notified(m)) => Stays
  BY Notified DEF Stays
<1>l. ASSUME NEW wk \in Pass, wk.create \subseteq worker.create, wk.delete \subseteq worker.delete, worker' = onward(wk)
      PROVE  Leaves
  BY <1>l, Onward DEF Leaves
<1>n. worker' = NoWork => Leaves
  BY Empty DEF Leaves
<1>1. CASE Calls \/ Writes \/ Retention \/ \E m \in scene.masters : crash(m)
  BY <1>1, <1>s, <1>n, WhoNotifies
<1>4. CASE recordHostname \/ forgetRow
  <2>1. worker' = onward(worker)
    BY <1>4 DEF recordHostname, forgetRow
  <2> QED BY <2>1, <1>t, <1>l
<1>5. CASE runOnce
  <2> DEFINE create == {h \in Custom : row[h].st \in Routed /\ row[h].cf = 0}
             delete == {h \in Custom : row[h].st = "DELETING" /\ row[h].cf # 0}
             snap   == [h \in Custom |-> [st |-> row[h].st, cf |-> row[h].cf]]
             wk     == [NoWork EXCEPT !.create = create, !.delete = delete, !.snap = snap]
  <2>1. create \subseteq Custom /\ delete \subseteq Custom /\ snap \in [Custom -> Seen]
        /\ (\A h \in create : row[h].cf = 0)
        /\ \A h \in delete : row[h].st = "DELETING" /\ row[h].cf # 0
    BY DEF TypeInv, RowInv, AppHost, Hosts, Seen
  <2>2. worker' = onward(wk) /\ UNCHANGED <<row, hist, obj, keep>>
    BY <1>5 DEF runOnce
  <2> HIDE DEF create, delete, snap
  <2>3. wk \in Pass /\ wk.create = create /\ wk.delete = delete
    BY <2>1, Empty DEF NoWork, Pass
  <2> HIDE DEF wk
  <2>4. worker'.at \in {"idle", "pick"} /\ worker'.create \subseteq create /\ worker'.delete \subseteq delete
    BY <2>2, <2>3, Onward
  <2> QED BY <2>1, <2>2, <2>4 DEF Begins
<1>6. CASE findExisting
  <2>1. PICK h \in worker.create :
          LET wk == [worker EXCEPT !.create = @ \ {h}] IN
            \/ /\ obj[h].ours = "no" /\ UNCHANGED <<row, hist, obj, keep>>
               /\ worker' = [wk EXCEPT !.at = "post", !.h = h]
            \/ /\ obj[h].ours = "yes" /\ UNCHANGED <<row, hist, obj, keep>>
               /\ worker' = [wk EXCEPT !.at = "record", !.h = h, !.id = obj[h].id]
            \/ worker' = onward(wk)
    BY <1>6 DEF findExisting
  <2> DEFINE wk == [worker EXCEPT !.create = @ \ {h}]
  <2>2. wk \in Pass /\ wk.create = worker.create \ {h} /\ wk.delete = worker.delete /\ h \in Custom /\ obj[h].id \in Nat
    BY <1>t DEF Pass, CfObject
  <2>3. \/ /\ obj[h].ours = "no" /\ UNCHANGED <<row, hist, obj, keep>>
           /\ worker' = [wk EXCEPT !.at = "post", !.h = h]
        \/ /\ obj[h].ours = "yes" /\ UNCHANGED <<row, hist, obj, keep>>
           /\ worker' = [wk EXCEPT !.at = "record", !.h = h, !.id = obj[h].id]
        \/ worker' = onward(wk)
    BY <2>1
  <2> HIDE DEF wk
  <2>4. CASE worker' = onward(wk)
    BY <2>2, <2>4, <1>l
  <2>5. CASE obj[h].ours = "no" /\ UNCHANGED <<row, hist, obj, keep>> /\ worker' = [wk EXCEPT !.at = "post", !.h = h]
    <3>1. worker'.at = "post" /\ worker'.h = h /\ worker'.create = wk.create /\ worker'.delete = wk.delete
      BY <2>2, <2>5 DEF Pass
    <3>2. Asks(h)
      BY <2>2, <2>5, <3>1 DEF Asks
    <3> QED BY <2>2, <3>2
  <2>6. CASE /\ obj[h].ours = "yes" /\ UNCHANGED <<row, hist, obj, keep>>
             /\ worker' = [wk EXCEPT !.at = "record", !.h = h, !.id = obj[h].id]
    <3>1. /\ worker'.at = "record" /\ worker'.h = h /\ worker'.id = obj[h].id
          /\ worker'.create = wk.create /\ worker'.delete = wk.delete
      BY <2>2, <2>6 DEF Pass
    <3>2. Adopts(h)
      BY <2>2, <2>6, <3>1 DEF Adopts
    <3> QED BY <2>2, <3>2
  <2> QED BY <2>3, <2>4, <2>5, <2>6
<1>7. CASE postHostname
  <2>1. \/ worker' = onward(worker)
        \/ /\ worker.at = "post" /\ UNCHANGED <<row, hist, keep>>
           /\ obj' = [obj EXCEPT ![worker.h] = [id |-> made + 1, ours |-> "yes"]]
           /\ worker' = [worker EXCEPT !.at = "record", !.id = made + 1]
    BY <1>7 DEF postHostname
  <2>2. CASE worker' = onward(worker)
    BY <2>2, <1>t, <1>l
  <2>3. CASE worker' # onward(worker)
    <3>1. /\ worker'.at = "record" /\ worker'.h = worker.h /\ worker'.id = made + 1
          /\ worker'.create = worker.create /\ worker'.delete = worker.delete
      BY <2>1, <2>3, <1>t DEF Pass
    <3> QED BY <2>1, <2>3, <3>1, <1>t DEF Posts
  <2> QED BY <2>2, <2>3
<1>8. CASE deleteHostname
  <2>1. PICK h \in worker.delete :
          LET wk == [worker EXCEPT !.delete = @ \ {h}] IN
            \/ worker' = onward(wk)
            \/ answered(h, worker.snap[h].cf) /\ worker' = [wk EXCEPT !.at = "forget", !.h = h]
    BY <1>8 DEF deleteHostname
  <2> DEFINE wk == [worker EXCEPT !.delete = @ \ {h}]
  <2>2. /\ wk \in Pass /\ wk.create = worker.create /\ wk.delete = worker.delete \ {h} /\ h \in Custom
        /\ worker.snap[h].cf # 0 /\ UNCHANGED <<row, hist, keep>>
    BY <1>t, <1>8 DEF Pass, deleteHostname
  <2>3. \/ worker' = onward(wk)
        \/ answered(h, worker.snap[h].cf) /\ worker' = [wk EXCEPT !.at = "forget", !.h = h]
    BY <2>1
  <2> HIDE DEF wk
  <2>4. CASE worker' = onward(wk)
    BY <2>2, <2>4, <1>l
  <2>5. CASE answered(h, worker.snap[h].cf) /\ worker' = [wk EXCEPT !.at = "forget", !.h = h]
    <3>1. worker'.at = "forget" /\ worker'.h = h /\ worker'.create = wk.create /\ worker'.delete = wk.delete
      BY <2>2, <2>5 DEF Pass
    <3>2. obj[h].id # 0 /\ obj'[h] = NoObj
      BY <2>2, <2>5, <1>t DEF answered
    <3>3. Removes(h)
      BY <2>2, <3>1, <3>2, <1>t DEF Removes
    <3> QED BY <2>2, <3>3
  <2> QED BY <2>3, <2>4, <2>5
<1> QED BY <1>1, <1>4, <1>5, <1>6, <1>7, <1>8 DEF RegistryNext, Work

-----------------------------------------------------------------------------
(* Rows and Cloudflare's objects.                                          *)

\* An object is ours when it has a number; no two have the same; a number on record
\* was given to an object, and a row's number is on record.
ObjInv ==
    /\ \A h \in Custom : obj[h].id <= made /\ (obj[h].id # 0 <=> obj[h].ours = "yes")
    /\ \A h, k \in Custom : obj[h].id # 0 /\ obj[h].id = obj[k].id => h = k
    /\ \A n \in hist.recorded : 0 < n /\ n <= made
    /\ \A h \in Custom : row[h].cf # 0 => row[h].cf \in hist.recorded
    /\ ObjectTracked

\* The host the worker is at: it is on neither list, its row has no number until the
\* worker writes it, and the worker knows whether there is an object.
AtHost ==
    /\ worker.at \in {"post", "record"} =>
         row[worker.h].cf = 0 /\ worker.h \notin worker.create /\ worker.h \notin worker.delete
    /\ worker.at \in {"post", "forget"} => obj[worker.h].id = 0
    /\ worker.at = "record" => worker.id # 0 /\ obj[worker.h].id = worker.id

\* The worker's two lists: what has no number, and what is dead.
Lists ==
    /\ worker.create \intersect worker.delete = {}
    /\ \A h \in worker.create : row[h].cf = 0
    /\ \A h \in worker.delete : row[h].st = "DELETING" \/ h \in hist.released \/ row[h].cf = 0

\* The retention job's numbers were on record.  It has deleted an object and not yet
\* written the row, which the worker does not forget in between.
KeepInv ==
    /\ \A h \in Custom : keep.list[h] # 0 => keep.list[h] \in hist.recorded
    /\ keep.h # "none" => /\ obj[keep.h].id = 0 /\ row[keep.h].cf # 0
                          /\ ~(worker.at = "forget" /\ worker.h = keep.h)

\* A row that has a number has its object, but for those on their way out.
ServedInv ==
    \A h \in Custom :
      row[h].st # "DELETING" /\ row[h].cf # 0 /\ h \notin hist.released /\ keep.h # h
        => obj[h].id = row[h].cf

CloudInv == ObjInv /\ AtHost /\ Lists /\ KeepInv /\ ServedInv

(* The types the steps below need.                                         *)
LEMMA CloudTypes ==
    ASSUME TypeInv
    PROVE  /\ \A x \in Custom : x \in Hosts /\ obj[x].id \in Nat
           /\ \A x \in Hosts : row[x].cf \in Nat /\ (row[x].st = "none" => row[x].cf = 0)
           /\ worker.create \subseteq Custom /\ worker.delete \subseteq Custom
           /\ worker.at \in {"post", "record", "forget"} => worker.h \in Custom
           /\ (keep.h # "none" => keep.h \in Custom) /\ "none" \notin Custom
           /\ made \in Nat /\ hist.recorded \subseteq Nat
           /\ NoRow.cf = 0 /\ NoRow.st = "none" /\ NoObj.id = 0 /\ NoObj.ours = "no"
BY Empty, HostsAssumption DEF TypeInv, RowInv, AppHost, PassInv, Pass, Keep, CfObject, History, Hosts, HostsAssumption

(* Only the worker gives a row a number.                                   *)
LEMMA NumberMoves ==
    ASSUME TypeInv, RegistryNext, NEW x \in Hosts
    PROVE  row'[x].cf = row[x].cf \/ row'[x].cf = 0 \/ Numbers(x)
BY HostMoves, CloudTypes DEF Moves, Rests, Drops, Retires, Updates, Inserts, Sweeps, Refuses, Releases

(* What the retention job takes has its number in its row: a number that   *)
(* was on record is the row's as long as there is the object.              *)
LEMMA WithdrawnHeld ==
    ASSUME CloudInv, NEW x \in Custom, Withdrawn(x)
    PROVE  obj[x].id # 0 /\ row[x].cf = obj[x].id
BY DEF Withdrawn, CloudInv, KeepInv, ObjInv, ObjectTracked

(* The worker is done with a host whose number it has written.             *)
LEMMA NumbersLeaves ==
    ASSUME TypeInv, NEW x, Numbers(x)
    PROVE  /\ worker'.at \in {"idle", "pick"} /\ worker.at = "record" /\ x = worker.h
           /\ worker'.create \subseteq worker.create /\ worker'.delete \subseteq worker.delete
BY Onward DEF Numbers, TypeInv, PassInv

(* A number is used once and a row keeps it until the object is gone.      *)
LEMMA ObjStep ==
    ASSUME TypeInv, CloudInv, RegistryNext
    PROVE  ObjInv'
<1>t. /\ \A x \in Custom : x \in Hosts /\ obj[x].id \in Nat
      /\ worker.at \in {"post", "record", "forget"} => worker.h \in Custom
      /\ made \in Nat /\ hist.recorded \subseteq Nat /\ NoObj.id = 0 /\ NoObj.ours = "no" /\ NoRow.cf = 0
  BY CloudTypes
<1>o. ASSUME NEW x \in Custom PROVE obj'[x] = obj[x] \/ Created(x) \/ Deleted(x) \/ Withdrawn(x)
  BY CloudMoves
<1>m. made' = made \/ made' = made + 1
  BY CloudMoves
<1>r. hist'.recorded = hist.recorded \/ (Numbers(worker.h) /\ hist'.recorded = hist.recorded \union {worker.id})
  BY CloudMoves DEF Numbers
<1>i. ASSUME NEW x \in Custom
      PROVE  obj'[x].id = obj[x].id \/ obj'[x].id = 0 \/ (Created(x) /\ obj'[x].id = made + 1 /\ x = worker.h /\ made' = made + 1)
  BY <1>o, <1>t DEF Created, Deleted, Withdrawn
<1>1. ASSUME NEW x \in Custom PROVE obj'[x].id <= made' /\ (obj'[x].id # 0 <=> obj'[x].ours = "yes")
  <2>1. obj[x].id <= made /\ (obj[x].id # 0 <=> obj[x].ours = "yes") /\ obj[x].id \in Nat
    BY <1>t DEF CloudInv, ObjInv
  <2>2. CASE obj'[x] = obj[x]
    BY <2>1, <2>2, <1>m, <1>t
  <2>3. CASE Created(x)
    BY <2>3, <1>t DEF Created
  <2>4. CASE obj'[x] = NoObj
    BY <2>4, <1>m, <1>t
  <2> QED BY <1>o, <2>2, <2>3, <2>4 DEF Deleted, Withdrawn
<1>2. ASSUME NEW h \in Custom, NEW k \in Custom, obj'[h].id # 0, obj'[h].id = obj'[k].id PROVE h = k
  <2>1. obj[h].id # 0 /\ obj[h].id = obj[k].id => h = k
    BY DEF CloudInv, ObjInv
  <2>2. obj[h].id # made + 1 /\ obj[k].id # made + 1
    BY <1>t DEF CloudInv, ObjInv
  <2> QED BY <1>2, <2>1, <2>2, <1>i
<1>3. ASSUME NEW n \in hist'.recorded PROVE 0 < n /\ n <= made'
  <2>1. CASE n \in hist.recorded
    <3>1. 0 < n /\ n <= made /\ n \in Nat
      BY <2>1, <1>t DEF CloudInv, ObjInv
    <3> QED BY <3>1, <1>m, <1>t
  <2>2. CASE n = worker.id /\ Numbers(worker.h)
    <3>1. worker.at = "record" /\ worker.h \in Custom
      BY <2>2, <1>t, NumbersLeaves
    <3>2. n # 0 /\ n = obj[worker.h].id
      BY <2>2, <3>1 DEF CloudInv, AtHost
    <3>3. n \in Nat /\ n <= made
      BY <3>1, <3>2, <1>t DEF CloudInv, ObjInv
    <3> QED BY <3>2, <3>3, <1>m, <1>t
  <2> QED BY <1>3, <1>r, <2>1, <2>2
<1>4. ASSUME NEW x \in Custom, row'[x].cf # 0 PROVE row'[x].cf \in hist'.recorded
  <2>1. CASE Numbers(x)
    BY <2>1 DEF Numbers
  <2>2. CASE row'[x].cf = row[x].cf
    BY <1>4, <2>2, <1>r DEF CloudInv, ObjInv
  <2> QED BY <1>4, <2>1, <2>2, <1>t, NumberMoves
<1>5. ASSUME NEW x \in Custom, obj'[x].id \in hist'.recorded PROVE row'[x].cf = obj'[x].id
  <2>1. obj'[x].id = obj[x].id
    <3>1. made + 1 \notin hist.recorded
      BY <1>t DEF CloudInv, ObjInv
    <3>2. 0 \notin hist'.recorded
      BY <1>3
    <3>3. Created(x) => hist'.recorded = hist.recorded
      BY DEF Created
    <3> QED BY <1>5, <3>1, <3>2, <3>3, <1>i
  <2>2. CASE Numbers(x)
    <3>1. row'[x].cf = worker.id /\ obj[x].id = worker.id
      BY <2>2, NumbersLeaves DEF Numbers, CloudInv, AtHost
    <3> QED BY <2>1, <3>1
  <2>3. CASE ~Numbers(x)
    <3>1. obj[x].id \in hist.recorded
      <4>1. CASE hist'.recorded = hist.recorded
        BY <4>1, <1>5, <2>1
      <4>2. CASE Numbers(worker.h) /\ obj[x].id = worker.id
        <5>1. worker.at = "record" /\ worker.h \in Custom /\ obj[worker.h].id = worker.id /\ worker.id # 0
          BY <4>2, <1>t, NumbersLeaves DEF CloudInv, AtHost
        <5>2. x = worker.h
          BY <4>2, <5>1 DEF CloudInv, ObjInv
        <5> QED BY <4>2, <5>2, <2>3
      <4> QED BY <1>5, <2>1, <1>r, <4>1, <4>2
    <3>2. row[x].cf = obj[x].id /\ obj[x].id # 0
      BY <3>1 DEF CloudInv, ObjInv, ObjectTracked
    <3>3. row'[x].cf = row[x].cf
      <4> SUFFICES ASSUME row'[x].cf = 0 PROVE FALSE
        BY <2>3, <1>t, NumberMoves
      <4>1. CASE Drops(x)
        BY <4>1, <3>2, <1>t DEF Drops, CloudInv, AtHost
      <4>2. CASE Releases(x)
        BY <4>2, <3>2, CloudTypes DEF Releases, CloudInv, KeepInv
      <4>3. ~Inserts(x)
        BY <3>2, <1>t, CloudTypes DEF Inserts
      <4>4. ~Rests(x) /\ ~Retires(x) /\ ~Updates(x) /\ ~Sweeps(x) /\ ~Refuses(x)
        BY <3>2 DEF Rests, Retires, Updates, Sweeps, Refuses
      <4> QED BY <2>3, <4>1, <4>2, <4>3, <4>4, <1>t, HostMoves DEF Moves
    <3> QED BY <2>1, <3>2, <3>3
  <2> QED BY <2>2, <2>3
<1> QED BY <1>1, <1>2, <1>3, <1>4, <1>5 DEF ObjInv, ObjectTracked

(* The worker knows what it is doing at a host.                            *)
LEMMA AtHostStep ==
    ASSUME TypeInv, CloudInv, RegistryNext
    PROVE  AtHost'
<1>t. /\ \A x \in Custom : x \in Hosts /\ obj[x].id \in Nat
      /\ worker.create \subseteq Custom
      /\ worker.at \in {"post", "record", "forget"} => worker.h \in Custom
      /\ made \in Nat /\ NoObj.id = 0
  BY CloudTypes
<1>1. CASE Leaves \/ Begins
  BY <1>1 DEF Leaves, Begins, AtHost
<1>2. ASSUME NEW h \in Custom, Asks(h) PROVE AtHost'
  <2>1. row'[h].cf = 0 /\ h \notin worker.delete /\ obj[h].id = 0
    BY <1>2 DEF Asks, CloudInv, Lists, ObjInv
  <2> QED BY <1>2, <2>1 DEF Asks, AtHost
<1>3. ASSUME NEW h \in Custom, Adopts(h) PROVE AtHost'
  <2>1. row'[h].cf = 0 /\ h \notin worker.delete /\ obj[h].id # 0
    BY <1>3 DEF Adopts, CloudInv, Lists, ObjInv
  <2> QED BY <1>3, <2>1 DEF Adopts, AtHost
<1>4. CASE Posts
  BY <1>4, <1>t DEF Posts, CloudInv, AtHost
<1>5. ASSUME NEW h \in Custom, Removes(h) PROVE AtHost'
  BY <1>5, <1>t DEF Removes, AtHost
<1>6. CASE Stays
  <2>1. ASSUME worker.at \in {"post", "record"} PROVE row'[worker.h].cf = 0
    <3>1. ~Numbers(worker.h)
      BY <2>1, <1>6, NumbersLeaves DEF Stays
    <3>2. worker.h \in Hosts /\ row[worker.h].cf = 0
      BY <2>1, <1>t DEF CloudInv, AtHost
    <3> QED BY <3>1, <3>2, NumberMoves
  <2>2. ASSUME worker.at \in {"post", "record", "forget"}
        PROVE  obj'[worker.h].id = obj[worker.h].id \/ (obj'[worker.h].id = 0 /\ worker.at # "record")
    <3>1. ~Created(worker.h) /\ ~Deleted(worker.h)
      BY <2>2, <1>6 DEF Created, Deleted, Stays
    <3>2. Withdrawn(worker.h) => obj'[worker.h].id = 0 /\ worker.at # "record"
      BY <2>2, <1>t, WithdrawnHeld DEF Withdrawn, CloudInv, AtHost
    <3> QED BY <2>2, <3>1, <3>2, <1>t, CloudMoves
  <2> QED BY <1>6, <2>1, <2>2 DEF Stays, CloudInv, AtHost
<1> QED BY <1>1, <1>2, <1>3, <1>4, <1>5, <1>6, WorkerMoves

(* What the worker is to do stays to be done, or harmless.                 *)
LEMMA ListsStep ==
    ASSUME TypeInv, CloudInv, RegistryNext
    PROVE  Lists'
<1>t. /\ \A x \in Custom : x \in Hosts
      /\ worker.create \subseteq Custom /\ worker.delete \subseteq Custom
      /\ NoRow.cf = 0
  BY CloudTypes
<1>1. CASE Begins
  BY <1>1 DEF Begins, Lists
<1>2. CASE worker'.create \subseteq worker.create /\ worker'.delete \subseteq worker.delete
  <2>1. worker'.create \intersect worker'.delete = {}
    BY <1>2 DEF CloudInv, Lists
  <2>2. ASSUME NEW h \in worker'.create PROVE row'[h].cf = 0
    <3>1. row[h].cf = 0 /\ h \in Hosts
      BY <1>2, <1>t DEF CloudInv, Lists
    <3>2. ~Numbers(h)
      BY <1>2, NumbersLeaves DEF CloudInv, AtHost
    <3> QED BY <3>1, <3>2, NumberMoves
  <2>3. ASSUME NEW h \in worker'.delete PROVE row'[h].st = "DELETING" \/ h \in hist'.released \/ row'[h].cf = 0
    <3>1. (row[h].st = "DELETING" \/ h \in hist.released \/ row[h].cf = 0) /\ h \in Hosts
      BY <1>2, <1>t DEF CloudInv, Lists
    <3>2. ~Numbers(h) /\ ~Refuses(h)
      BY <1>2, NumbersLeaves DEF CloudInv, AtHost, Lists, Refuses
    <3>3. Moves(h)
      BY <3>1, HostMoves
    <3>4. CASE Rests(h) \/ Drops(h) \/ Retires(h) \/ Inserts(h) \/ Releases(h)
      BY <3>1, <3>4, <1>t DEF Rests, Drops, Retires, Inserts, Releases, Remembered
    <3>5. CASE Updates(h) \/ Sweeps(h)
      BY <3>1, <3>5 DEF Updates, Sweeps, Remembered, Routed
    <3> QED BY <3>2, <3>3, <3>4, <3>5 DEF Moves
  <2> QED BY <2>1, <2>2, <2>3 DEF Lists
<1> QED BY <1>1, <1>2, WorkerMoves DEF Stays, Leaves, Posts, Asks, Adopts, Removes

(* What the retention job deleted stays deleted until it has written so.   *)
LEMMA KeepStep ==
    ASSUME TypeInv, CloudInv, RegistryNext
    PROVE  KeepInv'
<1>n. ASSUME NEW h \in Custom, keep'.list[h] # 0 PROVE keep'.list[h] \in hist'.recorded
  <2>1. keep'.list[h] \in {0, keep.list[h], row[h].cf}
    BY CloudMoves
  <2>2. keep.list[h] # 0 => keep.list[h] \in hist.recorded
    BY DEF CloudInv, KeepInv
  <2>3. row[h].cf # 0 => row[h].cf \in hist.recorded
    BY DEF CloudInv, ObjInv
  <2>4. hist.recorded \subseteq hist'.recorded
    BY CloudMoves DEF Numbers
  <2> QED BY <1>n, <2>1, <2>2, <2>3, <2>4
<1> SUFFICES ASSUME keep'.h # "none"
             PROVE  /\ obj'[keep'.h].id = 0 /\ row'[keep'.h].cf # 0
                    /\ ~(worker'.at = "forget" /\ worker'.h = keep'.h)
  BY <1>n DEF KeepInv
<1>t. /\ \A x \in Custom : x \in Hosts
      /\ worker.at \in {"post", "record", "forget"} => worker.h \in Custom
      /\ keep.h # "none" => keep.h \in Custom
      /\ \A x \in Hosts : row[x].st = "none" => row[x].cf = 0
      /\ NoObj.id = 0
  BY CloudTypes
<1>1. CASE keep'.h \in Custom /\ Withdrawn(keep'.h)
  <2>1. obj[keep'.h].id # 0 /\ row[keep'.h].cf # 0
    BY <1>1, WithdrawnHeld
  <2> QED BY <1>1, <1>t, <2>1 DEF Withdrawn, CloudInv, AtHost
<1>2. CASE keep'.h = keep.h
  <2> DEFINE k == keep.h
  <2>1. /\ k \in Custom /\ obj[k].id = 0 /\ row[k].cf # 0 /\ ~(worker.at = "forget" /\ worker.h = k)
    BY <1>2, <1>t DEF CloudInv, KeepInv
  <2>2. ~(worker.at \in {"post", "record"} /\ worker.h = k)
    BY <2>1 DEF CloudInv, AtHost
  <2> HIDE DEF k
  <2>3. obj'[k].id = 0
    BY <2>1, <2>2, <1>t, CloudMoves DEF Created, Deleted, Withdrawn
  <2>4. row'[k].cf # 0
    <3>1. ~Numbers(k) /\ ~Drops(k) /\ ~Inserts(k)
      BY <2>1, <2>2, <1>t, NumbersLeaves DEF Drops, Inserts
    <3>2. ~Releases(k)
      BY <1>2 DEF Releases
    <3>3. Moves(k)
      BY <2>1, <1>t, HostMoves
    <3> QED BY <3>1, <3>2, <3>3, <2>1 DEF Moves, Rests, Retires, Updates, Sweeps, Refuses
  <2>5. ~(worker'.at = "forget" /\ worker'.h = k)
    BY <2>1, WorkerMoves DEF Stays, Leaves, Begins, Posts, Asks, Adopts, Removes
  <2> QED BY <1>2, <2>3, <2>4, <2>5 DEF k
<1> QED BY <1>1, <1>2, CloudMoves

(* What is in service has its object.                                      *)
LEMMA ServedStep ==
    ASSUME TypeInv, CloudInv, RegistryNext
    PROVE  ServedInv'
<1> SUFFICES ASSUME NEW h \in Custom, row'[h].st # "DELETING", row'[h].cf # 0, h \notin hist'.released,
                    keep'.h # h
             PROVE  obj'[h].id = row'[h].cf
  BY DEF ServedInv
<1>t. h \in Hosts /\ NoRow.cf = 0 /\ (worker.at \in {"post", "record", "forget"} => worker.h \in Custom) /\ h # "none"
  BY CloudTypes
<1>1. CASE Numbers(h)
  <2>1. row'[h].cf = worker.id /\ obj' = obj /\ worker.at = "record" /\ h = worker.h
    BY <1>1 DEF Numbers
  <2> QED BY <2>1 DEF CloudInv, AtHost
<1>2. CASE ~Numbers(h)
  <2>1. Moves(h)
    BY <1>t, HostMoves
  <2>2. row'[h].cf = row[h].cf
    BY <1>2, <1>t, NumberMoves
  <2>3. ~Drops(h) /\ ~Retires(h) /\ ~Inserts(h) /\ ~Releases(h)
    BY <1>t DEF Drops, Retires, Inserts, Releases
  <2>4. CASE Refuses(h)
    BY <2>2, <2>4 DEF Refuses, CloudInv, Lists
  <2>5. CASE Rests(h) \/ Updates(h) \/ Sweeps(h)
    <3>1. h \notin hist.released /\ row[h].st # "DELETING"
      BY <2>5 DEF Rests, Updates, Sweeps, Remembered, Routed
    <3>2. keep.h # h
      BY <1>t, <2>3, CloudMoves DEF Withdrawn
    <3>3. obj[h].id = row[h].cf
      BY <2>2, <3>1, <3>2 DEF CloudInv, ServedInv
    <3>4. ~Created(h) /\ ~Deleted(h) /\ ~Withdrawn(h)
      BY <2>2, <3>1 DEF Created, Deleted, Withdrawn, CloudInv, AtHost, Lists
    <3> QED BY <2>2, <3>3, <3>4, CloudMoves
  <2> QED BY <1>2, <2>1, <2>3, <2>4, <2>5 DEF Moves
<1> QED BY <1>1, <1>2

(* ObjectsMatchRows: an object whose number a row has held is not lost     *)
(* sight of, and a host in service that has a number has the object,       *)
(* whatever PUTs, uninstalls, sweeps, the worker, the retention job, calls *)
(* that fail and ends of processes do in between, but for the hosts whose  *)
(* DELETE the retention job or a write without lock made it lose           *)
(* (CfCustomHostnameWorker, releaseSuspendedCfHostnames).                  *)
THEOREM RowsMatchObjects == HostSpec => []ObjectsMatchRows
<1>1. HostInit => CloudInv
  <2> SUFFICES ASSUME HostInit PROVE CloudInv
    OBVIOUS
  <2>1. Init
    BY DEF HostInit
  <2>2. \A h \in Custom : obj[h].id = 0 /\ obj[h].ours # "yes"
    BY <2>1 DEF Init, Foreign, NoObj
  <2>3. /\ made = 0 /\ hist.recorded = {} /\ worker.at = "idle" /\ worker.create = {} /\ worker.delete = {}
        /\ keep.h = "none" /\ \A h \in Custom : keep.list[h] = 0
    BY <2>1, Empty DEF Init
  <2>4. \A h \in Custom : row[h].cf = 0
    BY <2>1, Empty DEF Init, Hosts
  <2> QED BY <2>2, <2>3, <2>4 DEF CloudInv, ObjInv, ObjectTracked, AtHost, Lists, KeepInv, ServedInv
<1>2. ASSUME TypeInv, CloudInv, [HostNext]_hostVars PROVE CloudInv'
  <2>1. CASE UNCHANGED Registry
    BY <1>2, <2>1 DEF Registry, CloudInv, ObjInv, ObjectTracked, AtHost, Lists, KeepInv, ServedInv
  <2>2. CASE RegistryNext
    BY <1>2, <2>2, ObjStep, AtHostStep, ListsStep, KeepStep, ServedStep DEF CloudInv
  <2> QED BY <1>2, <2>1, <2>2, RegistryFrame
<1>3. CloudInv => ObjectsMatchRows
  BY DEF CloudInv, ObjInv, ServedInv, ObjectsMatchRows, ServedHasObject
<1>4. TypeInv /\ CloudInv /\ [HostNext]_hostVars => CloudInv'
  BY <1>2
<1> QED BY <1>1, <1>3, <1>4, TypeCorrect, PTL DEF HostSpec
-----------------------------------------------------------------------------
(* From the rows to the tables.                                            *)

Rules    == [Hosts -> [ws : Workspaces \union {"none"}, st : {"none", "open", "closed"}]]
AppDocs  == [Workspaces -> {"RUNNING", "STOPPED", "REMOVED"}]
RowDocs  == [Hosts -> AppHost]
Publisher == [at : {"idle", "revision", "snapshot", "runtime", "ingress"}, rev : Nat,
              rows : {<<>>} \union RowDocs, apps : {<<>>} \union AppDocs, rules : Rules,
              left : SUBSET Nodes, failed : {"no", "yes"}]

(* What the publishers, the nodes and what is under way between them hold; *)
(* a pass begins with nothing read and pushes only at the end.             *)
RouteTypes ==
    /\ app \in AppDocs
    /\ rev \in Nat
    /\ pub \in [scene.masters -> Publisher]
    /\ runtime \in [Nodes -> [rev : Nat, hosts : [Hosts -> Workspaces \union {"none"}]]]
    /\ ingress \in [Nodes -> [rev : Nat, rules : Rules, keys : SUBSET Nodes]]
    /\ net \subseteq [kind : {"runtime", "ingress"}, to : Nodes, rev : Nat, rules : Rules]
    /\ floor \in [Nodes -> Nat]
    /\ silent \in {"no", "yes"}
    /\ \A m \in scene.masters : pub[m].at = "revision" => pub[m].rows = <<>> /\ pub[m].apps = <<>>
    /\ \A m \in scene.masters : pub[m].left # {} => pub[m].at \in {"runtime", "ingress"}

(* No revision is ahead of the one the masters share.                      *)
RevInv ==
    /\ \A m \in scene.masters : pub[m].rev <= rev
    /\ \A n \in Nodes : runtime[n].rev <= rev /\ ingress[n].rev <= rev /\ floor[n] <= rev
    /\ \A msg \in net : msg.rev <= rev

(* A pass is to come, or nobody was told.                                  *)
Told   == dirty # {} \/ \E m \in scene.masters : pub[m].at = "revision"
Stale  == Told \/ silent = "yes"

(* Otherwise what bears the newest revision says what the rows say.        *)
FreshInv ==
    ~Stale =>
    /\ \A m \in scene.masters : pub[m].rev = rev =>
         /\ pub[m].at = "snapshot" => pub[m].rows \in {<<>>, row} /\ pub[m].apps \in {<<>>, app}
         /\ pub[m].at \in {"runtime", "ingress"} => pub[m].rules = rulesOf(row, app)
    /\ \A msg \in net : msg.rev = rev => msg.rules = rulesOf(row, app)
    /\ rev # 0 => /\ \A n \in RuntimeNodes : runtime[n].rev = rev =>
                       runtime[n] = RuntimeTable(n, rev, rulesOf(row, app))
                  /\ \A n \in IngressNodes : ingress[n].rev = rev =>
                       ingress[n] = IngressTable(rev, rulesOf(row, app))

(* Nodes that have the newest table, or were started after it was made.    *)
HasRuntime == {n \in Nodes : runtime[n].rev = rev \/ floor[n] = rev}
HasIngress == {n \in Nodes : ingress[n].rev = rev \/ floor[n] = rev}

(* A pass p of revision r that no push of has failed has brought its       *)
(* tables to the nodes it is done with; rt and ig are those that have one. *)
Works(p, r) == p.at \in {"snapshot", "runtime", "ingress"} /\ p.rev = r
Done(p, r, rt, ig) ==
    Works(p, r) /\ p.failed = "no" =>
      /\ p.at = "runtime" => RuntimeNodes \ p.left \subseteq rt
      /\ p.at = "ingress" => RuntimeNodes \subseteq rt /\ IngressNodes \ p.left \subseteq ig

(* So it is with the newest revision; when its pass is over, all have it.  *)
DoneInv ==
    ~Told =>
    /\ \A m \in scene.masters : Done(pub[m], rev, HasRuntime, HasIngress)
    /\ (\A m \in scene.masters : ~Works(pub[m], rev)) =>
         RuntimeNodes \subseteq HasRuntime /\ IngressNodes \subseteq HasIngress

RouteInv == RouteTypes /\ RevInv /\ FreshInv /\ DoneInv

(* The stages of a pass.                                                   *)
LEMMA Stages ==
    /\ Head(Steps) = "revision" /\ Head(pushOrder) = "runtime"
    /\ After("revision") = "snapshot" /\ After("snapshot") = "runtime"
    /\ After("runtime") = "ingress" /\ After("ingress") = "end"
<1> DEFINE S == {"revision", "snapshot", "runtime", "ingress", "end"}
           h == <<"revision", "snapshot">> \o <<"runtime", "ingress">>
<1>a. /\ <<"revision", "snapshot">> \in Seq(S) /\ <<"runtime", "ingress">> \in Seq(S) /\ <<"end">> \in Seq(S)
      /\ Steps = h \o <<"end">>
  BY DEF Steps, passOrder, pushOrder
<1>b. /\ h \in Seq(S) /\ Len(h) = 4
      /\ h[1] = "revision" /\ h[2] = "snapshot" /\ h[3] = "runtime" /\ h[4] = "ingress"
  BY <1>a
<1> HIDE DEF h, S
<1>1. /\ Steps[1] = "revision" /\ Steps[2] = "snapshot" /\ Steps[3] = "runtime" /\ Steps[4] = "ingress"
      /\ Steps[5] = "end" /\ Steps \in Seq(S) /\ Len(Steps) = 5
  <2>1. <<"end">> \in Seq(S) /\ Len(<<"end">>) = 1 /\ <<"end">>[1] = "end"
    BY <1>a
  <2> DEFINE e == <<"end">>
  <2> HIDE DEF e
  <2>2. e \in Seq(S) /\ Len(e) = 1 /\ e[1] = "end" /\ Steps = h \o e
    BY <1>a, <2>1 DEF e
  <2>3. /\ h \o e \in Seq(S) /\ Len(h \o e) = 4 + 1
        /\ \A i \in 1..5 : (h \o e)[i] = IF i <= 4 THEN h[i] ELSE e[i - 4]
    <3>1. /\ h \o e \in Seq(S) /\ Len(h \o e) = Len(h) + Len(e)
          /\ \A i \in 1..Len(h) + Len(e) : (h \o e)[i] = IF i <= Len(h) THEN h[i] ELSE e[i - Len(h)]
      BY <1>b, <2>2, ConcatProperties, Zenon
    <3> DEFINE c == h \o e
    <3> HIDE DEF c
    <3>2. /\ c \in Seq(S) /\ Len(c) = 4 + 1
          /\ \A i \in 1..4 + 1 : c[i] = IF i <= 4 THEN h[i] ELSE e[i - 4]
      BY <1>b, <2>2, <3>1 DEF c
    <3> QED BY <3>2 DEF c
  <2> QED BY <1>b, <2>2, <2>3
<1>3. /\ (CHOOSE i \in 1..4 : Steps[i] = "revision") = 1
      /\ (CHOOSE i \in 1..4 : Steps[i] = "snapshot") = 2
      /\ (CHOOSE i \in 1..4 : Steps[i] = "runtime") = 3
      /\ (CHOOSE i \in 1..4 : Steps[i] = "ingress") = 4
  BY <1>1
<1>4. Head(Steps) = "revision" /\ Head(pushOrder) = "runtime"
  <2>1. Head(Steps) = Steps[1]
    BY <1>1
  <2> QED BY <1>1, <2>1 DEF pushOrder
<1>5. After("revision") = Steps[1 + 1] /\ After("snapshot") = Steps[1 + 2]
      /\ After("runtime") = Steps[1 + 3] /\ After("ingress") = Steps[1 + 4]
  BY <1>3 DEF After
<1>6. Steps[1 + 1] = "snapshot" /\ Steps[1 + 2] = "runtime" /\ Steps[1 + 3] = "ingress" /\ Steps[1 + 4] = "end"
  BY <1>1
<1> QED BY <1>4, <1>5, <1>6

(* The tables are made of what they are made of.                           *)
LEMMA Tables ==
    /\ \A rows, apps : rulesOf(rows, apps) \in Rules
    /\ NoRules \in Rules /\ Idle \in Publisher
    /\ \A n \in Nodes, r \in Nat, rules \in Rules :
         /\ RuntimeTable(n, r, rules) \in [rev : Nat, hosts : [Hosts -> Workspaces \union {"none"}]]
         /\ RuntimeTable(n, r, rules).rev = r
         /\ IngressTable(r, rules) \in [rev : Nat, rules : Rules, keys : SUBSET Nodes]
         /\ IngressTable(r, rules).rev = r
    /\ NoRuntime \in [rev : Nat, hosts : [Hosts -> Workspaces \union {"none"}]] /\ NoRuntime.rev = 0
    /\ NoIngress \in [rev : Nat, rules : Rules, keys : SUBSET Nodes] /\ NoIngress.rev = 0
<1>0. NoRule \in [ws : Workspaces \union {"none"}, st : {"none", "open", "closed"}]
  BY DEF NoRule
<1>1. ASSUME NEW rows, NEW apps PROVE rulesOf(rows, apps) \in Rules
  <2> DEFINE has(w)     == \E h \in Hosts : rows[h].ws = w /\ Listed(rows[h])
             owners(h)  == {w \in Workspaces : /\ apps[w] # "REMOVED"
                                               /\ \/ Listed(rows[h]) /\ rows[h].ws = w
                                                  \/ Default[w] = h /\ ~has(w)}
             rule(h, w) == [ws |-> w, st |-> IF apps[w] # "RUNNING" \/ rows[h].st \in {"SUSPENDED", "WS_SUSPENDED"}
                                             THEN "closed" ELSE "open"]
  <2>1. rulesOf(rows, apps)
          = [h \in Hosts |-> IF owners(h) = {} THEN NoRule ELSE rule(h, CHOOSE w \in owners(h) : TRUE)]
    BY DEF rulesOf
  <2>2. \A h, w : w \in Workspaces => rule(h, w) \in [ws : Workspaces \union {"none"}, st : {"none", "open", "closed"}]
    OBVIOUS
  <2>3. \A h : owners(h) \subseteq Workspaces
    OBVIOUS
  <2> HIDE DEF owners, rule
  <2>4. \A h : owners(h) # {} => (CHOOSE w \in owners(h) : TRUE) \in Workspaces
    BY <2>3
  <2> QED BY <1>0, <2>1, <2>2, <2>4 DEF Rules
<1>2. NoRules \in Rules
  BY <1>0 DEF NoRules, Rules
<1>3. Idle \in Publisher
  BY <1>2 DEF Idle, Publisher
<1>4. ASSUME NEW n \in Nodes, NEW r \in Nat, NEW rules \in Rules
      PROVE  /\ RuntimeTable(n, r, rules) \in [rev : Nat, hosts : [Hosts -> Workspaces \union {"none"}]]
             /\ RuntimeTable(n, r, rules).rev = r
             /\ IngressTable(r, rules) \in [rev : Nat, rules : Rules, keys : SUBSET Nodes]
             /\ IngressTable(r, rules).rev = r
  BY DEF RuntimeTable, IngressTable, Rules, signingKeys, IngressNodes
<1>5. /\ NoRuntime \in [rev : Nat, hosts : [Hosts -> Workspaces \union {"none"}]] /\ NoRuntime.rev = 0
      /\ NoIngress \in [rev : Nat, rules : Rules, keys : SUBSET Nodes] /\ NoIngress.rev = 0
  BY <1>2 DEF NoRuntime, NoIngress
<1> QED BY <1>1, <1>2, <1>3, <1>4, <1>5

(* What entering a stage sets.                                             *)
LEMMA Enters ==
    ASSUME NEW p \in Publisher, NEW at \in {"idle", "revision", "snapshot", "runtime", "ingress"}
    PROVE  /\ onto(p, at) \in Publisher
           /\ onto(p, at).at = at /\ onto(p, at).rev = p.rev /\ onto(p, at).rules = p.rules
           /\ onto(p, at).rows = p.rows /\ onto(p, at).apps = p.apps /\ onto(p, at).failed = p.failed
           /\ at \notin {"runtime", "ingress"} => onto(p, at).left = {}
           /\ at = "runtime" => onto(p, at).left = RuntimeNodes
           /\ at = "ingress" => onto(p, at).left = IngressNodes
<1> DEFINE L == CASE at = "runtime" -> RuntimeNodes [] at = "ingress" -> IngressNodes [] OTHER -> {}
<1>1. onto(p, at) = [p EXCEPT !.at = at, !.left = L]
  BY DEF onto
<1>2. L \in SUBSET Nodes /\ (at \notin {"runtime", "ingress"} => L = {})
      /\ (at = "runtime" => L = RuntimeNodes) /\ (at = "ingress" => L = IngressNodes)
  BY DEF RuntimeNodes, IngressNodes
<1> HIDE DEF L
<1> QED BY <1>1, <1>2 DEF Publisher

(* What a registry step does to those who publish the rows.                *)
LEMMA RowsTold ==
    ASSUME rowsChange, RouteTypes
    PROVE  /\ UNCHANGED <<scene, app, rev, pub, runtime, ingress, net, floor>>
           /\ dirty \subseteq dirty' /\ silent' \in {"no", "yes"}
           /\ row' = row \/ dirty' # {} \/ silent' = "yes"
           /\ silent' = silent \/ dirty' # {} \/ silent' = "yes"
<1>1. dirty \subseteq dirty' /\ scene' = scene
  <2>1. CASE Calls
    BY <2>1 DEF Calls, reserve, setDesiredHosts, removeAllAppHosts, setWorkspaceHostsSuspended
  <2>2. CASE Writes
    BY <2>2 DEF Writes, nextHost, holdLabel, insertRow, retireRest, markRest, markAppHosts, sweep, sweepDone
  <2>3. CASE Work
    BY <2>3 DEF Work, runOnce, findExisting, postHostname, recordHostname, deleteHostname, forgetRow
  <2>4. CASE Retention
    BY <2>4 DEF Retention, releaseSuspendedCfHostnames, releaseHostname, recordReleased
  <2> QED BY <2>1, <2>2, <2>3, <2>4 DEF rowsChange
<1>2. silent' = IF dirty' # {} THEN "no" ELSE IF row' # row THEN "yes" ELSE silent
  BY DEF rowsChange, tablesWait
<1> QED BY <1>1, <1>2 DEF rowsChange, tablesWait, RouteTypes

(* Steps that leave the publishers and the tables alone: what they change  *)
(* of the rows and the apps, somebody is told of, or the next timer is.    *)
Aside ==
    /\ UNCHANGED <<scene, rev, pub, runtime, ingress, net, floor>>
    /\ app' \in AppDocs /\ silent' \in {"no", "yes"} /\ dirty \subseteq dirty'
    /\ UNCHANGED <<row, app, silent>> \/ dirty' # {} \/ silent' = "yes"

(* The steps of a publisher: what it holds after each.                     *)
Still == UNCHANGED <<scene, row, app, silent>>
Pumped(m) == /\ Still /\ UNCHANGED <<rev, runtime, ingress, net, floor>>
             /\ pub' = [pub EXCEPT ![m] = onto(Idle, "revision")]
Numbered(m) == /\ Still /\ UNCHANGED <<dirty, runtime, ingress, net, floor>> /\ rev' = rev + 1
               /\ pub[m].at = "revision"
               /\ pub' = [pub EXCEPT ![m] = onto([pub[m] EXCEPT !.rev = rev + 1], "snapshot")]
Read(m) == /\ Still /\ UNCHANGED <<dirty, rev, runtime, ingress, net, floor>> /\ pub[m].at = "snapshot"
           /\ \E q \in {[pub[m] EXCEPT !.rows = row], [pub[m] EXCEPT !.apps = app]} :
                pub' = [pub EXCEPT ![m] = IF q.rows = <<>> \/ q.apps = <<>> THEN q
                                          ELSE onto([q EXCEPT !.rules = rulesOf(q.rows, q.apps),
                                                              !.rows = <<>>, !.apps = <<>>], "runtime")]
Pushed(m) == /\ Still /\ UNCHANGED <<dirty, rev, floor>>
             /\ \E n \in pub[m].left :
                  \/ /\ receive(Message(pub[m], n)) /\ UNCHANGED net
                     /\ pub' = [pub EXCEPT ![m].left = @ \ {n}]
                  \/ /\ Fault
                     /\ net' \in {net, net \union {Message(pub[m], n)}} /\ UNCHANGED <<runtime, ingress>>
                     /\ pub' = [pub EXCEPT ![m].left = @ \ {n}, ![m].failed = "yes"]
Settled(m) == /\ Still /\ UNCHANGED <<dirty, rev, runtime, ingress, net, floor>>
              /\ pub[m].left = {} /\ pub[m].at \in {"runtime", "ingress"}
              /\ pub' = [pub EXCEPT ![m] =
                           IF pub[m].at = "runtime" THEN onto(pub[m], "ingress")
                           ELSE IF pub[m].failed = "yes" /\ m \notin dirty THEN onto([pub[m] EXCEPT !.failed = "no"], "runtime")
                           ELSE Idle]
Ended(m) == /\ UNCHANGED <<scene, app, rev, runtime, ingress, net, floor>> /\ dirty' # {} /\ silent' = "no"
            /\ pub' = [pub EXCEPT ![m] = Idle]
Delivered == /\ Still /\ UNCHANGED <<dirty, rev, pub, floor>>
             /\ \E msg \in net : receive(msg) /\ net' = net \ {msg}
Rebooted(n) == /\ Fault /\ Still /\ UNCHANGED <<dirty, rev, pub, net>>
               /\ runtime' = [runtime EXCEPT ![n] = NoRuntime]
               /\ ingress' = [ingress EXCEPT ![n] = NoIngress]
               /\ floor' = [floor EXCEPT ![n] = rev]

Routes ==
    \/ Aside \/ Delivered
    \/ \E m \in scene.masters : Pumped(m) \/ Numbered(m) \/ Read(m) \/ Pushed(m) \/ Settled(m) \/ Ended(m)
    \/ \E n \in Nodes : Rebooted(n)

(* Every step is one of these.                                             *)
LEMMA RouteMoves ==
    ASSUME RouteTypes, [HostNext]_hostVars
    PROVE  Routes
<1>1. CASE UNCHANGED hostVars
  BY <1>1 DEF hostVars, registryVars, tableVars, Routes, Aside, RouteTypes
<1>2. CASE rowsChange
  BY <1>2, RowsTold DEF Routes, Aside, RouteTypes
<1>3. ASSUME NEW m \in scene.masters, restart(m) PROVE Routes
  <2>1. Ended(m)
    BY <1>3 DEF restart, crash, Ended
  <2> QED BY <2>1 DEF Routes
<1>4. ASSUME NEW m \in scene.masters, tick(m) PROVE Routes
  <2>1. Aside
    BY <1>4 DEF tick, resync, registryVars, Aside, RouteTypes
  <2> QED BY <2>1 DEF Routes
<1>5. ASSUME NEW m \in scene.masters, NEW w \in scene.ws, NEW st \in {"RUNNING", "STOPPED", "REMOVED"}, setAppState(m, w, st)
      PROVE  Routes
  <2>1. app' \in AppDocs
    BY <1>5 DEF setAppState, RouteTypes, AppDocs
  <2>2. Aside
    BY <1>5, <2>1 DEF setAppState, Aside
  <2> QED BY <2>2 DEF Routes
<1>6. ASSUME NEW m \in scene.masters, Publish(m) PROVE Routes
  <2>1. pump(m) => Pumped(m)
    BY Stages DEF pump, Pumped, Still, registryVars
  <2>2. nextRevision(m) => Numbered(m)
    BY Stages DEF nextRevision, Numbered, Still, registryVars
  <2>3. buildSnapshot(m) => Read(m)
    BY Stages DEF buildSnapshot, Read, Still, registryVars
  <2>4. pushTable(m) => Pushed(m)
    BY DEF pushTable, Pushed, Still
  <2>5. pushSettled(m) => Settled(m)
    <3>1. SUFFICES ASSUME pushSettled(m) PROVE Settled(m)
      OBVIOUS
    <3>2. pub[m].at \in {"runtime", "ingress"}
      BY <3>1 DEF pushSettled
    <3>3. CASE pub[m].at = "runtime"
      BY <3>1, <3>3, Stages DEF pushSettled, Settled, Still, registryVars
    <3>4. CASE pub[m].at = "ingress"
      BY <3>1, <3>4, Stages DEF pushSettled, Settled, Still, registryVars
    <3> QED BY <3>2, <3>3, <3>4
  <2> QED BY <1>6, <2>1, <2>2, <2>3, <2>4, <2>5 DEF Publish, Routes
<1>7. CASE deliverLate
  <2>1. Delivered
    <3>1. UNCHANGED <<registryVars, dirty, app, rev, pub, floor, silent>>
          /\ \E msg \in net : receive(msg) /\ net' = net \ {msg}
      BY <1>7 DEF deliverLate
    <3> QED BY <3>1 DEF Delivered, Still, registryVars
  <2> QED BY <2>1 DEF Routes
<1>8. ASSUME NEW n \in Nodes, nodeRestart(n) PROVE Routes
  <2>1. Rebooted(n)
    BY <1>8 DEF nodeRestart, Rebooted, Still
  <2> QED BY <2>1 DEF Routes
<1> QED BY <1>1, <1>2, <1>3, <1>4, <1>5, <1>6, <1>7, <1>8 DEF HostNext

(* What a table that arrives changes at its node.                          *)
LEMMA Receives ==
    ASSUME RouteTypes, NEW msg \in [kind : {"runtime", "ingress"}, to : Nodes, rev : Nat, rules : Rules], receive(msg)
    PROVE  /\ runtime' = runtime \/ /\ msg.kind = "runtime" /\ msg.rev > runtime[msg.to].rev
                                    /\ runtime' = [runtime EXCEPT ![msg.to] = RuntimeTable(msg.to, msg.rev, msg.rules)]
           /\ ingress' = ingress \/ /\ msg.kind = "ingress" /\ msg.rev > ingress[msg.to].rev
                                    /\ ingress' = [ingress EXCEPT ![msg.to] = IngressTable(msg.rev, msg.rules)]
           /\ msg.kind = "runtime" => runtime'[msg.to].rev >= msg.rev
           /\ msg.kind = "ingress" => ingress'[msg.to].rev >= msg.rev
<1>1. /\ runtime[msg.to].rev \in Nat /\ ingress[msg.to].rev \in Nat /\ msg.rev \in Nat /\ msg.to \in Nodes
      /\ msg.kind \in {"runtime", "ingress"} /\ msg.rules \in Rules
      /\ runtime \in [Nodes -> [rev : Nat, hosts : [Hosts -> Workspaces \union {"none"}]]]
      /\ ingress \in [Nodes -> [rev : Nat, rules : Rules, keys : SUBSET Nodes]]
  BY DEF RouteTypes
<1>2. CASE msg.kind = "runtime"
  <2>1. /\ ingress' = ingress
        /\ runtime' = IF msg.rev > runtime[msg.to].rev
                      THEN [runtime EXCEPT ![msg.to] = RuntimeTable(msg.to, msg.rev, msg.rules)] ELSE runtime
    BY <1>2 DEF receive, isNewer
  <2> QED BY <1>1, <1>2, <2>1, Tables
<1>3. CASE msg.kind = "ingress"
  <2>1. /\ runtime' = runtime
        /\ ingress' = IF msg.rev > ingress[msg.to].rev
                      THEN [ingress EXCEPT ![msg.to] = IngressTable(msg.rev, msg.rules)] ELSE ingress
    BY <1>3 DEF receive, isNewer
  <2> QED BY <1>1, <1>3, <2>1, Tables
<1> QED BY <1>1, <1>2, <1>3

(* What a pass has read, and what it makes of it when it has read both.    *)
LEMMA Reads ==
    ASSUME RouteTypes, row \in RowDocs, NEW m \in scene.masters, Read(m)
    PROVE  /\ Still /\ UNCHANGED <<dirty, rev, runtime, ingress, net, floor>>
           /\ pub'[m] \in Publisher /\ pub' = [pub EXCEPT ![m] = pub'[m]]
           /\ pub'[m].rev = pub[m].rev /\ pub'[m].failed = pub[m].failed
           /\ \E r \in {pub[m].rows, row}, a \in {pub[m].apps, app} :
                \/ pub'[m].at = "snapshot" /\ pub'[m].rows = r /\ pub'[m].apps = a /\ pub'[m].left = {}
                \/ /\ pub'[m].at = "runtime" /\ r # <<>> /\ a # <<>> /\ pub'[m].rules = rulesOf(r, a)
                   /\ pub'[m].left = RuntimeNodes
<1>0. pub[m] \in Publisher /\ m \in DOMAIN pub /\ app \in AppDocs /\ pub[m].at = "snapshot" /\ pub[m].left = {}
  BY DEF RouteTypes, Read
<1>1. PICK q \in {[pub[m] EXCEPT !.rows = row], [pub[m] EXCEPT !.apps = app]} :
        pub' = [pub EXCEPT ![m] = IF q.rows = <<>> \/ q.apps = <<>> THEN q
                                  ELSE onto([q EXCEPT !.rules = rulesOf(q.rows, q.apps),
                                                      !.rows = <<>>, !.apps = <<>>], "runtime")]
  BY DEF Read
<1>2. /\ q \in Publisher /\ q.rev = pub[m].rev /\ q.at = "snapshot" /\ q.left = {} /\ q.failed = pub[m].failed
      /\ q.rows \in {pub[m].rows, row} /\ q.apps \in {pub[m].apps, app}
  BY <1>0, <1>1 DEF Publisher
<1> DEFINE u == [q EXCEPT !.rules = rulesOf(q.rows, q.apps), !.rows = <<>>, !.apps = <<>>]
<1>3. u \in Publisher /\ u.rev = q.rev /\ u.rules = rulesOf(q.rows, q.apps) /\ u.failed = q.failed
  <2>1. rulesOf(q.rows, q.apps) \in Rules
    BY Tables
  <2> QED BY <1>2, <2>1 DEF Publisher
<1>4. pub'[m] = IF q.rows = <<>> \/ q.apps = <<>> THEN q ELSE onto(u, "runtime")
  BY <1>0, <1>1
<1> HIDE DEF u
<1>5. /\ onto(u, "runtime") \in Publisher /\ onto(u, "runtime").at = "runtime" /\ onto(u, "runtime").rev = u.rev
      /\ onto(u, "runtime").rules = u.rules /\ onto(u, "runtime").left = RuntimeNodes
      /\ onto(u, "runtime").failed = u.failed
  BY <1>3, Enters
<1>6. pub' = [pub EXCEPT ![m] = pub'[m]]
  BY <1>1, <1>4 DEF u
<1>7. CASE q.rows = <<>> \/ q.apps = <<>>
  BY <1>2, <1>4, <1>6, <1>7 DEF Read
<1>8. CASE ~(q.rows = <<>> \/ q.apps = <<>>)
  BY <1>2, <1>3, <1>4, <1>5, <1>6, <1>8 DEF Read
<1> QED BY <1>7, <1>8

(* How a pass goes on otherwise.                                           *)
LEMMA Passes ==
    ASSUME RouteTypes, NEW m \in scene.masters
    PROVE  /\ Idle \in Publisher /\ Idle.at = "idle" /\ Idle.rev = 0 /\ Idle.left = {} /\ Idle.failed = "no"
           /\ Pumped(m) => /\ pub'[m] \in Publisher /\ pub'[m].at = "revision" /\ pub'[m].rev = 0
                           /\ pub'[m].rows = <<>> /\ pub'[m].apps = <<>> /\ pub'[m].left = {} /\ pub'[m].failed = "no"
           /\ Numbered(m) => /\ pub'[m] \in Publisher /\ pub'[m].at = "snapshot" /\ pub'[m].rev = rev + 1
                             /\ pub'[m].rows = <<>> /\ pub'[m].apps = <<>> /\ pub'[m].left = {}
                             /\ pub'[m].failed = pub[m].failed
           /\ Settled(m) =>
                \/ /\ pub[m].at = "runtime" /\ pub'[m] \in Publisher /\ pub'[m].at = "ingress"
                   /\ pub'[m].rev = pub[m].rev /\ pub'[m].rules = pub[m].rules /\ pub'[m].left = IngressNodes
                   /\ pub'[m].failed = pub[m].failed
                \/ /\ pub[m].at = "ingress" /\ pub'[m] \in Publisher /\ pub'[m].at = "runtime"
                   /\ pub'[m].rev = pub[m].rev /\ pub'[m].rules = pub[m].rules /\ pub'[m].left = RuntimeNodes
                   /\ pub[m].failed = "yes"
                \/ pub[m].at = "ingress" /\ pub'[m] = Idle /\ (pub[m].failed = "yes" => m \in dirty)
<1>0. pub[m] \in Publisher /\ m \in DOMAIN pub /\ rev \in Nat
  BY DEF RouteTypes
<1>1. Idle \in Publisher /\ Idle.at = "idle" /\ Idle.rev = 0 /\ Idle.rows = <<>> /\ Idle.apps = <<>>
      /\ Idle.left = {} /\ Idle.failed = "no"
  BY Tables DEF Idle
<1>2. Pumped(m) => pub'[m] = onto(Idle, "revision")
  BY <1>0 DEF Pumped
<1> DEFINE v == [pub[m] EXCEPT !.rev = rev + 1]
<1>3. Numbered(m) => pub'[m] = onto(v, "snapshot") /\ pub[m].rows = <<>> /\ pub[m].apps = <<>>
  BY <1>0 DEF Numbered, RouteTypes
<1>4. v \in Publisher /\ v.rev = rev + 1 /\ v.rows = pub[m].rows /\ v.apps = pub[m].apps /\ v.failed = pub[m].failed
  BY <1>0 DEF Publisher
<1> HIDE DEF v
<1>5. Pumped(m) => /\ pub'[m] \in Publisher /\ pub'[m].at = "revision" /\ pub'[m].rev = 0
                   /\ pub'[m].rows = <<>> /\ pub'[m].apps = <<>> /\ pub'[m].left = {} /\ pub'[m].failed = "no"
  BY <1>1, <1>2, Enters
<1>6. Numbered(m) => /\ pub'[m] \in Publisher /\ pub'[m].at = "snapshot" /\ pub'[m].rev = rev + 1
                     /\ pub'[m].rows = <<>> /\ pub'[m].apps = <<>> /\ pub'[m].left = {}
                     /\ pub'[m].failed = pub[m].failed
  <2>1. /\ onto(v, "snapshot") \in Publisher /\ onto(v, "snapshot").at = "snapshot" /\ onto(v, "snapshot").rev = v.rev
        /\ onto(v, "snapshot").rows = v.rows /\ onto(v, "snapshot").apps = v.apps /\ onto(v, "snapshot").left = {}
        /\ onto(v, "snapshot").failed = v.failed
    BY <1>4, Enters
  <2> QED BY <1>3, <1>4, <2>1
<1> DEFINE x == [pub[m] EXCEPT !.failed = "no"]
<1>7. x \in Publisher /\ x.rev = pub[m].rev /\ x.rules = pub[m].rules
  BY <1>0 DEF Publisher
<1>8. Settled(m) => pub'[m] = IF pub[m].at = "runtime" THEN onto(pub[m], "ingress")
                              ELSE IF pub[m].failed = "yes" /\ m \notin dirty THEN onto(x, "runtime") ELSE Idle
  BY <1>0 DEF Settled
<1> HIDE DEF x
<1>9. /\ onto(x, "runtime") \in Publisher /\ onto(x, "runtime").at = "runtime" /\ onto(x, "runtime").rev = x.rev
      /\ onto(x, "runtime").rules = x.rules /\ onto(x, "runtime").left = RuntimeNodes
  BY <1>7, Enters
<1>10. LET o == onto(pub[m], "ingress")
       IN  /\ o \in Publisher /\ o.at = "ingress" /\ o.rev = pub[m].rev /\ o.rules = pub[m].rules
           /\ o.left = IngressNodes /\ o.failed = pub[m].failed
  BY <1>0, Enters
<1>11. Settled(m) => pub[m].at \in {"runtime", "ingress"}
  BY DEF Settled
<1>12. ASSUME Settled(m), pub[m].at = "runtime"
       PROVE  /\ pub'[m] \in Publisher /\ pub'[m].at = "ingress"
              /\ pub'[m].rev = pub[m].rev /\ pub'[m].rules = pub[m].rules /\ pub'[m].left = IngressNodes
              /\ pub'[m].failed = pub[m].failed
  BY <1>8, <1>10, <1>12
<1>13. ASSUME Settled(m), pub[m].at = "ingress", pub[m].failed = "yes" /\ m \notin dirty
       PROVE  /\ pub'[m] \in Publisher /\ pub'[m].at = "runtime"
              /\ pub'[m].rev = pub[m].rev /\ pub'[m].rules = pub[m].rules /\ pub'[m].left = RuntimeNodes
  BY <1>7, <1>8, <1>9, <1>13
<1>14. ASSUME Settled(m), pub[m].at = "ingress", ~(pub[m].failed = "yes" /\ m \notin dirty)
       PROVE  pub'[m] = Idle
  BY <1>8, <1>14
<1> QED BY <1>1, <1>5, <1>6, <1>11, <1>12, <1>13, <1>14

(* How a push ends.                                                        *)
LEMMA Pushes ==
    ASSUME RouteTypes, NEW m \in scene.masters, Pushed(m)
    PROVE  /\ pub'[m] \in Publisher /\ pub' = [pub EXCEPT ![m] = pub'[m]]
           /\ pub'[m].at = pub[m].at /\ pub'[m].rev = pub[m].rev /\ pub'[m].rules = pub[m].rules
           /\ pub'[m].rows = pub[m].rows /\ pub'[m].apps = pub[m].apps
           /\ \E n \in pub[m].left :
                /\ n \in Nodes /\ pub'[m].left = pub[m].left \ {n}
                /\ \/ receive(Message(pub[m], n)) /\ net' = net /\ pub'[m].failed = pub[m].failed
                   \/ /\ Fault /\ net' \in {net, net \union {Message(pub[m], n)}} /\ UNCHANGED <<runtime, ingress>>
                      /\ pub'[m].failed = "yes"
<1>0. pub[m] \in Publisher /\ m \in DOMAIN pub /\ pub[m].left \subseteq Nodes
  BY DEF RouteTypes, Publisher
<1>1. PICK n \in pub[m].left :
        \/ receive(Message(pub[m], n)) /\ UNCHANGED net /\ pub' = [pub EXCEPT ![m].left = @ \ {n}]
        \/ /\ Fault /\ net' \in {net, net \union {Message(pub[m], n)}} /\ UNCHANGED <<runtime, ingress>>
           /\ pub' = [pub EXCEPT ![m].left = @ \ {n}, ![m].failed = "yes"]
  BY DEF Pushed
<1>2. CASE pub' = [pub EXCEPT ![m].left = @ \ {n}] /\ receive(Message(pub[m], n)) /\ net' = net
  <2>1. pub'[m] = [pub[m] EXCEPT !.left = @ \ {n}] /\ pub' = [pub EXCEPT ![m] = pub'[m]]
    BY <1>0, <1>2
  <2> QED BY <1>0, <1>1, <1>2, <2>1 DEF Publisher
<1>3. CASE /\ Fault /\ net' \in {net, net \union {Message(pub[m], n)}} /\ UNCHANGED <<runtime, ingress>>
           /\ pub' = [pub EXCEPT ![m].left = @ \ {n}, ![m].failed = "yes"]
  <2>1. pub'[m] = [pub[m] EXCEPT !.left = @ \ {n}, !.failed = "yes"] /\ pub' = [pub EXCEPT ![m] = pub'[m]]
    BY <1>0, <1>3
  <2> QED BY <1>0, <1>1, <1>3, <2>1 DEF Publisher
<1> QED BY <1>1, <1>2, <1>3

(* A step of a publisher is its own.                                       *)
Passing(m) == Pumped(m) \/ Numbered(m) \/ Read(m) \/ Pushed(m) \/ Settled(m) \/ Ended(m)

(* It changes that publisher alone, and leaves one that is typed.          *)
LEMMA OwnPass ==
    ASSUME RouteTypes, row \in RowDocs, NEW m \in scene.masters, Passing(m)
    PROVE  /\ scene' = scene /\ app' = app /\ UNCHANGED floor
           /\ pub' \in [scene.masters -> Publisher]
           /\ \A x \in scene.masters \ {m} : pub'[x] = pub[x]
           /\ pub'[m].at = "revision" => pub'[m].rows = <<>> /\ pub'[m].apps = <<>>
           /\ pub'[m].left # {} => pub'[m].at \in {"runtime", "ingress"}
<1>0. pub \in [scene.masters -> Publisher] /\ Idle \in Publisher /\ Idle.at = "idle" /\ Idle.left = {}
  BY Passes DEF RouteTypes
<1>1. scene' = scene /\ app' = app /\ UNCHANGED floor
  BY DEF Passing, Pumped, Numbered, Read, Pushed, Settled, Ended, Still
<1>2. pub' = [pub EXCEPT ![m] = pub'[m]]
  <2>1. ASSUME NEW v, pub' = [pub EXCEPT ![m] = v] PROVE pub' = [pub EXCEPT ![m] = pub'[m]]
    BY <1>0, <2>1
  <2>2. CASE Read(m) \/ Pushed(m)
    BY <2>2, Reads, Pushes
  <2>3. CASE Pumped(m)
    BY <2>1, <2>3 DEF Pumped
  <2>4. CASE Numbered(m)
    BY <2>1, <2>4 DEF Numbered
  <2>5. CASE Settled(m)
    <3>1. PICK v : pub' = [pub EXCEPT ![m] = v]
      BY <2>5 DEF Settled
    <3> QED BY <2>1, <3>1
  <2>6. CASE Ended(m)
    BY <2>1, <2>6 DEF Ended
  <2> QED BY <2>2, <2>3, <2>4, <2>5, <2>6 DEF Passing
<1>3. /\ pub'[m] \in Publisher /\ (pub'[m].at = "revision" => pub'[m].rows = <<>> /\ pub'[m].apps = <<>>)
      /\ pub'[m].left # {} => pub'[m].at \in {"runtime", "ingress"}
  <2>1. CASE Pumped(m) \/ Numbered(m) \/ Settled(m)
    BY <1>0, <2>1, Passes
  <2>2. CASE Read(m)
    BY <2>2, Reads
  <2>3. CASE Pushed(m)
    BY <2>3, Pushes DEF RouteTypes
  <2>4. CASE Ended(m)
    BY <1>0, <2>4 DEF Ended
  <2> QED BY <2>1, <2>2, <2>3, <2>4 DEF Passing
<1>4. \A x \in scene.masters \ {m} : pub'[x] = pub[x]
  BY <1>0, <1>2
<1>5. pub' \in [scene.masters -> Publisher]
  BY <1>0, <1>2, <1>3
<1> QED BY <1>1, <1>3, <1>4, <1>5

(* A push is one of the messages a node may get.                           *)
LEMMA PushMessage ==
    ASSUME RouteTypes, NEW m \in scene.masters, Pushed(m), NEW n \in Nodes
    PROVE  /\ Message(pub[m], n) \in [kind : {"runtime", "ingress"}, to : Nodes, rev : Nat, rules : Rules]
           /\ Message(pub[m], n).kind = pub[m].at /\ Message(pub[m], n).to = n
           /\ Message(pub[m], n).rev = pub[m].rev /\ Message(pub[m], n).rules = pub[m].rules
<1>1. pub[m] \in Publisher
  BY DEF RouteTypes
<1>2. pub[m].at \in {"runtime", "ingress"}
  BY DEF Pushed, RouteTypes
<1> QED BY <1>1, <1>2 DEF Message, Publisher

(* What a table that arrives is at each node, and that nothing gets older. *)
LEMMA Lands ==
    ASSUME RouteTypes, NEW msg \in [kind : {"runtime", "ingress"}, to : Nodes, rev : Nat, rules : Rules], receive(msg)
    PROVE  /\ runtime' \in [Nodes -> [rev : Nat, hosts : [Hosts -> Workspaces \union {"none"}]]]
           /\ ingress' \in [Nodes -> [rev : Nat, rules : Rules, keys : SUBSET Nodes]]
           /\ \A n \in Nodes :
                /\ runtime'[n] = runtime[n] \/ /\ runtime'[n] = RuntimeTable(n, msg.rev, msg.rules)
                                               /\ runtime'[n].rev = msg.rev /\ msg.rev > runtime[n].rev
                /\ ingress'[n] = ingress[n] \/ /\ ingress'[n] = IngressTable(msg.rev, msg.rules)
                                               /\ ingress'[n].rev = msg.rev /\ msg.rev > ingress[n].rev
           /\ msg.kind = "runtime" => runtime'[msg.to].rev >= msg.rev
           /\ msg.kind = "ingress" => ingress'[msg.to].rev >= msg.rev
<1> DEFINE r == RuntimeTable(msg.to, msg.rev, msg.rules)
           i == IngressTable(msg.rev, msg.rules)
<1>1. /\ msg.to \in Nodes /\ msg.rev \in Nat /\ msg.rules \in Rules
      /\ runtime \in [Nodes -> [rev : Nat, hosts : [Hosts -> Workspaces \union {"none"}]]]
      /\ ingress \in [Nodes -> [rev : Nat, rules : Rules, keys : SUBSET Nodes]]
  BY DEF RouteTypes
<1>2. /\ r \in [rev : Nat, hosts : [Hosts -> Workspaces \union {"none"}]] /\ r.rev = msg.rev
      /\ i \in [rev : Nat, rules : Rules, keys : SUBSET Nodes] /\ i.rev = msg.rev
  BY <1>1, Tables
<1>3. /\ runtime' = runtime \/ (msg.rev > runtime[msg.to].rev /\ runtime' = [runtime EXCEPT ![msg.to] = r])
      /\ ingress' = ingress \/ (msg.rev > ingress[msg.to].rev /\ ingress' = [ingress EXCEPT ![msg.to] = i])
      /\ msg.kind = "runtime" => runtime'[msg.to].rev >= msg.rev
      /\ msg.kind = "ingress" => ingress'[msg.to].rev >= msg.rev
  BY Receives
<1>4. \A n \in Nodes : n = msg.to => r = RuntimeTable(n, msg.rev, msg.rules)
  OBVIOUS
<1> HIDE DEF r, i
<1>5. /\ runtime' \in [Nodes -> [rev : Nat, hosts : [Hosts -> Workspaces \union {"none"}]]]
      /\ \A n \in Nodes : runtime'[n] = runtime[n] \/ /\ n = msg.to /\ runtime'[n] = r
                                                      /\ msg.rev > runtime[n].rev
  BY <1>1, <1>2, <1>3
<1>6. /\ ingress' \in [Nodes -> [rev : Nat, rules : Rules, keys : SUBSET Nodes]]
      /\ \A n \in Nodes : ingress'[n] = ingress[n] \/ (ingress'[n] = i /\ msg.rev > ingress[n].rev)
  <2>1. CASE ingress' = ingress
    BY <1>1, <2>1
  <2>2. CASE msg.rev > ingress[msg.to].rev /\ ingress' = [ingress EXCEPT ![msg.to] = i]
    <3>1. \A n \in Nodes : ingress'[n] = IF n = msg.to THEN i ELSE ingress[n]
      BY <1>1, <2>2
    <3>2. ingress' \in [Nodes -> [rev : Nat, rules : Rules, keys : SUBSET Nodes]]
      BY <1>1, <1>2, <2>2
    <3> QED BY <1>1, <2>2, <3>1, <3>2
  <2> QED BY <1>3, <2>1, <2>2
<1>7. \A n \in Nodes : ingress'[n] = ingress[n] \/ /\ ingress'[n] = IngressTable(msg.rev, msg.rules)
                                                   /\ ingress'[n].rev = msg.rev /\ msg.rev > ingress[n].rev
  BY <1>2, <1>6 DEF i
<1>8. \A n \in Nodes : runtime'[n] = runtime[n] \/ /\ runtime'[n] = RuntimeTable(n, msg.rev, msg.rules)
                                                   /\ runtime'[n].rev = msg.rev /\ msg.rev > runtime[n].rev
  BY <1>2, <1>4, <1>5
<1> QED BY <1>3, <1>5, <1>6, <1>7, <1>8

(* What every step does to the tables and to what is under way.            *)
TablesKept == UNCHANGED <<runtime, ingress, net, floor>>
Landing(msg) == receive(msg) /\ net' \subseteq net /\ UNCHANGED <<rev, floor>>
Leaving(msg) == net' \subseteq net \union {msg} /\ UNCHANGED <<runtime, ingress, rev, floor>>

(* They stay, one message lands or leaves, or a node is started again.     *)
LEMMA TablesMove ==
    ASSUME RouteTypes, Routes
    PROVE  \/ TablesKept
           \/ \E m \in scene.masters, n \in Nodes :
                /\ Pushed(m)
                /\ Message(pub[m], n) \in [kind : {"runtime", "ingress"}, to : Nodes, rev : Nat, rules : Rules]
                /\ Message(pub[m], n).rev = pub[m].rev /\ Message(pub[m], n).rules = pub[m].rules
                /\ Landing(Message(pub[m], n)) \/ Leaving(Message(pub[m], n))
           \/ Delivered /\ \E msg \in net : Landing(msg)
           \/ \E n \in Nodes : Rebooted(n)
<1>1. ASSUME NEW m \in scene.masters, Pushed(m)
      PROVE  \E n \in Nodes :
                /\ Message(pub[m], n) \in [kind : {"runtime", "ingress"}, to : Nodes, rev : Nat, rules : Rules]
                /\ Message(pub[m], n).rev = pub[m].rev /\ Message(pub[m], n).rules = pub[m].rules
                /\ Landing(Message(pub[m], n)) \/ Leaving(Message(pub[m], n))
  <2>1. PICK n \in Nodes : \/ receive(Message(pub[m], n)) /\ net' = net
                           \/ net' \in {net, net \union {Message(pub[m], n)}} /\ UNCHANGED <<runtime, ingress>>
    BY <1>1, Pushes
  <2>2. UNCHANGED <<rev, floor>>
    BY <1>1 DEF Pushed
  <2>3. Landing(Message(pub[m], n)) \/ Leaving(Message(pub[m], n))
    BY <2>1, <2>2 DEF Landing, Leaving
  <2> QED BY <1>1, <2>3, PushMessage
<1>2. Delivered => \E msg \in net : Landing(msg)
  BY DEF Delivered, Landing
<1>3. Aside => TablesKept
  BY DEF Aside, TablesKept
<1>4. \A m \in scene.masters : Pumped(m) \/ Numbered(m) \/ Read(m) \/ Settled(m) \/ Ended(m) => TablesKept
  BY DEF Pumped, Numbered, Read, Settled, Ended, TablesKept
<1> QED BY <1>1, <1>2, <1>3, <1>4 DEF Routes

(* What is under way stays typed and no newer than the masters' revision.  *)
LEMMA TypesStep ==
    ASSUME RouteTypes, row \in RowDocs, Routes
    PROVE  RouteTypes'
<1>0. /\ rev \in Nat /\ app \in AppDocs /\ silent \in {"no", "yes"} /\ floor \in [Nodes -> Nat]
      /\ runtime \in [Nodes -> [rev : Nat, hosts : [Hosts -> Workspaces \union {"none"}]]]
      /\ ingress \in [Nodes -> [rev : Nat, rules : Rules, keys : SUBSET Nodes]]
      /\ net \subseteq [kind : {"runtime", "ingress"}, to : Nodes, rev : Nat, rules : Rules]
  BY DEF RouteTypes
<1>1. /\ app' \in AppDocs /\ silent' \in {"no", "yes"} /\ rev' \in Nat
  <2>1. ASSUME NEW m \in scene.masters, Passing(m) PROVE app' = app /\ silent' \in {silent, "no"} /\ rev' \in {rev, rev + 1}
    BY <2>1 DEF Passing, Pumped, Numbered, Read, Pushed, Settled, Ended, Still
  <2>2. CASE Aside \/ Delivered \/ \E n \in Nodes : Rebooted(n)
    <3>1. CASE Aside
      BY <1>0, <3>1 DEF Aside
    <3>2. CASE Delivered \/ \E n \in Nodes : Rebooted(n)
      BY <1>0, <3>2 DEF Delivered, Rebooted, Still
    <3> QED BY <2>2, <3>1, <3>2
  <2>3. CASE \E m \in scene.masters : Passing(m)
    <3>1. app' = app /\ silent' \in {silent, "no"} /\ rev' \in {rev, rev + 1}
      BY <2>1, <2>3
    <3> QED BY <1>0, <3>1
  <2> QED BY <2>2, <2>3 DEF Routes, Passing
<1>2. /\ scene' = scene /\ pub' \in [scene.masters -> Publisher]
      /\ \A m \in scene.masters :
           /\ pub'[m].at = "revision" => pub'[m].rows = <<>> /\ pub'[m].apps = <<>>
           /\ pub'[m].left # {} => pub'[m].at \in {"runtime", "ingress"}
  <2>1. CASE Aside \/ Delivered \/ \E n \in Nodes : Rebooted(n)
    BY <2>1 DEF RouteTypes, Aside, Delivered, Rebooted, Still
  <2>2. ASSUME NEW m \in scene.masters, Passing(m)
        PROVE  /\ scene' = scene /\ pub' \in [scene.masters -> Publisher]
               /\ \A x \in scene.masters :
                    /\ pub'[x].at = "revision" => pub'[x].rows = <<>> /\ pub'[x].apps = <<>>
                    /\ pub'[x].left # {} => pub'[x].at \in {"runtime", "ingress"}
    <3>1. ASSUME NEW x \in scene.masters, x # m
          PROVE  /\ pub'[x].at = "revision" => pub'[x].rows = <<>> /\ pub'[x].apps = <<>>
                 /\ pub'[x].left # {} => pub'[x].at \in {"runtime", "ingress"}
      <4>1. pub'[x] = pub[x]
        BY <2>2, <3>1, OwnPass
      <4> QED BY <4>1 DEF RouteTypes
    <3> QED BY <2>2, <3>1, OwnPass
  <2> QED BY <2>1, <2>2 DEF Routes, Passing
<1>3. /\ runtime' \in [Nodes -> [rev : Nat, hosts : [Hosts -> Workspaces \union {"none"}]]]
      /\ ingress' \in [Nodes -> [rev : Nat, rules : Rules, keys : SUBSET Nodes]]
      /\ net' \subseteq [kind : {"runtime", "ingress"}, to : Nodes, rev : Nat, rules : Rules]
      /\ floor' \in [Nodes -> Nat]
  <2>1. CASE TablesKept
    BY <1>0, <2>1 DEF TablesKept
  <2>2. ASSUME NEW msg \in [kind : {"runtime", "ingress"}, to : Nodes, rev : Nat, rules : Rules],
               Landing(msg) \/ Leaving(msg)
        PROVE  /\ runtime' \in [Nodes -> [rev : Nat, hosts : [Hosts -> Workspaces \union {"none"}]]]
               /\ ingress' \in [Nodes -> [rev : Nat, rules : Rules, keys : SUBSET Nodes]]
               /\ net' \subseteq [kind : {"runtime", "ingress"}, to : Nodes, rev : Nat, rules : Rules]
               /\ floor' \in [Nodes -> Nat]
    <3>1. CASE Landing(msg)
      BY <1>0, <3>1, Lands DEF Landing
    <3>2. CASE Leaving(msg)
      BY <1>0, <3>2 DEF Leaving
    <3> QED BY <2>2, <3>1, <3>2
  <2>3. CASE \E n \in Nodes : Rebooted(n)
    BY <1>0, <2>3, Tables DEF Rebooted
  <2> QED BY <1>0, <2>1, <2>2, <2>3, TablesMove
<1> QED BY <1>1, <1>2, <1>3 DEF RouteTypes

(* No table and no pass gets ahead of the revision the masters share.      *)
LEMMA RevStep ==
    ASSUME RouteTypes, RevInv, row \in RowDocs, Routes
    PROVE  RevInv'
<1>0. /\ rev \in Nat /\ rev' \in Nat /\ rev' >= rev /\ scene' = scene
      /\ \A m \in scene.masters : pub[m].rev \in Nat /\ pub'[m].rev \in Nat
      /\ \A n \in Nodes : /\ runtime[n].rev \in Nat /\ ingress[n].rev \in Nat /\ floor[n] \in Nat
                          /\ runtime'[n].rev \in Nat /\ ingress'[n].rev \in Nat /\ floor'[n] \in Nat
  <2>1. scene' = scene /\ (rev' = rev \/ rev' = rev + 1)
    BY DEF Routes, Aside, Delivered, Pumped, Numbered, Read, Pushed, Settled, Ended, Rebooted, Still
  <2>2. RouteTypes'
    BY TypesStep
  <2> QED BY <2>1, <2>2 DEF RouteTypes, Publisher
<1>1. \A m \in scene.masters : pub'[m].rev <= rev'
  <2>1. CASE pub' = pub
    BY <1>0, <2>1 DEF RevInv
  <2>2. ASSUME NEW m \in scene.masters, Passing(m) PROVE \A x \in scene.masters : pub'[x].rev <= rev'
    <3>1. \A x \in scene.masters \ {m} : pub'[x] = pub[x]
      BY <2>2, OwnPass
    <3>2. pub'[m].rev <= rev'
      <4>1. CASE Pumped(m) \/ Settled(m)
        BY <1>0, <4>1, Passes DEF RevInv
      <4>2. CASE Numbered(m)
        <5>1. rev' = rev + 1 /\ pub'[m].rev = rev + 1
          BY <4>2, Passes DEF Numbered
        <5> QED BY <1>0, <5>1
      <4>3. CASE Read(m)
        BY <1>0, <4>3, Reads DEF RevInv
      <4>4. CASE Pushed(m)
        BY <1>0, <4>4, Pushes DEF RevInv
      <4>5. CASE Ended(m)
        BY <1>0, <4>5, Passes DEF Ended, RouteTypes
      <4> QED BY <2>2, <4>1, <4>2, <4>3, <4>4, <4>5 DEF Passing
    <3> QED BY <1>0, <3>1, <3>2 DEF RevInv
  <2> QED BY <2>1, <2>2 DEF Routes, Aside, Delivered, Rebooted, Passing
<1>2. /\ \A n \in Nodes : runtime'[n].rev <= rev' /\ ingress'[n].rev <= rev' /\ floor'[n] <= rev'
      /\ \A msg \in net' : msg.rev <= rev'
  <2>0. \A msg \in net : msg.rev \in Nat /\ msg.rev <= rev
    BY DEF RouteTypes, RevInv
  <2>1. CASE TablesKept
    BY <1>0, <2>0, <2>1 DEF TablesKept, RevInv
  <2>2. ASSUME NEW msg \in [kind : {"runtime", "ingress"}, to : Nodes, rev : Nat, rules : Rules],
               msg.rev <= rev, Landing(msg) \/ Leaving(msg)
        PROVE  /\ \A n \in Nodes : runtime'[n].rev <= rev' /\ ingress'[n].rev <= rev' /\ floor'[n] <= rev'
               /\ \A x \in net' : x.rev <= rev'
    <3>1. CASE Landing(msg)
      BY <1>0, <2>0, <2>2, <3>1, Lands DEF Landing, RevInv
    <3>2. CASE Leaving(msg)
      BY <1>0, <2>0, <2>2, <3>2 DEF Leaving, RevInv
    <3> QED BY <2>2, <3>1, <3>2
  <2>3. ASSUME NEW m \in Nodes, Rebooted(m)
        PROVE  /\ \A n \in Nodes : runtime'[n].rev <= rev' /\ ingress'[n].rev <= rev' /\ floor'[n] <= rev'
               /\ \A x \in net' : x.rev <= rev'
    <3>1. /\ \A n \in Nodes : runtime'[n] = (IF n = m THEN NoRuntime ELSE runtime[n])
          /\ \A n \in Nodes : ingress'[n] = (IF n = m THEN NoIngress ELSE ingress[n])
          /\ \A n \in Nodes : floor'[n] = (IF n = m THEN rev ELSE floor[n])
          /\ net' = net
      BY <2>3 DEF Rebooted, RouteTypes
    <3> QED BY <1>0, <2>0, <3>1, Tables DEF RevInv
  <2>4. \A m \in scene.masters : pub[m].rev <= rev
    BY DEF RevInv
  <2>5. \A msg \in net : msg \in [kind : {"runtime", "ingress"}, to : Nodes, rev : Nat, rules : Rules]
    BY DEF RouteTypes
  <2>6. CASE \E m \in scene.masters, n \in Nodes :
                /\ Message(pub[m], n) \in [kind : {"runtime", "ingress"}, to : Nodes, rev : Nat, rules : Rules]
                /\ Message(pub[m], n).rev = pub[m].rev
                /\ Landing(Message(pub[m], n)) \/ Leaving(Message(pub[m], n))
    BY <2>2, <2>4, <2>6
  <2>7. CASE \E msg \in net : Landing(msg)
    BY <2>0, <2>2, <2>5, <2>7
  <2> QED BY <2>1, <2>3, <2>6, <2>7, TablesMove
<1> QED BY <1>0, <1>1, <1>2 DEF RevInv

(* When nobody waits to be told after a step, nobody did before, unless    *)
(* the step takes a new revision.                                          *)
LEMMA ToldBefore ==
    ASSUME RouteTypes, row \in RowDocs, Routes, ~Told'
    PROVE  \/ \E m \in scene.masters : Numbered(m)
           \/ /\ ~Told /\ rev' = rev
              /\ ~\E m \in scene.masters : Pumped(m) \/ Ended(m)
              /\ ~Stale' => ~Stale /\ row' = row /\ app' = app
<1>0. scene' = scene /\ dirty' = {} /\ \A m \in scene.masters : pub'[m].at # "revision"
  <2>1. scene' = scene
    BY DEF Routes, Aside, Delivered, Pumped, Numbered, Read, Pushed, Settled, Ended, Rebooted, Still
  <2> QED BY <2>1 DEF Told
<1>1. CASE Aside \/ Delivered \/ \E n \in Nodes : Rebooted(n)
  <2>1. dirty = {} /\ pub' = pub /\ rev' = rev
    BY <1>0, <1>1 DEF Aside, Delivered, Rebooted
  <2>2. ~Told
    BY <1>0, <2>1 DEF Told
  <2>3. ~\E m \in scene.masters : Pumped(m) \/ Ended(m)
    BY <1>0, <2>1, Passes DEF Ended
  <2>4. ~Stale' => silent' = "no"
    BY TypesStep DEF Stale, RouteTypes
  <2>5. (silent' = "no" => silent = "no" /\ row' = row /\ app' = app)
    BY <1>0, <1>1 DEF Aside, Delivered, Rebooted, Still
  <2> QED BY <2>1, <2>2, <2>3, <2>4, <2>5 DEF Stale
<1>2. ASSUME NEW m \in scene.masters, Passing(m), ~Numbered(m)
      PROVE  /\ ~Told /\ rev' = rev
             /\ ~\E x \in scene.masters : Pumped(x) \/ Ended(x)
             /\ ~Stale' => ~Stale /\ row' = row /\ app' = app
  <2>1. ~\E x \in scene.masters : Pumped(x) \/ Ended(x)
    BY <1>0, Passes DEF Ended
  <2>2. Read(m) \/ Pushed(m) \/ Settled(m)
    BY <1>2, <2>1 DEF Passing
  <2>3. Still /\ UNCHANGED <<dirty, rev>>
    BY <2>2 DEF Read, Pushed, Settled
  <2>4. pub[m].at # "revision"
    BY <2>2 DEF Read, Pushed, Settled, RouteTypes
  <2>5. \A x \in scene.masters \ {m} : pub'[x] = pub[x]
    BY <1>2, OwnPass
  <2>6. ~Told
    BY <1>0, <2>3, <2>4, <2>5 DEF Told
  <2> QED BY <2>1, <2>3, <2>6 DEF Stale, Still
<1> QED BY <1>1, <1>2 DEF Routes, Passing

(* A step that takes no new revision leaves what the newest one says.      *)
LEMMA FreshTables ==
    ASSUME RouteTypes, RevInv, FreshInv, row \in RowDocs, Routes, ~Stale, rev' = rev, row' = row, app' = app
    PROVE  /\ \A msg \in net' : msg.rev = rev => msg.rules = rulesOf(row, app)
           /\ rev # 0 => /\ \A n \in RuntimeNodes : runtime'[n].rev = rev =>
                              runtime'[n] = RuntimeTable(n, rev, rulesOf(row, app))
                         /\ \A n \in IngressNodes : ingress'[n].rev = rev =>
                              ingress'[n] = IngressTable(rev, rulesOf(row, app))
<1> DEFINE R == rulesOf(row, app)
           Says(rt, ig, nt) ==
             /\ \A msg \in nt : msg.rev = rev => msg.rules = R
             /\ rev # 0 => /\ \A n \in RuntimeNodes : rt[n].rev = rev => rt[n] = RuntimeTable(n, rev, R)
                           /\ \A n \in IngressNodes : ig[n].rev = rev => ig[n] = IngressTable(rev, R)
<1>0. Says(runtime, ingress, net)
  BY DEF FreshInv
<1>n. RuntimeNodes \subseteq Nodes /\ IngressNodes \subseteq Nodes
  BY DEF RuntimeNodes, IngressNodes
<1>1. SUFFICES Says(runtime', ingress', net')
  OBVIOUS
<1> HIDE DEF R
<1>2. CASE TablesKept
  BY <1>0, <1>2 DEF TablesKept
<1>3. ASSUME NEW msg \in [kind : {"runtime", "ingress"}, to : Nodes, rev : Nat, rules : Rules],
             msg.rev = rev => msg.rules = R, Landing(msg) \/ Leaving(msg)
      PROVE  Says(runtime', ingress', net')
  <2>1. CASE Landing(msg)
    <3>1. net' \subseteq net
      BY <2>1 DEF Landing
    <3>2. \A n \in Nodes :
            /\ runtime'[n] = runtime[n] \/ /\ runtime'[n] = RuntimeTable(n, msg.rev, msg.rules)
                                           /\ runtime'[n].rev = msg.rev
            /\ ingress'[n] = ingress[n] \/ /\ ingress'[n] = IngressTable(msg.rev, msg.rules)
                                           /\ ingress'[n].rev = msg.rev
      BY <2>1, Lands DEF Landing
    <3> QED BY <1>0, <1>n, <1>3, <3>1, <3>2
  <2>2. CASE Leaving(msg)
    BY <1>0, <1>3, <2>2 DEF Leaving
  <2> QED BY <1>3, <2>1, <2>2
<1>4. CASE \E m \in scene.masters, n \in Nodes :
              /\ Pushed(m)
              /\ Message(pub[m], n) \in [kind : {"runtime", "ingress"}, to : Nodes, rev : Nat, rules : Rules]
              /\ Message(pub[m], n).rev = pub[m].rev /\ Message(pub[m], n).rules = pub[m].rules
              /\ Landing(Message(pub[m], n)) \/ Leaving(Message(pub[m], n))
  <2>1. PICK m \in scene.masters, n \in Nodes :
              /\ Pushed(m)
              /\ Message(pub[m], n) \in [kind : {"runtime", "ingress"}, to : Nodes, rev : Nat, rules : Rules]
              /\ Message(pub[m], n).rev = pub[m].rev /\ Message(pub[m], n).rules = pub[m].rules
              /\ Landing(Message(pub[m], n)) \/ Leaving(Message(pub[m], n))
    BY <1>4
  <2>2. pub[m].at \in {"runtime", "ingress"}
    BY <2>1 DEF Pushed, RouteTypes
  <2>3. pub[m].rev = rev => pub[m].rules = R
    BY <2>2 DEF FreshInv, R
  <2>4. Message(pub[m], n).rev = rev => Message(pub[m], n).rules = R
    BY <2>1, <2>3
  <2> QED BY <1>3, <2>1, <2>4
<1>5. CASE \E msg \in net : Landing(msg)
  <2>1. PICK msg \in net : Landing(msg)
    BY <1>5
  <2>2. msg \in [kind : {"runtime", "ingress"}, to : Nodes, rev : Nat, rules : Rules]
    BY DEF RouteTypes
  <2> QED BY <1>0, <1>3, <2>1, <2>2
<1>6. ASSUME NEW m \in Nodes, Rebooted(m) PROVE Says(runtime', ingress', net')
  <2>1. /\ \A n \in Nodes : runtime'[n] = (IF n = m THEN NoRuntime ELSE runtime[n])
        /\ \A n \in Nodes : ingress'[n] = (IF n = m THEN NoIngress ELSE ingress[n])
        /\ net' = net /\ NoRuntime.rev = 0 /\ NoIngress.rev = 0
    BY <1>6, Tables DEF Rebooted, RouteTypes
  <2> QED BY <1>0, <1>n, <2>1
<1> QED BY <1>2, <1>4, <1>5, <1>6, TablesMove

(* What bears the newest revision was made of rows that were read after    *)
(* it was taken; a step that changes them tells somebody.                  *)
LEMMA FreshStep ==
    ASSUME RouteTypes, RevInv, FreshInv, row \in RowDocs, Routes
    PROVE  FreshInv'
<1>0. SUFFICES ASSUME ~Stale'
      PROVE  /\ \A m \in scene'.masters : pub'[m].rev = rev' =>
                  /\ pub'[m].at = "snapshot" => pub'[m].rows \in {<<>>, row'} /\ pub'[m].apps \in {<<>>, app'}
                  /\ pub'[m].at \in {"runtime", "ingress"} => pub'[m].rules = rulesOf(row', app')
             /\ \A msg \in net' : msg.rev = rev' => msg.rules = rulesOf(row', app')
             /\ rev' # 0 => /\ \A n \in RuntimeNodes : runtime'[n].rev = rev' =>
                                 runtime'[n] = RuntimeTable(n, rev', rulesOf(row', app'))
                            /\ \A n \in IngressNodes : ingress'[n].rev = rev' =>
                                 ingress'[n] = IngressTable(rev', rulesOf(row', app'))
  BY DEF FreshInv
<1>1. ~Told' /\ scene' = scene /\ rev \in Nat
  <2>1. scene' = scene
    BY DEF Routes, Aside, Delivered, Pumped, Numbered, Read, Pushed, Settled, Ended, Rebooted, Still
  <2> QED BY <1>0, <2>1 DEF Stale, RouteTypes
<1>2. ASSUME NEW m \in scene.masters, Numbered(m)
      PROVE  /\ \A x \in scene.masters : pub'[x].rev = rev' =>
                  /\ pub'[x].at = "snapshot" => pub'[x].rows \in {<<>>, row'} /\ pub'[x].apps \in {<<>>, app'}
                  /\ pub'[x].at \in {"runtime", "ingress"} => pub'[x].rules = rulesOf(row', app')
             /\ \A msg \in net' : msg.rev # rev'
             /\ \A n \in Nodes : runtime'[n].rev # rev' /\ ingress'[n].rev # rev'
  <2>1. rev' = rev + 1 /\ UNCHANGED <<runtime, ingress, net>>
    BY <1>2 DEF Numbered
  <2>2. \A x \in scene.masters : pub[x].rev \in Nat /\ pub[x].rev <= rev
    BY DEF RouteTypes, Publisher, RevInv
  <2>3. \A x \in scene.masters \ {m} : pub'[x].rev # rev'
    <3>1. \A x \in scene.masters \ {m} : pub'[x] = pub[x]
      BY <1>2, OwnPass DEF Passing
    <3> QED BY <1>1, <2>1, <2>2, <3>1
  <2>4. pub'[m].at = "snapshot" /\ pub'[m].rows = <<>> /\ pub'[m].apps = <<>>
    BY <1>2, Passes
  <2>5. \A msg \in net : msg.rev \in Nat /\ msg.rev <= rev
    BY DEF RouteTypes, RevInv
  <2>6. \A n \in Nodes : /\ runtime[n].rev \in Nat /\ runtime[n].rev <= rev
                         /\ ingress[n].rev \in Nat /\ ingress[n].rev <= rev
    BY DEF RouteTypes, RevInv
  <2>7. \A msg \in net' : msg.rev # rev'
    BY <1>1, <2>1, <2>5
  <2>8. \A n \in Nodes : runtime'[n].rev # rev' /\ ingress'[n].rev # rev'
    BY <1>1, <2>1, <2>6
  <2> QED BY <2>3, <2>4, <2>7, <2>8
<1>3. CASE \E m \in scene.masters : Numbered(m)
  BY <1>1, <1>2, <1>3 DEF RuntimeNodes, IngressNodes
<1>4. CASE ~\E m \in scene.masters : Numbered(m)
  <2>1. /\ ~Stale /\ rev' = rev /\ row' = row /\ app' = app
        /\ ~\E m \in scene.masters : Pumped(m) \/ Ended(m)
    BY <1>0, <1>1, <1>4, ToldBefore
  <2>2. \A m \in scene.masters : pub'[m].rev = rev =>
          /\ pub'[m].at = "snapshot" => pub'[m].rows \in {<<>>, row} /\ pub'[m].apps \in {<<>>, app}
          /\ pub'[m].at \in {"runtime", "ingress"} => pub'[m].rules = rulesOf(row, app)
    <3>0. \A m \in scene.masters : pub[m].rev = rev =>
            /\ pub[m].at = "snapshot" => pub[m].rows \in {<<>>, row} /\ pub[m].apps \in {<<>>, app}
            /\ pub[m].at \in {"runtime", "ingress"} => pub[m].rules = rulesOf(row, app)
      BY <2>1 DEF FreshInv
    <3>1. CASE pub' = pub
      BY <3>0, <3>1
    <3>2. ASSUME NEW m \in scene.masters, Read(m) \/ Pushed(m) \/ Settled(m), pub'[m].rev = rev
          PROVE  /\ pub'[m].at = "snapshot" => pub'[m].rows \in {<<>>, row} /\ pub'[m].apps \in {<<>>, app}
                 /\ pub'[m].at \in {"runtime", "ingress"} => pub'[m].rules = rulesOf(row, app)
      <4>1. CASE Read(m)
        <5>1. PICK r \in {pub[m].rows, row}, a \in {pub[m].apps, app} :
                \/ pub'[m].at = "snapshot" /\ pub'[m].rows = r /\ pub'[m].apps = a
                \/ pub'[m].at = "runtime" /\ r # <<>> /\ a # <<>> /\ pub'[m].rules = rulesOf(r, a)
          BY <4>1, Reads
        <5>2. pub[m].at = "snapshot" /\ pub[m].rev = rev
          BY <3>2, <4>1, Reads DEF Read
        <5>3. r \in {<<>>, row} /\ a \in {<<>>, app}
          BY <3>0, <5>1, <5>2
        <5>4. CASE pub'[m].at = "snapshot" /\ pub'[m].rows = r /\ pub'[m].apps = a
          BY <5>3, <5>4
        <5>5. CASE pub'[m].at = "runtime" /\ r # <<>> /\ a # <<>> /\ pub'[m].rules = rulesOf(r, a)
          <6>1. r = row /\ a = app
            BY <5>3, <5>5
          <6> QED BY <5>5, <6>1
        <5> QED BY <5>1, <5>4, <5>5
      <4>2. CASE Pushed(m)
        BY <3>0, <3>2, <4>2, Pushes
      <4>3. CASE Settled(m)
        BY <3>0, <3>2, <4>3, Passes
      <4> QED BY <3>2, <4>1, <4>2, <4>3
    <3>3. ASSUME NEW m \in scene.masters, Passing(m), NEW x \in scene.masters, pub'[x].rev = rev
          PROVE  /\ pub'[x].at = "snapshot" => pub'[x].rows \in {<<>>, row} /\ pub'[x].apps \in {<<>>, app}
                 /\ pub'[x].at \in {"runtime", "ingress"} => pub'[x].rules = rulesOf(row, app)
      <4>1. CASE x = m
        BY <1>4, <2>1, <3>2, <3>3, <4>1 DEF Passing
      <4>2. CASE x # m
        <5>1. pub'[x] = pub[x]
          BY <3>3, <4>2, OwnPass
        <5> QED BY <3>0, <3>3, <5>1
      <4> QED BY <4>1, <4>2
    <3>4. CASE \E m \in scene.masters : Passing(m)
      BY <3>3, <3>4
    <3> QED BY <3>1, <3>4 DEF Routes, Passing, Aside, Delivered, Rebooted
  <2> QED BY <1>1, <2>1, <2>2, FreshTables
<1> QED BY <1>3, <1>4

(* No node loses the newest table but by being started again.              *)
LEMMA GotKept ==
    ASSUME RouteTypes, RevInv, row \in RowDocs, Routes, rev' = rev, NEW n \in Nodes
    PROVE  /\ n \in HasRuntime => runtime'[n].rev = rev \/ floor'[n] = rev
           /\ n \in HasIngress => ingress'[n].rev = rev \/ floor'[n] = rev
<1>0. /\ rev \in Nat /\ runtime[n].rev \in Nat /\ ingress[n].rev \in Nat
      /\ \A m \in scene.masters : pub[m].rev <= rev /\ pub[m].rev \in Nat
      /\ \A msg \in net : msg.rev <= rev /\ msg.rev \in Nat
  BY DEF RouteTypes, Publisher, RevInv
<1>1. CASE TablesKept
  BY <1>1 DEF TablesKept, HasRuntime, HasIngress
<1>2. ASSUME NEW msg \in [kind : {"runtime", "ingress"}, to : Nodes, rev : Nat, rules : Rules],
             msg.rev <= rev, Landing(msg) \/ Leaving(msg)
      PROVE  /\ n \in HasRuntime => runtime'[n].rev = rev \/ floor'[n] = rev
             /\ n \in HasIngress => ingress'[n].rev = rev \/ floor'[n] = rev
  <2>1. CASE Landing(msg)
    <3>1. /\ floor' = floor
          /\ runtime'[n] = runtime[n] \/ msg.rev > runtime[n].rev
          /\ ingress'[n] = ingress[n] \/ msg.rev > ingress[n].rev
      BY <2>1, Lands DEF Landing
    <3>2. msg.rev \in Nat
      OBVIOUS
    <3>3. /\ runtime[n].rev = rev => runtime'[n] = runtime[n]
          /\ ingress[n].rev = rev => ingress'[n] = ingress[n]
      BY <1>0, <1>2, <3>1, <3>2
    <3> QED BY <3>1, <3>3 DEF HasRuntime, HasIngress
  <2>2. CASE Leaving(msg)
    BY <2>2 DEF Leaving, HasRuntime, HasIngress
  <2> QED BY <1>2, <2>1, <2>2
<1>3. CASE \E m \in scene.masters, k \in Nodes :
              /\ Message(pub[m], k) \in [kind : {"runtime", "ingress"}, to : Nodes, rev : Nat, rules : Rules]
              /\ Message(pub[m], k).rev = pub[m].rev
              /\ Landing(Message(pub[m], k)) \/ Leaving(Message(pub[m], k))
  BY <1>0, <1>2, <1>3
<1>4. CASE \E msg \in net : Landing(msg)
  BY <1>0, <1>2, <1>4 DEF RouteTypes
<1>5. ASSUME NEW k \in Nodes, Rebooted(k)
      PROVE  /\ n \in HasRuntime => runtime'[n].rev = rev \/ floor'[n] = rev
             /\ n \in HasIngress => ingress'[n].rev = rev \/ floor'[n] = rev
  <2>1. /\ runtime'[n] = IF n = k THEN NoRuntime ELSE runtime[n]
        /\ ingress'[n] = IF n = k THEN NoIngress ELSE ingress[n]
        /\ floor'[n] = IF n = k THEN rev ELSE floor[n]
    BY <1>5 DEF Rebooted, RouteTypes
  <2> QED BY <2>1 DEF HasRuntime, HasIngress
<1> QED BY <1>1, <1>3, <1>4, <1>5, TablesMove

(* A push that was answered has reached its node, one that failed is done  *)
(* again, and a pass that ends with a failure has another to follow it.    *)
LEMMA DoneStep ==
    ASSUME RouteTypes, RevInv, DoneInv, row \in RowDocs, Routes
    PROVE  DoneInv'
<1> DEFINE H  == HasRuntime
           I  == HasIngress
           Hp == {n \in Nodes : runtime'[n].rev = rev' \/ floor'[n] = rev'}
           Ip == {n \in Nodes : ingress'[n].rev = rev' \/ floor'[n] = rev'}
<1>0. scene' = scene
  BY DEF Routes, Aside, Delivered, Pumped, Numbered, Read, Pushed, Settled, Ended, Rebooted, Still
<1>1. SUFFICES ASSUME ~Told'
      PROVE  /\ \A m \in scene.masters : Done(pub'[m], rev', Hp, Ip)
             /\ (\A m \in scene.masters : ~Works(pub'[m], rev')) =>
                  RuntimeNodes \subseteq Hp /\ IngressNodes \subseteq Ip
  <2>1. HasRuntime' = Hp /\ HasIngress' = Ip
    BY DEF HasRuntime, HasIngress
  <2> QED BY <1>0, <2>1 DEF DoneInv
<1>2. rev \in Nat /\ \A m \in scene.masters : pub[m] \in Publisher /\ pub[m].rev <= rev /\ pub[m].rev \in Nat
  BY DEF RouteTypes, RevInv, Publisher
<1>3. CASE \E m \in scene.masters : Numbered(m)
  <2>1. PICK m \in scene.masters : Numbered(m)
    BY <1>3
  <2>2. rev' = rev + 1 /\ pub'[m].at = "snapshot" /\ pub'[m].rev = rev + 1
    BY <2>1, Passes DEF Numbered
  <2>3. \A x \in scene.masters \ {m} : pub'[x] = pub[x]
    BY <2>1, OwnPass DEF Passing
  <2>4. \A x \in scene.masters \ {m} : pub'[x].rev # rev'
    BY <1>2, <2>2, <2>3
  <2>5. \A x \in scene.masters : Done(pub'[x], rev', Hp, Ip)
    <3>1. Done(pub'[m], rev', Hp, Ip)
      BY <2>2 DEF Done
    <3>2. \A x \in scene.masters \ {m} : Done(pub'[x], rev', Hp, Ip)
      BY <2>4 DEF Done, Works
    <3> QED BY <3>1, <3>2
  <2>6. Works(pub'[m], rev')
    BY <2>2 DEF Works
  <2> QED BY <2>5, <2>6
<1>4. CASE ~\E m \in scene.masters : Numbered(m)
  <2>1. /\ ~Told /\ rev' = rev
        /\ ~\E m \in scene.masters : Pumped(m) \/ Ended(m)
    BY <1>1, <1>4, ToldBefore
  <2>2. /\ \A m \in scene.masters : Done(pub[m], rev, H, I)
        /\ (\A m \in scene.masters : ~Works(pub[m], rev)) =>
             RuntimeNodes \subseteq H /\ IngressNodes \subseteq I
    BY <2>1 DEF DoneInv
  <2>3. H \subseteq Hp /\ I \subseteq Ip
    BY <2>1, GotKept DEF HasRuntime, HasIngress
  <2>n. RuntimeNodes \subseteq Nodes /\ IngressNodes \subseteq Nodes
    BY DEF RuntimeNodes, IngressNodes
  <2> HIDE DEF H, I, Hp, Ip
  <2>4. CASE pub' = pub
    BY <2>1, <2>2, <2>3, <2>4 DEF Done
  <2>5. ASSUME NEW m \in scene.masters, Read(m) \/ Pushed(m) \/ Settled(m)
        PROVE  /\ Done(pub'[m], rev, Hp, Ip)
               /\ ~Works(pub'[m], rev) => ~Works(pub[m], rev) \/ (RuntimeNodes \subseteq Hp /\ IngressNodes \subseteq Ip)
    <3>0. Done(pub[m], rev, H, I)
      BY <2>2
    <3>1. CASE Read(m)
      <4>1. /\ pub'[m].rev = pub[m].rev
            /\ pub'[m].at = "snapshot" \/ (pub'[m].at = "runtime" /\ pub'[m].left = RuntimeNodes)
        BY <3>1, Reads
      <4> QED BY <4>1 DEF Done, Works
    <3>2. CASE Pushed(m)
      <4>1. /\ pub'[m].at = pub[m].at /\ pub'[m].rev = pub[m].rev
            /\ pub[m].at \in {"runtime", "ingress"}
        BY <3>2, Pushes DEF Pushed, RouteTypes
      <4>2. PICK n \in pub[m].left :
              /\ n \in Nodes /\ pub'[m].left = pub[m].left \ {n}
              /\ \/ receive(Message(pub[m], n)) /\ net' = net /\ pub'[m].failed = pub[m].failed
                 \/ pub'[m].failed = "yes"
        BY <3>2, Pushes
      <4>3. CASE pub'[m].failed = "yes"
        BY <4>1, <4>3 DEF Done, Works
      <4>4. CASE receive(Message(pub[m], n)) /\ pub'[m].failed = pub[m].failed
        <5>1. /\ Message(pub[m], n) \in [kind : {"runtime", "ingress"}, to : Nodes, rev : Nat, rules : Rules]
              /\ Message(pub[m], n).kind = pub[m].at /\ Message(pub[m], n).to = n
              /\ Message(pub[m], n).rev = pub[m].rev
          BY <3>2, <4>2, PushMessage
        <5>2. /\ pub[m].at = "runtime" => runtime'[n].rev >= pub[m].rev
              /\ pub[m].at = "ingress" => ingress'[n].rev >= pub[m].rev
          BY <4>4, <5>1, Lands
        <5>3. /\ runtime'[n].rev \in Nat /\ runtime'[n].rev <= rev
              /\ ingress'[n].rev \in Nat /\ ingress'[n].rev <= rev
          BY <2>1, <4>2, RevStep, TypesStep DEF RevInv, RouteTypes
        <5>4. pub[m].rev = rev => (pub[m].at = "runtime" => n \in Hp) /\ (pub[m].at = "ingress" => n \in Ip)
          BY <1>2, <2>1, <4>2, <5>2, <5>3 DEF Hp, Ip
        <5> QED BY <2>3, <3>0, <4>1, <4>2, <4>4, <5>4 DEF Done, Works
      <4> QED BY <4>2, <4>3, <4>4
    <3>3. CASE Settled(m)
      <4>1. pub[m].left = {} /\ pub[m].at \in {"runtime", "ingress"} /\ pub[m].failed \in {"no", "yes"} /\ dirty = {}
        BY <1>2, <2>1, <3>3 DEF Settled, Publisher, Told
      <4>2. CASE /\ pub[m].at = "runtime" /\ pub'[m].at = "ingress" /\ pub'[m].rev = pub[m].rev
                 /\ pub'[m].left = IngressNodes /\ pub'[m].failed = pub[m].failed
        BY <2>3, <3>0, <4>1, <4>2 DEF Done, Works
      <4>3. CASE /\ pub[m].at = "ingress" /\ pub'[m].at = "runtime" /\ pub'[m].rev = pub[m].rev
                 /\ pub'[m].left = RuntimeNodes
        BY <4>3 DEF Done, Works
      <4>4. CASE pub[m].at = "ingress" /\ pub'[m].at = "idle" /\ pub[m].failed # "yes"
        <5>1. Done(pub'[m], rev, Hp, Ip)
          BY <4>4 DEF Done
        <5>2. Works(pub[m], rev) => RuntimeNodes \subseteq H /\ IngressNodes \subseteq I
          BY <3>0, <4>1, <4>4 DEF Done, Works
        <5> QED BY <2>3, <5>1, <5>2
      <4> QED BY <3>3, <4>1, <4>2, <4>3, <4>4, Passes
    <3> QED BY <2>5, <3>1, <3>2, <3>3
  <2>6. ASSUME NEW m \in scene.masters, Passing(m)
        PROVE  /\ \A x \in scene.masters : Done(pub'[x], rev, Hp, Ip)
               /\ (\A x \in scene.masters : ~Works(pub'[x], rev)) =>
                    RuntimeNodes \subseteq Hp /\ IngressNodes \subseteq Ip
    <3>1. Read(m) \/ Pushed(m) \/ Settled(m)
      BY <1>4, <2>1, <2>6 DEF Passing
    <3>2. \A x \in scene.masters \ {m} : pub'[x] = pub[x]
      BY <2>6, OwnPass
    <3>3. \A x \in scene.masters \ {m} : Done(pub'[x], rev, Hp, Ip)
      BY <2>2, <2>3, <3>2 DEF Done
    <3>4. ASSUME \A x \in scene.masters : ~Works(pub'[x], rev)
          PROVE  RuntimeNodes \subseteq Hp /\ IngressNodes \subseteq Ip
      <4>1. \A x \in scene.masters \ {m} : ~Works(pub[x], rev)
        BY <3>2, <3>4
      <4>2. ~Works(pub[m], rev) \/ (RuntimeNodes \subseteq Hp /\ IngressNodes \subseteq Ip)
        BY <2>5, <3>1, <3>4
      <4> QED BY <2>2, <2>3, <4>1, <4>2
    <3> QED BY <2>5, <3>1, <3>3, <3>4
  <2>7. CASE \E m \in scene.masters : Passing(m)
    BY <2>1, <2>6, <2>7
  <2> QED BY <2>4, <2>7 DEF Routes, Passing, Aside, Delivered, Rebooted
<1> QED BY <1>3, <1>4

(* A rule that is not empty names a workspace.                             *)
LEMMA RuleOwner ==
    ASSUME NEW rows, NEW apps, NEW h \in Hosts, rulesOf(rows, apps)[h].st # "none"
    PROVE  rulesOf(rows, apps)[h].ws \in Workspaces
<1> DEFINE has(w)     == \E k \in Hosts : rows[k].ws = w /\ Listed(rows[k])
           owners(k)  == {w \in Workspaces : /\ apps[w] # "REMOVED"
                                             /\ \/ Listed(rows[k]) /\ rows[k].ws = w
                                                \/ Default[w] = k /\ ~has(w)}
           rule(k, w) == [ws |-> w, st |-> IF apps[w] # "RUNNING" \/ rows[k].st \in {"SUSPENDED", "WS_SUSPENDED"}
                                           THEN "closed" ELSE "open"]
<1>1. rulesOf(rows, apps)
        = [k \in Hosts |-> IF owners(k) = {} THEN NoRule ELSE rule(k, CHOOSE w \in owners(k) : TRUE)]
  BY DEF rulesOf
<1>2. \A w : rule(h, w).ws = w
  OBVIOUS
<1>3. owners(h) \subseteq Workspaces
  OBVIOUS
<1> HIDE DEF owners, rule
<1>4. owners(h) # {}
  <2>1. NoRule.st = "none"
    BY DEF NoRule
  <2> QED BY <1>1, <2>1
<1>5. (CHOOSE w \in owners(h) : TRUE) \in Workspaces
  BY <1>3, <1>4
<1>6. rulesOf(rows, apps)[h] = rule(h, CHOOSE w \in owners(h) : TRUE)
  BY <1>1, <1>4
<1> QED BY <1>2, <1>5, <1>6

(* The fleet is dark, or is served what the rows say.                      *)
LEMMA RouteInit ==
    ASSUME HostInit, TypeInv
    PROVE  RouteTypes /\ RevInv /\ FreshInv /\ DoneInv
<1>n. RuntimeNodes \subseteq Nodes /\ IngressNodes \subseteq Nodes
  BY DEF RuntimeNodes, IngressNodes
<1>i. /\ Idle \in Publisher /\ Idle.at = "idle" /\ Idle.rev = 0 /\ Idle.left = {}
  BY Tables DEF Idle
<1>1. /\ rev \in {0, 1} /\ net = {} /\ silent = "no" /\ app = [w \in Workspaces |-> "RUNNING"]
      /\ pub = [m \in scene.masters |-> Idle] /\ floor = [n \in Nodes |-> 0]
  BY DEF HostInit
<1>2. app \in AppDocs
  BY <1>1 DEF AppDocs
<1> DEFINE R == rulesOf(row, app)
<1>3. /\ runtime = [n \in Nodes |-> IF rev = 1 /\ n \in RuntimeNodes THEN RuntimeTable(n, 1, R) ELSE NoRuntime]
      /\ ingress = [n \in Nodes |-> IF rev = 1 /\ n \in IngressNodes THEN IngressTable(1, R) ELSE NoIngress]
  BY DEF HostInit
<1>4. R \in Rules
  BY Tables
<1> HIDE DEF R
<1>5. \A n \in Nodes :
        /\ RuntimeTable(n, 1, R) \in [rev : Nat, hosts : [Hosts -> Workspaces \union {"none"}]]
        /\ RuntimeTable(n, 1, R).rev = 1 /\ NoRuntime.rev = 0
        /\ NoRuntime \in [rev : Nat, hosts : [Hosts -> Workspaces \union {"none"}]]
        /\ IngressTable(1, R) \in [rev : Nat, rules : Rules, keys : SUBSET Nodes]
        /\ IngressTable(1, R).rev = 1 /\ NoIngress.rev = 0
        /\ NoIngress \in [rev : Nat, rules : Rules, keys : SUBSET Nodes]
  BY <1>4, Tables
<1>6. /\ runtime \in [Nodes -> [rev : Nat, hosts : [Hosts -> Workspaces \union {"none"}]]]
      /\ ingress \in [Nodes -> [rev : Nat, rules : Rules, keys : SUBSET Nodes]]
  <2> DEFINE rt(n) == IF rev = 1 /\ n \in RuntimeNodes THEN RuntimeTable(n, 1, R) ELSE NoRuntime
             ig(n) == IF rev = 1 /\ n \in IngressNodes THEN IngressTable(1, R) ELSE NoIngress
  <2>1. \A n \in Nodes : /\ rt(n) \in [rev : Nat, hosts : [Hosts -> Workspaces \union {"none"}]]
                         /\ ig(n) \in [rev : Nat, rules : Rules, keys : SUBSET Nodes]
    BY <1>5
  <2>2. runtime = [n \in Nodes |-> rt(n)] /\ ingress = [n \in Nodes |-> ig(n)]
    BY <1>3
  <2> HIDE DEF rt, ig
  <2> QED BY <2>1, <2>2
<1>7. RouteTypes
  BY <1>1, <1>2, <1>6, <1>i DEF RouteTypes
<1>8. \A n \in Nodes : /\ runtime[n] = IF rev = 1 /\ n \in RuntimeNodes THEN RuntimeTable(n, 1, R) ELSE NoRuntime
                       /\ ingress[n] = IF rev = 1 /\ n \in IngressNodes THEN IngressTable(1, R) ELSE NoIngress
  BY <1>3
<1>9. /\ \A n \in Nodes : runtime[n].rev \in {0, rev} /\ ingress[n].rev \in {0, rev}
      /\ \A n \in RuntimeNodes : runtime[n].rev = rev /\ (rev # 0 => runtime[n] = RuntimeTable(n, 1, R))
      /\ \A n \in IngressNodes : ingress[n].rev = rev /\ (rev # 0 => ingress[n] = IngressTable(1, R))
  <2>1. CASE rev = 1
    BY <1>n, <1>5, <1>8, <2>1
  <2>2. CASE rev = 0
    BY <1>n, <1>5, <1>8, <2>2
  <2> QED BY <1>1, <2>1, <2>2
<1>10. RevInv
  BY <1>1, <1>9, <1>i DEF RevInv
<1>11. FreshInv
  BY <1>1, <1>9, <1>i DEF FreshInv, R
<1>12. DoneInv
  <2>1. RuntimeNodes \subseteq HasRuntime /\ IngressNodes \subseteq HasIngress
    BY <1>n, <1>9 DEF HasRuntime, HasIngress
  <2>2. \A m \in scene.masters : Done(pub[m], rev, HasRuntime, HasIngress)
    BY <1>1, <1>i DEF Done, Works
  <2> QED BY <2>1, <2>2 DEF DoneInv
<1> QED BY <1>7, <1>10, <1>11, <1>12

(* Every node that has the newest table answers as the rows say.           *)
LEMMA AllAgree ==
    ASSUME \A w \in Workspaces : Place[w] \in IngressNodes, RouteInv,
           dirty = {}, \A m \in scene.masters : pub[m].at = "idle", ~Behind
    PROVE  Agreed
<1> DEFINE R == rulesOf(row, app)
<1>n. RuntimeNodes \subseteq Nodes /\ IngressNodes \subseteq Nodes
  BY DEF RuntimeNodes, IngressNodes
<1>1. ~Stale /\ silent = "no"
  BY DEF Behind, Stale, Told, RouteInv, RouteTypes
<1>2. RuntimeNodes \subseteq HasRuntime /\ IngressNodes \subseteq HasIngress
  BY <1>1 DEF RouteInv, DoneInv, Works, Stale
<1>3. /\ \A n \in RuntimeNodes : runtime[n].rev = rev
      /\ \A n \in IngressNodes : ingress[n].rev = rev
      /\ RuntimeNodes \union IngressNodes # {} => rev # 0
  <2>1. \A n \in Nodes : /\ runtime[n].rev \in Nat /\ ingress[n].rev \in Nat /\ floor[n] \in Nat /\ rev \in Nat
                         /\ runtime[n].rev <= rev /\ ingress[n].rev <= rev
    BY DEF RouteInv, RouteTypes, RevInv
  <2>2. /\ \A n \in RuntimeNodes : ~(runtime[n].rev <= floor[n])
        /\ \A n \in IngressNodes : ~(ingress[n].rev <= floor[n])
    BY <1>n DEF Behind
  <2>3. ASSUME NEW n \in RuntimeNodes PROVE runtime[n].rev = rev /\ rev # 0
    BY <1>n, <1>2, <2>1, <2>2 DEF HasRuntime
  <2>4. ASSUME NEW n \in IngressNodes PROVE ingress[n].rev = rev /\ rev # 0
    BY <1>n, <1>2, <2>1, <2>2 DEF HasIngress
  <2> QED BY <2>3, <2>4
<1>4. /\ \A n \in RuntimeNodes : runtime[n] = RuntimeTable(n, rev, R)
      /\ \A n \in IngressNodes : ingress[n] = IngressTable(rev, R)
  BY <1>1, <1>3 DEF RouteInv, FreshInv
<1>5. R \in Rules
  BY Tables
<1>6. ASSUME NEW i \in IngressNodes, NEW h \in Hosts PROVE forward(i, h) = Expected(h)
  <2>1. ingress[i].rules[h] = R[h]
    BY <1>4 DEF IngressTable
  <2>2. CASE R[h].st \in {"none", "closed"}
    BY <2>1, <2>2 DEF forward, Expected
  <2>3. CASE R[h].st \notin {"none", "closed"}
    <3>1. R[h].ws \in Workspaces
      BY <2>3, RuleOwner
    <3> DEFINE w == R[h].ws
               n == Place[w]
    <3>2. n \in RuntimeNodes /\ n \in IngressNodes
      BY <3>1, PlaceAssumption DEF PlaceAssumption
    <3>3. w # "none"
      BY <3>1, WorkspacesAssumption DEF WorkspacesAssumption
    <3>4. i \in ingress[n].keys
      BY <1>4, <3>2 DEF IngressTable, signingKeys
    <3>5. runtime[n].hosts[h] = w
      <4>1. runtime[n] = RuntimeTable(n, rev, R)
        BY <1>4, <3>2
      <4>2. RuntimeTable(n, rev, R).hosts[h] = IF w # "none" /\ Place[w] = n THEN w ELSE "none"
        BY DEF RuntimeTable
      <4> QED BY <3>3, <4>1, <4>2
    <3>6. forward(i, h) = runtimeListener(n, i, h)
      BY <2>1, <2>3 DEF forward
    <3>7. runtimeListener(n, i, h) = IF w \in McpV3 THEN w ELSE "502"
      BY <3>3, <3>4, <3>5 DEF runtimeListener, authenticated, findSigningKey, resolveTarget
    <3>8. Expected(h) = IF w \in McpV3 THEN w ELSE "502"
      BY <2>3 DEF Expected
    <3> QED BY <3>6, <3>7, <3>8
  <2> QED BY <2>2, <2>3
<1> QED BY <1>6 DEF Agreed

(* So it is always.                                                        *)
LEMMA RouteAlways == HostSpec => []RouteInv
<1>1. ASSUME HostInit, TypeInv PROVE RouteInv
  BY <1>1, RouteInit DEF RouteInv
<1>2. ASSUME TypeInv, RouteInv, [HostNext]_hostVars PROVE RouteInv'
  <2>1. row \in RowDocs
    BY <1>2 DEF TypeInv, RowInv, RowDocs
  <2>2. Routes
    BY <1>2, RouteMoves DEF RouteInv
  <2> QED BY <1>2, <2>1, <2>2, TypesStep, RevStep, FreshStep, DoneStep DEF RouteInv
<1>3. HostInit /\ TypeInv => RouteInv
  BY <1>1
<1>4. TypeInv /\ RouteInv /\ [HostNext]_hostVars => RouteInv'
  BY <1>2
<1> QED BY <1>3, <1>4, TypeCorrect, PTL DEF HostSpec

(* RequestsReachRows: when every master that was told is done and no node  *)
(* has lost its tables, every request ends where the rows say, whatever    *)
(* two masters, retries, late pushes and ends of processes did to the      *)
(* tables in between (HostTablePublisher, isNewer).  The nodes of the apps *)
(* are ingress nodes too: to the others no signing keys are sent, which    *)
(* the run with split roles shows.                                         *)
THEOREM RequestsReach ==
    ASSUME \A w \in Workspaces : Place[w] \in IngressNodes
    PROVE  HostSpec => []RequestsReachRows
<1>1. RouteInv => RequestsReachRows
  BY AllAgree DEF RequestsReachRows
<1> QED BY <1>1, RouteAlways, PTL

(* What has been spent is counted.                                         *)
SpentInv == spent \in [changes : Nat, faults : Nat]

(* A fault that was spent stays spent.                                     *)
LEMMA SpentStep ==
    ASSUME SpentInv, [HostNext]_hostVars
    PROVE  SpentInv' /\ spent'.faults >= spent.faults
<1>1. Change \/ Fault \/ spent' = spent
  <2>1. CASE UNCHANGED hostVars
    BY <2>1 DEF hostVars, registryVars
  <2>2. CASE rowsChange
    <3>1. Calls => Change
      BY DEF Calls, reserve, setDesiredHosts, removeAllAppHosts, setWorkspaceHostsSuspended
    <3>2. Writes => spent' = spent
      BY DEF Writes, nextHost, holdLabel, insertRow, retireRest, markRest, markAppHosts, sweep, sweepDone
    <3>3. \A h, n : unanswered(h, n) => Fault \/ spent' = spent
      BY DEF unanswered
    <3>4. Work => Fault \/ spent' = spent
      BY <3>3 DEF Work, runOnce, findExisting, postHostname, recordHostname, deleteHostname, forgetRow, answered
    <3>5. Retention => Change \/ Fault \/ spent' = spent
      BY <3>3 DEF Retention, releaseSuspendedCfHostnames, releaseHostname, recordReleased, answered
    <3> QED BY <2>2, <3>1, <3>2, <3>3, <3>4, <3>5 DEF rowsChange
  <2>3. ASSUME NEW m, restart(m) PROVE Fault
    BY <2>3 DEF restart, crash
  <2>4. ASSUME NEW m, tick(m) \/ pump(m) \/ nextRevision(m) \/ buildSnapshot(m) \/ pushSettled(m) PROVE spent' = spent
    BY <2>4 DEF tick, pump, nextRevision, buildSnapshot, pushSettled, registryVars
  <2>5. ASSUME NEW m, pushTable(m) PROVE Fault \/ spent' = spent
    BY <2>5 DEF pushTable
  <2>6. ASSUME NEW m, NEW w, NEW st, setAppState(m, w, st) PROVE Change
    BY <2>6 DEF setAppState
  <2>7. deliverLate => spent' = spent
    BY DEF deliverLate, registryVars
  <2>8. ASSUME NEW n, nodeRestart(n) PROVE Fault
    BY <2>8 DEF nodeRestart
  <2> QED BY <2>1, <2>2, <2>3, <2>4, <2>5, <2>6, <2>7, <2>8 DEF HostNext, Publish
<1>2. CASE Change
  BY <1>2 DEF Change, SpentInv
<1>3. CASE Fault
  BY <1>3 DEF Fault, SpentInv
<1>4. CASE spent' = spent
  BY <1>4 DEF SpentInv
<1> QED BY <1>1, <1>2, <1>3, <1>4

(* One master and no fault: what it has pushed to the runtime nodes they   *)
(* have, and before it pushes they are behind.                             *)
Alone == Cardinality(scene.masters) = 1 /\ spent.faults = 0
Before(p) ==
    /\ p.failed = "no"
    /\ p.at = "snapshot" => \A n \in Nodes : runtime[n].rev < p.rev
    /\ p.at = "runtime" => /\ \A n \in p.left : runtime[n].rev < p.rev
                           /\ \A n \in RuntimeNodes \ p.left : runtime[n] = RuntimeTable(n, p.rev, p.rules)
    /\ p.at = "ingress" => \A n \in RuntimeNodes : runtime[n] = RuntimeTable(n, p.rev, p.rules)
AloneInv == Alone => net = {} /\ \A m \in scene.masters : Before(pub[m])

(* There is no other master, then.                                         *)
LEMMA OneMaster ==
    ASSUME TypeInv, Cardinality(scene.masters) = 1, NEW m \in scene.masters, NEW x \in scene.masters
    PROVE  m = x
<1>1. scene.masters \subseteq {"m1", "m2"}
  BY DEF TypeInv, Scene, Masters
<1>2. IsFiniteSet({"m1", "m2"})
  <2>1. IsFiniteSet({} \union {"m1"})
    <3>1. IsFiniteSet({})
      BY FS_EmptySet
    <3> QED BY <3>1, FS_AddElement
  <2>2. IsFiniteSet(({} \union {"m1"}) \union {"m2"})
    BY <2>1, FS_AddElement
  <2>3. ({} \union {"m1"}) \union {"m2"} = {"m1", "m2"}
    OBVIOUS
  <2> QED BY <2>2, <2>3
<1>3. IsFiniteSet(scene.masters)
  BY <1>1, <1>2, FS_Subset
<1>4. \E y : scene.masters = {y}
  BY <1>3, FS_Singleton
<1> QED BY <1>4

(* Nobody else pushes, so a node stays behind until its turn comes.        *)
LEMMA AloneStep ==
    ASSUME TypeInv, RouteTypes, RevInv, SpentInv, AloneInv, [HostNext]_hostVars
    PROVE  AloneInv'
<1> SUFFICES ASSUME Alone' PROVE net' = {} /\ \A m \in scene'.masters : Before(pub[m])'
  BY DEF AloneInv
<1>0. Routes /\ row \in RowDocs /\ RuntimeNodes \subseteq Nodes
  BY RouteMoves DEF TypeInv, RowInv, RowDocs, RuntimeNodes
<1>1. scene' = scene
  BY <1>0 DEF Routes, Aside, Delivered, Pumped, Numbered, Read, Pushed, Settled, Ended, Rebooted, Still
<1>2. ~Fault /\ spent.faults = 0
  <2>1. spent'.faults >= spent.faults /\ spent.faults \in Nat /\ spent'.faults = 0
    BY SpentStep DEF Alone, SpentInv
  <2> QED BY <2>1 DEF Fault, SpentInv
<1>3. net = {} /\ \A m \in scene.masters : Before(pub[m])
  BY <1>1, <1>2 DEF AloneInv, Alone
<1>4. CASE Aside
  BY <1>1, <1>3, <1>4 DEF Aside, Before
<1>5. ~Delivered /\ ~\E n \in Nodes : Rebooted(n)
  BY <1>2, <1>3 DEF Delivered, Rebooted
<1>6. ASSUME NEW m \in scene.masters, Passing(m)
      PROVE  net' = {} /\ \A x \in scene'.masters : Before(pub[x])'
  <2> DEFINE p == pub[m]
             q == pub'[m]
  <2>0. p \in Publisher /\ rev \in Nat /\ \A n \in Nodes : runtime[n].rev \in Nat /\ runtime[n].rev <= rev
    BY DEF RouteTypes, RevInv
  <2>b. Before(p)
    BY <1>3
  <2>1. net' = {} /\ /\ q.failed = "no"
                     /\ q.at = "snapshot" => \A n \in Nodes : runtime'[n].rev < q.rev
                     /\ q.at = "runtime" => /\ \A n \in q.left : runtime'[n].rev < q.rev
                                            /\ \A n \in RuntimeNodes \ q.left : runtime'[n] = RuntimeTable(n, q.rev, q.rules)
                     /\ q.at = "ingress" => \A n \in RuntimeNodes : runtime'[n] = RuntimeTable(n, q.rev, q.rules)
    <3>1. CASE Pumped(m)
      <4>1. q.at = "revision" /\ q.failed = "no" /\ net' = net
        BY <3>1, Passes DEF Pumped
      <4> QED BY <1>3, <4>1
    <3>2. CASE Numbered(m)
      <4>1. q.at = "snapshot" /\ q.failed = p.failed /\ q.rev = rev + 1 /\ UNCHANGED <<net, runtime>>
        BY <3>2, Passes DEF Numbered
      <4>2. \A n \in Nodes : runtime'[n].rev < q.rev
        BY <2>0, <4>1
      <4> QED BY <1>3, <2>b, <4>1, <4>2 DEF Before
    <3>3. CASE Read(m)
      <4>1. /\ p.at = "snapshot" /\ q.failed = p.failed /\ q.rev = p.rev /\ UNCHANGED <<net, runtime>>
            /\ q.at = "snapshot" \/ (q.at = "runtime" /\ q.left = RuntimeNodes)
        BY <1>0, <3>3, Reads DEF Read
      <4> QED BY <1>0, <1>3, <2>b, <4>1 DEF Before
    <3>4. CASE Pushed(m)
      <4>1. /\ q.at = p.at /\ q.rev = p.rev /\ q.rules = p.rules /\ p.at \in {"runtime", "ingress"}
        BY <3>4, Pushes DEF Pushed, RouteTypes
      <4>2. PICK n \in p.left : /\ n \in Nodes /\ q.left = p.left \ {n}
                                /\ receive(Message(p, n)) /\ net' = net /\ q.failed = p.failed
        BY <1>2, <3>4, Pushes
      <4>3. /\ Message(p, n) \in [kind : {"runtime", "ingress"}, to : Nodes, rev : Nat, rules : Rules]
            /\ Message(p, n).kind = p.at /\ Message(p, n).to = n
            /\ Message(p, n).rev = p.rev /\ Message(p, n).rules = p.rules
        BY <3>4, <4>2, PushMessage
      <4>4. /\ runtime' = runtime \/ (p.at = "runtime" /\ runtime' = [runtime EXCEPT ![n] = RuntimeTable(n, p.rev, p.rules)])
            /\ p.at = "runtime" => runtime'[n].rev >= p.rev
        BY <4>2, <4>3, Receives
      <4> DEFINE t == RuntimeTable(n, p.rev, p.rules)
      <4>5. \A x \in Nodes \ {n} : runtime'[x] = runtime[x]
        BY <4>4 DEF RouteTypes
      <4>6. CASE p.at = "ingress"
        BY <1>3, <2>b, <4>1, <4>2, <4>4, <4>6 DEF Before
      <4>7. CASE p.at = "runtime"
        <5>1. runtime[n].rev < p.rev /\ p.rev \in Nat
          BY <2>0, <2>b, <4>2, <4>7 DEF Before, Publisher
        <5>2. runtime' # runtime
          BY <2>0, <4>2, <4>4, <4>7, <5>1
        <5>3. runtime'[n] = t
          BY <4>2, <4>4, <5>2 DEF RouteTypes
        <5> HIDE DEF t
        <5>4. \A x \in q.left : runtime'[x].rev < q.rev
          BY <2>0, <2>b, <4>1, <4>2, <4>5, <4>7 DEF Before, Publisher
        <5>5. \A x \in RuntimeNodes \ q.left : x = n \/ (x # n /\ x \in RuntimeNodes \ p.left)
          BY <4>2
        <5>6. \A x \in RuntimeNodes \ q.left : runtime'[x] = RuntimeTable(x, q.rev, q.rules)
          <6>1. ASSUME NEW x \in RuntimeNodes \ q.left, x # n PROVE runtime'[x] = RuntimeTable(x, q.rev, q.rules)
            BY <1>0, <2>b, <4>1, <4>5, <4>7, <5>5, <6>1 DEF Before
          <6>2. runtime'[n] = RuntimeTable(n, q.rev, q.rules)
            BY <4>1, <5>3 DEF t
          <6> QED BY <6>1, <6>2
        <5> QED BY <1>3, <2>b, <4>1, <4>2, <4>7, <5>4, <5>6 DEF Before
      <4> QED BY <4>1, <4>6, <4>7
    <3>5. CASE Settled(m)
      <4>1. p.left = {} /\ UNCHANGED <<net, runtime>> /\ p.failed = "no"
        BY <2>b, <3>5 DEF Settled, Before
      <4>2. \/ /\ p.at = "runtime" /\ q.at = "ingress" /\ q.rev = p.rev /\ q.rules = p.rules /\ q.failed = p.failed
            \/ q.at = "idle" /\ q.failed = "no"
        BY <3>5, <4>1, Passes
      <4> QED BY <1>3, <2>b, <4>1, <4>2 DEF Before
    <3>6. CASE Ended(m)
      <4>1. q = Idle /\ net' = net
        BY <3>6 DEF Ended, RouteTypes
      <4> QED BY <1>3, <4>1, Passes
    <3> QED BY <1>6, <3>1, <3>2, <3>3, <3>4, <3>5, <3>6 DEF Passing
  <2>2. \A x \in scene.masters : x = m
    BY <1>1, OneMaster DEF Alone
  <2> QED BY <1>1, <2>1, <2>2 DEF Before
<1> QED BY <1>0, <1>4, <1>5, <1>6 DEF Routes, Passing

(* RuntimeFirst: with one master and no push that failed, an ingress node  *)
(* learns of a route after the runtime node behind it (pushSnapshot).      *)
THEOREM RuntimeComesFirst == HostSpec => RuntimeFirst
<1> DEFINE I == TypeInv /\ RouteInv /\ SpentInv /\ AloneInv
           A == \A i \in IngressNodes, h \in Hosts :
                  LET new == ingress'[i].rules[h]
                  IN  /\ Cardinality(scene.masters) = 1 /\ spent.faults = 0
                      /\ new.ws \notin {"none", ingress[i].rules[h].ws}
                      => runtime[Place[new.ws]].hosts[h] = new.ws
<1>1. HostInit /\ RouteInv => SpentInv /\ AloneInv
  <2> SUFFICES ASSUME HostInit, RouteInv PROVE SpentInv /\ AloneInv
    OBVIOUS
  <2>1. Init
    BY DEF HostInit
  <2>2. spent = [changes |-> 0, faults |-> 0]
    BY <2>1 DEF Init
  <2>3. net = {} /\ pub = [m \in scene.masters |-> Idle]
    BY DEF HostInit
  <2>4. Idle.failed = "no" /\ Idle.at = "idle"
    BY DEF Idle
  <2> QED BY <2>2, <2>3, <2>4 DEF SpentInv, AloneInv, Before
<1>2. TypeInv /\ RouteInv /\ SpentInv /\ AloneInv /\ [HostNext]_hostVars => SpentInv' /\ AloneInv'
  BY SpentStep, AloneStep DEF RouteInv
<1>3. I /\ [HostNext]_hostVars => [A]_hostVars
  <2> SUFFICES ASSUME I, [HostNext]_hostVars, NEW i \in IngressNodes, NEW h \in Hosts,
                      Cardinality(scene.masters) = 1, spent.faults = 0,
                      ingress'[i].rules[h].ws \notin {"none", ingress[i].rules[h].ws}
               PROVE  runtime[Place[ingress'[i].rules[h].ws]].hosts[h] = ingress'[i].rules[h].ws
    OBVIOUS
  <2>0. RouteTypes /\ Routes /\ row \in RowDocs /\ i \in Nodes
    BY RouteMoves DEF RouteInv, TypeInv, RowInv, RowDocs, IngressNodes
  <2>1. net = {} /\ \A m \in scene.masters : Before(pub[m])
    BY DEF AloneInv, Alone
  <2>2. ingress'[i] # ingress[i]
    OBVIOUS
  <2>3. ~\E n \in Nodes : Rebooted(n)
    <3> SUFFICES ASSUME NEW n \in Nodes, Rebooted(n) PROVE FALSE
      OBVIOUS
    <3>1. ingress'[i] = NoIngress
      BY <2>0, <2>2 DEF Rebooted, RouteTypes
    <3>2. NoIngress.rules[h].ws = "none"
      BY DEF NoIngress, NoRules, NoRule
    <3> QED BY <3>1, <3>2
  <2>4. PICK m \in scene.masters : Pushed(m)
    <3>1. ~TablesKept /\ ~Delivered
      BY <2>1, <2>2 DEF TablesKept, Delivered
    <3> QED BY <2>0, <2>3, <3>1, TablesMove
  <2> DEFINE p == pub[m]
  <2>5. PICK n \in p.left : n \in Nodes /\ receive(Message(p, n))
    BY <2>0, <2>2, <2>4, Pushes
  <2>6. /\ Message(p, n) \in [kind : {"runtime", "ingress"}, to : Nodes, rev : Nat, rules : Rules]
        /\ Message(p, n).kind = p.at /\ Message(p, n).to = n
        /\ Message(p, n).rev = p.rev /\ Message(p, n).rules = p.rules
    BY <2>0, <2>4, <2>5, PushMessage
  <2>7. p.at = "ingress" /\ ingress' = [ingress EXCEPT ![n] = IngressTable(p.rev, p.rules)]
    BY <2>0, <2>2, <2>5, <2>6, Receives
  <2>8. ingress'[i] = IngressTable(p.rev, p.rules)
    BY <2>0, <2>2, <2>7 DEF RouteTypes
  <2>9. ingress'[i].rules[h] = p.rules[h]
    BY <2>8 DEF IngressTable
  <2> DEFINE w == p.rules[h].ws
  <2>10. w \in Workspaces
    BY <2>0, <2>6, <2>9 DEF Rules
  <2>11. Place[w] \in RuntimeNodes
    BY <2>10, PlaceAssumption DEF PlaceAssumption
  <2>12. runtime[Place[w]] = RuntimeTable(Place[w], p.rev, p.rules)
    BY <2>1, <2>7, <2>11 DEF Before
  <2>13. RuntimeTable(Place[w], p.rev, p.rules).hosts[h] = w
    BY <2>9 DEF RuntimeTable
  <2> QED BY <2>9, <2>12, <2>13
<1>4. RuntimeFirst <=> [][A]_hostVars
  BY DEF RuntimeFirst
<1> QED BY <1>1, <1>2, <1>3, <1>4, TypeCorrect, RouteAlways, PTL DEF HostSpec
=============================================================================
