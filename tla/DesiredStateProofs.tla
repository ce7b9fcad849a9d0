------------------------- MODULE DesiredStateProofs -------------------------
(* Proofs about DesiredState, for every set of containers and handlers, any *)
(* number of boots and crashes, and with or without file and Docker faults. *)
EXTENDS DesiredState, TLAPS

Live == [kind : Kind, c : Containers, pc : OpPc]

\* A handler that serves a request holds a whole request record.
LEMMA ServesType ==
    ASSUME TypeOK, NEW h \in Handlers, op[h].kind # "none"
    PROVE  op[h] \in Live /\ op[h].c \in Containers /\ op[h].pc \in OpPc
BY DEF TypeOK, Request, Idle, Live

\* Moving to the next call of a request keeps the table of requests well typed.
LEMMA ThenType ==
    ASSUME TypeOK, NEW h \in Handlers, op[h].kind # "none", NEW pc \in OpPc, Then(h, pc)
    PROVE  op' \in [Handlers -> Request] /\ acked' = acked
BY ServesType DEF TypeOK, Request, Live, Then

\* Answering a request keeps the table of requests and the history well typed.
LEMMA FinishType ==
    ASSUME TypeOK, NEW h \in Handlers, op[h].kind # "none",
           NEW s \in {"none", "stopped", "running"}, Finish(h, s)
    PROVE  /\ op' \in [Handlers -> Request]
           /\ acked' \in [Containers -> {"none", "stopped", "running"}]
BY ServesType DEF Finish, TypeOK, Request

\* Every step keeps every variable in its state space.
LEMMA TypeStep == TypeOK /\ [Next]_vars => TypeOK'
<1> SUFFICES ASSUME TypeOK, [Next]_vars PROVE TypeOK'
  OBVIOUS
<1> USE ConstantsAssumption
<1>1. CASE UNCHANGED vars
  BY <1>1 DEF TypeOK, vars, storeVars, hostVars, recoverVars, monVars, opVars
<1>2. CASE AgentCrash
  BY <1>2 DEF TypeOK, AgentCrash, ProcessLost, storeVars, RecoverPc,
     WorkerPc, MonPc, Request, Idle, Running
<1>3. CASE HostReboot
  BY <1>3 DEF TypeOK, HostReboot, ProcessLost, storeVars, RecoverPc, WorkerPc,
     MonPc, Request, Idle, DockerState
<1>4. CASE AgentStart
  BY <1>4 DEF TypeOK, AgentStart, storeVars, monVars, opVars, RecoverPc
<1>5. CASE RecoverMain
  <2>1. CASE RecoverRead
    BY <2>1 DEF TypeOK, RecoverRead, storeVars, hostVars, monVars, opVars, RecoverPc
  <2>2. CASE RecoverList
    BY <2>2 DEF TypeOK, RecoverList, storeVars, hostVars, monVars, opVars, RecoverPc, Running
  <2>3. CASE RecoverPoolDone
    BY <2>3 DEF TypeOK, RecoverPoolDone, storeVars, hostVars, monVars, opVars, RecoverPc
  <2>4. CASE RecoverStamp
    BY <2>4 DEF TypeOK, RecoverStamp, seedAndStamp, storeVars, hostVars, monVars,
       opVars, RecoverPc, Desired
  <2> QED
    BY <1>5, <2>1, <2>2, <2>3, <2>4 DEF RecoverMain
<1>6. ASSUME NEW c \in Containers, RecoverOne(c) PROVE TypeOK'
  <2> USE DEF TypeOK, storeVars, hostVars, monVars, opVars, WorkerPc, Goto, Outcome
  <2>1. CASE RecoverTake(c)
    BY <2>1 DEF RecoverTake
  <2>2. CASE RecoverGet(c)
    BY <2>2 DEF RecoverGet
  <2>3. CASE RecoverInspect(c)
    BY <2>3 DEF RecoverInspect
  <2>4. CASE RecoverDrop(c)
    BY <2>4 DEF RecoverDrop, mark, Desired
  <2>5. CASE RecoverStart(c)
    BY <2>5 DEF RecoverStart, DockerStart, DockerState
  <2>6. CASE RecoverCheck(c)
    BY <2>6 DEF RecoverCheck
  <2>7. CASE RecoverStop(c)
    BY <2>7 DEF RecoverStop, DockerStop, DockerState, Running
  <2> QED
    BY <1>6, <2>1, <2>2, <2>3, <2>4, <2>5, <2>6, <2>7 DEF RecoverOne
<1>7. ASSUME NEW c \in Containers, ContainerDies(c) PROVE TypeOK'
  BY <1>7 DEF TypeOK, ContainerDies, storeVars, hostVars, recoverVars, monVars, opVars, DockerState
<1>8. ASSUME NEW h \in Handlers, OpStep(h) PROVE TypeOK'
  <2> op[h].kind # "none"
    BY <1>8 DEF OpStep, OpCreate, OpMarkCreated, OpBind, OpStart, OpRestart, OpMarkRunning,
       OpMarkStopped, OpStop, OpRemove, OpUnmark, OpUnbind, Serves
  <2> DEFINE c == op[h].c
  <2> c \in Containers
    BY ServesType
  <2>a. \A pc \in OpPc : Then(h, pc) => op' \in [Handlers -> Request] /\ acked' = acked
    BY ThenType
  <2>b. \A s \in {"none", "stopped", "running"} : Finish(h, s) =>
           op' \in [Handlers -> Request] /\ acked' \in [Containers -> {"none", "stopped", "running"}]
    BY FinishType
  <2>c. Refused(h) => op' \in [Handlers -> Request]
                      /\ acked' \in [Containers -> {"none", "stopped", "running"}]
    BY <2>a, <2>b DEF Refused, OpPc, TypeOK
  <2> HIDE DEF c
  <2> USE DEF storeVars, hostVars, recoverVars, monVars
  <2>1. CASE OpCreate(h)
    BY <2>1, <2>a, <2>b DEF TypeOK, OpCreate, OpPc, DockerState, c
  <2>2. CASE OpMarkCreated(h)
    BY <2>2, <2>a DEF TypeOK, OpMarkCreated, mark, OpPc, Desired, c
  <2>3. CASE OpBind(h)
    BY <2>3, <2>a DEF TypeOK, OpBind, OpPc, c
  <2>4. CASE OpStart(h)
    BY <2>4, <2>a, <2>c DEF TypeOK, OpStart, DockerStart, OpPc, DockerState, c
  <2>5. CASE OpRestart(h)
    BY <2>5, <2>a, <2>c DEF TypeOK, OpRestart, DockerStart, OpPc, DockerState, c
  <2>6. CASE OpMarkRunning(h)
    BY <2>6, <2>a, <2>b DEF TypeOK, OpMarkRunning, mark, OpPc, Desired, c
  <2>7. CASE OpMarkStopped(h)
    BY <2>7, <2>a DEF TypeOK, OpMarkStopped, mark, OpPc, Desired, c
  <2>8. CASE OpStop(h)
    BY <2>8, <2>a, <2>b DEF TypeOK, OpStop, DockerStop, OpPc, DockerState, Running, c
  <2>9. CASE OpRemove(h)
    BY <2>9, <2>a DEF TypeOK, OpRemove, OpPc, DockerState, c
  <2>10. CASE OpUnmark(h)
    BY <2>10, <2>a DEF TypeOK, OpUnmark, mark, OpPc, Desired, c
  <2>11. CASE OpUnbind(h)
    BY <2>11, <2>b DEF TypeOK, OpUnbind, c
  <2> QED
    BY <1>8, <2>1, <2>2, <2>3, <2>4, <2>5, <2>6, <2>7, <2>8, <2>9, <2>10, <2>11 DEF OpStep
<1>9. ASSUME NEW h \in Handlers, NEW k \in Kind, NEW c \in Containers, Begin(h, k, c)
      PROVE  TypeOK'
  <2>1. [kind |-> k, c |-> c, pc |-> FirstCall[k]] \in Live
    BY DEF Live, FirstCall, Kind, OpPc
  <2> QED
    BY <1>9, <2>1 DEF TypeOK, Begin, Request, Live, storeVars, hostVars,
       recoverVars, monVars
<1>10. CASE Monitor
  <2>1. CASE MonTick
    BY <2>1 DEF TypeOK, MonTick, MonPc, storeVars, hostVars, recoverVars, opVars
  <2>2. ASSUME NEW c \in Containers, MonRestart(c) PROVE TypeOK'
    BY <2>2 DEF TypeOK, MonRestart, MonPc, DockerStart, DockerState, storeVars,
       hostVars, recoverVars, opVars
  <2>3. ASSUME NEW c \in Containers, NEW healthy \in BOOLEAN, MonProbe(c, healthy) PROVE TypeOK'
    BY <2>3 DEF TypeOK, MonProbe, MonPc, storeVars, hostVars, recoverVars, opVars
  <2> QED
    BY <1>10, <2>1, <2>2, <2>3 DEF Monitor
<1> QED
  BY <1>1, <1>2, <1>3, <1>4, <1>5, <1>6, <1>7, <1>8, <1>9, <1>10 DEF Next

\* Every variable of the agent, the record file and the Docker daemon stays in
\* its state space in every behaviour.
THEOREM TypeCorrect == Spec => []TypeOK
<1>1. Init => TypeOK
  BY ConstantsAssumption DEF Init, TypeOK, DockerState, Desired, RecoverPc, WorkerPc, MonPc,
     Request, Idle
<1> QED
  BY <1>1, TypeStep, PTL DEF Spec
-----------------------------------------------------------------------------

\* Workers exist only while runPool runs, and none works on a queued candidate.
PoolInv ==
    /\ agent = "down" => rpc = "off"
    /\ \A c \in Containers : wk[c] # "idle" => rpc = "pool" /\ c \notin queue

\* Every step keeps PoolInv.
LEMMA PoolStep == TypeOK /\ PoolInv /\ [Next]_vars => PoolInv'
<1> SUFFICES ASSUME TypeOK, PoolInv, [Next]_vars PROVE PoolInv'
  OBVIOUS
<1>1. CASE AgentCrash \/ HostReboot
  BY <1>1 DEF PoolInv, AgentCrash, HostReboot, ProcessLost
<1>2. CASE AgentStart
  BY <1>2 DEF AgentStart, PoolInv
<1>3. CASE RecoverMain
  BY <1>3 DEF PoolInv, RecoverMain, RecoverRead, RecoverList, RecoverPoolDone, RecoverStamp,
     Workers, hostVars
<1>4. ASSUME NEW c \in Containers, RecoverOne(c) PROVE PoolInv'
  <2> USE DEF PoolInv, TypeOK, Goto, Outcome, hostVars
  <2>1. CASE RecoverTake(c)
    BY <2>1 DEF RecoverTake
  <2>2. CASE RecoverGet(c)
    BY <2>2 DEF RecoverGet
  <2>3. CASE RecoverInspect(c)
    BY <2>3 DEF RecoverInspect
  <2>4. CASE RecoverDrop(c)
    BY <2>4 DEF RecoverDrop
  <2>5. CASE RecoverStart(c)
    BY <2>5 DEF RecoverStart
  <2>6. CASE RecoverCheck(c)
    BY <2>6 DEF RecoverCheck
  <2>7. CASE RecoverStop(c)
    BY <2>7 DEF RecoverStop
  <2> QED
    BY <1>4, <2>1, <2>2, <2>3, <2>4, <2>5, <2>6, <2>7 DEF RecoverOne
<1>5. CASE UNCHANGED <<recoverVars, agent>>
  BY <1>5 DEF PoolInv, recoverVars
<1>6. ASSUME NEW h \in Handlers, OpStep(h) PROVE UNCHANGED <<recoverVars, agent>>
  BY <1>6 DEF OpStep, OpCreate, OpMarkCreated, OpBind, OpStart, OpRestart, OpMarkRunning,
     OpMarkStopped, OpStop, OpRemove, OpUnmark, OpUnbind, hostVars
<1>7. ASSUME Monitor \/ UNCHANGED vars \/ (\E c \in Containers : ContainerDies(c))
             \/ (\E h \in Handlers, k \in Kind, c \in Containers : Begin(h, k, c))
      PROVE  UNCHANGED <<recoverVars, agent>>
  BY <1>7 DEF Monitor, MonTick, MonRestart, MonProbe, ContainerDies, Begin, vars, hostVars
<1> QED
  BY <1>1, <1>2, <1>3, <1>4, <1>5, <1>6, <1>7 DEF Next

\* PoolInv holds in every reachable state.
LEMMA PoolCorrect == Spec => []PoolInv
<1>1. Init => PoolInv
  BY DEF Init, PoolInv
<1> QED
  BY <1>1, TypeCorrect, PoolStep, PTL DEF Spec

\* Every step keeps StopHonoured: it is inductive by itself, because each call
\* that lets a container run against its record leaves a call behind that ends it
\* or is one of the reasons kept in excused.
LEMMA StopHonouredStep ==
    TypeOK /\ PoolInv /\ StopHonoured /\ [Next]_vars => StopHonoured'
<1> SUFFICES ASSUME TypeOK, PoolInv, StopHonoured, [Next]_vars,
                    NEW d \in Containers, docker'[d] = "running", rec'[d] = "stopped"
             PROVE  Pending(d)' \/ d \in excused'
  BY DEF StopHonoured, Running
<1> USE ConstantsAssumption
<1>0. docker[d] = "running" /\ rec[d] = "stopped" => Pending(d) \/ d \in excused
  BY DEF StopHonoured, Running
<1>1. CASE UNCHANGED vars
  BY <1>0, <1>1 DEF Pending, vars, storeVars, recoverVars, opVars
<1>2. CASE AgentCrash
  BY <1>2 DEF AgentCrash, storeVars, Running
<1>3. CASE HostReboot
  BY <1>3 DEF HostReboot, TypeOK
<1>4. CASE AgentStart
  BY <1>0, <1>4 DEF AgentStart, Pending, storeVars, opVars
<1>5. CASE RecoverMain
  <2>1. docker' = docker /\ wk' = wk /\ op' = op /\ excused' = excused
    BY <1>5 DEF RecoverMain, RecoverRead, RecoverList, RecoverPoolDone, RecoverStamp, opVars
  <2>2. rec[d] = "stopped"
    BY <1>5 DEF RecoverMain, RecoverRead, RecoverList, RecoverPoolDone, RecoverStamp,
       seedAndStamp, storeVars, TypeOK
  <2> QED
    BY <1>0, <2>1, <2>2 DEF Pending
<1>6. ASSUME NEW c \in Containers, RecoverOne(c) PROVE Pending(d)' \/ d \in excused'
  <2> USE DEF TypeOK, Pending, storeVars, opVars, Goto, Outcome
  <2>1. CASE RecoverTake(c)
    BY <1>0, <2>1 DEF RecoverTake, PoolInv
  <2>2. CASE RecoverGet(c)
    BY <1>0, <2>2 DEF RecoverGet
  <2>3. CASE RecoverInspect(c)
    BY <1>0, <2>3 DEF RecoverInspect
  <2>4. CASE RecoverDrop(c)
    BY <1>0, <2>4 DEF RecoverDrop, mark
  <2>5. CASE RecoverStart(c)
    BY <1>0, <2>5 DEF RecoverStart, DockerStart
  <2>6. CASE RecoverCheck(c)
    BY <1>0, <2>6 DEF RecoverCheck
  <2>7. CASE RecoverStop(c)
    BY <1>0, <2>7 DEF RecoverStop, DockerStop, Running
  <2> QED
    BY <1>6, <2>1, <2>2, <2>3, <2>4, <2>5, <2>6, <2>7 DEF RecoverOne
<1>7. ASSUME NEW c \in Containers, ContainerDies(c) PROVE Pending(d)' \/ d \in excused'
  BY <1>0, <1>7 DEF ContainerDies, TypeOK, Pending, storeVars, recoverVars, opVars
<1>8. ASSUME NEW h \in Handlers, OpStep(h) PROVE Pending(d)' \/ d \in excused'
  <2>k. op[h].kind # "none"
    BY <1>8 DEF OpStep, OpCreate, OpMarkCreated, OpBind, OpStart, OpRestart, OpMarkRunning,
       OpMarkStopped, OpStop, OpRemove, OpUnmark, OpUnbind, Serves
  <2>t. op[h].c \in Containers /\ op \in [Handlers -> Request]
    BY <2>k, ServesType DEF TypeOK
  <2>w. wk' = wk
    BY <1>8 DEF OpStep, OpCreate, OpMarkCreated, OpBind, OpStart, OpRestart, OpMarkRunning,
       OpMarkStopped, OpStop, OpRemove, OpUnmark, OpUnbind, recoverVars
  <2>m. ASSUME \/ \E pc \in OpPc : Then(h, pc)
               \/ \E s \in {"none", "stopped", "running"} : Finish(h, s),
               Pending(d), ~(op[h].c = d /\ op[h].pc \in {"dstop", "markRunning"})
        PROVE  Pending(d)'
    BY <2>m, <2>w, <2>t DEF Pending, Then, Finish
  <2>p. ASSUME NEW pc \in {"dstop", "markRunning"}, Then(h, pc), op[h].c = d PROVE Pending(d)'
    BY <2>p, <2>t, <2>k DEF Pending, Then
  <2> USE DEF OpPc, Serves, storeVars
  <2>1. CASE OpCreate(h)
    BY <1>0, <2>1, <2>m, <2>t DEF OpCreate, TypeOK
  <2>2. CASE OpMarkCreated(h)
    BY <1>0, <2>2, <2>m, <2>t DEF OpMarkCreated, mark, TypeOK
  <2>3. CASE OpBind(h)
    BY <1>0, <2>3, <2>m, <2>t DEF OpBind, TypeOK
  <2>4. CASE OpStart(h)
    BY <1>0, <2>4, <2>m, <2>p, <2>t DEF OpStart, Refused, DockerStart, TypeOK
  <2>5. CASE OpRestart(h)
    BY <1>0, <2>5, <2>m, <2>p, <2>t DEF OpRestart, Refused, DockerStart, TypeOK
  <2>6. CASE OpMarkRunning(h)
    BY <1>0, <2>6, <2>m, <2>t DEF OpMarkRunning, mark, TypeOK
  <2>7. CASE OpMarkStopped(h)
    BY <1>0, <2>7, <2>m, <2>p, <2>t DEF OpMarkStopped, mark, TypeOK
  <2>8. CASE OpStop(h)
    BY <1>0, <2>8, <2>m, <2>t DEF OpStop, DockerStop, Running, TypeOK
  <2>9. CASE OpRemove(h)
    BY <1>0, <2>9, <2>m, <2>t DEF OpRemove, TypeOK
  <2>10. CASE OpUnmark(h)
    BY <1>0, <2>10, <2>m, <2>t DEF OpUnmark, mark, TypeOK
  <2>11. CASE OpUnbind(h)
    BY <1>0, <2>11, <2>m, <2>t DEF OpUnbind, TypeOK
  <2> QED
    BY <1>8, <2>1, <2>2, <2>3, <2>4, <2>5, <2>6, <2>7, <2>8, <2>9, <2>10, <2>11 DEF OpStep
<1>9. ASSUME NEW h \in Handlers, NEW k \in Kind, NEW c \in Containers, Begin(h, k, c)
      PROVE  Pending(d)' \/ d \in excused'
  BY <1>0, <1>9 DEF Begin, TypeOK, Pending, storeVars, recoverVars
<1>10. CASE Monitor
  <2>1. op' = op /\ wk' = wk /\ rec' = rec
    BY <1>10 DEF Monitor, MonTick, MonRestart, MonProbe, opVars, recoverVars, storeVars
  <2>2. CASE MonTick
    BY <1>0, <2>1, <2>2 DEF MonTick, Pending
  <2>3. ASSUME NEW c \in Containers, MonRestart(c) PROVE Pending(d)' \/ d \in excused'
    BY <1>0, <2>1, <2>3 DEF MonRestart, DockerStart, Pending, TypeOK
  <2>4. ASSUME NEW c \in Containers, NEW healthy \in BOOLEAN, MonProbe(c, healthy)
        PROVE  Pending(d)' \/ d \in excused'
    BY <1>0, <2>1, <2>4 DEF MonProbe, Pending
  <2> QED
    BY <1>10, <2>2, <2>3, <2>4 DEF Monitor
<1> QED
  BY <1>1, <1>2, <1>3, <1>4, <1>5, <1>6, <1>7, <1>8, <1>9, <1>10 DEF Next

\* No interleaving of requests, recovery, health checks, crashes and reboots lets a
\* container run against a `stopped` record unless a call that ends this is still
\* in flight or one of the reasons in excused applies.
THEOREM StopIsHonoured == Spec => []StopHonoured
<1>1. Init => StopHonoured
  BY DEF Init, StopHonoured, Running
<1> QED
  BY <1>1, TypeCorrect, PoolCorrect, StopHonouredStep, PTL DEF Spec
-----------------------------------------------------------------------------

\* Where each container that recovery owes a start is to be found: still recorded
\* running, and from the snapshot on among the candidates or with a worker; nothing
\* is owed once the pool has drained.  A request past its first mark settled it.
HandledInv ==
    /\ fileBoot <= boot
    /\ owed # {} => fileBoot # 0 /\ fileBoot # boot
    /\ \A c \in owed : rec[c] = "running"
    /\ rpc = "list" => owed \subseteq queue
    /\ rpc = "pool" => \A c \in owed : c \in queue \/ wk[c] # "idle"
    /\ rpc \in {"stamp", "done"} => owed = {}
    /\ \A h \in Handlers :
         op[h].kind # "none" /\ op[h].pc \in {"dstop", "dremove", "unmark", "unbind"}
             => op[h].c \notin owed

\* Every step keeps HandledInv when the record file can be read and written.
LEMMA HandledStep ==
    ASSUME StoreFaults = FALSE, TypeOK, PoolInv, HandledInv, [Next]_vars
    PROVE  HandledInv'
<1> USE ConstantsAssumption
<1>1. CASE UNCHANGED vars
  BY <1>1 DEF HandledInv, vars, storeVars, hostVars, recoverVars, opVars
<1>2. CASE AgentCrash
  BY <1>2 DEF HandledInv, AgentCrash, ProcessLost, storeVars, Idle
<1>3. CASE HostReboot
  BY <1>3 DEF HandledInv, HostReboot, ProcessLost, storeVars, Idle, TypeOK
<1>4. CASE AgentStart
  BY <1>4 DEF HandledInv, AgentStart, storeVars, opVars
<1>5. CASE RecoverMain
  <2>1. CASE RecoverRead
    BY <2>1 DEF HandledInv, RecoverRead, storeVars, hostVars, opVars, TypeOK
  <2>2. CASE RecoverList
    BY <2>2 DEF HandledInv, RecoverList, storeVars, hostVars, opVars, TypeOK
  <2>3. CASE RecoverPoolDone
    BY <2>3 DEF HandledInv, RecoverPoolDone, Workers, storeVars, hostVars, opVars, TypeOK
  <2>4. CASE RecoverStamp
    BY <2>4 DEF HandledInv, RecoverStamp, seedAndStamp, storeVars, hostVars, opVars, TypeOK
  <2> QED
    BY <1>5, <2>1, <2>2, <2>3, <2>4 DEF RecoverMain
<1>6. ASSUME NEW c \in Containers, RecoverOne(c) PROVE HandledInv'
  <2> USE DEF HandledInv, PoolInv, TypeOK, Goto, Outcome, storeVars, hostVars, opVars
  <2>1. CASE RecoverTake(c)
    BY <2>1 DEF RecoverTake
  <2>2. CASE RecoverGet(c)
    BY <2>2 DEF RecoverGet
  <2>3. CASE RecoverInspect(c)
    BY <2>3 DEF RecoverInspect
  <2>4. CASE RecoverDrop(c)
    BY <2>4 DEF RecoverDrop, mark
  <2>5. CASE RecoverStart(c)
    BY <2>5 DEF RecoverStart
  <2>6. CASE RecoverCheck(c)
    BY <2>6 DEF RecoverCheck
  <2>7. CASE RecoverStop(c)
    BY <2>7 DEF RecoverStop
  <2> QED
    BY <1>6, <2>1, <2>2, <2>3, <2>4, <2>5, <2>6, <2>7 DEF RecoverOne
<1>7. ASSUME NEW c \in Containers, ContainerDies(c) PROVE HandledInv'
  BY <1>7 DEF HandledInv, ContainerDies, storeVars, hostVars, recoverVars, opVars
<1>8. ASSUME NEW h \in Handlers, OpStep(h) PROVE HandledInv'
  <2>k. op[h].kind # "none"
    BY <1>8 DEF OpStep, OpCreate, OpMarkCreated, OpBind, OpStart, OpRestart, OpMarkRunning,
       OpMarkStopped, OpStop, OpRemove, OpUnmark, OpUnbind, Serves
  <2>t. op[h].c \in Containers
    BY <2>k, ServesType
  <2> USE DEF HandledInv, Serves, Then, Finish, Idle, storeVars, hostVars, recoverVars
  <2>1. CASE OpCreate(h)
    BY <2>1, <2>t DEF OpCreate, TypeOK
  <2>2. CASE OpMarkCreated(h)
    BY <2>2, <2>t DEF OpMarkCreated, mark, TypeOK
  <2>3. CASE OpBind(h)
    BY <2>3, <2>t DEF OpBind, TypeOK
  <2>4. CASE OpStart(h)
    BY <2>4, <2>t DEF OpStart, Refused, TypeOK
  <2>5. CASE OpRestart(h)
    BY <2>5, <2>t DEF OpRestart, Refused, TypeOK
  <2>6. CASE OpMarkRunning(h)
    BY <2>6, <2>t DEF OpMarkRunning, mark, TypeOK
  <2>7. CASE OpMarkStopped(h)
    BY <2>7, <2>t DEF OpMarkStopped, mark, TypeOK
  <2>8. CASE OpStop(h)
    BY <2>8, <2>t, <2>k DEF OpStop, TypeOK
  <2>9. CASE OpRemove(h)
    BY <2>9, <2>t, <2>k DEF OpRemove, TypeOK
  <2>10. CASE OpUnmark(h)
    BY <2>10, <2>t, <2>k DEF OpUnmark, mark, TypeOK
  <2>11. CASE OpUnbind(h)
    BY <2>11, <2>t DEF OpUnbind, TypeOK
  <2> QED
    BY <1>8, <2>1, <2>2, <2>3, <2>4, <2>5, <2>6, <2>7, <2>8, <2>9, <2>10, <2>11 DEF OpStep
<1>9. ASSUME NEW h \in Handlers, NEW k \in Kind, NEW c \in Containers, Begin(h, k, c)
      PROVE  HandledInv'
  <2>1. FirstCall[k] \notin {"dstop", "dremove", "unmark", "unbind"}
    BY DEF FirstCall, Kind
  <2> QED
    BY <1>9, <2>1 DEF HandledInv, Begin, TypeOK, storeVars, hostVars, recoverVars
<1>10. CASE Monitor
  BY <1>10 DEF HandledInv, Monitor, MonTick, MonRestart, MonProbe, storeVars, hostVars,
     recoverVars, opVars
<1> QED
  BY <1>1, <1>2, <1>3, <1>4, <1>5, <1>6, <1>7, <1>8, <1>9, <1>10 DEF Next

\* With a usable record file, the current boot is stamped only after every
\* container recorded running at the reboot was handled, so an agent that dies
\* half-way finds the old boot id and tries again.
THEOREM StampComesLast ==
    ASSUME StoreFaults = FALSE
    PROVE  Spec => []StampedMeansHandled
<1>1. Init => HandledInv
  BY ConstantsAssumption DEF Init, HandledInv, Idle
<1>2. HandledInv => StampedMeansHandled
  BY DEF HandledInv, StampedMeansHandled
<1>3. TypeOK /\ PoolInv /\ HandledInv /\ [Next]_vars => HandledInv'
  BY HandledStep
<1> QED
  BY <1>1, <1>2, <1>3, TypeCorrect, PoolCorrect, PTL DEF Spec
-----------------------------------------------------------------------------
(* What one step of a request does, and where a container's life can stand. *)

\* A call of a request touches its own container and its own request only.
LEMMA OpFrame ==
    ASSUME TypeOK, NEW h \in Handlers, OpStep(h)
    PROVE  /\ op[h].kind # "none" /\ op[h].c \in Containers
           /\ \A g \in Handlers \ {h} : op'[g] = op[g]
           /\ op'[h].kind # "none" => op'[h].kind = op[h].kind /\ op'[h].c = op[h].c
           /\ \A d \in Containers \ {op[h].c} :
                /\ docker'[d] = docker[d] /\ rec'[d] = rec[d] /\ acked'[d] = acked[d]
                /\ d \in excused' <=> d \in excused
           /\ wk' = wk /\ rpc' = rpc /\ seen' = seen
<1>1. op[h].kind # "none"
  BY DEF OpStep, OpCreate, OpMarkCreated, OpBind, OpStart, OpRestart, OpMarkRunning,
     OpMarkStopped, OpStop, OpRemove, OpUnmark, OpUnbind, Serves
<1>2. op[h].c \in Containers
  BY <1>1, ServesType
<1>3. (\E pc \in OpPc : Then(h, pc)) \/ (\E s \in {"none", "stopped", "running"} : Finish(h, s))
  BY DEF OpStep, OpCreate, OpMarkCreated, OpBind, OpStart, OpRestart, OpMarkRunning,
     OpMarkStopped, OpStop, OpRemove, OpUnmark, OpUnbind, Refused, OpPc
<1>4. /\ \A g \in Handlers \ {h} : op'[g] = op[g]
      /\ op'[h].kind # "none" => op'[h].kind = op[h].kind /\ op'[h].c = op[h].c
      /\ \A d \in Containers \ {op[h].c} : acked'[d] = acked[d]
  BY <1>3 DEF Then, Finish, TypeOK, Idle
<1>5. wk' = wk /\ rpc' = rpc /\ seen' = seen
  BY DEF OpStep, OpCreate, OpMarkCreated, OpBind, OpStart, OpRestart, OpMarkRunning,
     OpMarkStopped, OpStop, OpRemove, OpUnmark, OpUnbind, recoverVars
<1>6. \A d \in Containers \ {op[h].c} : docker'[d] = docker[d] /\ rec'[d] = rec[d]
  BY DEF OpStep, OpCreate, OpMarkCreated, OpBind, OpStart, OpRestart, OpMarkRunning,
     OpMarkStopped, OpStop, OpRemove, OpUnmark, OpUnbind, storeVars, mark, DockerStart,
     DockerStop, TypeOK
<1>7. \A d \in Containers \ {op[h].c} : d \in excused' <=> d \in excused
  BY DEF OpStep, OpCreate, OpMarkCreated, OpBind, OpStart, OpRestart, OpMarkRunning,
     OpMarkStopped, OpStop, OpRemove, OpUnmark, OpUnbind
<1> QED
  BY <1>1, <1>2, <1>4, <1>5, <1>6, <1>7

\* A step of recovery touches one container.
LEMMA RecoverFrame ==
    ASSUME TypeOK, NEW c \in Containers, RecoverOne(c)
    PROVE  /\ \A d \in Containers \ {c} :
                /\ docker'[d] = docker[d] /\ rec'[d] = rec[d] /\ wk'[d] = wk[d]
                /\ d \in excused' <=> d \in excused
           /\ op' = op /\ acked' = acked /\ rpc' = rpc /\ seen' = seen
<1>1. \A d \in Containers \ {c} : docker'[d] = docker[d] /\ rec'[d] = rec[d]
  BY DEF RecoverOne, RecoverTake, RecoverGet, RecoverInspect, RecoverDrop, RecoverStart,
     RecoverCheck, RecoverStop, storeVars, mark, DockerStart, DockerStop, TypeOK
<1>2. \A d \in Containers \ {c} : wk'[d] = wk[d] /\ (d \in excused' <=> d \in excused)
  BY DEF RecoverOne, RecoverTake, RecoverGet, RecoverInspect, RecoverDrop, RecoverStart,
     RecoverCheck, RecoverStop, Goto, Outcome, TypeOK
<1>3. op' = op /\ acked' = acked /\ rpc' = rpc /\ seen' = seen
  BY DEF RecoverOne, RecoverTake, RecoverGet, RecoverInspect, RecoverDrop, RecoverStart,
     RecoverCheck, RecoverStop, opVars
<1> QED
  BY <1>1, <1>2, <1>3

\* Docker ids are not used again: a container being created has no other request, and
\* its record is erased only when it is gone.
LifeInv ==
    /\ \A h \in Handlers : Serves(h, "create") =>
         /\ docker[op[h].c] = "none"
         /\ \A g \in Handlers \ {h} : op[g].kind # "none" => op[g].c # op[h].c
    /\ \A h \in Handlers : Serves(h, "unmark") => docker[op[h].c] = "gone"
    /\ \A c \in Containers : wk[c] = "drop" => docker[c] = "gone"

\* A container that is gone, or not there yet, stays so but for its creation.
LEMMA GoneStays ==
    ASSUME TypeOK, LifeInv, [Next]_vars, NEW c \in Containers
    PROVE  /\ docker[c] = "gone" => docker'[c] = "gone"
           /\ docker[c] = "none" =>
                \/ docker'[c] = "none"
                \/ \E h \in Handlers : OpStep(h) /\ op[h].kind # "none" /\ op[h].c = c
<1> USE DEF TypeOK, Exists
<1>1. CASE UNCHANGED docker
  BY <1>1
<1>2. CASE HostReboot \/ \E d \in Containers : ContainerDies(d)
  BY <1>2 DEF HostReboot, ContainerDies
<1>3. ASSUME NEW d \in Containers, RecoverOne(d) PROVE docker[c] \in {"none", "gone"} => docker'[c] = docker[c]
  BY <1>3 DEF RecoverOne, RecoverTake, RecoverGet, RecoverInspect, RecoverDrop, RecoverStart,
     RecoverCheck, RecoverStop, DockerStart, DockerStop
<1>4. ASSUME NEW h \in Handlers, OpStep(h) PROVE docker[c] = "gone" => docker'[c] = "gone"
  <2>1. op[h].kind # "none" /\ op[h].c \in Containers
    BY <1>4, OpFrame
  <2>2. Serves(h, "create") => docker[op[h].c] = "none"
    BY DEF LifeInv
  <2> QED
    BY <1>4, <2>1, <2>2 DEF OpStep, OpCreate, OpMarkCreated, OpBind, OpStart, OpRestart,
       OpMarkRunning, OpMarkStopped, OpStop, OpRemove, OpUnmark, OpUnbind, DockerStart, DockerStop
<1>5. ASSUME NEW h \in Handlers, OpStep(h), op[h].c # c PROVE docker'[c] = docker[c]
  BY <1>5, OpFrame
<1>6. ASSUME NEW h \in Handlers, OpStep(h) PROVE op[h].kind # "none"
  BY <1>6, OpFrame
<1>7. ASSUME Monitor PROVE docker[c] \in {"none", "gone"} => docker'[c] = docker[c]
  BY <1>7 DEF Monitor, MonTick, MonRestart, MonProbe, DockerStart
<1>8. AgentCrash \/ AgentStart \/ RecoverMain \/ UNCHANGED vars
        \/ (\E h \in Handlers, k \in Kind, d \in Containers : Begin(h, k, d)) => UNCHANGED docker
  BY DEF AgentCrash, AgentStart, RecoverMain, RecoverRead, RecoverList, RecoverPoolDone,
     RecoverStamp, vars, Begin
<1> QED
  BY <1>1, <1>2, <1>3, <1>4, <1>5, <1>6, <1>7, <1>8 DEF Next

\* Every step keeps LifeInv.
LEMMA LifeStep == TypeOK /\ LifeInv /\ [Next]_vars => LifeInv'
<1> SUFFICES ASSUME TypeOK, LifeInv, [Next]_vars PROVE LifeInv'
  OBVIOUS
<1> USE DEF Serves
<1>0. \A c \in Containers : docker[c] = "gone" => docker'[c] = "gone"
  BY GoneStays
<1>1. ASSUME op' = op, \A c \in Containers : wk'[c] = "drop" => wk[c] = "drop" \/ docker[c] = "gone"
      PROVE  LifeInv'
  <2>1. \A h \in Handlers : ~OpStep(h) \/ op'[h].kind = "none" \/ op[h].pc # "create" \/ op'[h] # op[h]
    BY <1>1 DEF OpStep, OpCreate, OpMarkCreated, OpBind, OpStart, OpRestart, OpMarkRunning,
       OpMarkStopped, OpStop, OpRemove, OpUnmark, OpUnbind, Serves, Then, Finish, TypeOK, Idle
  <2>2. ASSUME NEW h \in Handlers, op[h].kind # "none", op[h].pc = "create"
        PROVE  docker'[op[h].c] = "none"
    <3>1. op[h].c \in Containers /\ docker[op[h].c] = "none"
      BY <2>2, ServesType DEF LifeInv
    <3>2. \A g \in Handlers : op[g].kind # "none" /\ op[g].c = op[h].c => g = h
      BY <2>2 DEF LifeInv
    <3>3. ~OpStep(h)
      BY <1>1, <2>1, <2>2
    <3> QED
      BY <3>1, <3>2, <3>3, GoneStays
  <2>3. \A h \in Handlers : op[h].kind # "none" => op[h].c \in Containers
    BY ServesType
  <2> QED
    BY <1>0, <1>1, <2>2, <2>3 DEF LifeInv
<1>2. CASE AgentCrash \/ HostReboot
  BY <1>2 DEF AgentCrash, HostReboot, ProcessLost, LifeInv, Idle
<1>3. CASE AgentStart \/ RecoverMain \/ Monitor \/ UNCHANGED vars \/ \E c \in Containers : ContainerDies(c)
  <2>1. op' = op /\ wk' = wk
    BY <1>3 DEF AgentStart, RecoverMain, RecoverRead, RecoverList, RecoverPoolDone, RecoverStamp,
       Monitor, MonTick, MonRestart, MonProbe, vars, ContainerDies, opVars, recoverVars
  <2> QED
    BY <1>1, <2>1
<1>4. ASSUME NEW c \in Containers, RecoverOne(c) PROVE LifeInv'
  <2>1. wk'[c] = "drop" => wk[c] = "drop" \/ docker[c] = "gone"
    BY <1>4 DEF RecoverOne, RecoverTake, RecoverGet, RecoverInspect, RecoverDrop, RecoverStart,
       RecoverCheck, RecoverStop, Goto, Outcome, TypeOK
  <2> QED
    BY <1>1, <1>4, <2>1, RecoverFrame
<1>5. ASSUME NEW h \in Handlers, OpStep(h) PROVE LifeInv'
  <2>1. /\ op[h].kind # "none" /\ op[h].c \in Containers
        /\ \A g \in Handlers \ {h} : op'[g] = op[g]
        /\ op'[h].kind # "none" => op'[h].c = op[h].c
        /\ \A d \in Containers \ {op[h].c} : docker'[d] = docker[d]
        /\ wk' = wk
    BY <1>5, OpFrame
  <2>2. op'[h].kind # "none" => op'[h].pc # "create"
    BY <1>5 DEF OpStep, OpCreate, OpMarkCreated, OpBind, OpStart, OpRestart, OpMarkRunning,
       OpMarkStopped, OpStop, OpRemove, OpUnmark, OpUnbind, Then, Finish, Refused, Idle, TypeOK
  <2>3. op'[h].kind # "none" /\ op'[h].pc = "unmark" => docker'[op[h].c] = "gone"
    BY <1>5, <2>1 DEF OpStep, OpCreate, OpMarkCreated, OpBind, OpStart, OpRestart, OpMarkRunning,
       OpMarkStopped, OpStop, OpRemove, OpUnmark, OpUnbind, Then, Finish, Refused, Idle, TypeOK
  <2>4. \A g \in Handlers : op[g].kind # "none" => op[g].c \in Containers
    BY ServesType
  <2>5. ASSUME NEW g \in Handlers, op'[g].kind # "none", op'[g].pc = "create"
        PROVE  /\ docker'[op'[g].c] = "none"
               /\ \A f \in Handlers \ {g} : op'[f].kind # "none" => op'[f].c # op'[g].c
    <3>1. g # h /\ op'[g] = op[g]
      BY <2>1, <2>2, <2>5
    <3>2. /\ docker[op[g].c] = "none"
          /\ \A f \in Handlers \ {g} : op[f].kind # "none" => op[f].c # op[g].c
      BY <2>5, <3>1 DEF LifeInv
    <3>3. op[g].c \in Containers /\ op[g].c # op[h].c
      BY <2>1, <2>4, <2>5, <3>1, <3>2
    <3> QED
      BY <2>1, <3>1, <3>2, <3>3
  <2>6. ASSUME NEW g \in Handlers, op'[g].kind # "none", op'[g].pc = "unmark"
        PROVE  docker'[op'[g].c] = "gone"
    <3>1. CASE g = h
      BY <2>1, <2>3, <2>6, <3>1
    <3>2. CASE g # h
      BY <1>0, <2>1, <2>4, <2>6, <3>2 DEF LifeInv
    <3> QED
      BY <3>1, <3>2
  <2>7. \A c \in Containers : wk'[c] = "drop" => docker'[c] = "gone"
    BY <1>0, <2>1 DEF LifeInv
  <2> QED
    BY <2>5, <2>6, <2>7 DEF LifeInv
<1>6. ASSUME NEW h \in Handlers, NEW k \in Kind, NEW c \in Containers, Begin(h, k, c)
      PROVE  LifeInv'
  <2>1. /\ docker' = docker /\ wk' = wk /\ op[h].kind = "none"
        /\ op' = [op EXCEPT ![h] = [kind |-> k, c |-> c, pc |-> FirstCall[k]]]
    BY <1>6 DEF Begin, recoverVars
  <2>2. /\ op'[h] = [kind |-> k, c |-> c, pc |-> FirstCall[k]]
        /\ \A g \in Handlers \ {h} : op'[g] = op[g]
    BY <2>1 DEF TypeOK
  <2>3. FirstCall[k] # "unmark" /\ (FirstCall[k] = "create" => k = "deploy")
    BY DEF FirstCall, Kind
  <2>4. /\ k = "deploy" => docker[c] = "none" /\ \A g \in Handlers : op[g].kind # "none" => op[g].c # c
        /\ k # "deploy" => docker[c] # "none"
    BY <1>6 DEF Begin, Busy, Exists
  <2> QED
    BY <2>1, <2>2, <2>3, <2>4 DEF LifeInv
<1> QED
  BY <1>2, <1>3, <1>4, <1>5, <1>6 DEF Next

\* LifeInv holds in every reachable state.
LEMMA LifeCorrect == Spec => []LifeInv
<1>1. Init => LifeInv
  BY DEF Init, LifeInv, Serves, Idle
<1> QED
  BY <1>1, TypeCorrect, LifeStep, PTL DEF Spec
-----------------------------------------------------------------------------

\* A request that will write an entry for c before it ends.
Marks(c) == \E h \in Handlers : /\ op[h].kind # "none" /\ op[h].c = c
                                /\ op[h].pc \in {"markCreated", "markRunning"}

\* From recovery's list on, a running container has an entry, or seeding or a request
\* writes one; recovery starts only what has one.
EntryInv ==
    /\ \A c \in Containers : wk[c] \in WorkerPc \ {"idle", "get"} => rec[c] # "none" \/ docker[c] = "gone"
    /\ \A c \in Running :
         rec[c] = "none" /\ c \notin excused /\ rpc \in {"pool", "stamp", "done"}
           => Marks(c) \/ (rpc # "done" /\ c \in seen)

\* Every step keeps EntryInv when the record file can be read and written.
LEMMA EntryStep ==
    ASSUME StoreFaults = FALSE, TypeOK, PoolInv, LifeInv, EntryInv, [Next]_vars
    PROVE  EntryInv'
<1> USE ConstantsAssumption
<1> DEFINE Found(c) == wk[c] \in WorkerPc \ {"idle", "get"} => rec[c] # "none" \/ docker[c] = "gone"
           Entered(c) == docker[c] = "running" /\ rec[c] = "none" /\ c \notin excused
                            /\ rpc \in {"pool", "stamp", "done"}
                         => Marks(c) \/ (rpc # "done" /\ c \in seen)
<1>0. /\ \A c \in Containers : Found(c) /\ Entered(c)
      /\ (\A c \in Containers : Found(c)' /\ Entered(c)') => EntryInv'
  BY DEF EntryInv, Running
<1>g. \A c \in Containers : docker[c] = "gone" => docker'[c] = "gone"
  BY GoneStays
<1> SUFFICES ASSUME NEW c \in Containers PROVE Found(c)' /\ Entered(c)'
  BY <1>0
<1>f. Found(c) /\ Entered(c)
  BY <1>0
<1> USE DEF Marks
<1>1. CASE UNCHANGED vars
  BY <1>1, <1>f DEF vars, storeVars, recoverVars, opVars
<1>2. CASE AgentCrash \/ HostReboot
  BY <1>2 DEF AgentCrash, HostReboot, ProcessLost
<1>3. CASE AgentStart
  BY <1>3, <1>f DEF AgentStart, storeVars, opVars
<1>4. CASE RecoverMain
  <2>0. docker' = docker /\ wk' = wk /\ op' = op /\ excused' = excused
    BY <1>4 DEF RecoverMain, RecoverRead, RecoverList, RecoverPoolDone, RecoverStamp, opVars
  <2>1. CASE RecoverRead
    BY <1>f, <2>0, <2>1 DEF RecoverRead, storeVars
  <2>2. CASE RecoverList
    BY <1>f, <2>0, <2>2 DEF RecoverList, storeVars, Running
  <2>3. CASE RecoverPoolDone
    BY <1>f, <2>0, <2>3 DEF RecoverPoolDone, storeVars
  <2>4. CASE RecoverStamp
    <3>1. /\ rpc = "stamp" /\ seen' = seen
          /\ rec'[c] = IF c \in seen /\ rec[c] = "none" THEN "running" ELSE rec[c]
      BY <2>4 DEF RecoverStamp, seedAndStamp
    <3> QED
      BY <1>f, <2>0, <3>1
  <2> QED
    BY <1>4, <2>1, <2>2, <2>3, <2>4 DEF RecoverMain
<1>5. ASSUME NEW d \in Containers, RecoverOne(d) PROVE Found(c)' /\ Entered(c)'
  <2>0. /\ d # c => docker'[c] = docker[c] /\ rec'[c] = rec[c] /\ wk'[c] = wk[c]
                     /\ (c \in excused' <=> c \in excused)
        /\ op' = op /\ rpc' = rpc /\ seen' = seen
    BY <1>5, RecoverFrame
  <2>1. CASE d # c
    BY <1>f, <2>0, <2>1
  <2>2. CASE d = c
    <3> USE DEF Goto, Outcome, TypeOK, storeVars
    <3>1. CASE RecoverTake(c)
      BY <1>f, <2>0, <3>1 DEF RecoverTake
    <3>2. CASE RecoverGet(c)
      BY <1>f, <2>0, <3>2 DEF RecoverGet
    <3>3. CASE RecoverInspect(c)
      BY <1>f, <2>0, <3>3 DEF RecoverInspect, WorkerPc
    <3>4. CASE RecoverDrop(c)
      <4>1. wk'[c] = "idle" /\ docker'[c] = "gone"
        BY <3>4 DEF RecoverDrop, LifeInv
      <4> QED
        BY <4>1
    <3>5. CASE RecoverStart(c)
      <4>1. rec[c] # "none" \/ docker[c] = "gone"
        BY <1>f, <3>5 DEF RecoverStart, WorkerPc
      <4> QED
        BY <1>f, <2>0, <3>5, <4>1 DEF RecoverStart, DockerStart, Exists
    <3>6. CASE RecoverCheck(c)
      BY <1>f, <2>0, <3>6 DEF RecoverCheck, WorkerPc
    <3>7. CASE RecoverStop(c)
      BY <1>f, <2>0, <3>7 DEF RecoverStop, DockerStop, Running
    <3> QED
      BY <1>5, <2>2, <3>1, <3>2, <3>3, <3>4, <3>5, <3>6, <3>7 DEF RecoverOne
  <2> QED
    BY <2>1, <2>2
<1>6. ASSUME NEW d \in Containers, ContainerDies(d) PROVE Found(c)' /\ Entered(c)'
  BY <1>f, <1>6 DEF ContainerDies, TypeOK, storeVars, recoverVars, opVars
<1>7. ASSUME NEW h \in Handlers, OpStep(h) PROVE Found(c)' /\ Entered(c)'
  <2>1. /\ op[h].kind # "none" /\ op[h].c \in Containers
        /\ \A g \in Handlers \ {h} : op'[g] = op[g]
        /\ wk' = wk /\ rpc' = rpc /\ seen' = seen
        /\ c # op[h].c => docker'[c] = docker[c] /\ rec'[c] = rec[c] /\ (c \in excused' <=> c \in excused)
    BY <1>7, OpFrame
  <2>2. CASE c # op[h].c
    BY <1>f, <2>1, <2>2
  <2>3. CASE c = op[h].c
    <3>1. ASSUME \/ OpCreate(h) \/ OpBind(h) \/ OpRemove(h) \/ OpUnbind(h) \/ OpStop(h),
                 \A g \in Handlers : Serves(g, "create") => docker[op[g].c] = "none"
          PROVE  /\ rec' = rec /\ (docker'[c] = "running" => docker[c] = "running")
                 /\ op[h].pc \notin {"markCreated", "markRunning"}
                 /\ docker'[c] = "running" => (c \in excused => c \in excused')
      BY <2>3, <3>1 DEF OpCreate, OpBind, OpRemove, OpUnbind, OpStop, DockerStop, Serves,
         storeVars, TypeOK
    <3>2. CASE OpCreate(h) \/ OpBind(h) \/ OpRemove(h) \/ OpUnbind(h) \/ OpStop(h)
      BY <1>f, <1>g, <2>1, <3>1, <3>2 DEF LifeInv
    <3>3. CASE OpMarkCreated(h) \/ OpMarkRunning(h) \/ OpMarkStopped(h)
      <4>1. rec'[c] # "none"
        BY <2>3, <3>3 DEF OpMarkCreated, OpMarkRunning, OpMarkStopped, mark, TypeOK
      <4> QED
        BY <4>1
    <3>4. CASE OpStart(h) \/ OpRestart(h)
      <4>1. CASE Then(h, "markRunning")
        <5>1. op'[h].kind # "none" /\ op'[h].c = c /\ op'[h].pc = "markRunning"
          BY <2>1, <2>3, <4>1 DEF Then, TypeOK
        <5>2. rec' = rec
          BY <3>4 DEF OpStart, OpRestart, storeVars
        <5> QED
          BY <1>f, <1>g, <2>1, <5>1, <5>2
      <4>2. CASE UNCHANGED docker
        <5>1. rec' = rec /\ excused' = excused /\ op[h].pc \in {"dstart", "drestart"}
          BY <3>4 DEF OpStart, OpRestart, storeVars, Serves
        <5> QED
          BY <1>f, <2>1, <4>2, <5>1
      <4> QED
        BY <3>4, <4>1, <4>2 DEF OpStart, OpRestart
    <3>5. CASE OpUnmark(h)
      <4>1. docker'[c] = "gone"
        BY <1>g, <2>1, <2>3, <3>5 DEF OpUnmark, LifeInv
      <4> QED
        BY <4>1
    <3> QED
      BY <1>7, <3>2, <3>3, <3>4, <3>5 DEF OpStep
  <2> QED
    BY <2>2, <2>3
<1>8. ASSUME NEW h \in Handlers, NEW k \in Kind, NEW d \in Containers, Begin(h, k, d)
      PROVE  Found(c)' /\ Entered(c)'
  <2>1. /\ docker' = docker /\ rec' = rec /\ wk' = wk /\ rpc' = rpc /\ seen' = seen
        /\ excused' = excused /\ op[h].kind = "none"
        /\ \A g \in Handlers \ {h} : op'[g] = op[g]
    BY <1>8 DEF Begin, storeVars, recoverVars, TypeOK
  <2> QED
    BY <1>f, <2>1
<1>9. CASE Monitor
  <2>1. op' = op /\ wk' = wk /\ rec' = rec /\ rpc' = rpc /\ seen' = seen
    BY <1>9 DEF Monitor, MonTick, MonRestart, MonProbe, opVars, recoverVars, storeVars
  <2>2. CASE UNCHANGED <<docker, excused>>
    BY <1>f, <2>1, <2>2
  <2>3. ASSUME NEW d \in Containers, MonRestart(d) PROVE Found(c)' /\ Entered(c)'
    BY <1>f, <1>g, <2>1, <2>3 DEF MonRestart, DockerStart, TypeOK
  <2> QED
    BY <1>9, <2>2, <2>3 DEF Monitor, MonTick, MonProbe
<1> HIDE DEF Found, Entered
<1> QED
  BY <1>1, <1>2, <1>3, <1>4, <1>5, <1>6, <1>7, <1>8, <1>9 DEF Next

\* With a usable record file, a finished recovery leaves no running container without an
\* entry, unless its request is still to write it or the monitor restarted it.
THEOREM RunningsAreRecorded ==
    ASSUME StoreFaults = FALSE
    PROVE  Spec => []RunningIsRecorded
<1>1. Init => EntryInv
  BY DEF Init, EntryInv, Running
<1>2. EntryInv => RunningIsRecorded
  BY DEF EntryInv, RunningIsRecorded, Marks, Busy
<1>3. TypeOK /\ PoolInv /\ LifeInv /\ EntryInv /\ [Next]_vars => EntryInv'
  BY EntryStep
<1> QED
  BY <1>1, <1>2, <1>3, TypeCorrect, PoolCorrect, LifeCorrect, PTL DEF Spec
-----------------------------------------------------------------------------

\* No two requests for one container are in flight at once.
Apart == \A g, h \in Handlers :
            op[g].kind # "none" /\ op[h].kind # "none" /\ op[g].c = op[h].c => g = h

\* What an acknowledged stop leaves: nobody at work on the container, a record that
\* says stopped, and a recovery that looks at it once more if it started it.
AckInv ==
    /\ \A h \in Handlers : Serves(h, "dstop") /\ op[h].kind = "stop"
                             => rec[op[h].c] = "stopped" \/ docker[op[h].c] = "gone"
    /\ \A c \in Containers : acked[c] = "stopped" =>
         /\ ~Busy(c)
         /\ rec[c] = "stopped" \/ docker[c] = "gone"
    /\ \A c \in Running : acked[c] = "stopped" => c \in excused \/ wk[c] \in {"check", "stop"}


\* Every step keeps AckInv when the record file can be read and written and the
\* requests for one container come one after the other.
LEMMA AckStep ==
    ASSUME StoreFaults = FALSE, TypeOK, PoolInv, LifeInv, Apart, Apart', AckInv, [Next]_vars
    PROVE  AckInv'
<1> USE ConstantsAssumption
<1> DEFINE Told(h) == Serves(h, "dstop") /\ op[h].kind = "stop"
                         => rec[op[h].c] = "stopped" \/ docker[op[h].c] = "gone"
           Acked(c) == acked[c] = "stopped" => ~Busy(c) /\ (rec[c] = "stopped" \/ docker[c] = "gone")
           Held(c) == docker[c] = "running" /\ acked[c] = "stopped"
                         => c \in excused \/ wk[c] \in {"check", "stop"}
<1>0. /\ \A h \in Handlers : Told(h)
      /\ \A c \in Containers : Acked(c) /\ Held(c)
      /\ (\A h \in Handlers : Told(h)') /\ (\A c \in Containers : Acked(c)' /\ Held(c)') => AckInv'
  BY DEF AckInv, Running
<1>g. \A c \in Containers : docker[c] = "gone" => docker'[c] = "gone"
  BY GoneStays
<1>t. \A h \in Handlers : op[h].kind # "none" => op[h].c \in Containers
  BY ServesType
<1> USE DEF Serves, Busy
\* What keeps the record and the requests keeps Told and Acked.
<1>k. ASSUME op' = op, acked' = acked,
             \A c \in Containers : rec'[c] = rec[c] \/ rec[c] = "none" \/ docker[c] = "gone"
      PROVE  (\A h \in Handlers : Told(h)') /\ (\A c \in Containers : Acked(c)')
  BY <1>0, <1>g, <1>t, <1>k
<1>1. CASE UNCHANGED vars
  BY <1>1 DEF AckInv, vars, storeVars, recoverVars, opVars, Running
<1>2. CASE AgentCrash \/ HostReboot
  <2>1. /\ rec' = rec /\ acked' = acked /\ \A h \in Handlers : op'[h].kind = "none"
    BY <1>2 DEF AgentCrash, HostReboot, ProcessLost, storeVars, Idle
  <2>2. ASSUME NEW c \in Containers PROVE Held(c)'
    <3>1. CASE AgentCrash
      BY <1>0, <3>1 DEF AgentCrash, Running
    <3>2. CASE HostReboot
      BY <3>2 DEF HostReboot, TypeOK
    <3> QED
      BY <1>2, <3>1, <3>2
  <2> QED
    BY <1>0, <1>g, <2>1, <2>2
<1>3. CASE AgentStart \/ RecoverMain
  <2>1. /\ op' = op /\ acked' = acked /\ docker' = docker /\ wk' = wk /\ excused' = excused
        /\ \A c \in Containers : rec'[c] = rec[c] \/ rec[c] = "none"
    BY <1>3 DEF AgentStart, RecoverMain, RecoverRead, RecoverList, RecoverPoolDone, RecoverStamp,
       seedAndStamp, storeVars, opVars, recoverVars
  <2> QED
    BY <1>0, <1>k, <2>1
<1>4. ASSUME NEW d \in Containers, RecoverOne(d) PROVE AckInv'
  <2>0. /\ \A c \in Containers \ {d} : /\ docker'[c] = docker[c] /\ rec'[c] = rec[c] /\ wk'[c] = wk[c]
                                       /\ c \in excused' <=> c \in excused
        /\ op' = op /\ acked' = acked
    BY <1>4, RecoverFrame
  <2>1. \A c \in Containers : rec'[c] = rec[c] \/ docker[c] = "gone"
    BY <1>4, <2>0 DEF RecoverOne, RecoverTake, RecoverGet, RecoverInspect, RecoverDrop,
       RecoverStart, RecoverCheck, RecoverStop, storeVars, LifeInv
  <2>2. Held(d)'
    <3> USE DEF Goto, Outcome, TypeOK, storeVars
    <3>1. CASE RecoverTake(d)
      BY <1>0, <2>0, <3>1 DEF RecoverTake, PoolInv
    <3>2. CASE RecoverGet(d)
      BY <1>0, <2>0, <3>2 DEF RecoverGet
    <3>3. CASE RecoverInspect(d)
      BY <1>0, <2>0, <3>3 DEF RecoverInspect
    <3>4. CASE RecoverDrop(d)
      BY <1>0, <2>0, <3>4 DEF RecoverDrop
    <3>5. CASE RecoverStart(d)
      BY <1>0, <2>0, <3>5 DEF RecoverStart, DockerStart
    <3>6. CASE RecoverCheck(d)
      BY <1>0, <2>0, <3>6 DEF RecoverCheck
    <3>7. CASE RecoverStop(d)
      BY <1>0, <2>0, <3>7 DEF RecoverStop, DockerStop, Running
    <3> QED
      BY <1>4, <3>1, <3>2, <3>3, <3>4, <3>5, <3>6, <3>7 DEF RecoverOne
  <2>3. \A c \in Containers : Held(c)'
    BY <1>0, <2>0, <2>2
  <2> QED
    BY <1>0, <1>k, <2>0, <2>1, <2>3
<1>5. ASSUME NEW d \in Containers, ContainerDies(d) PROVE AckInv'
  <2>1. op' = op /\ acked' = acked /\ rec' = rec /\ wk' = wk
    BY <1>5 DEF ContainerDies, opVars, storeVars, recoverVars
  <2>2. \A c \in Containers : Held(c)'
    BY <1>0, <1>5, <2>1 DEF ContainerDies, TypeOK
  <2> QED
    BY <1>0, <1>k, <2>1, <2>2
<1>6. ASSUME NEW h \in Handlers, OpStep(h) PROVE AckInv'
  <2>0. PICK d \in Containers : d = op[h].c
    BY <1>6, OpFrame
  <2>1. /\ op[h].kind # "none" /\ op[h].c = d
        /\ \A g \in Handlers \ {h} : op'[g] = op[g]
        /\ op'[h].kind # "none" => op'[h].kind = op[h].kind /\ op'[h].c = d
        /\ \A c \in Containers \ {d} : /\ docker'[c] = docker[c] /\ rec'[c] = rec[c] /\ acked'[c] = acked[c]
                                       /\ c \in excused' <=> c \in excused
        /\ wk' = wk
    BY <1>6, <2>0, OpFrame
  <2>2. \A g \in Handlers \ {h} : op[g].kind # "none" => op[g].c # d
    BY <2>1 DEF Apart
  <2>3. acked[d] # "stopped"
    BY <1>0, <2>1
  \* An acknowledged stop is the step that ends it.
  <2>4. acked'[d] = "stopped" =>
          /\ op[h].kind = "stop" /\ op[h].pc = "dstop" /\ op'[h].kind = "none"
          /\ rec' = rec /\ docker'[d] # "running"
    BY <1>6, <2>1, <2>3 DEF OpStep, OpCreate, OpMarkCreated, OpBind, OpStart, OpRestart, OpMarkRunning,
       OpMarkStopped, OpStop, OpRemove, OpUnmark, OpUnbind, Refused, Then, Finish, DockerStop, Idle, TypeOK, storeVars
  <2>5. op'[h].kind = "stop" /\ op'[h].pc = "dstop" => rec'[d] = "stopped"
    BY <1>6, <2>1 DEF OpStep, OpCreate, OpMarkCreated, OpBind, OpStart, OpRestart, OpMarkRunning,
       OpMarkStopped, OpStop, OpRemove, OpUnmark, OpUnbind, Refused, Then, Finish, Idle, TypeOK, mark
  <2>6. ASSUME NEW g \in Handlers PROVE Told(g)'
    <3>1. CASE g = h
      BY <2>1, <2>5, <3>1
    <3>2. CASE g # h
      BY <1>0, <1>t, <2>1, <2>2, <3>2
    <3> QED
      BY <3>1, <3>2
  <2>7. ASSUME NEW c \in Containers PROVE Acked(c)' /\ Held(c)'
    <3>1. CASE c # d
      BY <1>0, <2>1, <3>1
    <3>2. CASE c = d
      <4>1. acked'[d] = "stopped" => rec'[d] = "stopped" \/ docker'[d] = "gone"
        BY <1>0, <1>g, <2>1, <2>4
      <4>2. acked'[d] = "stopped" => ~Busy(d)'
        BY <2>1, <2>2, <2>4
      <4> QED
        BY <2>4, <3>2, <4>1, <4>2
    <3> QED
      BY <3>1, <3>2
  <2> QED
    BY <1>0, <2>6, <2>7
<1>7. ASSUME NEW h \in Handlers, NEW k \in Kind, NEW d \in Containers, Begin(h, k, d)
      PROVE  AckInv'
  <2>1. /\ docker' = docker /\ rec' = rec /\ wk' = wk /\ excused' = excused /\ op[h].kind = "none"
        /\ op'[h] = [kind |-> k, c |-> d, pc |-> FirstCall[k]]
        /\ \A g \in Handlers \ {h} : op'[g] = op[g]
        /\ acked'[d] = "none" /\ \A c \in Containers \ {d} : acked'[c] = acked[c]
    BY <1>7 DEF Begin, storeVars, recoverVars, TypeOK
  <2>2. FirstCall[k] # "dstop"
    BY DEF FirstCall, Kind
  <2>3. \A g \in Handlers : Told(g)'
    BY <1>0, <2>1, <2>2
  <2>4. \A c \in Containers : Acked(c)' /\ Held(c)'
    BY <1>0, <2>1
  <2> QED
    BY <1>0, <2>3, <2>4
<1>8. CASE Monitor
  <2>1. op' = op /\ wk' = wk /\ rec' = rec /\ acked' = acked
    BY <1>8 DEF Monitor, MonTick, MonRestart, MonProbe, opVars, recoverVars, storeVars
  <2>2. ASSUME NEW c \in Containers PROVE Held(c)'
    <3>1. CASE UNCHANGED <<docker, excused>>
      BY <1>0, <2>1, <3>1
    <3>2. ASSUME NEW e \in Containers, MonRestart(e) PROVE Held(c)'
      BY <1>0, <2>1, <3>2 DEF MonRestart, DockerStart, Exists, TypeOK
    <3> QED
      BY <1>8, <3>1, <3>2 DEF Monitor, MonTick, MonProbe
  <2> QED
    BY <1>0, <1>k, <2>1, <2>2
<1> QED
  BY <1>1, <1>2, <1>3, <1>4, <1>5, <1>6, <1>7, <1>8 DEF Next

\* An acknowledged stop outlives reboots and the recovery after them: with a usable
\* record file and requests for a container one after the other, a finished recovery
\* leaves it stopped but for the reasons in excused (recoverOne's second look).
THEOREM AckedStopsHold ==
    ASSUME StoreFaults = FALSE
    PROVE  Spec /\ []Apart => []AckedStopHolds
<1>1. Init => AckInv
  BY DEF Init, AckInv, Running, Serves, Busy, Idle
<1>2. PoolInv /\ AckInv => AckedStopHolds
  BY DEF PoolInv, AckInv, AckedStopHolds, Running
<1>3. TypeOK /\ PoolInv /\ LifeInv /\ Apart /\ Apart' /\ AckInv /\ [Next]_vars => AckInv'
  BY AckStep
<1> QED
  BY <1>1, <1>2, <1>3, TypeCorrect, PoolCorrect, LifeCorrect, PTL DEF Spec
=============================================================================
