------------------------- MODULE LocalRuntimeProofs -------------------------
(* Proofs about LocalRuntime, for every set of runtimes, requests, calls    *)
(* and artifacts, any number of crashes and any number of pairings.         *)
EXTENDS LocalRuntime, TLAPS

-----------------------------------------------------------------------------
(* The inductive invariant, in parts.                                       *)

BuildPc == {"prepare", "create", "register", "start", "probe"}

\* A call past the mutex holds the lock of its runtime, and every call carries what
\* its operation needs.
HoldsLock(p) ==
    /\ call[p].pc \in LockedPc => call[p].r \in Runtimes /\ lock[call[p].r] = p
    /\ call[p].pc = "lock" => call[p].r \in Runtimes
    /\ call[p].op = "ensure" => call[p].x \in Specs
    /\ call[p].op = "activate" => call[p].x \in Activations
    /\ call[p].op \in {"erase", "stage"} => call[p].x \in Artifacts
    /\ call[p].pc \in {"load", "record"} => call[p].op = "stage"
    /\ call[p].pc \in {"next", "image", "unindex", "erased"} => call[p].op = "erase"
    /\ call[p].pc = "claim" => call[p].op = "ensure"
    /\ call[p].pc = "activate" => call[p].op = "activate"
    /\ call[p].pc \in TearPc => call[p].op \in {"ensure", "remove", "erase"}
LockInv == \A p \in Calls : HoldsLock(p)

\* The fields of a row follow its state.
RowInv(r) ==
    /\ row[r].st = "ABSENT" => row[r].spec = Nobody /\ row[r].act = Nobody
    /\ row[r].st # "ABSENT" => row[r].spec \in Specs
    /\ Provisional(r) => row[r].act = Nobody
    /\ Activated(r) => row[r].act \in Activations /\ AuthorizedSpec[row[r].act] = row[r].spec

\* What a call that holds the lock may rely on.
CallInv(p) ==
    LET r == call[p].r  pc == call[p].pc IN
    /\ pc = "claim" => row[r].st = "ABSENT"
    /\ pc \in BuildPc => row[r].st \in {"CLAIMED", "ACTIVATING"}
    /\ pc \in {"swap", "oldclean"} => row[r].st = "ACTIVATING"
    /\ pc = "activate" => row[r].st \in {"READY", "ACTIVATING", "ACTIVE"}
    /\ pc \in BuildPc \cup {"activate", "swap", "oldclean"} /\ call[p].op = "activate"
         => AuthorizedSpec[call[p].x] = row[r].spec
    /\ pc \in {"register", "start", "probe"} /\ row[r].st = "ACTIVATING"
         => container[r].phase = "act"
    /\ pc \in TearPc => row[r].st # "ABSENT" /\ (call[p].op # "remove" => Provisional(r))
    /\ pc \in {"tclean", "tclean2", "tdelete"} => container[r].phase = "none"
    /\ pc \in {"tclean2", "tdelete"} => PreReplica(r) \notin dirs
    /\ pc = "tdelete" => ActReplica(r) \notin dirs
    /\ pc = "absent" => row[r].st = "ABSENT"

\* A container is the one of the row; a broker directory is one of the row's two.
ContInv(r) ==
    container[r].phase # "none" =>
        /\ row[r].st # "ABSENT"
        /\ container[r].k = row[r].k
        /\ container[r].spec = row[r].spec
        /\ container[r].phase = "pre" => row[r].st # "ACTIVE"
        /\ container[r].phase = "act" => Activated(r) /\ container[r].act = row[r].act

DirInv(r) ==
    \A x \in dirs : x[1] = r =>
        /\ row[r].st # "ABSENT"
        /\ x = PreReplica(r) \/ (x = ActReplica(r) /\ Activated(r))

\* Calls are in flight only while the process serves.
IdleInv == process # "up" => \A p \in Calls : call[p].pc = "done"

IInv ==
    /\ TypeOK
    /\ LockInv
    /\ IdleInv
    /\ sockets \subseteq dirs
    /\ \A r \in Runtimes : RowInv(r) /\ ContInv(r) /\ DirInv(r)
    /\ \A p \in Calls : CallInv(p)



-----------------------------------------------------------------------------
(* Steps of the control: types, locks and what a call carries.              *)

\* Goto moves one call and leaves the locks alone.
LEMMA GotoEffect ==
    ASSUME TypeOK, NEW p \in Calls, NEW pc \in Pc, Goto(p, pc)
    PROVE  /\ call' \in [Calls -> CallRecord]
           /\ lock' = lock /\ lock' \in [Runtimes -> Calls \cup {Nobody}]
           /\ \A q \in Calls \ {p} : call'[q] = call[q]
           /\ call'[p].op = call[p].op /\ call'[p].r = call[p].r /\ call'[p].x = call[p].x
           /\ call'[p].pc = pc
BY DEF TypeOK, Goto, CallRecord

\* Where Goto takes a call, whatever the step is called.
LEMMA Moves ==
    ASSUME TypeOK, NEW p \in Calls, NEW pc, Goto(p, pc)
    PROVE  /\ call'[p].op = call[p].op /\ call'[p].r = call[p].r /\ call'[p].x = call[p].x
           /\ call'[p].pc = pc
BY DEF TypeOK, Goto

\* Finish ends one call and releases its lock only.
LEMMA FinishEffect ==
    ASSUME TypeOK, NEW p \in Calls, Finish(p)
    PROVE  /\ call' \in [Calls -> CallRecord]
           /\ lock' \in [Runtimes -> Calls \cup {Nobody}]
           /\ \A q \in Calls \ {p} : call'[q] = call[q]
           /\ \A r \in Runtimes, q \in Calls \ {p} : lock[r] = q => lock'[r] = q
           /\ call'[p].op = "none" /\ call'[p].pc = "done"
BY DEF TypeOK, Finish, NoCall, CallRecord, Op, Pc, LockedPc, TearPc

\* EraseLeave releases the runtime the erasure was at.
LEMMA EraseLeaveEffect ==
    ASSUME TypeOK, LockInv, NEW p \in Calls, call[p].pc \in LockedPc, EraseLeave(p)
    PROVE  /\ call' \in [Calls -> CallRecord]
           /\ lock' \in [Runtimes -> Calls \cup {Nobody}]
           /\ \A q \in Calls \ {p} : call'[q] = call[q]
           /\ \A r \in Runtimes, q \in Calls \ {p} : lock[r] = q => lock'[r] = q
           /\ call'[p].op = call[p].op /\ call'[p].x = call[p].x /\ call'[p].pc = "next"
BY SMTT(30) DEF TypeOK, LockInv, HoldsLock, EraseLeave, CallRecord, Target, Pc, LockedPc, TearPc

\* The calls other than p, and the locks they hold, are left alone.
OthersKept(p) ==
    \A q \in Calls \ {p} : /\ call'[q] = call[q]
                           /\ \A r \in Runtimes : lock[r] = q => lock'[r] = q

\* Every step of a call keeps the table of calls and the locks in order.
LEMMA ControlStep ==
    ASSUME TypeOK, LockInv, NEW p \in Calls, CallStep(p)
    PROVE  /\ call' \in [Calls -> CallRecord]
           /\ lock' \in [Runtimes -> Calls \cup {Nobody}]
           /\ OthersKept(p)
           /\ HoldsLock(p)'
<1> USE DEF OthersKept, HoldsLock, LockInv, At, Target, Pc, LockedPc, TearPc
<1>1. CASE Fail(p)
  BY <1>1, FinishEffect DEF Fail
<1>2. CASE SocketLost(p)
  BY <1>2, FinishEffect DEF SocketLost
<1>3. CASE Enter(p)
  <2>1. call[p].pc = "enter"
    BY <1>3 DEF Enter
  <2>2. \/ Finish(p)
        \/ (Goto(p, "claim") \/ Goto(p, "tstop")) /\ call[p].op = "ensure"
        \/ Goto(p, "prepare")
        \/ Goto(p, "activate") /\ call[p].op = "activate"
    BY <1>3 DEF Enter, Refused, EnsureReadyLocked, Wanted
  <2> QED
    BY <2>1, <2>2, GotoEffect, FinishEffect
<1>4. CASE Claim(p)
  BY <1>4, GotoEffect DEF Claim
<1>5. CASE Prepare(p)
  BY <1>5, GotoEffect, SMTT(30) DEF Prepare
<1>6. CASE Create(p)
  BY <1>6, GotoEffect, FinishEffect, SMTT(30) DEF Create
<1>7. CASE Register(p)
  BY <1>7, GotoEffect DEF Register
<1>8. CASE Start(p)
  BY <1>8, GotoEffect DEF Start
<1>9. CASE Probe(p)
  BY <1>9, GotoEffect, FinishEffect DEF Probe
<1>10. CASE Activate(p)
  <2>1. call[p].pc = "activate" /\ (Goto(p, "prepare") \/ Finish(p))
    BY <1>10 DEF Activate
  <2> QED
    BY <2>1, GotoEffect, FinishEffect
<1>11. CASE Swap(p)
  <2>1. call[p].pc = "swap" /\ (Goto(p, "oldclean") \/ Finish(p) \/ UNCHANGED <<call, lock>>)
    BY <1>11 DEF Swap, callVars
  <2> QED
    BY <2>1, GotoEffect, FinishEffect DEF TypeOK
<1>12. CASE OldClean(p)
  BY <1>12, GotoEffect DEF OldClean
<1>13. CASE EnterRemove(p)
  BY <1>13, GotoEffect, FinishEffect DEF EnterRemove
<1>14. CASE EnterErase(p)
  BY <1>14, GotoEffect, EraseLeaveEffect DEF EnterErase
<1>15. CASE TearStop(p)
  BY <1>15, GotoEffect DEF TearStop
<1>16. CASE TearRemove(p)
  BY <1>16, GotoEffect DEF TearRemove
<1>17. CASE TearClean(p)
  BY <1>17, GotoEffect DEF TearClean
<1>18. CASE TearCleanActive(p)
  BY <1>18, GotoEffect DEF TearCleanActive
<1>19. CASE TearDelete(p)
  BY <1>19, GotoEffect, EraseLeaveEffect DEF TearDelete
<1>20. CASE Absent(p)
  BY <1>20, FinishEffect DEF Absent
<1>21. CASE Load(p)
  BY <1>21, GotoEffect, FinishEffect DEF Load
<1>22. CASE Record(p)
  BY <1>22, FinishEffect DEF Record
<1>23. CASE EraseNext(p)
  BY <1>23 DEF EraseNext, CallRecord, TypeOK
<1>24. CASE EraseImage(p)
  BY <1>24, GotoEffect, FinishEffect DEF EraseImage
<1>25. CASE EraseIndex(p)
  BY <1>25, GotoEffect, FinishEffect DEF EraseIndex
<1>26. CASE Erased(p)
  BY <1>26, FinishEffect DEF Erased
<1> QED
  BY <1>1, <1>2, <1>3, <1>4, <1>5, <1>6, <1>7, <1>8, <1>9, <1>10, <1>11, <1>12, <1>13, <1>14, <1>15, <1>16, <1>17, <1>18, <1>19, <1>20, <1>21, <1>22, <1>23, <1>24, <1>25, <1>26 DEF CallStep

\* SetRun starts or stops one container and changes nothing else about it.
LEMMA SetRunEffect ==
    ASSUME TypeOK, NEW r \in Runtimes, NEW up \in BOOLEAN, SetRun(r, up)
    PROVE  /\ container' \in [Runtimes -> ContainerRecord]
           /\ \A q \in Runtimes : /\ container'[q].phase = container[q].phase
                                  /\ container'[q].spec = container[q].spec
                                  /\ container'[q].act = container[q].act
                                  /\ container'[q].k = container[q].k
           /\ \A q \in Runtimes \ {r} : container'[q] = container[q]
BY DEF TypeOK, SetRun, ContainerRecord

\* Running changes which containers run and nothing else about them.
LEMMA RunningEffect ==
    ASSUME TypeOK, NEW runs \in [Runtimes -> BOOLEAN], Running(runs)
    PROVE  /\ container' \in [Runtimes -> ContainerRecord]
           /\ \A r \in Runtimes : /\ container'[r].phase = container[r].phase
                                  /\ container'[r].spec = container[r].spec
                                  /\ container'[r].act = container[r].act
                                  /\ container'[r].k = container[r].k
BY DEF TypeOK, Running, ContainerRecord

\* Every step of a call keeps the ledger, the containers, the broker and the store
\* well typed, and leaves the host alone.
LEMMA DataStep ==
    ASSUME TypeOK, LockInv, NEW p \in Calls, CallStep(p)
    PROVE  /\ row' \in [Runtimes -> RowRecord]
           /\ slot' \in [Generations -> Runtimes \cup {Nobody}]
           /\ container' \in [Runtimes -> ContainerRecord]
           /\ dirs' \subseteq Replicas /\ sockets' \subseteq Replicas
           /\ images' \subseteq Images /\ index' \subseteq Artifacts
           /\ UNCHANGED hostVars
<1> USE ConstantsAssumption
    DEF TypeOK, At, Target, ledgerVars, brokerVars, storeVars, hostVars
<1> HoldsLock(p)
  BY DEF LockInv
<1> USE DEF HoldsLock, LockedPc, TearPc
<1>1. CASE Fail(p)
  BY <1>1 DEF Fail
<1>2. CASE SocketLost(p)
  BY <1>2 DEF SocketLost
<1>3. CASE Enter(p)
  BY <1>3 DEF Enter
<1>4. CASE Claim(p)
  BY <1>4 DEF Claim, claim, Wanted, RowRecord, RowState
<1>5. CASE Prepare(p)
  BY <1>5 DEF Prepare, BuildReplica, Building, Replica, Replicas, Phase, RowRecord
<1>6. CASE Create(p)
  <2>1. row[Target(p)] \in RowRecord /\ Building(p) \in Phase
    BY <1>6 DEF Create, Building, Phase
  <2>2. [phase |-> Building(p), spec |-> row[Target(p)].spec, act |-> row[Target(p)].act,
         k |-> row[Target(p)].k, cluster |-> cluster, run |-> FALSE] \in ContainerRecord
    BY <2>1 DEF RowRecord, ContainerRecord
  <2>3. container' \in [Runtimes -> ContainerRecord]
    BY <1>6, <2>2 DEF Create
  <2> QED
    BY <1>6, <2>3 DEF Create
<1>7. CASE Register(p)
  BY <1>7 DEF Register, BuildReplica, Building, Replica, Replicas, Phase, RowRecord
<1>8. CASE Start(p)
  BY <1>8 DEF Start, SetRun, ContainerRecord
<1>9. CASE Probe(p)
  <2>1. Target(p) \in Runtimes /\ row[Target(p)] \in RowRecord
    BY <1>9 DEF Probe
  <2>2. UNCHANGED <<container, brokerVars, storeVars, hostVars>>
        /\ (markActive(Target(p)) \/ markReady(Target(p)))
    BY <1>9 DEF Probe
  <2>3. \A st \in RowState : [st |-> st, spec |-> row[Target(p)].spec, act |-> row[Target(p)].act,
                              k |-> row[Target(p)].k] \in RowRecord
    BY <2>1 DEF RowRecord
  <2>4. markActive(Target(p)) => /\ row' \in [Runtimes -> RowRecord]
                                 /\ slot' \in [Generations -> Runtimes \cup {Nobody}]
    BY <2>1, <2>3 DEF markActive, RowState
  <2>5. markReady(Target(p)) => row' \in [Runtimes -> RowRecord] /\ slot' = slot
    <3>1. (IF row[Target(p)].st = "CLAIMED" THEN "READY" ELSE row[Target(p)].st) \in RowState
      BY <2>1 DEF RowRecord, RowState
    <3> QED
      BY <2>1, <2>3, <3>1 DEF markReady
  <2> QED
    BY <2>2, <2>4, <2>5
<1>10. CASE Activate(p)
  BY <1>10 DEF Activate, claimActivation, RowRecord, RowState
<1>11. CASE Swap(p)
  <2>1. NoContainer \in ContainerRecord
    BY DEF NoContainer, ContainerRecord, Phase
  <2>2. SetRun(Target(p), FALSE) => container' \in [Runtimes -> ContainerRecord]
    BY <1>11, SetRunEffect DEF Swap
  <2>3. container' \in [Runtimes -> ContainerRecord]
    BY <1>11, <2>1, <2>2 DEF Swap
  <2> QED
    BY <1>11, <2>3 DEF Swap
<1>12. CASE OldClean(p)
  BY <1>12 DEF OldClean, Cleanup
<1>13. CASE EnterRemove(p)
  BY <1>13 DEF EnterRemove
<1>14. CASE EnterErase(p)
  BY <1>14 DEF EnterErase
<1>15. CASE TearStop(p)
  BY <1>15 DEF TearStop, SetRun, ContainerRecord
<1>16. CASE TearRemove(p)
  BY <1>16 DEF TearRemove, NoContainer, ContainerRecord, Phase
<1>17. CASE TearClean(p)
  BY <1>17 DEF TearClean, Cleanup
<1>18. CASE TearCleanActive(p)
  BY <1>18 DEF TearCleanActive, Cleanup
<1>19. CASE TearDelete(p)
  BY <1>19 DEF TearDelete, deleteByRuntimeId, RowRecord, RowState
<1>20. CASE Absent(p)
  BY <1>20 DEF Absent
<1>21. CASE Load(p)
  BY <1>21 DEF Load
<1>22. CASE Record(p)
  BY <1>22 DEF Record
<1>23. CASE EraseNext(p)
  BY <1>23 DEF EraseNext
<1>24. CASE EraseImage(p)
  BY <1>24 DEF EraseImage
<1>25. CASE EraseIndex(p)
  BY <1>25 DEF EraseIndex
<1>26. CASE Erased(p)
  BY <1>26 DEF Erased
<1> QED
  BY <1>1, <1>2, <1>3, <1>4, <1>5, <1>6, <1>7, <1>8, <1>9, <1>10, <1>11, <1>12, <1>13, <1>14, <1>15, <1>16, <1>17, <1>18, <1>19, <1>20, <1>21, <1>22, <1>23, <1>24, <1>25, <1>26 DEF CallStep

\* Every step keeps the types and the locks.
LEMMA TypeStep == TypeOK /\ LockInv /\ [Next]_vars => TypeOK' /\ LockInv'
<1> SUFFICES ASSUME TypeOK, LockInv, [Next]_vars PROVE TypeOK' /\ LockInv'
  OBVIOUS
<1> USE ConstantsAssumption
    DEF ledgerVars, brokerVars, storeVars, callVars, hostVars
<1>1. CASE UNCHANGED vars
  BY <1>1 DEF vars, TypeOK, LockInv, HoldsLock
<1>2. ASSUME NEW p \in Calls, CallStep(p) PROVE TypeOK' /\ LockInv'
  <2>1. TypeOK'
    BY <1>2, ControlStep, DataStep DEF TypeOK
  <2>2. ASSUME NEW q \in Calls \ {p} PROVE HoldsLock(q)'
    BY <1>2, <2>2, ControlStep DEF OthersKept, LockInv, HoldsLock
  <2>3. HoldsLock(p)'
    BY <1>2, ControlStep
  <2> QED
    BY <2>1, <2>2, <2>3 DEF LockInv
<1>3. ASSUME NEW p \in Calls, Acquire(p) PROVE TypeOK' /\ LockInv'
  BY <1>3 DEF Acquire, At, Target, TypeOK, LockInv, HoldsLock, CallRecord, Pc, LockedPc, TearPc
<1>4. ASSUME NEW p \in Calls, Arrive(p) PROVE TypeOK' /\ LockInv'
  <2>1. ASSUME NEW o \in Op, NEW r \in Runtimes \cup {Nobody},
               NEW x \in Specs \cup Activations \cup Artifacts \cup {Nobody},
               NEW t \in SUBSET Runtimes, NEW pc \in {"lock", "next", "load"},
               Begin(p, o, r, x, t, pc),
               pc = "lock" => r \in Runtimes, o = "ensure" => x \in Specs,
               o = "activate" => x \in Activations, o \in {"erase", "stage"} => x \in Artifacts,
               pc = "load" => o = "stage", pc = "next" => o = "erase"
        PROVE  TypeOK' /\ LockInv'
    BY <2>1 DEF Begin, TypeOK, LockInv, HoldsLock, CallRecord, Pc, LockedPc, TearPc
  <2> USE DEF Op
  <2>2. ASSUME NEW r \in Runtimes, NEW s \in Specs, ensureReady(p, r, s) PROVE TypeOK' /\ LockInv'
    BY <2>1, <2>2 DEF ensureReady
  <2>3. ASSUME NEW r \in Runtimes, status(p, r) \/ remove(p, r) PROVE TypeOK' /\ LockInv'
    BY <2>1, <2>3 DEF status, remove
  <2>4. ASSUME NEW r \in Runtimes, NEW a \in Activations, activate(p, r, a)
        PROVE  TypeOK' /\ LockInv'
    BY <2>1, <2>4 DEF activate
  <2>5. ASSUME NEW d \in Artifacts, stage(p, d) PROVE TypeOK' /\ LockInv'
    BY <2>1, <2>5 DEF stage
  <2>6. ASSUME NEW d \in Artifacts, removeArtifact(p, d) PROVE TypeOK' /\ LockInv'
    <3>1. {r \in Runtimes : ArtifactOf[r] = d /\ Provisional(r)} \in SUBSET Runtimes
      OBVIOUS
    <3> QED
      BY <2>1, <2>6, <3>1 DEF removeArtifact
  <2> QED
    BY <1>4, <2>2, <2>3, <2>4, <2>5, <2>6 DEF Arrive
<1>5. CASE Pair
  BY <1>5 DEF Pair, TypeOK, LockInv, HoldsLock
<1>6. CASE Crash \/ Reboot
  <2>1. NoCall \in CallRecord /\ NoCall.pc = "done" /\ NoCall.op = "none"
    BY DEF NoCall, CallRecord, Op, Pc
  <2>2. container' \in [Runtimes -> ContainerRecord] /\ dirs' \subseteq Replicas
    <3>1. CASE Crash
      BY <3>1 DEF Crash, TypeOK
    <3>2. CASE Reboot
      <4>1. PICK back \in SUBSET Runtimes : Running([r \in Runtimes |-> r \in back])
        BY <3>2 DEF Reboot
      <4>2. [r \in Runtimes |-> r \in back] \in [Runtimes -> BOOLEAN]
        OBVIOUS
      <4> QED
        BY <3>2, <4>1, <4>2, RunningEffect DEF Reboot
    <3> QED
      BY <1>6, <3>1, <3>2
  <2>3. ProcessLost
    BY <1>6 DEF Crash, Reboot
  <2>4. LockInv'
    BY <2>1, <2>3 DEF ProcessLost, LockInv, HoldsLock, LockedPc, TearPc
  <2> QED
    BY <2>1, <2>2, <2>3, <2>4 DEF ProcessLost, TypeOK
<1>7. CASE Rebind
  <2>1. PICK bound \in SUBSET Runtimes, made \in SUBSET Runtimes,
            lost \in SUBSET Runtimes, up \in SUBSET Runtimes :
          RebindTo(bound, made, lost, up)
    BY <1>7 DEF Rebind, Rebindable, ActiveRecords
  <2>2. [r \in Runtimes |-> IF r \in bound THEN r \in up /\ container[r].phase # "none"
                                          ELSE container[r].run] \in [Runtimes -> BOOLEAN]
    BY DEF TypeOK, ContainerRecord
  <2>3. container' \in [Runtimes -> ContainerRecord]
    BY <2>1, <2>2, RunningEffect DEF RebindTo
  <2>4. \A r \in Runtimes : ActReplica(r) \in Replicas
    BY DEF TypeOK, RowRecord, ActReplica, Replica, Replicas, Phase
  <2>5. dirs' \subseteq Replicas /\ sockets' \subseteq Replicas
    BY <2>1, <2>4 DEF TypeOK, RebindTo
  <2>6. unbound' \subseteq Runtimes
    BY <2>1 DEF RebindTo, ActiveRecords
  <2> QED
    BY <1>7, <2>3, <2>5, <2>6 DEF Rebind, TypeOK, LockInv, HoldsLock
<1>8. CASE Sweep
  BY <1>8 DEF Sweep, TypeOK, LockInv, HoldsLock
<1> QED
  BY <1>1, <1>2, <1>3, <1>4, <1>5, <1>6, <1>7, <1>8 DEF Next, StartUp

-----------------------------------------------------------------------------
(* Steps of the data: rows, containers and broker directories.              *)

\* A step of a call touches the row, the container and the directories of no runtime
\* but the one it holds the lock of.
LEMMA FrameStep ==
    ASSUME TypeOK, LockInv, NEW p \in Calls, CallStep(p), NEW r \in Runtimes,
           call[p].pc \in LockedPc => call[p].r # r
    PROVE  /\ row'[r] = row[r]
           /\ container'[r] = container[r]
           /\ \A x \in Replicas : x[1] = r => (x \in dirs' <=> x \in dirs)
<1> USE DEF TypeOK, At, Target, LockedPc, TearPc, ledgerVars, brokerVars
<1>1. CASE Fail(p)
  BY <1>1 DEF Fail
<1>2. CASE SocketLost(p)
  BY <1>2 DEF SocketLost
<1>3. CASE Enter(p)
  BY <1>3 DEF Enter
<1>4. CASE Claim(p)
  BY <1>4 DEF Claim, claim
<1>5. CASE Prepare(p)
  BY <1>5 DEF Prepare, BuildReplica, Replica, Replicas
<1>6. CASE Create(p)
  BY <1>6 DEF Create
<1>7. CASE Register(p)
  BY <1>7 DEF Register, BuildReplica, Replica, Replicas
<1>8. CASE Start(p)
  BY <1>8 DEF Start, SetRun
<1>9. CASE Probe(p)
  BY <1>9 DEF Probe, markReady, markActive
<1>10. CASE Activate(p)
  BY <1>10 DEF Activate, claimActivation
<1>11. CASE Swap(p)
  BY <1>11 DEF Swap, SetRun
<1>12. CASE OldClean(p)
  BY <1>12 DEF OldClean, Cleanup, PreReplica, Replica, Replicas
<1>13. CASE EnterRemove(p)
  BY <1>13 DEF EnterRemove
<1>14. CASE EnterErase(p)
  BY <1>14 DEF EnterErase
<1>15. CASE TearStop(p)
  BY <1>15 DEF TearStop, SetRun
<1>16. CASE TearRemove(p)
  BY <1>16 DEF TearRemove
<1>17. CASE TearClean(p)
  BY <1>17 DEF TearClean, Cleanup, PreReplica, Replica, Replicas
<1>18. CASE TearCleanActive(p)
  BY <1>18 DEF TearCleanActive, Cleanup, ActReplica, Replica, Replicas
<1>19. CASE TearDelete(p)
  BY <1>19 DEF TearDelete, deleteByRuntimeId
<1>20. CASE Absent(p)
  BY <1>20 DEF Absent
<1>21. CASE Load(p)
  BY <1>21 DEF Load
<1>22. CASE Record(p)
  BY <1>22 DEF Record
<1>23. CASE EraseNext(p)
  BY <1>23 DEF EraseNext
<1>24. CASE EraseImage(p)
  BY <1>24 DEF EraseImage
<1>25. CASE EraseIndex(p)
  BY <1>25 DEF EraseIndex
<1>26. CASE Erased(p)
  BY <1>26, SMTT(30) DEF Erased
<1> QED
  BY <1>1, <1>2, <1>3, <1>4, <1>5, <1>6, <1>7, <1>8, <1>9, <1>10, <1>11, <1>12, <1>13, <1>14, <1>15, <1>16, <1>17, <1>18, <1>19, <1>20, <1>21, <1>22, <1>23, <1>24, <1>25, <1>26 DEF CallStep

\* A step of a call keeps what the invariant says of its runtime and of itself.
LEMMA OwnStep ==
    ASSUME TypeOK, LockInv, NEW p \in Calls, CallStep(p), call[p].pc \in LockedPc,
           NEW r \in Runtimes, r = call[p].r,
           CallInv(p), RowInv(r), ContInv(r), DirInv(r)
    PROVE  RowInv(r)' /\ ContInv(r)' /\ DirInv(r)' /\ CallInv(p)'
<1> USE ConstantsAssumption
    DEF CallInv, RowInv, ContInv, DirInv, Provisional, Activated, PreReplica, ActReplica,
        Replica, BuildPc, At, Target, ledgerVars, brokerVars, TearPc
<1> row[r] \in RowRecord /\ container[r] \in ContainerRecord /\ dirs \subseteq Replicas
  BY DEF TypeOK
<1> HoldsLock(p)
  BY DEF LockInv
<1>1. CASE Fail(p)
  BY <1>1, FinishEffect, SMTT(30) DEF Fail, TypeOK, HoldsLock
<1>2. CASE SocketLost(p)
  BY <1>2, FinishEffect, SMTT(30) DEF SocketLost, TypeOK, HoldsLock
<1>3. CASE Enter(p)
  <2>1. call[p].pc = "enter" /\ row' = row /\ dirs' = dirs /\ container' = container
    BY <1>3 DEF Enter
  <2>2. CASE Refused(p) /\ Finish(p)
    BY <2>1, <2>2, FinishEffect, SMTT(30)
  <2>3. CASE EnsureReadyLocked(p)
    <3> ~Refused(p)
      BY <2>3 DEF EnsureReadyLocked
    <3>1. CASE row[r].st = "ABSENT" /\ Goto(p, "claim")
      BY <2>1, <3>1, Moves
    <3>2. CASE Provisional(r) /\ Goto(p, "tstop")
      BY <2>1, <3>2, Moves, SMTT(30)
    <3>0. call[p].op = "activate" => AuthorizedSpec[call[p].x] = row[r].spec
      BY DEF Refused
    <3>3. CASE row[r].st = "CLAIMED" /\ Goto(p, "prepare")
      BY <2>1, <3>0, <3>3, Moves
    <3>4. CASE row[r].st \in {"READY", "ACTIVATING", "ACTIVE"} /\ Goto(p, "activate")
      <4>1. /\ call'[p].pc = "activate"
            /\ call'[p].op = call[p].op /\ call'[p].r = r /\ call'[p].x = call[p].x
        BY <3>4, Moves
      <4> QED
        BY <2>1, <3>0, <3>4, <4>1
    <3>5. CASE Finish(p)
      BY <2>1, <3>5, FinishEffect, SMTT(30)
    <3> QED
      BY <2>3, <3>1, <3>2, <3>3, <3>4, <3>5, ZenonT(30) DEF EnsureReadyLocked
  <2> QED
    BY <1>3, <2>2, <2>3 DEF Enter
<1>4. CASE Claim(p)
  BY <1>4, Moves, SMTT(30) DEF Claim, TypeOK, claim, Wanted, HoldsLock
<1>5. CASE Prepare(p)
  BY <1>5, Moves, SMTT(30) DEF Prepare, TypeOK, Building, BuildReplica, HoldsLock
<1>6. CASE Create(p)
  <2>1. call[p].pc = "create" /\ row' = row /\ dirs' = dirs
    BY <1>6 DEF Create
  <2>2. CASE Finish(p) /\ container' = container
    BY <2>1, <2>2, FinishEffect, SMTT(30)
  <2>3. CASE /\ Goto(p, "register") /\ container' = container
             /\ container[r].phase # "none"
             /\ IF Building(p) = "act" THEN MatchesAct(r) ELSE MatchesPre(r)
    BY <2>1, <2>3, Moves, SMTT(30) DEF Building, MatchesAct, MatchesPre
  <2>4. CASE /\ Goto(p, "register")
             /\ container' = [container EXCEPT ![r] =
                  [phase |-> Building(p), spec |-> row[r].spec, act |-> row[r].act,
                   k |-> row[r].k, cluster |-> cluster, run |-> FALSE]]
    <3>1. /\ container'[r].phase = Building(p) /\ container'[r].spec = row[r].spec
          /\ container'[r].act = row[r].act /\ container'[r].k = row[r].k
      BY <2>4 DEF TypeOK
    <3>2. /\ call'[p].pc = "register"
          /\ call'[p].op = call[p].op /\ call'[p].r = r /\ call'[p].x = call[p].x
      BY <2>4, Moves
    <3>3. CASE row[r].st = "CLAIMED"
      BY <2>1, <3>1, <3>2, <3>3 DEF Building
    <3>4. CASE row[r].st = "ACTIVATING"
      BY <2>1, <3>1, <3>2, <3>4, SMTT(30) DEF Building
    <3> QED
      BY <2>1, <3>3, <3>4
  <2> QED
    BY <1>6, <2>2, <2>3, <2>4, ZenonT(30) DEF Create
<1>7. CASE Register(p)
  BY <1>7, Moves, SMTT(30) DEF Register, TypeOK, Building, BuildReplica, HoldsLock
<1>8. CASE Start(p)
  <2>1. /\ call[p].pc = "start" /\ call'[p].pc = "probe"
        /\ call'[p].op = call[p].op /\ call'[p].r = r /\ call'[p].x = call[p].x
    BY <1>8, Moves DEF Start
  <2>2. /\ row' = row /\ dirs' = dirs
        /\ container'[r].phase = container[r].phase /\ container'[r].spec = container[r].spec
        /\ container'[r].act = container[r].act /\ container'[r].k = container[r].k
    BY <1>8, SetRunEffect, ZenonT(30) DEF Start
  <2> QED
    BY <2>1, <2>2
<1>9. CASE Probe(p)
  <2>1. call[p].pc = "probe" /\ container' = container /\ dirs' = dirs
    BY <1>9, SMTT(30) DEF Probe
  <2>2. CASE row[r].st = "ACTIVATING"
    <3>1. markActive(r) /\ Finish(p)
      BY <1>9, <2>2 DEF Probe, Building
    <3>2. row'[r] = [st |-> "ACTIVE", spec |-> row[r].spec, act |-> row[r].act, k |-> row[r].k]
      BY <3>1, SMTT(30) DEF markActive, TypeOK
    <3> QED
      BY <2>1, <2>2, <3>1, <3>2, FinishEffect, SMTT(30)
  <2>3. CASE row[r].st = "CLAIMED"
    <3>1. markReady(r) /\ (Finish(p) \/ (call[p].op = "activate" /\ Goto(p, "activate")))
      BY <1>9, <2>3 DEF Probe, Building
    <3>2. row'[r] = [st |-> "READY", spec |-> row[r].spec, act |-> row[r].act, k |-> row[r].k]
      BY <2>3, <3>1 DEF markReady, TypeOK
    <3>3. CASE Finish(p)
      BY <2>1, <2>3, <3>2, <3>3, FinishEffect
    <3>4. CASE call[p].op = "activate" /\ Goto(p, "activate")
      BY <2>1, <2>3, <3>2, <3>4, Moves, SMTT(30)
    <3> QED
      BY <3>1, <3>3, <3>4
  <2> QED
    BY <2>1, <2>2, <2>3
<1>10. CASE Activate(p)
  <2>1. call[p].pc = "activate" /\ container' = container /\ dirs' = dirs
    BY <1>10 DEF Activate
  <2>2. CASE row' = row /\ Finish(p)
    BY <2>1, <2>2, FinishEffect
  <2>3. CASE row[r].st = "ACTIVATING" /\ row' = row /\ Goto(p, "prepare")
    BY <2>1, <2>3, Moves, SMTT(30)
  <2>4. CASE row[r].st = "READY" /\ claimActivation(r, call[p].x) /\ Goto(p, "prepare")
    <3>1. row'[r] = [st |-> "ACTIVATING", spec |-> row[r].spec, act |-> call[p].x, k |-> row[r].k]
      BY <2>4 DEF claimActivation, TypeOK
    <3>2. call[p].op = "activate" /\ call[p].x \in Activations
      BY <2>1, SMTT(30) DEF HoldsLock
    <3> QED
      BY <2>1, <2>4, <3>1, <3>2, Moves
  <2> QED
    BY <1>10, <2>2, <2>3, <2>4, ZenonT(30) DEF Activate
<1>11. CASE Swap(p)
  <2>1. call[p].pc = "swap" /\ row' = row /\ dirs' = dirs
    BY <1>11 DEF Swap
  <2>2. CASE Finish(p) /\ container' = container
    BY <2>1, <2>2, FinishEffect
  <2>3. CASE Goto(p, "oldclean") /\ container' = container
    BY <2>1, <2>3, Moves
  <2>4. CASE Goto(p, "oldclean") /\ container' = [container EXCEPT ![r] = NoContainer]
    <3>1. container'[r].phase = "none"
      BY <2>4, SMTT(30) DEF TypeOK, NoContainer
    <3> QED
      BY <2>1, <2>4, <3>1, Moves, SMTT(30)
  <2>5. CASE SetRun(r, FALSE) /\ UNCHANGED <<call, lock>>
    <3>1. /\ container'[r].phase = container[r].phase /\ container'[r].spec = container[r].spec
          /\ container'[r].act = container[r].act /\ container'[r].k = container[r].k
      BY <2>5, SetRunEffect
    <3> QED
      BY <2>1, <2>5, <3>1
  <2> QED
    BY <1>11, <2>2, <2>3, <2>4, <2>5, ZenonT(30) DEF Swap, callVars
<1>12. CASE OldClean(p)
  BY <1>12, Moves DEF OldClean, TypeOK, Cleanup, HoldsLock
<1>13. CASE EnterRemove(p)
  BY <1>13, Moves, FinishEffect, SMTT(30) DEF EnterRemove, TypeOK, HoldsLock
<1>14. CASE EnterErase(p)
  BY <1>14, Moves, EraseLeaveEffect, SMTT(30) DEF EnterErase, TypeOK, HoldsLock
<1>15. CASE TearStop(p)
  <2>1. /\ call[p].pc = "tstop" /\ call'[p].pc = "tremove"
        /\ call'[p].op = call[p].op /\ call'[p].r = r /\ call'[p].x = call[p].x
    BY <1>15, Moves DEF TearStop
  <2>2. /\ row' = row /\ dirs' = dirs
        /\ container'[r].phase = container[r].phase /\ container'[r].spec = container[r].spec
        /\ container'[r].act = container[r].act /\ container'[r].k = container[r].k
    BY <1>15, SetRunEffect DEF TearStop
  <2> QED
    BY <2>1, <2>2
<1>16. CASE TearRemove(p)
  BY <1>16, Moves DEF TearRemove, TypeOK, NoContainer, HoldsLock
<1>17. CASE TearClean(p)
  BY <1>17, Moves, SMTT(30) DEF TearClean, TypeOK, Cleanup, HoldsLock
<1>18. CASE TearCleanActive(p)
  <2>1. /\ call[p].pc = "tclean2" /\ call'[p].pc = "tdelete"
        /\ call'[p].op = call[p].op /\ call'[p].r = r /\ call'[p].x = call[p].x
    BY <1>18, Moves DEF TearCleanActive
  <2>2. row' = row /\ container' = container /\ dirs' = dirs \ {ActReplica(r)}
    BY <1>18, SMTT(30) DEF TearCleanActive, Cleanup
  <2> QED
    BY <2>1, <2>2
<1>19. CASE TearDelete(p)
  <2>1. /\ call[p].pc = "tdelete" /\ container' = container /\ dirs' = dirs
        /\ row'[r].st = "ABSENT" /\ row'[r].spec = Nobody /\ row'[r].act = Nobody
        /\ row'[r].k = row[r].k
    BY <1>19 DEF TearDelete, deleteByRuntimeId, TypeOK
  <2>2. RowInv(r)' /\ ContInv(r)' /\ DirInv(r)'
    BY <2>1
  <2>3. CASE Goto(p, "absent") \/ Goto(p, "claim")
    BY <2>1, <2>2, <2>3, Moves
  <2>4. CASE EraseLeave(p)
    BY <2>1, <2>2, <2>4, EraseLeaveEffect
  <2> QED
    BY <1>19, <2>3, <2>4, ZenonT(30) DEF TearDelete
<1>20. CASE Absent(p)
  BY <1>20, FinishEffect, SMTT(30) DEF Absent, TypeOK, HoldsLock
<1>21. CASE Load(p) \/ Record(p) \/ EraseNext(p) \/ EraseImage(p) \/ EraseIndex(p) \/ Erased(p)
  BY <1>21 DEF Load, Record, EraseNext, EraseImage, EraseIndex, Erased, LockedPc
<1> QED
  BY <1>1, <1>2, <1>3, <1>4, <1>5, <1>6, <1>7, <1>8, <1>9, <1>10, <1>11, <1>12, <1>13, <1>14, <1>15, <1>16, <1>17, <1>18, <1>19, <1>20, <1>21, ZenonT(30) DEF CallStep

\* A socket lies in a directory of the broker; a call steps only while the process
\* serves; a call that holds no lock does not get one but through the mutex.
LEMMA SocketStep ==
    ASSUME TypeOK, NEW p \in Calls, CallStep(p), sockets \subseteq dirs
    PROVE  /\ sockets' \subseteq dirs'
           /\ process = "up"
           /\ call[p].pc \notin LockedPc => call'[p].pc \notin LockedPc
<1> USE DEF At, brokerVars, LockedPc, TearPc
<1>1. CASE Fail(p)
  BY <1>1, FinishEffect DEF Fail
<1>2. CASE SocketLost(p)
  BY <1>2 DEF SocketLost
<1>3. CASE Enter(p)
  BY <1>3 DEF Enter
<1>4. CASE Claim(p)
  BY <1>4 DEF Claim
<1>5. CASE Prepare(p)
  BY <1>5 DEF Prepare
<1>6. CASE Create(p)
  BY <1>6 DEF Create
<1>7. CASE Register(p)
  BY <1>7 DEF Register
<1>8. CASE Start(p)
  BY <1>8 DEF Start
<1>9. CASE Probe(p)
  BY <1>9 DEF Probe
<1>10. CASE Activate(p)
  BY <1>10 DEF Activate
<1>11. CASE Swap(p)
  BY <1>11 DEF Swap
<1>12. CASE OldClean(p)
  BY <1>12 DEF OldClean, Cleanup
<1>13. CASE EnterRemove(p)
  BY <1>13 DEF EnterRemove
<1>14. CASE EnterErase(p)
  BY <1>14 DEF EnterErase
<1>15. CASE TearStop(p)
  BY <1>15 DEF TearStop
<1>16. CASE TearRemove(p)
  BY <1>16 DEF TearRemove
<1>17. CASE TearClean(p)
  BY <1>17 DEF TearClean, Cleanup
<1>18. CASE TearCleanActive(p)
  BY <1>18 DEF TearCleanActive, Cleanup
<1>19. CASE TearDelete(p)
  BY <1>19 DEF TearDelete
<1>20. CASE Absent(p)
  BY <1>20 DEF Absent
<1>21. CASE Load(p)
  BY <1>21, GotoEffect, FinishEffect DEF Load, Pc, TypeOK
<1>22. CASE Record(p)
  BY <1>22, FinishEffect DEF Record, Pc, TypeOK
<1>23. CASE EraseNext(p)
  BY <1>23 DEF EraseNext, Pc, TypeOK
<1>24. CASE EraseImage(p)
  BY <1>24, GotoEffect, FinishEffect DEF EraseImage, Pc, TypeOK
<1>25. CASE EraseIndex(p)
  BY <1>25, GotoEffect, FinishEffect DEF EraseIndex, Pc, TypeOK
<1>26. CASE Erased(p)
  BY <1>26, FinishEffect DEF Erased, Pc, TypeOK
<1> QED
  BY <1>1, <1>2, <1>3, <1>4, <1>5, <1>6, <1>7, <1>8, <1>9, <1>10, <1>11, <1>12, <1>13, <1>14, <1>15, <1>16, <1>17, <1>18, <1>19, <1>20, <1>21, <1>22, <1>23, <1>24, <1>25, <1>26 DEF CallStep

\* The inductive invariant is preserved by every step.
LEMMA InvStep == IInv /\ [Next]_vars => IInv'
<1> SUFFICES ASSUME IInv, [Next]_vars PROVE IInv'
  OBVIOUS
<1> USE ConstantsAssumption DEF IInv
<1>0. TypeOK' /\ LockInv'
  BY TypeStep
<1> DEFINE Rest == /\ IdleInv /\ sockets \subseteq dirs
                   /\ \A r \in Runtimes : RowInv(r) /\ ContInv(r) /\ DirInv(r)
                   /\ \A p \in Calls : CallInv(p)
<1> SUFFICES Rest'
  BY <1>0
<1> USE DEF RowInv, ContInv, DirInv, CallInv, Provisional, Activated, PreReplica, ActReplica
<1>1. CASE UNCHANGED vars
  BY <1>1 DEF vars, ledgerVars, brokerVars, callVars, hostVars, IdleInv
<1>2. ASSUME NEW p \in Calls, CallStep(p) PROVE Rest'
  <2>1. sockets' \subseteq dirs' /\ IdleInv'
    BY <1>2, SocketStep, DataStep DEF IdleInv, hostVars
  <2>2. ASSUME NEW r \in Runtimes PROVE RowInv(r)' /\ ContInv(r)' /\ DirInv(r)'
    <3>1. CASE call[p].pc \in LockedPc /\ call[p].r = r
      <4> HIDE DEF RowInv, ContInv, DirInv, CallInv
      <4> QED
        BY <1>2, <3>1, OwnStep
    <3>2. CASE ~(call[p].pc \in LockedPc /\ call[p].r = r)
      <4>1. /\ row'[r] = row[r] /\ container'[r] = container[r]
            /\ \A x \in Replicas : x[1] = r => (x \in dirs' <=> x \in dirs)
        BY <1>2, <3>2, FrameStep
      <4>2. dirs' \subseteq Replicas
        BY <1>0 DEF TypeOK
      <4> QED
        BY <4>1, <4>2
    <3> QED
      BY <3>1, <3>2
  <2>3. CallInv(p)'
    <3>1. CASE call[p].pc \in LockedPc
      <4> HIDE DEF RowInv, ContInv, DirInv, CallInv
      <4>1. call[p].r \in Runtimes
        BY <3>1 DEF LockInv, HoldsLock
      <4> QED
        BY <1>2, <3>1, <4>1, OwnStep
    <3>2. CASE call[p].pc \notin LockedPc
      <4>1. call'[p].pc \notin LockedPc
        BY <1>2, <3>2, SocketStep
      <4> QED
        BY <4>1 DEF LockedPc, TearPc, BuildPc
    <3> QED
      BY <3>1, <3>2
  <2>4. ASSUME NEW q \in Calls \ {p} PROVE CallInv(q)'
    <3>1. call'[q] = call[q]
      BY <1>2, ControlStep DEF OthersKept
    <3>2. CASE call[q].pc \in LockedPc
      <4>1. call[q].r \in Runtimes /\ (call[p].pc \in LockedPc => call[p].r # call[q].r)
        BY <3>2 DEF LockInv, HoldsLock
      <4>2. /\ row'[call[q].r] = row[call[q].r] /\ container'[call[q].r] = container[call[q].r]
            /\ \A x \in Replicas : x[1] = call[q].r => (x \in dirs' <=> x \in dirs)
        BY <1>2, <4>1, FrameStep
      <4>3. PreReplica(call[q].r) \in Replicas /\ ActReplica(call[q].r) \in Replicas
        BY <4>1 DEF TypeOK, RowRecord, Replica, Replicas, Phase
      <4>4. /\ PreReplica(call[q].r)' = PreReplica(call[q].r) /\ PreReplica(call[q].r)[1] = call[q].r
            /\ ActReplica(call[q].r)' = ActReplica(call[q].r) /\ ActReplica(call[q].r)[1] = call[q].r
        BY <3>1, <4>2 DEF Replica
      <4> HIDE DEF PreReplica, ActReplica
      <4> QED
        BY <3>1, <4>2, <4>3, <4>4
    <3>3. CASE call[q].pc \notin LockedPc
      BY <3>1, <3>3 DEF LockedPc, TearPc, BuildPc
    <3> QED
      BY <3>2, <3>3
  <2> QED
    BY <2>1, <2>2, <2>3, <2>4
<1>3. ASSUME NEW p \in Calls, Acquire(p) PROVE Rest'
  BY <1>3 DEF Acquire, At, IdleInv, ledgerVars, brokerVars, hostVars, TypeOK, CallRecord,
     BuildPc, TearPc
<1>4. ASSUME NEW p \in Calls, Arrive(p) PROVE Rest'
  <2>1. ASSUME NEW o, NEW r, NEW x, NEW todo, NEW pc \in {"lock", "next", "load"},
               Begin(p, o, r, x, todo, pc)
        PROVE  Rest'
    BY <2>1 DEF Begin, IdleInv, ledgerVars, brokerVars, hostVars, TypeOK, CallRecord,
       BuildPc, TearPc
  <2> HIDE DEF Rest
  <2> QED
    BY <1>4, <2>1 DEF Arrive, ensureReady, status, activate, remove, stage, removeArtifact
<1>5. CASE Pair
  BY <1>5 DEF Pair, IdleInv, ledgerVars, brokerVars, callVars
<1>6. CASE Crash \/ Reboot
  <2>1. /\ row' = row /\ sockets' = {} /\ dirs' \subseteq dirs
        /\ \A p \in Calls : call'[p].pc = "done"
    BY <1>6 DEF Crash, Reboot, ProcessLost, ledgerVars, NoCall
  <2>2. \A r \in Runtimes : /\ container'[r].phase = container[r].phase
                            /\ container'[r].spec = container[r].spec
                            /\ container'[r].act = container[r].act
                            /\ container'[r].k = container[r].k
    <3>1. CASE Crash
      BY <3>1 DEF Crash
    <3>2. CASE Reboot
      <4>1. PICK back \in SUBSET Runtimes : Running([r \in Runtimes |-> r \in back])
        BY <3>2 DEF Reboot
      <4>2. [r \in Runtimes |-> r \in back] \in [Runtimes -> BOOLEAN]
        OBVIOUS
      <4> QED
        BY <4>1, <4>2, RunningEffect
    <3> QED
      BY <1>6, <3>1, <3>2
  <2> QED
    BY <2>1, <2>2 DEF IdleInv, BuildPc, TearPc
<1>7. CASE Rebind
  <2>1. PICK bound \in SUBSET Runtimes, made \in SUBSET Runtimes,
            lost \in SUBSET Runtimes, up \in SUBSET Runtimes :
          RebindTo(bound, made, lost, up) /\ \A r \in bound \cup made : row[r].st = "ACTIVE"
    BY <1>7 DEF Rebind, Rebindable, ActiveRecords
  <2>2. [r \in Runtimes |-> IF r \in bound THEN r \in up /\ container[r].phase # "none"
                                          ELSE container[r].run] \in [Runtimes -> BOOLEAN]
    BY DEF TypeOK, ContainerRecord
  <2>3. \A r \in Runtimes : /\ container'[r].phase = container[r].phase
                            /\ container'[r].spec = container[r].spec
                            /\ container'[r].act = container[r].act
                            /\ container'[r].k = container[r].k
    BY <2>1, <2>2, RunningEffect DEF RebindTo
  <2>4. row' = row /\ \A p \in Calls : call'[p].pc = "done"
    BY <1>7 DEF Rebind, IdleInv, ledgerVars, callVars
  <2>5. sockets' \subseteq dirs' /\ \A x \in dirs' : x \in dirs \/ \E r \in bound \cup made : x = ActReplica(r)
    BY <2>1 DEF RebindTo
  <2>6. ASSUME NEW r \in Runtimes PROVE DirInv(r)'
    <3>1. ASSUME NEW x \in dirs', x[1] = r, x \notin dirs
          PROVE  row[r].st = "ACTIVE" /\ x = ActReplica(r)
      BY <2>1, <2>5, <3>1 DEF Replica
    <3> QED
      BY <2>4, <3>1
  <2>7. IdleInv'
    BY <2>4 DEF IdleInv
  <2>8. \A r \in Runtimes : RowInv(r)' /\ ContInv(r)'
    BY <2>3, <2>4
  <2>9. \A p \in Calls : CallInv(p)'
    BY <2>4 DEF BuildPc, TearPc
  <2> HIDE DEF RowInv, ContInv, DirInv, CallInv
  <2> QED
    BY <2>5, <2>6, <2>7, <2>8, <2>9
<1>8. CASE Sweep
  <2>1. /\ row' = row /\ container' = container /\ call' = call
        /\ dirs' \subseteq dirs /\ sockets' \subseteq dirs'
    BY <1>8 DEF Sweep, ledgerVars, callVars
  <2> QED
    BY <1>8, <2>1 DEF Sweep, IdleInv
<1> HIDE DEF Rest
<1> QED
  BY <1>1, <1>2, <1>3, <1>4, <1>5, <1>6, <1>7, <1>8 DEF Next, StartUp

\* The initial state satisfies the invariant.
LEMMA InvInit == Init => IInv
BY ConstantsAssumption
   DEF Init, IInv, TypeOK, LockInv, HoldsLock, IdleInv, RowInv, ContInv, DirInv, CallInv, NoCall,
       NoContainer, RowRecord, ContainerRecord, CallRecord, RowState, Phase, Op, Pc, LockedPc,
       TearPc, BuildPc, Provisional, Activated

\* The inductive invariant always holds.
LEMMA InvCorrect == Spec => []IInv
BY InvInit, InvStep, PTL DEF Spec

-----------------------------------------------------------------------------
(* Theorems.                                                                *)

\* Every variable of the driver stays in its state space.
THEOREM TypeCorrect == Spec => []TypeOK
<1>1. IInv => TypeOK
  BY DEF IInv
<1> QED
  BY <1>1, InvCorrect, PTL

\* No crash, failure or race leaves a container that its ledger row does not account
\* for, or one of the wrong phase (reconcileContainer, removeContainerVerified).
THEOREM ContainersAreOwned == Spec => []ContainerOwned
<1>1. IInv => ContainerOwned
  BY DEF IInv, ContInv, ContainerOwned
<1> QED
  BY <1>1, InvCorrect, PTL

\* No crash, failure or race leaks a broker directory (teardownRecorded's order).
THEOREM DirectoriesAreKnown == Spec => []DirsKnown
<1>1. IInv => DirsKnown
  <2> SUFFICES ASSUME IInv, NEW x \in dirs
               PROVE  row[x[1]].st # "ABSENT" /\ x[3] = row[x[1]].k /\ (x[2] = "act" => Activated(x[1]))
    BY DEF DirsKnown
  <2>1. x[1] \in Runtimes
    BY DEF IInv, TypeOK, Replicas
  <2> QED
    BY <2>1 DEF IInv, DirInv, PreReplica, ActReplica, Replica
<1> QED
  BY <1>1, InvCorrect, PTL

\* The ledger accounts for every container and every broker directory.
THEOREM LedgerIsComplete == Spec => []LedgerAccounts
  BY ContainersAreOwned, DirectoriesAreKnown, PTL DEF LedgerAccounts

\* The ABSENT evidence of REMOVE is true when it is given (remove).
THEOREM AbsenceIsReal == Spec => []AbsentIsAbsent
<1>1. IInv => AbsentIsAbsent
  <2> SUFFICES ASSUME IInv, NEW p \in Calls, At(p, "absent")
               PROVE  /\ row[Target(p)].st = "ABSENT"
                      /\ container[Target(p)].phase = "none"
                      /\ \A x \in dirs \cup sockets : x[1] # Target(p)
    BY DEF AbsentIsAbsent
  <2>1. call[p].r \in Runtimes
    BY DEF IInv, LockInv, HoldsLock, At, LockedPc
  <2>2. row[call[p].r].st = "ABSENT"
    BY DEF IInv, CallInv, At
  <2> QED
    BY <2>1, <2>2 DEF IInv, ContInv, DirInv, Target
<1> QED
  BY <1>1, InvCorrect, PTL

\* What was activated was authorized for exactly the request it was built from
\* (assertActivationAffinity, claimActivation).
THEOREM ActivationsAreAuthorized == Spec => []ActivationAuthorized
<1>1. IInv => ActivationAuthorized
  BY DEF IInv, RowInv, ActivationAuthorized
<1> QED
  BY <1>1, InvCorrect, PTL

-----------------------------------------------------------------------------
(* The broker's side: which identity directories and sockets are there.  It *)
(* is inductive beside IInv.                                                *)

\* What the teardown and the activation have put behind them, and which socket a
\* call has bound.
ServeInv(p) ==
    LET r == call[p].r  pc == call[p].pc IN
    /\ pc = "start" => BuildReplica(p) \in sockets
    /\ pc = "probe" /\ row[r].st = "ACTIVATING" => ActReplica(r) \in sockets
    /\ pc \in {"create", "register", "start", "probe"} /\ row[r].st = "ACTIVATING"
         => PreReplica(r) \notin dirs
    /\ pc \in TearPc \ {"tstop"} => ~container[r].run

\* The active container excludes the preactivation directory; an application that
\* runs has its socket, unless the last start of the process could not bind it.
BoundInv(r) ==
    /\ container[r].phase = "act" => PreReplica(r) \notin dirs
    /\ process # "down" /\ row[r].st = "ACTIVE" /\ container[r].run /\ r \notin unbound
         => ActReplica(r) \in sockets

IdentityInv ==
    /\ \A p \in Calls : ServeInv(p)
    /\ \A r \in Runtimes : BoundInv(r)

\* A step of a call binds or closes the sockets of no runtime but the one it holds the
\* lock of.
LEMMA SocketFrame ==
    ASSUME TypeOK, NEW p \in Calls, CallStep(p), NEW r \in Runtimes,
           call[p].pc \in LockedPc => call[p].r # r
    PROVE  \A x \in Replicas : x[1] = r => (x \in sockets' <=> x \in sockets)
<1> USE DEF At, Target, LockedPc, TearPc, brokerVars
<1>1. sockets' = sockets
      \/ \E x : x[1] = call[p].r /\ call[p].pc \in LockedPc
               /\ (sockets' = sockets \ {x} \/ sockets' = sockets \cup {x})
  <2>1. CASE SocketLost(p)
    BY <2>1 DEF SocketLost, BuildReplica, PreReplica, ActReplica, Replica
  <2>2. CASE Register(p)
    BY <2>2 DEF Register, BuildReplica, Replica
  <2>3. CASE OldClean(p) \/ TearClean(p) \/ TearCleanActive(p)
    BY <2>3 DEF OldClean, TearClean, TearCleanActive, Cleanup, PreReplica, ActReplica, Replica
  <2>4. CASE ~(SocketLost(p) \/ Register(p) \/ OldClean(p) \/ TearClean(p) \/ TearCleanActive(p))
    BY <2>4 DEF CallStep, Fail, Enter, Claim, Prepare, Create, Start, Probe, Activate, Swap,
       EnterRemove, EnterErase, TearStop, TearRemove, TearDelete, Absent, Load, Record,
       EraseNext, EraseImage, EraseIndex, Erased
  <2> QED
    BY <2>1, <2>2, <2>3, <2>4
<1> QED
  BY <1>1

\* A step of a call keeps what IdentityInv says of itself and of its runtime.
LEMMA ServeStep ==
    ASSUME TypeOK, LockInv, NEW p \in Calls, CallStep(p), call[p].pc \in LockedPc,
           NEW r \in Runtimes, r = call[p].r, process = "up",
           CallInv(p), RowInv(r), ContInv(r), ServeInv(p), BoundInv(r)
    PROVE  ServeInv(p)' /\ BoundInv(r)'
<1> USE DEF ServeInv, BoundInv, CallInv, ContInv, Activated, BuildReplica, Building, PreReplica,
        ActReplica, Replica, At, Target, ledgerVars, brokerVars, TearPc, BuildPc
<1> row[r] \in RowRecord /\ container[r] \in ContainerRecord
  BY DEF TypeOK
<1> HoldsLock(p)
  BY DEF LockInv
<1>0. process' = process /\ unbound' = unbound
  BY DataStep DEF hostVars
<1>1. CASE Fail(p) \/ Absent(p)
  <2>1. row' = row /\ container' = container /\ dirs' = dirs /\ sockets' = sockets
        /\ call'[p].pc = "done"
    BY <1>1, FinishEffect DEF Fail, Absent
  <2> QED
    BY <1>0, <2>1
<1>2. CASE SocketLost(p)
  <2>1. row' = row /\ container' = container /\ dirs' = dirs /\ call'[p].pc = "done"
    BY <1>2, FinishEffect DEF SocketLost
  <2>2. \/ sockets' = sockets \ {BuildReplica(p)} /\ call[p].pc = "register"
        \/ sockets' = sockets \ {PreReplica(r)}
        \/ sockets' = sockets \ {ActReplica(r)} /\ call[p].pc = "tclean2"
    BY <1>2 DEF SocketLost
  <2> QED
    BY <1>0, <2>1, <2>2
<1>3. CASE Enter(p) \/ EnterRemove(p) \/ EnterErase(p)
  <2>1. row' = row /\ container' = container /\ dirs' = dirs /\ sockets' = sockets
    BY <1>3 DEF Enter, EnterRemove, EnterErase
  <2>2. \/ Finish(p) \/ EraseLeave(p)
        \/ \E pc \in {"claim", "tstop", "prepare", "activate", "absent"} : Goto(p, pc)
    BY <1>3, ZenonT(30) DEF Enter, EnsureReadyLocked, EnterRemove, EnterErase
  <2>3. call'[p].pc \in {"claim", "tstop", "prepare", "activate", "absent", "done", "next"}
    BY <2>2, Moves, FinishEffect, EraseLeaveEffect
  <2> QED
    BY <1>0, <2>1, <2>3
<1>4. CASE Claim(p)
  <2>1. /\ row'[r].st = "CLAIMED" /\ call'[p].pc = "prepare" /\ container' = container
        /\ row[r].st = "ABSENT"
    BY <1>4, Moves, SMTT(30) DEF Claim, TypeOK, claim
  <2> QED
    BY <1>0, <2>1
<1>5. CASE Prepare(p)
  <2>1. /\ row' = row /\ container' = container /\ sockets' = sockets
        /\ dirs' = dirs \cup {BuildReplica(p)} /\ call[p].pc = "prepare"
        /\ call'[p].r = r
    BY <1>5, Moves DEF Prepare
  <2>2. \/ call'[p].pc = "swap"
        \/ call'[p].pc = "create" /\ (row[r].st = "ACTIVATING" => MatchesAct(r))
    BY <1>5, Moves DEF Prepare
  <2>3. MatchesAct(r) => container[r].phase = "act"
    BY DEF MatchesAct
  <2> QED
    BY <1>0, <2>1, <2>2, <2>3
<1>6. CASE Create(p)
  <2>1. /\ row' = row /\ dirs' = dirs /\ sockets' = sockets /\ call[p].pc = "create"
    BY <1>6 DEF Create
  <2>2. container' = container \/ (container'[r].phase = Building(p) /\ container'[r].run = FALSE)
    BY <1>6 DEF Create, TypeOK
  <2>3. call'[p].pc = "done" \/ (call'[p].pc = "register" /\ call'[p].r = r)
    <3>1. Finish(p) \/ Goto(p, "register")
      BY <1>6 DEF Create
    <3> QED
      BY <3>1, Moves, FinishEffect
  <2> QED
    BY <1>0, <2>1, <2>2, <2>3
<1>7. CASE Register(p)
  <2>1. /\ row' = row /\ container' = container /\ call[p].pc = "register"
        /\ dirs' = dirs \cup {BuildReplica(p)} /\ sockets' = sockets \cup {BuildReplica(p)}
        /\ call'[p].r = r /\ call'[p].pc = "start"
    BY <1>7, Moves DEF Register
  <2> QED
    BY <1>0, <2>1
<1>8. CASE Start(p)
  <2>1. /\ row' = row /\ dirs' = dirs /\ sockets' = sockets /\ call[p].pc = "start"
        /\ container'[r].phase = container[r].phase
        /\ call'[p].r = r /\ call'[p].pc = "probe"
    BY <1>8, Moves, SetRunEffect DEF Start
  <2> QED
    BY <1>0, <2>1
<1>9. CASE Probe(p)
  <2>1. /\ container' = container /\ dirs' = dirs /\ sockets' = sockets /\ call[p].pc = "probe"
    BY <1>9, SMTT(30) DEF Probe
  <2>2. row'[r].k = row[r].k /\ (row'[r].st = "ACTIVE" => row[r].st = "ACTIVATING")
    <3>1. CASE row[r].st = "ACTIVATING"
      BY <1>9, <3>1 DEF Probe, markActive, TypeOK
    <3>2. CASE row[r].st = "CLAIMED"
      BY <1>9, <3>2 DEF Probe, markReady, TypeOK
    <3> QED
      BY <2>1, <3>1, <3>2
  <2>3. call'[p].pc \in {"done", "activate"}
    <3>1. Finish(p) \/ Goto(p, "activate")
      BY <1>9 DEF Probe
    <3> QED
      BY <3>1, Moves, FinishEffect
  <2> QED
    BY <1>0, <2>1, <2>2, <2>3
<1>10. CASE Activate(p)
  <2>1. /\ container' = container /\ dirs' = dirs /\ sockets' = sockets
        /\ row'[r].k = row[r].k /\ (row'[r].st = "ACTIVE" => row[r].st = "ACTIVE")
    BY <1>10 DEF Activate, claimActivation, TypeOK
  <2>2. call'[p].pc \in {"done", "prepare"}
    <3>1. Finish(p) \/ Goto(p, "prepare")
      BY <1>10 DEF Activate
    <3> QED
      BY <3>1, Moves, FinishEffect
  <2> QED
    BY <1>0, <2>1, <2>2
<1>11. CASE Swap(p)
  <2>1. row' = row /\ dirs' = dirs /\ sockets' = sockets /\ call[p].pc = "swap"
    BY <1>11 DEF Swap
  <2>2. container'[r].phase \in {container[r].phase, "none"}
    <3>1. container' = container \/ SetRun(r, FALSE) \/ container'[r] = NoContainer
      BY <1>11 DEF Swap, TypeOK
    <3>2. SetRun(r, FALSE) => container'[r].phase = container[r].phase
      BY SetRunEffect
    <3>3. NoContainer.phase = "none"
      BY DEF NoContainer
    <3>4. CASE SetRun(r, FALSE)
      BY <3>2, <3>4
    <3> QED
      BY <3>1, <3>3, <3>4
  <2>3. call'[p].pc \in {"done", "oldclean", "swap"}
    <3>1. Finish(p) \/ Goto(p, "oldclean") \/ call' = call
      BY <1>11 DEF Swap, callVars
    <3> QED
      BY <2>1, <3>1, Moves, FinishEffect
  <2> QED
    BY <1>0, <2>1, <2>2, <2>3
<1>12. CASE OldClean(p)
  <2>1. /\ row' = row /\ container' = container /\ call[p].pc = "oldclean"
        /\ dirs' = dirs \ {PreReplica(r)} /\ call'[p].r = r /\ call'[p].pc = "create"
    BY <1>12, Moves DEF OldClean, Cleanup
  <2> QED
    BY <1>0, <2>1
<1>13. CASE TearStop(p)
  <2>1. /\ row' = row /\ dirs' = dirs /\ sockets' = sockets
        /\ call'[p].r = r /\ call'[p].pc = "tremove"
        /\ container'[r].phase = container[r].phase /\ ~container'[r].run
    BY <1>13, Moves, SetRunEffect DEF TearStop, SetRun, TypeOK
  <2> QED
    BY <1>0, <2>1
<1>14. CASE TearRemove(p)
  <2>1. /\ row' = row /\ dirs' = dirs /\ sockets' = sockets
        /\ call'[p].r = r /\ call'[p].pc = "tclean"
        /\ container'[r].phase = "none" /\ ~container'[r].run
    BY <1>14, Moves DEF TearRemove, NoContainer, TypeOK
  <2> QED
    BY <1>0, <2>1
<1>15. CASE TearClean(p)
  <2>1. /\ row' = row /\ container' = container /\ call[p].pc = "tclean"
        /\ dirs' = dirs \ {PreReplica(r)} /\ sockets' = sockets \ {PreReplica(r)}
        /\ call'[p].r = r /\ call'[p].pc \in {"tclean2", "tdelete"}
    BY <1>15, Moves DEF TearClean, Cleanup
  <2> QED
    BY <1>0, <2>1
<1>16. CASE TearCleanActive(p)
  <2>1. /\ row' = row /\ container' = container /\ call[p].pc = "tclean2"
        /\ dirs' = dirs \ {ActReplica(r)}
        /\ call'[p].r = r /\ call'[p].pc = "tdelete"
    BY <1>16, Moves DEF TearCleanActive, Cleanup
  <2> QED
    BY <1>0, <2>1
<1>17. CASE TearDelete(p)
  <2>1. /\ container' = container /\ call[p].pc = "tdelete" /\ row'[r].st = "ABSENT"
    BY <1>17 DEF TearDelete, deleteByRuntimeId, TypeOK
  <2>2. call'[p].pc \in {"absent", "next", "claim"}
    <3>1. Goto(p, "absent") \/ EraseLeave(p) \/ Goto(p, "claim")
      BY <1>17, ZenonT(30) DEF TearDelete
    <3> QED
      BY <3>1, Moves, EraseLeaveEffect
  <2> QED
    BY <1>0, <2>1, <2>2
<1>18. CASE Load(p) \/ Record(p) \/ EraseNext(p) \/ EraseImage(p) \/ EraseIndex(p) \/ Erased(p)
  BY <1>18 DEF Load, Record, EraseNext, EraseImage, EraseIndex, Erased, LockedPc
<1> QED
  BY <1>1, <1>2, <1>3, <1>4, <1>5, <1>6, <1>7, <1>8, <1>9, <1>10, <1>11, <1>12, <1>13, <1>14, <1>15, <1>16, <1>17, <1>18, ZenonT(30) DEF CallStep

\* IdentityInv is preserved by every step.
LEMMA IdentityStep == IInv /\ IdentityInv /\ [Next]_vars => IdentityInv'
<1> SUFFICES ASSUME IInv, IdentityInv, [Next]_vars PROVE IdentityInv'
  OBVIOUS
<1> USE DEF IdentityInv
<1>0. TypeOK /\ LockInv
  BY DEF IInv
<1>1. CASE UNCHANGED vars
  BY <1>1 DEF vars, ledgerVars, brokerVars, callVars, hostVars, ServeInv, BoundInv, BuildReplica,
     Building, PreReplica, ActReplica, Target
<1>2. ASSUME NEW p \in Calls, CallStep(p) PROVE IdentityInv'
  <2>0. process = "up" /\ process' = process /\ unbound' = unbound
    BY <1>0, <1>2, SocketStep, DataStep DEF IInv, hostVars
  <2>1. ASSUME NEW r \in Runtimes, call[p].pc \in LockedPc => call[p].r # r
        PROVE  /\ row'[r] = row[r] /\ container'[r] = container[r]
               /\ PreReplica(r)' = PreReplica(r) /\ ActReplica(r)' = ActReplica(r)
               /\ PreReplica(r) \in dirs' <=> PreReplica(r) \in dirs
               /\ PreReplica(r) \in sockets' <=> PreReplica(r) \in sockets
               /\ ActReplica(r) \in sockets' <=> ActReplica(r) \in sockets
    <3>1. /\ row'[r] = row[r] /\ container'[r] = container[r]
          /\ \A x \in Replicas : x[1] = r => (x \in dirs' <=> x \in dirs)
      BY <1>0, <1>2, <2>1, FrameStep
    <3>2. \A x \in Replicas : x[1] = r => (x \in sockets' <=> x \in sockets)
      BY <1>0, <1>2, <2>1, SocketFrame
    <3>3. /\ PreReplica(r) \in Replicas /\ ActReplica(r) \in Replicas
          /\ PreReplica(r)[1] = r /\ ActReplica(r)[1] = r
      BY <1>0 DEF TypeOK, RowRecord, PreReplica, ActReplica, Replica, Replicas, Phase
    <3>4. PreReplica(r)' = PreReplica(r) /\ ActReplica(r)' = ActReplica(r)
      BY <3>1 DEF PreReplica, ActReplica
    <3> QED
      BY <3>1, <3>2, <3>3, <3>4
  <2>2. ASSUME NEW r \in Runtimes PROVE BoundInv(r)'
    <3>1. CASE call[p].pc \in LockedPc /\ call[p].r = r
      BY <1>0, <1>2, <2>0, <3>1, ServeStep DEF IInv
    <3>2. CASE ~(call[p].pc \in LockedPc /\ call[p].r = r)
      BY <2>0, <2>1, <3>2 DEF BoundInv
    <3> QED
      BY <3>1, <3>2
  <2>3. ServeInv(p)'
    <3>1. CASE call[p].pc \in LockedPc
      <4>1. call[p].r \in Runtimes
        BY <1>0, <3>1 DEF LockInv, HoldsLock
      <4> QED
        BY <1>0, <1>2, <2>0, <3>1, <4>1, ServeStep DEF IInv
    <3>2. CASE call[p].pc \notin LockedPc
      <4>1. call'[p].pc \notin LockedPc
        BY <1>0, <1>2, <3>2, SocketStep DEF IInv
      <4> QED
        BY <4>1 DEF ServeInv, LockedPc, TearPc
    <3> QED
      BY <3>1, <3>2
  <2>4. ASSUME NEW q \in Calls \ {p} PROVE ServeInv(q)'
    <3>1. call'[q] = call[q]
      BY <1>0, <1>2, ControlStep DEF OthersKept
    <3>2. CASE call[q].pc \in LockedPc
      <4>1. call[q].r \in Runtimes /\ (call[p].pc \in LockedPc => call[p].r # call[q].r)
        BY <1>0, <3>2 DEF LockInv, HoldsLock
      <4>2. BuildReplica(q) = IF row[call[q].r].st = "ACTIVATING" THEN ActReplica(call[q].r)
                                                                 ELSE PreReplica(call[q].r)
        BY DEF BuildReplica, Building, PreReplica, ActReplica, Target
      <4>3. BuildReplica(q)' = BuildReplica(q)
        BY <2>1, <3>1, <4>1 DEF BuildReplica, Building, Target
      <4> QED
        BY <2>1, <3>1, <4>1, <4>2, <4>3 DEF ServeInv
    <3>3. CASE call[q].pc \notin LockedPc
      BY <3>1, <3>3 DEF ServeInv, LockedPc, TearPc
    <3> QED
      BY <3>2, <3>3
  <2> QED
    BY <2>2, <2>3, <2>4
<1>3. ASSUME NEW p \in Calls, Acquire(p) \/ Arrive(p) PROVE IdentityInv'
  <2>1. /\ row' = row /\ container' = container /\ dirs' = dirs /\ sockets' = sockets
        /\ process' = process /\ unbound' = unbound
    BY <1>3 DEF Acquire, Arrive, ensureReady, status, activate, remove, stage, removeArtifact,
       Begin, ledgerVars, brokerVars, hostVars
  <2>2. \A q \in Calls : call'[q] = call[q] \/ call'[q].pc \in {"enter", "lock", "next", "load"}
    BY <1>0, <1>3 DEF Acquire, Arrive, ensureReady, status, activate, remove, stage,
       removeArtifact, Begin, TypeOK
  <2>3. \A q \in Calls : ServeInv(q)'
    BY <2>1, <2>2 DEF ServeInv, BuildReplica, Building, PreReplica, ActReplica, Target, TearPc
  <2>4. \A r \in Runtimes : BoundInv(r)'
    BY <2>1 DEF BoundInv, PreReplica, ActReplica
  <2> QED
    BY <2>3, <2>4
<1>4. CASE Pair
  BY <1>4 DEF Pair, ledgerVars, brokerVars, callVars, ServeInv, BoundInv, BuildReplica,
     Building, PreReplica, ActReplica, Target
<1>5. CASE Crash \/ Reboot
  <2>1. /\ row' = row /\ dirs' \subseteq dirs /\ process' = "down"
        /\ \A p \in Calls : call'[p].pc = "done"
    BY <1>5 DEF Crash, Reboot, ProcessLost, ledgerVars, NoCall
  <2>2. \A r \in Runtimes : container'[r].phase = container[r].phase
    <3>1. CASE Crash
      BY <3>1 DEF Crash
    <3>2. CASE Reboot
      <4>1. PICK back \in SUBSET Runtimes : Running([r \in Runtimes |-> r \in back])
        BY <3>2 DEF Reboot
      <4>2. [r \in Runtimes |-> r \in back] \in [Runtimes -> BOOLEAN]
        OBVIOUS
      <4> QED
        BY <1>0, <4>1, <4>2, RunningEffect
    <3> QED
      BY <1>5, <3>1, <3>2
  <2> QED
    BY <2>1, <2>2 DEF ServeInv, BoundInv, PreReplica, TearPc
<1>6. CASE Rebind
  <2>1. PICK bound \in SUBSET Runtimes, made \in SUBSET Runtimes,
            lost \in SUBSET Runtimes, up \in SUBSET Runtimes :
          RebindTo(bound, made, lost, up)
    BY <1>6 DEF Rebind, Rebindable, ActiveRecords
  <2>2. [r \in Runtimes |-> IF r \in bound THEN r \in up /\ container[r].phase # "none"
                                          ELSE container[r].run] \in [Runtimes -> BOOLEAN]
    BY <1>0 DEF TypeOK, ContainerRecord
  <2>3. \A r \in Runtimes : container'[r].phase = container[r].phase
    BY <1>0, <2>1, <2>2, RunningEffect DEF RebindTo
  <2>4. row' = row /\ \A p \in Calls : call'[p].pc = "done"
    BY <1>6 DEF Rebind, IInv, IdleInv, ledgerVars, callVars
  <2>5. \A r \in Runtimes : ActReplica(r)' = ActReplica(r) /\ PreReplica(r)' = PreReplica(r)
    BY <2>4 DEF ActReplica, PreReplica
  <2>6. \A r \in Runtimes : PreReplica(r) \in dirs' => PreReplica(r) \in dirs
    BY <2>1 DEF RebindTo, PreReplica, ActReplica, Replica
  <2>7. \A r \in Runtimes : row[r].st = "ACTIVE" /\ r \notin unbound' => ActReplica(r) \in sockets'
    BY <2>1 DEF RebindTo, ActiveRecords
  <2>8. \A p \in Calls : ServeInv(p)'
    BY <2>4 DEF ServeInv, TearPc
  <2> QED
    BY <2>3, <2>4, <2>5, <2>6, <2>7, <2>8 DEF BoundInv
<1>7. CASE Sweep
  <2>1. /\ row' = row /\ container' = container /\ call' = call /\ dirs' \subseteq dirs
        /\ unbound' = unbound /\ process = "rebind"
    BY <1>7 DEF Sweep, ledgerVars, callVars
  <2>2. \A r \in Runtimes : row[r].st = "ACTIVE" /\ ActReplica(r) \in sockets
                            => ActReplica(r) \in sockets'
    BY <1>7 DEF Sweep, KnownReplicas, Activated
  <2>3. \A p \in Calls : call[p].pc = "done"
    BY <2>1 DEF IInv, IdleInv
  <2>4. \A p \in Calls : ServeInv(p)'
    BY <2>1, <2>3 DEF ServeInv, TearPc
  <2> QED
    BY <2>1, <2>2, <2>4 DEF BoundInv, PreReplica, ActReplica
<1> QED
  BY <1>1, <1>2, <1>3, <1>4, <1>5, <1>6, <1>7 DEF Next, StartUp

\* IdentityInv always holds.
LEMMA IdentityCorrect == Spec => []IdentityInv
<1>1. Init => IdentityInv
  BY DEF Init, IdentityInv, ServeInv, BoundInv, NoCall, NoContainer, TearPc
<1> QED
  BY <1>1, IdentityStep, InvCorrect, PTL DEF Spec

\* The application runs behind a bound identity socket, whatever crashed, failed or
\* raced (reconcileContainer, rebindActiveRuntimes, teardownRecorded).
THEOREM IdentityIsBound == Spec => []IdentityBound
<1>1. IdentityInv => IdentityBound
  BY DEF IdentityInv, ServeInv, BoundInv, IdentityBound, At
<1> QED
  BY <1>1, IdentityCorrect, PTL

\* The preactivation identity never outlives the swap to the active container
\* (activate's cleanup of the old binding).
THEOREM SupersededIsGone == Spec => []SupersededGone
<1>1. IInv /\ IdentityInv => SupersededGone
  BY DEF IInv, IdentityInv, BoundInv, SupersededGone
<1> QED
  BY <1>1, IdentityCorrect, InvCorrect, PTL

-----------------------------------------------------------------------------
(* The driver implements RuntimeContract.                                   *)

\* A step that leaves the rows alone changes no promise.
LEMMA PromiseKept == row' = row => UNCHANGED Promise
BY DEF Promise

\* Every promise is a whole one.
LEMMA PromiseShape ==
    ASSUME IInv, NEW r \in Runtimes
    PROVE  /\ row[r].st = "ABSENT" => Promise[r] = Contract!None
           /\ row[r].st # "ABSENT" => Promise[r] = Contract!Standing(row[r].st, row[r].spec, row[r].act)
BY DEF IInv, RowInv, Promise, Contract!None, Contract!Standing

\* The promises when one row is replaced.
LEMMA PromiseStep ==
    ASSUME IInv, NEW r \in Runtimes, NEW new \in RowRecord, row' = [row EXCEPT ![r] = new]
    PROVE  Promise' = [Promise EXCEPT ![r] = [st |-> new.st, spec |-> new.spec, act |-> new.act]]
BY DEF IInv, TypeOK, Promise

\* A step of a call that changes a row is a step of the contract.
LEMMA ContractStep ==
    ASSUME IInv, IInv', NEW p \in Calls, CallStep(p)
    PROVE  Contract!Next
<1> DEFINE r == Target(p)
<1> USE DEF Contract!Next, Contract!Becomes, Contract!Standing, Contract!None
<1>0. Removing' \in SUBSET Runtimes
  BY DEF Removing
<1>1. CASE row' = row
  BY <1>0, <1>1, PromiseKept
<1>2. CASE Claim(p)
  <2>1. r \in Runtimes /\ row[r].st = "ABSENT" /\ call[p].op = "ensure" /\ call[p].x \in Specs
    BY <1>2 DEF Claim, At, Target, IInv, LockInv, HoldsLock, CallInv, LockedPc
  <2>2. row' = [row EXCEPT ![r] = [st |-> "CLAIMED", spec |-> call[p].x, act |-> Nobody,
                                   k |-> row[r].k + 1]]
    BY <1>2, <2>1 DEF Claim, claim, Wanted
  <2>3. row'[r] \in RowRecord /\ row'[r] = [st |-> "CLAIMED", spec |-> call[p].x, act |-> Nobody,
                                   k |-> row[r].k + 1]
    BY <2>1, <2>2 DEF IInv, TypeOK
  <2>4. Promise' = [Promise EXCEPT ![r] = Contract!Standing("CLAIMED", call[p].x, Nobody)]
    BY <2>1, <2>2, <2>3, PromiseStep
  <2>5. Contract!Claim(r, call[p].x)
    BY <2>1, <2>4, PromiseShape DEF Contract!Claim
  <2> QED
    BY <1>0, <2>1, <2>5
<1>3. CASE Probe(p)
  <2>1. r \in Runtimes /\ row[r] \in RowRecord /\ row[r].spec \in Specs
        /\ row[r].st \in {"CLAIMED", "ACTIVATING"}
    BY <1>3 DEF Probe, At, Target, IInv, TypeOK, LockInv, HoldsLock, CallInv, RowInv, LockedPc, BuildPc
  <2>2. CASE row[r].st = "CLAIMED"
    <3>1. row' = [row EXCEPT ![r] = [st |-> "READY", spec |-> row[r].spec, act |-> row[r].act,
                                     k |-> row[r].k]]
      BY <1>3, <2>2 DEF Probe, Building, markReady
    <3>2. [st |-> "READY", spec |-> row[r].spec, act |-> row[r].act, k |-> row[r].k] \in RowRecord
      BY <2>1 DEF RowRecord, RowState
    <3>3. row[r].act = Nobody
      BY <2>1, <2>2 DEF IInv, RowInv, Provisional
    <3>4. Promise' = [Promise EXCEPT ![r] = Contract!Standing("READY", row[r].spec, Nobody)]
      BY <2>1, <3>1, <3>2, <3>3, PromiseStep
    <3>5. Contract!Ready(r, row[r].spec)
      BY <2>1, <2>2, <3>3, <3>4, PromiseShape DEF Contract!Ready
    <3> QED
      BY <1>0, <2>1, <3>5
  <2>3. CASE row[r].st = "ACTIVATING"
    <3>1. row' = [row EXCEPT ![r] = [st |-> "ACTIVE", spec |-> row[r].spec, act |-> row[r].act,
                                     k |-> row[r].k]]
      BY <1>3, <2>3 DEF Probe, Building, markActive
    <3>2. [st |-> "ACTIVE", spec |-> row[r].spec, act |-> row[r].act, k |-> row[r].k] \in RowRecord
      BY <2>1 DEF RowRecord, RowState
    <3>3. row[r].act \in Activations
      BY <2>1, <2>3 DEF IInv, RowInv, Activated
    <3>4. Promise' = [Promise EXCEPT ![r] = Contract!Standing("ACTIVE", row[r].spec, row[r].act)]
      BY <2>1, <3>1, <3>2, PromiseStep
    <3>5. Contract!Activate(r, row[r].spec, row[r].act)
      BY <2>1, <2>3, <3>4, PromiseShape DEF Contract!Activate
    <3> QED
      BY <1>0, <2>1, <3>3, <3>5
  <2> QED
    BY <2>1, <2>2, <2>3
<1>4. CASE Activate(p) /\ row' # row
  <2>1. /\ r \in Runtimes /\ row[r] \in RowRecord
        /\ call[p].x \in Activations /\ AuthorizedSpec[call[p].x] = row[r].spec
    BY <1>4 DEF Activate, At, Target, IInv, TypeOK, LockInv, HoldsLock, CallInv, LockedPc, BuildPc
  <2>2. row[r].st = "READY" /\ claimActivation(r, call[p].x)
    BY <1>4 DEF Activate, ledgerVars
  <2>3. row[r].act = Nobody /\ row[r].spec \in Specs
    BY <2>1, <2>2 DEF IInv, RowInv, Provisional
  <2>4. [st |-> "ACTIVATING", spec |-> row[r].spec, act |-> call[p].x, k |-> row[r].k] \in RowRecord
    BY <2>1 DEF RowRecord, RowState
  <2>5. Promise' = [Promise EXCEPT ![r] = Contract!Standing("ACTIVATING", row[r].spec, call[p].x)]
    BY <2>1, <2>2, <2>4, PromiseStep DEF claimActivation
  <2>6. Contract!Intend(r, row[r].spec, call[p].x)
    BY <2>1, <2>2, <2>3, <2>5, PromiseShape DEF Contract!Intend
  <2> QED
    BY <1>0, <2>1, <2>3, <2>6
<1>5. CASE TearDelete(p)
  <2>1. /\ r \in Runtimes /\ row[r] \in RowRecord /\ lock[r] = p /\ row[r].st # "ABSENT"
        /\ call[p].op # "remove" => Provisional(r)
    BY <1>5 DEF TearDelete, At, Target, IInv, TypeOK, LockInv, HoldsLock, CallInv, LockedPc, TearPc
  <2>2. row[r].spec \in Specs
    BY <2>1 DEF IInv, RowInv
  <2>3. [st |-> "ABSENT", spec |-> Nobody, act |-> Nobody, k |-> row[r].k] \in RowRecord
    BY <2>1 DEF RowRecord, RowState
  <2>4. Promise' = [Promise EXCEPT ![r] = Contract!None]
    BY <1>5, <2>1, <2>3, PromiseStep DEF TearDelete, deleteByRuntimeId
  <2>5. CASE Provisional(r)
    <3>1. row[r].act = Nobody
      BY <2>1, <2>5 DEF IInv, RowInv
    <3>2. Contract!Withdraw(r, row[r].spec)
      BY <2>1, <2>4, <2>5, <3>1, PromiseShape DEF Contract!Withdraw, Provisional
    <3> QED
      BY <1>0, <2>1, <2>2, <3>2
  <2>6. CASE Activated(r) /\ call[p].op = "remove"
    <3>1. row[r].act \in Activations /\ r \in Removing
      BY <2>1, <2>6 DEF IInv, RowInv, Removing
    <3>2. Contract!Remove(r, row[r].spec, row[r].act)
      BY <2>1, <2>4, <2>6, <3>1, PromiseShape DEF Contract!Remove, Activated
    <3> QED
      BY <1>0, <2>1, <2>2, <3>1, <3>2
  <2> QED
    BY <2>1, <2>5, <2>6 DEF Provisional, Activated, RowRecord, RowState
<1>6. row' = row \/ Claim(p) \/ Probe(p) \/ (Activate(p) /\ row' # row) \/ TearDelete(p)
  BY DEF CallStep, Fail, SocketLost, Enter, Prepare, Create, Register, Start, Swap, OldClean,
     EnterRemove, EnterErase, TearStop, TearRemove, TearClean, TearCleanActive, Absent, Load,
     Record, EraseNext, EraseImage, EraseIndex, Erased, ledgerVars
<1> QED
  BY <1>1, <1>2, <1>3, <1>4, <1>5, <1>6

\* The driver implements the contract with the Hub: promises are made, kept and
\* withdrawn in order, and what was activated goes only under a REMOVE.
THEOREM DriverKeepsContract == Spec => ImplementsContract
<1>1. Init => Contract!Init
  BY DEF Init, Contract!Init, Contract!None, Promise, Removing, NoCall
<1>2. IInv /\ IInv' /\ [Next]_vars => [Contract!Next]_(Contract!vars)
  <2> SUFFICES ASSUME IInv, IInv', [Next]_vars PROVE [Contract!Next]_(Contract!vars)
    OBVIOUS
  <2>1. CASE UNCHANGED vars
    BY <2>1 DEF vars, ledgerVars, callVars, Contract!vars, Promise, Removing
  <2>2. ASSUME NEW p \in Calls, CallStep(p) PROVE Contract!Next
    BY <2>2, ContractStep
  <2>3. CASE row' = row
    BY <2>3, PromiseKept DEF Contract!Next, Removing
  <2>4. Next => row' = row \/ \E p \in Calls : CallStep(p)
    BY DEF Next, Arrive, ensureReady, status, activate, remove, stage, removeArtifact, Begin,
       Acquire, Pair, Crash, Reboot, ProcessLost, StartUp, Rebind, Sweep, ledgerVars
  <2> QED
    BY <2>1, <2>2, <2>3, <2>4
<1> QED
  BY <1>1, <1>2, InvCorrect, PTL DEF Spec, ImplementsContract, Contract!Spec
=============================================================================
