---------------------------- MODULE LocalRuntime ----------------------------
(***************************************************************************)
(* The local runtime driver: ENSURE_READY, STATUS, ACTIVATE, REMOVE and    *)
(* the erasure of an artifact, over the runtime ledger, one Docker         *)
(* container per runtime and the identity broker's directories.            *)
(*   local-runtime/runtime-service.ts  the operations                      *)
(*   local-runtime/ledger.ts           the ledger file and its keyed mutex *)
(*   local-runtime/artifact-store.ts   seen here as the set `staged`       *)
(*   services/mcp-broker.ts            seen here as `dirs` and `sockets`   *)
(* A ledger method is synchronous, so what it does is one step; every      *)
(* await of an operation is an interleaving point and a place where it may *)
(* fail or where the process may die.                                      *)
(***************************************************************************)
EXTENDS Naturals, FiniteSets

CONSTANTS
    Runtimes,       \* runtime ids (hashes of the affinity fields)
    Specs,          \* request variants that share a runtime id
    Activations,    \* ACTIVATE requests
    AuthorizedSpec, \* activation -> the request its ensure_ready_request_hash names
    Artifacts,      \* artifact digests
    ArtifactOf,     \* runtime -> its artifact
    Images,         \* image config digests
    ImageOf,        \* artifact -> the image Docker loads it into
    Generations,    \* generation ids
    GenerationOf,   \* runtime -> its generation
    Calls,          \* operations in flight at once
    Nobody,         \* no call, no runtime, no request
    MaxClaims,      \* bound: rows ever claimed for one runtime id
    MaxCrashes,     \* bound: process deaths and host reboots
    MaxPairings     \* bound: times the cluster is paired again

ASSUME ConstantsAssumption ==
    /\ AuthorizedSpec \in [Activations -> Specs]
    /\ ArtifactOf \in [Runtimes -> Artifacts]
    /\ ImageOf \in [Artifacts -> Images]
    /\ GenerationOf \in [Runtimes -> Generations]
    /\ Nobody \notin Runtimes \cup Specs \cup Activations \cup Calls
    /\ MaxClaims \in Nat
    /\ MaxCrashes \in Nat
    /\ MaxPairings \in Nat

VARIABLES
    row,       \* ledger: runtime -> record
    slot,      \* ledger: generation -> runtime (generationToRuntimeId)
    container, \* Docker: runtime -> the container of that name
    dirs,      \* broker directories on disk (tmpfs)
    sockets,   \* broker directories this process listens in
    images,    \* Docker: images present
    index,     \* artifact store: staged digests
    cluster,   \* the paired cluster id, which every container label set carries
    call,      \* operation in flight
    lock,      \* runtime -> the call that holds its mutex
    process,   \* "up" | "rebind" | "down"
    unbound,   \* ACTIVE runtimes the last start could not register again
    crashes

ledgerVars == <<row, slot>>
brokerVars == <<dirs, sockets>>
storeVars  == <<images, index>>
callVars   == <<call, lock>>
hostVars   == <<cluster, process, unbound, crashes>>
vars == <<ledgerVars, container, brokerVars, storeVars, callVars, hostVars>>

-----------------------------------------------------------------------------
(* State spaces.  k numbers the rows claimed for a runtime id and stands   *)
(* for the replica UUIDs minted with them.                                 *)

RowState == {"ABSENT", "CLAIMED", "READY", "ACTIVATING", "ACTIVE"}
Phase    == {"none", "pre", "act"}
Replica(r, phase, k) == <<r, phase, k>>
Replicas == Runtimes \X Phase \X (0..MaxClaims)

NoContainer == [phase |-> "none", spec |-> Nobody, act |-> Nobody, k |-> 0,
                cluster |-> 0, run |-> FALSE]
NoCall      == [op |-> "none", r |-> Nobody, x |-> Nobody, todo |-> {}, pc |-> "done"]
Op          == {"none", "ensure", "status", "activate", "remove", "erase", "stage"}
TearPc      == {"tstop", "tremove", "tclean", "tclean2", "tdelete"}
LockedPc    == {"enter", "claim", "prepare", "create", "register", "start", "probe",
                "activate", "swap", "oldclean", "absent"} \cup TearPc
Pc          == {"done", "lock", "next", "image", "unindex", "erased", "load", "record"}
               \cup LockedPc

RowRecord == [st : RowState, spec : Specs \cup {Nobody}, act : Activations \cup {Nobody},
              k : 0..MaxClaims]
ContainerRecord == [phase : Phase, spec : Specs \cup {Nobody}, act : Activations \cup {Nobody},
                    k : 0..MaxClaims, cluster : 0..MaxPairings, run : BOOLEAN]
CallRecord == [op : Op, r : Runtimes \cup {Nobody},
               x : Specs \cup Activations \cup Artifacts \cup {Nobody},
               todo : SUBSET Runtimes, pc : Pc]

TypeOK ==
    /\ row \in [Runtimes -> RowRecord]
    /\ slot \in [Generations -> Runtimes \cup {Nobody}]
    /\ container \in [Runtimes -> ContainerRecord]
    /\ dirs \subseteq Replicas
    /\ sockets \subseteq Replicas
    /\ images \subseteq Images
    /\ index \subseteq Artifacts
    /\ cluster \in 0..MaxPairings
    /\ call \in [Calls -> CallRecord]
    /\ lock \in [Runtimes -> Calls \cup {Nobody}]
    /\ process \in {"up", "rebind", "down"}
    /\ unbound \subseteq Runtimes
    /\ crashes \in 0..MaxCrashes

Provisional(r) == row[r].st \in {"CLAIMED", "READY"}
Activated(r)   == row[r].st \in {"ACTIVATING", "ACTIVE"}
PreReplica(r)  == Replica(r, "pre", row[r].k)
ActReplica(r)  == Replica(r, "act", row[r].k)

\* assertContainerMatchesPolicy against the policies built from the row: labels
\* carry the request, the activation and the cluster, the one mount the replica.
MatchesPre(r) == container[r] = [phase |-> "pre", spec |-> row[r].spec, act |-> Nobody,
                                 k |-> row[r].k, cluster |-> cluster,
                                 run |-> container[r].run]
MatchesAct(r) == container[r] = [phase |-> "act", spec |-> row[r].spec, act |-> row[r].act,
                                 k |-> row[r].k, cluster |-> cluster,
                                 run |-> container[r].run]

At(p, pc) == process = "up" /\ call[p].pc = pc
Target(p) == call[p].r
Goto(p, pc) ==
    /\ call' = [call EXCEPT ![p] = [op |-> call[p].op, r |-> call[p].r, x |-> call[p].x,
                                    todo |-> call[p].todo, pc |-> pc]]
    /\ UNCHANGED lock

\* The call settles; withLock releases on success and on throw.
Finish(p) ==
    /\ call' = [call EXCEPT ![p] = NoCall]
    /\ lock' = [r \in Runtimes |-> IF lock[r] = p THEN Nobody ELSE lock[r]]

-----------------------------------------------------------------------------
(* Arrival of calls, the mutex, failures.                                  *)

Begin(p, op, r, x, todo, pc) ==
    /\ process = "up"
    /\ call[p].op = "none"
    /\ call' = [call EXCEPT ![p] = [op |-> op, r |-> r, x |-> x, todo |-> todo, pc |-> pc]]
    /\ UNCHANGED <<ledgerVars, container, brokerVars, storeVars, lock, hostVars>>

ensureReady(p, r, s) == Begin(p, "ensure", r, s, {}, "lock")
status(p, r)         == Begin(p, "status", r, Nobody, {}, "lock")
activate(p, r, a)    == Begin(p, "activate", r, a, {}, "lock")
remove(p, r)         == Begin(p, "remove", r, Nobody, {}, "lock")
stage(p, d)          == Begin(p, "stage", Nobody, d, {}, "load")
\* removeArtifact lists the rows once, then locks them one by one.
removeArtifact(p, d) ==
    Begin(p, "erase", Nobody, d, {r \in Runtimes : ArtifactOf[r] = d /\ Provisional(r)}, "next")

Arrive(p) ==
    \/ \E r \in Runtimes :
        \/ \E s \in Specs : ensureReady(p, r, s)
        \/ status(p, r)
        \/ \E a \in Activations : activate(p, r, a)
        \/ remove(p, r)
    \/ \E d \in Artifacts : stage(p, d) \/ removeArtifact(p, d)

\* Mutant: the mutex lets a second call in.
AcquireAnyway(p) ==
    /\ At(p, "lock")
    /\ lock' = [lock EXCEPT ![Target(p)] = p]
    /\ call' = [call EXCEPT ![p] = [op |-> call[p].op, r |-> call[p].r, x |-> call[p].x,
                                    todo |-> call[p].todo, pc |-> "enter"]]
    /\ UNCHANGED <<ledgerVars, container, brokerVars, storeVars, hostVars>>

\* KeyedMutex.withLock on the runtime id.
Acquire(p) ==
    /\ At(p, "lock")
    /\ lock[Target(p)] = Nobody
    /\ lock' = [lock EXCEPT ![Target(p)] = p]
    /\ call' = [call EXCEPT ![p] = [op |-> call[p].op, r |-> call[p].r, x |-> call[p].x,
                                    todo |-> call[p].todo, pc |-> "enter"]]
    /\ UNCHANGED <<ledgerVars, container, brokerVars, storeVars, hostVars>>

\* Docker, the broker, the probe or the write of a file throws.
Fail(p) ==
    /\ \E pc \in (LockedPc \ {"enter"}) \cup {"image", "unindex", "load", "record"} : At(p, pc)
    /\ Finish(p)
    /\ UNCHANGED <<ledgerVars, container, brokerVars, storeVars, hostVars>>

-----------------------------------------------------------------------------
(* The ledger's methods.                                                   *)

claim(r, s) ==
    /\ row[r].k < MaxClaims
    /\ row' = [row EXCEPT ![r] = [st |-> "CLAIMED", spec |-> s, act |-> Nobody,
                                  k |-> row[r].k + 1]]
    /\ slot' = [slot EXCEPT ![GenerationOf[r]] = IF @ = Nobody THEN r ELSE @]

markReady(r) ==
    /\ row' = [row EXCEPT ![r] = [st |-> IF row[r].st = "CLAIMED" THEN "READY" ELSE row[r].st,
                                  spec |-> row[r].spec, act |-> row[r].act, k |-> row[r].k]]
    /\ UNCHANGED slot

claimActivation(r, a) ==
    /\ row' = [row EXCEPT ![r] = [st |-> "ACTIVATING", spec |-> row[r].spec, act |-> a,
                                  k |-> row[r].k]]
    /\ UNCHANGED slot

markActive(r) ==
    /\ row' = [row EXCEPT ![r] = [st |-> "ACTIVE", spec |-> row[r].spec, act |-> row[r].act,
                                  k |-> row[r].k]]
    /\ slot' = [slot EXCEPT ![GenerationOf[r]] = r]

deleteByRuntimeId(r) ==
    /\ row' = [row EXCEPT ![r] = [st |-> "ABSENT", spec |-> Nobody, act |-> Nobody,
                                  k |-> row[r].k]]
    /\ slot' = [slot EXCEPT ![GenerationOf[r]] = IF @ = r THEN Nobody ELSE @]

-----------------------------------------------------------------------------
(* ENSURE_READY.  ACTIVATE and STATUS run it with the stored request.      *)

Wanted(p) == IF call[p].op = "ensure" THEN call[p].x ELSE row[Target(p)].spec

\* Mutant: assertActivationAffinity does not compare the request hash.
RefusedAnyRequest(p) ==
    \/ row[Target(p)].st = "ABSENT" /\ call[p].op # "ensure"
    \/ ArtifactOf[Target(p)] \notin index
    \/ Activated(Target(p)) /\ Wanted(p) # row[Target(p)].spec

\* What refuses the call before anything is touched: no row, an artifact that is
\* not staged, an activation authorized for another request
\* (assertActivationAffinity), another request on an activated row (claim).
Refused(p) ==
    \/ row[Target(p)].st = "ABSENT" /\ call[p].op # "ensure"
    \/ ArtifactOf[Target(p)] \notin index
    \/ call[p].op = "activate" /\ AuthorizedSpec[call[p].x] # row[Target(p)].spec
    \/ Activated(Target(p)) /\ Wanted(p) # row[Target(p)].spec

\* A candidate that changed and never activated is torn down and claimed afresh; a
\* durable READY is replayed without a look at the container.
EnsureReadyLocked(p) ==
    LET r == Target(p) IN
    /\ ~Refused(p)
    /\ \/ row[r].st = "ABSENT" /\ Goto(p, "claim")
       \/ Provisional(r) /\ Wanted(p) # row[r].spec /\ Goto(p, "tstop")
       \/ row[r].st = "CLAIMED" /\ Wanted(p) = row[r].spec /\ Goto(p, "prepare")
       \/ /\ row[r].st \in {"READY", "ACTIVATING", "ACTIVE"}
          /\ Wanted(p) = row[r].spec
          /\ IF call[p].op = "activate" THEN Goto(p, "activate") ELSE Finish(p)

Enter(p) ==
    /\ At(p, "enter")
    /\ call[p].op \in {"ensure", "status", "activate"}
    /\ (Refused(p) /\ Finish(p)) \/ EnsureReadyLocked(p)
    /\ UNCHANGED <<ledgerVars, container, brokerVars, storeVars, hostVars>>

Claim(p) ==
    /\ At(p, "claim")
    /\ claim(Target(p), Wanted(p))
    /\ Goto(p, "prepare")
    /\ UNCHANGED <<container, brokerVars, storeVars, hostVars>>

\* The phase of the container that a call is building.
Building(p) == IF row[Target(p)].st = "ACTIVATING" THEN "act" ELSE "pre"
BuildReplica(p) == Replica(Target(p), Building(p), row[Target(p)].k)

\* broker.prepare; ACTIVATE then looks at the container that has the name.
Prepare(p) ==
    /\ At(p, "prepare")
    /\ dirs' = dirs \cup {BuildReplica(p)}
    /\ Goto(p, IF Building(p) = "act" /\ ~MatchesAct(Target(p)) THEN "swap" ELSE "create")
    /\ UNCHANGED <<ledgerVars, container, sockets, storeVars, hostVars>>

(* reconcileContainer: create if absent, verify, register, start, probe.   *)

\* Mutant: the broker is registered only for a container just created.
CreateRegistersOnce(p) ==
    LET r == Target(p)
        matches == IF Building(p) = "act" THEN MatchesAct(r) ELSE MatchesPre(r)
    IN
    /\ At(p, "create")
    /\ \/ /\ container[r].phase = "none"
          /\ ImageOf[ArtifactOf[r]] \in images
          /\ container' = [container EXCEPT ![r] =
                [phase |-> Building(p), spec |-> row[r].spec, act |-> row[r].act,
                 k |-> row[r].k, cluster |-> cluster, run |-> FALSE]]
          /\ Goto(p, "register")
       \/ /\ container[r].phase # "none" /\ matches
          /\ Goto(p, "start")
          /\ UNCHANGED container
    /\ UNCHANGED <<ledgerVars, brokerVars, storeVars, hostVars>>

\* Docker refuses to create from an image it does not have.
Create(p) ==
    LET r == Target(p)
        matches == IF Building(p) = "act" THEN MatchesAct(r) ELSE MatchesPre(r)
    IN
    /\ At(p, "create")
    /\ \/ /\ container[r].phase = "none"
          /\ ImageOf[ArtifactOf[r]] \in images
          /\ container' = [container EXCEPT ![r] =
                [phase |-> Building(p), spec |-> row[r].spec, act |-> row[r].act,
                 k |-> row[r].k, cluster |-> cluster, run |-> FALSE]]
          /\ Goto(p, "register")
       \/ /\ container[r].phase # "none" /\ matches
          /\ Goto(p, "register")
          /\ UNCHANGED container
       \/ /\ IF container[r].phase = "none" THEN ImageOf[ArtifactOf[r]] \notin images
                                            ELSE ~matches
          /\ Finish(p)
          /\ UNCHANGED container
    /\ UNCHANGED <<ledgerVars, brokerVars, storeVars, hostVars>>

\* register or registerProvisioningV3, then recordBrokerRegistered.
Register(p) ==
    /\ At(p, "register")
    /\ dirs' = dirs \cup {BuildReplica(p)}
    /\ sockets' = sockets \cup {BuildReplica(p)}
    /\ Goto(p, "start")
    /\ UNCHANGED <<ledgerVars, container, storeVars, hostVars>>

SetRun(r, up) == container' = [container EXCEPT ![r] =
    [phase |-> container[r].phase, spec |-> container[r].spec, act |-> container[r].act,
     k |-> container[r].k, cluster |-> container[r].cluster, run |-> up]]

Start(p) ==
    /\ At(p, "start")
    /\ SetRun(Target(p), TRUE)
    /\ Goto(p, "probe")
    /\ UNCHANGED <<ledgerVars, brokerVars, storeVars, hostVars>>

\* waitReady, then recordContainer and markReady (or recordActiveContainerReady and
\* markActive) without an await between them.
Probe(p) ==
    /\ At(p, "probe")
    /\ IF Building(p) = "act"
       THEN markActive(Target(p)) /\ Finish(p)
       ELSE /\ markReady(Target(p))
            /\ IF call[p].op = "activate" THEN Goto(p, "activate") ELSE Finish(p)
    /\ UNCHANGED <<container, brokerVars, storeVars, hostVars>>

-----------------------------------------------------------------------------
(* ACTIVATE after its ENSURE_READY.                                        *)

\* claimActivation: READY takes the intent; a repeat must carry the same one; an
\* ACTIVE row answers with the stored evidence.
Activate(p) ==
    LET r == Target(p)  a == call[p].x IN
    /\ At(p, "activate")
    /\ \/ row[r].st = "READY" /\ claimActivation(r, a) /\ Goto(p, "prepare")
       \/ /\ row[r].st = "ACTIVATING" /\ row[r].act = a
          /\ Goto(p, "prepare") /\ UNCHANGED ledgerVars
       \/ /\ row[r].st = "ACTIVE" \/ (row[r].st = "ACTIVATING" /\ row[r].act # a)
          /\ Finish(p) /\ UNCHANGED ledgerVars
    /\ UNCHANGED <<container, brokerVars, storeVars, hostVars>>

\* Mutant: nothing to remove, so nothing to clean up either.
SwapSkipsCleanup(p) ==
    LET r == Target(p) IN
    /\ At(p, "swap")
    /\ \/ container[r].phase = "none" /\ Goto(p, "create") /\ UNCHANGED container
       \/ MatchesPre(r) /\ container[r].run /\ SetRun(r, FALSE) /\ UNCHANGED callVars
       \/ /\ MatchesPre(r) /\ ~container[r].run
          /\ container' = [container EXCEPT ![r] = NoContainer]
          /\ Goto(p, "oldclean")
       \/ /\ container[r].phase # "none" /\ ~MatchesPre(r)
          /\ Finish(p) /\ UNCHANGED container
    /\ UNCHANGED <<ledgerVars, brokerVars, storeVars, hostVars>>

\* removeContainerVerified: nothing there, or exactly the preactivation container,
\* stopped and then removed; anything else is refused.
Swap(p) ==
    LET r == Target(p) IN
    /\ At(p, "swap")
    /\ \/ container[r].phase = "none" /\ Goto(p, "oldclean") /\ UNCHANGED container
       \/ MatchesPre(r) /\ container[r].run /\ SetRun(r, FALSE) /\ UNCHANGED callVars
       \/ /\ MatchesPre(r) /\ ~container[r].run
          /\ container' = [container EXCEPT ![r] = NoContainer]
          /\ Goto(p, "oldclean")
       \/ /\ container[r].phase # "none" /\ ~MatchesPre(r)
          /\ Finish(p) /\ UNCHANGED container
    /\ UNCHANGED <<ledgerVars, brokerVars, storeVars, hostVars>>

Cleanup(x) == dirs' = dirs \ {x} /\ sockets' = sockets \ {x}

OldClean(p) ==
    /\ At(p, "oldclean")
    /\ Cleanup(PreReplica(Target(p)))
    /\ Goto(p, "create")
    /\ UNCHANGED <<ledgerVars, container, storeVars, hostVars>>

-----------------------------------------------------------------------------
(* REMOVE, and the teardown it shares with ENSURE_READY and the erasure.   *)

\* The erasure leaves this runtime and takes the next one.
EraseLeave(p) ==
    /\ call' = [call EXCEPT ![p] = [op |-> call[p].op, r |-> Nobody, x |-> call[p].x,
                                    todo |-> call[p].todo, pc |-> "next"]]
    /\ lock' = [lock EXCEPT ![Target(p)] = Nobody]

\* A REMOVE that names another artifact or affinity than the row is refused.
EnterRemove(p) ==
    /\ At(p, "enter")
    /\ call[p].op = "remove"
    /\ \/ row[Target(p)].st = "ABSENT" /\ Goto(p, "absent")
       \/ row[Target(p)].st # "ABSENT" /\ (Goto(p, "tstop") \/ Finish(p))
    /\ UNCHANGED <<ledgerVars, container, brokerVars, storeVars, hostVars>>

\* Mutant: the row is not read again under the lock.
EnterEraseStale(p) ==
    /\ At(p, "enter")
    /\ call[p].op = "erase"
    /\ Goto(p, "tstop")
    /\ UNCHANGED <<ledgerVars, container, brokerVars, storeVars, hostVars>>

EnterErase(p) ==
    /\ At(p, "enter")
    /\ call[p].op = "erase"
    /\ IF Provisional(Target(p)) THEN Goto(p, "tstop") ELSE EraseLeave(p)
    /\ UNCHANGED <<ledgerVars, container, brokerVars, storeVars, hostVars>>

TearStop(p) ==
    /\ At(p, "tstop")
    /\ SetRun(Target(p), FALSE)
    /\ Goto(p, "tremove")
    /\ UNCHANGED <<ledgerVars, brokerVars, storeVars, hostVars>>

\* Mutant: only a container that matches the policy is removed.
TearRemoveVerified(p) ==
    /\ At(p, "tremove")
    /\ container' = IF MatchesPre(Target(p)) \/ MatchesAct(Target(p))
                    THEN [container EXCEPT ![Target(p)] = NoContainer] ELSE container
    /\ Goto(p, "tclean")
    /\ UNCHANGED <<ledgerVars, brokerVars, storeVars, hostVars>>

TearRemove(p) ==
    /\ At(p, "tremove")
    /\ container' = [container EXCEPT ![Target(p)] = NoContainer]
    /\ Goto(p, "tclean")
    /\ UNCHANGED <<ledgerVars, brokerVars, storeVars, hostVars>>

TearClean(p) ==
    /\ At(p, "tclean")
    /\ Cleanup(PreReplica(Target(p)))
    /\ Goto(p, IF Activated(Target(p)) THEN "tclean2" ELSE "tdelete")
    /\ UNCHANGED <<ledgerVars, container, storeVars, hostVars>>

TearCleanActive(p) ==
    /\ At(p, "tclean2")
    /\ Cleanup(ActReplica(Target(p)))
    /\ Goto(p, "tdelete")
    /\ UNCHANGED <<ledgerVars, container, storeVars, hostVars>>

\* The row goes last.  Then ENSURE_READY claims afresh, REMOVE proves absence and
\* the erasure goes on.
TearDelete(p) ==
    /\ At(p, "tdelete")
    /\ deleteByRuntimeId(Target(p))
    /\ CASE call[p].op = "remove" -> Goto(p, "absent")
         [] call[p].op = "erase"  -> EraseLeave(p)
         [] OTHER                 -> Goto(p, "claim")
    /\ UNCHANGED <<container, brokerVars, storeVars, hostVars>>

\* REMOVE answers ABSENT, unless Docker still has a container of that name.
Absent(p) ==
    /\ At(p, "absent")
    /\ Finish(p)
    /\ UNCHANGED <<ledgerVars, container, brokerVars, storeVars, hostVars>>

\* register and cleanup close the old socket first; what comes after may throw.
SocketLost(p) ==
    /\ \/ At(p, "register") /\ sockets' = sockets \ {BuildReplica(p)}
       \/ (At(p, "oldclean") \/ At(p, "tclean")) /\ sockets' = sockets \ {PreReplica(Target(p))}
       \/ At(p, "tclean2") /\ sockets' = sockets \ {ActReplica(Target(p))}
    /\ Finish(p)
    /\ UNCHANGED <<ledgerVars, container, dirs, storeVars, hostVars>>

-----------------------------------------------------------------------------
(* Staging and erasing artifacts.                                          *)

\* A digest in the index is answered from it; otherwise the image is loaded.
Load(p) ==
    LET d == call[p].x IN
    /\ At(p, "load")
    /\ \/ d \in index /\ Finish(p) /\ UNCHANGED images
       \/ d \notin index /\ images' = images \cup {ImageOf[d]} /\ Goto(p, "record")
    /\ UNCHANGED <<ledgerVars, container, brokerVars, index, hostVars>>

\* proveContentAddress, then the index is written.
Record(p) ==
    LET d == call[p].x IN
    /\ At(p, "record")
    /\ index' = IF ImageOf[d] \in images THEN index \cup {d} ELSE index
    /\ Finish(p)
    /\ UNCHANGED <<ledgerVars, container, brokerVars, images, hostVars>>

\* Mutant: the loop does not move on to the next row.
EraseNextRepeats(p) ==
    /\ At(p, "next")
    /\ \/ \E r \in call[p].todo :
            call' = [call EXCEPT ![p] = [op |-> call[p].op, r |-> r, x |-> call[p].x,
                                         todo |-> call[p].todo, pc |-> "lock"]]
       \/ /\ call[p].todo = {}
          /\ call' = [call EXCEPT ![p] = [op |-> call[p].op, r |-> Nobody, x |-> call[p].x,
                                          todo |-> {}, pc |-> "image"]]
    /\ UNCHANGED <<ledgerVars, container, brokerVars, storeVars, lock, hostVars>>

EraseNext(p) ==
    /\ At(p, "next")
    /\ \/ \E r \in call[p].todo :
            call' = [call EXCEPT ![p] = [op |-> call[p].op, r |-> r, x |-> call[p].x,
                                         todo |-> call[p].todo \ {r}, pc |-> "lock"]]
       \/ /\ call[p].todo = {}
          /\ call' = [call EXCEPT ![p] = [op |-> call[p].op, r |-> Nobody, x |-> call[p].x,
                                          todo |-> {}, pc |-> "image"]]
    /\ UNCHANGED <<ledgerVars, container, brokerVars, storeVars, lock, hostVars>>

\* An image that a container still uses: Docker answers 409 and the erase fails.
Pinned(d) == \E r \in Runtimes : ImageOf[ArtifactOf[r]] = ImageOf[d] /\ container[r].phase # "none"

\* A digest that is not in the index is reported ABSENT as it is.
EraseImage(p) ==
    LET d == call[p].x IN
    /\ At(p, "image")
    /\ \/ d \notin index /\ Goto(p, "erased") /\ UNCHANGED images
       \/ d \in index /\ Pinned(d) /\ Finish(p) /\ UNCHANGED images
       \/ d \in index /\ ~Pinned(d) /\ images' = images \ {ImageOf[d]} /\ Goto(p, "unindex")
    /\ UNCHANGED <<ledgerVars, container, brokerVars, index, hostVars>>

\* The image is inspected once more; the index entry goes when it is gone.
EraseIndex(p) ==
    LET d == call[p].x IN
    /\ At(p, "unindex")
    /\ \/ ImageOf[d] \in images /\ Finish(p) /\ UNCHANGED index
       \/ ImageOf[d] \notin images /\ index' = index \ {d} /\ Goto(p, "erased")
    /\ UNCHANGED <<ledgerVars, container, brokerVars, images, hostVars>>

\* The erase answers ABSENT.
Erased(p) ==
    /\ At(p, "erased")
    /\ Finish(p)
    /\ UNCHANGED <<ledgerVars, container, brokerVars, storeVars, hostVars>>

-----------------------------------------------------------------------------
(* Pairing, death and start of the process, reboot of the host.            *)

\* The Hub assigns another cluster id; no row and no container is touched.
Pair ==
    /\ process = "up"
    /\ cluster < MaxPairings
    /\ cluster' = cluster + 1
    /\ UNCHANGED <<ledgerVars, container, brokerVars, storeVars, callVars,
                   process, unbound, crashes>>

ProcessLost ==
    /\ crashes < MaxCrashes
    /\ crashes' = crashes + 1
    /\ process' = "down"
    /\ sockets' = {}
    /\ call' = [p \in Calls |-> NoCall]
    /\ lock' = [r \in Runtimes |-> Nobody]
    /\ unbound' = {}
    /\ UNCHANGED <<ledgerVars, storeVars, cluster>>

Crash == process # "down" /\ ProcessLost /\ UNCHANGED <<container, dirs>>

Running(runs) == container' = [r \in Runtimes |->
    [phase |-> container[r].phase, spec |-> container[r].spec, act |-> container[r].act,
     k |-> container[r].k, cluster |-> container[r].cluster, run |-> runs[r]]]

\* tmpfs is empty; an `unless-stopped` container comes back or not, by whether
\* Docker finds its directory to mount again.
Reboot ==
    /\ ProcessLost
    /\ dirs' = {}
    /\ \E back \in SUBSET {r \in Runtimes : container[r].run} :
         Running([r \in Runtimes |-> r \in back])

ActiveRecords == {r \in Runtimes : row[r].st = "ACTIVE"}
Rebindable    == {r \in ActiveRecords : ArtifactOf[r] \in index}

\* Those of `bound` get their directory, their socket and a restart, which leaves
\* those of `up` running; `made` get no further than the directory; `lost` have a
\* stale binding, so their directory is removed, and it is not made again.
RebindTo(bound, made, lost, up) ==
    /\ unbound' = ActiveRecords \ bound
    /\ dirs' = (dirs \ {ActReplica(r) : r \in lost})
                 \cup {ActReplica(r) : r \in bound \cup made}
    /\ sockets' = {ActReplica(r) : r \in bound}
    /\ Running([r \in Runtimes |->
          IF r \in bound THEN r \in up /\ container[r].phase # "none" ELSE container[r].run])

\* rebindActiveRuntimes runs before a route is served.  Each ACTIVE row has its own
\* try/catch: one may fail before its directory is made, before its socket is bound,
\* or when its container restarts (a container that is gone is no failure).
Rebind ==
    /\ process = "down"
    /\ process' = "rebind"
    /\ \E bound \in SUBSET Rebindable : \E up \in SUBSET bound :
       \E made \in SUBSET (Rebindable \ bound) : \E lost \in SUBSET (Rebindable \ bound) :
         RebindTo(bound, made, lost, up)
    /\ UNCHANGED <<ledgerVars, storeVars, cluster, callVars, crashes>>

\* The replica ids the ledger or a container label still names.
KnownReplicas ==
    {PreReplica(r) : r \in {x \in Runtimes : row[x].st # "ABSENT"}}
      \cup {ActReplica(r) : r \in {x \in Runtimes : Activated(x)}}
      \cup {Replica(r, container[r].phase, container[r].k) : r \in Runtimes}

\* sweepOrphanBrokerDirectories, best effort; then the routes open.
Sweep ==
    /\ process = "rebind"
    /\ process' = "up"
    /\ \E gone \in SUBSET (dirs \ KnownReplicas) :
         dirs' = dirs \ gone /\ sockets' = sockets \ gone
    /\ UNCHANGED <<ledgerVars, container, storeVars, cluster, callVars, unbound, crashes>>

-----------------------------------------------------------------------------

Init ==
    /\ row = [r \in Runtimes |-> [st |-> "ABSENT", spec |-> Nobody, act |-> Nobody, k |-> 0]]
    /\ slot = [g \in Generations |-> Nobody]
    /\ container = [r \in Runtimes |-> NoContainer]
    /\ dirs = {}
    /\ sockets = {}
    /\ images = {}
    /\ index = {}
    /\ cluster = 0
    /\ call = [p \in Calls |-> NoCall]
    /\ lock = [r \in Runtimes |-> Nobody]
    /\ process = "down"
    /\ unbound = {}
    /\ crashes = 0

CallStep(p) ==
    \/ Fail(p) \/ SocketLost(p) \/ Enter(p) \/ Claim(p) \/ Prepare(p) \/ Create(p)
    \/ Register(p) \/ Start(p) \/ Probe(p) \/ Activate(p) \/ Swap(p) \/ OldClean(p)
    \/ EnterRemove(p) \/ EnterErase(p) \/ TearStop(p) \/ TearRemove(p) \/ TearClean(p)
    \/ TearCleanActive(p) \/ TearDelete(p) \/ Absent(p)
    \/ Load(p) \/ Record(p) \/ EraseNext(p) \/ EraseImage(p) \/ EraseIndex(p) \/ Erased(p)

StartUp == Rebind \/ Sweep

Next ==
    \/ \E p \in Calls : Arrive(p) \/ Acquire(p) \/ CallStep(p)
    \/ Pair \/ Crash \/ Reboot \/ StartUp

Spec == Init /\ [][Next]_vars

\* An await settles and the event loop runs its continuation; the mutex is FIFO, so
\* whoever waits for it gets it; the supervisor starts the process again.
FairSpec ==
    /\ Spec
    /\ WF_vars(StartUp)
    /\ \A p \in Calls : WF_vars(CallStep(p)) /\ SF_vars(Acquire(p))

-----------------------------------------------------------------------------
(* Properties.                                                             *)

\* A container is always one the ledger accounts for: it was built for the row that
\* is there, its authorization phase and its activation are the row's, and an ACTIVE
\* row never has the preactivation container.  So neither a crash nor a failure nor
\* two racing calls leave a container behind that REMOVE cannot find, or one that a
\* retried ACTIVATE has to refuse (reconcileContainer, removeContainerVerified).
ContainerOwned ==
    \A r \in Runtimes : container[r].phase # "none" =>
        /\ row[r].st # "ABSENT"
        /\ container[r].k = row[r].k
        /\ container[r].spec = row[r].spec
        /\ container[r].phase = "pre" => row[r].st # "ACTIVE"
        /\ container[r].phase = "act" => Activated(r) /\ container[r].act = row[r].act

\* Every broker directory on disk belongs to a row of the ledger, whatever crashed
\* or failed: the cleanup comes before the row is dropped (teardownRecorded).
DirsKnown ==
    \A x \in dirs : /\ row[x[1]].st # "ABSENT"
                    /\ x[3] = row[x[1]].k
                    /\ x[2] = "act" => Activated(x[1])

\* The ledger accounts for everything REMOVE has to find again.
LedgerAccounts == ContainerOwned /\ DirsKnown

\* When REMOVE answers ABSENT, nothing of the runtime is left: no row, no container,
\* no broker directory and no socket (remove's evidence).
AbsentIsAbsent ==
    \A p \in Calls : At(p, "absent") =>
        /\ row[Target(p)].st = "ABSENT"
        /\ container[Target(p)].phase = "none"
        /\ \A x \in dirs \cup sockets : x[1] # Target(p)

\* The application is started only while its identity socket is bound, and an ACTIVE
\* application keeps its socket as long as its container runs, unless the last start
\* of the process failed to bind it (reconcileContainer, rebindActiveRuntimes).
IdentityBound ==
    /\ \A p \in Calls : At(p, "start") => BuildReplica(p) \in sockets
    /\ \A r \in Runtimes : /\ process = "up"
                           /\ row[r].st = "ACTIVE"
                           /\ container[r].run
                           /\ r \notin unbound
                           => ActReplica(r) \in sockets

\* Once the container of the active phase exists, the directory of the preactivation
\* replica is gone for good, so a superseded identity cannot be mounted (activate).
SupersededGone ==
    \A r \in Runtimes : container[r].phase = "act" => PreReplica(r) \notin dirs \cup sockets

\* Whatever was activated was activated by a request that names exactly the request
\* the runtime was built from, even if the candidate was torn down and claimed
\* afresh while the ACTIVATE was on its way (assertActivationAffinity).
ActivationAuthorized ==
    \A r \in Runtimes : Activated(r) => /\ row[r].act \in Activations
                                        /\ AuthorizedSpec[row[r].act] = row[r].spec

\* The driver implements the contract with the Hub: the ledger's rows are the
\* promises, and a REMOVE is being served while its call is past the mutex.
Promise == [r \in Runtimes |-> [st |-> row[r].st, spec |-> row[r].spec, act |-> row[r].act]]
Removing == {r \in Runtimes : \E p \in Calls : call[p].op = "remove" /\ lock[r] = p}
Contract == INSTANCE RuntimeContract WITH promise <- Promise, removing <- Removing

\* Every step of the driver is a step of RuntimeContract: an activated runtime is
\* dropped by REMOVE alone, never by the erasure of its artifact, a changed
\* ENSURE_READY or a late call of another client; evidence only moves forward.
ImplementsContract == Contract!Spec

\* Every operation comes back: no call waits for ever on a mutex, whatever the
\* others do and wherever they fail (KeyedMutex, removeArtifact's loop).
EveryCallEnds ==
    \A p \in Calls : (call[p].op # "none") ~> (call[p].op = "none")

\* What the comment above ensureReadyLocked in activate says: READY is durable and
\* the preactivation container reconciled before the activation intent is claimed.
ReconciledBeforeIntent ==
    [][\A r \in Runtimes : row[r].st = "READY" /\ row'[r].st = "ACTIVATING"
          => container[r].phase = "pre" /\ container[r].run]_vars

\* What the comment above ArtifactStore.remove says: erasure is never reported while
\* the bytes are still on the machine.
ErasedIsGone ==
    \A p \in Calls : At(p, "erased") => ImageOf[call[p].x] \notin images
=============================================================================
