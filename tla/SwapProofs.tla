--------------------------- MODULE SwapProofs ---------------------------
(***************************************************************************)
(* The containers of one app under the lifecycle's requests, for any       *)
(* number of versions, ids, requests and mishaps: what a request may       *)
(* answer, that it ends with one container, that a rolling redeploy never  *)
(* stops serving, and that the app it reported gets its evidence.          *)
(*                                                                         *)
(* Core      every variable's type; what a request still has to do is a    *)
(*           list of its operation, in its order (ListInv, IsList); what   *)
(*           it has done agrees with what is to come (OldInv, PhaseInv,    *)
(*           AheadInv); ids are given in order (MadeInv), and the new      *)
(*           container is there until it is undone (BuiltInv)              *)
(* HeldInv   what the new container is made of, and what it keeps          *)
(* RevertInv what the failed attempt left on disk, before the way back     *)
(* SingleInv who is left besides the containers nobody accounts for        *)
(* RollInv, ServeInv                                                       *)
(*           which of the two containers of a rolling redeploy serves      *)
(* RegisterInv, LastInv                                                    *)
(*           the binding, the socket and the wish of the new container,    *)
(*           within its request and after its answer                       *)
(*                                                                         *)
(* Every step moves the request in one of a few ways (Move): a call that   *)
(* went on, one that threw, one that decides. Each invariant is kept way   *)
(* by way, under what the step does to the containers (BoxMoves, Acts).    *)
(***************************************************************************)
EXTENDS ContainerSwap, FiniteSetTheorems, WellFoundedInduction, SequenceTheorems, TLAPS

-----------------------------------------------------------------------------
(* Lists of calls.                                                          *)

Calls == {"read", "pull", "mounts", "stop", "remove", "close", "closed", "rmdir", "rmstore",
          "create", "store", "legacy", "bind", "start", "address", "inspect", "health", "look",
          "stopNew", "removeNew", "again", "volumes"}

\* The calls of a list; x comes before y; no call comes twice.
In(t)           == {t[i] : i \in 1..Len(t)}
Before(t, x, y) == \A i, j \in 1..Len(t) : t[i] = x /\ t[j] = y => i < j
Distinct(t)     == \A i, j \in 1..Len(t) : t[i] = t[j] => i = j

\* What comes before what, in every list of an operation.
Order(op) ==
    ({"pull", "mounts", "close", "closed", "rmdir", "rmstore"} \X {"create"})
      \union ({"create"} \X {"store", "legacy", "bind", "start", "address", "inspect", "health", "look"})
      \union ({"removeNew", "rmdir", "rmstore"} \X {"again"})
      \union IF op = "rolling" THEN ({"start", "address", "health"} \X {"stop"}) \union {<<"stop", "remove">>}
             ELSE {"stop", "remove"} \X {"create"}

IsList(t, op) ==
    /\ t \in Seq(Calls)
    /\ Distinct(t)
    /\ \A p \in Order(op) : Before(t, p[1], p[2])

\* The head of a list is gone from its tail, and what comes before it is not in it.
LEMMA Pop ==
    ASSUME NEW t, NEW op, IsList(t, op), t # <<>>
    PROVE  /\ IsList(Tail(t), op)
           /\ Head(t) \in In(t) /\ In(t) \subseteq Calls
           /\ In(Tail(t)) = In(t) \ {Head(t)}
           /\ \A p \in Order(op) : p[2] = Head(t) => p[1] \notin In(t)
<1>1. /\ t \in Seq(Calls) /\ Len(t) \in Nat \ {0} /\ Tail(t) \in Seq(Calls)
      /\ Len(Tail(t)) = Len(t) - 1 /\ Head(t) = t[1]
      /\ \A i \in 1..Len(Tail(t)) : Tail(t)[i] = t[i + 1]
      /\ \A i \in 1..Len(t) : t[i] \in Calls
  BY DEF IsList
<1>2. ASSUME NEW i \in 1..Len(Tail(t)) PROVE i + 1 \in 1..Len(t) /\ t[i + 1] = Tail(t)[i] /\ i + 1 # 1
  BY <1>1
<1>3. ASSUME NEW i \in 1..Len(t), i # 1 PROVE i - 1 \in 1..Len(Tail(t)) /\ Tail(t)[i - 1] = t[i]
  <2>1. i - 1 \in 1..Len(Tail(t)) /\ (i - 1) + 1 = i
    BY <1>1, <1>3
  <2> QED BY <2>1, <1>1
<1>4. ASSUME NEW i \in 1..Len(t), NEW j \in 1..Len(t), t[i] = t[j] PROVE i = j
  BY <1>4 DEF IsList, Distinct
<1>5. 1 \in 1..Len(t)
  BY <1>1
<1>6. In(Tail(t)) \subseteq In(t) \ {Head(t)}
  BY <1>1, <1>2, <1>4, <1>5 DEF In
<1>7. In(t) \ {Head(t)} \subseteq In(Tail(t))
  BY <1>1, <1>3 DEF In
<1>8. Distinct(Tail(t))
  <2> SUFFICES ASSUME NEW i \in 1..Len(Tail(t)), NEW j \in 1..Len(Tail(t)), Tail(t)[i] = Tail(t)[j]
               PROVE  i = j
    BY DEF Distinct
  <2>1. i + 1 = j + 1
    BY <1>2, <1>4
  <2> QED BY <2>1
<1>9. ASSUME NEW p \in Order(op)
      PROVE  Before(Tail(t), p[1], p[2]) /\ (p[2] = Head(t) => p[1] \notin In(t))
  <2>1. ASSUME NEW i \in 1..Len(t), NEW j \in 1..Len(t), t[i] = p[1], t[j] = p[2] PROVE i < j
    BY <2>1 DEF IsList, Before
  <2>2. ASSUME NEW i \in 1..Len(Tail(t)), NEW j \in 1..Len(Tail(t)), Tail(t)[i] = p[1], Tail(t)[j] = p[2]
        PROVE  i < j
    <3>1. i + 1 < j + 1
      BY <2>1, <2>2, <1>2
    <3> QED BY <3>1
  <2>3. ASSUME p[2] = Head(t), NEW i \in 1..Len(t), t[i] = p[1] PROVE FALSE
    <3>1. i < 1
      BY <2>1, <2>3, <1>1, <1>5
    <3> QED BY <3>1
  <2> QED BY <2>2, <2>3 DEF Before, In
<1>10. Head(t) \in In(t) /\ In(t) \subseteq Calls
  BY <1>1, <1>5 DEF In
<1> QED BY <1>1, <1>6, <1>7, <1>8, <1>9, <1>10 DEF IsList

\* Two lists that have nothing in common, and no call of the second before one of the
\* first, make a list.
LEMMA Join ==
    ASSUME NEW s, NEW t, NEW op, IsList(s, op), IsList(t, op),
           In(s) \cap In(t) = {}, \A p \in Order(op) : ~(p[2] \in In(s) /\ p[1] \in In(t))
    PROVE  IsList(s \o t, op) /\ In(s \o t) = In(s) \union In(t)
<1> DEFINE u == s \o t
<1>1. /\ s \in Seq(Calls) /\ t \in Seq(Calls) /\ Len(s) \in Nat /\ Len(t) \in Nat
      /\ u \in Seq(Calls) /\ Len(u) = Len(s) + Len(t)
      /\ \A i \in 1..Len(s) + Len(t) : u[i] = IF i <= Len(s) THEN s[i] ELSE t[i - Len(s)]
  BY ConcatProperties DEF IsList
<1> HIDE DEF u
<1>2. ASSUME NEW i \in 1..Len(u)
      PROVE  \/ i \in 1..Len(s) /\ u[i] = s[i] /\ u[i] \in In(s)
             \/ i - Len(s) \in 1..Len(t) /\ i > Len(s) /\ u[i] = t[i - Len(s)] /\ u[i] \in In(t)
  <2>1. CASE i <= Len(s)
    BY <1>1, <2>1 DEF In
  <2>2. CASE i > Len(s)
    <3>1. i - Len(s) \in 1..Len(t) /\ u[i] = t[i - Len(s)]
      BY <1>1, <2>2
    <3> QED BY <3>1, <2>2 DEF In
  <2> QED BY <1>1, <2>1, <2>2
<1>3. In(u) = In(s) \union In(t)
  <2>1. ASSUME NEW i \in 1..Len(s) PROVE s[i] \in In(u)
    <3>1. i \in 1..Len(u) /\ u[i] = s[i]
      BY <1>1
    <3> QED BY <3>1 DEF In
  <2>2. ASSUME NEW i \in 1..Len(t) PROVE t[i] \in In(u)
    <3>1. Len(s) + i \in 1..Len(u) /\ ~(Len(s) + i <= Len(s)) /\ (Len(s) + i) - Len(s) = i
      BY <1>1
    <3>2. u[Len(s) + i] = t[i]
      BY <3>1, <1>1
    <3> QED BY <3>1, <3>2 DEF In
  <2>3. In(u) \subseteq In(s) \union In(t)
    BY <1>2 DEF In
  <2>4. In(s) \subseteq In(u)
    BY <2>1 DEF In
  <2>5. In(t) \subseteq In(u)
    BY <2>2 DEF In
  <2> QED BY <2>3, <2>4, <2>5
<1>4. Distinct(u)
  <2> SUFFICES ASSUME NEW i \in 1..Len(u), NEW j \in 1..Len(u), u[i] = u[j]
               PROVE  i = j
    BY DEF Distinct
  <2>1. CASE u[i] \in In(s)
    <3>1. i \in 1..Len(s) /\ j \in 1..Len(s) /\ s[i] = s[j]
      BY <1>2, <2>1
    <3> QED BY <3>1 DEF IsList, Distinct
  <2>2. CASE u[i] \in In(t)
    <3>1. i - Len(s) \in 1..Len(t) /\ j - Len(s) \in 1..Len(t) /\ t[i - Len(s)] = t[j - Len(s)]
      BY <1>2, <2>2
    <3>2. i - Len(s) = j - Len(s)
      BY <3>1 DEF IsList, Distinct
    <3> QED BY <3>2, <1>1
  <2> QED BY <1>2, <2>1, <2>2
<1>5. ASSUME NEW p \in Order(op) PROVE Before(u, p[1], p[2])
  <2> SUFFICES ASSUME NEW i \in 1..Len(u), NEW j \in 1..Len(u), u[i] = p[1], u[j] = p[2]
               PROVE  i < j
    BY DEF Before
  <2>1. CASE u[i] \in In(s) /\ u[j] \in In(s)
    <3>1. i \in 1..Len(s) /\ j \in 1..Len(s) /\ s[i] = p[1] /\ s[j] = p[2]
      BY <1>2, <2>1
    <3> QED BY <3>1 DEF IsList, Before
  <2>2. CASE u[i] \in In(t) /\ u[j] \in In(t)
    <3>1. i - Len(s) \in 1..Len(t) /\ j - Len(s) \in 1..Len(t) /\ t[i - Len(s)] = p[1] /\ t[j - Len(s)] = p[2]
      BY <1>2, <2>2
    <3>2. i - Len(s) < j - Len(s)
      BY <3>1 DEF IsList, Before
    <3> QED BY <3>2, <1>1
  <2>3. CASE u[i] \in In(s) /\ u[j] \in In(t)
    <3>1. i \in 1..Len(s) /\ j > Len(s)
      BY <1>2, <2>3
    <3> QED BY <3>1, <1>1
  <2> QED BY <1>2, <2>1, <2>2, <2>3
<1> QED BY <1>1, <1>3, <1>4, <1>5 DEF IsList, u

\* None of the calls S has to come after one of the calls T.
Precedes(S, T, op) ==
    /\ "create" \in S => /\ T \cap {"pull", "mounts", "close", "closed", "rmdir", "rmstore"} = {}
                         /\ op # "rolling" => T \cap {"stop", "remove"} = {}
    /\ S \cap {"store", "legacy", "bind", "start", "address", "inspect", "health", "look"} # {} => "create" \notin T
    /\ "again" \in S => T \cap {"removeNew", "rmdir", "rmstore"} = {}
    /\ op = "rolling" => /\ "stop" \in S => T \cap {"start", "address", "health"} = {}
                         /\ "remove" \in S => "stop" \notin T

\* What the order of an operation says of two calls of one of its lists.
LEMMA PrecedesOrder ==
    ASSUME NEW S, NEW T, NEW op, Precedes(S, T, op), NEW p \in Order(op)
    PROVE  ~(p[2] \in S /\ p[1] \in T)
<1>1. CASE p \in {"pull", "mounts", "close", "closed", "rmdir", "rmstore"} \X {"create"}
  BY <1>1 DEF Precedes
<1>2. CASE p \in {"create"} \X {"store", "legacy", "bind", "start", "address", "inspect", "health", "look"}
  BY <1>2 DEF Precedes
<1>3. CASE p \in {"removeNew", "rmdir", "rmstore"} \X {"again"}
  BY <1>3 DEF Precedes
<1>4. CASE p \in IF op = "rolling" THEN ({"start", "address", "health"} \X {"stop"}) \union {<<"stop", "remove">>} ELSE {"stop", "remove"} \X {"create"}
  BY <1>4 DEF Precedes
<1> QED BY <1>1, <1>2, <1>3, <1>4 DEF Order

\* What two lists one after the other make, as a set and as a list without repeats.
LEMMA JoinSets ==
    ASSUME NEW s, NEW t, NEW op, NEW S, NEW T, IsList(s, op), In(s) = S, IsList(t, op), In(t) = T,
           S \cap T = {}, Precedes(S, T, op)
    PROVE  IsList(s \o t, op) /\ In(s \o t) = S \union T
BY Join, PrecedesOrder

Cleanup  == {"close", "closed", "rmdir", "rmstore"}
Register == {"store", "legacy", "bind"}
Undo     == {"stopNew", "removeNew", "again"} \union Cleanup
Swap     == {"pull", "mounts", "stop", "remove", "create", "start", "address", "inspect", "look"}
              \union Cleanup \union Register
Rolling  == {"pull", "create", "start", "address", "health", "stop", "remove", "look"}

\* The shortest lists.
LEMMA Pieces ==
    ASSUME NEW op
    PROVE  /\ IsList(<<>>, op) /\ In(<<>>) = {}
           /\ IsList(<<"read">>, op) /\ In(<<"read">>) = {"read"}
           /\ IsList(<<"look">>, op) /\ In(<<"look">>) = {"look"}
           /\ IsList(<<"again">>, op) /\ In(<<"again">>) = {"again"}
           /\ IsList(<<"create">>, op) /\ In(<<"create">>) = {"create"}
           /\ IsList(<<"pull">>, op) /\ In(<<"pull">>) = {"pull"}
           /\ IsList(cleanup, op) /\ In(cleanup) = Cleanup
           /\ IsList(register, op) /\ In(register) = Register
           /\ IsList(<<"stopNew", "removeNew">>, op) /\ In(<<"stopNew", "removeNew">>) = {"stopNew", "removeNew"}
<1> USE DEF IsList, In, Distinct, Before, Order, Calls
<1>1. /\ IsList(<<>>, op) /\ In(<<>>) = {}
      /\ IsList(<<"read">>, op) /\ In(<<"read">>) = {"read"}
      /\ IsList(<<"look">>, op) /\ In(<<"look">>) = {"look"}
  OBVIOUS
<1>2. /\ IsList(<<"again">>, op) /\ In(<<"again">>) = {"again"}
      /\ IsList(<<"create">>, op) /\ In(<<"create">>) = {"create"}
      /\ IsList(<<"pull">>, op) /\ In(<<"pull">>) = {"pull"}
  OBVIOUS
<1>3. IsList(cleanup, op) /\ In(cleanup) = Cleanup
  BY DEF cleanup, Cleanup
<1>4. IsList(register, op) /\ In(register) = Register
  BY DEF register, Register
<1>5. IsList(<<"stopNew", "removeNew">>, op) /\ In(<<"stopNew", "removeNew">>) = {"stopNew", "removeNew"}
  OBVIOUS
<1> QED BY <1>1, <1>2, <1>3, <1>4, <1>5

Answering == {"start", "address", "look"}
Renewing  == {"create"} \union Answering \union (IF mcp = "yes" THEN Register \union {"inspect"} ELSE {})
Swapping  == {"pull", "stop", "remove"} \union Renewing
               \union (IF mcp = "yes" THEN {"mounts"} \union Cleanup ELSE {})

\* The lists of the functions.
LEMMA Plans ==
    ASSUME NEW op
    PROVE  /\ IsList(createAndStart, op) /\ In(createAndStart) = Renewing
           /\ op = "rolling" => IsList(rollingPlan, op) /\ In(rollingPlan) = Rolling
           /\ op # "rolling" => IsList(redeployPlan, op) /\ In(redeployPlan) = Swapping
           /\ op = "reconfigure" => IsList(reconfigurePlan, op) /\ In(reconfigurePlan) = Swap \ {"mounts", "inspect"}
           /\ op = "delete" => IsList(deletePlan, op) /\ In(deletePlan) = {"inspect", "stop", "remove", "volumes"}
<1> DEFINE last4 == <<"start", "address", "inspect", "look">>
           all4  == <<"create", "start", "address", "look">>
           v3    == <<"pull", "mounts", "stop", "remove">>
           raw   == <<"pull", "stop", "remove">>
           mid   == <<"stop", "remove", "create">>
           last3 == <<"start", "address", "look">>
<1> USE DEF Register, Cleanup, Answering
<1>1. /\ IsList(last4, op) /\ In(last4) = {"start", "address", "inspect", "look"}
      /\ IsList(all4, op) /\ In(all4) = {"create", "start", "address", "look"}
      /\ IsList(last3, op) /\ In(last3) = {"start", "address", "look"}
  BY DEF IsList, In, Distinct, Before, Order, Calls
<1>2. /\ IsList(v3, op) /\ In(v3) = {"pull", "mounts", "stop", "remove"}
      /\ IsList(raw, op) /\ In(raw) = {"pull", "stop", "remove"}
      /\ op # "rolling" => IsList(mid, op) /\ In(mid) = {"stop", "remove", "create"}
  BY DEF IsList, In, Distinct, Before, Order, Calls
<1>3. op = "rolling" => IsList(rollingPlan, op) /\ In(rollingPlan) = Rolling
  BY DEF IsList, In, Distinct, Before, Order, Calls, rollingPlan, Rolling
<1>4. op = "delete" => IsList(deletePlan, op) /\ In(deletePlan) = {"inspect", "stop", "remove", "volumes"}
  BY DEF IsList, In, Distinct, Before, Order, Calls, deletePlan
<1> HIDE DEF last4, all4, v3, raw, mid, last3
<1>5. IsList(createAndStart, op) /\ In(createAndStart) = Renewing
  <2> DEFINE a == <<"create">>
             c == a \o register
  <2>1. IsList(a, op) /\ In(a) = {"create"} /\ IsList(register, op) /\ In(register) = Register
    BY Pieces
  <2>2. Precedes({"create"}, Register, op) /\ {"create"} \cap Register = {}
    BY DEF Precedes
  <2> HIDE DEF a
  <2>3. IsList(c, op) /\ In(c) = {"create"} \union Register
    BY <2>1, <2>2, JoinSets
  <2>4. LET S == {"create"} \union Register  T == {"start", "address", "inspect", "look"}
        IN  Precedes(S, T, op) /\ S \cap T = {}
    BY DEF Precedes
  <2> HIDE DEF c
  <2>5. IsList(c \o last4, op) /\ In(c \o last4) = {"create"} \union Register \union {"start", "address", "inspect", "look"}
    BY <2>3, <2>4, <1>1, JoinSets
  <2> QED BY <2>5, <1>1 DEF createAndStart, Renewing, a, c, last4, all4
<1>6. ASSUME op # "rolling" PROVE IsList(redeployPlan, op) /\ In(redeployPlan) = Swapping
  <2>1. CASE mcp = "yes"
    <3> DEFINE c == v3 \o cleanup
    <3>0. IsList(cleanup, op) /\ In(cleanup) = Cleanup
      BY Pieces
    <3>1. LET S == {"pull", "mounts", "stop", "remove"} IN Precedes(S, Cleanup, op) /\ S \cap Cleanup = {}
      BY <1>6 DEF Precedes
    <3>2. IsList(c, op) /\ In(c) = {"pull", "mounts", "stop", "remove"} \union Cleanup
      BY <3>0, <3>1, <1>2, JoinSets
    <3>3. LET S == {"pull", "mounts", "stop", "remove"} \union Cleanup
          IN  Precedes(S, Renewing, op) /\ S \cap Renewing = {}
      BY <1>6 DEF Precedes, Renewing
    <3> HIDE DEF c
    <3>4. /\ IsList(c \o createAndStart, op)
          /\ In(c \o createAndStart) = ({"pull", "mounts", "stop", "remove"} \union Cleanup) \union Renewing
      BY <3>2, <3>3, <1>5, JoinSets
    <3> QED BY <2>1, <3>4 DEF redeployPlan, Swapping, c, v3
  <2>2. CASE mcp # "yes"
    <3>1. LET S == {"pull", "stop", "remove"} IN Precedes(S, Renewing, op) /\ S \cap Renewing = {}
      BY <1>6 DEF Precedes, Renewing
    <3>2. /\ IsList(raw \o createAndStart, op)
          /\ In(raw \o createAndStart) = {"pull", "stop", "remove"} \union Renewing
      BY <3>1, <1>2, <1>5, JoinSets
    <3> QED BY <2>2, <3>2 DEF redeployPlan, Swapping, raw
  <2> QED BY <2>1, <2>2
<1>7. ASSUME op = "reconfigure" PROVE IsList(reconfigurePlan, op) /\ In(reconfigurePlan) = Swap \ {"mounts", "inspect"}
  <2> DEFINE d == <<"pull">>
             a == d \o cleanup
             b == a \o mid
             c == b \o register
             A == {"pull"} \union Cleanup
             B == A \union {"stop", "remove", "create"}
             C == B \union Register
  <2>0. /\ IsList(d, op) /\ In(d) = {"pull"}
        /\ IsList(cleanup, op) /\ In(cleanup) = Cleanup
        /\ IsList(register, op) /\ In(register) = Register
    BY Pieces
  <2>1. /\ Precedes({"pull"}, Cleanup, op) /\ {"pull"} \cap Cleanup = {}
        /\ Precedes(A, {"stop", "remove", "create"}, op) /\ A \cap {"stop", "remove", "create"} = {}
    BY <1>7 DEF Precedes
  <2>2. /\ Precedes(B, Register, op) /\ B \cap Register = {}
        /\ Precedes(C, {"start", "address", "look"}, op) /\ C \cap {"start", "address", "look"} = {}
    BY <1>7 DEF Precedes
  <2>6. C \union {"start", "address", "look"} = Swap \ {"mounts", "inspect"}
    BY DEF Swap
  <2> HIDE DEF d, A, B, C
  <2>3. IsList(a, op) /\ In(a) = A
    BY <2>0, <2>1, JoinSets DEF A
  <2> HIDE DEF a
  <2>4. IsList(b, op) /\ In(b) = B
    BY <1>2, <1>7, <2>1, <2>3, JoinSets DEF B
  <2> HIDE DEF b
  <2>5. IsList(c, op) /\ In(c) = C
    BY <2>0, <2>2, <2>4, JoinSets DEF C
  <2> HIDE DEF c
  <2>7. IsList(c \o last3, op) /\ In(c \o last3) = C \union {"start", "address", "look"}
    BY <1>1, <2>2, <2>5, JoinSets
  <2> QED BY <2>6, <2>7 DEF reconfigurePlan, a, b, c, d, mid, last3
<1> QED BY <1>3, <1>4, <1>5, <1>6, <1>7

\* The way back.
LEMMA Undoes ==
    ASSUME NEW r, r.phase \in {"forward", "revert"}, r.op \in {"rolling", "swap", "upgrade"}
    PROVE  /\ IsList(undo(r), r.op)
           /\ In(undo(r)) = {"stopNew", "removeNew"} \union
                (IF r.op = "upgrade" THEN Cleanup \union (IF r.phase = "forward" THEN {"again"} ELSE {}) ELSE {})
<1> DEFINE a == <<"stopNew", "removeNew">>
           b == a \o cleanup
<1>1. IsList(a, r.op) /\ In(a) = {"stopNew", "removeNew"} /\ IsList(cleanup, r.op) /\ In(cleanup) = Cleanup
  BY Pieces
<1> DEFINE B == {"stopNew", "removeNew"} \union Cleanup
<1>2. /\ Precedes({"stopNew", "removeNew"}, Cleanup, r.op) /\ {"stopNew", "removeNew"} \cap Cleanup = {}
      /\ Precedes(B, {"again"}, r.op) /\ B \cap {"again"} = {} /\ Precedes(B, {}, r.op) /\ B \cap {} = {}
  BY DEF Precedes, Cleanup
<1> HIDE DEF a, B
<1>3. IsList(b, r.op) /\ In(b) = B
  BY <1>1, <1>2, JoinSets DEF B
<1> HIDE DEF b
<1>4. /\ IsList(<<"again">>, r.op) /\ In(<<"again">>) = {"again"}
      /\ IsList(<<>>, r.op) /\ In(<<>>) = {}
  BY Pieces
<1>5. IsList(b \o <<"again">>, r.op) /\ In(b \o <<"again">>) = B \union {"again"}
  <2> DEFINE e == <<"again">>
  <2>1. IsList(e, r.op) /\ In(e) = {"again"}
    BY <1>4
  <2> HIDE DEF e
  <2>2. IsList(b \o e, r.op) /\ In(b \o e) = B \union {"again"}
    BY <1>2, <1>3, <2>1, JoinSets
  <2> QED BY <2>2 DEF e
<1>6. IsList(b \o <<>>, r.op) /\ In(b \o <<>>) = B \union {}
  <2> DEFINE e == <<>>
  <2>1. IsList(e, r.op) /\ In(e) = {}
    BY <1>4
  <2> HIDE DEF e
  <2>2. IsList(b \o e, r.op) /\ In(b \o e) = B \union {}
    BY <1>2, <1>3, <2>1, JoinSets
  <2> QED BY <2>2 DEF e
<1> QED BY <1>1, <1>5, <1>6 DEF undo, a, b, B

-----------------------------------------------------------------------------
(* The request: what it still has to do, and how a step moves it.           *)

Todo == In(req.todo)

\* The lists an operation goes through: the second look, its own, and its way back.
ListInv ==
    /\ IsList(req.todo, req.op)
    /\ req.op = "none" => Todo = {}
    /\ req.op = "rolling" => \/ Todo \subseteq {"read"} \/ Todo \subseteq Rolling
                             \/ Todo \subseteq {"stopNew", "removeNew"}
    /\ req.op = "swap" => \/ Todo \subseteq {"read"}
                          \/ Todo \subseteq {"pull", "stop", "remove", "create"} \union Answering
                          \/ Todo \subseteq {"stopNew", "removeNew"}
    /\ req.op = "upgrade" => \/ Todo \subseteq {"read"} \/ Todo \subseteq Swap \/ Todo \subseteq Undo
    /\ req.op = "reconfigure" => Todo \subseteq Swap \ {"mounts", "inspect"}
    /\ req.op = "delete" => /\ Todo \subseteq {"inspect", "stop", "remove", "volumes"} \union Cleanup
                            /\ "inspect" \in Todo => req.todo = deletePlan

Ops     == {"none", "rolling", "swap", "upgrade", "reconfigure", "delete"}
Request == [op : Ops, todo : Seq(Calls),
            old : 0..MaxMade, new : 0..MaxMade, bind : Binding, vol : {"yes", "no", "bad"}, sec : YesNo,
            found : Box, phase : {"forward", "revert"},
            res : {"ok", "failed", "recovered", "unrecovered"}, at : Calls \union {"none"}, known : YesNo,
            blame : Calls \union {"none"}]
Answer  == [op : Ops \union {"deploy"},
            res : {"none", "ok", "failed", "recovered", "unrecovered"}, box : 0..MaxMade,
            found : Box, at : Calls \union {"none"}, blame : Calls \union {"none"}]

Types ==
    /\ mcp \in YesNo
    /\ box \in [Ids -> Box]
    /\ sock \in [of : 0..MaxMade, bind : Binding]
    /\ store \in Binding /\ legacy \in Binding
    /\ conn \in 0..MaxMade
    /\ agent \in [phase : {"up", "rebind", "sweep"}, rebind : {"ok", "failed"}, recover : SUBSET Ids]
    /\ req \in Request
    /\ req.op = "none" => req = Rest
    /\ req # Rest => agent.phase = "up"
    /\ req.phase = "revert" => req.op = "upgrade"
    /\ last \in Answer
    /\ leaked \subseteq Ids
    /\ spent \in [mishaps : Nat, exits : Nat, reboots : Nat, requests : Nat, leaks : Nat, rebinds : Nat]
TypeInv == Types /\ ListInv

\* The step makes call s and is done with it; nothing that comes before s was still to come.
Due(s) == /\ At(s) /\ s \in Todo
          /\ \A p \in Order(req.op) : p[2] = s => p[1] \notin Todo
Gone(s) == /\ Due(s)
           /\ req' = [req EXCEPT !.todo = Tail(@)]
           /\ IsList(req'.todo, req.op) /\ Todo' = Todo \ {s}

\* The four ways a call that throws is caught.
Skipped(s) ==
    /\ Due(s) /\ req.op = "delete"
    /\ \E k \in YesNo, x \in {"failed", req.res} :
         req' = [req EXCEPT !.todo = Tail(@), !.known = k, !.res = x]
    /\ IsList(req'.todo, req.op) /\ Todo' = Todo \ {s}
Looked(s) ==
    /\ Due(s) /\ req.op = "rolling" /\ s \in {"stop", "remove"}
    /\ req' = [req EXCEPT !.todo = <<"look">>]
    /\ IsList(req'.todo, req.op) /\ Todo' = {"look"}
Quit(s) ==
    /\ Due(s) /\ req.op \notin {"none", "delete"}
    /\ req.op = "reconfigure" \/ s \in {"read", "pull", "mounts", "stop", "remove"}
    /\ req.op = "rolling" => s \notin {"stop", "remove"}
    /\ \E b \in {req.blame, s} :
         /\ b # req.blame => req.phase = "revert"
         /\ req' = [req EXCEPT !.at = s, !.blame = b, !.todo = <<>>, !.res = "failed"]
    /\ IsList(req'.todo, req.op) /\ Todo' = {}
Undone(s) ==
    /\ Due(s) /\ req.op \in {"rolling", "swap", "upgrade"}
    /\ s \notin {"read", "pull", "mounts", "stop", "remove"}
    /\ \E b \in {req.blame, s} :
         /\ b # req.blame => req.phase = "revert"
         /\ req' = [req EXCEPT !.at = s, !.blame = b, !.todo = undo(req),
                               !.res = IF req.op = "upgrade" /\ req.phase = "revert" THEN "unrecovered" ELSE "failed"]
    /\ IsList(req'.todo, req.op)
    /\ Todo' = {"stopNew", "removeNew"} \union
                  (IF req.op = "upgrade" THEN Cleanup \union (IF req.phase = "forward" THEN {"again"} ELSE {}) ELSE {})
Threw(s) == Skipped(s) \/ Looked(s) \/ Quit(s) \/ Undone(s)

\* A call that is due is the first of what is to come.
LEMMA DueWhen ==
    ASSUME TypeInv, NEW s, At(s)
    PROVE  Due(s) /\ s \in Calls /\ IsList(Tail(req.todo), req.op) /\ In(Tail(req.todo)) = Todo \ {s}
<1>1. IsList(req.todo, req.op) /\ req.todo # <<>> /\ Head(req.todo) = s
  BY DEF TypeInv, ListInv, At
<1> QED BY <1>1, Pop DEF Due, Todo

\* Going on takes the first call off.
LEMMA GoneWhen ==
    ASSUME TypeInv, NEW s, At(s), Go
    PROVE  Gone(s) /\ s \in Calls
<1>1. Due(s) /\ s \in Calls /\ IsList(Tail(req.todo), req.op) /\ In(Tail(req.todo)) = Todo \ {s}
  BY DueWhen
<1>2. req'.todo = Tail(req.todo)
  BY DEF Go, TypeInv, Types, Request
<1> QED BY <1>1, <1>2 DEF Gone, Go, Todo

\* What a call that throws leaves to do (the catch blocks of lifecycle-service.ts).
LEMMA ThrewWhen ==
    ASSUME TypeInv, NEW s, At(s), Throws
    PROVE  Threw(s) /\ s \in Calls
<1>1. Due(s) /\ s \in Calls /\ IsList(Tail(req.todo), req.op) /\ In(Tail(req.todo)) = Todo \ {s}
  BY DueWhen
<1>2. Head(req.todo) = s /\ req \in Request /\ req' = Caught(req)
  BY DEF At, TypeInv, Types, Throws
<1>h. Head(req.todo) = s
  BY DEF At
<1>3. req.op \in Ops /\ req.op # "none" /\ req.phase \in {"forward", "revert"}
  <2>1. req.op = "none" => s \notin Todo
    BY DEF TypeInv, ListInv
  <2> QED BY <1>1, <1>2, <2>1 DEF Due, Request
<1>4. CASE req.op = "delete"
  <2>1. \E k \in YesNo, x \in {"failed", req.res} : req' = [req EXCEPT !.todo = Tail(@), !.known = k, !.res = x]
    <3>1. Caught(req) = [req EXCEPT !.todo = Tail(@), !.known = IF s = "inspect" THEN "no" ELSE @,
                         !.res = IF s = "volumes" THEN "failed" ELSE @]
      BY <1>h, <1>4 DEF Caught
    <3>2. req.known \in YesNo
      BY <1>2 DEF Request
    <3> QED BY <1>2, <3>1, <3>2 DEF YesNo, Request
  <2>2. req'.todo = Tail(req.todo)
    BY <1>2, <2>1 DEF Request
  <2> QED BY <1>1, <1>4, <2>1, <2>2 DEF Threw, Skipped, Todo
<1>5. CASE req.op = "rolling" /\ s \in {"stop", "remove"}
  <2>0. Caught(req) = [req EXCEPT !.todo = <<"look">>]
    BY <1>h, <1>5 DEF Caught
  <2>1. req' = [req EXCEPT !.todo = <<"look">>]
    BY <1>2, <2>0
  <2>2. req'.todo = <<"look">>
    BY <1>2, <2>1 DEF Request
  <2>3. IsList(<<"look">>, req.op) /\ In(<<"look">>) = {"look"}
    BY Pieces
  <2> QED BY <1>1, <1>5, <2>1, <2>2, <2>3 DEF Threw, Looked, Todo
<1> DEFINE b == IF req.blame = "none" /\ req.phase = "revert" THEN s ELSE req.blame
<1>6. CASE /\ req.op # "delete" /\ ~(req.op = "rolling" /\ s \in {"stop", "remove"})
           /\ req.op = "reconfigure" \/ s \in {"read", "pull", "mounts", "stop", "remove"}
  <2>1. req' = [req EXCEPT !.at = s, !.blame = b, !.todo = <<>>, !.res = "failed"]
    BY <1>2, <1>6 DEF Caught, Request
  <2>2. req'.todo = <<>>
    BY <1>2, <2>1 DEF Request
  <2>3. IsList(<<>>, req.op) /\ In(<<>>) = {}
    BY Pieces
  <2>4. b \in {req.blame, s} /\ (b # req.blame => req.phase = "revert")
    OBVIOUS
  <2> HIDE DEF b
  <2> QED BY <1>1, <1>3, <1>6, <2>1, <2>2, <2>3, <2>4 DEF Threw, Quit, Todo
<1>7. CASE /\ req.op # "delete" /\ req.op # "reconfigure"
           /\ s \notin {"read", "pull", "mounts", "stop", "remove"}
  <2> DEFINE x == IF req.op = "upgrade" /\ req.phase = "revert" THEN "unrecovered" ELSE "failed"
  <2>1. req' = [req EXCEPT !.at = s, !.blame = b, !.todo = undo(req), !.res = x]
    BY <1>2, <1>7 DEF Caught, Request
  <2>2. req'.todo = undo(req)
    BY <1>2, <2>1 DEF Request
  <2>0. req.op \in {"rolling", "swap", "upgrade"}
    BY <1>3, <1>7 DEF Ops
  <2>3. /\ IsList(undo(req), req.op)
        /\ In(undo(req)) = {"stopNew", "removeNew"} \union
                (IF req.op = "upgrade" THEN Cleanup \union (IF req.phase = "forward" THEN {"again"} ELSE {}) ELSE {})
    BY <1>3, <2>0, Undoes
  <2>4. b \in {req.blame, s} /\ (b # req.blame => req.phase = "revert")
    OBVIOUS
  <2> HIDE DEF b
  <2> QED BY <1>1, <1>7, <2>0, <2>1, <2>2, <2>3, <2>4 DEF Threw, Undone, Todo
<1> QED BY <1>4, <1>5, <1>6, <1>7

\* The steps that do more to the request than go on.
Appended ==
    /\ Due("inspect") /\ req.op = "delete"
    /\ req' = [req EXCEPT !.todo = Tail(@) \o IF mcp = "yes" THEN cleanup ELSE <<>>]
    /\ IsList(req'.todo, req.op)
    /\ Todo' = {"stop", "remove", "volumes"} \union (IF mcp = "yes" THEN Cleanup ELSE {})
Created ==
    /\ Due("create")
    /\ req' = [req EXCEPT !.todo = Tail(@), !.new = Cardinality(Made) + 1]
    /\ IsList(req'.todo, req.op) /\ Todo' = Todo \ {"create"}
Reverted ==
    /\ Due("again") /\ req.op = "upgrade"
    /\ req' = [req EXCEPT !.phase = "revert", !.res = "recovered", !.new = 0,
                          !.bind.ver = req.found.ver, !.todo = createAndStart]
    /\ IsList(req'.todo, req.op) /\ Todo' = Renewing
LookedAgain ==
    /\ Due("read") /\ getById # 0 /\ req.op \in {"rolling", "swap", "upgrade"}
    /\ assertRawRedeployAllowed(box[getById], req)
    /\ req.op = "rolling" => box[getById].st = "running"
    /\ \E v \in {req.vol, box[getById].vol}, t \in {rollingPlan, redeployPlan} :
         /\ v = IF req.op = "upgrade" /\ box[getById].vol = "no" THEN req.vol ELSE box[getById].vol
         /\ req' = [req EXCEPT !.old = getById, !.found = box[getById], !.vol = v, !.todo = t]
    /\ IsList(req'.todo, req.op)
    /\ Todo' = IF req.op = "rolling" THEN Rolling ELSE Swapping

\* What a request is at its begin.
SwapBegun ==
    \E o \in {"rolling", "swap", "upgrade"}, b \in Binding, y \in YesNo, v \in {"yes", "no", "bad"} :
       /\ o = "upgrade" => mcp = "yes"
       /\ o = "rolling" => box[getById].vol = "no"
       /\ v = "bad" => o = "upgrade"
       /\ b.ver # 0
       /\ req' = [Rest EXCEPT !.op = o, !.todo = <<"read">>, !.sec = y, !.vol = v, !.bind = b]
       /\ Todo' = {"read"}
       /\ leaked' = leaked
ReconfigureBegun ==
    /\ mcp = "yes"
    /\ \E b \in Binding, t \in {<<>>, reconfigurePlan} :
         LET ok == t # <<>>
         IN  /\ ok => Labels(getById) = b
             /\ b.ver # 0
             /\ req' = [Rest EXCEPT !.op = "reconfigure", !.old = getById, !.found = box[getById],
                          !.vol = box[getById].vol, !.sec = box[getById].sec, !.bind = b,
                          !.todo = t, !.res = IF ok THEN "ok" ELSE "failed", !.at = IF ok THEN "none" ELSE "read"]
             /\ Todo' = IF ok THEN Swap \ {"mounts", "inspect"} ELSE {}
    /\ leaked' = Others(getById)
DeleteBegun ==
    /\ req' = [Rest EXCEPT !.op = "delete", !.old = getById, !.found = box[getById], !.todo = deletePlan]
    /\ Todo' = {"inspect", "stop", "remove", "volumes"}
    /\ leaked' = Others(getById)
Begun ==
    /\ agent.phase = "up" /\ req = Rest /\ getById # 0
    /\ Cardinality(Made) + 2 <= MaxMade
    /\ spent' = [spent EXCEPT !.requests = @ + 1]
    /\ last' = NoAnswer
    /\ UNCHANGED <<mcp, box, sock, store, legacy, conn, agent>>
    /\ IsList(req'.todo, req'.op)
    /\ SwapBegun \/ ReconfigureBegun \/ DeleteBegun

-----------------------------------------------------------------------------
(* The container a request is about.                                        *)

\* The newest of some containers is one of them.
LEMMA NewestIn ==
    ASSUME NEW S \in SUBSET Ids, S # {}
    PROVE  Newest(S) \in S
<1>0. MaxMade \in Nat
  BY BoundsAssumption
<1> DEFINE T == {MaxMade - d : d \in S}
<1>1. T \subseteq Nat /\ T # {}
  <2>1. ASSUME NEW d \in S PROVE MaxMade - d \in Nat
    <3>1. d \in Nat /\ d <= MaxMade
      BY <1>0 DEF Ids
    <3> QED BY <1>0, <3>1
  <2> QED BY <2>1
<1>2. PICK m \in T : \A n \in T : m <= n
  <2>1. IsWellFoundedOn(OpToRel(<, Nat), Nat)
    BY NatLessThanWellFounded
  <2> HIDE DEF T
  <2>2. PICK m \in T : \A n \in T : ~(<<n, m>> \in OpToRel(<, Nat))
    BY <1>1, <2>1, WFMin
  <2>3. ASSUME NEW n \in T PROVE m <= n
    <3>1. n \in Nat /\ m \in Nat
      BY <1>1
    <3>2. <<n, m>> \in Nat \X Nat /\ <<n, m>>[1] = n /\ <<n, m>>[2] = m
      BY <3>1
    <3>3. ~(n < m)
      BY <2>2, <3>2 DEF OpToRel
    <3> QED BY <3>1, <3>3
  <2> QED BY <2>3
<1>3. PICK d \in S : m = MaxMade - d
  BY <1>2
<1>4. \A e \in S : e <= d
  <2> TAKE e \in S
  <2>1. m <= MaxMade - e
    BY <1>2
  <2>2. e \in Nat /\ d \in Nat
    BY DEF Ids
  <2> QED BY <1>0, <1>3, <2>1, <2>2
<1> QED BY <1>4 DEF Newest

\* The container the agent takes for the app's is one there is (containers/docker.ts).
LEMMA GetById ==
    /\ getById \in Existing \union {0}
    /\ getById # 0 <=> Existing # {}
    /\ getById # 0 => getById \in Ids
<1>1. Running \in SUBSET Ids /\ Existing \in SUBSET Ids /\ Running \subseteq Existing
  BY DEF Running, Existing, Exists
<1>2. Running # {} => getById \in Running
  BY <1>1, NewestIn DEF getById
<1>3. Running = {} /\ Existing # {} => getById \in Existing
  BY <1>1, NewestIn DEF getById
<1>4. Existing = {} => getById = 0
  BY <1>1 DEF getById
<1>5. 0 \notin Ids
  BY BoundsAssumption DEF Ids
<1> QED BY <1>1, <1>2, <1>3, <1>4, <1>5

-----------------------------------------------------------------------------
(* The moves.                                                               *)

\* What a delete has to do once the container has been inspected.
LEMMA AppendedWhen ==
    ASSUME TypeInv, inspectContainer, req.op = "delete"
    PROVE  Appended \/ Skipped("inspect")
<1>0. At("inspect")
  BY DEF inspectContainer
<1>1. Due("inspect") /\ IsList(Tail(req.todo), req.op) /\ In(Tail(req.todo)) = Todo \ {"inspect"}
  BY <1>0, DueWhen
<1>2. req.todo = deletePlan /\ req \in Request
  BY <1>1 DEF TypeInv, ListInv, Types, Due
<1>3. CASE Throws
  BY <1>0, <1>3, ThrewWhen DEF Threw, Looked, Quit, Undone
<1>4. CASE req' = [req EXCEPT !.todo = Tail(@) \o IF mcp = "yes" THEN cleanup ELSE <<>>]
  <2> DEFINE t == Tail(req.todo)
             u == IF mcp = "yes" THEN cleanup ELSE <<>>
  <2>0. Todo = {"inspect", "stop", "remove", "volumes"}
    BY <1>2, Plans DEF Todo
  <2>1. IsList(t, req.op) /\ In(t) = {"stop", "remove", "volumes"}
    BY <1>1, <2>0
  <2> DEFINE U == IF mcp = "yes" THEN Cleanup ELSE {}
  <2>2. IsList(u, req.op) /\ In(u) = U
    BY Pieces
  <2>3. Precedes({"stop", "remove", "volumes"}, U, req.op) /\ {"stop", "remove", "volumes"} \cap U = {}
    BY DEF Precedes, Cleanup
  <2>4. req' = [req EXCEPT !.todo = t \o u]
    BY <1>4
  <2>5. req'.todo = t \o u
    BY <1>2, <2>4 DEF Request
  <2> HIDE DEF t, u, U
  <2>6. IsList(t \o u, req.op) /\ In(t \o u) = {"stop", "remove", "volumes"} \union U
    BY <2>1, <2>2, <2>3, JoinSets
  <2> QED BY <1>1, <2>4, <2>5, <2>6 DEF Appended, Todo, t, u, U
<1> QED BY <1>3, <1>4 DEF inspectContainer

\* What a request has to do once the new container is created.
LEMMA CreatedWhen ==
    ASSUME TypeInv, createAppContainer
    PROVE  Created \/ Threw("create")
<1>0. At("create")
  BY DEF createAppContainer
<1>1. Due("create") /\ IsList(Tail(req.todo), req.op) /\ In(Tail(req.todo)) = Todo \ {"create"}
  BY <1>0, DueWhen
<1>2. CASE Throws
  BY <1>0, <1>2, ThrewWhen
<1>3. CASE req' = [req EXCEPT !.todo = Tail(@), !.new = Cardinality(Made) + 1]
  <2>1. req'.todo = Tail(req.todo)
    BY <1>3 DEF TypeInv, Types, Request
  <2> QED BY <1>1, <1>3, <2>1 DEF Created, Todo
<1> QED BY <1>2, <1>3 DEF createAppContainer

\* What an upgrade that failed has to do, and what its way back has to do.
LEMMA RevertedWhen ==
    ASSUME TypeInv, revert
    PROVE  Reverted
<1>0. At("again")
  BY DEF revert
<1>1. Due("again")
  BY <1>0, DueWhen
<1>2. req.op = "upgrade" /\ req \in Request
  BY <1>1 DEF TypeInv, Types, Request, Ops, ListInv, Due, Rolling, Swap, Cleanup, Register, Answering
<1>3. req'.todo = createAndStart
  BY <1>2 DEF revert, Request
<1>4. IsList(createAndStart, req.op) /\ In(createAndStart) = Renewing
  BY Plans
<1> QED BY <1>1, <1>2, <1>3, <1>4 DEF Reverted, revert, Todo

\* What a request has to do once it has read the container.
LEMMA ReadWhen ==
    ASSUME TypeInv, read
    PROVE  (LookedAgain /\ leaked' = Others(getById)) \/ (Threw("read") /\ leaked' = leaked)
<1>0. At("read")
  BY DEF read
<1>1. Due("read")
  BY <1>0, DueWhen
<1>2. req.op \in {"rolling", "swap", "upgrade"} /\ req \in Request
  BY <1>1 DEF TypeInv, Types, Request, Ops, ListInv, Due, Rolling, Swap, Cleanup, Register, Answering
<1>3. CASE Throws /\ leaked' = leaked
  BY <1>0, <1>3, ThrewWhen
<1>4. CASE ~(Throws /\ leaked' = leaked)
  <2> DEFINE d == getById
             v == IF req.op = "upgrade" /\ box[d].vol = "no" THEN req.vol ELSE box[d].vol
             t == IF req.op = "rolling" THEN rollingPlan ELSE redeployPlan
  <2>1. /\ d # 0 /\ assertRawRedeployAllowed(box[d], req)
        /\ req.op = "rolling" => box[d].st = "running"
        /\ leaked' = Others(d)
    BY <1>4 DEF read
  <2>2. req' = [[req EXCEPT !.old = d, !.found = box[d], !.vol = v] EXCEPT !.todo = t]
    <3>1. req' = [[req EXCEPT !.old = d, !.found = box[d], !.vol = IF req.op = "upgrade" /\ box[d].vol = "no" THEN @ ELSE box[d].vol]
                    EXCEPT !.todo = IF [req EXCEPT !.old = d, !.found = box[d], !.vol = IF req.op = "upgrade" /\ box[d].vol = "no" THEN @ ELSE box[d].vol].op = "rolling" THEN rollingPlan ELSE redeployPlan]
      BY <1>4 DEF read
    <3> HIDE DEF d
    <3> QED BY <1>2, <3>1 DEF Request
  <2>3. req' = [req EXCEPT !.old = d, !.found = box[d], !.vol = v, !.todo = t] /\ req'.todo = t
    BY <1>2, <2>2 DEF Request
  <2>4. IsList(t, req.op) /\ In(t) = IF req.op = "rolling" THEN Rolling ELSE Swapping
    BY Plans
  <2>5. v \in {req.vol, box[getById].vol} /\ t \in {rollingPlan, redeployPlan}
    OBVIOUS
  <2> HIDE DEF t
  <2> QED BY <1>1, <1>2, <2>1, <2>3, <2>4, <2>5 DEF LookedAgain, Todo
<1> QED BY <1>3, <1>4

\* The container the agent takes for the app's is one of the model's.
LEMMA TypedGet ==
    ASSUME Types, getById # 0
    PROVE  getById \in Ids /\ getById \in 0..MaxMade /\ box[getById] \in Box /\ getById \in Existing
<1>1. getById \in Ids /\ getById \in Existing
  BY GetById
<1> QED BY <1>1 DEF Types, Ids

\* To set fields of a record to what they are changes nothing.
LEMMA SameFields ==
    ASSUME NEW o, NEW b, NEW t
    PROVE  [Rest EXCEPT !.op = o, !.todo = t, !.bind = b]
             = [Rest EXCEPT !.op = o, !.todo = t, !.sec = "no", !.vol = "no", !.bind = b]
<1> DEFINE a == [Rest EXCEPT !.op = o, !.todo = t]
<1>1. a.sec = "no" /\ a.vol = "no" /\ a = [x \in DOMAIN a |-> a[x]]
  BY DEF Rest
<1> HIDE DEF a
<1>2. [a EXCEPT !.sec = "no", !.vol = "no"] = a
  BY <1>1
<1> QED BY <1>2 DEF a

\* A reconfigure keeps what it was not asked to change.
LEMMA ReconfigureFields ==
    ASSUME NEW a, a = [x \in DOMAIN a |-> a[x]], {"todo", "res", "at"} \subseteq DOMAIN a,
           a.todo = <<>>, a.res = "ok", a.at = "none", NEW t
    PROVE  /\ [a EXCEPT !.todo = t, !.res = "ok", !.at = "none"] = [a EXCEPT !.todo = t]
           /\ [a EXCEPT !.todo = <<>>, !.res = "failed", !.at = "read"] = [a EXCEPT !.res = "failed", !.at = "read"]
<1> DEFINE w == [a EXCEPT !.todo = t]
<1>1. w.res = "ok" /\ w.at = "none" /\ w = [x \in DOMAIN w |-> w[x]]
  OBVIOUS
<1> HIDE DEF w
<1>2. [w EXCEPT !.res = "ok", !.at = "none"] = w
  BY <1>1
<1>3. [a EXCEPT !.todo = <<>>] = a
  OBVIOUS
<1> QED BY <1>2, <1>3 DEF w

\* What a request has to do when it begins.
LEMMA BegunWhen ==
    ASSUME TypeInv, Requests
    PROVE  Begun
<1> DEFINE d == getById
<1>1. /\ agent.phase = "up" /\ req = Rest /\ d # 0 /\ Cardinality(Made) + 2 <= MaxMade
      /\ spent' = [spent EXCEPT !.requests = @ + 1]
      /\ last' = NoAnswer /\ UNCHANGED <<mcp, box, sock, store, legacy, conn, agent>>
  BY DEF Requests, redeployContainerSmart, upgradeMcpV3, reconfigureManagedAppV3, deleteContainer, Begin
<1>2. d \in Ids /\ d \in 0..MaxMade /\ box[d] \in Box /\ d # 0
  BY <1>1, TypedGet DEF TypeInv
<1>3. 1..MaxVer \subseteq 0..MaxVer /\ 1..MaxEpoch \subseteq 0..MaxEpoch /\ 0 \in 0..MaxEpoch /\ \A v \in 1..MaxVer : v # 0
  BY BoundsAssumption
<1>4. ASSUME NEW o \in {"rolling", "swap", "upgrade"}, NEW b \in Binding, NEW y \in YesNo,
             NEW v \in {"yes", "no", "bad"}, b.ver # 0,
             o = "upgrade" => mcp = "yes", o = "rolling" => box[d].vol = "no", v = "bad" => o = "upgrade",
             Begin([Rest EXCEPT !.op = o, !.todo = <<"read">>, !.sec = y, !.vol = v, !.bind = b])
      PROVE  Begun
  <2> DEFINE r == [Rest EXCEPT !.op = o, !.todo = <<"read">>, !.sec = y, !.vol = v, !.bind = b]
  <2>1. r.old = 0 /\ r.todo = <<"read">> /\ r.op = o
    BY DEF Rest
  <2>2. req' = r /\ leaked' = leaked
    BY <1>4, <2>1 DEF Begin
  <2>3. IsList(<<"read">>, o) /\ In(<<"read">>) = {"read"}
    BY Pieces
  <2>4. IsList(req'.todo, req'.op) /\ Todo' = {"read"}
    BY <2>1, <2>2, <2>3 DEF Todo
  <2> QED BY <1>1, <1>4, <2>2, <2>4 DEF Begun, SwapBegun
<1>5. ASSUME NEW v \in 1..MaxVer, NEW y \in YesNo, redeployContainerSmart(v, y) PROVE Begun
  <2> DEFINE o == selectRedeploySwapStrategy(box[d], y, "no")
             b == [ver |-> v, epoch |-> 0]
  <2>1. o \in {"rolling", "swap"} /\ (o = "rolling" => box[d].vol = "no")
    BY DEF selectRedeploySwapStrategy
  <2>2. b \in Binding /\ b.ver # 0
    BY <1>3 DEF Binding
  <2>3. [Rest EXCEPT !.op = o, !.todo = <<"read">>, !.bind = b]
          = [Rest EXCEPT !.op = o, !.todo = <<"read">>, !.sec = "no", !.vol = "no", !.bind = b]
    BY SameFields
  <2>4. Begin([Rest EXCEPT !.op = o, !.todo = <<"read">>, !.sec = "no", !.vol = "no", !.bind = b])
    BY <1>5, <2>3 DEF redeployContainerSmart
  <2> HIDE DEF o, b
  <2>5. "no" \in YesNo /\ "no" \in {"yes", "no", "bad"} /\ o \in {"rolling", "swap", "upgrade"} /\ o # "upgrade" /\ "no" # "bad"
    BY <2>1 DEF YesNo
  <2> QED BY <2>1, <2>2, <2>4, <2>5, <1>4
<1>6. ASSUME NEW v \in 1..MaxVer, NEW e \in 1..MaxEpoch, NEW y \in YesNo, NEW vol \in {"yes", "no", "bad"},
             upgradeMcpV3(v, e, y, vol)
      PROVE  Begun
  <2> DEFINE b == [ver |-> v, epoch |-> e]
  <2>1. b \in Binding /\ b.ver # 0
    BY <1>3 DEF Binding
  <2>2. mcp = "yes" /\ Begin([Rest EXCEPT !.op = "upgrade", !.todo = <<"read">>, !.sec = y, !.vol = vol, !.bind = b])
    BY <1>6 DEF upgradeMcpV3
  <2> HIDE DEF b
  <2>3. "upgrade" \in {"rolling", "swap", "upgrade"} /\ "upgrade" # "rolling"
    OBVIOUS
  <2> QED BY <2>1, <2>2, <2>3, <1>4
<1>7. ASSUME NEW v \in 1..MaxVer, NEW e \in 1..MaxEpoch, reconfigureManagedAppV3(v, e) PROVE Begun
  <2> DEFINE b == [ver |-> v, epoch |-> e]
             r == [Rest EXCEPT !.op = "reconfigure", !.old = d, !.found = box[d],
                          !.vol = box[d].vol, !.sec = box[d].sec, !.bind = b]
             t == IF Labels(d) = b THEN reconfigurePlan ELSE <<>>
             ok == t # <<>>
             q == [Rest EXCEPT !.op = "reconfigure", !.old = d, !.found = box[d],
                          !.vol = box[d].vol, !.sec = box[d].sec, !.bind = b,
                          !.todo = t, !.res = IF ok THEN "ok" ELSE "failed", !.at = IF ok THEN "none" ELSE "read"]
  <2>1. b \in Binding /\ b.ver # 0
    BY <1>3 DEF Binding
  <2>2. IsList(reconfigurePlan, "reconfigure") /\ In(reconfigurePlan) = Swap \ {"mounts", "inspect"}
        /\ IsList(<<>>, "reconfigure") /\ In(<<>>) = {} /\ reconfigurePlan # <<>>
    <3>1. IsList(reconfigurePlan, "reconfigure") /\ In(reconfigurePlan) = Swap \ {"mounts", "inspect"}
      BY Plans
    <3>2. IsList(<<>>, "reconfigure") /\ In(<<>>) = {}
      BY Pieces
    <3>3. "pull" \in Swap \ {"mounts", "inspect"}
      BY DEF Swap
    <3> QED BY <3>1, <3>2, <3>3
  <2>3. mcp = "yes" /\ Begin(IF Labels(d) = r.bind THEN [r EXCEPT !.todo = reconfigurePlan]
                 ELSE [r EXCEPT !.res = "failed", !.at = "read"])
    BY <1>7 DEF reconfigureManagedAppV3
  <2>4. r.bind = b
    BY DEF Rest
  <2>r. /\ r = [x \in DOMAIN r |-> r[x]] /\ {"todo", "res", "at"} \subseteq DOMAIN r
        /\ r.todo = <<>> /\ r.res = "ok" /\ r.at = "none"
    BY DEF Rest
  <2>5. (IF Labels(d) = r.bind THEN [r EXCEPT !.todo = reconfigurePlan]
                 ELSE [r EXCEPT !.res = "failed", !.at = "read"]) = q
    <3>1. CASE Labels(d) = b
      <4> HIDE DEF d
      <4>1. t = reconfigurePlan /\ ok
        BY <2>2, <3>1
      <4> HIDE DEF b, t
      <4>2. q = [r EXCEPT !.todo = reconfigurePlan]
        <5> HIDE DEF r
        <5>1. [r EXCEPT !.todo = reconfigurePlan, !.res = "ok", !.at = "none"] = [r EXCEPT !.todo = reconfigurePlan]
          BY <2>r, ReconfigureFields
        <5> QED BY <4>1, <5>1 DEF r
      <4> HIDE DEF q, r
      <4> QED BY <4>2, <2>4, <3>1
    <3>2. CASE Labels(d) # b
      <4> HIDE DEF d
      <4>1. t = <<>> /\ ~ok
        BY <3>2
      <4> HIDE DEF b, t
      <4>2. q = [r EXCEPT !.res = "failed", !.at = "read"]
        <5> HIDE DEF r
        <5>1. [r EXCEPT !.todo = <<>>, !.res = "failed", !.at = "read"] = [r EXCEPT !.res = "failed", !.at = "read"]
          BY <2>r, ReconfigureFields
        <5> QED BY <4>1, <5>1 DEF r
      <4> HIDE DEF q, r
      <4> QED BY <4>2, <2>4, <3>2
    <3> QED BY <3>1, <3>2
  <2>6. q.old = d /\ q.todo = t /\ q.op = "reconfigure"
    BY DEF Rest
  <2>7. Begin(q)
    BY <2>3, <2>5
  <2>8. t \in {<<>>, reconfigurePlan} /\ (ok => Labels(d) = b) /\ IsList(t, "reconfigure")
        /\ In(t) = IF ok THEN Swap \ {"mounts", "inspect"} ELSE {}
    BY <2>2
  <2> HIDE DEF t
  <2>9. req' = q /\ leaked' = Others(d)
    BY <2>6, <2>7, <1>2 DEF Begin
  <2>10. IsList(req'.todo, req'.op) /\ Todo' = IF ok THEN Swap \ {"mounts", "inspect"} ELSE {}
    BY <2>6, <2>8, <2>9 DEF Todo
  <2> HIDE DEF b
  <2>11. ReconfigureBegun
    BY <2>1, <2>3, <2>8, <2>9, <2>10 DEF ReconfigureBegun
  <2> QED BY <1>1, <2>10, <2>11 DEF Begun
<1>8. CASE deleteContainer
  <2> DEFINE r == [Rest EXCEPT !.op = "delete", !.old = d, !.found = box[d], !.todo = deletePlan]
  <2>1. Begin(r)
    BY <1>8 DEF deleteContainer
  <2>2. r.old = d /\ r.todo = deletePlan /\ r.op = "delete"
    BY DEF Rest
  <2>3. req' = r /\ leaked' = Others(d)
    BY <1>2, <2>1, <2>2 DEF Begin
  <2>4. IsList(deletePlan, "delete") /\ In(deletePlan) = {"inspect", "stop", "remove", "volumes"}
    BY Plans
  <2>5. IsList(req'.todo, req'.op) /\ Todo' = {"inspect", "stop", "remove", "volumes"}
    BY <2>2, <2>3, <2>4 DEF Todo
  <2> QED BY <1>1, <2>3, <2>5 DEF Begun, DeleteBegun
<1> QED BY <1>5, <1>6, <1>7, <1>8 DEF Requests

\* Every step moves the request in one of these ways.
Went == \E s \in Calls : /\ Gone(s) /\ s \notin {"read", "create", "again"} /\ ~(s = "inspect" /\ req.op = "delete")
                         /\ s = "mounts" => req.vol # "bad"
Failed == \E s \in Calls : /\ Threw(s) /\ s \notin Cleanup \union {"stopNew", "removeNew", "again", "bind"}
                           /\ s = "store" => store \notin {NoBind, req.bind}
                           /\ s = "legacy" => legacy \notin {NoBind, req.bind}
Move ==
    \/ /\ UNCHANGED <<mcp, req, last>>
       /\ UNCHANGED agent.phase \/ req = Rest
    \/ /\ UNCHANGED <<mcp, agent, last>>
       /\ Went \/ Failed \/ Appended \/ Created \/ Reverted \/ LookedAgain
    \/ Begun
    \/ /\ UNCHANGED mcp
       /\ req' = Rest
       /\ \/ last' = last /\ \E host \in YesNo : dies(host)
          \/ answer

\* Every step moves the request in one of the ways listed.
LEMMA Moves ==
    ASSUME TypeInv, [Next]_vars
    PROVE  Move
<1>1. CASE UNCHANGED vars
  BY <1>1 DEF vars, Move
<1>2. CASE Requests
  BY <1>2, BegunWhen DEF Move
<1>3. CASE read
  BY <1>3, ReadWhen DEF Move, read, Failed, Cleanup, Calls
<1>4. ASSUME NEW s \in Calls, At(s), Go \/ Throws, s \notin {"read", "create", "again"}, ~(s = "inspect" /\ req.op = "delete"),
             s = "mounts" /\ Go => req.vol # "bad", UNCHANGED <<mcp, agent, last>>,
             s \in Cleanup \union {"stopNew", "removeNew", "again", "bind"} => Go,
             s = "store" => Go \/ store \notin {NoBind, req.bind}, s = "legacy" => Go \/ legacy \notin {NoBind, req.bind}
      PROVE  Move
  <2>1. CASE Go
    BY <1>4, <2>1, GoneWhen DEF Move, Went
  <2>2. CASE ~Go
    BY <1>4, <2>2, ThrewWhen DEF Move, Failed
  <2> QED BY <2>1, <2>2
<1>5. CASE pullImage
  BY <1>4, <1>5 DEF pullImage, Calls, Cleanup
<1>6. CASE mountsForMcpV3Upgrade
  <2>1. CASE req.vol = "bad"
    <3>1. At("mounts") /\ Throws /\ UNCHANGED <<mcp, agent, last>>
      BY <1>6, <2>1 DEF mountsForMcpV3Upgrade
    <3>2. Threw("mounts")
      BY <3>1, ThrewWhen
    <3> QED BY <3>1, <3>2 DEF Move, Failed, Calls, Cleanup
  <2>2. CASE req.vol # "bad"
    BY <1>4, <1>6, <2>2 DEF mountsForMcpV3Upgrade, Calls, Cleanup
  <2> QED BY <2>1, <2>2
<1>7. ASSUME NEW s \in {"stop", "stopNew"}, stopContainer(s) PROVE Move
  <2>1. At(s) /\ UNCHANGED <<mcp, agent, last>> /\ (Go \/ (s = "stop" /\ Throws))
    BY <1>7 DEF stopContainer
  <2> QED BY <1>4, <2>1 DEF Calls, Cleanup
<1>8. ASSUME NEW s \in {"remove", "removeNew"}, removeContainer(s) PROVE Move
  <2>1. At(s) /\ UNCHANGED <<mcp, agent, last>> /\ (Go \/ (s = "remove" /\ Throws))
    BY <1>8 DEF removeContainer
  <2> QED BY <1>4, <2>1 DEF Calls, Cleanup
<1>9. CASE createAppContainer
  <2>1. Created \/ Threw("create")
    BY <1>9, CreatedWhen
  <2> QED BY <1>9, <2>1 DEF Move, createAppContainer, Failed, Calls, Cleanup
<1>10. CASE startContainer
  BY <1>4, <1>10 DEF startContainer, Calls, Cleanup
<1>11. CASE getInternalUrl \/ waitForHealthy \/ look \/ removeVolume
  BY <1>4, <1>11 DEF getInternalUrl, waitForHealthy, look, removeVolume, Calls, Cleanup
<1>12. CASE inspectContainer
  <2>1. CASE req.op = "delete"
    <3>1. Appended \/ Skipped("inspect")
      BY <1>12, <2>1, AppendedWhen
    <3> QED BY <1>12, <3>1 DEF Move, inspectContainer, Failed, Threw, Calls, Cleanup
  <2>2. CASE req.op # "delete"
    BY <1>4, <1>12, <2>2 DEF inspectContainer, Calls, Cleanup
  <2> QED BY <2>1, <2>2
<1>13. CASE revert
  <2>1. Reverted
    BY <1>13, RevertedWhen
  <2> QED BY <1>13, <2>1 DEF Move, revert
<1>14. CASE answer
  BY <1>14 DEF answer, Move
<1>15. CASE persistStore \/ persistLegacy
  BY <1>4, <1>15 DEF persistStore, persistLegacy, Persists, Calls, Cleanup
<1>16. CASE registerSocket \/ close \/ closed \/ rmDirectory \/ rmStore
  BY <1>4, <1>16 DEF registerSocket, close, closed, rmDirectory, rmStore, Calls, Cleanup
<1>17. CASE dial \/ respond
  BY <1>17 DEF Move, dial, respond
<1>18. ASSUME NEW d \in Ids, exits(d) \/ recoverDesiredState(d) PROVE Move
  <2>1. UNCHANGED <<mcp, req, last>> /\ agent'.phase = agent.phase
    BY <1>18 DEF exits, recoverDesiredState, TypeInv, Types
  <2> QED BY <2>1 DEF Move
<1>19. ASSUME NEW host \in YesNo, dies(host) PROVE Move
  BY <1>19 DEF Move, dies
<1>20. CASE rebindMcpBrokers \/ sweepOrphanBrokerState
  BY <1>20 DEF Move, rebindMcpBrokers, sweepOrphanBrokerState, TypeInv, Types
<1>21. Steps => Move
  BY <1>3, <1>5, <1>6, <1>7, <1>8, <1>9, <1>10, <1>11, <1>12, <1>13, <1>14, <1>15, <1>16, <1>20 DEF Steps
<1> QED BY <1>1, <1>2, <1>17, <1>18, <1>19, <1>21 DEF Next

\* What every way of going on leaves of the request, but for its list.
Kept == /\ req'.op = req.op /\ req'.old = req.old /\ req'.bind = req.bind /\ req'.vol = req.vol
        /\ req'.sec = req.sec /\ req'.found = req.found /\ req'.phase = req.phase

\* Going on changes nothing but the list.
LEMMA GoneKeeps ==
    ASSUME TypeInv, NEW s \in Calls, Gone(s)
    PROVE  /\ Kept /\ req'.new = req.new /\ req'.res = req.res /\ req'.at = req.at
           /\ req'.blame = req.blame /\ req' \in Request
<1>1. req \in Request /\ req' = [req EXCEPT !.todo = Tail(@)] /\ req'.todo \in Seq(Calls)
  BY DEF TypeInv, Types, Gone, IsList
<1> QED BY <1>1 DEF Kept, Request

\* A throw changes the list, the answer and where it failed, nothing else.
LEMMA ThrewKeeps ==
    ASSUME TypeInv, NEW s \in Calls, Threw(s)
    PROVE  /\ Kept /\ req'.new = req.new /\ req' \in Request /\ IsList(req'.todo, req.op)
           /\ Todo' \subseteq Todo \/ Looked(s) \/ Undone(s)
<1>1. req \in Request /\ IsList(req'.todo, req.op) /\ req'.todo \in Seq(Calls)
  BY DEF TypeInv, Types, Threw, Skipped, Looked, Quit, Undone, IsList
<1>2. CASE Skipped(s)
  <2>1. PICK k \in YesNo, x \in {"failed", req.res} : req' = [req EXCEPT !.todo = Tail(@), !.known = k, !.res = x]
    BY <1>2 DEF Skipped
  <2> QED BY <1>1, <1>2, <2>1 DEF Kept, Request, Skipped
<1>3. CASE Looked(s)
  <2>1. req' = [req EXCEPT !.todo = <<"look">>]
    BY <1>3 DEF Looked
  <2> QED BY <1>1, <1>3, <2>1 DEF Kept, Request
<1>4. CASE Quit(s)
  <2>1. PICK b \in {req.blame, s} : req' = [req EXCEPT !.at = s, !.blame = b, !.todo = <<>>, !.res = "failed"]
    BY <1>4 DEF Quit
  <2>2. Todo' = {}
    BY <1>4 DEF Quit
  <2> QED BY <1>1, <2>1, <2>2 DEF Kept, Request
<1>5. CASE Undone(s)
  <2>1. PICK b \in {req.blame, s}, x \in {"unrecovered", "failed"} :
          req' = [req EXCEPT !.at = s, !.blame = b, !.todo = undo(req), !.res = x]
    BY <1>5 DEF Undone
  <2> QED BY <1>1, <1>5, <2>1 DEF Kept, Request
<1> QED BY <1>2, <1>3, <1>4, <1>5 DEF Threw

\* The states before the first request have their types.
LEMMA RestTypes == Rest \in Request /\ NoAnswer \in Answer /\ NoBox \in Box /\ Rest.op = "none" /\ Rest.todo = <<>>
                   /\ NoBind \in Binding /\ Rest.phase = "forward" /\ Rest.new = 0 /\ Rest.old = 0
<1>1. 0 \in 0..MaxMade /\ 0 \in 0..MaxVer /\ 0 \in 0..MaxEpoch
  BY BoundsAssumption
<1>2. NoBox \in Box /\ NoBind \in Binding
  BY <1>1 DEF NoBox, NoBind, Box, Binding, YesNo
<1>3. <<>> \in Seq(Calls)
  OBVIOUS
<1>4. Rest \in Request
  BY <1>1, <1>2, <1>3 DEF Rest, Request, Ops, YesNo
<1>5. NoAnswer \in Answer
  BY <1>1, <1>2 DEF NoAnswer, Answer, Ops
<1> QED BY <1>2, <1>4, <1>5 DEF Rest

\* A request stays a request.
LEMMA MoveRequest ==
    ASSUME TypeInv, Move, "create" \in Todo => Cardinality(Made) + 1 \in 0..MaxMade
    PROVE  /\ req' \in Request
           /\ req'.op = "none" => req' = Rest
           /\ req'.phase = "revert" => req'.op = "upgrade"
           /\ mcp' = mcp
<1>0. req \in Request /\ (req.op = "none" => req = Rest) /\ (req.phase = "revert" => req.op = "upgrade")
  BY DEF TypeInv, Types
<1>e. req.op = "none" => Todo = {}
  BY DEF TypeInv, ListInv
<1>1. CASE UNCHANGED <<mcp, req, last>>
  BY <1>0, <1>1
<1>2. CASE Went /\ mcp' = mcp
  <2>1. PICK s \in Calls : Gone(s)
    BY <1>2 DEF Went
  <2>2. Kept /\ req' \in Request
    BY <2>1, GoneKeeps
  <2>3. s \in Todo
    BY <2>1 DEF Gone, Due
  <2> QED BY <1>0, <1>e, <1>2, <2>2, <2>3 DEF Kept
<1>3. CASE Failed /\ mcp' = mcp
  <2>1. PICK s \in Calls : Threw(s)
    BY <1>3 DEF Failed
  <2>2. Kept /\ req' \in Request
    BY <2>1, ThrewKeeps
  <2>3. s \in Todo
    BY <2>1 DEF Threw, Skipped, Looked, Quit, Undone, Due
  <2> QED BY <1>0, <1>e, <1>3, <2>2, <2>3 DEF Kept
<1>4. CASE Appended /\ mcp' = mcp
  <2>1. req'.todo \in Seq(Calls)
    BY <1>4 DEF Appended, IsList
  <2>2. PICK t : req' = [req EXCEPT !.todo = t]
    BY <1>4 DEF Appended
  <2> QED BY <1>0, <1>4, <2>1, <2>2 DEF Request, Appended
<1>5. CASE Created /\ mcp' = mcp
  <2>1. req'.todo \in Seq(Calls) /\ "create" \in Todo
    BY <1>5 DEF Created, IsList, Due
  <2>2. PICK t : req' = [req EXCEPT !.todo = t, !.new = Cardinality(Made) + 1]
    BY <1>5 DEF Created
  <2> QED BY <1>0, <1>5, <1>e, <2>1, <2>2 DEF Request
<1>6. CASE Reverted /\ mcp' = mcp
  <2>1. req'.todo \in Seq(Calls) /\ req.op = "upgrade"
    BY <1>6 DEF Reverted, IsList
  <2>2. req' = [req EXCEPT !.phase = "revert", !.res = "recovered", !.new = 0,
                          !.bind.ver = req.found.ver, !.todo = createAndStart]
    BY <1>6 DEF Reverted
  <2>3. 0 \in 0..MaxMade /\ req.found.ver \in 0..MaxVer
    BY <1>0, BoundsAssumption DEF Request, Box
  <2> QED BY <1>0, <1>6, <2>1, <2>2, <2>3 DEF Request, Binding
<1>7. CASE LookedAgain /\ mcp' = mcp
  <2>1. req'.todo \in Seq(Calls) /\ req.op # "none" /\ getById # 0
    BY <1>7 DEF LookedAgain, IsList
  <2>2. PICK v \in {req.vol, box[getById].vol}, t \in {rollingPlan, redeployPlan} :
           req' = [req EXCEPT !.old = getById, !.found = box[getById], !.vol = v, !.todo = t]
    BY <1>7 DEF LookedAgain
  <2>3. getById \in 0..MaxMade /\ box[getById] \in Box
    BY <2>1, TypedGet DEF TypeInv
  <2>4. v \in {"yes", "no", "bad"}
    BY <1>0, <2>3 DEF Request, Box, YesNo
  <2> QED BY <1>0, <1>7, <2>1, <2>2, <2>3, <2>4 DEF Request
<1>8. CASE Begun
  <2>0. req'.todo \in Seq(Calls) /\ mcp' = mcp /\ getById # 0
    BY <1>8 DEF Begun, IsList
  <2>1. getById \in 0..MaxMade /\ box[getById] \in Box /\ Rest \in Request /\ Rest.phase = "forward"
    BY <2>0, TypedGet, RestTypes DEF TypeInv
  <2>2. CASE SwapBegun
    <3>1. PICK o \in {"rolling", "swap", "upgrade"}, b \in Binding, y \in YesNo, v \in {"yes", "no", "bad"} :
            req' = [Rest EXCEPT !.op = o, !.todo = <<"read">>, !.sec = y, !.vol = v, !.bind = b]
      BY <2>2 DEF SwapBegun
    <3>2. req' \in Request /\ req'.op = o /\ req'.phase = "forward"
      BY <2>0, <2>1, <3>1 DEF Request, Ops
    <3> QED BY <2>0, <3>2
  <2>3. CASE ReconfigureBegun
    <3>0. PICK b \in Binding, t \in {<<>>, reconfigurePlan} :
            req' = [Rest EXCEPT !.op = "reconfigure", !.old = getById, !.found = box[getById],
                          !.vol = box[getById].vol, !.sec = box[getById].sec, !.bind = b,
                          !.todo = t, !.res = IF t # <<>> THEN "ok" ELSE "failed",
                          !.at = IF t # <<>> THEN "none" ELSE "read"]
      BY <2>3 DEF ReconfigureBegun
    <3>1. PICK x \in {"ok", "failed"}, a \in {"none", "read"} :
            req' = [Rest EXCEPT !.op = "reconfigure", !.old = getById, !.found = box[getById],
                          !.vol = box[getById].vol, !.sec = box[getById].sec, !.bind = b,
                          !.todo = t, !.res = x, !.at = a]
      BY <3>0
    <3>2. /\ box[getById].vol \in {"yes", "no", "bad"} /\ box[getById].sec \in YesNo
          /\ a \in Calls \union {"none"}
      BY <2>1 DEF Box, Calls, YesNo
    <3>3. req' \in Request /\ req'.op = "reconfigure" /\ req'.phase = "forward"
      BY <2>0, <2>1, <3>1, <3>2 DEF Request, Ops
    <3> QED BY <2>0, <3>3
  <2>4. CASE DeleteBegun
    <3>1. PICK t : req' = [Rest EXCEPT !.op = "delete", !.old = getById, !.found = box[getById], !.todo = t]
      BY <2>4 DEF DeleteBegun
    <3>2. req' \in Request /\ req'.op = "delete" /\ req'.phase = "forward"
      BY <2>0, <2>1, <3>1 DEF Request, Ops
    <3> QED BY <2>0, <3>2
  <2> QED BY <1>8, <2>2, <2>3, <2>4 DEF Begun
<1>9. CASE req' = Rest /\ mcp' = mcp
  BY <1>9, RestTypes
<1> QED BY <1>1, <1>2, <1>3, <1>4, <1>5, <1>6, <1>7, <1>8, <1>9 DEF Move

\* What a request still has to do stays a list of its operation.
LEMMA MoveList ==
    ASSUME TypeInv, Move
    PROVE  ListInv'
<1>0. req \in Request /\ ListInv /\ (req.phase = "revert" => req.op = "upgrade")
  BY DEF TypeInv, Types
<1>1. CASE UNCHANGED <<mcp, req, last>>
  BY <1>0, <1>1 DEF ListInv, Todo
<1>h. ASSUME NEW s \in Calls, Due(s), req.op = "delete", "inspect" \in Todo PROVE s = "inspect"
  <2>1. req.todo = deletePlan /\ Head(req.todo) = s
    BY <1>0, <1>h DEF ListInv, Due, At
  <2> QED BY <2>1 DEF deletePlan
<1>s. ASSUME NEW s \in Calls, Due(s), Todo' \subseteq Todo \ {s}, req'.op = req.op, IsList(req'.todo, req.op)
      PROVE  ListInv'
  <2>1. req'.op = "delete" /\ "inspect" \in Todo' => FALSE
    BY <1>s, <1>h
  <2> QED BY <1>0, <1>s, <2>1 DEF ListInv
<1>2. CASE Went
  <2>1. PICK s \in Calls : Gone(s)
    BY <1>2 DEF Went
  <2>2. Kept
    BY <2>1, GoneKeeps
  <2> QED BY <1>s, <2>1, <2>2 DEF Gone, Kept
<1>3. CASE Failed
  <2>1. PICK s \in Calls : Threw(s)
    BY <1>3 DEF Failed
  <2>2. Kept /\ IsList(req'.todo, req.op)
    BY <2>1, ThrewKeeps
  <2>3. CASE Skipped(s)
    BY <1>s, <2>2, <2>3 DEF Skipped, Kept
  <2>4. CASE Looked(s)
    BY <2>2, <2>4 DEF Looked, Kept, ListInv, Rolling
  <2>5. CASE Quit(s)
    BY <1>s, <2>2, <2>5 DEF Quit, Kept
  <2>6. CASE Undone(s)
    BY <1>0, <2>2, <2>6 DEF Undone, Kept, ListInv, Undo
  <2> QED BY <2>1, <2>3, <2>4, <2>5, <2>6 DEF Threw
<1>4. CASE Appended
  <2>1. req'.op = "delete"
    BY <1>0, <1>4 DEF Appended, Request
  <2> QED BY <1>4, <2>1 DEF Appended, ListInv, Cleanup
<1>5. CASE Created
  <2>1. req'.op = req.op
    BY <1>0, <1>5 DEF Created, Request
  <2> QED BY <1>s, <1>5, <2>1 DEF Created, Calls
<1>6. CASE Reverted
  <2>1. req'.op = "upgrade"
    BY <1>0, <1>6 DEF Reverted, Request
  <2> QED BY <1>6, <2>1 DEF Reverted, ListInv, Renewing, Swap, Answering
<1>7. CASE LookedAgain
  <2>1. req'.op = req.op
    <3>1. PICK v, t : req' = [req EXCEPT !.old = getById, !.found = box[getById], !.vol = v, !.todo = t]
      BY <1>7 DEF LookedAgain
    <3> QED BY <1>0, <3>1 DEF Request
  <2>2. req.op = "swap" => mcp # "yes"
    BY <1>7 DEF LookedAgain, assertRawRedeployAllowed
  <2>3. CASE req.op = "rolling"
    BY <1>7, <2>1, <2>3 DEF LookedAgain, ListInv
  <2>4. CASE req.op = "swap"
    BY <1>7, <2>1, <2>2, <2>4 DEF LookedAgain, ListInv, Swapping, Renewing
  <2>5. CASE req.op = "upgrade"
    BY <1>7, <2>1, <2>5 DEF LookedAgain, ListInv, Swapping, Renewing, Swap, Answering
  <2> QED BY <1>7, <2>3, <2>4, <2>5 DEF LookedAgain
<1>8. CASE Begun
  <2>0. IsList(req'.todo, req'.op)
    BY <1>8 DEF Begun
  <2>2. CASE SwapBegun
    <3>1. req'.op \in {"rolling", "swap", "upgrade"} /\ Todo' = {"read"}
      BY <2>2 DEF SwapBegun, Rest
    <3> QED BY <2>0, <3>1 DEF ListInv
  <2>3. CASE ReconfigureBegun
    <3>1. req'.op = "reconfigure" /\ Todo' \subseteq Swap \ {"mounts", "inspect"}
      BY <2>3 DEF ReconfigureBegun, Rest
    <3> QED BY <2>0, <3>1 DEF ListInv
  <2>4. CASE DeleteBegun
    <3>1. req'.op = "delete" /\ Todo' = {"inspect", "stop", "remove", "volumes"} /\ req'.todo = deletePlan
      BY <2>4 DEF DeleteBegun, Rest
    <3> QED BY <2>0, <3>1 DEF ListInv
  <2> QED BY <1>8, <2>2, <2>3, <2>4 DEF Begun
<1>9. CASE req' = Rest
  <2>1. req'.op = "none" /\ IsList(req'.todo, req'.op) /\ Todo' = {}
    BY <1>9, RestTypes, Pieces DEF Todo
  <2> QED BY <2>1 DEF ListInv
<1> QED BY <1>1, <1>2, <1>3, <1>4, <1>5, <1>6, <1>7, <1>8, <1>9 DEF Move

\* What a request knows of the container it is about, and when its answer is open.
OldInv ==
    /\ req # Rest => last = NoAnswer
    /\ req.op \in {"upgrade", "reconfigure"} => mcp = "yes"
    /\ mcp = "yes" /\ req.op \in {"rolling", "swap"} => req.old = 0
    /\ req # Rest /\ req.old = 0 =>
         /\ req.op \in {"rolling", "swap", "upgrade"} /\ req.new = 0 /\ req.phase = "forward"
         /\ \/ Todo = {"read"} /\ req.res = "ok"
            \/ Todo = {} /\ req.at = "read" /\ req.res = "failed"
    /\ "read" \in Todo => req.old = 0
    /\ req.op = "delete" => req.new = 0

\* A way back does not look again, and its result says so.
PhaseInv ==
    /\ req.phase = "revert" => /\ Todo \cap {"read", "pull", "mounts", "stop", "remove", "again"} = {}
                               /\ req.res \in {"recovered", "unrecovered"}
    /\ req.res \in {"recovered", "unrecovered"} => req.phase = "revert"
    /\ Todo \cap {"stopNew", "removeNew", "again"} # {} => req.res \in {"failed", "unrecovered"}
    /\ req.vol = "bad" => /\ req.op = "upgrade"
                          /\ "create" \in Todo /\ req.phase = "forward" => "mounts" \in Todo

\* Up to the creation of the new container, the creation and what follows is to come.
AheadInv ==
    /\ "create" \in Todo => req.new = 0
    /\ "pull" \in Todo => "create" \in Todo
    /\ req.op \in {"swap", "upgrade", "reconfigure"} =>
         /\ Todo \cap {"pull", "mounts", "stop", "remove"} # {} => "create" \in Todo
         /\ Todo \cap Cleanup # {} => "create" \in Todo \/ req.res \notin {"ok", "recovered"}
    /\ req.op \in {"upgrade", "reconfigure"} /\ "create" \in Todo => Register \union {"start"} \subseteq Todo
    /\ req.op = "rolling" /\ "create" \in Todo => {"stop", "remove", "start"} \subseteq Todo
    /\ req.op = "swap" /\ "create" \in Todo => "start" \in Todo
    /\ req.op = "rolling" /\ "stop" \in Todo => "remove" \in Todo

ReqInv == OldInv /\ PhaseInv /\ AheadInv

\* What a call that throws leaves to do, as a set.
LEMMA ThrewSets ==
    ASSUME TypeInv, NEW s \in Calls, Threw(s)
    PROVE  \/ Skipped(s) /\ req'.at = req.at /\ req'.blame = req.blame /\ req'.res \in {req.res, "failed"}
           \/ Looked(s) /\ req'.at = req.at /\ req'.blame = req.blame /\ req'.res = req.res
           \/ /\ Quit(s) /\ req'.at = s /\ req'.res = "failed"
              /\ req'.blame = req.blame \/ (req'.blame = s /\ req.phase = "revert")
           \/ /\ Undone(s) /\ req'.at = s
              /\ req'.res = IF req.op = "upgrade" /\ req.phase = "revert" THEN "unrecovered" ELSE "failed"
              /\ req'.blame = req.blame \/ (req'.blame = s /\ req.phase = "revert")
<1>1. req \in Request
  BY DEF TypeInv, Types
<1>2. CASE Skipped(s)
  <2>1. PICK k \in YesNo, x \in {"failed", req.res} : req' = [req EXCEPT !.todo = Tail(@), !.known = k, !.res = x]
    BY <1>2 DEF Skipped
  <2> QED BY <1>1, <1>2, <2>1 DEF Request
<1>3. CASE Looked(s)
  <2>1. req' = [req EXCEPT !.todo = <<"look">>]
    BY <1>3 DEF Looked
  <2> QED BY <1>1, <1>3, <2>1 DEF Request
<1>4. CASE Quit(s)
  <2>1. PICK b \in {req.blame, s} : /\ b # req.blame => req.phase = "revert"
                                    /\ req' = [req EXCEPT !.at = s, !.blame = b, !.todo = <<>>, !.res = "failed"]
    BY <1>4 DEF Quit
  <2> QED BY <1>1, <1>4, <2>1 DEF Request
<1>5. CASE Undone(s)
  <2> DEFINE x == IF req.op = "upgrade" /\ req.phase = "revert" THEN "unrecovered" ELSE "failed"
  <2>1. PICK b \in {req.blame, s} : /\ b # req.blame => req.phase = "revert"
                                    /\ req' = [req EXCEPT !.at = s, !.blame = b, !.todo = undo(req), !.res = x]
    BY <1>5 DEF Undone
  <2> HIDE DEF x
  <2>2. req'.at = s /\ req'.res = x /\ req'.blame = b
    BY <1>1, <2>1 DEF Request
  <2> QED BY <1>5, <2>1, <2>2 DEF x
<1> QED BY <1>2, <1>3, <1>4, <1>5 DEF Threw

\* The inspect of a delete changes nothing but the list.
LEMMA AppendedKeeps ==
    ASSUME TypeInv, Appended
    PROVE  /\ Kept /\ req'.new = req.new /\ req'.res = req.res /\ req'.at = req.at /\ req'.blame = req.blame
<1>1. req \in Request
  BY DEF TypeInv, Types
<1>2. PICK t : req' = [req EXCEPT !.todo = t]
  BY DEF Appended
<1> QED BY <1>1, <1>2 DEF Request, Kept

\* The creation of a container sets only which one is the new one.
LEMMA CreatedKeeps ==
    ASSUME TypeInv, Created
    PROVE  /\ Kept /\ req'.new = Cardinality(Made) + 1 /\ req'.res = req.res /\ req'.at = req.at
           /\ req'.blame = req.blame
<1>1. req \in Request
  BY DEF TypeInv, Types
<1>2. PICK t : req' = [req EXCEPT !.todo = t, !.new = Cardinality(Made) + 1]
  BY DEF Created
<1> QED BY <1>1, <1>2 DEF Request, Kept

\* A revert starts with the whole way back and without a new container.
LEMMA RevertedSets ==
    ASSUME TypeInv, Reverted
    PROVE  /\ req'.op = "upgrade" /\ req'.old = req.old /\ req'.vol = req.vol /\ req'.sec = req.sec
           /\ req'.found = req.found /\ req'.at = req.at /\ req'.blame = req.blame
           /\ req'.phase = "revert" /\ req'.res = "recovered" /\ req'.new = 0
           /\ req'.bind = [req.bind EXCEPT !.ver = req.found.ver]
<1>1. req \in Request /\ req.op = "upgrade"
  BY DEF TypeInv, Types, Reverted
<1>2. req' = [req EXCEPT !.phase = "revert", !.res = "recovered", !.new = 0,
                          !.bind.ver = req.found.ver, !.todo = createAndStart]
  BY DEF Reverted
<1> QED BY <1>1, <1>2 DEF Request

\* What the look at a new container (health, or that it still runs) decides.
LEMMA LookedSets ==
    ASSUME TypeInv, LookedAgain
    PROVE  /\ req'.op = req.op /\ req'.bind = req.bind /\ req'.sec = req.sec /\ req'.phase = req.phase
           /\ req'.new = req.new /\ req'.res = req.res /\ req'.at = req.at /\ req'.blame = req.blame
           /\ req'.old = getById /\ req'.found = box[getById]
           /\ req'.vol = IF req.op = "upgrade" /\ box[getById].vol = "no" THEN req.vol ELSE box[getById].vol
<1>1. req \in Request
  BY DEF TypeInv, Types
<1>2. PICK v, t : /\ v = IF req.op = "upgrade" /\ box[getById].vol = "no" THEN req.vol ELSE box[getById].vol
                  /\ req' = [req EXCEPT !.old = getById, !.found = box[getById], !.vol = v, !.todo = t]
  BY DEF LookedAgain
<1> QED BY <1>1, <1>2 DEF Request

\* A request begins with nothing decided.
LEMMA BegunSets ==
    ASSUME TypeInv, Begun
    PROVE  /\ req'.op \in Ops \ {"none"} /\ req'.new = 0 /\ req'.phase = "forward" /\ req'.blame = "none"
           /\ \/ /\ SwapBegun /\ req'.op \in {"rolling", "swap", "upgrade"} /\ req'.old = 0 /\ Todo' = {"read"}
                 /\ req'.res = "ok" /\ req'.at = "none" /\ (req'.vol = "bad" \/ mcp = "yes" => req'.op # "none")
                 /\ (req'.op = "upgrade" => mcp = "yes") /\ (req'.op = "rolling" => box[getById].vol = "no")
                 /\ (req'.vol = "bad" => req'.op = "upgrade") /\ req'.bind.ver # 0
              \/ /\ ReconfigureBegun /\ req'.op = "reconfigure" /\ mcp = "yes" /\ req'.old = getById
                 /\ req'.found = box[getById] /\ req'.vol = box[getById].vol /\ req'.sec = box[getById].sec
                 /\ req'.bind.ver # 0
                 /\ \/ /\ Todo' = Swap \ {"mounts", "inspect"} /\ req'.res = "ok" /\ req'.at = "none"
                       /\ req'.bind = Labels(getById)
                    \/ Todo' = {} /\ req'.res = "failed" /\ req'.at = "read"
              \/ /\ DeleteBegun /\ req'.op = "delete" /\ req'.old = getById /\ req'.found = box[getById]
                 /\ Todo' = {"inspect", "stop", "remove", "volumes"} /\ req'.res = "ok" /\ req'.vol = "no"
                 /\ req'.at = "none"
<1>1. CASE SwapBegun
  <2>1. PICK o \in {"rolling", "swap", "upgrade"}, b \in Binding, y \in YesNo, v \in {"yes", "no", "bad"} :
       /\ o = "upgrade" => mcp = "yes"
       /\ o = "rolling" => box[getById].vol = "no"
       /\ v = "bad" => o = "upgrade"
       /\ b.ver # 0
       /\ req' = [Rest EXCEPT !.op = o, !.todo = <<"read">>, !.sec = y, !.vol = v, !.bind = b]
       /\ Todo' = {"read"}
    BY <1>1 DEF SwapBegun
  <2> QED BY <1>1, <2>1 DEF Rest, Ops
<1>2. CASE ReconfigureBegun
  <2>1. PICK b \in Binding, t \in {<<>>, reconfigurePlan} :
         LET ok == t # <<>>
         IN  /\ ok => Labels(getById) = b
             /\ b.ver # 0
             /\ req' = [Rest EXCEPT !.op = "reconfigure", !.old = getById, !.found = box[getById],
                          !.vol = box[getById].vol, !.sec = box[getById].sec, !.bind = b,
                          !.todo = t, !.res = IF ok THEN "ok" ELSE "failed", !.at = IF ok THEN "none" ELSE "read"]
             /\ Todo' = IF ok THEN Swap \ {"mounts", "inspect"} ELSE {}
    BY <1>2 DEF ReconfigureBegun
  <2>2. PICK x, a : /\ req' = [Rest EXCEPT !.op = "reconfigure", !.old = getById, !.found = box[getById],
                          !.vol = box[getById].vol, !.sec = box[getById].sec, !.bind = b,
                          !.todo = t, !.res = x, !.at = a]
                    /\ \/ Labels(getById) = b /\ x = "ok" /\ a = "none" /\ Todo' = Swap \ {"mounts", "inspect"}
                       \/ x = "failed" /\ a = "read" /\ Todo' = {}
    BY <2>1
  <2>3. /\ req'.op = "reconfigure" /\ req'.old = getById /\ req'.found = box[getById] /\ req'.vol = box[getById].vol
        /\ req'.sec = box[getById].sec /\ req'.bind = b /\ req'.res = x /\ req'.at = a
        /\ req'.new = 0 /\ req'.phase = "forward" /\ req'.blame = "none"
    BY <2>2 DEF Rest
  <2>4. mcp = "yes"
    BY <1>2 DEF ReconfigureBegun
  <2> QED BY <1>2, <2>1, <2>2, <2>3, <2>4 DEF Ops
<1>3. CASE DeleteBegun
  BY <1>3 DEF DeleteBegun, Rest, Ops
<1> QED BY <1>1, <1>2, <1>3 DEF Begun

\* A call is due only in a request.
LEMMA DueAt ==
    ASSUME TypeInv, NEW s, Due(s)
    PROVE  s \in Todo /\ req # Rest /\ req.op \in Ops \ {"none"} /\ req.phase \in {"forward", "revert"}
<1>1. req.op \in Ops /\ s \in Todo /\ (req.op = "none" => Todo = {})
  BY DEF TypeInv, Types, ListInv, Due, Request
<1>2. req # Rest
  BY <1>1, RestTypes
<1> QED BY <1>1, <1>2 DEF TypeInv, Types, Request

\* What a request knows of its container stays true (OldInv).
LEMMA MoveOld ==
    ASSUME TypeInv, OldInv, Move
    PROVE  OldInv'
<1>0. mcp' = mcp
  BY DEF Move, Begun
<1>1. CASE UNCHANGED <<mcp, req, last>>
  BY <1>1 DEF OldInv, Todo
<1>2. CASE Went /\ last' = last
  <2>1. PICK s \in Calls : Gone(s) /\ s \notin {"read", "create", "again"}
    BY <1>2 DEF Went
  <2>2. Kept /\ req'.new = req.new /\ req'.res = req.res /\ req'.at = req.at
    BY <2>1, GoneKeeps
  <2>3. s \in Todo /\ req # Rest /\ Todo' = Todo \ {s}
    BY <2>1, DueAt DEF Gone
  <2> QED BY <1>0, <1>2, <2>1, <2>2, <2>3 DEF OldInv, Kept
<1>3. CASE Failed /\ last' = last
  <2>1. PICK s \in Calls : Threw(s)
    BY <1>3 DEF Failed
  <2>2. Kept /\ req'.new = req.new
    BY <2>1, ThrewKeeps
  <2>3. s \in Todo /\ req # Rest
    BY <2>1, DueAt DEF Threw, Skipped, Looked, Quit, Undone
  <2>4. CASE req.old = 0
    <3>1. s = "read" /\ req.op \in {"rolling", "swap", "upgrade"}
      BY <2>3, <2>4 DEF OldInv
    <3>2. Quit(s) /\ req'.at = s /\ req'.res = "failed"
      BY <2>1, <3>1, ThrewSets DEF Skipped, Looked, Undone
    <3> QED BY <1>0, <1>3, <2>2, <2>3, <2>4, <3>1, <3>2 DEF OldInv, Kept, Quit
  <2>5. CASE req.old # 0
    <3>1. "read" \notin Todo'
      <4>1. "read" \notin Todo
        BY <2>5 DEF OldInv
      <4>2. CASE Skipped(s) \/ Quit(s)
        BY <4>1, <4>2 DEF Skipped, Quit
      <4>4. CASE Looked(s)
        BY <4>4 DEF Looked
      <4>3. CASE Undone(s)
        BY <4>3 DEF Undone, Cleanup
      <4> QED BY <2>1, <4>2, <4>3, <4>4 DEF Threw
    <3> QED BY <1>0, <1>3, <2>2, <2>3, <2>5, <3>1 DEF OldInv, Kept
  <2> QED BY <2>4, <2>5
<1>4. CASE Appended /\ last' = last
  <2>1. Kept /\ req'.new = req.new
    BY <1>4, AppendedKeeps
  <2>2. req # Rest /\ req.op = "delete" /\ "read" \notin Todo' /\ "inspect" \in Todo
    BY <1>4, DueAt DEF Appended, Cleanup
  <2> QED BY <1>0, <1>4, <2>1, <2>2 DEF OldInv, Kept
<1>5. CASE Created /\ last' = last
  <2>1. Kept
    BY <1>5, CreatedKeeps
  <2>2. req # Rest /\ "create" \in Todo /\ Todo' = Todo \ {"create"} /\ req.op # "delete"
    BY <1>5, DueAt DEF Created, Cleanup, TypeInv, ListInv
  <2> QED BY <1>0, <1>5, <2>1, <2>2 DEF OldInv, Kept
<1>6. CASE Reverted /\ last' = last
  <2>1. req'.op = "upgrade" /\ req'.old = req.old
    BY <1>6, RevertedSets
  <2>2. req # Rest /\ "again" \in Todo /\ Todo' = Renewing /\ req.op = "upgrade"
    BY <1>6, DueAt DEF Reverted
  <2>3. "read" \notin Renewing
    BY DEF Renewing, Answering, Register
  <2> QED BY <1>0, <1>6, <2>1, <2>2, <2>3 DEF OldInv
<1>7. CASE LookedAgain /\ last' = last
  <2>1. req'.op = req.op /\ req'.new = req.new /\ req'.old = getById /\ getById # 0
    BY <1>7, LookedSets DEF LookedAgain
  <2>2. req # Rest /\ "read" \notin Todo' /\ req.op # "delete"
    BY <1>7, DueAt DEF LookedAgain, Rolling, Swapping, Renewing, Answering, Register, Cleanup
  <2>3. mcp = "yes" => req.op = "upgrade"
    BY <1>7 DEF LookedAgain, assertRawRedeployAllowed
  <2> QED BY <1>0, <1>7, <2>1, <2>2, <2>3 DEF OldInv
<1>8. CASE Begun
  <2>1. last' = NoAnswer /\ getById # 0
    BY <1>8 DEF Begun
  <2>2. "read" \notin Swap
    BY DEF Swap, Cleanup, Register
  <2> QED BY <1>0, <1>8, <2>1, <2>2, BegunSets DEF OldInv
<1>9. CASE req' = Rest
  <2>1. Todo' = {}
    BY <1>9, RestTypes, Pieces DEF Todo
  <2> QED BY <1>9, <2>1, RestTypes DEF OldInv
<1> QED BY <1>1, <1>2, <1>3, <1>4, <1>5, <1>6, <1>7, <1>8, <1>9 DEF Move

\* A request goes back only from an upgrade that failed (PhaseInv).
LEMMA MovePhase ==
    ASSUME TypeInv, OldInv, PhaseInv, Move
    PROVE  PhaseInv'
<1>t. req.phase = "revert" => req.op = "upgrade"
  BY DEF TypeInv, Types
<1>1. CASE UNCHANGED <<mcp, req, last>>
  BY <1>1 DEF PhaseInv, Todo
<1>2. CASE Went
  <2>1. PICK s \in Calls : Gone(s) /\ (s = "mounts" => req.vol # "bad")
    BY <1>2 DEF Went
  <2>2. Kept /\ req'.new = req.new /\ req'.res = req.res
    BY <2>1, GoneKeeps
  <2>3. Todo' = Todo \ {s}
    BY <2>1 DEF Gone
  <2> QED BY <2>1, <2>2, <2>3 DEF PhaseInv, Kept
<1>3. CASE Failed
  <2>1. PICK s \in Calls : Threw(s)
    BY <1>3 DEF Failed
  <2>2. Kept
    BY <2>1, ThrewKeeps
  <2>3. s \in Todo /\ req.phase \in {"forward", "revert"} /\ req.op # "none"
    BY <2>1, DueAt DEF Threw, Skipped, Looked, Quit, Undone
  <2>4. CASE Skipped(s) /\ req'.res \in {req.res, "failed"}
    <3>1. req.op = "delete" /\ Todo' = Todo \ {s} /\ req.phase # "revert" /\ Todo \cap {"stopNew", "removeNew", "again"} = {}
      BY <1>t, <2>4 DEF Skipped, TypeInv, ListInv, Cleanup
    <3> QED BY <2>2, <2>4, <3>1 DEF PhaseInv, Kept
  <2>5. CASE Looked(s) /\ req'.res = req.res
    BY <1>t, <2>2, <2>5 DEF PhaseInv, Kept, Looked
  <2>6. CASE Quit(s) /\ req'.res = "failed"
    <3>1. req.phase # "revert"
      <4>1. req.phase = "revert" => s \notin {"read", "pull", "mounts", "stop", "remove"}
        BY <2>3 DEF PhaseInv
      <4> QED BY <1>t, <2>6, <4>1 DEF Quit
    <3> QED BY <2>2, <2>6, <3>1 DEF PhaseInv, Kept, Quit
  <2>7. CASE Undone(s) /\ req'.res = IF req.op = "upgrade" /\ req.phase = "revert" THEN "unrecovered" ELSE "failed"
    BY <1>t, <2>2, <2>3, <2>7 DEF PhaseInv, Kept, Undone, Cleanup
  <2> QED BY <2>1, <2>4, <2>5, <2>6, <2>7, ThrewSets
<1>4. CASE Appended
  <2>1. Kept /\ req'.res = req.res /\ req.op = "delete" /\ Todo' \cap {"stopNew", "removeNew", "again", "create"} = {}
    BY <1>4, AppendedKeeps DEF Appended, Cleanup
  <2> QED BY <1>t, <2>1 DEF PhaseInv, Kept
<1>5. CASE Created
  <2>1. Kept /\ req'.res = req.res /\ Todo' = Todo \ {"create"}
    BY <1>5, CreatedKeeps DEF Created
  <2> QED BY <2>1 DEF PhaseInv, Kept
<1>6. CASE Reverted
  <2>1. req'.op = "upgrade" /\ req'.phase = "revert" /\ req'.res = "recovered" /\ req'.vol = req.vol
    BY <1>6, RevertedSets
  <2>2. Todo' \cap {"read", "pull", "mounts", "stop", "remove", "again", "stopNew", "removeNew"} = {}
    BY <1>6 DEF Reverted, Renewing, Answering, Register
  <2> QED BY <2>1, <2>2 DEF PhaseInv
<1>7. CASE LookedAgain
  <2>1. /\ req'.op = req.op /\ req'.phase = req.phase /\ req'.res = req.res
        /\ req'.vol = IF req.op = "upgrade" /\ box[getById].vol = "no" THEN req.vol ELSE box[getById].vol
    BY <1>7, LookedSets
  <2>2. Todo' \cap {"again", "stopNew", "removeNew"} = {}
    BY <1>7 DEF LookedAgain, Rolling, Swapping, Renewing, Answering, Register, Cleanup
  <2>3. "read" \in Todo /\ req.phase # "revert"
    BY <1>7, DueAt DEF LookedAgain, PhaseInv
  <2>4. box[getById].vol # "bad"
    <3>1. getById # 0
      BY <1>7 DEF LookedAgain
    <3>2. box[getById] \in Box
      BY <3>1, TypedGet DEF TypeInv
    <3> QED BY <3>2 DEF Box, YesNo
  <2>5. req.op = "upgrade" => mcp = "yes" /\ "mounts" \in Todo'
    BY <1>7 DEF LookedAgain, OldInv, Swapping
  <2> QED BY <2>1, <2>2, <2>3, <2>4, <2>5 DEF PhaseInv
<1>8. CASE Begun
  <2>1. getById # 0
    BY <1>8 DEF Begun
  <2>2. box[getById].vol # "bad"
    <3>2. box[getById] \in Box
      BY <2>1, TypedGet DEF TypeInv
    <3> QED BY <3>2 DEF Box, YesNo
  <2>3. "stopNew" \notin Swap /\ "removeNew" \notin Swap /\ "again" \notin Swap
    BY DEF Swap, Cleanup, Register
  <2> QED BY <1>8, <2>2, <2>3, BegunSets DEF PhaseInv
<1>9. CASE req' = Rest
  <2>1. Todo' = {}
    BY <1>9, RestTypes, Pieces DEF Todo
  <2>2. req'.phase = "forward" /\ req'.res = "ok" /\ req'.vol = "no"
    BY <1>9 DEF Rest
  <2> QED BY <2>1, <2>2 DEF PhaseInv
<1> QED BY <1>1, <1>2, <1>3, <1>4, <1>5, <1>6, <1>7, <1>8, <1>9 DEF Move

\* What a request has done agrees with what it still has to do (AheadInv).
LEMMA MoveAhead ==
    ASSUME TypeInv, OldInv, PhaseInv, AheadInv, Move
    PROVE  AheadInv'
<1>1. CASE UNCHANGED <<mcp, req, last>>
  BY <1>1 DEF AheadInv, Todo
<1>2. CASE Went
  <2>1. PICK s \in Calls : Gone(s) /\ s \notin {"read", "create", "again"}
    BY <1>2 DEF Went
  <2>2. Kept /\ req'.new = req.new /\ req'.res = req.res
    BY <2>1, GoneKeeps
  <2>3. Todo' = Todo \ {s} /\ s \in Todo
    BY <2>1 DEF Gone, Due
  <2>4. s \in Register \union {"start"} => "create" \notin Todo
    <3>1. s \in Register \union {"start"} => <<"create", s>> \in Order(req.op)
      BY DEF Order, Register
    <3>2. <<"create", s>>[2] = s /\ <<"create", s>>[1] = "create"
      OBVIOUS
    <3> QED BY <2>1, <3>1, <3>2 DEF Gone, Due
  <2>5. req.op = "rolling" /\ "create" \in Todo => s \notin {"stop", "remove", "start"}
    <3>1. req.op = "rolling" => <<"start", "stop">> \in Order(req.op) /\ <<"stop", "remove">> \in Order(req.op)
      BY DEF Order
    <3>2. <<"start", "stop">>[2] = "stop" /\ <<"start", "stop">>[1] = "start"
          /\ <<"stop", "remove">>[2] = "remove" /\ <<"stop", "remove">>[1] = "stop"
      OBVIOUS
    <3>3. req.op = "rolling" /\ "create" \in Todo => {"stop", "start"} \subseteq Todo
      BY DEF AheadInv
    <3> QED BY <2>1, <2>4, <3>1, <3>2, <3>3 DEF Gone, Due
  <2>6. req.op = "rolling" /\ "stop" \in Todo => s # "remove"
    <3>1. req.op = "rolling" => <<"stop", "remove">> \in Order(req.op)
      BY DEF Order
    <3>2. <<"stop", "remove">>[2] = "remove" /\ <<"stop", "remove">>[1] = "stop"
      OBVIOUS
    <3> QED BY <2>1, <3>1, <3>2 DEF Gone, Due
  <2> QED BY <2>1, <2>2, <2>3, <2>4, <2>5, <2>6 DEF AheadInv, Kept, Register
<1>3. CASE Failed
  <2>1. PICK s \in Calls : Threw(s)
    BY <1>3 DEF Failed
  <2>2. Kept /\ req'.new = req.new
    BY <2>1, ThrewKeeps
  <2>4. CASE Skipped(s)
    <3>1. req.op = "delete" /\ "create" \notin Todo' /\ "pull" \notin Todo'
      BY <2>4 DEF Skipped, TypeInv, ListInv, Cleanup
    <3> QED BY <2>2, <2>4, <3>1 DEF AheadInv, Kept
  <2>5. CASE Looked(s)
    BY <2>2, <2>5 DEF AheadInv, Kept, Looked
  <2>6. CASE Quit(s)
    BY <2>2, <2>6 DEF AheadInv, Kept, Quit
  <2>7. CASE Undone(s) /\ req'.res = IF req.op = "upgrade" /\ req.phase = "revert" THEN "unrecovered" ELSE "failed"
    <3>1. Todo' \cap {"create", "pull", "mounts", "stop", "remove"} = {} /\ req'.res \notin {"ok", "recovered"}
      BY <2>7 DEF Undone, Cleanup
    <3> QED BY <2>2, <3>1 DEF AheadInv, Kept
  <2> QED BY <2>1, <2>4, <2>5, <2>6, <2>7, ThrewSets
<1>4. CASE Appended
  <2>1. Kept /\ req'.res = req.res /\ req.op = "delete" /\ Todo' \cap {"create", "pull"} = {}
    BY <1>4, AppendedKeeps DEF Appended, Cleanup
  <2> QED BY <2>1 DEF AheadInv, Kept
<1>5. CASE Created
  <2>1. Kept /\ req'.res = req.res /\ Todo' = Todo \ {"create"} /\ "create" \in Todo
    BY <1>5, CreatedKeeps DEF Created, Due
  <2>2. \A p \in Order(req.op) : p[2] = "create" => p[1] \notin Todo
    BY <1>5 DEF Created, Due
  <2>3. /\ Todo \cap ({"pull", "mounts"} \union Cleanup) = {}
        /\ req.op # "rolling" => Todo \cap {"stop", "remove"} = {}
    <3>1. ASSUME NEW x \in {"pull", "mounts"} \union Cleanup \union (IF req.op = "rolling" THEN {} ELSE {"stop", "remove"})
          PROVE  x \notin Todo
      <4>1. <<x, "create">> \in Order(req.op)
        BY <3>1 DEF Order, Cleanup
      <4> QED BY <2>2, <4>1
    <3> QED BY <3>1
  <2> QED BY <2>1, <2>3 DEF AheadInv, Kept
<1>6. CASE Reverted
  <2>1. req'.op = "upgrade" /\ req'.new = 0
    BY <1>6, RevertedSets
  <2>2. Todo' = Renewing /\ "again" \in Todo /\ req.op = "upgrade"
    BY <1>6, DueAt DEF Reverted
  <2>3. Renewing \cap ({"pull", "mounts", "stop", "remove"} \union Cleanup) = {} /\ "create" \in Renewing /\ "start" \in Renewing
    BY DEF Renewing, Answering, Register, Cleanup
  <2>4. Register \subseteq Renewing
    BY <2>2 DEF OldInv, Renewing
  <2> QED BY <2>1, <2>2, <2>3, <2>4 DEF AheadInv
<1>7. CASE LookedAgain
  <2>1. req'.op = req.op /\ req'.new = req.new
    BY <1>7, LookedSets
  <2>2. "read" \in Todo /\ req # Rest /\ req.op \in {"rolling", "swap", "upgrade"}
    BY <1>7, DueAt DEF LookedAgain
  <2>3. req.new = 0
    BY <2>2 DEF OldInv
  <2>4. "create" \in Renewing /\ "start" \in Renewing /\ Renewing \subseteq Swapping /\ {"create", "stop", "remove", "start"} \subseteq Rolling
    BY DEF Renewing, Answering, Swapping, Rolling
  <2>5. req.op = "upgrade" => Register \subseteq Renewing
    BY DEF OldInv, Renewing
  <2>6. Todo' = IF req.op = "rolling" THEN Rolling ELSE Swapping
    BY <1>7 DEF LookedAgain
  <2> QED BY <2>1, <2>2, <2>3, <2>4, <2>5, <2>6 DEF AheadInv
<1>8. CASE Begun
  <2>1. {"create", "start"} \subseteq Swap \ {"mounts", "inspect"} /\ Register \subseteq Swap \ {"mounts", "inspect"}
    BY DEF Swap, Cleanup, Register
  <2> QED BY <1>8, <2>1, BegunSets DEF AheadInv, Cleanup
<1>9. CASE req' = Rest
  <2>1. Todo' = {}
    BY <1>9, RestTypes, Pieces DEF Todo
  <2> QED BY <2>1 DEF AheadInv
<1> QED BY <1>1, <1>2, <1>3, <1>4, <1>5, <1>6, <1>7, <1>8, <1>9 DEF Move

-----------------------------------------------------------------------------
(* The containers.                                                          *)

\* Ids are given in their order, and the room for the containers a request may still
\* create was there at its begin.
Need == IF req.phase = "revert" THEN (IF "create" \in Todo THEN 1 ELSE 0)
        ELSE IF Todo \cap {"read", "create"} # {} THEN 2 ELSE 1
MadeInv ==
    /\ Made = 1..Cardinality(Made)
    /\ req.op \notin {"none", "delete"} /\ Todo # {} => Cardinality(Made) + Need <= MaxMade
    /\ \A d \in Existing : box[d].ver # 0
    /\ req.old \in Made \union {0} /\ req.new \in Made \union {0}
    /\ req.new # 0 => req.new # req.old
    /\ req.op \notin {"none", "delete"} => req.bind.ver # 0
    /\ req.op \notin {"none", "delete"} /\ req.old # 0 => req.found.ver # 0

\* The new container exists from its creation on, until the way back removes it.
Using    == Register \union {"start", "address", "inspect", "health", "look"}
BuiltInv ==
    /\ req.op # "delete" /\ "create" \notin Todo /\ Todo \cap Using # {} => req.new \in Existing
    /\ req.op = "rolling" /\ "create" \notin Todo /\ Todo \cap {"stop", "remove"} # {} => req.new \in Existing

\* What a step does to the containers: they stay what they are, one is removed, one is
\* created, or one is created that nobody learns of.
Same(d)  == /\ box'[d].ver = box[d].ver /\ box'[d].epoch = box[d].epoch
            /\ box'[d].vol = box[d].vol /\ box'[d].sec = box[d].sec
Intact   == \A d \in Ids : /\ Same(d)
                           /\ box'[d].st \in {"created", "running", "exited"} <=> box[d].st \in {"created", "running", "exited"}
                           /\ box'[d].st = "none" <=> box[d].st = "none"
Removing(d) == /\ d \in Existing
               /\ Go /\ ((At("remove") /\ d = req.old) \/ (At("removeNew") /\ d = req.new))
               /\ box' = [box EXCEPT ![d] = [NoBox EXCEPT !.st = "gone"]]
NewBox   == [st |-> "created", ver |-> req.bind.ver, epoch |-> req.bind.epoch,
             vol |-> IF req.phase = "revert" THEN req.found.vol
                     ELSE IF req.op = "rolling" THEN "no" ELSE req.vol,
             want |-> "running", sec |-> IF req.op \in {"rolling", "swap"} THEN "no" ELSE req.sec]
Building == /\ Created /\ NewBox \in Box
            /\ Cardinality(Made) + 1 \in Ids \ Made
            /\ box' = [box EXCEPT ![Cardinality(Made) + 1] = NewBox]
Orphan    == [NewBox EXCEPT !.want = "none"]
Orphaning == /\ Due("create") /\ Threw("create") /\ Orphan \in Box
             /\ Cardinality(Made) + 1 \in Ids \ Made
             /\ box' = [box EXCEPT ![Cardinality(Made) + 1] = Orphan]
             /\ leaked' = leaked \union {Cardinality(Made) + 1}

\* There are finitely many containers.
LEMMA MadeFinite == IsFiniteSet(Made) /\ Cardinality(Made) \in Nat /\ IsFiniteSet(Existing) /\ IsFiniteSet(Ids)
<1>1. 1 \in Int /\ MaxMade \in Int
  BY BoundsAssumption
<1>2. IsFiniteSet(Ids)
  BY <1>1, FS_Interval DEF Ids
<1>3. Made \in SUBSET Ids /\ Existing \in SUBSET Ids
  BY DEF Made, Existing
<1>4. IsFiniteSet(Made) /\ IsFiniteSet(Existing)
  BY <1>2, <1>3, FS_Subset
<1> QED BY <1>2, <1>4, FS_CardinalityType

\* There is room for the containers a request still creates.
LEMMA MadeRoom ==
    ASSUME TypeInv, MadeInv, AheadInv, Due("create")
    PROVE  /\ Cardinality(Made) + 1 \in Ids \ Made /\ Cardinality(Made) \in Nat
           /\ Cardinality(Made) + 1 \in 0..MaxMade
           /\ req.op \notin {"none", "delete"} /\ req.new = 0
<1>1. MaxMade \in Nat
  BY BoundsAssumption
<1>2. IsFiniteSet(Made) /\ Cardinality(Made) \in Nat
  BY MadeFinite
<1>3. req.op \notin {"none", "delete"} /\ Todo # {} /\ req.new = 0
  BY DueAt DEF TypeInv, ListInv, Due, Cleanup, AheadInv
<1>4. Cardinality(Made) + 1 <= MaxMade
  <2>1. Cardinality(Made) + Need <= MaxMade /\ Need \in {1, 2}
    BY <1>3 DEF MadeInv, Need, Due
  <2> QED BY <1>1, <1>2, <2>1
<1>5. Cardinality(Made) + 1 \notin Made
  BY <1>2 DEF MadeInv
<1> QED BY <1>1, <1>2, <1>3, <1>4, <1>5 DEF Ids

\* A container is created from values of the model.
LEMMA NewBoxTyped ==
    ASSUME TypeInv, PhaseInv, Due("create")
    PROVE  NewBox \in Box
<1>1. req \in Request
  BY DEF TypeInv, Types
<1>2. req.vol = "bad" => req.phase = "revert"
  <2>1. "create" \in Todo /\ \A p \in Order(req.op) : p[2] = "create" => p[1] \notin Todo
    BY DEF Due
  <2>2. <<"mounts", "create">> \in Order(req.op) /\ <<"mounts", "create">>[2] = "create" /\ <<"mounts", "create">>[1] = "mounts"
    BY DEF Order
  <2>3. "mounts" \notin Todo
    BY <2>1, <2>2
  <2> QED BY <1>1, <2>1, <2>3 DEF PhaseInv, Request
<1>3. /\ req.bind.ver \in 0..MaxVer /\ req.bind.epoch \in 0..MaxEpoch /\ req.found.vol \in YesNo
      /\ req.sec \in YesNo /\ (req.phase = "revert" \/ req.vol \in YesNo)
  BY <1>1, <1>2 DEF Request, Binding, Box, YesNo
<1> QED BY <1>3 DEF NewBox, Box, YesNo

\* Who changes the containers: a creation, a stop, a removal, a start, or an event.
LEMMA BoxMoves ==
    ASSUME TypeInv, ReqInv, MadeInv, BuiltInv, [Next]_vars
    PROVE  /\ box' \in [Ids -> Box]
           /\ Intact \/ (\E d \in Ids : Removing(d)) \/ Building \/ Orphaning
<1>0. /\ box \in [Ids -> Box] /\ req \in Request /\ 0 \notin Ids
      /\ \A d \in Ids : box[d].st \in {"none", "created", "running", "exited", "gone"}
  BY BoundsAssumption DEF TypeInv, Types, Ids, Box
<1>1. ASSUME box' = box PROVE box' \in [Ids -> Box] /\ Intact
  BY <1>0, <1>1 DEF Intact, Same
<1>2. ASSUME NEW s \in {"stop", "stopNew"}, stopContainer(s) PROVE box' \in [Ids -> Box] /\ Intact
  <2> DEFINE d == Target(s)
  <2>1. CASE d \in Ids /\ Exists(d)
    <3>0. d # 0
      BY <1>0, <2>1
    <3>1. PICK st \in {"created", "running", "exited"} : box' = [box EXCEPT ![d].want = "stopped", ![d].st = st]
      <4>1. box[d].st \in {"created", "running", "exited"}
        BY <2>1 DEF Exists
      <4> QED BY <1>2, <2>1, <3>0, <4>1 DEF stopContainer
    <3> HIDE DEF d
    <3>2. box[d].st \in {"created", "running", "exited"} /\ d \in Ids /\ box[d] \in Box
      BY <1>0, <2>1 DEF Exists
    <3>3. box'[d] = [box[d] EXCEPT !.want = "stopped", !.st = st] /\ \A e \in Ids \ {d} : box'[e] = box[e]
      BY <1>0, <3>1, <3>2
    <3>4. box' \in [Ids -> Box]
      BY <1>0, <3>1, <3>2 DEF Box
    <3>5. Intact
      <4>1. /\ Same(d) /\ box'[d].st = st
        BY <3>2, <3>3 DEF Same, Box
      <4>2. \A e \in Ids \ {d} : Same(e) /\ box'[e].st = box[e].st
        BY <3>3 DEF Same
      <4> QED BY <3>2, <4>1, <4>2 DEF Intact
    <3> QED BY <3>4, <3>5
  <2>2. CASE ~(d \in Ids /\ Exists(d))
    <3>1. d = 0 \/ d \in Ids
      BY <1>0 DEF Target, Request, Ids
    <3>2. box' = box
      BY <1>2, <2>2, <3>1 DEF stopContainer
    <3> QED BY <1>1, <3>2
  <2> QED BY <2>1, <2>2
<1>3. ASSUME NEW s \in {"remove", "removeNew"}, removeContainer(s)
      PROVE  box' \in [Ids -> Box] /\ (Intact \/ \E d \in Ids : Removing(d))
  <2> DEFINE d == Target(s)
  <2>1. d = 0 \/ d \in Ids
    BY <1>0 DEF Target, Request, Ids
  <2>2. CASE box' # box
    <3>1. /\ d \in Ids /\ Exists(d) /\ At(s) /\ Go /\ box' = [box EXCEPT ![d] = [NoBox EXCEPT !.st = "gone"]]
      BY <1>3, <2>1, <2>2 DEF removeContainer
    <3>2. Removing(d)
      BY <3>1 DEF Removing, Existing, Target
    <3>3. [NoBox EXCEPT !.st = "gone"] \in Box
      BY RestTypes DEF Box
    <3> QED BY <1>0, <3>1, <3>2, <3>3
  <2> QED BY <1>1, <2>2
<1>4. CASE createAppContainer
  <2>0. Due("create") /\ IsList(Tail(req.todo), req.op) /\ In(Tail(req.todo)) = Todo \ {"create"}
    BY <1>4, DueWhen DEF createAppContainer
  <2>1. NewBox \in Box /\ Cardinality(Made) + 1 \in Ids \ Made
    BY <2>0, NewBoxTyped, MadeRoom DEF ReqInv
  <2>2. CASE /\ req' = [req EXCEPT !.todo = Tail(@), !.new = Cardinality(Made) + 1]
             /\ box' = [box EXCEPT ![Cardinality(Made) + 1] = NewBox]
    <3>1. Created
      <4>1. req'.todo = Tail(req.todo)
        BY <1>0, <2>2 DEF Request
      <4> QED BY <2>0, <2>2, <4>1 DEF Created, Todo
    <3> HIDE DEF NewBox
    <3> QED BY <1>0, <2>1, <2>2, <3>1 DEF Building
  <2>3. CASE /\ Leaves(Cardinality(Made) + 1) /\ Throws
             /\ box' = [box EXCEPT ![Cardinality(Made) + 1] = Orphan]
    <3>1. Threw("create")
      BY <1>4, <2>3, ThrewWhen DEF createAppContainer
    <3>2. Orphan \in Box
      BY <2>1 DEF Orphan, Box
    <3> HIDE DEF Orphan
    <3> QED BY <1>0, <2>0, <2>1, <2>3, <3>1, <3>2 DEF Orphaning, Leaves
  <2>4. CASE box' = box
    BY <1>1, <2>4
  <2> QED BY <1>4, <2>2, <2>3, <2>4 DEF createAppContainer, NewBox, Orphan
<1>5. CASE startContainer
  <2>1. CASE box' # box
    <3>1. At("start") /\ box' = [box EXCEPT ![req.new].st = "running", ![req.new].want = "running"]
      BY <1>5, <2>1 DEF startContainer
    <3>2. Due("start")
      BY <3>1, DueWhen
    <3>3. req.op # "delete" /\ "create" \notin Todo
      <4>1. req.op # "delete" /\ \A p \in Order(req.op) : p[2] = "start" => p[1] \notin Todo
        BY <3>2 DEF Due, TypeInv, ListInv, Cleanup
      <4>2. <<"create", "start">> \in Order(req.op) /\ <<"create", "start">>[2] = "start" /\ <<"create", "start">>[1] = "create"
        BY DEF Order
      <4> QED BY <4>1, <4>2
    <3>4. req.new \in Existing
      BY <3>2, <3>3 DEF BuiltInv, Using, Due
    <3> QED BY <1>0, <3>1, <3>4 DEF Intact, Same, Existing, Exists, Box
  <2> QED BY <1>1, <2>1
<1>6. ASSUME NEW d \in Ids, exits(d) PROVE box' \in [Ids -> Box] /\ Intact
  <2>1. box' = [box EXCEPT ![d].st = "exited"] /\ box[d].st = "running"
    BY <1>6 DEF exits, Running
  <2> QED BY <1>0, <2>1 DEF Intact, Same, Box
<1>7. ASSUME NEW d \in Ids, recoverDesiredState(d) PROVE box' \in [Ids -> Box] /\ Intact
  <2>1. CASE box' # box
    <3>1. box' = [box EXCEPT ![d].st = "running"] /\ box[d].st = "exited"
      BY <1>7, <2>1 DEF recoverDesiredState
    <3> QED BY <1>0, <3>1 DEF Intact, Same, Box
  <2> QED BY <1>1, <2>1
<1>8. ASSUME NEW host \in YesNo, dies(host) PROVE box' \in [Ids -> Box] /\ Intact
  <2>1. CASE box' # box
    <3>1. box' = [d \in Ids |-> IF d \in Running THEN [box[d] EXCEPT !.st = "exited"] ELSE box[d]]
      BY <1>8, <2>1 DEF dies
    <3>2. ASSUME NEW d \in Ids
          PROVE  /\ box'[d] \in Box /\ Same(d)
                 /\ box'[d].st = box[d].st \/ (box'[d].st = "exited" /\ box[d].st = "running")
      BY <1>0, <3>1 DEF Same, Box, Running
    <3>3. Intact
      BY <1>0, <3>2 DEF Intact
    <3> QED BY <3>1, <3>2, <3>3
  <2> QED BY <1>1, <2>1
<1>9. CASE Requests
  <2>1. Begun
    BY <1>9, BegunWhen
  <2> QED BY <1>1, <2>1 DEF Begun
<1>10. CASE UNCHANGED vars
  BY <1>1, <1>10 DEF vars
<1>11. CASE \/ read \/ pullImage \/ mountsForMcpV3Upgrade \/ getInternalUrl \/ waitForHealthy
            \/ inspectContainer \/ look \/ removeVolume \/ revert \/ answer
            \/ persistStore \/ persistLegacy \/ registerSocket
  BY <1>1, <1>11 DEF read, pullImage, mountsForMcpV3Upgrade, getInternalUrl, waitForHealthy,
        inspectContainer, look, removeVolume, revert, answer, persistStore, persistLegacy, registerSocket
<1>12. CASE close \/ closed \/ rmDirectory \/ rmStore \/ rebindMcpBrokers \/ sweepOrphanBrokerState \/ dial \/ respond
  BY <1>1, <1>12 DEF close, closed, rmDirectory, rmStore, rebindMcpBrokers, sweepOrphanBrokerState, dial, respond
<1> QED BY <1>2, <1>3, <1>4, <1>5, <1>6, <1>7, <1>8, <1>9, <1>10, <1>11, <1>12 DEF Next, Steps

\* Who is there after such a step.
LEMMA Intacts ==
    ASSUME Intact
    PROVE  Existing' = Existing /\ Made' = Made /\ \A d \in Existing : Same(d)
BY DEF Intact, Existing, Exists, Made, Ids

\* A removal takes its target and no other container.
LEMMA Removes ==
    ASSUME TypeInv, NEW c \in Ids, Removing(c)
    PROVE  Existing' = Existing \ {c} /\ Made' = Made /\ \A d \in Existing' : Same(d)
<1>1. box \in [Ids -> Box] /\ box' = [box EXCEPT ![c] = [NoBox EXCEPT !.st = "gone"]] /\ box[c].st # "none"
  BY DEF TypeInv, Types, Removing, Existing, Exists
<1>2. box'[c].st = "gone" /\ \A d \in Ids \ {c} : box'[d] = box[d]
  BY <1>1 DEF NoBox
<1> QED BY <1>1, <1>2 DEF Existing, Exists, Made, Same, Ids

\* A creation adds one container, the next.
LEMMA Adds ==
    ASSUME TypeInv, ReqInv, MadeInv, NEW b, b.st = "created", Cardinality(Made) + 1 \in Ids \ Made,
           box' = [box EXCEPT ![Cardinality(Made) + 1] = b]
    PROVE  LET n == Cardinality(Made) + 1
           IN  /\ Existing' = Existing \union {n} /\ Made' = Made \union {n} /\ n \notin Existing /\ n \notin Made
               /\ box'[n] = b
               /\ Cardinality(Made') = n /\ Made' = 1..n /\ n \in Nat \ {0}
               /\ \A d \in Existing : Same(d)
<1> DEFINE n == Cardinality(Made) + 1
<1>1. /\ box \in [Ids -> Box] /\ box' = [box EXCEPT ![n] = b] /\ b.st = "created"
      /\ n \in Ids /\ n \notin Made
  BY DEF TypeInv, Types
<1>2. Cardinality(Made) \in Nat /\ IsFiniteSet(Made)
  BY MadeFinite
<1>5. Made = 1..Cardinality(Made)
  BY DEF MadeInv
<1>6. n \in Nat \ {0} /\ Made \union {n} = 1..n
  <2>1. n \in Nat \ {0}
    BY <1>2
  <2>2. \A m \in Nat : 1..m \union {m + 1} = 1..(m + 1)
    OBVIOUS
  <2> QED BY <1>2, <1>5, <2>1, <2>2
<1>7. Cardinality(Made \union {n}) = n
  BY <1>1, <1>2, FS_AddElement
<1> HIDE DEF n
<1>3. box'[n] = b /\ \A d \in Ids \ {n} : box'[d] = box[d]
  BY <1>1
<1>4. /\ Existing' = Existing \union {n} /\ Made' = Made \union {n} /\ n \notin Existing
      /\ \A d \in Existing : Same(d)
  BY <1>1, <1>3 DEF Existing, Exists, Made, Same, Ids
<1> QED BY <1>1, <1>3, <1>4, <1>6, <1>7 DEF n

LEMMA Builds ==
    ASSUME TypeInv, ReqInv, MadeInv, Building
    PROVE  LET n == Cardinality(Made) + 1
           IN  /\ Existing' = Existing \union {n} /\ Made' = Made \union {n} /\ n \notin Existing /\ n \notin Made
               /\ box'[n] = NewBox
               /\ Cardinality(Made') = n /\ Made' = 1..n /\ n \in Nat \ {0}
               /\ \A d \in Existing : Same(d)
<1>1. NewBox.st = "created"
  BY DEF NewBox
<1> QED BY <1>1, Adds DEF Building

\* The request does not learn of such a container, and no request had it before.
LEMMA Orphans ==
    ASSUME TypeInv, ReqInv, MadeInv, Orphaning
    PROVE  LET n == Cardinality(Made) + 1
           IN  /\ Existing' = Existing \union {n} /\ Made' = Made \union {n} /\ n \notin Existing /\ n \notin Made
               /\ box'[n] = Orphan /\ n \in leaked'
               /\ Cardinality(Made') = n /\ Made' = 1..n /\ n \in Nat \ {0}
               /\ \A d \in Existing : Same(d)
<1>1. Orphan.st = "created"
  BY DEF Orphan, NewBox
<1> QED BY <1>1, Adds DEF Orphaning

Core == TypeInv /\ ReqInv /\ MadeInv /\ BuiltInv

\* The step that moves a request on is the one of its next call.
LEMMA Acts ==
    ASSUME Core, [Next]_vars, NEW s, At(s), req' # req, req' # Rest
    PROVE  /\ s = "read" => read
           /\ s = "create" => createAppContainer
           /\ s = "start" => startContainer
           /\ s \in {"stop", "stopNew"} => stopContainer(s)
           /\ s \in {"remove", "removeNew"} => removeContainer(s)
           /\ s = "store" => persistStore
           /\ s = "legacy" => persistLegacy
           /\ s = "bind" => registerSocket
           /\ s = "close" => close
           /\ s = "rmdir" => rmDirectory
           /\ s = "rmstore" => rmStore
           /\ s = "address" => getInternalUrl
           /\ s = "inspect" => inspectContainer
           /\ s = "look" => look
           /\ s \in {"pull", "mounts", "health", "closed", "volumes", "again"} =>
                UNCHANGED <<box, sock, store, legacy, leaked, agent>> /\ spent'.leaks = spent.leaks
<1>1. \A x : At(x) => x = s
  BY DEF At
<1>2. req # Rest
  <2>1. s \in Todo
    BY DueWhen DEF Core, Due
  <2> QED BY <2>1, DueWhen, DueAt DEF Core
<1>3. ~Requests
  BY <1>2, BegunWhen DEF Begun, Core
<1>4. ~(answer \/ rebindMcpBrokers \/ sweepOrphanBrokerState \/ dial \/ respond)
  BY DEF answer, rebindMcpBrokers, sweepOrphanBrokerState, dial, respond
<1>5. \A d \in Ids : ~exits(d) /\ ~recoverDesiredState(d)
  BY DEF exits, recoverDesiredState
<1>6. \A host \in YesNo : ~dies(host)
  BY DEF dies
<1>7. ~UNCHANGED vars
  BY DEF vars
<1>8. Steps
  BY <1>3, <1>4, <1>5, <1>6, <1>7 DEF Next
<1>r. Refuses => spent'.leaks = spent.leaks
  BY DEF Refuses, Core, TypeInv, Types
<1>a. CASE pullImage \/ mountsForMcpV3Upgrade \/ waitForHealthy \/ closed \/ removeVolume \/ revert
  <2>1. UNCHANGED <<box, sock, store, legacy, leaked, agent>> /\ spent'.leaks = spent.leaks
    BY <1>a, <1>r DEF pullImage, mountsForMcpV3Upgrade, waitForHealthy, closed, removeVolume, revert
  <2>2. s \in {"pull", "mounts", "health", "closed", "volumes", "again"}
    BY <1>1, <1>a DEF pullImage, mountsForMcpV3Upgrade, waitForHealthy, closed, removeVolume, revert
  <2> QED BY <2>1, <2>2
<1>b. ASSUME NEW x \in {"stop", "stopNew"}, stopContainer(x) PROVE x = s
  BY <1>1, <1>b DEF stopContainer
<1>c. ASSUME NEW x \in {"remove", "removeNew"}, removeContainer(x) PROVE x = s
  BY <1>1, <1>c DEF removeContainer
<1>d. CASE \/ read \/ createAppContainer \/ startContainer \/ persistStore \/ persistLegacy \/ registerSocket
           \/ close \/ rmDirectory \/ rmStore \/ getInternalUrl \/ inspectContainer \/ look
  <2>1. /\ read => s = "read"
        /\ createAppContainer => s = "create"
        /\ startContainer => s = "start"
        /\ persistStore => s = "store"
        /\ persistLegacy => s = "legacy"
        /\ registerSocket => s = "bind"
    BY <1>1 DEF read, createAppContainer, startContainer, persistStore, persistLegacy, Persists, registerSocket
  <2>2. /\ close => s = "close"
        /\ rmDirectory => s = "rmdir"
        /\ rmStore => s = "rmstore"
        /\ getInternalUrl => s = "address"
        /\ inspectContainer => s = "inspect"
        /\ look => s = "look"
    BY <1>1 DEF close, rmDirectory, rmStore, getInternalUrl, inspectContainer, look
  <2> QED BY <1>d, <2>1, <2>2
<1> QED BY <1>4, <1>8, <1>a, <1>b, <1>c, <1>d DEF Steps

\* The step of a call that went on is that call's.
LEMMA GoneActs ==
    ASSUME TypeInv, NEW s \in Calls, Gone(s)
    PROVE  req' # req /\ req' # Rest /\ At(s) /\ s \in Todo
<1>1. At(s) /\ s \in Todo /\ Todo' = Todo \ {s} /\ req.op # "none" /\ req'.op = req.op
  BY DueAt, GoneKeeps DEF Gone, Due, Kept
<1>2. req' # req
  BY <1>1 DEF Todo
<1> QED BY <1>1, <1>2, RestTypes

\* The request's new container is the one that was created.
LEMMA CreatedBuilds ==
    ASSUME Core, [Next]_vars, Created
    PROVE  Building
<1>0. /\ req \in Request /\ At("create") /\ Due("create") /\ req # Rest
      /\ req'.new = Cardinality(Made) + 1 /\ req'.new # 0 /\ req.new = 0
  <2>1. req \in Request /\ At("create") /\ Due("create") /\ req # Rest
    BY DueAt DEF Core, TypeInv, Types, Created, Due
  <2>2. req'.new = Cardinality(Made) + 1
    BY CreatedKeeps DEF Core
  <2> QED BY <2>1, <2>2, MadeRoom DEF Core, ReqInv, Ids
<1>4. createAppContainer
  BY <1>0, Acts, RestTypes
<1>5. ~Throws
  <2>1. Throws => req'.new = req.new
    BY <1>0, ThrewWhen, ThrewKeeps DEF Core, Calls
  <2> QED BY <1>0, <2>1
<1>6. box' = [box EXCEPT ![Cardinality(Made) + 1] = NewBox]
  BY <1>4, <1>5 DEF createAppContainer, NewBox
<1>7. NewBox \in Box /\ Cardinality(Made) + 1 \in Ids \ Made
  BY <1>0, NewBoxTyped, MadeRoom DEF Core, ReqInv
<1> QED BY <1>6, <1>7 DEF Building

\* Who is there after a step.
LEMMA Stays ==
    ASSUME Core, [Next]_vars
    PROVE  \/ Building
           \/ Orphaning
           \/ /\ ~Created
              /\ Made' = Made /\ Existing' \subseteq Existing /\ \A d \in Existing' : Same(d)
              /\ \A d \in Existing \ Existing' : Removing(d)
<1>1. Intact \/ (\E d \in Ids : Removing(d)) \/ Building \/ Orphaning
  BY BoxMoves DEF Core
<1>2. Created => Building
  BY CreatedBuilds
<1>3. ASSUME NEW c \in Ids, Removing(c)
      PROVE  /\ Made' = Made /\ Existing' \subseteq Existing /\ (\A d \in Existing' : Same(d))
             /\ \A d \in Existing \ Existing' : Removing(d)
  <2>1. Existing' = Existing \ {c} /\ Made' = Made /\ \A d \in Existing' : Same(d)
    BY <1>3, Removes DEF Core
  <2> QED BY <1>3, <2>1
<1> QED BY <1>1, <1>2, <1>3, Intacts

\* What was there stays what it is; who is new without the request's knowledge has
\* been left to itself.
LEMMA Strangers ==
    ASSUME Core, [Next]_vars, ~Building
    PROVE  /\ ~Created
           /\ \A d \in Existing' \ Existing : d \in leaked' /\ d \notin {0, req.old, req.new}
           /\ \A d \in Existing' \cap Existing : Same(d)
           /\ \A d \in Existing \ Existing' : Removing(d)
<1>0. ~Created
  BY CreatedBuilds
<1>1. CASE Orphaning
  <2> DEFINE n == Cardinality(Made) + 1
  <2>1. /\ Existing' = Existing \union {n} /\ n \notin Made /\ n \in leaked' /\ n # 0
        /\ \A d \in Existing : Same(d)
    BY <1>1, Orphans DEF Core
  <2> HIDE DEF n
  <2> QED BY <1>0, <2>1 DEF Core, MadeInv
<1> QED BY <1>0, <1>1, Stays

\* The new container is removed by the way back only.
LEMMA NewStays ==
    ASSUME Core, [Next]_vars, ~Building, req.new \in Existing, "removeNew" \notin Todo
    PROVE  req.new \in Existing'
<1>1. \A d \in Existing \ Existing' : Removing(d)
  BY Strangers
<1>2. ~Removing(req.new)
  <2>1. At("removeNew") => "removeNew" \in Todo
    BY DueWhen DEF Core, Due
  <2>2. req.new # 0
    BY BoundsAssumption DEF Existing, Ids
  <2> QED BY <2>1, <2>2 DEF Removing, Core, MadeInv
<1> QED BY <1>1, <1>2

\* Ids are given in order, within the room (MadeInv).
LEMMA MoveMade ==
    ASSUME Core, [Next]_vars
    PROVE  MadeInv'
<1>0. Move /\ req \in Request /\ TypeInv /\ MadeInv /\ Existing \subseteq Made /\ 0 \notin Made
  <2>1. Existing \subseteq Made /\ 0 \notin Made
    BY BoundsAssumption DEF Existing, Exists, Made, Ids
  <2> QED BY <2>1, Moves DEF Core, TypeInv, Types
<1>n. Cardinality(Made) \in Nat /\ MaxMade \in Nat
  BY MadeFinite, BoundsAssumption
<1>1. CASE Building
  <2> DEFINE n == Cardinality(Made) + 1
  <2>1. Created
    BY <1>1 DEF Building
  <2>2. Kept /\ req'.new = n /\ Todo' = Todo \ {"create"} /\ Due("create") /\ Todo # {}
    BY <1>0, <2>1, CreatedKeeps DEF Created, Due
  <2>3. req.op \notin {"none", "delete"} /\ req.new = 0 /\ req.bind.ver # 0
    BY <2>2, MadeRoom DEF Core, ReqInv, MadeInv
  <2>4. /\ Existing' = Existing \union {n} /\ Made' = Made \union {n} /\ n \notin Made
        /\ box'[n] = NewBox /\ Cardinality(Made') = n /\ Made' = 1..n /\ n \in Nat \ {0}
        /\ \A d \in Existing : Same(d)
    BY <1>1, Builds DEF Core
  <2>5. Cardinality(Made) + Need <= MaxMade /\ Need = (IF req.phase = "revert" THEN 1 ELSE 2)
    BY <2>2, <2>3 DEF MadeInv, Core, Need, Due
  <2>6. Need' = (IF req.phase = "revert" THEN 0 ELSE 1)
    <3>1. "read" \notin Todo
      BY <1>0, <2>2, <2>3 DEF TypeInv, ListInv, Due, Rolling, Swap, Undo, Cleanup, Answering, Register, Request, Ops
    <3> QED BY <2>2, <3>1 DEF Need, Kept
  <2>7. NewBox.ver # 0
    BY <2>3 DEF NewBox
  <2>8. \A d \in Existing' : box'[d].ver # 0
    BY <1>0, <2>4, <2>7 DEF MadeInv, Same
  <2>9. Cardinality(Made') + Need' <= MaxMade
    BY <1>n, <2>4, <2>5, <2>6
  <2>10. /\ req'.old \in Made' \union {0} /\ req'.new \in Made' \union {0} /\ (req'.new # 0 => req'.new # req'.old)
    BY <1>0, <2>2, <2>4 DEF MadeInv, Kept
  <2> QED BY <1>0, <2>2, <2>4, <2>8, <2>9, <2>10 DEF MadeInv, Kept
<1>2. CASE Orphaning
  <2> DEFINE n == Cardinality(Made) + 1
  <2>1. Kept /\ req'.new = req.new
    BY <1>0, <1>2, ThrewKeeps DEF Orphaning, Calls
  <2>2. Due("create") /\ Threw("create") /\ Todo # {}
    BY <1>2 DEF Orphaning, Due
  <2>3. req.op \notin {"none", "delete"}
    BY <2>2, MadeRoom DEF Core, ReqInv
  <2>4. /\ Existing' = Existing \union {n} /\ Made' = Made \union {n} /\ n \notin Made
        /\ box'[n] = Orphan /\ Cardinality(Made') = n /\ Made' = 1..n /\ n \in Nat \ {0}
        /\ \A d \in Existing : Same(d)
    BY <1>2, Orphans DEF Core
  <2>5. Cardinality(Made) + Need <= MaxMade /\ Need = (IF req.phase = "revert" THEN 1 ELSE 2)
    BY <2>2, <2>3 DEF MadeInv, Core, Need, Due
  <2>6. Need' = (IF req.phase = "revert" THEN 0 ELSE 1)
    <3>1. "read" \notin Todo' /\ "create" \notin Todo'
      BY <2>2, <2>3 DEF Threw, Skipped, Looked, Quit, Undone, Cleanup
    <3> QED BY <2>1, <3>1 DEF Need, Kept
  <2>7. Orphan.ver # 0
    BY <2>3 DEF Orphan, NewBox, Core, MadeInv
  <2>8. \A d \in Existing' : box'[d].ver # 0
    BY <1>0, <2>4, <2>7 DEF MadeInv, Same
  <2>9. Cardinality(Made') + Need' <= MaxMade
    BY <1>n, <2>4, <2>5, <2>6
  <2> QED BY <1>0, <2>1, <2>4, <2>8, <2>9 DEF MadeInv, Kept
<1>3. CASE ~Building /\ ~Orphaning
  <2>1. ~Created /\ Made' = Made /\ Existing' \subseteq Existing /\ \A d \in Existing' : Same(d)
    BY <1>3, Stays
  <2>2. Made' = 1..Cardinality(Made') /\ \A d \in Existing' : box'[d].ver # 0
    BY <1>0, <2>1 DEF MadeInv, Same
  <2>k. ASSUME Kept, req'.new = req.new, Todo # {} \/ Todo' = {}, Todo' \cap {"read", "create"} \subseteq Todo
        PROVE  MadeInv'
    <3>1. Need' \in {0, 1, 2} /\ Need \in {0, 1, 2} /\ Need' <= Need
      BY <2>k DEF Need, Kept
    <3>2. Cardinality(Made) + Need <= MaxMade => Cardinality(Made') + Need' <= MaxMade
      BY <1>n, <2>1, <3>1
    <3> QED BY <1>0, <2>k, <2>1, <2>2, <3>2 DEF MadeInv, Kept
  <2>3. CASE UNCHANGED <<mcp, req, last>>
    BY <2>3, <2>k DEF Kept, Todo
  <2>4. CASE Went
    <3>1. PICK s \in Calls : Gone(s)
      BY <2>4 DEF Went
    <3> QED BY <1>0, <2>k, <3>1, GoneKeeps DEF Gone, Due
  <2>5. CASE Failed
    <3>1. PICK s \in Calls : Threw(s)
      BY <2>5 DEF Failed
    <3>2. s \in Todo
      BY <3>1 DEF Threw, Skipped, Looked, Quit, Undone, Due
    <3>3. Todo' \cap {"read", "create"} \subseteq Todo
      BY <3>1 DEF Threw, Skipped, Looked, Quit, Undone, Cleanup
    <3> QED BY <1>0, <2>k, <3>1, <3>2, <3>3, ThrewKeeps
  <2>6. CASE Appended
    <3>1. "inspect" \in Todo
      BY <2>6 DEF Appended, Due
    <3>2. Todo' \cap {"read", "create"} \subseteq Todo
      BY <2>6 DEF Appended, Cleanup
    <3> QED BY <1>0, <2>6, <2>k, <3>1, <3>2, AppendedKeeps
  <2>7. CASE Reverted
    <3>1. /\ req'.op = "upgrade" /\ req'.old = req.old /\ req'.found = req.found /\ req'.phase = "revert" /\ req'.new = 0
          /\ req'.bind = [req.bind EXCEPT !.ver = req.found.ver]
      BY <1>0, <2>7, RevertedSets
    <3>2. req.op = "upgrade" /\ "again" \in Todo /\ req # Rest
      BY <1>0, <2>7, DueAt DEF Reverted
    <3>3. req.phase = "forward" /\ req.old # 0
      <4>1. req.phase # "revert" /\ req.old # 0
        BY <3>2 DEF Core, ReqInv, PhaseInv, OldInv
      <4> QED BY <1>0, <4>1 DEF Request
    <3>4. Cardinality(Made) + Need <= MaxMade /\ Need \in {1, 2}
      BY <1>0, <3>2, <3>3 DEF MadeInv, Need
    <3>5. Need' \in {0, 1}
      BY <3>1 DEF Need
    <3>6. Cardinality(Made') + Need' <= MaxMade
      BY <1>n, <2>1, <3>4, <3>5
    <3>7. req'.bind.ver # 0
      BY <1>0, <3>1, <3>2, <3>3 DEF MadeInv, Request, Binding
    <3> QED BY <1>0, <2>1, <2>2, <3>1, <3>2, <3>3, <3>6, <3>7 DEF MadeInv
  <2>8. CASE LookedAgain
    <3>1. /\ req'.op = req.op /\ req'.bind = req.bind /\ req'.phase = req.phase /\ req'.new = req.new
          /\ req'.old = getById /\ req'.found = box[getById]
      BY <1>0, <2>8, LookedSets
    <3>2. "read" \in Todo /\ req # Rest /\ getById # 0
      BY <1>0, <2>8, DueAt DEF LookedAgain
    <3>3. getById \in Existing
      BY <3>2, GetById
    <3>4. req.new = 0
      BY <3>2 DEF Core, ReqInv, OldInv
    <3>5. Cardinality(Made') + Need' <= MaxMade
      <4>1. Need = 2 /\ Cardinality(Made) + Need <= MaxMade
        <5>1. req.phase # "revert" /\ req.op \notin {"none", "delete"}
          BY <2>8, <3>2 DEF Core, ReqInv, PhaseInv, LookedAgain
        <5> QED BY <1>0, <3>2, <5>1 DEF MadeInv, Need
      <4>2. Need' \in {0, 1, 2}
        BY DEF Need
      <4> QED BY <1>n, <2>1, <4>1, <4>2
    <3> QED BY <1>0, <2>1, <2>2, <3>1, <3>2, <3>3, <3>4, <3>5 DEF MadeInv
  <2>9. CASE Begun
    <3>1. getById # 0 /\ Cardinality(Made) + 2 <= MaxMade
      BY <2>9 DEF Begun
    <3>2. getById \in Existing /\ box[getById].ver # 0
      BY <1>0, <3>1, GetById DEF MadeInv
    <3>3. req'.new = 0 /\ req'.phase = "forward" /\ req'.old \in {0, getById}
      BY <1>0, <2>9, BegunSets
    <3>4. req'.op \notin {"none", "delete"} => req'.bind.ver # 0 /\ (req'.old # 0 => req'.found = box[getById])
      BY <1>0, <2>9, BegunSets
    <3>5. Cardinality(Made') + Need' <= MaxMade
      <4>1. Need' \in {0, 1, 2}
        BY DEF Need
      <4> QED BY <1>n, <2>1, <3>1, <4>1
    <3> QED BY <1>0, <2>1, <2>2, <3>1, <3>2, <3>3, <3>4, <3>5 DEF MadeInv
  <2>10. CASE req' = Rest
    <3>1. req'.op = "none" /\ req'.old = 0 /\ req'.new = 0
      BY <2>10, RestTypes
    <3> QED BY <2>2, <3>1 DEF MadeInv
  <2> QED BY <1>0, <2>1, <2>3, <2>4, <2>5, <2>6, <2>7, <2>8, <2>9, <2>10 DEF Move
<1> QED BY <1>1, <1>2, <1>3

\* What was built is there until it is undone (BuiltInv).
LEMMA MoveBuilt ==
    ASSUME Core, [Next]_vars
    PROVE  BuiltInv'
<1>0. Move /\ req \in Request /\ TypeInv /\ ListInv
  BY Moves DEF Core, TypeInv, Types
<1>1. CASE Building
  <2>1. Created /\ req'.new = Cardinality(Made) + 1
    BY <1>0, <1>1, CreatedKeeps DEF Building
  <2>2. req'.new \in Existing'
    BY <1>1, <2>1, Builds DEF Core
  <2> QED BY <2>2 DEF BuiltInv
<1>2. CASE ~Building
  <2>0. ~Created
    BY <1>2, Strangers
  <2>1. req.op # "delete" /\ Todo \cap Using # {} => "removeNew" \notin Todo
    BY <1>0 DEF ListInv, Using, Register, Undo, Cleanup, Request, Ops, Rolling, Swap, Answering
  <2>2. req.op = "rolling" /\ Todo \cap {"stop", "remove"} # {} => "removeNew" \notin Todo
    BY <1>0 DEF ListInv, Rolling
  <2>3. /\ req.op # "delete" /\ "create" \notin Todo /\ Todo \cap Using # {} => req.new \in Existing'
        /\ req.op = "rolling" /\ "create" \notin Todo /\ Todo \cap {"stop", "remove"} # {} => req.new \in Existing'
    BY <1>2, <2>1, <2>2, NewStays DEF Core, BuiltInv
  <2>4. CASE UNCHANGED <<mcp, req, last>>
    <3>1. Todo' = Todo /\ req' = req
      BY <2>4 DEF Todo
    <3> QED BY <2>3, <3>1 DEF BuiltInv
  <2>5. CASE Went
    <3>1. PICK s \in Calls : Gone(s) /\ s # "create"
      BY <2>5 DEF Went
    <3>2. req'.op = req.op /\ req'.new = req.new /\ Todo' = Todo \ {s}
      BY <1>0, <3>1, GoneKeeps DEF Kept, Gone
    <3> QED BY <2>3, <3>1, <3>2 DEF BuiltInv
  <2>6. CASE Failed
    <3>1. PICK s \in Calls : Threw(s)
      BY <2>6 DEF Failed
    <3>2. req'.op = req.op /\ req'.new = req.new
      BY <1>0, <3>1, ThrewKeeps DEF Kept
    <3>3. CASE Skipped(s)
      BY <3>2, <3>3 DEF Skipped, BuiltInv
    <3>4. CASE Looked(s)
      <4>1. "create" \notin Todo
        <5>1. req.op = "rolling" /\ \A p \in Order(req.op) : p[2] = s => p[1] \notin Todo
          BY <3>4 DEF Looked, Due
        <5>2. <<"start", "stop">> \in Order(req.op) /\ <<"stop", "remove">> \in Order(req.op)
          BY <5>1 DEF Order
        <5>3. <<"start", "stop">>[2] = "stop" /\ <<"start", "stop">>[1] = "start"
              /\ <<"stop", "remove">>[2] = "remove" /\ <<"stop", "remove">>[1] = "stop"
          OBVIOUS
        <5>4. "start" \notin Todo \/ "stop" \notin Todo
          BY <3>4, <5>1, <5>2, <5>3 DEF Looked
        <5> QED BY <5>1, <5>4 DEF Core, ReqInv, AheadInv
      <4>2. req.op = "rolling" /\ Todo \cap {"stop", "remove"} # {} /\ Todo' = {"look"}
        BY <3>4 DEF Looked, Due
      <4> QED BY <2>3, <3>2, <4>1, <4>2 DEF BuiltInv
    <3>5. CASE Quit(s)
      BY <3>5 DEF Quit, BuiltInv
    <3>6. CASE Undone(s)
      <4>1. Todo' \cap (Using \union {"stop", "remove"}) = {}
        BY <3>6 DEF Undone, Using, Register, Cleanup
      <4> QED BY <4>1 DEF BuiltInv
    <3> QED BY <3>1, <3>3, <3>4, <3>5, <3>6 DEF Threw
  <2>7. CASE Appended
    <3>1. req'.op = "delete"
      BY <1>0, <2>7, AppendedKeeps DEF Appended, Kept
    <3> QED BY <3>1 DEF BuiltInv
  <2>8. CASE Reverted
    <3>1. "create" \in Todo'
      BY <2>8 DEF Reverted, Renewing
    <3> QED BY <3>1 DEF BuiltInv
  <2>9. CASE LookedAgain
    <3>1. "create" \in Todo'
      BY <2>9 DEF LookedAgain, Renewing, Swapping, Rolling
    <3> QED BY <3>1 DEF BuiltInv
  <2>10. CASE Begun
    <3>1. req'.op = "delete" \/ Todo' = {"read"} \/ Todo' = {} \/ Todo' = Swap \ {"mounts", "inspect"}
      BY <1>0, <2>10, BegunSets
    <3>2. "create" \in Swap \ {"mounts", "inspect"} /\ {"read"} \cap (Using \union {"stop", "remove"}) = {}
      BY DEF Swap, Using, Register
    <3> QED BY <3>1, <3>2 DEF BuiltInv
  <2>11. CASE req' = Rest
    <3>1. Todo' = {}
      BY <2>11, RestTypes, Pieces DEF Todo
    <3> QED BY <3>1 DEF BuiltInv
  <2> QED BY <1>0, <2>0, <2>4, <2>5, <2>6, <2>7, <2>8, <2>9, <2>10, <2>11 DEF Move
<1> QED BY <1>1, <1>2

\* The sockets, the stores and the agent keep their types.
LEMMA StepTypes ==
    ASSUME Core, [Next]_vars
    PROVE  /\ sock' \in [of : 0..MaxMade, bind : Binding] /\ store' \in Binding /\ legacy' \in Binding
           /\ conn' \in 0..MaxMade
           /\ agent' \in [phase : {"up", "rebind", "sweep"}, rebind : {"ok", "failed"}, recover : SUBSET Ids]
<1> DEFINE Rest5 == /\ sock' \in [of : 0..MaxMade, bind : Binding] /\ store' \in Binding /\ legacy' \in Binding
                    /\ conn' \in 0..MaxMade
                    /\ agent' \in [phase : {"up", "rebind", "sweep"}, rebind : {"ok", "failed"}, recover : SUBSET Ids]
<1>0. /\ sock \in [of : 0..MaxMade, bind : Binding] /\ store \in Binding /\ legacy \in Binding
      /\ conn \in 0..MaxMade /\ req.bind \in Binding /\ req.new \in 0..MaxMade
      /\ agent \in [phase : {"up", "rebind", "sweep"}, rebind : {"ok", "failed"}, recover : SUBSET Ids]
      /\ NoBind \in Binding /\ 0 \in 0..MaxMade /\ Ids \subseteq 0..MaxMade
  BY RestTypes, BoundsAssumption DEF Core, TypeInv, Types, Request, Ids
<1>1. ASSUME UNCHANGED <<sock, store, legacy, conn, agent>> PROVE Rest5
  BY <1>0, <1>1
<1>2. ASSUME NEW d, Hangup(d), UNCHANGED <<sock, store, legacy, agent>> PROVE Rest5
  BY <1>0, <1>2 DEF Hangup
<1>3. CASE Requests
  BY <1>1, <1>3, BegunWhen DEF Core, Begun
<1>4. CASE \/ read \/ pullImage \/ mountsForMcpV3Upgrade \/ createAppContainer \/ startContainer
           \/ getInternalUrl \/ waitForHealthy \/ inspectContainer \/ look \/ removeVolume \/ revert \/ answer
           \/ UNCHANGED vars
  BY <1>1, <1>4 DEF read, pullImage, mountsForMcpV3Upgrade, createAppContainer, startContainer,
        getInternalUrl, waitForHealthy, inspectContainer, look, removeVolume, revert, answer, vars
<1>5. ASSUME NEW s, stopContainer(s) PROVE Rest5
  BY <1>1, <1>2, <1>5 DEF stopContainer
<1>6. ASSUME NEW s, removeContainer(s) PROVE Rest5
  BY <1>1, <1>2, <1>6 DEF removeContainer
<1>7. CASE persistStore \/ persistLegacy \/ rmDirectory \/ rmStore \/ closed
  BY <1>0, <1>7 DEF persistStore, persistLegacy, rmDirectory, rmStore, closed
<1>8. CASE registerSocket \/ close
  BY <1>0, <1>8 DEF registerSocket, close, Closed
<1>9. CASE dial \/ respond
  BY <1>0, <1>9 DEF dial, respond, Running
<1>10. ASSUME NEW d \in Ids, exits(d) PROVE Rest5
  BY <1>2, <1>10 DEF exits
<1>11. ASSUME NEW d \in Ids, recoverDesiredState(d) PROVE Rest5
  BY <1>0, <1>11 DEF recoverDesiredState
<1>12. ASSUME NEW host \in YesNo, dies(host) PROVE Rest5
  <2>1. agent' = [phase |-> "rebind", rebind |-> "ok",
                 recover |-> IF host = "yes" \/ agent.recover # {}
                             THEN {d \in Existing : box[d].want = "running"} ELSE {}]
    BY <1>12 DEF dies
  <2>2. {d \in Existing : box[d].want = "running"} \in SUBSET Ids /\ {} \in SUBSET Ids
    BY DEF Existing
  <2> QED BY <1>0, <1>12, <2>1, <2>2 DEF dies, Closed
<1>13. CASE rebindMcpBrokers
  <2>1. agent' \in [phase : {"up", "rebind", "sweep"}, rebind : {"ok", "failed"}, recover : SUBSET Ids]
    BY <1>0, <1>13 DEF rebindMcpBrokers
  <2>2. sock' \in [of : 0..MaxMade, bind : Binding] /\ store' \in Binding /\ legacy' \in Binding
    BY <1>0, <1>13 DEF rebindMcpBrokers, Restorable, Existing, readPersistedV3
  <2> QED BY <1>0, <1>13, <2>1, <2>2 DEF rebindMcpBrokers
<1>14. CASE sweepOrphanBrokerState
  BY <1>0, <1>14 DEF sweepOrphanBrokerState
<1> QED BY <1>3, <1>4, <1>5, <1>6, <1>7, <1>8, <1>9, <1>10, <1>11, <1>12, <1>13, <1>14 DEF Next, Steps

\* The histories.
LEMMA StepHistory ==
    ASSUME Core, [Next]_vars
    PROVE  /\ leaked' \subseteq Ids
           /\ spent' \in [mishaps : Nat, exits : Nat, reboots : Nat, requests : Nat, leaks : Nat, rebinds : Nat]
<1> DEFINE Both == /\ leaked' \subseteq Ids
                   /\ spent' \in [mishaps : Nat, exits : Nat, reboots : Nat, requests : Nat, leaks : Nat, rebinds : Nat]
<1>0. /\ leaked \subseteq Ids /\ req.old \in 0..MaxMade /\ req.new \in 0..MaxMade
      /\ spent \in [mishaps : Nat, exits : Nat, reboots : Nat, requests : Nat, leaks : Nat, rebinds : Nat]
      /\ Existing \subseteq Ids /\ \A d \in 0..MaxMade : d # 0 => d \in Ids
  BY BoundsAssumption DEF Core, TypeInv, Types, Request, Existing, Ids
<1> DEFINE Spent == [mishaps : Nat, exits : Nat, reboots : Nat, requests : Nat, leaks : Nat, rebinds : Nat]
<1>s. /\ \A t \in Spent : [t EXCEPT !.mishaps = @ + 1] \in Spent
      /\ \A t \in Spent : [t EXCEPT !.mishaps = @ + 1, !.leaks = @ + 1] \in Spent
      /\ \A t \in Spent : [t EXCEPT !.mishaps = @ + 1, !.exits = @ + 1] \in Spent
      /\ \A t \in Spent : [t EXCEPT !.mishaps = @ + 1, !.rebinds = @ + 1] \in Spent
      /\ \A t \in Spent, n \in Nat, m \in Nat : [t EXCEPT !.mishaps = @ + 1, !.reboots = m, !.leaks = @ + n] \in Spent
  <2>1. \A m \in Nat, n \in Nat : m + n \in Nat /\ 1 \in Nat
    OBVIOUS
  <2> QED BY <2>1
<1>r. spent \in Spent
  BY <1>0
<1>1. ASSUME UNCHANGED leaked, UNCHANGED spent \/ Refuses PROVE Both
  BY <1>0, <1>1 DEF Refuses
<1>2. ASSUME NEW d \in Ids, Leaves(d) PROVE Both
  <2>1. leaked' \subseteq Ids /\ spent' = [spent EXCEPT !.mishaps = @ + 1, !.leaks = @ + 1]
    BY <1>0, <1>2 DEF Leaves
  <2> HIDE DEF Spent
  <2>2. spent' \in Spent
    BY <1>r, <1>s, <2>1
  <2> QED BY <2>1, <2>2 DEF Spent
<1>3. CASE Requests
  <2>1. Begun
    BY <1>3, BegunWhen DEF Core
  <2>2. leaked' \in {leaked, Others(getById)}
    BY <2>1 DEF Begun, SwapBegun, ReconfigureBegun, DeleteBegun
  <2> QED BY <1>0, <2>1, <2>2 DEF Begun, Others
<1>4. CASE read
  BY <1>0, <1>4 DEF read, Others
<1>c. CASE createAppContainer
  <2>1. Due("create")
    BY <1>c, DueWhen DEF createAppContainer, Core
  <2>2. Cardinality(Made) + 1 \in Ids
    BY <2>1, MadeRoom DEF Core, ReqInv
  <2>3. (UNCHANGED leaked /\ (UNCHANGED spent \/ Refuses)) \/ Leaves(Cardinality(Made) + 1)
    BY <1>c DEF createAppContainer
  <2> QED BY <1>1, <1>2, <2>2, <2>3
<1>5. CASE \/ pullImage \/ mountsForMcpV3Upgrade \/ startContainer
           \/ getInternalUrl \/ waitForHealthy \/ inspectContainer \/ look \/ removeVolume \/ revert \/ answer
  BY <1>1, <1>5 DEF pullImage, mountsForMcpV3Upgrade, startContainer,
        getInternalUrl, waitForHealthy, inspectContainer, look, removeVolume, revert, answer
<1>6. CASE \/ persistStore \/ persistLegacy \/ rmDirectory \/ rmStore \/ closed \/ registerSocket \/ close
           \/ sweepOrphanBrokerState \/ dial \/ respond \/ UNCHANGED vars
  BY <1>1, <1>6 DEF persistStore, persistLegacy, rmDirectory, rmStore, closed, registerSocket, close,
        sweepOrphanBrokerState, dial, respond, vars
<1>7. ASSUME NEW s, stopContainer(s) PROVE Both
  <2>1. Target(s) \in 0..MaxMade
    BY <1>0 DEF Target
  <2>2. (UNCHANGED leaked /\ (UNCHANGED spent \/ Refuses)) \/ (Target(s) # 0 /\ Leaves(Target(s)))
    BY <1>7 DEF stopContainer
  <2> QED BY <1>0, <1>1, <1>2, <2>1, <2>2
<1>8. ASSUME NEW s, removeContainer(s) PROVE Both
  <2>1. Target(s) \in 0..MaxMade
    BY <1>0 DEF Target
  <2>2. (UNCHANGED leaked /\ (UNCHANGED spent \/ Refuses)) \/ (Target(s) # 0 /\ Leaves(Target(s)))
    BY <1>8 DEF removeContainer
  <2> QED BY <1>0, <1>1, <1>2, <2>1, <2>2
<1>9. ASSUME NEW d \in Ids, exits(d) \/ recoverDesiredState(d) PROVE Both
  <2>1. /\ leaked' \subseteq Ids
        /\ spent' = spent \/ spent' = [spent EXCEPT !.mishaps = @ + 1, !.exits = @ + 1]
    BY <1>0, <1>9 DEF exits, recoverDesiredState
  <2> HIDE DEF Spent
  <2>2. spent' \in Spent
    BY <1>r, <1>s, <2>1
  <2> QED BY <2>1, <2>2 DEF Spent
<1>10. ASSUME NEW host \in YesNo, dies(host) PROVE Both
  <2>1. Cardinality({req.old, req.new} \intersect Existing) \in Nat
    <3>1. {req.old, req.new} \intersect Existing \in SUBSET Existing
      OBVIOUS
    <3>2. IsFiniteSet({req.old, req.new} \intersect Existing)
      BY <3>1, MadeFinite, FS_Subset
    <3> QED BY <3>2, FS_CardinalityType
  <2> DEFINE n == Cardinality({req.old, req.new} \intersect Existing)
  <2>2. spent' = [spent EXCEPT !.mishaps = @ + 1, !.reboots = IF host = "yes" THEN @ + 1 ELSE @, !.leaks = @ + n]
    BY <1>10 DEF dies
  <2>3. leaked' \subseteq Ids
    BY <1>0, <1>10 DEF dies
  <2>4. n \in Nat
    BY <2>1
  <2>5. PICK m \in Nat : spent' = [spent EXCEPT !.mishaps = @ + 1, !.reboots = m, !.leaks = @ + n]
    <3>1. (IF host = "yes" THEN spent.reboots + 1 ELSE spent.reboots) \in Nat
      BY <1>0
    <3> QED BY <2>2, <3>1
  <2> HIDE DEF n, Spent
  <2>6. spent' \in Spent
    BY <1>r, <1>s, <2>4, <2>5
  <2> QED BY <2>3, <2>6 DEF Spent
<1>11. CASE rebindMcpBrokers
  <2>1. /\ leaked' \subseteq Ids
        /\ spent' = spent \/ spent' = [spent EXCEPT !.mishaps = @ + 1, !.rebinds = @ + 1]
    BY <1>0, <1>11 DEF rebindMcpBrokers
  <2> HIDE DEF Spent
  <2>2. spent' \in Spent
    BY <1>r, <1>s, <2>1
  <2> QED BY <2>1, <2>2 DEF Spent
<1> QED BY <1>3, <1>4, <1>c, <1>5, <1>6, <1>7, <1>8, <1>9, <1>10, <1>11 DEF Next, Steps

\* The last answer keeps its type.
LEMMA StepLast ==
    ASSUME Core, [Next]_vars
    PROVE  last' \in Answer /\ (req' # Rest => agent'.phase = "up")
<1>0. Move /\ last \in Answer /\ req \in Request /\ (req # Rest => agent.phase = "up")
  BY Moves DEF Core, TypeInv, Types
<1>1. CASE UNCHANGED <<mcp, req, last>> /\ (UNCHANGED agent.phase \/ req = Rest)
  BY <1>0, <1>1
<1>2. CASE UNCHANGED <<mcp, agent, last>> /\ (Went \/ Failed \/ Appended \/ Created \/ Reverted \/ LookedAgain)
  <2>1. agent.phase = "up"
    BY <1>2 DEF Went, Failed, Appended, Created, Reverted, LookedAgain, Gone, Threw, Skipped, Looked, Quit,
          Undone, Due, At
  <2> QED BY <1>0, <1>2, <2>1
<1>3. CASE Begun
  BY <1>3, RestTypes DEF Begun
<1>4. CASE req' = Rest /\ (last' = last \/ answer)
  <2>1. answer => last' \in Answer
    BY <1>0 DEF answer, Answer, Request, Ops
  <2> QED BY <1>0, <1>4, <2>1
<1> QED BY <1>0, <1>1, <1>2, <1>3, <1>4 DEF Move

\* Every initial state satisfies the core invariant.
LEMMA CoreInit == Init => Core
<1> SUFFICES ASSUME Init PROVE Core
  OBVIOUS
<1>1. PICK a \in Apps : mcp = a.mcp
        /\ box = [d \in Ids |-> IF d # 1 THEN NoBox
                   ELSE [st |-> "running", ver |-> 1, epoch |-> IF mcp = "yes" THEN 1 ELSE 0,
                         vol |-> a.vol, sec |-> a.sec, want |-> "running"]]
  BY DEF Init
<1>2. a.mcp \in YesNo /\ a.vol \in YesNo /\ a.sec \in YesNo
  BY AppsAssumption DEF YesNo
<1>3. 1 \in Ids /\ 1 \in 0..MaxVer /\ 0 \in 0..MaxEpoch /\ 1 \in 0..MaxEpoch /\ 0 \in 0..MaxMade /\ 1 \in 0..MaxMade
  BY BoundsAssumption DEF Ids
<1>4. box[1] = [st |-> "running", ver |-> 1, epoch |-> IF mcp = "yes" THEN 1 ELSE 0,
                vol |-> a.vol, sec |-> a.sec, want |-> "running"] /\ \A d \in Ids \ {1} : box[d] = NoBox
  BY <1>1, <1>3
<1>5. box[1] \in Box
  BY <1>2, <1>3, <1>4 DEF Box, YesNo
<1>6. box \in [Ids -> Box]
  BY <1>1, <1>4, <1>5, RestTypes
<1>7. Labels(1) \in Binding
  BY <1>3, <1>4 DEF Labels, Binding
<1>8. sock \in [of : 0..MaxMade, bind : Binding] /\ store \in Binding /\ legacy \in Binding
  BY <1>3, <1>7, RestTypes DEF Init, Closed
<1>9. last \in Answer
  <2>1. last = [NoAnswer EXCEPT !.op = "deploy", !.res = "ok", !.box = 1, !.found = box[1]]
    BY DEF Init
  <2>2. NoAnswer \in Answer /\ 1 \in 0..MaxMade
    BY <1>3, RestTypes
  <2> QED BY <1>5, <2>1, <2>2 DEF Answer
<1>10. Todo = {} /\ IsList(req.todo, req.op) /\ req = Rest /\ req.op = "none"
  BY RestTypes, Pieces DEF Init, Todo
<1>11. Types
  <2>1. spent \in [mishaps : Nat, exits : Nat, reboots : Nat, requests : Nat, leaks : Nat, rebinds : Nat]
    BY DEF Init
  <2>2. agent \in [phase : {"up", "rebind", "sweep"}, rebind : {"ok", "failed"}, recover : SUBSET Ids] /\ agent.phase = "up"
    BY DEF Init
  <2>3. conn \in 0..MaxMade /\ leaked \subseteq Ids /\ req = Rest
    BY <1>3 DEF Init
  <2> QED BY <1>1, <1>2, <1>6, <1>8, <1>9, <2>1, <2>2, <2>3, RestTypes DEF Types
<1>12. ListInv
  BY <1>10 DEF ListInv
<1>13. ReqInv
  <2>1. req.res = "ok" /\ req.phase = "forward" /\ req.vol = "no" /\ req.new = 0 /\ req.old = 0
    BY <1>10 DEF Rest
  <2> QED BY <1>10, <2>1 DEF ReqInv, OldInv, PhaseInv, AheadInv
<1>14. MadeInv
  <2>1. Made = {1} /\ Existing = {1}
    BY <1>3, <1>4 DEF Made, Existing, Exists, NoBox
  <2>2. Cardinality({1}) = 1 /\ 1..1 = {1}
    BY FS_Singleton
  <2>3. req.new = 0 /\ req.old = 0 /\ box[1].ver # 0
    BY <1>4, <1>10 DEF Rest
  <2> QED BY <1>10, <2>1, <2>2, <2>3 DEF MadeInv
<1>15. BuiltInv
  BY <1>10 DEF BuiltInv
<1> QED BY <1>11, <1>12, <1>13, <1>14, <1>15 DEF Core, TypeInv

\* Every step keeps the core invariant.
LEMMA CoreNext == Core /\ [Next]_vars => Core'
<1> SUFFICES ASSUME Core, [Next]_vars PROVE Core'
  OBVIOUS
<1>0. TypeInv /\ OldInv /\ PhaseInv /\ AheadInv /\ Move
  BY Moves DEF Core, ReqInv
<1>1. ListInv'
  BY <1>0, MoveList
<1>2. "create" \in Todo => Cardinality(Made) + 1 \in 0..MaxMade
  <2>1. ASSUME "create" \in Todo PROVE req.op \notin {"none", "delete"} /\ req.new = 0 /\ Todo # {}
    BY <1>0, <2>1 DEF TypeInv, ListInv, Cleanup, AheadInv
  <2>2. ASSUME "create" \in Todo PROVE Cardinality(Made) + Need <= MaxMade /\ Need \in {1, 2}
    BY <2>1, <2>2 DEF Core, MadeInv, Need
  <2> QED BY <2>2, MadeFinite, BoundsAssumption
<1>3. req' \in Request /\ (req'.op = "none" => req' = Rest) /\ (req'.phase = "revert" => req'.op = "upgrade") /\ mcp' = mcp
  BY <1>0, <1>2, MoveRequest
<1>4. box' \in [Ids -> Box]
  BY BoxMoves DEF Core
<1>5. Types'
  <2>1. mcp \in YesNo
    BY DEF Core, TypeInv, Types
  <2> QED BY <1>3, <1>4, <2>1, StepTypes, StepHistory, StepLast DEF Types
<1>6. ReqInv'
  BY <1>0, MoveOld, MovePhase, MoveAhead DEF ReqInv
<1>7. MadeInv' /\ BuiltInv'
  BY MoveMade, MoveBuilt
<1> QED BY <1>1, <1>5, <1>6, <1>7 DEF Core, TypeInv

\* The state is what its declarations say, in every reachable state (services/lifecycle-service.ts).
THEOREM TypeCorrect == Spec => []TypeOK
<1>1. Core => TypeOK
  BY DEF Core, TypeInv, Types, TypeOK, Request, Answer, Ops
<1> QED BY <1>1, CoreInit, CoreNext, PTL DEF Spec

-----------------------------------------------------------------------------
(* What an answer promises of the container it names.                       *)

\* What the new container is made of, and what it is not allowed to lose.
NewInv ==
    /\ req.new # 0 /\ req.new \in Existing =>
         /\ Labels(req.new) = req.bind
         /\ req.phase = "revert" => box[req.new].ver = req.found.ver /\ box[req.new].vol = req.found.vol
         /\ req.phase = "forward" => box[req.new].vol = (IF req.op = "rolling" THEN "no" ELSE req.vol)
         /\ box[req.new].sec = (IF req.op \in {"rolling", "swap"} THEN "no" ELSE req.sec)
    /\ req.phase = "revert" => req.bind.ver = req.found.ver
    /\ req.old # 0 =>
         /\ req.found.vol = "yes" /\ req.op \notin {"rolling", "delete"} => req.vol = "yes"
         /\ req.op = "swap" => req.vol = req.found.vol
         /\ req.found.sec = "yes" /\ req.op # "delete" => req.op \in {"upgrade", "reconfigure"} /\ req.sec = "yes"

\* The containers of a raw app all have a data volume, or none has.
VolumeInv ==
    mcp = "no" =>
      /\ \A d, e \in Existing : box[d].vol = box[e].vol
      /\ req.old # 0 => \A d \in Existing : box[d].vol = req.found.vol
      /\ req.op = "rolling" => \A d \in Existing : box[d].vol = "no"
      /\ req.op = "rolling" /\ req.old # 0 => req.found.vol = "no"

HeldInv == NewInv /\ VolumeInv /\ AnswerHolds

\* The new container stays what the request asked for (NewInv).
LEMMA MoveNew ==
    ASSUME Core, NewInv, [Next]_vars
    PROVE  NewInv'
<1>0. Move /\ req \in Request /\ TypeInv /\ req.op \in Ops /\ req.phase \in {"forward", "revert"}
  BY Moves DEF Core, TypeInv, Types, Request
<1>1. CASE Building
  <2> DEFINE n == Cardinality(Made) + 1
  <2>1. Created
    BY <1>1 DEF Building
  <2>2. Kept /\ req'.new = n
    BY <1>0, <2>1, CreatedKeeps
  <2>3. box'[n] = NewBox
    BY <1>1, Builds DEF Core
  <2>4. /\ NewBox.ver = req.bind.ver /\ NewBox.epoch = req.bind.epoch
        /\ NewBox.vol = (IF req.phase = "revert" THEN req.found.vol ELSE IF req.op = "rolling" THEN "no" ELSE req.vol)
        /\ NewBox.sec = (IF req.op \in {"rolling", "swap"} THEN "no" ELSE req.sec)
    BY DEF NewBox
  <2>5. [ver |-> box'[n].ver, epoch |-> box'[n].epoch] = req.bind
    BY <1>0, <2>3, <2>4 DEF Request, Binding
  <2> HIDE DEF n, NewBox
  <2> QED BY <1>0, <2>2, <2>3, <2>4, <2>5 DEF NewInv, Kept, Labels
<1>2. CASE ~Building
  <2>1. ~Created /\ (req.new \in Existing' => req.new \in Existing /\ Same(req.new))
    BY <1>2, Strangers
  <2>k. ASSUME Kept, req'.new = req.new PROVE NewInv'
    BY <2>k, <2>1 DEF NewInv, Kept, Same, Labels
  <2>3. CASE UNCHANGED <<mcp, req, last>>
    BY <2>3, <2>k DEF Kept
  <2>4. CASE Went
    BY <1>0, <2>4, <2>k, GoneKeeps DEF Went
  <2>5. CASE Failed
    BY <1>0, <2>5, <2>k, ThrewKeeps DEF Failed
  <2>6. CASE Appended
    BY <1>0, <2>6, <2>k, AppendedKeeps
  <2>7. CASE Reverted
    <3>1. /\ req'.op = "upgrade" /\ req'.old = req.old /\ req'.found = req.found /\ req'.phase = "revert" /\ req'.new = 0
          /\ req'.vol = req.vol /\ req'.sec = req.sec /\ req'.bind = [req.bind EXCEPT !.ver = req.found.ver]
      BY <1>0, <2>7, RevertedSets
    <3>2. req.op = "upgrade" /\ req'.bind.ver = req.found.ver
      BY <1>0, <2>7, <3>1 DEF Reverted, Request, Binding
    <3> QED BY <3>1, <3>2 DEF NewInv
  <2>8. CASE LookedAgain
    <3>1. /\ req'.op = req.op /\ req'.sec = req.sec /\ req'.phase = req.phase /\ req'.new = req.new
          /\ req'.old = getById /\ req'.found = box[getById]
          /\ req'.vol = IF req.op = "upgrade" /\ box[getById].vol = "no" THEN req.vol ELSE box[getById].vol
      BY <1>0, <2>8, LookedSets
    <3>2. "read" \in Todo /\ req # Rest /\ getById # 0 /\ assertRawRedeployAllowed(box[getById], req)
          /\ req.op \in {"rolling", "swap", "upgrade"}
      BY <1>0, <2>8, DueAt DEF LookedAgain
    <3>3. req.new = 0 /\ req.phase = "forward"
      BY <3>2 DEF Core, ReqInv, OldInv
    <3>4. box[getById].sec \in YesNo
      BY <1>0, <3>2, TypedGet DEF TypeInv, Box
    <3> QED BY <3>1, <3>2, <3>3, <3>4 DEF NewInv, assertRawRedeployAllowed, YesNo
  <2>9. CASE Begun
    <3>1. req'.new = 0 /\ req'.phase = "forward"
      BY <1>0, <2>9, BegunSets
    <3>2. \/ req'.old = 0
          \/ req'.op = "delete"
          \/ /\ req'.op = "reconfigure" /\ req'.found = box[getById] /\ req'.vol = box[getById].vol
             /\ req'.sec = box[getById].sec
      BY <1>0, <2>9, BegunSets
    <3> QED BY <3>1, <3>2 DEF NewInv
  <2>10. CASE req' = Rest
    <3>1. req'.old = 0 /\ req'.new = 0 /\ req'.phase = "forward"
      BY <2>10, RestTypes
    <3> QED BY <3>1 DEF NewInv
  <2> QED BY <1>0, <2>1, <2>3, <2>4, <2>5, <2>6, <2>7, <2>8, <2>9, <2>10 DEF Move
<1> QED BY <1>1, <1>2

\* What a request keeps of the data volume and the secrets.
LEMMA MoveVolume ==
    ASSUME Core, NewInv, VolumeInv, [Next]_vars
    PROVE  VolumeInv'
<1> SUFFICES ASSUME mcp' = "no" PROVE VolumeInv'
  BY DEF VolumeInv
<1>0. Move /\ req \in Request /\ TypeInv /\ req.op \in Ops /\ req.phase \in {"forward", "revert"} /\ mcp = "no"
  <2>1. Move /\ mcp' = mcp
    BY Moves DEF Core, Move, Begun
  <2> QED BY <2>1 DEF Core, TypeInv, Types, Request
<1>i. /\ \A d, e \in Existing : box[d].vol = box[e].vol
      /\ req.old # 0 => \A d \in Existing : box[d].vol = req.found.vol
      /\ req.op = "rolling" => \A d \in Existing : box[d].vol = "no"
      /\ req.op = "rolling" /\ req.old # 0 => req.found.vol = "no"
  BY <1>0 DEF VolumeInv
<1>m. ASSUME Due("create"), req # Rest
      PROVE  req.op \in {"rolling", "swap"} /\ req.old # 0 /\ req.phase = "forward"
  <2>1. req.op \notin {"none", "delete", "upgrade", "reconfigure"}
    BY <1>0, <1>m, MadeRoom DEF Core, ReqInv, OldInv
  <2>2. req.phase # "revert" /\ req.old # 0
    BY <1>m, <2>1 DEF Core, ReqInv, OldInv, TypeInv, Types, Due
  <2> QED BY <1>0, <2>1, <2>2 DEF Ops
<1>1. CASE Building
  <2> DEFINE n == Cardinality(Made) + 1
  <2>1. Created
    BY <1>1 DEF Building
  <2>2. Kept /\ req'.new = n /\ Due("create") /\ req # Rest
    BY <1>0, <2>1, CreatedKeeps, DueAt DEF Created
  <2>3. box'[n] = NewBox /\ Existing' = Existing \union {n} /\ (\A d \in Existing : Same(d))
    BY <1>1, Builds DEF Core
  <2>4. req.op \in {"rolling", "swap"} /\ req.old # 0 /\ req.phase = "forward"
    BY <1>m, <2>2
  <2>5. NewBox.vol = req.found.vol
    BY <1>i, <2>4 DEF NewBox, NewInv
  <2> HIDE DEF n, NewBox
  <2>6. \A d \in Existing' : box'[d].vol = req.found.vol
    BY <1>i, <2>3, <2>4, <2>5 DEF Same
  <2> QED BY <1>i, <2>2, <2>4, <2>6 DEF VolumeInv, Kept
<1>2. CASE Orphaning
  <2> DEFINE n == Cardinality(Made) + 1
  <2>1. Kept /\ Due("create") /\ req # Rest
    BY <1>0, <1>2, ThrewKeeps, DueAt DEF Orphaning, Calls
  <2>2. box'[n] = Orphan /\ Existing' = Existing \union {n} /\ (\A d \in Existing : Same(d))
    BY <1>2, Orphans DEF Core
  <2>3. req.op \in {"rolling", "swap"} /\ req.old # 0 /\ req.phase = "forward"
    BY <1>m, <2>1
  <2>4. Orphan.vol = req.found.vol
    BY <1>i, <2>3 DEF Orphan, NewBox, NewInv
  <2> HIDE DEF n, Orphan
  <2>5. \A d \in Existing' : box'[d].vol = req.found.vol
    BY <1>i, <2>2, <2>3, <2>4 DEF Same
  <2> QED BY <1>i, <2>1, <2>3, <2>5 DEF VolumeInv, Kept
<1>3. CASE ~Building /\ ~Orphaning
  <2>1. ~Created /\ Existing' \subseteq Existing /\ \A d \in Existing' : Same(d)
    BY <1>3, Stays
  <2>v. \A d \in Existing' : d \in Existing /\ box'[d].vol = box[d].vol
    BY <2>1 DEF Same
  <2>k. ASSUME Kept PROVE VolumeInv'
    BY <1>i, <2>k, <2>v DEF VolumeInv, Kept
  <2>3. CASE UNCHANGED <<mcp, req, last>>
    BY <2>3, <2>k DEF Kept
  <2>4. CASE Went
    BY <1>0, <2>4, <2>k, GoneKeeps DEF Went
  <2>5. CASE Failed
    BY <1>0, <2>5, <2>k, ThrewKeeps DEF Failed
  <2>6. CASE Appended
    BY <1>0, <2>6, <2>k, AppendedKeeps
  <2>7. CASE Reverted
    <3>1. req.op = "upgrade"
      BY <2>7 DEF Reverted
    <3> QED BY <1>0, <3>1 DEF Core, ReqInv, OldInv
  <2>8. CASE LookedAgain
    <3>1. req'.op = req.op /\ req'.old = getById /\ req'.found = box[getById]
      BY <1>0, <2>8, LookedSets
    <3>2. getById \in Existing
      BY <2>8, GetById DEF LookedAgain
    <3> QED BY <1>i, <2>v, <3>1, <3>2 DEF VolumeInv
  <2>9. CASE Begun
    <3>1. \/ req'.old = 0 /\ (req'.op = "rolling" => box[getById].vol = "no")
          \/ req'.op # "rolling" /\ req'.found = box[getById]
      BY <1>0, <2>9, BegunSets
    <3>2. getById \in Existing
      BY <2>9, GetById DEF Begun
    <3> QED BY <1>i, <2>v, <3>1, <3>2 DEF VolumeInv
  <2>10. CASE req' = Rest
    <3>1. req'.old = 0 /\ req'.op = "none"
      BY <2>10, RestTypes
    <3> QED BY <1>i, <2>v, <3>1 DEF VolumeInv
  <2> QED BY <1>0, <2>1, <2>3, <2>4, <2>5, <2>6, <2>7, <2>8, <2>9, <2>10 DEF Move
<1> QED BY <1>1, <1>2, <1>3

\* What an answer says was kept, was kept.
LEMMA MoveAnswer ==
    ASSUME Core, HeldInv, [Next]_vars
    PROVE  AnswerHolds'
<1>0. Move /\ req \in Request /\ TypeInv /\ last \in Answer /\ OldInv /\ 0 \notin Existing
  <2>1. 0 \notin Existing
    BY BoundsAssumption DEF Existing, Ids
  <2> QED BY <2>1, Moves DEF Core, TypeInv, Types, ReqInv
<1>n. ASSUME last' = NoAnswer PROVE AnswerHolds'
  <2>1. last'.res = "none"
    BY <1>n DEF NoAnswer
  <2> QED BY <2>1 DEF AnswerHolds, KeepsItsOwn, RecoveredIsPrevious
<1>1. CASE last' = last /\ req # Rest
  BY <1>0, <1>1, <1>n DEF OldInv
<1>2. CASE last' = last /\ req = Rest
  <2>1. ~Building /\ ~Orphaning
    <3>1. Due("create") => req # Rest
      BY <1>0, DueAt
    <3> QED BY <1>2, <3>1 DEF Building, Created, Orphaning
  <2>2. Existing' \subseteq Existing /\ \A d \in Existing' : Same(d)
    BY <2>1, Stays
  <2> QED BY <1>2, <2>2 DEF HeldInv, AnswerHolds, KeepsItsOwn, RecoveredIsPrevious, Same
<1>3. CASE answer
  <2>1. /\ last'.op = req.op /\ last'.res = req.res /\ last'.found = req.found /\ last'.box = req.new
        /\ box' = box /\ req # Rest /\ Existing' = Existing
    BY <1>3 DEF answer, Existing, Exists
  <2>2. SUFFICES ASSUME req.new \in Existing PROVE AnswerHolds'
    BY <2>1 DEF AnswerHolds, KeepsItsOwn, RecoveredIsPrevious
  <2>3. /\ req.new # 0 /\ req.old # 0 /\ req.op # "delete" /\ req.op # "none"
        /\ req.op = "rolling" => mcp = "no"
        /\ req.phase \in {"forward", "revert"} /\ req.op \in Ops
    BY <1>0, <2>1, <2>2 DEF OldInv, TypeInv, Types, Request, YesNo
  <2>4. /\ req.res \in {"recovered", "unrecovered"} => req.phase = "revert"
        /\ req.phase = "revert" => req.op = "upgrade"
    BY DEF Core, ReqInv, PhaseInv, TypeInv, Types
  <2>5. req.found.vol = "yes" => box[req.new].vol = "yes"
    <3>1. req.op = "rolling" => req.found.vol = "no"
      BY <2>3 DEF HeldInv, VolumeInv
    <3> QED BY <2>2, <2>3, <2>4, <3>1 DEF HeldInv, NewInv
  <2>6. req.found.sec = "yes" => box[req.new].sec = "yes"
    BY <2>2, <2>3 DEF HeldInv, NewInv
  <2>7. req.res = "recovered" => box[req.new].ver = req.found.ver /\ box[req.new].vol = req.found.vol
    BY <2>2, <2>3, <2>4 DEF HeldInv, NewInv
  <2> QED BY <2>1, <2>5, <2>6, <2>7 DEF AnswerHolds, KeepsItsOwn, RecoveredIsPrevious
<1> QED BY <1>0, <1>n, <1>1, <1>2, <1>3 DEF Move, Begun

\* Every initial state satisfies HeldInv.
LEMMA HeldInit == Init => HeldInv
<1> SUFFICES ASSUME Init PROVE HeldInv
  OBVIOUS
<1>1. req.old = 0 /\ req.new = 0 /\ req.phase = "forward" /\ req.op = "none"
  BY DEF Init, Rest
<1>2. NewInv
  BY <1>1 DEF NewInv
<1>3. 1 \in Ids /\ \A d \in Ids : d # 1 => box[d].st = "none"
  BY BoundsAssumption DEF Init, NoBox, Ids
<1>4. \A d \in Existing : d = 1
  BY <1>3 DEF Existing, Exists
<1>5. VolumeInv
  BY <1>1, <1>4 DEF VolumeInv
<1>6. last.res = "ok" /\ last.found = box[1] /\ last.box = 1
  BY DEF Init, NoAnswer
<1>7. AnswerHolds
  BY <1>6 DEF AnswerHolds, KeepsItsOwn, RecoveredIsPrevious
<1> QED BY <1>2, <1>5, <1>7 DEF HeldInv

\* A swap answered with ok or recovered kept the data volume and the secrets.
THEOREM AnswersHold == Spec => []AnswerHolds
<1>1. Core /\ HeldInv /\ [Next]_vars => HeldInv'
  BY MoveNew, MoveVolume, MoveAnswer DEF HeldInv
<1>2. HeldInv => AnswerHolds
  BY DEF HeldInv
<1> QED BY <1>1, <1>2, CoreInit, CoreNext, HeldInit, PTL DEF Spec

-----------------------------------------------------------------------------
(* The way back is not blocked by what the failed attempt left on disk.     *)

\* What the failed attempt left on disk is gone when the way back registers.
RevertInv ==
    /\ req.phase = "forward" => req.blame = "none"
    /\ req.blame \notin Register
    /\ "again" \in Todo => /\ "rmstore" \notin Todo => store = NoBind
                           /\ "rmdir" \notin Todo => legacy = NoBind
    /\ req.phase = "revert" => /\ "store" \in Todo => store = NoBind
                               /\ "legacy" \in Todo => legacy = NoBind
    /\ last.blame \notin Register

\* Within a request only its own call writes a copy of the binding.
LEMMA StoreMoves ==
    ASSUME Core, [Next]_vars, req' # Rest
    PROVE  /\ store' \in {store, NoBind} \/ Gone("store")
           /\ legacy' \in {legacy, NoBind} \/ Gone("legacy")
<1> DEFINE Written == /\ store' \in {store, NoBind} \/ Gone("store")
                      /\ legacy' \in {legacy, NoBind} \/ Gone("legacy")
<1>1. ASSUME UNCHANGED <<store, legacy>> PROVE Written
  BY <1>1
<1>2. CASE UNCHANGED vars \/ dial \/ respond
  BY <1>1, <1>2 DEF vars, dial, respond
<1>3. CASE Requests
  BY <1>1, <1>3, BegunWhen DEF Core, Begun
<1>4. CASE \/ read \/ pullImage \/ mountsForMcpV3Upgrade \/ createAppContainer \/ startContainer
           \/ getInternalUrl \/ waitForHealthy \/ inspectContainer \/ look \/ removeVolume \/ revert \/ answer
           \/ registerSocket \/ close \/ closed
  BY <1>1, <1>4 DEF read, pullImage, mountsForMcpV3Upgrade, createAppContainer, startContainer,
        getInternalUrl, waitForHealthy, inspectContainer, look, removeVolume, revert, answer, registerSocket,
        close, closed
<1>5. ASSUME NEW s, stopContainer(s) \/ removeContainer(s) PROVE Written
  BY <1>1, <1>5 DEF stopContainer, removeContainer
<1>6. ASSUME NEW d \in Ids, exits(d) \/ recoverDesiredState(d) PROVE Written
  BY <1>1, <1>6 DEF exits, recoverDesiredState
<1>7. ASSUME NEW host \in YesNo, dies(host) PROVE Written
  BY <1>7 DEF dies
<1>8. CASE rmDirectory \/ rmStore
  BY <1>8 DEF rmDirectory, rmStore
<1>9. CASE rebindMcpBrokers \/ sweepOrphanBrokerState
  <2>1. agent.phase # "up" /\ req' = req
    BY <1>9 DEF rebindMcpBrokers, sweepOrphanBrokerState
  <2> QED BY <2>1 DEF Core, TypeInv, Types
<1>10. CASE persistStore
  <2>1. store = NoBind => Gone("store")
    BY <1>10, GoneWhen DEF persistStore, Persists, Core
  <2> QED BY <1>10, <2>1 DEF persistStore
<1>11. CASE persistLegacy
  <2>1. legacy = NoBind => Gone("legacy")
    BY <1>11, GoneWhen DEF persistLegacy, Persists, Core
  <2> QED BY <1>11, <2>1 DEF persistLegacy
<1> QED BY <1>2, <1>3, <1>4, <1>5, <1>6, <1>7, <1>8, <1>9, <1>10, <1>11 DEF Next, Steps

\* Every step keeps RevertInv.
LEMMA MoveRevert ==
    ASSUME Core, RevertInv, [Next]_vars
    PROVE  RevertInv'
<1>0. Move /\ req \in Request /\ TypeInv /\ ListInv /\ PhaseInv
  BY Moves DEF Core, TypeInv, Types, ReqInv
<1>u. "again" \in Todo => Todo \subseteq Undo /\ req.op = "upgrade"
  BY <1>0 DEF ListInv, Request, Ops, Rolling, Answering, Swap, Cleanup, Register
<1>a. last'.blame = last.blame \/ last' = NoAnswer \/ answer
  BY <1>0 DEF Move, Begun
<1>b. last'.blame \notin Register
  BY <1>a DEF answer, RevertInv, NoAnswer, Register
<1>s. ASSUME req' # Rest
      PROVE  /\ store = NoBind => store' = NoBind \/ Gone("store")
             /\ legacy = NoBind => legacy' = NoBind \/ Gone("legacy")
  BY <1>s, StoreMoves
<1>3. CASE UNCHANGED <<mcp, req, last>>
  <2>1. Todo' = Todo /\ ~Gone("store") /\ ~Gone("legacy")
    BY <1>0, <1>3, GoneActs DEF Todo, Calls
  <2>2. CASE req = Rest
    <3>1. Todo' = {} /\ req'.blame = "none" /\ req'.phase = "forward"
      BY <1>0, <1>3, <2>1, <2>2 DEF ListInv, Rest
    <3> QED BY <1>b, <3>1 DEF RevertInv, Register
  <2> QED BY <1>3, <1>b, <1>s, <2>1, <2>2 DEF RevertInv
<1>4. CASE Went
  <2>1. PICK s \in Calls : Gone(s)
    BY <1>4 DEF Went
  <2>2. Kept /\ req'.blame = req.blame /\ Todo' = Todo \ {s} /\ req' # Rest /\ req' # req /\ At(s)
    BY <1>0, <2>1, GoneKeeps, GoneActs DEF Gone
  <2>3. /\ Gone("store") => s = "store"
        /\ Gone("legacy") => s = "legacy"
    BY <2>1 DEF Gone, Due, At
  <2>4. /\ s = "rmstore" => store' = NoBind
        /\ s = "rmdir" => legacy' = NoBind
    BY <2>2, Acts DEF rmStore, rmDirectory
  <2>5. "again" \in Todo' => "store" \notin Todo /\ "legacy" \notin Todo
    BY <1>u, <2>2 DEF Undo, Cleanup
  <2>6. s \in {"store", "legacy"} => "again" \notin Todo'
    BY <2>1, <2>5 DEF Gone, Due
  <2>7. "again" \in Todo' => /\ "rmstore" \notin Todo' => store' = NoBind
                             /\ "rmdir" \notin Todo' => legacy' = NoBind
    BY <1>s, <2>2, <2>3, <2>4, <2>6 DEF RevertInv
  <2>8. req'.phase = "revert" => /\ "store" \in Todo' => store' = NoBind
                                 /\ "legacy" \in Todo' => legacy' = NoBind
    BY <1>s, <2>2, <2>3 DEF RevertInv, Kept
  <2> QED BY <1>b, <2>2, <2>7, <2>8 DEF RevertInv, Kept
<1>5. CASE Failed
  <2>1. PICK s \in Calls : /\ Threw(s) /\ s \notin Cleanup \union {"stopNew", "removeNew", "again", "bind"}
                           /\ s = "store" => store \notin {NoBind, req.bind}
                           /\ s = "legacy" => legacy \notin {NoBind, req.bind}
    BY <1>5 DEF Failed
  <2>2. Kept /\ s \in Todo
    BY <1>0, <2>1, ThrewKeeps DEF Threw, Skipped, Looked, Quit, Undone, Due
  <2>3. req.phase = "revert" => s \notin Register
    BY <2>1, <2>2 DEF RevertInv, Register
  <2>4. req'.blame = req.blame \/ (req'.blame = s /\ req.phase = "revert")
    BY <1>0, <2>1, ThrewSets
  <2>5. "again" \notin Todo
    BY <1>u, <2>1, <2>2 DEF Undo
  <2>6. ~Gone("store") \/ s = "store"
    BY <2>1 DEF Gone, Threw, Skipped, Looked, Quit, Undone, Due, At
  <2>7. ~Gone("legacy") \/ s = "legacy"
    BY <2>1 DEF Gone, Threw, Skipped, Looked, Quit, Undone, Due, At
  <2>8. req' # Rest
    BY <1>0, <2>2, RestTypes DEF Kept, ListInv
  <2>9. \/ "again" \notin Todo'
        \/ "rmstore" \in Todo' /\ "rmdir" \in Todo'
    <3>1. CASE Skipped(s) \/ Looked(s) \/ Quit(s)
      <4>1. Todo' = Todo \ {s} \/ Todo' = {"look"} \/ Todo' = {}
        <5>1. Skipped(s) => Todo' = Todo \ {s}
          BY DEF Skipped
        <5>2. Looked(s) => Todo' = {"look"}
          BY DEF Looked
        <5>3. Quit(s) => Todo' = {}
          BY DEF Quit
        <5> QED BY <3>1, <5>1, <5>2, <5>3
      <4> QED BY <2>5, <4>1
    <3>2. CASE Undone(s)
      <4>1. CASE req.op = "upgrade"
        BY <3>2, <4>1 DEF Undone, Cleanup
      <4>2. CASE req.op # "upgrade"
        BY <3>2, <4>2 DEF Undone
      <4> QED BY <4>1, <4>2
    <3> QED BY <2>1, <3>1, <3>2 DEF Threw
  <2>10. Todo' \cap {"store", "legacy"} \subseteq Todo
    BY <2>1 DEF Threw, Skipped, Looked, Quit, Undone, Cleanup
  <2>11. req'.phase = "revert" => /\ "store" \in Todo' => store' = NoBind
                                  /\ "legacy" \in Todo' => legacy' = NoBind
    BY <1>s, <2>2, <2>3, <2>6, <2>7, <2>8, <2>10 DEF RevertInv, Kept, Register
  <2> QED BY <1>b, <2>2, <2>3, <2>4, <2>9, <2>11 DEF RevertInv, Kept
<1>k. ASSUME req'.phase = "forward", req'.blame = "none", "again" \notin Todo' PROVE RevertInv'
  BY <1>b, <1>k DEF RevertInv, Register
<1>6. CASE Appended
  <2>1. Kept /\ req'.blame = req.blame /\ req.op = "delete"
    BY <1>0, <1>6, AppendedKeeps DEF Appended
  <2>2. req.phase = "forward"
    BY <1>0, <2>1 DEF TypeInv, Types, Request
  <2>3. "again" \notin Todo'
    BY <1>6 DEF Appended, Cleanup
  <2> QED BY <1>k, <2>1, <2>2, <2>3 DEF Kept, RevertInv
<1>7. CASE Created
  <2>1. Kept /\ req'.blame = req.blame /\ Todo' = Todo \ {"create"} /\ Due("create")
    BY <1>0, <1>7, CreatedKeeps DEF Created
  <2>2. ~Gone("store") /\ ~Gone("legacy")
    BY <2>1 DEF Gone, Due, At
  <2>3. "again" \notin Todo /\ req' # Rest
    BY <1>0, <1>u, <2>1, RestTypes DEF Due, Undo, Cleanup, Kept, ListInv
  <2> QED BY <1>b, <1>s, <2>1, <2>2, <2>3 DEF RevertInv, Kept
<1>8. CASE Reverted
  <2>1. Due("again") /\ Todo' = Renewing /\ req'.blame = req.blame /\ req'.phase = "revert" /\ req'.op = "upgrade"
    BY <1>0, <1>8, RevertedSets DEF Reverted
  <2>2. "again" \in Todo /\ "rmstore" \notin Todo /\ "rmdir" \notin Todo
    <3>1. \A p \in Order(req.op) : p[2] = "again" => p[1] \notin Todo
      BY <2>1 DEF Due
    <3>2. <<"rmstore", "again">> \in Order(req.op) /\ <<"rmdir", "again">> \in Order(req.op)
      BY DEF Order
    <3>3. /\ <<"rmstore", "again">>[1] = "rmstore" /\ <<"rmstore", "again">>[2] = "again"
          /\ <<"rmdir", "again">>[1] = "rmdir" /\ <<"rmdir", "again">>[2] = "again"
      OBVIOUS
    <3> QED BY <2>1, <3>1, <3>2, <3>3 DEF Due
  <2>3. ~Gone("store") /\ ~Gone("legacy") /\ req' # Rest
    BY <2>1, RestTypes DEF Gone, Due, At
  <2>4. "again" \notin Todo'
    BY <2>1 DEF Renewing, Answering, Register
  <2> QED BY <1>b, <1>s, <2>1, <2>2, <2>3, <2>4 DEF RevertInv
<1>9. CASE LookedAgain
  <2>1. req'.blame = req.blame /\ req'.phase = req.phase /\ "read" \in Todo
    BY <1>0, <1>9, LookedSets DEF LookedAgain, Due
  <2>2. req.phase = "forward"
    BY <1>0, <2>1 DEF PhaseInv, Request
  <2>3. "again" \notin Todo'
    BY <1>9 DEF LookedAgain, Rolling, Swapping, Renewing, Answering, Register, Cleanup
  <2> QED BY <1>k, <2>1, <2>2, <2>3 DEF RevertInv
<1>10. CASE Begun
  <2>1. /\ req'.phase = "forward" /\ req'.blame = "none"
        /\ \/ Todo' = {"read"} \/ Todo' = {} \/ Todo' = Swap \ {"mounts", "inspect"}
           \/ Todo' = {"inspect", "stop", "remove", "volumes"}
    BY <1>0, <1>10, BegunSets
  <2>2. "again" \notin Todo'
    BY <2>1 DEF Swap, Cleanup, Register
  <2> QED BY <1>k, <2>1, <2>2
<1>11. CASE req' = Rest
  <2>1. Todo' = {} /\ req'.blame = "none" /\ req'.phase = "forward"
    BY <1>11, Pieces DEF Todo, Rest
  <2> QED BY <1>k, <2>1
<1> QED BY <1>0, <1>3, <1>4, <1>5, <1>6, <1>7, <1>8, <1>9, <1>10, <1>11 DEF Move

\* Nothing the failed attempt left on disk keeps an upgrade from being reverted.
THEOREM RevertsAreNotBlocked == Spec => []RevertNotBlocked
<1>1. Init => RevertInv
  <2> SUFFICES ASSUME Init PROVE RevertInv
    OBVIOUS
  <2>1. req.phase = "forward" /\ req.blame = "none" /\ req.todo = <<>> /\ last.blame = "none"
    BY DEF Init, Rest, NoAnswer
  <2>2. Todo = {}
    BY <2>1, Pieces DEF Todo
  <2> QED BY <2>1, <2>2 DEF RevertInv, Register
<1>2. Core /\ RevertInv /\ [Next]_vars => RevertInv'
  BY MoveRevert
<1>3. RevertInv => RevertNotBlocked
  BY DEF RevertInv, RevertNotBlocked, Register
<1> QED BY <1>1, <1>2, <1>3, CoreInit, CoreNext, PTL DEF Spec

-----------------------------------------------------------------------------
(* One container.                                                           *)

\* Who is left: what nobody left to itself is one container, or the two of a request.
Ours == Existing \ leaked
SingleInv ==
    /\ req.old = 0 => \A d, e \in Ours : d = e
    /\ req.old # 0 => Ours \subseteq {req.old, req.new}
    /\ req.op # "rolling" /\ (req.new # 0 \/ "again" \in Todo \/ ("create" \in Todo /\ "remove" \notin Todo))
         => req.old \notin Existing
    /\ req.op = "rolling" /\ req.new # 0 =>
         "remove" \in Todo \/ "removeNew" \in Todo \/ req.old \notin Ours \/ req.new \notin Ours
    /\ "again" \in Todo /\ "removeNew" \notin Todo => req.new \notin Ours
    /\ req.op = "delete" /\ "remove" \notin Todo => req.old \notin Ours
    /\ req = Rest /\ last.op = "delete" => Ours = {}
    /\ Cardinality(leaked) <= spent.leaks

\* How a step adds to the containers that are left to themselves.
LEMMA LeakMoves ==
    ASSUME Core, [Next]_vars
    PROVE  \/ leaked' = leaked /\ spent'.leaks = spent.leaks
           \/ \E d \in Ids : leaked' = leaked \union {d} /\ spent'.leaks = spent.leaks + 1
           \/ LET S == {req.old, req.new} \intersect Existing
              IN  leaked' = leaked \union S /\ spent'.leaks = spent.leaks + Cardinality(S)
           \/ LookedAgain /\ leaked' = Others(getById) /\ spent'.leaks = spent.leaks
           \/ Begun
<1> DEFINE Same1 == leaked' = leaked /\ spent'.leaks = spent.leaks
           More  == \E d \in Ids : leaked' = leaked \union {d} /\ spent'.leaks = spent.leaks + 1
<1>0. spent \in [mishaps : Nat, exits : Nat, reboots : Nat, requests : Nat, leaks : Nat, rebinds : Nat]
      /\ req \in Request
  BY DEF Core, TypeInv, Types
<1>r. Refuses => spent'.leaks = spent.leaks
  BY <1>0 DEF Refuses
<1>l. \A d : Leaves(d) => leaked' = leaked \union {d} /\ spent'.leaks = spent.leaks + 1
  BY <1>0 DEF Leaves
<1>t. ASSUME NEW s, IF Target(s) = 0 THEN FALSE ELSE Exists(Target(s)) PROVE Target(s) \in Ids
  <2>1. Target(s) \in Ids \union {0}
    BY <1>0 DEF Target, Request, Ids
  <2> QED BY <1>t, <2>1
<1>7. ASSUME NEW s, stopContainer(s) PROVE Same1 \/ More
  BY <1>7, <1>r, <1>l, <1>t DEF stopContainer
<1>8. ASSUME NEW s, removeContainer(s) PROVE Same1 \/ More
  BY <1>8, <1>r, <1>l, <1>t DEF removeContainer
<1>c. ASSUME createAppContainer PROVE Same1 \/ More
  <2>1. Due("create")
    BY <1>c, DueWhen DEF createAppContainer, Core
  <2>2. Cardinality(Made) + 1 \in Ids
    BY <2>1, MadeRoom DEF Core, ReqInv
  <2>3. Same1 \/ Leaves(Cardinality(Made) + 1)
    BY <1>c, <1>r DEF createAppContainer
  <2> QED BY <1>l, <2>2, <2>3
<1>9. ASSUME NEW d \in Ids, exits(d) \/ recoverDesiredState(d) PROVE Same1
  BY <1>0, <1>9 DEF exits, recoverDesiredState
<1>10. ASSUME NEW host \in YesNo, dies(host)
       PROVE  LET S == {req.old, req.new} \intersect Existing
              IN  leaked' = leaked \union S /\ spent'.leaks = spent.leaks + Cardinality(S)
  BY <1>0, <1>10 DEF dies
<1> HIDE DEF Same1, More
<1>11. Steps => \/ Same1 \/ More
                \/ LookedAgain /\ leaked' = Others(getById) /\ spent'.leaks = spent.leaks
  <2>1. read => Same1 \/ (LookedAgain /\ leaked' = Others(getById) /\ spent'.leaks = spent.leaks)
    BY ReadWhen DEF Core, read, Same1
  <2>2. \/ pullImage \/ mountsForMcpV3Upgrade \/ startContainer
        \/ getInternalUrl \/ waitForHealthy \/ inspectContainer \/ look \/ removeVolume \/ revert \/ answer
        => Same1
    BY <1>r DEF pullImage, mountsForMcpV3Upgrade, startContainer,
        getInternalUrl, waitForHealthy, inspectContainer, look, removeVolume, revert, answer, Same1
  <2>3. (persistStore \/ persistLegacy \/ registerSocket \/ close \/ closed \/ rmDirectory \/ rmStore
         \/ sweepOrphanBrokerState) => Same1
    BY DEF persistStore, persistLegacy, registerSocket, close, closed, rmDirectory, rmStore,
        sweepOrphanBrokerState, Same1
  <2>4. rebindMcpBrokers => Same1
    BY <1>0 DEF rebindMcpBrokers, Same1
  <2>5. (\E s \in {"stop", "stopNew"} : stopContainer(s)) \/ (\E s \in {"remove", "removeNew"} : removeContainer(s))
        => Same1 \/ More
    BY <1>7, <1>8
  <2>6. /\ Steps
        /\ ~(\E s \in {"stop", "stopNew"} : stopContainer(s)) /\ ~(\E s \in {"remove", "removeNew"} : removeContainer(s))
        => \/ read
           \/ pullImage \/ mountsForMcpV3Upgrade \/ createAppContainer \/ startContainer
              \/ getInternalUrl \/ waitForHealthy \/ inspectContainer \/ look \/ removeVolume \/ revert \/ answer
           \/ persistStore \/ persistLegacy \/ registerSocket \/ close \/ closed \/ rmDirectory \/ rmStore
              \/ sweepOrphanBrokerState
           \/ rebindMcpBrokers
    BY DEF Steps
  <2> QED BY <1>c, <2>1, <2>2, <2>3, <2>4, <2>5, <2>6
<1>12. (UNCHANGED vars \/ dial \/ respond) => Same1
  BY DEF vars, dial, respond, Same1
<1>13. Requests => Begun
  BY BegunWhen DEF Core
<1> QED BY <1>9, <1>10, <1>11, <1>12, <1>13 DEF Next, Same1, More

\* Finitely many containers are left to themselves.
LEMMA LeakedFinite == Core => IsFiniteSet(leaked) /\ Cardinality(leaked) \in Nat
<1>1. Core => leaked \in SUBSET Ids
  BY DEF Core, TypeInv, Types
<1> QED BY <1>1, MadeFinite, FS_Subset, FS_CardinalityType

\* To take one container for the app's leaves no more to themselves than there were.
LEMMA OthersCounted ==
    ASSUME Core, NEW d \in Existing, \A e, f \in Ours : e = f
    PROVE  Cardinality(Others(d)) <= Cardinality(leaked)
<1>0. IsFiniteSet(leaked) /\ Cardinality(leaked) \in Nat
  BY LeakedFinite
<1>1. CASE Others(d) \in SUBSET leaked
  BY <1>0, <1>1, FS_Subset
<1>2. CASE ~(Others(d) \in SUBSET leaked)
  <2>1. PICK x : x \in Ours /\ x # d
    BY <1>2 DEF Others, Ours
  <2>2. d \in leaked
    BY <2>1 DEF Ours
  <2>3. Others(d) = (leaked \ {d}) \union {x}
    BY <2>1, <2>2 DEF Others, Ours
  <2>4. IsFiniteSet(leaked \ {d}) /\ Cardinality(leaked \ {d}) = Cardinality(leaked) - 1
    BY <1>0, <2>2, FS_RemoveElement
  <2>5. Cardinality((leaked \ {d}) \union {x}) <= Cardinality(leaked \ {d}) + 1
    <3> DEFINE S == leaked \ {d}
    <3>1. IsFiniteSet(S) /\ Cardinality(S) \in Nat
      BY <2>4, FS_CardinalityType
    <3> HIDE DEF S
    <3>2. Cardinality(S \union {x}) <= Cardinality(S) + 1
      BY <3>1, FS_AddElement
    <3> QED BY <3>2 DEF S
  <2> QED BY <1>0, <2>3, <2>4, <2>5
<1> QED BY <1>1, <1>2

\* What is left to itself is counted, refusal by refusal.
LEMMA LeaksCounted ==
    ASSUME Core, SingleInv, [Next]_vars
    PROVE  Cardinality(leaked') <= spent'.leaks
<1>0. /\ IsFiniteSet(leaked) /\ Cardinality(leaked) \in Nat /\ spent.leaks \in Nat
      /\ Cardinality(leaked) <= spent.leaks /\ TypeInv
      /\ spent \in [mishaps : Nat, exits : Nat, reboots : Nat, requests : Nat, leaks : Nat, rebinds : Nat]
  BY LeakedFinite DEF Core, TypeInv, Types, SingleInv
<1>1. CASE leaked' = leaked /\ spent'.leaks = spent.leaks
  BY <1>0, <1>1
<1>2. ASSUME NEW d \in Ids, leaked' = leaked \union {d}, spent'.leaks = spent.leaks + 1
      PROVE  Cardinality(leaked') <= spent'.leaks
  <2>0. /\ IsFiniteSet(leaked \union {d})
        /\ Cardinality(leaked \union {d}) = IF d \in leaked THEN Cardinality(leaked) ELSE Cardinality(leaked) + 1
    BY <1>0, FS_AddElement
  <2>1. Cardinality(leaked \union {d}) <= Cardinality(leaked) + 1
    BY <1>0, <2>0
  <2>2. Cardinality(leaked \union {d}) \in Nat
    BY <2>0, FS_CardinalityType
  <2> QED BY <1>0, <1>2, <2>1, <2>2
<1>3. CASE LET S == {req.old, req.new} \intersect Existing
           IN  leaked' = leaked \union S /\ spent'.leaks = spent.leaks + Cardinality(S)
  <2> DEFINE S == {req.old, req.new} \intersect Existing
  <2>1. IsFiniteSet(S)
    <3>1. S \in SUBSET Existing
      OBVIOUS
    <3> QED BY <3>1, MadeFinite, FS_Subset
  <2> HIDE DEF S
  <2>2. Cardinality(S) \in Nat /\ Cardinality(leaked \cap S) \in Nat
    <3>1. IsFiniteSet(leaked \cap S)
      BY <2>1, FS_Subset
    <3> QED BY <2>1, <3>1, FS_CardinalityType
  <2>3. Cardinality(leaked \union S) = Cardinality(leaked) + Cardinality(S) - Cardinality(leaked \cap S)
    BY <1>0, <2>1, FS_Union
  <2>4. leaked' = leaked \union S /\ spent'.leaks = spent.leaks + Cardinality(S)
    BY <1>3 DEF S
  <2> QED BY <1>0, <2>2, <2>3, <2>4
<1>o. ASSUME req.old = 0, getById # 0, leaked' = Others(getById), spent'.leaks = spent.leaks
      PROVE  Cardinality(leaked') <= spent'.leaks
  <2>1. getById \in Existing
    BY <1>o, GetById
  <2>2. Cardinality(Others(getById)) <= Cardinality(leaked)
    BY <1>o, <2>1, OthersCounted DEF SingleInv
  <2>3. Cardinality(leaked') \in Nat
    <3>1. leaked' \in SUBSET Ids
      BY <1>0, <1>o DEF Others, Existing, TypeInv, Types
    <3> QED BY <3>1, MadeFinite, FS_Subset, FS_CardinalityType
  <2> QED BY <1>0, <1>o, <2>2, <2>3
<1>4. CASE LookedAgain /\ leaked' = Others(getById) /\ spent'.leaks = spent.leaks
  <2>1. "read" \in Todo /\ getById # 0
    BY <1>4 DEF LookedAgain, Due
  <2>2. req.old = 0
    BY <2>1 DEF Core, ReqInv, OldInv
  <2> QED BY <1>4, <1>o, <2>1, <2>2
<1>5. CASE Begun
  <2>1. req.old = 0 /\ getById # 0 /\ spent'.leaks = spent.leaks
    BY <1>0, <1>5, RestTypes DEF Begun
  <2>2. leaked' = leaked \/ leaked' = Others(getById)
    BY <1>5 DEF Begun, SwapBegun, ReconfigureBegun, DeleteBegun
  <2> QED BY <1>1, <1>o, <2>1, <2>2
<1> QED BY <1>1, <1>2, <1>3, <1>4, <1>5, LeakMoves

\* What a removal leaves: nothing, a container left to itself, or a request that failed.
LEMMA RemoveActs ==
    ASSUME Core, NEW s \in {"remove", "removeNew"}, removeContainer(s)
    PROVE  \/ Target(s) \notin Existing' \/ Target(s) \in leaked'
           \/ s = "remove" /\ Throws /\ req.op \notin {"rolling", "delete"}
<1>0. box \in [Ids -> Box] /\ Target(s) \in Ids \union {0} /\ 0 \notin Ids
  BY BoundsAssumption DEF Core, TypeInv, Types, Target, Request, Ids
<1> DEFINE d == Target(s)
<1>1. CASE d \in Ids /\ Exists(d)
  <2>1. CASE box' = [box EXCEPT ![d] = [NoBox EXCEPT !.st = "gone"]]
    <3>1. box'[d].st = "gone"
      BY <1>0, <1>1, <2>1 DEF NoBox
    <3> QED BY <3>1 DEF Existing, Exists
  <2>2. CASE box' # [box EXCEPT ![d] = [NoBox EXCEPT !.st = "gone"]]
    BY <1>0, <1>1, <2>2 DEF removeContainer, Leaves
  <2> QED BY <2>1, <2>2
<1>2. CASE ~(d \in Ids /\ Exists(d))
  <2>1. box' = box
    BY <1>0, <1>2 DEF removeContainer
  <2> QED BY <1>0, <1>2, <2>1 DEF Existing, Exists
<1> QED BY <1>1, <1>2

\* A rolling redeploy that Docker refuses to stop the old container for leaves it behind.
LEMMA StopActs ==
    ASSUME Core, stopContainer("stop"), req.op = "rolling", Looked("stop")
    PROVE  req.old \in leaked'
<1>1. ~Go
  <2>1. SUFFICES ASSUME Go PROVE FALSE
    OBVIOUS
  <2>2. Gone("stop")
    BY <2>1, GoneWhen DEF Core, stopContainer
  <2>3. Todo' = Todo \ {"stop"} /\ "stop" \in Todo /\ Todo' = {"look"}
    BY <2>2 DEF Gone, Due, Looked
  <2>4. "remove" \in Todo
    BY <2>3 DEF Core, ReqInv, AheadInv
  <2> QED BY <2>3, <2>4
<1>2. Target("stop") = req.old
  BY DEF Target
<1> QED BY <1>1, <1>2 DEF stopContainer, Leaves

\* Every step keeps SingleInv.
LEMMA MoveSingle ==
    ASSUME Core, SingleInv, [Next]_vars
    PROVE  SingleInv'
<1>0. Move /\ req \in Request /\ TypeInv /\ ListInv /\ OldInv /\ AheadInv /\ 0 \notin Existing /\ 0 \notin Existing'
  <2>1. 0 \notin Existing /\ 0 \notin Existing'
    BY BoundsAssumption DEF Existing, Ids
  <2> QED BY <2>1, Moves DEF Core, TypeInv, Types, ReqInv
<1>c. Cardinality(leaked') <= spent'.leaks
  BY LeaksCounted
<1>l. leaked \subseteq leaked' \/ LookedAgain \/ Begun
  BY LeakMoves
<1>r. req' = Rest => req'.old = 0 /\ req'.new = 0 /\ req'.op = "none" /\ Todo' = {}
  BY RestTypes, Pieces DEF Todo
<1>b. CASE Building
  <2> DEFINE n == Cardinality(Made) + 1
  <2>1. Created
    BY <1>b DEF Building
  <2>2. Kept /\ req'.new = n /\ Todo' = Todo \ {"create"} /\ Due("create") /\ req # Rest /\ "create" \in Todo
    BY <1>0, <2>1, CreatedKeeps, DueAt DEF Created
  <2>3. Existing' = Existing \union {n} /\ n \notin Existing /\ n \notin Made
    BY <1>b, Builds DEF Core
  <2>4. req.old # 0 /\ req.new = 0 /\ req.op \notin {"none", "delete"} /\ req'.op # "none"
    BY <1>0, <2>2, MadeRoom DEF Core, ReqInv, OldInv, Kept
  <2>5. req.op # "rolling" => "remove" \notin Todo
    <3>1. SUFFICES ASSUME req.op # "rolling" PROVE "remove" \notin Todo
      OBVIOUS
    <3>2. <<"remove", "create">> \in Order(req.op) /\ <<"remove", "create">>[1] = "remove" /\ <<"remove", "create">>[2] = "create"
      BY <3>1 DEF Order
    <3> QED BY <2>2, <3>2 DEF Due
  <2>6. leaked \subseteq leaked'
    <3>1. "read" \notin Todo
      BY <2>4 DEF Core, ReqInv, OldInv
    <3> QED BY <1>l, <2>2, <3>1 DEF LookedAgain, Begun, Due
  <2>7. Ours' \subseteq Ours \union {n}
    BY <2>3, <2>6 DEF Ours
  <2>8. req.old # n
    BY <2>3, <2>4 DEF Core, MadeInv
  <2> HIDE DEF n
  <2>9. Ours' \subseteq {req.old, n}
    BY <1>0, <2>4, <2>7 DEF SingleInv, Ours
  <2>10. req.op # "rolling" => req.old \notin Existing'
    BY <2>2, <2>3, <2>5, <2>8 DEF SingleInv
  <2>11. req.op = "rolling" => "remove" \in Todo'
    BY <1>0, <2>2 DEF AheadInv
  <2>12. "again" \notin Todo'
    BY <1>0, <2>2 DEF ListInv, Request, Ops, Undo, Cleanup, Rolling, Swap, Register, Answering
  <2>13. req' # Rest
    BY <1>r, <2>4
  <2> QED BY <1>c, <2>2, <2>4, <2>9, <2>10, <2>11, <2>12, <2>13 DEF SingleInv, Kept
<1>q. CASE ~Building
  <2>0. ~Created /\ \A d \in Existing' \ Existing : d \in leaked' /\ d \notin {0, req.old, req.new}
    BY <1>q, Strangers
  <2>o. leaked \subseteq leaked' => Ours' \subseteq Ours
    BY <2>0 DEF Ours
  <2>3. CASE UNCHANGED <<mcp, req, last>>
    <3>1. Todo' = Todo /\ ~LookedAgain /\ ~Begun
      <4>1. Todo' = Todo
        BY <2>3 DEF Todo
      <4>2. ~LookedAgain
        <5>1. LookedAgain => req'.old # 0 /\ req.old = 0
          BY <1>0, LookedSets DEF LookedAgain, Due, OldInv
        <5> QED BY <2>3, <5>1
      <4>3. ~Begun
        <5>1. Begun => req = Rest /\ req'.op # "none"
          BY <1>0, BegunSets DEF Begun
        <5> QED BY <2>3, <5>1, RestTypes
      <4> QED BY <4>1, <4>2, <4>3
    <3>2. Ours' \subseteq Ours
      BY <1>l, <2>o, <3>1
    <3> QED BY <1>c, <2>0, <2>3, <3>1, <3>2 DEF SingleInv
  <2>4. CASE Went
    <3>1. PICK s \in Calls : Gone(s) /\ s \notin {"read", "create", "again"}
      BY <2>4 DEF Went
    <3>2. Kept /\ req'.new = req.new /\ Todo' = Todo \ {s} /\ req' # Rest /\ req' # req /\ At(s)
      BY <1>0, <3>1, GoneKeeps, GoneActs DEF Gone
    <3>3. Ours' \subseteq Ours
      <4>1. ~LookedAgain
        BY <3>1 DEF LookedAgain, Gone, Due, At
      <4>2. ~Begun
        BY <3>1, DueAt, <1>0 DEF Begun, Gone
      <4> QED BY <1>l, <2>o, <4>1, <4>2
    <3>4. s = "removeNew" => req.new \notin Ours'
      <4>1. SUFFICES ASSUME s = "removeNew" PROVE req.new \notin Ours'
        OBVIOUS
      <4>2. removeContainer("removeNew")
        BY <3>2, <4>1, Acts
      <4> QED BY <4>2, RemoveActs DEF Ours, Target
    <3>5. s = "remove" => \/ req.old \notin Ours' /\ (req.op \notin {"rolling", "delete"} => req.old \notin Existing')
                          \/ "create" \notin Todo /\ req.op \notin {"rolling", "delete"}
      <4>1. SUFFICES ASSUME s = "remove", req.op \in {"rolling", "delete"} \/ "create" \in Todo
                     PROVE  req.old \notin Ours' /\ (req.op \notin {"rolling", "delete"} => req.old \notin Existing')
        OBVIOUS
      <4>2. removeContainer("remove")
        BY <3>2, <4>1, Acts
      <4>3. CASE req.op \in {"rolling", "delete"}
        BY <4>2, <4>3, RemoveActs DEF Ours, Target
      <4>4. CASE req.op \notin {"rolling", "delete"}
        <5>1. ~Throws
          <6>1. SUFFICES ASSUME Throws PROVE FALSE
            OBVIOUS
          <6>2. Threw("remove")
            BY <1>0, <3>2, <4>1, <6>1, ThrewWhen
          <6>3. Todo' = {}
            BY <4>4, <6>2 DEF Threw, Skipped, Looked, Quit, Undone
          <6> QED BY <3>2, <4>1, <4>4, <6>3
        <5>2. box' = IF (IF req.old = 0 THEN FALSE ELSE Exists(req.old))
                     THEN [box EXCEPT ![req.old] = [NoBox EXCEPT !.st = "gone"]] ELSE box
          BY <4>2, <5>1 DEF removeContainer, Target
        <5>3. req.old \notin Existing'
          <6>1. box \in [Ids -> Box]
            BY <1>0 DEF TypeInv, Types
          <6>2. CASE req.old \in Existing
            <7>1. box'[req.old].st = "gone"
              BY <1>0, <5>2, <6>1, <6>2 DEF Existing, NoBox
            <7> QED BY <7>1 DEF Existing, Exists
          <6> QED BY <2>0, <6>2
        <5> QED BY <5>3 DEF Ours
      <4> QED BY <4>3, <4>4
    <3>6. req.op # "rolling" /\ (req.new # 0 \/ "again" \in Todo' \/ ("create" \in Todo' /\ "remove" \notin Todo'))
            => req.old \notin Existing'
      <4>1. CASE s = "remove" /\ "create" \in Todo
        <5>1. req.op # "delete"
          BY <1>0, <4>1 DEF ListInv, Cleanup
        <5> QED BY <3>5, <4>1, <5>1
      <4>2. CASE ~(s = "remove" /\ "create" \in Todo)
        BY <2>0, <3>2, <4>2 DEF SingleInv
      <4> QED BY <4>1, <4>2
    <3>7. req.op = "rolling" /\ req.new # 0 =>
            "remove" \in Todo' \/ "removeNew" \in Todo' \/ req.old \notin Ours' \/ req.new \notin Ours'
      BY <3>2, <3>3, <3>4, <3>5 DEF SingleInv
    <3>8. "again" \in Todo' /\ "removeNew" \notin Todo' => req.new \notin Ours'
      BY <3>2, <3>3, <3>4 DEF SingleInv
    <3>9. req.op = "delete" /\ "remove" \notin Todo' => req.old \notin Ours'
      BY <3>2, <3>3, <3>5 DEF SingleInv
    <3> QED BY <1>c, <3>2, <3>3, <3>6, <3>7, <3>8, <3>9 DEF SingleInv, Kept
  <2> HIDE DEF Ours
  <2>5. CASE Failed
    <3>1. PICK s \in Calls : Threw(s) /\ s \notin Cleanup \union {"stopNew", "removeNew", "again", "bind"}
      BY <2>5 DEF Failed
    <3>2. Kept /\ req'.new = req.new /\ Due(s) /\ s \in Todo /\ At(s) /\ req.op # "none"
      <4>1. Due(s)
        BY <3>1 DEF Threw, Skipped, Looked, Quit, Undone
      <4> QED BY <1>0, <3>1, <4>1, ThrewKeeps, DueAt DEF Due
    <3>3. req' # Rest /\ req' # req
      <4>1. Todo' # Todo
        <5>1. Skipped(s) => Todo' # Todo
          BY <3>2 DEF Skipped
        <5>2. Looked(s) => Todo' # Todo
          BY <3>2 DEF Looked
        <5>3. Quit(s) => Todo' # Todo
          BY <3>2 DEF Quit
        <5>4. Undone(s) => s \notin Todo'
          BY <3>1 DEF Undone
        <5> QED BY <3>1, <3>2, <5>1, <5>2, <5>3, <5>4 DEF Threw
      <4>2. req'.op # "none"
        BY <3>2 DEF Kept
      <4> QED BY <1>r, <4>1, <4>2 DEF Todo
    <3>4. Ours' \subseteq Ours
      <4>1. ~LookedAgain
        <5>1. LookedAgain => req'.old # 0 /\ req.old = 0
          BY <1>0, LookedSets DEF LookedAgain, Due, OldInv
        <5> QED BY <3>2, <5>1 DEF Kept
      <4>2. ~Begun
        BY <3>2, RestTypes DEF Begun
      <4> QED BY <1>l, <2>o, <4>1, <4>2
    <3>i. /\ req.old = 0 => \A d, e \in Ours' : d = e
          /\ req.old # 0 => Ours' \subseteq {req.old, req.new}
          /\ req.op # "rolling" /\ req.new # 0 => req.old \notin Existing'
      BY <2>0, <3>4 DEF SingleInv
    <3>5. CASE Skipped(s)
      <4>1. Todo' = Todo \ {s} /\ req.op = "delete" /\ req.new = 0
        BY <1>0, <3>5 DEF Skipped, OldInv
      <4>2. s = "remove" => req.old \notin Ours'
        <5>1. SUFFICES ASSUME s = "remove" PROVE req.old \notin Ours'
          OBVIOUS
        <5>2. removeContainer("remove")
          BY <3>2, <3>3, <5>1, Acts
        <5> QED BY <4>1, <5>2, RemoveActs DEF Ours, Target
      <4>3. "again" \notin Todo' /\ "create" \notin Todo'
        BY <1>0, <4>1 DEF ListInv, Cleanup
      <4> QED BY <1>c, <3>2, <3>3, <3>4, <3>i, <4>1, <4>2, <4>3 DEF SingleInv, Kept
    <3>6. CASE Looked(s)
      <4>1. Todo' = {"look"} /\ req.op = "rolling" /\ s \in {"stop", "remove"}
        BY <3>6 DEF Looked
      <4>2. CASE s = "stop"
        <5>1. stopContainer("stop")
          BY <3>2, <3>3, <4>2, Acts
        <5>2. req.old \in leaked'
          BY <3>6, <4>1, <4>2, <5>1, StopActs
        <5> QED BY <1>c, <3>2, <3>3, <3>i, <4>1, <5>2 DEF SingleInv, Kept, Ours
      <4>3. CASE s = "remove"
        <5>1. removeContainer("remove")
          BY <3>2, <3>3, <4>3, Acts
        <5>2. req.old \notin Ours'
          BY <4>1, <5>1, RemoveActs DEF Ours, Target
        <5> QED BY <1>c, <3>2, <3>3, <3>i, <4>1, <5>2 DEF SingleInv, Kept
      <4> QED BY <4>1, <4>2, <4>3
    <3>7. CASE Quit(s)
      <4>1. Todo' = {} /\ req.op # "delete"
        BY <3>7 DEF Quit
      <4>2. req.op = "rolling" => req.new = 0
        <5>1. SUFFICES ASSUME req.op = "rolling" PROVE req.new = 0
          OBVIOUS
        <5>2. s \in {"read", "pull", "mounts"}
          BY <3>7, <5>1 DEF Quit
        <5>3. s # "mounts"
          BY <1>0, <3>2, <5>1 DEF ListInv, Rolling
        <5>4. s = "read" => req.old = 0 /\ req # Rest
          BY <1>0, <3>2, RestTypes DEF OldInv
        <5> QED BY <1>0, <3>2, <5>2, <5>3, <5>4 DEF OldInv, AheadInv
      <4> QED BY <1>c, <3>2, <3>3, <3>i, <4>1, <4>2 DEF SingleInv, Kept
    <3>8. CASE Undone(s)
      <4>1. "removeNew" \in Todo' /\ "create" \notin Todo' /\ req.op \in {"rolling", "swap", "upgrade"}
            /\ (req.op # "upgrade" => "again" \notin Todo')
        BY <3>8 DEF Undone, Cleanup
      <4>2. req.op = "upgrade" => req.old \notin Existing
        <5>1. SUFFICES ASSUME req.op = "upgrade" PROVE req.old \notin Existing
          OBVIOUS
        <5>2. s \notin {"read", "pull", "mounts", "stop", "remove"}
          BY <3>8 DEF Undone
        <5>3. s \in {"create"} \union Using
          BY <1>0, <3>1, <3>2, <5>1, <5>2 DEF ListInv, Swap, Undo, Using, Register, Cleanup
        <5>4. CASE s = "create"
          <6>1. <<"remove", "create">> \in Order(req.op) /\ <<"remove", "create">>[1] = "remove" /\ <<"remove", "create">>[2] = "create"
            BY <5>1 DEF Order
          <6>2. "remove" \notin Todo
            BY <3>2, <5>4, <6>1 DEF Due
          <6> QED BY <3>2, <5>1, <5>4, <6>2 DEF SingleInv
        <5>5. CASE s \in Using
          <6>1. <<"create", s>> \in Order(req.op) /\ <<"create", s>>[1] = "create" /\ <<"create", s>>[2] = s
            BY <5>5 DEF Order, Using, Register
          <6>2. "create" \notin Todo
            BY <3>2, <6>1 DEF Due
          <6>3. req.new \in Existing
            BY <3>2, <5>1, <5>5, <6>2 DEF Core, BuiltInv
          <6> QED BY <1>0, <5>1, <6>3 DEF SingleInv
        <5> QED BY <5>3, <5>4, <5>5
      <4> QED BY <1>c, <2>0, <3>2, <3>3, <3>i, <4>1, <4>2 DEF SingleInv, Kept
    <3> QED BY <3>1, <3>5, <3>6, <3>7, <3>8 DEF Threw
  <2>6. CASE Appended
    <3>1. Kept /\ req'.new = req.new /\ req.op = "delete" /\ req.new = 0
      BY <1>0, <2>6, AppendedKeeps DEF Appended, OldInv
    <3>2. "remove" \in Todo' /\ "create" \notin Todo' /\ "again" \notin Todo'
      BY <2>6 DEF Appended, Cleanup
    <3>3. Ours' \subseteq Ours
      <4>1. ~LookedAgain /\ ~Begun
        BY <3>1, RestTypes DEF LookedAgain, Begun
      <4> QED BY <1>l, <2>o, <4>1
    <3>4. req' # Rest
      BY <1>r, <3>1 DEF Kept
    <3> QED BY <1>c, <3>1, <3>2, <3>3, <3>4 DEF SingleInv, Kept
  <2>7. CASE Reverted
    <3>1. /\ req'.op = "upgrade" /\ req.op = "upgrade" /\ req'.old = req.old /\ req'.new = 0 /\ Todo' = Renewing
          /\ Due("again") /\ "again" \in Todo /\ req # Rest
      BY <1>0, <2>7, RevertedSets, DueAt DEF Reverted
    <3>2. "removeNew" \notin Todo
      <4>1. <<"removeNew", "again">> \in Order(req.op) /\ <<"removeNew", "again">>[1] = "removeNew" /\ <<"removeNew", "again">>[2] = "again"
        BY DEF Order
      <4> QED BY <3>1, <4>1 DEF Due
    <3>3. Ours' \subseteq Ours
      <4>1. ~LookedAgain /\ ~Begun
        BY <3>1 DEF LookedAgain, Begun, Due, At
      <4> QED BY <1>l, <2>o, <4>1
    <3>4. req.new \notin Ours /\ req.old \notin Existing'
      BY <2>0, <3>1, <3>2 DEF SingleInv
    <3>5. req.old # 0 => Ours' \subseteq {req.old}
      BY <3>3, <3>4 DEF SingleInv
    <3>6. "again" \notin Todo' /\ req' # Rest
      BY <1>r, <3>1 DEF Renewing, Answering, Register
    <3>7. req.old = 0 => \A d, e \in Ours' : d = e
      BY <3>3 DEF SingleInv
    <3> QED BY <1>c, <3>1, <3>4, <3>5, <3>6, <3>7 DEF SingleInv
  <2>d. ASSUME leaked' = Others(getById) PROVE Ours' \subseteq {getById}
    BY <2>0, <2>d DEF Others, Ours
  <2>8. CASE LookedAgain
    <3>1. req'.op = req.op /\ req'.old = getById /\ req'.new = req.new /\ getById # 0
      BY <1>0, <2>8, LookedSets DEF LookedAgain
    <3>2. "read" \in Todo /\ req # Rest /\ req.op \in {"rolling", "swap", "upgrade"} /\ At("read")
      BY <1>0, <2>8, DueAt DEF LookedAgain, Due
    <3>3. req.new = 0 /\ req.old = 0
      BY <1>0, <3>2 DEF OldInv
    <3>4. req' # Rest /\ req' # req
      BY <1>r, <3>1, <3>2, <3>3
    <3>5. leaked' = Others(getById)
      <4>1. read
        BY <3>2, <3>4, Acts
      <4>2. ~Threw("read")
        <5>1. Threw("read") => req'.old = req.old
          BY <1>0, ThrewKeeps DEF Kept, Calls
        <5> QED BY <3>1, <3>3, <5>1
      <4> QED BY <1>0, <4>1, <4>2, ReadWhen
    <3>6. "remove" \in Todo' /\ "again" \notin Todo'
      BY <2>8 DEF LookedAgain, Rolling, Swapping, Renewing, Answering, Register, Cleanup
    <3> QED BY <1>c, <2>d, <3>1, <3>2, <3>3, <3>4, <3>5, <3>6 DEF SingleInv
  <2>9. CASE Begun
    <3>1. req'.new = 0 /\ req'.op # "none" /\ req = Rest /\ UNCHANGED box /\ Existing' = Existing /\ req.old = 0
      <4>1. req = Rest /\ UNCHANGED box
        BY <2>9 DEF Begun
      <4> QED BY <1>0, <2>9, <4>1, BegunSets, RestTypes DEF Existing, Exists
    <3>2. \/ leaked' = leaked /\ req'.old = 0 /\ Todo' = {"read"} /\ req'.op # "delete"
          \/ /\ leaked' = Others(getById) /\ req'.old = getById /\ getById # 0
             /\ \/ req'.op = "delete" /\ Todo' = {"inspect", "stop", "remove", "volumes"}
                \/ req'.op = "reconfigure" /\ (Todo' = {} \/ Todo' = Swap \ {"mounts", "inspect"})
      BY <1>0, <2>9, BegunSets DEF Begun, SwapBegun, ReconfigureBegun, DeleteBegun
    <3>3. "again" \notin Todo' /\ ("create" \in Todo' => "remove" \in Todo')
          /\ (req'.op = "delete" => "remove" \in Todo')
      BY <3>2 DEF Swap, Cleanup, Register
    <3>4. req' # Rest
      BY <1>r, <3>1
    <3>5. /\ req'.old = 0 => \A d, e \in Ours' : d = e
          /\ req'.old # 0 => Ours' \subseteq {req'.old, req'.new}
      BY <2>d, <3>1, <3>2 DEF SingleInv, Ours
    <3> QED BY <1>c, <3>1, <3>3, <3>4, <3>5 DEF SingleInv
  <2>10. CASE req' = Rest /\ last' = last /\ \E host \in YesNo : dies(host)
    <3>1. leaked' = leaked \union ({req.old, req.new} \intersect Existing)
      BY <2>10 DEF dies
    <3>2. Ours' \subseteq Ours \ {req.old, req.new}
      BY <2>0, <3>1 DEF Ours
    <3>3. \A d, e \in Ours' : d = e
      BY <3>2 DEF SingleInv
    <3>4. last'.op = "delete" => Ours' = {}
      <4>1. req # Rest => last'.op = "none"
        BY <1>0, <2>10 DEF OldInv, NoAnswer
      <4> QED BY <2>10, <3>2, <4>1 DEF SingleInv
    <3> QED BY <1>c, <1>r, <2>10, <3>3, <3>4 DEF SingleInv
  <2>11. CASE req' = Rest /\ answer
    <3>1. Todo = {} /\ req # Rest /\ last'.op = req.op /\ UNCHANGED <<box, leaked>>
      BY <2>11, Pieces DEF answer, Todo
    <3>2. Ours' = Ours
      BY <3>1 DEF Ours, Existing, Exists
    <3>3. \A d, e \in Ours : d = e
      <4>1. CASE req.old = 0
        BY <4>1 DEF SingleInv
      <4>2. CASE req.old # 0
        <5>1. Ours \subseteq {req.old, req.new} /\ 0 \notin Ours
          BY <1>0, <4>2 DEF SingleInv, Ours
        <5>2. req.new # 0 => req.old \notin Ours \/ req.new \notin Ours
          <6>1. req.op = "rolling" /\ req.new # 0 => req.old \notin Ours \/ req.new \notin Ours
            BY <3>1 DEF SingleInv
          <6>2. req.op # "rolling" /\ req.new # 0 => req.old \notin Existing
            BY DEF SingleInv
          <6> QED BY <6>1, <6>2 DEF Ours
        <5> QED BY <5>1, <5>2
      <4> QED BY <4>1, <4>2
    <3>4. req.op = "delete" => Ours = {}
      <4>1. req.op = "delete" => req.new = 0 /\ req.old # 0 /\ req.old \notin Ours
        BY <1>0, <3>1 DEF OldInv, SingleInv
      <4>2. 0 \notin Ours
        BY <1>0 DEF Ours
      <4> QED BY <4>1, <4>2 DEF SingleInv
    <3> QED BY <1>c, <1>r, <2>11, <3>1, <3>2, <3>3, <3>4 DEF SingleInv
  <2> QED BY <1>0, <2>0, <2>3, <2>4, <2>5, <2>6, <2>7, <2>8, <2>9, <2>10, <2>11 DEF Move
<1> QED BY <1>b, <1>q

\* Between requests there is one container and what was left to itself; and there is never
\* a second writer of the volume.
THEOREM OneContainerLeft == Spec => []OneContainer
<1>1. Init => SingleInv
  <2> SUFFICES ASSUME Init PROVE SingleInv
    OBVIOUS
  <2>1. 1 \in Ids /\ \A d \in Ids : d # 1 => box[d].st = "none"
    BY BoundsAssumption DEF Init, NoBox, Ids
  <2>2. \A d \in Existing : d = 1
    BY <2>1 DEF Existing, Exists
  <2>3. /\ req.old = 0 /\ req.new = 0 /\ req.op = "none" /\ last.op = "deploy" /\ leaked = {}
        /\ spent.leaks = 0 /\ req.todo = <<>>
    BY DEF Init, Rest, NoAnswer
  <2>4. Todo = {} /\ Cardinality({}) = 0
    BY <2>3, Pieces, FS_EmptySet DEF Todo
  <2> QED BY <2>2, <2>3, <2>4 DEF SingleInv, Ours
<1>2. Core /\ SingleInv /\ [Next]_vars => SingleInv'
  BY MoveSingle
<1>3. Core /\ SingleInv => SettledSingle
  <2> SUFFICES ASSUME Core, SingleInv, req = Rest
               PROVE  /\ Cardinality(Existing) <= 1 + spent.leaks
                      /\ last.op = "delete" /\ leaked = {} => Existing = {}
    BY DEF SettledSingle
  <2>1. req.old = 0
    BY RestTypes
  <2>2. \A d, e \in Ours : d = e
    BY <2>1 DEF SingleInv
  <2>3. IsFiniteSet(leaked) /\ Cardinality(leaked) \in Nat /\ Cardinality(leaked) <= spent.leaks /\ spent.leaks \in Nat
    BY LeakedFinite DEF SingleInv, Core, TypeInv, Types
  <2>4. PICK x : Existing \subseteq leaked \union {x}
    BY <2>2 DEF Ours
  <2>5. /\ IsFiniteSet(leaked \union {x})
        /\ Cardinality(leaked \union {x}) = IF x \in leaked THEN Cardinality(leaked) ELSE Cardinality(leaked) + 1
    BY <2>3, FS_AddElement
  <2>6. Cardinality(Existing) <= Cardinality(leaked \union {x})
    BY <2>4, <2>5, FS_Subset
  <2>7. Cardinality(Existing) \in Nat
    BY MadeFinite, FS_CardinalityType
  <2>8. Cardinality(Existing) <= 1 + spent.leaks
    BY <2>3, <2>5, <2>6, <2>7
  <2>9. last.op = "delete" /\ leaked = {} => Existing = {}
    BY DEF SingleInv, Ours
  <2> QED BY <2>8, <2>9
<1>4. Core /\ HeldInv /\ SingleInv => SingleWriter
  <2> SUFFICES ASSUME Core, HeldInv, SingleInv PROVE SingleWriter
    OBVIOUS
  <2> DEFINE W == {d \in Running \ leaked : box[d].vol = "yes"}
  <2>1. W \subseteq Ours /\ 0 \notin Ours
    BY BoundsAssumption DEF Running, Existing, Exists, Ours, Ids
  <2>2. \A d, e \in W : d = e
    <3>1. CASE req.old = 0
      BY <2>1, <3>1 DEF SingleInv
    <3>2. CASE req.old # 0 /\ req.op # "rolling"
      BY <2>1, <3>2 DEF SingleInv, Ours
    <3>3. CASE req.old # 0 /\ req.op = "rolling"
      <4>1. mcp = "no"
        BY <3>3 DEF Core, ReqInv, OldInv, TypeInv, Types, YesNo
      <4>2. \A d \in Existing : box[d].vol = "no"
        BY <3>3, <4>1 DEF HeldInv, VolumeInv
      <4> QED BY <2>1, <4>2 DEF Ours
    <3> QED BY <3>1, <3>2, <3>3
  <2>3. Cardinality(W) <= 1
    <3>1. CASE W = {}
      BY <3>1, FS_EmptySet
    <3>2. CASE W # {}
      <4>1. PICK x : x \in W
        BY <3>2
      <4>2. W = {x}
        BY <2>2, <4>1
      <4> HIDE DEF W
      <4> QED BY <4>2, FS_Singleton
    <3> QED BY <3>1, <3>2
  <2> QED BY <2>3 DEF SingleWriter
<1>5. Core /\ HeldInv /\ [Next]_vars => HeldInv'
  BY MoveNew, MoveVolume, MoveAnswer DEF HeldInv
<1>6. Core /\ HeldInv /\ SingleInv => OneContainer
  BY <1>3, <1>4 DEF OneContainer
<1> QED BY <1>1, <1>2, <1>5, <1>6, CoreInit, CoreNext, HeldInit, PTL DEF Spec

-----------------------------------------------------------------------------
(* A rolling redeploy leaves the app serving.                               *)

\* A rolling redeploy that has failed only undoes; what makes the new container serve
\* comes before the old one is stopped.
RollInv ==
    req.op = "rolling" =>
    /\ req.at # "none" => Todo \subseteq {"stopNew", "removeNew"}
    /\ Todo \cap {"stopNew", "removeNew"} # {} => req.at # "none"
    /\ Todo \cap {"start", "address", "health"} # {} => "stop" \in Todo

\* Which of the two containers of a rolling redeploy serves.
ServeInv ==
    spent.exits = 0 =>
    /\ req.op = "rolling" /\ req.old # 0 =>
         /\ req.at \notin {"none", "look"} => req.old \in Running
         /\ req.at = "none" /\ "stop" \in Todo => req.old \in Running
         /\ req.at = "none" /\ "start" \notin Todo => req.new \in Running
    /\ spent.reboots = 0 /\ req = Rest /\ last.op = "rolling" /\ last.at \notin {"look", "read"} => Running # {}

\* Every step keeps RollInv.
LEMMA MoveRoll ==
    ASSUME Core, RollInv, [Next]_vars
    PROVE  RollInv'
<1>0. Move /\ req \in Request /\ TypeInv /\ ListInv /\ OldInv /\ AheadInv
  BY Moves DEF Core, TypeInv, Types, ReqInv
<1> SUFFICES ASSUME req'.op = "rolling" PROVE RollInv'
  BY DEF RollInv
<1>1. CASE UNCHANGED <<mcp, req, last>>
  BY <1>1 DEF RollInv, Todo
<1>2. CASE Went
  <2>1. PICK s \in Calls : Gone(s)
    BY <1>2 DEF Went
  <2>2. req.op = "rolling" /\ req'.at = req.at /\ Todo' = Todo \ {s} /\ Due(s)
    BY <1>0, <2>1, GoneKeeps DEF Kept, Gone
  <2>3. s = "stop" => Todo \cap {"start", "address", "health"} = {}
    <3>1. \A x \in {"start", "address", "health"} : /\ <<x, "stop">> \in Order(req.op)
                                                    /\ <<x, "stop">>[1] = x /\ <<x, "stop">>[2] = "stop"
      BY <2>2 DEF Order
    <3> QED BY <2>2, <3>1 DEF Due
  <2> QED BY <2>2, <2>3 DEF RollInv
<1>3. CASE Failed
  <2>1. PICK s \in Calls : Threw(s)
    BY <1>3 DEF Failed
  <2>2. req.op = "rolling"
    BY <1>0, <2>1, ThrewKeeps DEF Kept
  <2>3. CASE Looked(s)
    <3>1. Todo' = {"look"} /\ req'.at = req.at /\ s \in Todo /\ s \in {"stop", "remove"}
      <4>1. Todo' = {"look"} /\ s \in Todo /\ s \in {"stop", "remove"}
        BY <2>3 DEF Looked, Due
      <4>2. req'.at = req.at
        <5>1. req' = [req EXCEPT !.todo = <<"look">>]
          BY <2>3 DEF Looked
        <5> QED BY <1>0, <5>1 DEF Request
      <4> QED BY <4>1, <4>2
    <3>2. req.at = "none"
      BY <2>2, <3>1 DEF RollInv
    <3> QED BY <2>2, <3>1, <3>2 DEF RollInv
  <2>4. CASE Quit(s)
    <3>1. Todo' = {}
      BY <2>4 DEF Quit
    <3> QED BY <3>1 DEF RollInv
  <2>5. CASE Undone(s)
    <3>1. Todo' = {"stopNew", "removeNew"}
      BY <2>2, <2>5 DEF Undone
    <3>2. req'.at = s
      <4>1. PICK b, x : req' = [req EXCEPT !.at = s, !.blame = b, !.todo = undo(req), !.res = x]
        BY <2>5 DEF Undone
      <4> QED BY <1>0, <4>1 DEF Request
    <3>3. s # "none"
      BY DEF Calls
    <3> QED BY <3>1, <3>2, <3>3 DEF RollInv
  <2>6. ~Skipped(s)
    BY <2>2 DEF Skipped
  <2> QED BY <2>1, <2>3, <2>4, <2>5, <2>6 DEF Threw
<1>4. ~Appended
  BY <1>0, AppendedKeeps DEF Appended, Kept
<1>5. CASE Created
  <2>1. req.op = "rolling" /\ req'.at = req.at /\ Todo' = Todo \ {"create"}
    BY <1>0, <1>5, CreatedKeeps DEF Kept, Created
  <2> QED BY <2>1 DEF RollInv
<1>6. ~Reverted
  BY <1>0, RevertedSets
<1>7. CASE LookedAgain
  <2>1. req.op = "rolling" /\ req'.at = req.at /\ Todo' = Rolling /\ "read" \in Todo
    BY <1>0, <1>7, LookedSets DEF LookedAgain, Due
  <2>2. req.at = "none"
    BY <2>1 DEF RollInv
  <2> QED BY <2>1, <2>2 DEF RollInv, Rolling
<1>8. CASE Begun
  <2>1. Todo' = {"read"} /\ req'.at = "none"
    BY <1>0, <1>8, BegunSets
  <2> QED BY <2>1 DEF RollInv
<1>9. req' # Rest
  BY RestTypes
<1> QED BY <1>0, <1>1, <1>2, <1>3, <1>4, <1>5, <1>6, <1>7, <1>8, <1>9 DEF Move

\* Who runs goes on running, until it exits, is stopped or removed, or the host goes down.
LEMMA RunMoves ==
    ASSUME Core, [Next]_vars, spent'.exits = 0
    PROVE  /\ spent.exits = 0
           /\ spent'.reboots = 0 => spent.reboots = 0
           /\ \A d \in Running : \/ d \in Running'
                                 \/ d = req.old /\ req' # req /\ (At("stop") \/ At("remove"))
                                 \/ d = req.new /\ (At("stopNew") \/ At("removeNew"))
                                 \/ spent'.reboots # 0 /\ req' = Rest
<1> DEFINE Ran == /\ spent.exits = 0
                  /\ spent'.reboots = 0 => spent.reboots = 0
                  /\ \A d \in Running : \/ d \in Running'
                                        \/ d = req.old /\ req' # req /\ (At("stop") \/ At("remove"))
                                        \/ d = req.new /\ (At("stopNew") \/ At("removeNew"))
                                        \/ spent'.reboots # 0 /\ req' = Rest
<1>0. /\ spent \in [mishaps : Nat, exits : Nat, reboots : Nat, requests : Nat, leaks : Nat, rebinds : Nat]
      /\ req \in Request /\ box \in [Ids -> Box] /\ spent.exits + 1 # 0 /\ spent.reboots + 1 # 0
  <2>1. spent \in [mishaps : Nat, exits : Nat, reboots : Nat, requests : Nat, leaks : Nat, rebinds : Nat]
        /\ req \in Request /\ box \in [Ids -> Box]
    BY DEF Core, TypeInv, Types
  <2>2. spent.exits \in Nat /\ spent.reboots \in Nat
    BY <2>1
  <2> QED BY <2>1, <2>2
<1> DEFINE Same2 == spent'.exits = spent.exits /\ spent'.reboots = spent.reboots
<1>r. (Refuses => Same2) /\ (\A d : Leaves(d) => Same2) /\ (UNCHANGED spent => Same2)
  BY <1>0 DEF Refuses, Leaves
<1>1. ASSUME Same2, \A d \in Running : d \in Running' PROVE Ran
  BY <1>1
<1>b. ASSUME Same2, box' = box PROVE Ran
  BY <1>b, <1>1 DEF Running
<1> HIDE DEF Ran, Same2
<1>2. (UNCHANGED vars \/ dial \/ respond) => Ran
  BY <1>r, <1>b DEF vars, dial, respond
<1>3. Requests => Ran
  <2>1. Begun => Same2 /\ box' = box
    BY <1>0 DEF Begun, Same2
  <2> QED BY <1>b, <2>1, BegunWhen DEF Core
<1>4. (read \/ pullImage \/ mountsForMcpV3Upgrade \/ getInternalUrl \/ waitForHealthy \/ inspectContainer
       \/ look \/ removeVolume \/ revert \/ answer) => Ran
  BY <1>r, <1>b DEF read, pullImage, mountsForMcpV3Upgrade, getInternalUrl, waitForHealthy, inspectContainer,
        look, removeVolume, revert, answer
<1>5. (persistStore \/ persistLegacy \/ registerSocket \/ close \/ closed \/ rmDirectory \/ rmStore
       \/ sweepOrphanBrokerState) => Ran
  BY <1>r, <1>b DEF persistStore, persistLegacy, registerSocket, close, closed, rmDirectory, rmStore,
        sweepOrphanBrokerState
<1>6. rebindMcpBrokers => Ran
  <2>1. rebindMcpBrokers => Same2 /\ box' = box
    BY <1>0, <1>r DEF rebindMcpBrokers, Same2
  <2> QED BY <1>b, <2>1
<1>m. ASSUME NEW s \in {"stop", "remove"}, At(s), Go \/ Throws PROVE req' # req
  <2>1. Go => req' # req
    BY <1>m, GoneWhen, GoneActs DEF Core
  <2>2. Throws => req' # req
    <3>1. SUFFICES ASSUME Throws PROVE Todo' # Todo
      BY DEF Todo
    <3>2. Threw(s) /\ s \in Todo
      BY <1>m, <3>1, ThrewWhen, DueWhen DEF Core, Due
    <3>3. Todo' = Todo \ {s} \/ Todo' = {"look"} \/ Todo' = {}
      <4>1. Skipped(s) => Todo' = Todo \ {s}
        BY DEF Skipped
      <4>2. Looked(s) => Todo' = {"look"}
        BY DEF Looked
      <4>3. Quit(s) => Todo' = {}
        BY DEF Quit
      <4>4. ~Undone(s)
        BY DEF Undone
      <4> QED BY <3>2, <4>1, <4>2, <4>3, <4>4 DEF Threw
    <3> QED BY <3>2, <3>3
  <2> QED BY <1>m, <2>1, <2>2
<1>7. ASSUME NEW s \in {"stop", "stopNew"}, stopContainer(s) PROVE Ran
  <2>1. Same2 /\ At(s)
    BY <1>7, <1>r DEF stopContainer
  <2>m. s = "stop" => req' # req
    BY <1>7, <1>m DEF stopContainer
  <2>2. \A d \in Ids : d # Target(s) => box'[d] = box[d]
    BY <1>0, <1>7 DEF stopContainer
  <2>3. \A d \in Running : d # Target(s) => d \in Running'
    BY <2>2 DEF Running
  <2> QED BY <1>7, <2>1, <2>3, <2>m, <1>r DEF Ran, Same2, Target
<1>8. ASSUME NEW s \in {"remove", "removeNew"}, removeContainer(s) PROVE Ran
  <2>1. Same2 /\ At(s)
    BY <1>8, <1>r DEF removeContainer
  <2>m. s = "remove" => req' # req
    BY <1>8, <1>m DEF removeContainer
  <2>2. \A d \in Ids : d # Target(s) => box'[d] = box[d]
    BY <1>0, <1>8 DEF removeContainer
  <2>3. \A d \in Running : d # Target(s) => d \in Running'
    BY <2>2 DEF Running
  <2> QED BY <1>8, <2>1, <2>3, <2>m, <1>r DEF Ran, Same2, Target
<1>9. ASSUME createAppContainer PROVE Ran
  <2>1. Same2
    BY <1>9, <1>r DEF createAppContainer
  <2>2. Due("create")
    BY <1>9, DueWhen DEF Core, createAppContainer
  <2>3. Cardinality(Made) + 1 \notin Made
    BY <2>2, MadeRoom DEF Core, ReqInv
  <2>4. \A d \in Ids : d # Cardinality(Made) + 1 => box'[d] = box[d]
    <3> DEFINE n == Cardinality(Made) + 1
    <3>1. \/ box' = box
          \/ \E x : box' = [box EXCEPT ![n] = x]
      BY <1>9 DEF createAppContainer
    <3> HIDE DEF n
    <3>2. \A d \in Ids : d # n => box'[d] = box[d]
      BY <1>0, <3>1
    <3> QED BY <3>2 DEF n
  <2>5. Running \subseteq Made
    BY DEF Running, Made
  <2> QED BY <1>1, <2>1, <2>3, <2>4, <2>5 DEF Running
<1>10. ASSUME startContainer PROVE Ran
  <2>1. Same2
    BY <1>10, <1>r DEF startContainer
  <2>2. \A d \in Ids : box[d].st = "running" => box'[d].st = "running"
    <3>1. \A d \in Ids : "st" \in DOMAIN box[d] /\ box[d] \in Box
      BY <1>0 DEF Box
    <3>2. CASE box' = [box EXCEPT ![req.new].st = "running", ![req.new].want = "running"]
      <4>1. \A d \in Ids : d # req.new => box'[d] = box[d]
        BY <1>0, <3>2
      <4>2. req.new \in Ids => box'[req.new] = [box[req.new] EXCEPT !.st = "running", !.want = "running"]
        BY <1>0, <3>2
      <4>3. req.new \in Ids => box'[req.new].st = "running"
        BY <3>1, <4>2 DEF Box
      <4> QED BY <4>1, <4>3
    <3>3. CASE box' = box
      BY <3>3
    <3> QED BY <1>10, <3>2, <3>3 DEF startContainer
  <2> QED BY <1>1, <2>1, <2>2 DEF Running
<1>11. ASSUME NEW d \in Ids, exits(d) PROVE FALSE
  <2>1. spent'.exits = spent.exits + 1
    BY <1>0, <1>11 DEF exits
  <2> QED BY <1>0, <2>1
<1>12. ASSUME NEW d \in Ids, recoverDesiredState(d) PROVE Ran
  <2>1. Same2
    BY <1>12, <1>r DEF recoverDesiredState
  <2>2. \A e \in Ids : box[e].st = "running" => box'[e].st = "running"
    <3>1. box[d].st = "running" => box' = box
      BY <1>12 DEF recoverDesiredState
    <3>2. \A e \in Ids : e # d => box'[e] = box[e]
      BY <1>0, <1>12 DEF recoverDesiredState
    <3> QED BY <3>1, <3>2
  <2> QED BY <1>1, <2>1, <2>2 DEF Running
<1>13. ASSUME NEW host \in YesNo, dies(host) PROVE Ran
  <2>1. spent'.exits = spent.exits /\ spent'.reboots = IF host = "yes" THEN spent.reboots + 1 ELSE spent.reboots
    BY <1>0, <1>13 DEF dies
  <2>2. CASE host = "yes"
    <3>1. req' = Rest
      BY <1>13 DEF dies
    <3>2. spent'.reboots # 0
      BY <1>0, <2>1, <2>2
    <3> QED BY <2>1, <3>1, <3>2 DEF Ran
  <2>3. CASE host = "no"
    <3>1. box' = box
      BY <1>13, <2>3 DEF dies
    <3>2. host # "yes"
      BY <2>3
    <3> QED BY <1>b, <2>1, <3>1, <3>2 DEF Same2
  <2> QED BY <2>2, <2>3 DEF YesNo
<1>14. Steps => Ran
  <2>1. Steps /\ ~(\E s \in {"stop", "stopNew"} : stopContainer(s)) /\ ~(\E s \in {"remove", "removeNew"} : removeContainer(s))
        => \/ read \/ pullImage \/ mountsForMcpV3Upgrade \/ getInternalUrl \/ waitForHealthy \/ inspectContainer
              \/ look \/ removeVolume \/ revert \/ answer
           \/ persistStore \/ persistLegacy \/ registerSocket \/ close \/ closed \/ rmDirectory \/ rmStore
              \/ sweepOrphanBrokerState
           \/ rebindMcpBrokers \/ createAppContainer \/ startContainer
    BY DEF Steps
  <2>2. (\E s \in {"stop", "stopNew"} : stopContainer(s)) \/ (\E s \in {"remove", "removeNew"} : removeContainer(s))
        => Ran
    BY <1>7, <1>8
  <2> QED BY <1>4, <1>5, <1>6, <1>9, <1>10, <2>1, <2>2
<1>15. Ran
  BY <1>2, <1>3, <1>11, <1>12, <1>13, <1>14 DEF Next
<1> QED BY <1>15 DEF Ran

\* Every step keeps ServeInv.
LEMMA MoveServe ==
    ASSUME Core, RollInv, ServeInv, [Next]_vars
    PROVE  ServeInv'
<1> SUFFICES ASSUME spent'.exits = 0 PROVE ServeInv'
  BY DEF ServeInv
<1>0. Move /\ req \in Request /\ TypeInv /\ ListInv /\ OldInv /\ AheadInv /\ MadeInv /\ BuiltInv
  BY Moves DEF Core, TypeInv, Types, ReqInv
<1>e. /\ spent.exits = 0
      /\ spent'.reboots = 0 => spent.reboots = 0
      /\ \A d \in Running : \/ d \in Running'
                            \/ d = req.old /\ req' # req /\ (At("stop") \/ At("remove"))
                            \/ d = req.new /\ (At("stopNew") \/ At("removeNew"))
                            \/ spent'.reboots # 0 /\ req' = Rest
  BY RunMoves
<1>i. /\ req.op = "rolling" /\ req.old # 0 =>
           /\ req.at \notin {"none", "look"} => req.old \in Running
           /\ req.at = "none" /\ "stop" \in Todo => req.old \in Running
           /\ req.at = "none" /\ "start" \notin Todo => req.new \in Running
      /\ spent.reboots = 0 /\ req = Rest /\ last.op = "rolling" /\ last.at \notin {"look", "read"} => Running # {}
  BY <1>e DEF ServeInv
<1>a. \A s : At(s) => s \in Todo
  BY <1>0, DueWhen DEF Due
\* The old container of a rolling redeploy is not the new one.
<1>n. 0 \notin Running /\ (req.new # 0 => req.new # req.old)
  BY <1>0, BoundsAssumption DEF MadeInv, Running, Ids
<1>k. ASSUME req.op = "rolling", req' # Rest
      PROVE  /\ req.old \in Running /\ ~At("stop") /\ ~At("remove") => req.old \in Running'
             /\ req.new \in Running /\ req.at = "none" => req.new \in Running'
  <2>1. req.at = "none" => ~At("stopNew") /\ ~At("removeNew")
    BY <1>k, <1>a DEF RollInv
  <2> QED BY <1>e, <1>k, <1>n, <2>1
\* A request that is under way has no answer to be held to.
<1>h. ASSUME req' # Rest,
             req'.op = "rolling" /\ req'.old # 0 =>
               /\ req'.at \notin {"none", "look"} => req'.old \in Running'
               /\ req'.at = "none" /\ "stop" \in Todo' => req'.old \in Running'
               /\ req'.at = "none" /\ "start" \notin Todo' => req'.new \in Running'
      PROVE  ServeInv'
  BY <1>h DEF ServeInv
<1>r. \A d \in {"stop", "remove"} : req.op = "rolling" /\ d \in Todo => req.at = "none"
  BY DEF RollInv
<1>1. CASE UNCHANGED <<mcp, req, last>>
  <2>1. Todo' = Todo
    BY <1>1 DEF Todo
  <2>2. CASE req = Rest
    <3>1. \A s : ~At(s)
      BY <1>0, <1>a, <2>2, RestTypes DEF ListInv
    <3>2. spent'.reboots = 0 => Running \subseteq Running'
      BY <1>e, <3>1
    <3>3. req'.op = "none"
      BY <1>1, <2>2, RestTypes
    <3> QED BY <1>1, <1>e, <1>i, <3>2, <3>3 DEF ServeInv
  <2>3. CASE req # Rest
    <3>1. req.op = "rolling" => /\ req.old \in Running => req.old \in Running'
                                /\ req.new \in Running /\ req.at = "none" => req.new \in Running'
      <4>1. req.op = "rolling" /\ req.at = "none" => ~At("stopNew") /\ ~At("removeNew")
        BY <1>a DEF RollInv
      <4> QED BY <1>1, <1>e, <1>n, <2>3, <4>1
    <3> QED BY <1>1, <1>h, <1>i, <2>1, <2>3, <3>1
  <2> QED BY <2>2, <2>3
<1>2. CASE Went
  <2>1. PICK s \in Calls : Gone(s)
    BY <1>2 DEF Went
  <2>2. Kept /\ req'.new = req.new /\ req'.at = req.at /\ Todo' = Todo \ {s} /\ At(s) /\ Due(s) /\ req' # Rest /\ req' # req
    BY <1>0, <2>1, GoneKeeps, GoneActs DEF Gone
  <2>3. \A x : At(x) => x = s
    BY <2>2 DEF At
  <2>4. SUFFICES ASSUME req.op = "rolling", req.old # 0 PROVE ServeInv'
    BY <1>h, <2>2 DEF Kept
  <2>5. req'.at \notin {"none", "look"} => req'.old \in Running'
    <3>1. req.at # "none" => s \notin {"stop", "remove"}
      BY <1>r, <2>2, <2>4, <1>a
    <3> QED BY <1>i, <1>k, <2>2, <2>3, <2>4, <3>1 DEF Kept
  <2>6. req'.at = "none" /\ "stop" \in Todo' => req'.old \in Running'
    <3>1. SUFFICES ASSUME req.at = "none", "stop" \in Todo, s # "stop" PROVE req.old \in Running'
      BY <2>2 DEF Kept
    <3>2. s # "remove"
      <4>1. <<"stop", "remove">> \in Order(req.op) /\ <<"stop", "remove">>[1] = "stop" /\ <<"stop", "remove">>[2] = "remove"
        BY <2>4 DEF Order
      <4> QED BY <2>2, <3>1, <4>1 DEF Due
    <3> QED BY <1>i, <1>k, <2>2, <2>3, <2>4, <3>1, <3>2
  <2>7. req'.at = "none" /\ "start" \notin Todo' => req'.new \in Running'
    <3>1. SUFFICES ASSUME req.at = "none", "start" \notin Todo' PROVE req.new \in Running'
      BY <2>2 DEF Kept
    <3>2. CASE s = "start"
      <4>1. startContainer
        BY <2>2, <3>2, Acts
      <4>2. ~Throws
        <5>1. SUFFICES ASSUME Throws PROVE FALSE
          OBVIOUS
        <5>2. Threw("start")
          BY <1>0, <2>2, <3>2, <5>1, ThrewWhen
        <5>3. Undone("start")
          BY <2>4, <5>2 DEF Threw, Skipped, Looked, Quit
        <5>4. "removeNew" \in Todo' /\ "start" \in Todo
          BY <1>a, <2>2, <3>2, <5>3 DEF Undone
        <5>5. Todo' \subseteq Todo /\ "removeNew" \in Todo
          BY <2>2, <5>4
        <5> QED BY <1>0, <2>4, <5>4, <5>5 DEF ListInv, Rolling
      <4>3. box' = [box EXCEPT ![req.new].st = "running", ![req.new].want = "running"]
        BY <4>1, <4>2 DEF startContainer
      <4>4. req.new \in Ids /\ box \in [Ids -> Box]
        <5>1. "create" \notin Todo
          <6>1. <<"create", "start">> \in Order(req.op) /\ <<"create", "start">>[1] = "create" /\ <<"create", "start">>[2] = "start"
            BY DEF Order
          <6> QED BY <2>2, <3>2, <6>1 DEF Due
        <5>2. req.new \in Existing
          BY <1>0, <1>a, <2>2, <2>4, <3>2, <5>1 DEF BuiltInv, Using
        <5> QED BY <1>0, <5>2 DEF Existing, TypeInv, Types
      <4>5. box'[req.new] = [box[req.new] EXCEPT !.st = "running", !.want = "running"] /\ box[req.new] \in Box
        BY <4>3, <4>4
      <4>6. box'[req.new].st = "running"
        BY <4>5 DEF Box
      <4> QED BY <4>4, <4>6 DEF Running
    <3>3. CASE s # "start"
      BY <1>i, <1>k, <2>2, <2>4, <3>1, <3>3
    <3> QED BY <3>2, <3>3
  <2> QED BY <1>h, <2>2, <2>5, <2>6, <2>7
<1>3. CASE Failed
  <2>1. PICK s \in Calls : Threw(s) /\ s \notin Cleanup \union {"stopNew", "removeNew", "again", "bind"}
    BY <1>3 DEF Failed
  <2>2. Kept /\ req'.new = req.new /\ Due(s) /\ s \in Todo /\ At(s) /\ req.op # "none"
    <3>1. Due(s)
      BY <2>1 DEF Threw, Skipped, Looked, Quit, Undone
    <3> QED BY <1>0, <2>1, <3>1, ThrewKeeps, DueAt DEF Due
  <2>3. req' # Rest /\ (\A x : At(x) => x = s)
    BY <2>2, RestTypes DEF Kept, At
  <2>4. SUFFICES ASSUME req.op = "rolling", req.old # 0 PROVE ServeInv'
    BY <1>h, <2>2, <2>3 DEF Kept
  <2>5. req.at = "none"
    BY <2>1, <2>2, <2>4 DEF RollInv
  <2>6. CASE Looked(s)
    <3>1. Todo' = {"look"} /\ s \in {"stop", "remove"} /\ req'.at = req.at
      <4>1. Todo' = {"look"} /\ s \in {"stop", "remove"}
        BY <2>6 DEF Looked
      <4>2. req' = [req EXCEPT !.todo = <<"look">>]
        BY <2>6 DEF Looked
      <4> QED BY <1>0, <4>1, <4>2 DEF Request
    <3>2. "start" \notin Todo
      <4>1. /\ <<"start", "stop">> \in Order(req.op) /\ <<"start", "stop">>[1] = "start" /\ <<"start", "stop">>[2] = "stop"
            /\ <<"stop", "remove">> \in Order(req.op) /\ <<"stop", "remove">>[1] = "stop" /\ <<"stop", "remove">>[2] = "remove"
        BY <2>4 DEF Order
      <4>2. s = "stop" => "start" \notin Todo
        BY <2>2, <4>1 DEF Due
      <4>3. s = "remove" => "stop" \notin Todo
        BY <2>2, <4>1 DEF Due
      <4> QED BY <2>4, <3>1, <4>2, <4>3 DEF RollInv
    <3>3. req.new \in Running'
      BY <1>i, <1>k, <2>3, <2>4, <2>5, <3>2
    <3> QED BY <1>h, <2>2, <2>3, <2>5, <3>1, <3>3
  <2>7. CASE Quit(s)
    <3>1. s \in {"read", "pull", "mounts"} /\ Todo' = {}
      BY <2>4, <2>7 DEF Quit
    <3>2. s = "pull"
      BY <1>0, <2>2, <2>4, <3>1 DEF ListInv, OldInv, Rolling
    <3>3. req.old \in Running'
      BY <1>0, <1>i, <1>k, <2>2, <2>3, <2>4, <2>5, <3>2 DEF AheadInv
    <3>4. req'.at = s
      <4>1. PICK b : req' = [req EXCEPT !.at = s, !.blame = b, !.todo = <<>>, !.res = "failed"]
        BY <2>7 DEF Quit
      <4> QED BY <1>0, <4>1 DEF Request
    <3> QED BY <1>h, <2>2, <2>3, <3>2, <3>3, <3>4 DEF Kept
  <2>8. CASE Undone(s)
    <3>1. req'.at = s
      <4>1. PICK b, x : req' = [req EXCEPT !.at = s, !.blame = b, !.todo = undo(req), !.res = x]
        BY <2>8 DEF Undone
      <4> QED BY <1>0, <4>1 DEF Request
    <3>2. s \in {"create", "start", "address", "health", "look"}
      BY <1>0, <2>1, <2>2, <2>4, <2>8 DEF ListInv, Rolling, Undone
    <3>3. s # "look" => req.old \in Running'
      <4>1. s # "look" => "stop" \in Todo
        BY <1>0, <2>2, <2>4, <3>2 DEF RollInv, AheadInv
      <4> QED BY <1>i, <1>k, <2>3, <2>4, <2>5, <3>2, <4>1
    <3>4. s # "none"
      BY <3>2
    <3> QED BY <1>h, <2>2, <2>3, <3>1, <3>3, <3>4 DEF Kept
  <2>9. ~Skipped(s)
    BY <2>4 DEF Skipped
  <2> QED BY <2>1, <2>6, <2>7, <2>8, <2>9 DEF Threw
<1>4. CASE Appended
  <2>1. req'.op = "delete"
    BY <1>0, <1>4, AppendedKeeps DEF Appended, Kept
  <2> QED BY <1>h, <2>1, RestTypes
<1>5. CASE Created
  <2>1. Kept /\ req'.at = req.at /\ Todo' = Todo \ {"create"} /\ At("create") /\ "create" \in Todo /\ req.op # "none"
    BY <1>0, <1>5, CreatedKeeps, DueAt DEF Created, Due
  <2>2. req' # Rest /\ ~At("stop") /\ ~At("remove")
    BY <2>1, RestTypes DEF Kept, At
  <2>3. req.op = "rolling" => req.at = "none" /\ {"stop", "start"} \subseteq Todo'
    BY <1>0, <2>1 DEF RollInv, AheadInv
  <2> QED BY <1>h, <1>i, <1>k, <2>1, <2>2, <2>3 DEF Kept
<1>6. CASE Reverted
  <2>1. req'.op = "upgrade"
    BY <1>0, <1>6, RevertedSets
  <2> QED BY <1>h, <2>1, RestTypes
<1>7. CASE LookedAgain
  <2>1. /\ req'.op = req.op /\ req'.old = getById /\ req'.at = req.at /\ "read" \in Todo /\ At("read") /\ req.op # "none"
        /\ getById # 0 /\ (req.op = "rolling" => box[getById].st = "running" /\ Todo' = Rolling)
    BY <1>0, <1>7, LookedSets, DueAt DEF LookedAgain, Due
  <2>2. req' # Rest /\ getById \in Ids /\ req.old = 0 /\ req' # req
    BY <1>0, <2>1, GetById, RestTypes DEF OldInv
  <2>3. box' = box
    BY <2>1, <2>2, Acts DEF read
  <2>4. req.op = "rolling" => getById \in Running' /\ req.at = "none" /\ "start" \in Todo'
    BY <2>1, <2>2, <2>3 DEF Running, RollInv, Rolling
  <2> QED BY <1>h, <2>1, <2>2, <2>4
<1>8. CASE Begun
  <2>1. req'.op # "none" /\ (req'.op = "rolling" => req'.old = 0)
    BY <1>0, <1>8, BegunSets
  <2> QED BY <1>h, <2>1, RestTypes
<1>9. CASE req' = Rest /\ last' = last /\ \E host \in YesNo : dies(host)
  <2>1. req'.op = "none"
    BY <1>9, RestTypes
  <2>2. req # Rest => last'.op = "none"
    BY <1>0, <1>9 DEF OldInv, NoAnswer
  <2>3. req = Rest /\ spent'.reboots = 0 => Running \subseteq Running'
    <3>1. req = Rest => \A s : ~At(s)
      BY <1>0, <1>a, RestTypes DEF ListInv
    <3> QED BY <1>e, <3>1
  <2> QED BY <1>9, <1>e, <1>i, <2>1, <2>2, <2>3 DEF ServeInv
<1>10. CASE req' = Rest /\ answer
  <2>1. Todo = {} /\ last'.op = req.op /\ last'.at = req.at /\ Running' = Running /\ req # Rest /\ req'.op = "none"
    BY <1>10, Pieces, RestTypes DEF answer, Todo, Running
  <2>2. req.op = "rolling" /\ req.at \notin {"look", "read"} => Running # {}
    BY <1>0, <1>i, <2>1 DEF OldInv
  <2> QED BY <2>1, <2>2 DEF ServeInv
<1> QED BY <1>0, <1>1, <1>2, <1>3, <1>4, <1>5, <1>6, <1>7, <1>8, <1>9, <1>10 DEF Move

\* A rolling redeploy leaves the app serving at every moment, also when it fails.
THEOREM RollingAlwaysServes == Spec => []RollingServes
<1>1. Init => RollInv /\ ServeInv
  <2>1. Init => req.op = "none" /\ last.op = "deploy"
    BY DEF Init, Rest, NoAnswer
  <2> QED BY <2>1 DEF RollInv, ServeInv
<1>2. Core /\ RollInv /\ ServeInv /\ [Next]_vars => RollInv' /\ ServeInv'
  BY MoveRoll, MoveServe
<1>3. RollInv /\ ServeInv => RollingServes
  BY DEF RollInv, ServeInv, RollingServes
<1> QED BY <1>1, <1>2, <1>3, CoreInit, CoreNext, PTL DEF Spec

-----------------------------------------------------------------------------
(* A container that was answered for gets its evidence.                     *)

\* A v3 request that has made its new container and has not failed.
Registers == /\ mcp = "yes" /\ req.op \in {"upgrade", "reconfigure"}
             /\ req.res \in {"ok", "recovered"} /\ req.new # 0

\* It has written the binding, bound the socket and started the container as far as
\* the calls say that are still to come.
RegisterInv ==
    Registers =>
      /\ req.new \in Existing
      /\ "store" \notin Todo => store = req.bind
      /\ "bind" \notin Todo => sock = [of |-> req.new, bind |-> req.bind]
      /\ "start" \notin Todo => /\ box[req.new].want = "running"
                                /\ spent.exits = 0 => req.new \in Running

\* The binding of the container of the last answer outlives the agent and the host,
\* and so does the wish that it runs.
Answered == /\ mcp = "yes" /\ req = Rest /\ last.res \in {"ok", "recovered"} /\ last.op # "delete"
            /\ last.box \in Existing
LastInv ==
    /\ spent.rebinds = 0 => agent.rebind = "ok"
    /\ Answered =>
         /\ store = Labels(last.box)
         /\ agent.phase # "rebind" /\ agent.rebind = "ok" =>
              /\ sock.of # 0
              /\ (\A d \in Existing \ {last.box} : Labels(d) # Labels(last.box))
                   => sock = [of |-> last.box, bind |-> Labels(last.box)]
         /\ box[last.box].want = "running"
         /\ spent.exits = 0 /\ spent.rebinds = 0 =>
              \/ last.box \in Running
              \/ box[last.box].st = "exited" /\ last.box \in agent.recover

\* Who writes the durable copy, and who binds or closes the socket.
LEMMA BindMoves ==
    ASSUME Core, [Next]_vars, agent.phase = "up"
    PROVE  /\ store' = store \/ (Gone("store") /\ store' = req.bind) \/ At("rmstore")
           /\ \/ sock' = sock \/ At("close") \/ \E host \in YesNo : dies(host)
              \/ Gone("bind") /\ sock' = [of |-> req.new, bind |-> req.bind]
<1> DEFINE Bound == /\ store' = store \/ (Gone("store") /\ store' = req.bind) \/ At("rmstore")
                    /\ \/ sock' = sock \/ At("close") \/ \E host \in YesNo : dies(host)
                       \/ Gone("bind") /\ sock' = [of |-> req.new, bind |-> req.bind]
<1>1. ASSUME UNCHANGED <<store, sock>> PROVE Bound
  BY <1>1
<1>2. CASE UNCHANGED vars \/ dial \/ respond
  BY <1>1, <1>2 DEF vars, dial, respond
<1>3. CASE Requests
  BY <1>1, <1>3, BegunWhen DEF Core, Begun
<1>4. CASE \/ read \/ pullImage \/ mountsForMcpV3Upgrade \/ createAppContainer \/ startContainer
           \/ getInternalUrl \/ waitForHealthy \/ inspectContainer \/ look \/ removeVolume \/ revert \/ answer
           \/ persistLegacy \/ closed \/ rmDirectory
  BY <1>1, <1>4 DEF read, pullImage, mountsForMcpV3Upgrade, createAppContainer, startContainer,
        getInternalUrl, waitForHealthy, inspectContainer, look, removeVolume, revert, answer, persistLegacy,
        closed, rmDirectory
<1>5. ASSUME NEW s, stopContainer(s) \/ removeContainer(s) PROVE Bound
  BY <1>1, <1>5 DEF stopContainer, removeContainer
<1>6. ASSUME NEW d \in Ids, exits(d) \/ recoverDesiredState(d) PROVE Bound
  BY <1>1, <1>6 DEF exits, recoverDesiredState
<1>7. ASSUME NEW host \in YesNo, dies(host) PROVE Bound
  BY <1>7 DEF dies
<1>8. CASE close \/ rmStore
  BY <1>8 DEF close, rmStore
<1>9. CASE rebindMcpBrokers \/ sweepOrphanBrokerState
  BY <1>9 DEF rebindMcpBrokers, sweepOrphanBrokerState
<1>10. CASE persistStore
  <2>1. CASE store \in {NoBind, req.bind}
    <3>1. At("store") /\ Go
      BY <1>10, <2>1 DEF persistStore, Persists
    <3>2. Gone("store")
      BY <3>1, GoneWhen DEF Core
    <3>3. store' = req.bind /\ sock' = sock
      BY <1>10, <2>1 DEF persistStore
    <3> QED BY <3>2, <3>3
  <2>2. CASE store \notin {NoBind, req.bind}
    BY <1>1, <1>10, <2>2 DEF persistStore
  <2> QED BY <2>1, <2>2
<1>11. CASE registerSocket
  <2>1. Gone("bind")
    BY <1>11, GoneWhen DEF registerSocket, Core
  <2> QED BY <1>11, <2>1 DEF registerSocket
<1> QED BY <1>2, <1>3, <1>4, <1>5, <1>6, <1>7, <1>8, <1>9, <1>10, <1>11 DEF Next, Steps

\* The wish that a container runs ends when it is stopped or removed.
LEMMA WantMoves ==
    ASSUME Core, [Next]_vars, NEW d \in Existing, d \in Existing', box[d].want = "running"
    PROVE  box'[d].want = "running" \/ At("stop") \/ At("stopNew")
<1> DEFINE Wanted == box'[d].want = "running" \/ At("stop") \/ At("stopNew")
<1>0. /\ box \in [Ids -> Box] /\ req \in Request /\ d \in Ids /\ 0 \notin Ids /\ d # 0
      /\ Target("remove") \in Ids \union {0} /\ Target("removeNew") \in Ids \union {0}
  BY BoundsAssumption DEF Core, TypeInv, Types, Existing, Ids, Target, Request
<1>1. ASSUME box' = box PROVE Wanted
  BY <1>1
<1>2. CASE UNCHANGED vars \/ dial \/ respond
  BY <1>1, <1>2 DEF vars, dial, respond
<1>3. CASE Requests
  BY <1>1, <1>3, BegunWhen DEF Core, Begun
<1>4. CASE \/ read \/ pullImage \/ mountsForMcpV3Upgrade
           \/ getInternalUrl \/ waitForHealthy \/ inspectContainer \/ look \/ removeVolume \/ revert \/ answer
           \/ persistStore \/ persistLegacy \/ registerSocket \/ close \/ closed \/ rmDirectory \/ rmStore
           \/ rebindMcpBrokers \/ sweepOrphanBrokerState
  BY <1>1, <1>4 DEF read, pullImage, mountsForMcpV3Upgrade, getInternalUrl, waitForHealthy,
        inspectContainer, look, removeVolume, revert, answer, persistStore, persistLegacy, registerSocket,
        close, closed, rmDirectory, rmStore, rebindMcpBrokers, sweepOrphanBrokerState
<1>5. ASSUME NEW s \in {"stop", "stopNew"}, stopContainer(s) PROVE Wanted
  BY <1>5 DEF stopContainer
<1>6. ASSUME NEW s \in {"remove", "removeNew"}, removeContainer(s) PROVE Wanted
  <2>0. Target(s) \in Ids \union {0}
    BY <1>0
  <2>1. box' = box \/ (Target(s) \in Ids /\ box' = [box EXCEPT ![Target(s)] = [NoBox EXCEPT !.st = "gone"]])
    BY <1>6, <2>0 DEF removeContainer
  <2> DEFINE c == Target(s)
  <2>2. ASSUME c \in Ids, box' = [box EXCEPT ![c] = [NoBox EXCEPT !.st = "gone"]] PROVE Wanted
    <3> HIDE DEF c
    <3>1. box'[c].st = "gone" /\ (d # c => box'[d] = box[d])
      BY <1>0, <2>2 DEF NoBox
    <3>2. d # c
      BY <3>1 DEF Existing, Exists
    <3> QED BY <3>1, <3>2
  <2> QED BY <1>1, <2>1, <2>2
<1>7. CASE createAppContainer
  <2>1. Due("create")
    BY <1>7, DueWhen DEF Core, createAppContainer
  <2>2. Cardinality(Made) + 1 \notin Made
    BY <2>1, MadeRoom DEF Core, ReqInv
  <2>3. d \in Made
    BY DEF Made, Existing, Exists
  <2>4. box'[d] = box[d]
    <3> DEFINE n == Cardinality(Made) + 1
    <3>1. \/ box' = box
          \/ \E x : box' = [box EXCEPT ![n] = x]
      BY <1>7 DEF createAppContainer
    <3> HIDE DEF n
    <3>2. d # n
      BY <2>2, <2>3 DEF n
    <3> QED BY <1>0, <3>1, <3>2
  <2> QED BY <2>4
<1>8. CASE startContainer
  <2>1. box' = box \/ box' = [box EXCEPT ![req.new].st = "running", ![req.new].want = "running"]
    BY <1>8 DEF startContainer
  <2>2. box[d] \in Box
    BY <1>0
  <2> QED BY <1>0, <2>1, <2>2 DEF Box
<1>9. ASSUME NEW e \in Ids, exits(e) \/ recoverDesiredState(e) PROVE Wanted
  <2>1. box' = box \/ \E st \in {"exited", "running"} : box' = [box EXCEPT ![e].st = st]
    BY <1>9 DEF exits, recoverDesiredState
  <2>2. box[d] \in Box
    BY <1>0
  <2> QED BY <1>0, <2>1, <2>2 DEF Box
<1>10. ASSUME NEW host \in YesNo, dies(host) PROVE Wanted
  <2>1. box' = box \/ box'[d] = box[d] \/ box'[d] = [box[d] EXCEPT !.st = "exited"]
    BY <1>0, <1>10 DEF dies
  <2>2. box[d] \in Box
    BY <1>0
  <2> QED BY <1>0, <2>1, <2>2 DEF Box
<1> QED BY <1>2, <1>3, <1>4, <1>5, <1>6, <1>7, <1>8, <1>9, <1>10 DEF Next, Steps

\* What such a request has behind it.
LEMMA RegistersPast ==
    ASSUME Core, Registers
    PROVE  /\ Todo \cap ({"create", "stop", "remove", "stopNew", "removeNew", "again"} \union Cleanup) = {}
           /\ \A s : At(s) => s \in Todo
           /\ req # Rest /\ agent.phase = "up"
<1>0. TypeInv /\ PhaseInv /\ AheadInv /\ req \in Request
  BY DEF Core, ReqInv, TypeInv, Types
<1>1. "create" \notin Todo
  BY <1>0 DEF Registers, AheadInv
<1>2. Todo \cap {"stop", "remove"} = {} /\ Todo \cap Cleanup = {}
  BY <1>0, <1>1 DEF Registers, AheadInv
<1>3. Todo \cap {"stopNew", "removeNew", "again"} = {}
  BY <1>0 DEF Registers, PhaseInv
<1>4. req # Rest
  BY RestTypes DEF Registers
<1> QED BY <1>0, <1>1, <1>2, <1>3, <1>4, DueWhen DEF Due, TypeInv, Types

\* The start of the new container: it runs, and is to run.
LEMMA StartGone ==
    ASSUME Core, [Next]_vars, Registers, req.new \in Existing, Gone("start")
    PROVE  box'[req.new].want = "running" /\ req.new \in Running'
<1>0. TypeInv /\ req' # req /\ req' # Rest /\ At("start") /\ req'.res = req.res
  BY GoneActs, GoneKeeps DEF Core, Calls
<1>1. startContainer
  BY <1>0, Acts
<1>2. ~Throws
  <2>1. SUFFICES ASSUME Throws PROVE FALSE
    OBVIOUS
  <2>2. Threw("start") /\ "start" \in Calls
    BY <1>0, <2>1, ThrewWhen
  <2>3. ~Skipped("start") /\ ~Looked("start")
    BY DEF Skipped, Looked, Registers
  <2> QED BY <1>0, <2>2, <2>3, ThrewSets DEF Registers
<1>3. box' = [box EXCEPT ![req.new].st = "running", ![req.new].want = "running"]
  BY <1>1, <1>2 DEF startContainer
<1>4. req.new \in Ids /\ box \in [Ids -> Box] /\ box[req.new] \in Box
  BY DEF Existing, Core, TypeInv, Types
<1>5. box'[req.new].want = "running" /\ box'[req.new].st = "running"
  BY <1>3, <1>4 DEF Box
<1> QED BY <1>4, <1>5 DEF Running

\* Every step keeps RegisterInv.
LEMMA MoveRegister ==
    ASSUME Core, RegisterInv, [Next]_vars
    PROVE  RegisterInv'
<1>0. Move /\ req \in Request /\ TypeInv /\ ListInv /\ OldInv /\ AheadInv /\ MadeInv /\ BuiltInv
  BY Moves DEF Core, TypeInv, Types, ReqInv
<1>1. CASE Building
  <2>1. Created
    BY <1>1 DEF Building
  <2>2. Kept /\ req'.new = Cardinality(Made) + 1 /\ Todo' = Todo \ {"create"} /\ "create" \in Todo
    BY <1>0, <2>1, CreatedKeeps DEF Created, Due
  <2>3. req'.new \in Existing'
    BY <1>1, <2>2, Builds DEF Core
  <2>4. Registers' => Register \union {"start"} \subseteq Todo'
    BY <1>0, <2>2 DEF Registers, Kept, AheadInv, Register
  <2> QED BY <2>3, <2>4 DEF RegisterInv, Register
<1>2. CASE ~Building
  \* The request goes on as it is, or past one of its calls.
  <2>k. ASSUME Registers, req' # Rest, req'.new = req.new, req'.bind = req.bind,
               \A x \in Todo \ Todo' : Gone(x)
        PROVE  RegisterInv'
    <3>1. /\ Todo \cap ({"create", "stop", "remove", "stopNew", "removeNew", "again"} \union Cleanup) = {}
          /\ (\A s : At(s) => s \in Todo) /\ agent.phase = "up"
      BY <2>k, RegistersPast
    <3>2. /\ req.new \in Existing
          /\ "store" \notin Todo => store = req.bind
          /\ "bind" \notin Todo => sock = [of |-> req.new, bind |-> req.bind]
          /\ "start" \notin Todo => /\ box[req.new].want = "running"
                                    /\ spent.exits = 0 => req.new \in Running
      BY <2>k DEF RegisterInv
    <3>3. req.new \in Existing'
      BY <1>2, <3>1, <3>2, NewStays
    <3>4. \A host \in YesNo : ~dies(host)
      BY <2>k DEF dies
    <3>5. ~At("close") /\ ~At("rmstore") /\ ~At("stop") /\ ~At("stopNew") /\ ~At("remove") /\ ~At("removeNew")
      BY <3>1 DEF Cleanup
    <3>6. "store" \notin Todo' => store' = req'.bind
      <4>1. store' = store \/ (Gone("store") /\ store' = req.bind)
        BY <3>1, <3>5, BindMoves
      <4>2. CASE Gone("store")
        <5>1. req' # req /\ At("store") /\ store \in {NoBind, req.bind}
          <6>1. req' # req /\ At("store") /\ req'.res = req.res
            BY <1>0, <4>2, GoneActs, GoneKeeps DEF Calls
          <6>2. Throws => Threw("store") /\ "store" \in Calls
            BY <1>0, <6>1, ThrewWhen
          <6>3. ~Skipped("store") /\ ~Looked("store")
            BY <2>k DEF Skipped, Looked, Registers
          <6>4. ~Throws
            BY <1>0, <2>k, <6>1, <6>2, <6>3, ThrewSets DEF Registers
          <6> QED BY <2>k, <6>1, <6>4, Acts DEF persistStore, Persists
        <5>2. persistStore
          BY <2>k, <5>1, Acts
        <5> QED BY <2>k, <5>1, <5>2 DEF persistStore
      <4> QED BY <2>k, <3>2, <4>1, <4>2
    <3>7. "bind" \notin Todo' => sock' = [of |-> req'.new, bind |-> req'.bind]
      <4>1. sock' = sock \/ (Gone("bind") /\ sock' = [of |-> req.new, bind |-> req.bind])
        BY <3>1, <3>4, <3>5, BindMoves
      <4>3. CASE Gone("bind")
        <5>1. req' # req /\ At("bind")
          BY <1>0, <4>3, GoneActs DEF Calls
        <5>2. registerSocket
          BY <2>k, <5>1, Acts
        <5> QED BY <2>k, <5>2 DEF registerSocket
      <4> QED BY <2>k, <3>2, <4>1, <4>3
    <3>8. "start" \notin Todo' => /\ box'[req.new].want = "running"
                                  /\ spent'.exits = 0 => req.new \in Running'
      <4>1. CASE "start" \in Todo
        BY <2>k, <3>2, <4>1, StartGone
      <4>2. CASE "start" \notin Todo
        <5>1. box'[req.new].want = "running"
          BY <3>2, <3>3, <3>5, <4>2, WantMoves
        <5>2. ASSUME spent'.exits = 0 PROVE req.new \in Running'
          <6>1. spent.exits = 0
            BY <5>2, RunMoves
          <6>2. req.new \in Running
            BY <3>2, <4>2, <6>1
          <6> QED BY <2>k, <3>5, <5>2, <6>2, RunMoves
        <5> QED BY <5>1, <5>2
      <4> QED BY <4>1, <4>2
    <3> QED BY <2>k, <3>3, <3>6, <3>7, <3>8 DEF RegisterInv
  <2>n. ASSUME ~Registers' PROVE RegisterInv'
    BY <2>n DEF RegisterInv
  <2>3. CASE UNCHANGED <<mcp, req, last>>
    <3>1. Todo' = Todo
      BY <2>3 DEF Todo
    <3>2. Registers' => Registers /\ req' # Rest
      BY <2>3, RestTypes DEF Registers
    <3> QED BY <2>3, <2>k, <2>n, <3>1, <3>2
  <2>4. CASE Went /\ mcp' = mcp
    <3>1. PICK s \in Calls : Gone(s)
      BY <2>4 DEF Went
    <3>2. /\ Kept /\ req'.new = req.new /\ req'.res = req.res /\ req' # Rest
          /\ Todo' = Todo \ {s}
      BY <1>0, <3>1, GoneKeeps, GoneActs DEF Gone
    <3>3. Registers' => Registers
      BY <2>4, <3>2 DEF Registers, Kept
    <3> QED BY <2>k, <2>n, <3>1, <3>2, <3>3 DEF Kept
  <2>5. CASE Failed
    <3>1. PICK s \in Calls : Threw(s)
      BY <2>5 DEF Failed
    <3>2. /\ Kept
          /\ Skipped(s) => req.op = "delete"
          /\ Looked(s) => req.op = "rolling"
          /\ Quit(s) \/ Undone(s) => req'.res \in {"failed", "unrecovered"} \/ Skipped(s) \/ Looked(s)
      BY <1>0, <3>1, ThrewKeeps, ThrewSets DEF Skipped, Looked
    <3> QED BY <2>n, <3>1, <3>2 DEF Registers, Kept, Threw
  <2>6. CASE Appended \/ Reverted \/ LookedAgain
    <3>1. Appended => req'.op = "delete"
      BY <1>0, AppendedKeeps DEF Appended, Kept
    <3>2. Reverted => req'.new = 0
      BY <1>0, RevertedSets
    <3>3. LookedAgain => req'.new = 0
      <4>1. LookedAgain => "read" \in Todo /\ req # Rest
        BY <1>0, DueAt DEF LookedAgain
      <4> QED BY <1>0, <4>1, LookedSets DEF OldInv
    <3> QED BY <2>6, <2>n, <3>1, <3>2, <3>3 DEF Registers
  <2>7. CASE Begun
    BY <1>0, <2>7, <2>n, BegunSets DEF Registers
  <2>8. CASE req' = Rest
    BY <2>8, <2>n, RestTypes DEF Registers
  <2>9. ~Created
    BY <1>2, CreatedBuilds
  <2> QED BY <1>0, <2>3, <2>4, <2>5, <2>6, <2>7, <2>8, <2>9 DEF Move
<1> QED BY <1>1, <1>2

\* A rebind that failed is counted.
LEMMA RebindCounted ==
    ASSUME Core, [Next]_vars, spent'.rebinds = 0
    PROVE  spent.rebinds = 0 /\ (agent'.rebind = agent.rebind \/ agent'.rebind = "ok")
<1> DEFINE Fine == spent.rebinds = 0 /\ (agent'.rebind = agent.rebind \/ agent'.rebind = "ok")
           Same3 == spent'.rebinds = spent.rebinds
<1>0. /\ spent \in [mishaps : Nat, exits : Nat, reboots : Nat, requests : Nat, leaks : Nat, rebinds : Nat]
      /\ agent \in [phase : {"up", "rebind", "sweep"}, rebind : {"ok", "failed"}, recover : SUBSET Ids]
      /\ spent.rebinds + 1 # 0
  <2>1. /\ spent \in [mishaps : Nat, exits : Nat, reboots : Nat, requests : Nat, leaks : Nat, rebinds : Nat]
        /\ agent \in [phase : {"up", "rebind", "sweep"}, rebind : {"ok", "failed"}, recover : SUBSET Ids]
    BY DEF Core, TypeInv, Types
  <2>2. spent.rebinds \in Nat
    BY <2>1
  <2> QED BY <2>1, <2>2
<1>r. (Refuses => Same3) /\ (\A d : Leaves(d) => Same3) /\ (UNCHANGED spent => Same3)
  BY <1>0 DEF Refuses, Leaves
<1>1. ASSUME Same3, agent'.rebind = agent.rebind PROVE Fine
  BY <1>1
<1> HIDE DEF Same3, Fine
<1>2. (UNCHANGED vars \/ dial \/ respond) => Fine
  BY <1>r, <1>1 DEF vars, dial, respond
<1>3. Requests => Fine
  <2>1. Begun => Same3 /\ agent' = agent
    BY <1>0 DEF Begun, Same3
  <2> QED BY <1>1, <2>1, BegunWhen DEF Core
<1>4. (read \/ pullImage \/ mountsForMcpV3Upgrade \/ createAppContainer \/ startContainer \/ getInternalUrl
       \/ waitForHealthy \/ inspectContainer \/ look \/ removeVolume \/ revert \/ answer) => Fine
  BY <1>r, <1>1 DEF read, pullImage, mountsForMcpV3Upgrade, createAppContainer, startContainer, getInternalUrl,
        waitForHealthy, inspectContainer, look, removeVolume, revert, answer
<1>5. (persistStore \/ persistLegacy \/ registerSocket \/ close \/ closed \/ rmDirectory \/ rmStore) => Fine
  BY <1>r, <1>1 DEF persistStore, persistLegacy, registerSocket, close, closed, rmDirectory, rmStore
<1>6. sweepOrphanBrokerState => Fine
  BY <1>0, <1>r, <1>1 DEF sweepOrphanBrokerState
<1>7. rebindMcpBrokers => Fine
  <2>1. CASE UNCHANGED spent /\ agent' = [agent EXCEPT !.phase = "sweep"]
    <3>1. agent'.rebind = agent.rebind
      BY <1>0, <2>1
    <3> QED BY <1>r, <1>1, <2>1, <3>1
  <2>2. ~(spent' = [spent EXCEPT !.mishaps = @ + 1, !.rebinds = @ + 1])
    BY <1>0
  <2> QED BY <2>1, <2>2 DEF rebindMcpBrokers
<1>8. ASSUME NEW s, stopContainer(s) \/ removeContainer(s) PROVE Fine
  <2>1. agent' = agent /\ Same3
    BY <1>8, <1>r DEF stopContainer, removeContainer
  <2> QED BY <1>1, <2>1
<1>9. ASSUME NEW d \in Ids, exits(d) \/ recoverDesiredState(d) PROVE Fine
  <2>1. Same3 /\ agent'.rebind = agent.rebind
    BY <1>0, <1>9, <1>r DEF exits, recoverDesiredState, Same3
  <2> QED BY <1>1, <2>1
<1>10. ASSUME NEW host \in YesNo, dies(host) PROVE Fine
  <2>1. Same3 /\ agent'.rebind = "ok"
    BY <1>0, <1>10 DEF dies, Same3
  <2> QED BY <2>1 DEF Fine, Same3
<1> QED BY <1>2, <1>3, <1>4, <1>5, <1>6, <1>7, <1>8, <1>9, <1>10 DEF Next, Steps, Fine

\* Between requests: who changes what an answered container depends on.
LEMMA MoveLast ==
    ASSUME Core, NewInv, RegisterInv, LastInv, [Next]_vars
    PROVE  LastInv'
<1>0. /\ Move /\ req \in Request /\ TypeInv /\ ListInv /\ OldInv /\ MadeInv /\ box \in [Ids -> Box]
      /\ 0 \notin Ids /\ \A d \in Ids : box[d] \in Box
      /\ agent \in [phase : {"up", "rebind", "sweep"}, rebind : {"ok", "failed"}, recover : SUBSET Ids]
      /\ spent \in [mishaps : Nat, exits : Nat, reboots : Nat, requests : Nat, leaks : Nat, rebinds : Nat]
  BY Moves, BoundsAssumption DEF Core, TypeInv, Types, ReqInv, Ids
<1>n. spent.exits + 1 # 0 /\ spent.rebinds + 1 # 0 /\ spent.exits \in Nat /\ spent.rebinds \in Nat
  BY <1>0
\* An answer of ok or recovered is about a container that was registered.
<1>1. CASE answer
  <2>1. SUFFICES ASSUME Answered' PROVE LastInv'
    BY <1>1 DEF LastInv, answer
  <2>2. /\ last'.res = req.res /\ last'.op = req.op /\ last'.box = req.new /\ Todo = {} /\ req # Rest
        /\ UNCHANGED <<mcp, box, sock, store, agent, spent>> /\ agent.phase = "up"
    BY <1>1 DEF answer, Todo, In
  <2>3. /\ req.res \in {"ok", "recovered"} /\ req.op # "delete" /\ mcp = "yes" /\ req.new \in Existing
    BY <2>1, <2>2 DEF Answered, Existing, Exists
  <2>4. Registers
    <3>1. req.op \notin {"rolling", "swap", "none"}
      BY <1>0, <2>2, <2>3 DEF OldInv, TypeInv, Types
    <3>2. req.op \in {"upgrade", "reconfigure"}
      BY <1>0, <2>3, <3>1 DEF Request, Ops
    <3>3. req.new # 0
      BY <1>0, <2>3 DEF Existing
    <3> QED BY <2>3, <3>2, <3>3 DEF Registers
  <2>5. /\ store = Labels(req.new) /\ sock = [of |-> req.new, bind |-> Labels(req.new)]
        /\ box[req.new].want = "running" /\ (spent.exits = 0 => req.new \in Running)
    <3>1. Labels(req.new) = req.bind
      BY <2>3, <2>4 DEF NewInv, Registers
    <3> QED BY <2>2, <2>4, <3>1 DEF RegisterInv
  <2>6. Running' = Running /\ Existing' = Existing
    BY <2>2 DEF Running, Existing, Exists
  <2> DEFINE n == req.new
  <2>7. last'.box = n /\ box' = box /\ sock' = sock /\ store' = store /\ agent' = agent /\ spent' = spent
    BY <2>2
  <2>8. /\ store' = Labels(n) /\ sock' = [of |-> n, bind |-> Labels(n)] /\ n # 0
        /\ box'[n].want = "running" /\ (spent'.exits = 0 => n \in Running')
    BY <1>0, <2>3, <2>5, <2>6, <2>7 DEF Existing
  <2>9. spent'.rebinds = 0 => agent'.rebind = "ok"
    BY <2>7 DEF LastInv
  <2> HIDE DEF n
  <2>10. sock'.of # 0
    BY <2>8
  <2> QED BY <2>7, <2>8, <2>9, <2>10 DEF LastInv, Labels
\* Otherwise the answer is the last one, and nothing is called.
<1>2. ASSUME ~answer, req' = Rest, last'.res \in {"ok", "recovered"}
      PROVE  /\ req = Rest /\ last' = last /\ mcp' = mcp
             /\ \A s : ~At(s)
  <2>1. ~(Went \/ Failed \/ Appended \/ Created \/ Reverted \/ LookedAgain)
    <3>1. req'.op = "none" /\ req.phase \in {"forward", "revert"}
      BY <1>0, <1>2, RestTypes DEF Request
    <3>2. \A s : Due(s) => req.op # "none"
      BY <1>0, DueAt DEF Ops
    <3>3. Went => FALSE
      BY <1>0, <3>1, <3>2, GoneKeeps DEF Went, Gone, Kept
    <3>4. Failed => FALSE
      BY <1>0, <3>1, <3>2, ThrewKeeps DEF Failed, Threw, Skipped, Looked, Quit, Undone, Kept
    <3>5. Appended \/ Created => FALSE
      BY <1>0, <3>1, <3>2, AppendedKeeps, CreatedKeeps DEF Appended, Created, Kept
    <3>6. Reverted \/ LookedAgain => FALSE
      BY <1>0, <3>1, <3>2, RevertedSets, LookedSets DEF LookedAgain
    <3> QED BY <3>3, <3>4, <3>5, <3>6
  <2>2. ~Begun
    BY <1>0, <1>2, BegunSets, RestTypes
  <2>3. req # Rest => last.res = "none"
    BY <1>0 DEF OldInv, NoAnswer
  <2>4. req = Rest /\ last' = last /\ mcp' = mcp
    BY <1>0, <1>2, <2>1, <2>2, <2>3 DEF Move
  <2> QED BY <1>0, <2>4, RestTypes DEF At
<1>3. ASSUME ~answer PROVE LastInv'
  <2>1. spent'.rebinds = 0 => agent'.rebind = "ok"
    BY RebindCounted DEF LastInv
  <2>2. SUFFICES ASSUME Answered' PROVE LastInv'
    BY <2>1 DEF LastInv
  <2>3. /\ req = Rest /\ req' = Rest /\ last' = last /\ mcp = "yes" /\ mcp' = "yes" /\ \A s : ~At(s)
    BY <1>2, <1>3, <2>2 DEF Answered
  <2> DEFINE n == last.box
  <2>4. Existing' \subseteq Existing /\ \A d \in Existing' : Same(d)
    <3>1. ~Building /\ ~Orphaning
      BY <2>3 DEF Building, Orphaning, Created, Due
    <3> QED BY <3>1, Stays
  <2>5. n \in Existing /\ n \in Existing' /\ Same(n) /\ Answered
    BY <2>2, <2>3, <2>4 DEF Answered
  <2>6. /\ store = Labels(n)
        /\ agent.phase # "rebind" /\ agent.rebind = "ok" =>
              /\ sock.of # 0
              /\ (\A d \in Existing \ {n} : Labels(d) # Labels(n)) => sock = [of |-> n, bind |-> Labels(n)]
        /\ box[n].want = "running"
        /\ spent.exits = 0 /\ spent.rebinds = 0 => n \in Running \/ (box[n].st = "exited" /\ n \in agent.recover)
        /\ spent.rebinds = 0 => agent.rebind = "ok"
    BY <2>5 DEF LastInv
  <2>7. Existing' = Existing
    <3>1. ~Building /\ ~Orphaning /\ \A d \in Ids : ~Removing(d)
      BY <2>3 DEF Building, Orphaning, Created, Due, Removing
    <3>2. \A d \in Existing : d \in Ids
      BY DEF Existing
    <3> QED BY <2>4, <3>1, <3>2, Stays
  <2>8. n \in Ids /\ box[n] \in Box /\ n # 0 /\ Labels(n).ver # 0 /\ Labels(n) \in Binding
    <3>1. n \in Ids /\ box[n] \in Box /\ n # 0 /\ box[n].ver # 0
      BY <1>0, <2>5 DEF Existing, MadeInv
    <3> QED BY <3>1 DEF Labels, Binding, Box
  <2> HIDE DEF n
  <2> DEFINE Alone == \A d \in Existing \ {n} : Labels(d) # Labels(n)
  \* What is to be shown, of the state after the step.
  <2>g. ASSUME store' = store, box'[n].want = "running",
               agent'.phase # "rebind" /\ agent'.rebind = "ok" =>
                 sock'.of # 0 /\ (Alone => sock' = [of |-> n, bind |-> Labels(n)]),
               spent'.exits = 0 /\ spent'.rebinds = 0 =>
                 n \in Running' \/ (box'[n].st = "exited" /\ n \in agent'.recover)
        PROVE  LastInv'
    <3>1. last'.box = n
      BY <2>3 DEF n
    <3>2. \A d \in Existing : [ver |-> box'[d].ver, epoch |-> box'[d].epoch] = Labels(d)
      BY <2>4, <2>7 DEF Same, Labels
    <3>3. [ver |-> box'[n].ver, epoch |-> box'[n].epoch] = Labels(n)
      BY <2>5, <3>2 DEF n
    <3>4. (\A d \in Existing' \ {n} : [ver |-> box'[d].ver, epoch |-> box'[d].epoch]
                                        # [ver |-> box'[n].ver, epoch |-> box'[n].epoch]) => Alone
      BY <2>7, <3>2, <3>3
    <3> HIDE DEF Alone
    <3> QED BY <2>1, <2>6, <2>g, <3>1, <3>3, <3>4 DEF LastInv, Labels
  <2> HIDE DEF Alone
  <2>h. agent.phase # "rebind" /\ agent.rebind = "ok" =>
          sock.of # 0 /\ (Alone => sock = [of |-> n, bind |-> Labels(n)])
    BY <2>6 DEF Alone
  <2>10. CASE UNCHANGED vars \/ dial \/ respond
    <3>1. UNCHANGED <<store, box, agent, sock, spent>>
      BY <2>10 DEF vars, dial, respond
    <3> QED BY <2>6, <2>g, <2>h, <3>1 DEF Running
  <2>11. ASSUME NEW d \in Ids, exits(d) PROVE LastInv'
    <3>1. UNCHANGED <<store, agent, sock>> /\ box' = [box EXCEPT ![d].st = "exited"]
          /\ spent' = [spent EXCEPT !.mishaps = @ + 1, !.exits = @ + 1]
      BY <2>11 DEF exits
    <3>2. box'[n].want = "running"
      BY <1>0, <2>6, <2>8, <3>1 DEF Box
    <3>3. spent'.exits # 0
      BY <1>0, <1>n, <3>1
    <3> QED BY <2>g, <2>h, <3>1, <3>2, <3>3
  <2>12. ASSUME NEW d \in Ids, recoverDesiredState(d) PROVE LastInv'
    <3>1. /\ UNCHANGED <<store, sock, spent>> /\ agent' = [agent EXCEPT !.recover = @ \ {d}]
          /\ agent.phase = "up"
          /\ box' = IF box[d].st = "exited" /\ box[d].want = "running" /\ (mcp = "yes" => sock.of # 0)
                    THEN [box EXCEPT ![d].st = "running"] ELSE box
      BY <2>12 DEF recoverDesiredState
    <3>2. /\ box'[n].want = "running" /\ (box[n].st = "running" => box'[n].st = "running")
          /\ n # d => box'[n] = box[n]
          /\ n = d /\ box[n].st = "exited" /\ sock.of # 0 => box'[n].st = "running"
      BY <1>0, <2>6, <2>8, <3>1 DEF Box
    <3>3. agent'.phase = agent.phase /\ agent'.rebind = agent.rebind /\ agent'.recover = agent.recover \ {d}
      BY <1>0, <3>1
    <3>4. ASSUME spent.exits = 0, spent.rebinds = 0
          PROVE  n \in Running' \/ (box'[n].st = "exited" /\ n \in agent'.recover)
      <4>1. sock.of # 0
        BY <2>6, <3>1, <3>4
      <4>2. box[n].st = "running" \/ (box[n].st = "exited" /\ n \in agent.recover)
        BY <2>6, <3>4 DEF Running
      <4> QED BY <2>8, <3>2, <3>3, <4>1, <4>2 DEF Running
    <3> QED BY <2>g, <2>h, <3>1, <3>2, <3>3, <3>4
  <2>13. ASSUME NEW host \in YesNo, dies(host) PROVE LastInv'
    <3>1. /\ store' = store
          /\ agent' = [phase |-> "rebind", rebind |-> "ok",
                       recover |-> IF host = "yes" \/ agent.recover # {}
                                   THEN {d \in Existing : box[d].want = "running"} ELSE {}]
          /\ box' = IF host = "no" THEN box
                    ELSE [d \in Ids |-> IF d \in Running THEN [box[d] EXCEPT !.st = "exited"] ELSE box[d]]
      BY <2>13 DEF dies
    <3>2. spent'.exits = spent.exits /\ spent'.rebinds = spent.rebinds
      BY <1>0, <2>13 DEF dies
    <3>3. /\ box'[n].want = "running"
          /\ host = "no" => box'[n] = box[n]
          /\ host = "yes" /\ box[n].st \in {"running", "exited"} => box'[n].st = "exited"
      <4>1. CASE host = "no"
        BY <2>6, <3>1, <4>1
      <4>2. CASE host # "no"
        <5>1. box'[n] = IF n \in Running THEN [box[n] EXCEPT !.st = "exited"] ELSE box[n]
          BY <2>8, <3>1, <4>2
        <5>2. n \in Running <=> box[n].st = "running"
          BY <2>8 DEF Running
        <5> QED BY <2>6, <2>8, <4>2, <5>1, <5>2 DEF Box
      <4> QED BY <4>1, <4>2
    <3>4. agent'.phase = "rebind" /\ (host = "yes" \/ agent.recover # {} => n \in agent'.recover)
      BY <2>5, <2>6, <3>1 DEF n
    <3>5. ASSUME spent.exits = 0, spent.rebinds = 0
          PROVE  n \in Running' \/ (box'[n].st = "exited" /\ n \in agent'.recover)
      <4>1. box[n].st = "running" \/ (box[n].st = "exited" /\ n \in agent.recover)
        BY <2>6, <3>5 DEF Running
      <4>2. CASE host = "no"
        BY <2>8, <3>3, <3>4, <4>1, <4>2 DEF Running
      <4>3. CASE host = "yes"
        BY <3>3, <3>4, <4>1, <4>3
      <4> QED BY <4>2, <4>3 DEF YesNo
    <3> QED BY <2>g, <3>1, <3>2, <3>3, <3>4, <3>5
  <2>14. CASE rebindMcpBrokers
    <3>1. UNCHANGED box /\ agent'.recover = agent.recover /\ Running' = Running
      BY <1>0, <2>14 DEF rebindMcpBrokers, Running
    <3>2. readPersistedV3 = Labels(n) /\ n \in Restorable
      <4>1. store = Labels(n) /\ store # NoBind
        BY <2>6, <2>8 DEF NoBind
      <4> QED BY <2>5, <4>1 DEF readPersistedV3, Restorable, n
    <3>3. Alone => Restorable = {n}
      BY <3>2 DEF Alone, Restorable
    <3>4. CASE (\E d \in Restorable : sock' = [of |-> d, bind |-> readPersistedV3]) /\ store' = readPersistedV3
               /\ UNCHANGED spent
      <4>1. PICK d \in Restorable : sock' = [of |-> d, bind |-> Labels(n)]
        BY <3>2, <3>4
      <4>2. d # 0
        BY <1>0 DEF Restorable, Existing
      <4>3. sock'.of # 0 /\ (Alone => sock' = [of |-> n, bind |-> Labels(n)])
        BY <3>3, <4>1, <4>2
      <4>4. store' = store
        BY <2>6, <3>2, <3>4
      <4> QED BY <2>6, <2>g, <3>1, <3>4, <4>3, <4>4
    <3>5. CASE /\ spent' = [spent EXCEPT !.mishaps = @ + 1, !.rebinds = @ + 1]
               /\ agent' = [agent EXCEPT !.phase = "sweep", !.rebind = "failed"] /\ store' = store
      <4>1. spent'.rebinds # 0 /\ agent'.rebind = "failed"
        BY <1>0, <1>n, <3>5
      <4> QED BY <2>6, <2>g, <3>1, <3>5, <4>1
    <3> QED BY <2>3, <2>14, <3>2, <3>4, <3>5 DEF rebindMcpBrokers
  <2>15. CASE sweepOrphanBrokerState
    <3>1. UNCHANGED <<box, sock, spent>> /\ store' = store /\ Running' = Running /\ agent.phase = "sweep"
      BY <2>5, <2>15 DEF sweepOrphanBrokerState, Running
    <3>2. agent'.recover = agent.recover /\ agent'.rebind = agent.rebind
      BY <1>0, <2>15 DEF sweepOrphanBrokerState
    <3> QED BY <2>6, <2>g, <2>h, <3>1, <3>2
  <2>16. ~Requests
    BY <1>0, <2>3, BegunWhen, BegunSets, RestTypes
  <2>17. Steps => rebindMcpBrokers \/ sweepOrphanBrokerState
    <3>1. ~(\/ read \/ pullImage \/ mountsForMcpV3Upgrade \/ createAppContainer \/ startContainer \/ getInternalUrl
            \/ waitForHealthy \/ inspectContainer \/ look \/ removeVolume \/ revert)
      BY <2>3 DEF read, pullImage, mountsForMcpV3Upgrade, createAppContainer, startContainer, getInternalUrl,
            waitForHealthy, inspectContainer, look, removeVolume, revert
    <3>2. ~(persistStore \/ persistLegacy \/ registerSocket \/ close \/ closed \/ rmDirectory \/ rmStore)
      BY <2>3 DEF persistStore, persistLegacy, Persists, registerSocket, close, closed, rmDirectory, rmStore
    <3>3. \A s : ~stopContainer(s) /\ ~removeContainer(s)
      BY <2>3 DEF stopContainer, removeContainer
    <3> QED BY <1>3, <3>1, <3>2, <3>3 DEF Steps
  <2> QED BY <2>10, <2>11, <2>12, <2>13, <2>14, <2>15, <2>16, <2>17 DEF Next
<1> QED BY <1>1, <1>3

\* A v3 container an answer has reported runs and gets its evidence from the broker, also
\* after the agent or the host was started again (lifecycle-service.ts, mcp-broker.ts).
THEOREM AnsweredContainersAttest == Spec => []AnsweredAttests
<1>1. Init => RegisterInv /\ LastInv
  <2> SUFFICES ASSUME Init PROVE RegisterInv /\ LastInv
    OBVIOUS
  <2>1. ~Registers
    BY RestTypes DEF Init, Registers
  <2>2. /\ spent.rebinds = 0 /\ agent = [phase |-> "up", rebind |-> "ok", recover |-> {}]
        /\ last.box = 1 /\ 1 \in Ids /\ store = sock.bind
    BY BoundsAssumption DEF Init, Ids, NoAnswer
  <2>3. box[1].st = "running" /\ box[1].want = "running"
    BY <2>2 DEF Init
  <2>4. mcp = "yes" => sock = [of |-> 1, bind |-> Labels(1)]
    BY DEF Init
  <2>5. 1 \in Running
    BY <2>2, <2>3 DEF Running
  <2>6. mcp = "yes" => store = Labels(1) /\ sock.of = 1
    BY <2>2, <2>4
  <2> QED BY <2>1, <2>2, <2>3, <2>4, <2>5, <2>6 DEF RegisterInv, LastInv, Answered
<1>2. Core /\ NewInv /\ RegisterInv /\ LastInv /\ [Next]_vars => (NewInv /\ RegisterInv /\ LastInv)'
  BY MoveNew, MoveRegister, MoveLast
<1>3. LastInv => AnsweredAttests
  <2> SUFFICES ASSUME LastInv, mcp = "yes", agent.phase = "up", agent.rebind = "ok",
                      req = Rest, last.res \in {"ok", "recovered"}, last.op # "delete",
                      \A d \in Existing \ {last.box} : Labels(d) # Labels(last.box),
                      \/ last.box \in Running
                      \/ last.box \in Existing /\ agent.recover = {} /\ spent.exits = 0 /\ spent.rebinds = 0
               PROVE  Attests(last.box)
    BY DEF AnsweredAttests
  <2>1. last.box \in Existing
    BY DEF Running, Existing, Exists
  <2>2. Answered
    BY <2>1 DEF Answered
  <2>3. last.box \in Running
    BY <2>2 DEF LastInv
  <2>4. sock = [of |-> last.box, bind |-> Labels(last.box)]
    BY <2>2 DEF LastInv
  <2> QED BY <2>3, <2>4 DEF Attests
<1>4. Init => NewInv
  BY HeldInit DEF HeldInv
<1>5. Spec => [](Core /\ NewInv /\ RegisterInv /\ LastInv)
  BY <1>1, <1>2, <1>4, CoreInit, CoreNext, PTL DEF Spec
<1> QED BY <1>3, <1>5, PTL
=============================================================================
