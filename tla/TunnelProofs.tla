---------------------------- MODULE TunnelProofs ----------------------------
(***************************************************************************)
(* The tunnel client, for any number of requests, transfers, chunks and    *)
(* connections: types, the temporary files, one answer per id and the      *)
(* meaning of a successful one.                                            *)
(***************************************************************************)
EXTENDS Tunnel, TLAPS

-----------------------------------------------------------------------------
(* Types.                                                                  *)

\* The outcome of a chunk is of the right type, whichever frame was its payload.
LEMMA FinishType ==
    ASSUME TypeOK, NEW i \in 0..Last, NEW fits \in BOOLEAN,
           pending.id \in Streams, finishChunk(pending, i, fits)
    PROVE  /\ sessions' \subseteq Streams /\ files' \subseteq Streams
           /\ content' \in [Streams -> Seq(0..Last)]
           /\ announced' \subseteq Streams
           /\ storing' \in [Streams -> {"no", "bare", "owed"}]
           /\ socket' \in {"none", "open", "closing"}
<1>1. CASE ~fits
  BY <1>1 DEF TypeOK, finishChunk, abort
<1>2. CASE fits
  <2> DEFINE c == IF pending.id \in sessions THEN Append(content[pending.id], i) ELSE <<i>>
  <2>1. c \in Seq(0..Last)
    <3>1. content[pending.id] \in Seq(0..Last)
      BY DEF TypeOK
    <3>2. Append(content[pending.id], i) \in Seq(0..Last)
      BY <3>1
    <3>3. <<i>> \in Seq(0..Last)
      OBVIOUS
    <3> QED BY <3>2, <3>3
  <2>2. content' = [content EXCEPT ![pending.id] = c]
    BY <1>2 DEF finishChunk
  <2> HIDE DEF c
  <2>3. content' \in [Streams -> Seq(0..Last)]
    BY <2>1, <2>2 DEF TypeOK
  <2> QED BY <1>2, <2>3 DEF TypeOK, finishChunk
<1> QED BY <1>1, <1>2

\* A reply that is sent extends the history of its id by one status.
LEMMA SendType ==
    ASSUME TypeOK, NEW x \in Ids, NEW status \in Status, sendFrame(x, status)
    PROVE  answers' \in [Ids -> Seq(Status)]
BY DEF TypeOK, sendFrame

\* pending is the control half of some stream, or nothing.
PendingIsChunk == pending # NoChunk => pending.id \in Streams

LEMMA SwallowType ==
    ASSUME TypeOK, PendingIsChunk, ConstantsAssumption, Swallow
    PROVE  /\ sessions' \subseteq Streams /\ files' \subseteq Streams
           /\ content' \in [Streams -> Seq(0..Last)]
           /\ announced' \subseteq Streams
           /\ storing' \in [Streams -> {"no", "bare", "owed"}]
           /\ socket' \in {"none", "open", "closing"}
           /\ pending' = NoChunk /\ running' = running /\ answers' = answers
<1>1. PICK fits \in BOOLEAN : finishChunk(pending, 0, fits)
  BY DEF Swallow
<1>2. pending.id \in Streams /\ 0 \in 0..Last
  BY DEF Swallow, PendingIsChunk, ConstantsAssumption
<1> QED BY <1>1, <1>2, FinishType DEF Swallow

\* What a process that ends leaves behind has its type.
LEMMA LostType ==
    ASSUME ConstantsAssumption, TypeOK, MemoryLost, files' \subseteq Streams
    PROVE  TypeOK' /\ PendingIsChunk'
<1>1. crashes' \in 0..MaxCrashes
  BY ConstantsAssumption DEF MemoryLost, TypeOK
<1>2. pending' \in [id : Streams \cup {Nobody}, i : 0..Last, on : 0..MaxConns]
  BY ConstantsAssumption DEF MemoryLost, NoChunk
<1>3. storing' \in [Streams -> {"no", "bare", "owed"}]
  BY DEF MemoryLost
<1>4. /\ process' \in {"up", "down"} /\ socket' \in {"none", "open", "closing"}
      /\ sessions' \subseteq Streams /\ announced' \subseteq Streams
      /\ running' \subseteq Requests /\ half' \in Streams \cup {Nobody}
  BY DEF MemoryLost
<1>5. /\ conn' \in 0..MaxConns /\ content' \in [Streams -> Seq(0..Last)]
      /\ sentOn' \in [Ids -> 0..MaxConns] /\ sent' \in [Streams -> 0..Last]
      /\ stored' \subseteq Streams \X Seq(0..Last) /\ answers' \in [Ids -> Seq(Status)]
  BY DEF MemoryLost, TypeOK
<1>6. PendingIsChunk'
  BY DEF MemoryLost, PendingIsChunk
<1> QED BY <1>1, <1>2, <1>3, <1>4, <1>5, <1>6 DEF TypeOK

\* One step of the Hub, the client or the process keeps the types.
LEMMA TypeStep ==
    ASSUME ConstantsAssumption, TypeOK, PendingIsChunk, [Next]_vars
    PROVE  TypeOK' /\ PendingIsChunk'
<1> USE ConstantsAssumption
<1>0. NoChunk \in [id : Streams \cup {Nobody}, i : 0..Last, on : 0..MaxConns]
  BY DEF NoChunk
<1>1. ASSUME NEW q \in Requests, Request(q) PROVE TypeOK' /\ PendingIsChunk'
  <2>0. q \in Ids /\ "busy" \in Status
    BY DEF Ids, Status
  <2>1. sentOn' \in [Ids -> 0..MaxConns]
    BY <1>1, <2>0 DEF Request, TypeOK
  <2>2. CASE handleReq(q)
    <3>1. answers' \in [Ids -> Seq(Status)] /\ running' \subseteq Requests
      BY <2>0, <2>2, SendType DEF handleReq, TypeOK
    <3> QED BY <1>1, <2>1, <2>2, <3>1
            DEF Request, handleReq, TypeOK, PendingIsChunk, hostVars, stageVars
  <2>3. CASE Swallow
    BY <1>0, <1>1, <2>1, <2>3, SwallowType DEF Request, TypeOK, PendingIsChunk, hostVars
  <2> QED BY <1>1, <2>2, <2>3 DEF Request
<1>2. ASSUME NEW q \in Requests, Answer(q) PROVE TypeOK' /\ PendingIsChunk'
  <2>1. (\E status \in {"ok", "failed"} : sendFrame(q, status)) \/ UNCHANGED answers
    BY <1>2 DEF Answer
  <2>2. q \in Ids /\ {"ok", "failed"} \subseteq Status
    BY DEF Ids, Status
  <2>3. answers' \in [Ids -> Seq(Status)]
    BY <2>1, <2>2, SendType DEF TypeOK
  <2> QED BY <1>2, <2>3 DEF Answer, TypeOK, PendingIsChunk, hostVars, stageVars, hubVars
<1>3. ASSUME NEW s \in Streams, Announce(s) PROVE TypeOK' /\ PendingIsChunk'
  <2>1. sentOn' \in [Ids -> 0..MaxConns]
    BY <1>3 DEF Announce, TypeOK, Ids
  <2>2. CASE handleStage(s)
    BY <1>3, <2>1, <2>2 DEF Announce, handleStage, TypeOK, PendingIsChunk, hostVars, stageVars
  <2>3. CASE Swallow
    BY <1>0, <1>3, <2>1, <2>3, SwallowType DEF Announce, TypeOK, PendingIsChunk, hostVars
  <2> QED BY <1>3, <2>2, <2>3 DEF Announce
<1>4. ASSUME NEW s \in Streams, ChunkControl(s) PROVE TypeOK' /\ PendingIsChunk'
  <2>a. /\ sentOn' = [sentOn EXCEPT ![s] = conn] /\ sent' = [sent EXCEPT ![s] = sent[s] + 1]
        /\ half' = s /\ sent[s] < Last /\ s \in Ids
    BY <1>4 DEF ChunkControl, Ids
  <2>b. /\ sentOn \in [Ids -> 0..MaxConns] /\ sent \in [Streams -> 0..Last]
        /\ conn \in 0..MaxConns
    BY <1>0 DEF TypeOK
  <2>c. Last \in Nat
    BY ConstantsAssumption
  <2>d. sent[s] + 1 \in 0..Last
    BY <2>a, <2>b, <2>c
  <2>e. sentOn' \in [Ids -> 0..MaxConns]
    BY <2>a, <2>b
  <2>f. sent' \in [Streams -> 0..Last]
    BY <2>a, <2>b, <2>d
  <2>1. sentOn' \in [Ids -> 0..MaxConns] /\ sent' \in [Streams -> 0..Last] /\ half' \in Streams
        /\ sent[s] + 1 \in 0..Last
    BY <2>a, <2>d, <2>e, <2>f
  <2>2. CASE Swallow
    BY <1>0, <1>4, <2>1, <2>2, SwallowType DEF ChunkControl, TypeOK, PendingIsChunk, hostVars
  <2>3. CASE /\ pending' = [id |-> s, i |-> sent[s] + 1, on |-> conn]
             /\ UNCHANGED <<stageVars, announced, storing, socket, running, answers>>
    BY <1>4, <2>1, <2>3 DEF ChunkControl, TypeOK, PendingIsChunk, hostVars, stageVars
  <2> QED BY <1>4, <2>2, <2>3 DEF ChunkControl
<1>5. ASSUME NEW s \in Streams, finalizeStage(s) PROVE TypeOK' /\ PendingIsChunk'
  <2>1. PICK ok \in BOOLEAN :
          /\ stored' = IF ok THEN stored \cup {<<s, content[s]>>} ELSE stored
          /\ IF storing[s] = "owed" THEN sendFrame(s, IF ok THEN "ok" ELSE "refused")
                                    ELSE UNCHANGED answers
    BY <1>5 DEF finalizeStage
  <2>2. s \in Ids /\ (IF ok THEN "ok" ELSE "refused") \in Status
    BY DEF Ids, Status
  <2>3. answers' \in [Ids -> Seq(Status)]
    BY <2>1, <2>2, SendType DEF TypeOK
  <2>4. stored' \subseteq Streams \X Seq(0..Last)
    BY <2>1 DEF TypeOK
  <2> QED BY <1>5, <2>3, <2>4 DEF finalizeStage, TypeOK, PendingIsChunk, hostVars, hubVars
<1>6. ASSUME NEW fits \in BOOLEAN, ChunkPayload(fits) PROVE TypeOK' /\ PendingIsChunk'
  <2>1. CASE pending # NoChunk
    <3>1. finishChunk(pending, sent[half], fits) /\ sent[half] \in 0..Last /\ pending.id \in Streams
      BY <1>6, <2>1 DEF ChunkPayload, TypeOK, PendingIsChunk
    <3>2. pending' = NoChunk
      BY <1>6, <2>1 DEF ChunkPayload
    <3>3. /\ sessions' \subseteq Streams /\ files' \subseteq Streams
          /\ content' \in [Streams -> Seq(0..Last)]
          /\ announced' \subseteq Streams
          /\ storing' \in [Streams -> {"no", "bare", "owed"}]
          /\ socket' \in {"none", "open", "closing"}
      BY <3>1, FinishType
    <3> QED BY <1>0, <1>6, <3>2, <3>3 DEF ChunkPayload, TypeOK, PendingIsChunk, hostVars
  <2>2. CASE pending = NoChunk
    BY <1>6, <2>2 DEF ChunkPayload, TypeOK, PendingIsChunk, hostVars, stageVars
  <2> QED BY <2>1, <2>2
<1>7. CASE BadFrame
  BY <1>7, SMTT(30) DEF BadFrame, TypeOK, PendingIsChunk, hostVars, stageVars, hubVars
<1>8. CASE connect
  BY <1>8, SMTT(30) DEF connect, TypeOK, PendingIsChunk, hostVars, stageVars, hubVars
<1>9. CASE closed
  BY <1>9 DEF closed, cleanupAllStageSessions, abort, TypeOK, PendingIsChunk, hostVars
<1>10. CASE Crash
  BY <1>10, LostType DEF Crash, TypeOK
<1>11. CASE stop
  BY <1>11, LostType DEF stop, TypeOK
<1>12. CASE start
  BY <1>12 DEF start, TypeOK, PendingIsChunk, hubVars
<1>13. CASE UNCHANGED vars
  BY <1>13 DEF vars, TypeOK, PendingIsChunk, hostVars, stageVars, hubVars
<1>14. CASE ping
  <2>1. PICK fits \in BOOLEAN : finishChunk(pending, 0, fits)
    BY <1>14 DEF ping, Swallow
  <2>2. pending.id \in Streams /\ 0 \in 0..Last
    BY <1>14, ConstantsAssumption DEF ping, Swallow, PendingIsChunk
  <2>3. /\ sessions' \subseteq Streams /\ files' \subseteq Streams
        /\ content' \in [Streams -> Seq(0..Last)]
        /\ announced' \subseteq Streams
        /\ storing' \in [Streams -> {"no", "bare", "owed"}]
        /\ socket' \in {"none", "open", "closing"}
    BY <2>1, <2>2, FinishType
  <2> QED BY <1>0, <1>14, <2>3 DEF ping, Swallow, TypeOK, PendingIsChunk, hostVars, hubVars
<1> QED BY <1>1, <1>2, <1>3, <1>4, <1>5, <1>6, <1>7, <1>8, <1>9, <1>10, <1>11, <1>12, <1>13,
           <1>14
        DEF Next

LEMMA TypeInit == ASSUME ConstantsAssumption, Init PROVE TypeOK /\ PendingIsChunk
<1>1. NoChunk \in [id : Streams \cup {Nobody}, i : 0..Last, on : 0..MaxConns]
  BY ConstantsAssumption DEF NoChunk
<1>2. stored \subseteq Streams \X Seq(0..Last)
  BY DEF Init
<1> QED BY <1>1, <1>2, ConstantsAssumption DEF Init, TypeOK, PendingIsChunk

\* Every variable of the tunnel stays in its state space.
THEOREM TypeCorrect == Spec => []TypeOK
<1>1. TypeOK /\ PendingIsChunk /\ [Next]_vars => (TypeOK /\ PendingIsChunk)'
  BY TypeStep, ConstantsAssumption
<1>2. Init => TypeOK /\ PendingIsChunk
  BY TypeInit, ConstantsAssumption
<1> QED BY <1>1, <1>2, PTL DEF Spec

-----------------------------------------------------------------------------
(* Temporary files.                                                        *)

\* A transfer that is being stored was sent completely, and nothing else holds it.
StoringInv ==
    \A s \in Streams : storing[s] # "no" => sent[s] = Last /\ s \notin sessions \cup announced

\* A pending control half is the last one of its stream, which is not stored yet.
PendingInv ==
    pending # NoChunk => pending.i = sent[pending.id] /\ storing[pending.id] = "no"

\* What the Hub sent it sent on some connection.
SentInv == /\ \A s \in Streams : sent[s] > 0 => sentOn[s] # 0
           /\ socket # "none" => conn > 0

\* A process that is down has nothing in memory.
DownInv ==
    process = "down" => /\ sessions = {} /\ socket = "none" /\ pending = NoChunk
                        /\ \A s \in Streams : storing[s] = "no"

StageInv == StoringInv /\ PendingInv /\ SentInv /\ DownInv /\ FilesAccounted
TunnelInv == TypeOK /\ PendingIsChunk /\ StageInv

\* What a payload does to its own stream; every other stream is left alone.
LEMMA FinishStage ==
    ASSUME TunnelInv, pending # NoChunk, NEW i \in 0..Last, NEW fits \in BOOLEAN,
           finishChunk(pending, i, fits)
    PROVE  /\ \A s \in Streams : s # pending.id =>
                  storing'[s] = storing[s] /\ (s \in sessions' <=> s \in sessions)
                    /\ (s \in files' <=> s \in files)
           /\ announced' \subseteq announced
           /\ storing'[pending.id] # "no" =>
                  sent[pending.id] = Last /\ pending.id \notin sessions' \cup announced'
           /\ storing'[pending.id] = "owed" => pending.id \in announced
           /\ process = "up" =>
                  (pending.id \in files' <=> pending.id \in sessions' \/ storing'[pending.id] # "no")
<1> USE DEF TunnelInv, StageInv, TypeOK, PendingIsChunk, PendingInv, FilesAccounted
<1>1. CASE ~fits
  BY <1>1 DEF finishChunk, abort
<1>2. CASE fits /\ pending.i = Last
  BY <1>2 DEF finishChunk
<1>3. CASE fits /\ pending.i # Last
  BY <1>3 DEF finishChunk
<1> QED BY <1>1, <1>2, <1>3

\* A step in which a payload is finished and the Hub may send one more chunk.
LEMMA FinishStep ==
    ASSUME ConstantsAssumption, TunnelInv, TypeOK', pending # NoChunk,
           NEW i \in 0..Last, NEW fits \in BOOLEAN,
           finishChunk(pending, i, fits), pending' = NoChunk, process' = process,
           socket # "none", conn' = conn,
           \A s \in Streams : sent[s] = Last => sent'[s] = Last,
           \A s \in Streams : sentOn[s] # 0 => sentOn'[s] # 0,
           \A s \in Streams : sent'[s] # sent[s] => sentOn'[s] # 0
    PROVE  StageInv'
<1> USE DEF TunnelInv, StageInv
<1>f. /\ \A s \in Streams : s # pending.id =>
             storing'[s] = storing[s] /\ (s \in sessions' <=> s \in sessions)
               /\ (s \in files' <=> s \in files)
      /\ announced' \subseteq announced
      /\ storing'[pending.id] # "no" =>
             sent[pending.id] = Last /\ pending.id \notin sessions' \cup announced'
      /\ process = "up" =>
             (pending.id \in files' <=> pending.id \in sessions' \/ storing'[pending.id] # "no")
  BY FinishStage
<1>1. process = "up"
  BY DEF DownInv, TypeOK
<1>2. StoringInv'
  <2> SUFFICES ASSUME NEW s \in Streams, storing'[s] # "no"
               PROVE  sent'[s] = Last /\ s \notin sessions' \cup announced'
    BY DEF StoringInv
  <2>1. CASE s = pending.id
    BY <1>f, <2>1
  <2>2. CASE s # pending.id
    <3>1. storing[s] # "no" /\ (s \in sessions' <=> s \in sessions)
      BY <1>f, <2>2
    <3>2. sent[s] = Last /\ s \notin sessions \cup announced
      BY <3>1 DEF StoringInv
    <3> QED BY <1>f, <3>1, <3>2
  <2> QED BY <2>1, <2>2
<1>3. PendingInv' /\ DownInv'
  BY <1>1 DEF PendingInv, DownInv
<1>4. SentInv'
  BY DEF SentInv, TypeOK
<1>5. FilesAccounted'
  <2>1. ASSUME NEW s \in Streams
        PROVE  s \in files' <=> s \in sessions' \/ storing'[s] # "no"
    <3>1. CASE s = pending.id
      BY <1>1, <1>f, <3>1
    <3>2. CASE s # pending.id
      <4>1. s \in files <=> s \in sessions \/ storing[s] # "no"
        BY <1>1 DEF FilesAccounted
      <4> QED BY <1>f, <3>2, <4>1
    <3> QED BY <3>1, <3>2
  <2>2. \A s \in sessions' : storing'[s] = "no"
    BY <1>2 DEF StoringInv, TypeOK
  <2>3. files' \subseteq Streams /\ sessions' \subseteq Streams
    BY DEF TypeOK
  <2> QED BY <2>1, <2>2, <2>3 DEF FilesAccounted
<1> QED BY <1>2, <1>3, <1>4, <1>5

\* The steps that leave sessions, files, transfers and chunks alone.
LEMMA StageFrame ==
    ASSUME TunnelInv, UNCHANGED <<process, sessions, files, storing, sent, pending>>,
           \A s \in Streams : sentOn[s] # 0 => sentOn'[s] # 0,
           socket' # "none" => conn' > 0,
           process = "down" => socket' = "none",
           \A s \in Streams : s \in announced' /\ s \notin announced => storing[s] = "no"
    PROVE  StageInv'
<1> USE DEF TunnelInv, StageInv
<1>1. StoringInv'
  BY DEF StoringInv
<1>2. PendingInv'
  BY DEF PendingInv
<1>3. SentInv'
  BY DEF SentInv
<1>4. DownInv'
  BY DEF DownInv
<1>5. FilesAccounted'
  BY DEF FilesAccounted
<1> QED BY <1>1, <1>2, <1>3, <1>4, <1>5

\* Every step keeps the files and the transfers in agreement.
LEMMA StageStep ==
    ASSUME ConstantsAssumption, TunnelInv, [Next]_vars
    PROVE  TunnelInv'
<1>0. TypeOK' /\ PendingIsChunk'
  BY TypeStep DEF TunnelInv
<1> SUFFICES StageInv'
  BY <1>0 DEF TunnelInv
<1>t. TypeOK /\ PendingIsChunk /\ StageInv
  BY DEF TunnelInv
<1>u. socket # "none" => process = "up" /\ conn > 0
  BY <1>t DEF StageInv, DownInv, SentInv, TypeOK
<1>w. ASSUME Swallow, socket # "none", UNCHANGED <<process, conn>>,
             \A s \in Streams : sent[s] = Last => sent'[s] = Last,
             \A s \in Streams : sentOn[s] # 0 => sentOn'[s] # 0,
             \A s \in Streams : sent'[s] # sent[s] => sentOn'[s] # 0
      PROVE  StageInv'
  <2>1. PICK fits \in BOOLEAN : finishChunk(pending, 0, fits)
    BY <1>w DEF Swallow
  <2>2. pending # NoChunk /\ pending' = NoChunk /\ 0 \in 0..Last
    BY <1>w, ConstantsAssumption DEF Swallow
  <2> QED BY <1>w, <1>0, <2>1, <2>2, FinishStep
<1>1. ASSUME NEW q \in Requests, Request(q) PROVE StageInv'
  <2>1. /\ socket # "none" /\ UNCHANGED <<process, conn, sent>>
        /\ \A s \in Streams : sentOn[s] # 0 => sentOn'[s] # 0
    BY <1>1, <1>t, ConstantsAssumption DEF Request, Deliverable, hostVars, TypeOK, Ids
  <2>2. CASE handleReq(q)
    BY <1>u, <2>1, <2>2, StageFrame DEF handleReq, stageVars
  <2>3. CASE Swallow
    BY <1>w, <2>1, <2>3
  <2> QED BY <1>1, <2>2, <2>3 DEF Request
<1>2. ASSUME NEW q \in Requests, Answer(q) PROVE StageInv'
  BY <1>2, <1>t, <1>u, StageFrame
  DEF Answer, hostVars, stageVars, hubVars, StageInv, SentInv, DownInv
<1>3. ASSUME NEW s \in Streams, Announce(s) PROVE StageInv'
  <2>1. /\ socket # "none" /\ UNCHANGED <<process, conn, sent>> /\ sentOn[s] = 0
        /\ sentOn' = [sentOn EXCEPT ![s] = conn] /\ s \in Ids
    BY <1>3 DEF Announce, Deliverable, hostVars, Ids
  <2>2. \A x \in Streams : sentOn[x] # 0 => sentOn'[x] # 0
    BY <1>t, <1>u, <2>1 DEF TypeOK, Ids
  <2>3. storing[s] = "no"
    BY <1>t, <2>1, ConstantsAssumption DEF StageInv, SentInv, StoringInv, TypeOK
  <2>4. CASE handleStage(s)
    BY <1>u, <2>1, <2>2, <2>3, <2>4, StageFrame DEF handleStage, stageVars
  <2>5. CASE Swallow
    BY <1>w, <2>1, <2>2, <2>5
  <2> QED BY <1>3, <2>4, <2>5 DEF Announce
<1>4. ASSUME NEW s \in Streams, ChunkControl(s) PROVE StageInv'
  <2>1. /\ socket # "none" /\ UNCHANGED <<process, conn>> /\ sent[s] < Last
        /\ sentOn' = [sentOn EXCEPT ![s] = conn] /\ s \in Ids
        /\ sent' = [sent EXCEPT ![s] = sent[s] + 1]
    BY <1>4 DEF ChunkControl, hostVars, Ids
  <2>h. /\ sentOn \in [Ids -> 0..MaxConns] /\ sent \in [Streams -> 0..Last]
        /\ conn \in Nat /\ conn > 0 /\ MaxConns \in Nat /\ Last \in Nat
    BY <1>t, <2>1, ConstantsAssumption DEF TypeOK, StageInv, SentInv
  <2>a. \A x \in Streams : x \in Ids /\ (sentOn[x] # 0 => sentOn'[x] # 0)
    BY <2>1, <2>h DEF Ids
  <2>b. \A x \in Streams : sent'[x] # sent[x] => sentOn'[x] # 0
    BY <2>1, <2>h DEF Ids
  <2>c. \A x \in Streams : sent[x] = Last => sent'[x] = Last
    BY <2>1, <2>h
  <2>2. /\ \A x \in Streams : sentOn[x] # 0 => sentOn'[x] # 0
        /\ \A x \in Streams : sent'[x] # sent[x] => sentOn'[x] # 0
        /\ \A x \in Streams : sent[x] = Last => sent'[x] = Last
    BY <2>a, <2>b, <2>c
  <2>3. CASE Swallow
    BY <1>w, <2>1, <2>2, <2>3
  <2>4. CASE /\ pending' = [id |-> s, i |-> sent[s] + 1, on |-> conn]
             /\ UNCHANGED <<stageVars, announced, storing, socket, running, answers>>
    <3>1. storing[s] = "no"
      BY <1>t, <2>1, ConstantsAssumption DEF StageInv, StoringInv, TypeOK
    <3>2. StoringInv'
      BY <1>t, <2>1, <2>4, <3>1 DEF StageInv, StoringInv, TypeOK, stageVars
    <3>3. PendingInv'
      BY <1>t, <2>1, <2>4, <3>1 DEF PendingInv, TypeOK
    <3>4. SentInv'
      BY <1>t, <1>u, <2>1, <2>2, <2>4 DEF StageInv, SentInv
    <3>5. DownInv' /\ FilesAccounted'
      BY <1>t, <1>u, <2>1, <2>4 DEF StageInv, DownInv, FilesAccounted, stageVars
    <3> QED BY <3>2, <3>3, <3>4, <3>5 DEF StageInv
  <2> QED BY <1>4, <2>3, <2>4 DEF ChunkControl
<1>5. ASSUME NEW s \in Streams, finalizeStage(s) PROVE StageInv'
  <2>1. /\ storing' = [storing EXCEPT ![s] = "no"] /\ files' = files \ {s} /\ storing[s] # "no"
        /\ UNCHANGED <<process, socket, conn, pending, sessions, announced, sentOn, sent>>
    BY <1>5 DEF finalizeStage, hostVars, hubVars
  <2>2. StoringInv' /\ PendingInv' /\ SentInv' /\ DownInv'
    BY <1>t, <2>1 DEF StageInv, StoringInv, PendingInv, PendingIsChunk, SentInv, DownInv, TypeOK
  <2>3. FilesAccounted'
    BY <1>t, <2>1 DEF StageInv, FilesAccounted, StoringInv, TypeOK
  <2> QED BY <2>2, <2>3 DEF StageInv
<1>6. ASSUME NEW fits \in BOOLEAN, ChunkPayload(fits) PROVE StageInv'
  <2>1. /\ socket # "none" /\ UNCHANGED <<process, conn, sentOn, sent>>
        /\ half \in Streams
    BY <1>6, <1>t DEF ChunkPayload, hostVars, TypeOK
  <2>2. CASE pending # NoChunk
    <3>1. finishChunk(pending, sent[half], fits) /\ pending' = NoChunk /\ sent[half] \in 0..Last
      BY <1>6, <1>t, <2>1, <2>2 DEF ChunkPayload, TypeOK
    <3> QED BY <1>0, <2>1, <2>2, <3>1, FinishStep
  <2>3. CASE pending = NoChunk
    BY <1>6, <1>u, <2>1, <2>3, StageFrame DEF ChunkPayload, stageVars
  <2> QED BY <2>2, <2>3
<1>7. CASE BadFrame
  BY <1>7, <1>u, StageFrame DEF BadFrame, hostVars, stageVars, hubVars
<1>8. CASE connect
  BY <1>8, <1>t, StageFrame DEF connect, hostVars, stageVars, hubVars, TypeOK
<1>9. CASE closed
  <2>1. /\ sessions' = {} /\ files' = files \ sessions /\ announced' = {} /\ socket' = "none"
        /\ UNCHANGED <<process, conn, pending, storing, sentOn, sent>>
    BY <1>9 DEF closed, cleanupAllStageSessions, abort, hostVars
  <2>2. StoringInv' /\ PendingInv' /\ SentInv' /\ DownInv'
    BY <1>t, <2>1 DEF StageInv, StoringInv, PendingInv, SentInv, DownInv
  <2>3. FilesAccounted'
    BY <1>t, <2>1 DEF StageInv, FilesAccounted, TypeOK
  <2> QED BY <2>2, <2>3 DEF StageInv
<1>10. CASE Crash \/ stop
  <2>1. /\ sessions' = {} /\ announced' = {} /\ socket' = "none" /\ process' = "down"
        /\ pending' = NoChunk /\ storing' = [s \in Streams |-> "no"]
        /\ UNCHANGED <<conn, sentOn, sent>>
    BY <1>10 DEF Crash, stop, MemoryLost
  <2> QED BY <1>t, <2>1
          DEF StageInv, StoringInv, PendingInv, SentInv, DownInv, FilesAccounted
<1>11. CASE start
  BY <1>11, <1>t
  DEF start, hubVars, StageInv, StoringInv, PendingInv, SentInv, DownInv, FilesAccounted
<1>12. CASE UNCHANGED vars
  BY <1>12, <1>t, <1>u, StageFrame DEF vars, hostVars, stageVars, hubVars, StageInv, DownInv
<1>13. CASE ping
  BY <1>13, <1>w DEF ping, hostVars, hubVars
<1> QED BY <1>1, <1>2, <1>3, <1>4, <1>5, <1>6, <1>7, <1>8, <1>9, <1>10, <1>11, <1>12, <1>13
        DEF Next

LEMMA StageInit == ASSUME ConstantsAssumption, Init PROVE TunnelInv
<1>1. TypeOK /\ PendingIsChunk
  BY TypeInit
<1> QED BY <1>1 DEF Init, TunnelInv, StageInv, StoringInv, PendingInv, SentInv, DownInv, FilesAccounted

\* The staging directory holds exactly the files of open sessions and of transfers that
\* are being stored, whatever is cut off where (finishChunk, finalizeStage, the close
\* handler, start).
THEOREM NoFileLeaks == Spec => []FilesAccounted
<1>1. TunnelInv /\ [Next]_vars => TunnelInv'
  BY StageStep, ConstantsAssumption
<1>2. Init => TunnelInv
  BY StageInit, ConstantsAssumption
<1>3. TunnelInv => FilesAccounted
  BY DEF TunnelInv, StageInv
<1> QED BY <1>1, <1>2, <1>3, PTL DEF Spec

-----------------------------------------------------------------------------
(* The two halves of a chunk.                                              *)

\* The pending half is never of a later connection; without a socket nothing is under way.
HalfInv == /\ pending.on <= conn
           /\ socket = "none" => half = Nobody
           /\ HalvesMeet

\* Only the payload that follows its control half on the same connection meets it.
LEMMA HalfStep ==
    ASSUME ConstantsAssumption, TunnelInv, HalfInv, [Next]_vars
    PROVE  HalfInv'
<1>t. TypeOK /\ PendingIsChunk
  BY DEF TunnelInv
<1>n. NoChunk.on = 0 /\ NoChunk.id = Nobody
  BY DEF NoChunk
<1> USE DEF HalfInv, HalvesMeet
<1>1. ASSUME NEW q \in Requests, Request(q) PROVE HalfInv'
  <2>1. /\ socket # "none" /\ conn' = conn /\ half' = half /\ socket' # "none"
        /\ pending' = NoChunk
    BY <1>1 DEF Request, handleReq, Swallow, finishChunk, Deliverable
  <2> QED BY <1>t, <1>n, <2>1 DEF TypeOK
<1>2. ASSUME NEW s \in Streams, Announce(s) PROVE HalfInv'
  <2>1. /\ socket # "none" /\ conn' = conn /\ half' = half /\ socket' # "none"
        /\ pending' = NoChunk
    BY <1>2 DEF Announce, handleStage, Swallow, finishChunk, Deliverable
  <2> QED BY <1>t, <1>n, <2>1 DEF TypeOK
<1>3. ASSUME NEW s \in Streams, ChunkControl(s) PROVE HalfInv'
  <2>1. /\ conn' = conn /\ half' = s /\ socket' # "none"
        /\ pending' = NoChunk \/ (pending'.id = s /\ pending'.on = conn)
    BY <1>3 DEF ChunkControl, Swallow, finishChunk
  <2> QED BY <1>t, <1>n, <2>1 DEF TypeOK
<1>4. ASSUME NEW fits \in BOOLEAN, ChunkPayload(fits) PROVE HalfInv'
  <2>1. /\ conn' = conn /\ half' = Nobody /\ pending' = NoChunk
    BY <1>4 DEF ChunkPayload
  <2> QED BY <1>t, <1>n, <2>1 DEF TypeOK
<1>5. CASE connect
  BY <1>5, <1>t, ConstantsAssumption DEF connect, hubVars, TypeOK, PendingIsChunk
<1>6. CASE closed \/ BadFrame
  BY <1>6 DEF closed, BadFrame, hubVars
<1>7. CASE Crash \/ stop
  BY <1>7, <1>t, <1>n DEF Crash, stop, MemoryLost, TypeOK
<1>8. CASE start \/ UNCHANGED vars \/ (\E q \in Requests : Answer(q))
                 \/ (\E s \in Streams : finalizeStage(s))
  BY <1>8 DEF start, vars, Answer, finalizeStage, hubVars
<1>9. CASE ping
  <2>1. /\ conn' = conn /\ half' = half /\ socket' # "none" /\ pending' = NoChunk
    BY <1>9 DEF ping, Swallow, finishChunk, hubVars
  <2> QED BY <1>t, <1>n, <2>1 DEF TypeOK
<1> QED BY <1>1, <1>2, <1>3, <1>4, <1>5, <1>6, <1>7, <1>8, <1>9 DEF Next

\* A frame is mistaken for a payload only when the connection before was cut between the
\* two halves of a chunk (handleMessage, pendingChunk).
THEOREM ChunkHalvesMeet == Spec => []HalvesMeet
<1>1. TunnelInv /\ HalfInv /\ [Next]_vars => (TunnelInv /\ HalfInv)'
  BY StageStep, HalfStep, ConstantsAssumption
<1>2. Init => TunnelInv /\ HalfInv
  <2>1. Init => HalfInv
    BY ConstantsAssumption DEF Init, HalfInv, HalvesMeet, NoChunk
  <2> QED BY <2>1, StageInit, ConstantsAssumption
<1>3. HalfInv => HalvesMeet
  BY DEF HalfInv
<1> QED BY <1>1, <1>2, <1>3, PTL DEF Spec

-----------------------------------------------------------------------------
(* Answers.                                                                *)

Unanswered(x) == answers[x] = <<>> /\ sentOn[x] # 0

\* What is still owed an answer has none yet, and the Hub has used its id.
OwedInv == /\ \A x \in Ids : sentOn[x] = 0 => answers[x] = <<>>
           /\ \A q \in running : Unanswered(q)
           /\ \A s \in announced : Unanswered(s)
           /\ \A s \in Streams : storing[s] = "owed" => Unanswered(s)

AnswerInv == OwedInv /\ AnsweredOnce /\ OkMeansStored

\* The steps that answer nothing and take on nothing new.
LEMMA AnswerFrame ==
    ASSUME AnswerInv, answers' = answers, stored' = stored,
           \A x \in Ids : sentOn[x] # 0 => sentOn'[x] # 0,
           announced \subseteq Streams, running \subseteq Requests,
           running' \subseteq running, announced' \subseteq announced,
           \A s \in Streams : storing'[s] = "owed" => storing[s] = "owed" \/ s \in announced
    PROVE  AnswerInv'
<1> USE DEF AnswerInv
<1>1. OwedInv'
  BY DEF OwedInv, Unanswered, Ids
<1>2. AnsweredOnce' /\ OkMeansStored'
  BY DEF AnsweredOnce, OkMeansStored
<1> QED BY <1>1, <1>2

\* A reply goes out for an id that is owed one, which then owes nothing.
LEMMA AnswerSent ==
    ASSUME TypeOK, AnswerInv, NEW x \in Ids, NEW status \in Status, sendFrame(x, status),
           answers[x] = <<>>, sentOn' = sentOn \/ sentOn' = [sentOn EXCEPT ![x] = conn],
           sentOn'[x] # 0,
           running' \subseteq running, x \notin running',
           announced' = announced, x \notin announced,
           \A s \in Streams : storing'[s] = "owed" => storing[s] = "owed" /\ s # x,
           stored \subseteq stored',
           status = "ok" /\ x \in Streams => <<x, Whole>> \in stored'
    PROVE  AnswerInv'
<1> USE DEF AnswerInv
<1>1. \A y \in Ids : y # x => answers'[y] = answers[y] /\ sentOn'[y] = sentOn[y]
  BY DEF sendFrame, TypeOK
<1>2. answers'[x] = <<>> \/ answers'[x] = <<status>>
  BY DEF sendFrame, TypeOK
<1>3. OwedInv'
  BY <1>1, <1>2 DEF OwedInv, Unanswered, Ids, TypeOK
<1>4. AnsweredOnce'
  BY <1>1, <1>2 DEF AnsweredOnce
<1>5. OkMeansStored'
  <2> SUFFICES ASSUME NEW s \in Streams, NEW n \in DOMAIN answers'[s], answers'[s][n] = "ok"
               PROVE  <<s, Whole>> \in stored'
    BY DEF OkMeansStored, Whole
  <2>1. CASE s = x
    BY <1>2, <2>1
  <2>2. CASE s # x
    BY <1>1, <2>2 DEF OkMeansStored, Ids
  <2> QED BY <2>1, <2>2
<1> QED BY <1>3, <1>4, <1>5

\* Every step answers what is owed, once, and truthfully.
LEMMA AnswerStep ==
    ASSUME ConstantsAssumption, TunnelInv, AnswerInv, [Next]_vars
    PROVE  AnswerInv'
<1>t. /\ TypeOK /\ PendingIsChunk /\ StoringInv
      /\ announced \subseteq Streams /\ running \subseteq Requests
  BY DEF TunnelInv, StageInv, TypeOK
<1>u. socket # "none" => conn # 0
  BY DEF TunnelInv, StageInv, SentInv
<1>o. OwedInv
  BY DEF AnswerInv
<1>f. ASSUME NEW i \in 0..Last, NEW fits \in BOOLEAN, pending # NoChunk,
             finishChunk(pending, i, fits)
      PROVE  /\ announced' \subseteq announced
             /\ \A s \in Streams : storing'[s] = "owed" => storing[s] = "owed" \/ s \in announced
  <2> HIDE DEF NoChunk
  <2>1. /\ announced' \subseteq announced
        /\ \A s \in Streams : s # pending.id => storing'[s] = storing[s]
        /\ storing'[pending.id] = "owed" => pending.id \in announced
    BY <1>f, FinishStage
  <2> QED BY <2>1
<1>w. ASSUME Swallow, stored' = stored, \A x \in Ids : sentOn[x] # 0 => sentOn'[x] # 0
      PROVE  AnswerInv'
  <2>1. PICK fits \in BOOLEAN : finishChunk(pending, 0, fits)
    BY <1>w DEF Swallow
  <2>2. pending # NoChunk /\ 0 \in 0..Last /\ UNCHANGED <<running, answers>>
    BY <1>w, ConstantsAssumption DEF Swallow
  <2> QED BY <1>w, <1>t, <1>f, <2>1, <2>2, AnswerFrame
<1>1. ASSUME NEW q \in Requests, Request(q) PROVE AnswerInv'
  <2>1. /\ stored' = stored /\ sentOn[q] = 0 /\ socket # "none" /\ q \in Ids
        /\ sentOn' = [sentOn EXCEPT ![q] = conn]
    BY <1>1 DEF Request, Deliverable, Ids
  <2>2. /\ sentOn'[q] # 0 /\ \A x \in Ids : x # q => sentOn'[x] = sentOn[x]
    BY <1>t, <1>u, <2>1 DEF TypeOK
  <2>3. CASE handleReq(q) /\ running' = running
    <3>1. sendFrame(q, "busy") \/ UNCHANGED answers
      BY <2>3 DEF handleReq
    <3>2. q \notin running /\ q \notin announced /\ answers[q] = <<>>
      BY <1>o, <1>t, <2>1, ConstantsAssumption DEF OwedInv, Unanswered, TypeOK
    <3>3. \A s \in Streams : s # q
      BY ConstantsAssumption
    <3>4. CASE UNCHANGED answers
      BY <1>t, <2>1, <2>2, <2>3, <3>4, AnswerFrame DEF handleReq
    <3>5. CASE sendFrame(q, "busy")
      <4>1. UNCHANGED <<announced, storing>>
        BY <2>3 DEF handleReq
      <4> QED BY <1>t, <2>1, <2>2, <2>3, <3>2, <3>3, <3>5, <4>1, AnswerSent DEF Status
    <3> QED BY <3>1, <3>4, <3>5
  <2>4. CASE handleReq(q) /\ running' = running \cup {q} /\ UNCHANGED answers
    <3>1. UNCHANGED <<announced, storing>>
      BY <2>4 DEF handleReq
    <3>2. answers[q] = <<>>
      BY <1>o, <2>1 DEF OwedInv
    <3>3. OwedInv'
      BY <1>o, <1>t, <2>1, <2>2, <2>4, <3>1, <3>2 DEF OwedInv, Unanswered, Ids
    <3> QED BY <2>1, <2>4, <3>3 DEF AnswerInv, AnsweredOnce, OkMeansStored
  <2>5. CASE Swallow
    BY <1>w, <2>1, <2>2, <2>5
  <2> QED BY <1>1, <2>3, <2>4, <2>5 DEF Request, handleReq
<1>2. ASSUME NEW q \in Requests, Answer(q) PROVE AnswerInv'
  <2>1. /\ q \in running /\ running' = running \ {q}
        /\ UNCHANGED <<announced, storing, sentOn, stored>>
    BY <1>2 DEF Answer, hubVars
  <2>2. (\E status \in {"ok", "failed"} : sendFrame(q, status)) \/ UNCHANGED answers
    BY <1>2 DEF Answer
  <2>3. answers[q] = <<>> /\ sentOn'[q] # 0
    BY <1>o, <2>1 DEF OwedInv, Unanswered
  <2>4. q \in Ids /\ q \notin Streams /\ q \notin announced
    BY <1>t, ConstantsAssumption DEF Ids
  <2>5. ASSUME NEW status \in {"ok", "failed"}, sendFrame(q, status) PROVE AnswerInv'
    BY <1>t, <2>1, <2>3, <2>4, <2>5, AnswerSent DEF Status
  <2>6. CASE UNCHANGED answers
    BY <1>t, <2>1, <2>6, AnswerFrame
  <2> QED BY <2>2, <2>5, <2>6
<1>3. ASSUME NEW s \in Streams, Announce(s) PROVE AnswerInv'
  <2>1. /\ stored' = stored /\ sentOn[s] = 0 /\ socket # "none" /\ s \in Ids
        /\ sentOn' = [sentOn EXCEPT ![s] = conn]
    BY <1>3 DEF Announce, Deliverable, Ids
  <2>2. /\ sentOn'[s] # 0 /\ \A x \in Ids : x # s => sentOn'[x] = sentOn[x]
    BY <1>t, <1>u, <2>1 DEF TypeOK
  <2>3. CASE handleStage(s)
    <3>1. announced' = announced \cup {s} /\ UNCHANGED <<storing, running, answers>>
      BY <2>3 DEF handleStage
    <3>2. answers[s] = <<>>
      BY <1>o, <2>1 DEF OwedInv
    <3>3. OwedInv'
      BY <1>o, <1>t, <2>1, <2>2, <3>1, <3>2 DEF OwedInv, Unanswered, Ids
    <3> QED BY <2>1, <3>1, <3>3 DEF AnswerInv, AnsweredOnce, OkMeansStored
  <2>4. CASE Swallow
    BY <1>w, <2>1, <2>2, <2>4
  <2> QED BY <1>3, <2>3, <2>4 DEF Announce
<1>4. ASSUME NEW s \in Streams, ChunkControl(s) PROVE AnswerInv'
  <2>1. /\ stored' = stored /\ socket # "none" /\ s \in Ids
        /\ sentOn' = [sentOn EXCEPT ![s] = conn]
    BY <1>4 DEF ChunkControl, Ids
  <2>2. \A x \in Ids : sentOn[x] # 0 => sentOn'[x] # 0
    BY <1>t, <1>u, <2>1 DEF TypeOK
  <2>3. CASE Swallow
    BY <1>w, <2>1, <2>2, <2>3
  <2>4. CASE UNCHANGED <<announced, storing, running, answers>>
    BY <1>t, <2>1, <2>2, <2>4, AnswerFrame
  <2> QED BY <1>4, <2>3, <2>4 DEF ChunkControl
<1>5. ASSUME NEW s \in Streams, finalizeStage(s) PROVE AnswerInv'
  <2>1. /\ storing' = [storing EXCEPT ![s] = "no"] /\ storing[s] # "no" /\ s \in Ids
        /\ UNCHANGED <<announced, running, sentOn>>
    BY <1>5 DEF finalizeStage, hubVars, Ids
  <2>2. PICK ok \in BOOLEAN :
            /\ ok => Acceptable(s)
            /\ stored' = IF ok THEN stored \cup {<<s, content[s]>>} ELSE stored
            /\ IF storing[s] = "owed" THEN sendFrame(s, IF ok THEN "ok" ELSE "refused")
                                      ELSE UNCHANGED answers
    BY <1>5 DEF finalizeStage
  <2>3. \A x \in Streams : storing'[x] = "owed" => storing[x] = "owed" /\ x # s
    BY <1>t, <2>1 DEF TypeOK
  <2>4. stored \subseteq stored'
    BY <2>2
  <2>5. CASE storing[s] = "owed"
    <3>1. answers[s] = <<>> /\ sentOn'[s] # 0 /\ s \notin announced /\ s \notin running
      BY <1>o, <1>t, <2>1, <2>5, ConstantsAssumption DEF OwedInv, Unanswered, StoringInv
    <3>2. PICK status \in {"ok", "refused"} :
              /\ sendFrame(s, status)
              /\ status = "ok" => <<s, Whole>> \in stored'
      <4>1. CASE ok
        BY <2>2, <2>5, <4>1 DEF Acceptable
      <4>2. CASE ~ok
        BY <2>2, <2>5, <4>2
      <4> QED BY <4>1, <4>2
    <3>3. status \in Status
      BY DEF Status
    <3> QED BY <1>t, <2>1, <2>3, <2>4, <3>1, <3>2, <3>3, AnswerSent
  <2>6. CASE storing[s] # "owed"
    <3>1. UNCHANGED answers
      BY <2>2, <2>6
    <3>2. OwedInv'
      BY <1>o, <2>1, <2>3, <3>1 DEF OwedInv, Unanswered
    <3> QED BY <2>4, <3>1, <3>2 DEF AnswerInv, AnsweredOnce, OkMeansStored
  <2> QED BY <2>5, <2>6
<1>6. ASSUME NEW fits \in BOOLEAN, ChunkPayload(fits) PROVE AnswerInv'
  <2>1. UNCHANGED <<running, sentOn, stored, answers>> /\ sent[half] \in 0..Last
    BY <1>6, <1>t DEF ChunkPayload, TypeOK
  <2>2. CASE pending # NoChunk
    <3>1. finishChunk(pending, sent[half], fits)
      BY <1>6, <2>2 DEF ChunkPayload
    <3> QED BY <1>t, <1>f, <2>1, <2>2, <3>1, AnswerFrame
  <2>3. CASE pending = NoChunk
    BY <1>6, <1>t, <2>1, <2>3, AnswerFrame DEF ChunkPayload
  <2> QED BY <2>2, <2>3
<1>7. CASE BadFrame \/ connect \/ closed \/ start \/ UNCHANGED vars
  <2>1. /\ announced' \subseteq announced
        /\ UNCHANGED <<running, sentOn, stored, answers, storing>>
    BY <1>7 DEF BadFrame, connect, closed, cleanupAllStageSessions, start, vars, hubVars
  <2> QED BY <1>t, <2>1, AnswerFrame
<1>8. CASE Crash \/ stop
  <2>1. /\ announced' = {} /\ running' = {} /\ storing' = [s \in Streams |-> "no"]
        /\ UNCHANGED <<sentOn, stored, answers>>
    BY <1>8 DEF Crash, stop, MemoryLost
  <2> QED BY <1>t, <2>1, AnswerFrame
<1>9. CASE ping
  BY <1>9, <1>w DEF ping, hubVars
<1> QED BY <1>1, <1>2, <1>3, <1>4, <1>5, <1>6, <1>7, <1>8, <1>9 DEF Next

\* An id is answered at most once, and a successful answer means that the artifact store
\* holds exactly the announced bytes (sendFrame, handleReq, finalizeStage).
THEOREM AnswersAreTrue == Spec => []AnswersTrue
<1>1. TunnelInv /\ AnswerInv /\ [Next]_vars => (TunnelInv /\ AnswerInv)'
  BY StageStep, AnswerStep, ConstantsAssumption
<1>2. Init => TunnelInv /\ AnswerInv
  <2>1. Init => OwedInv
    BY DEF Init, OwedInv, Unanswered
  <2>2. ASSUME Init PROVE AnsweredOnce /\ OkMeansStored
    <3>1. \A x \in Ids : answers[x] = <<>>
      BY <2>2 DEF Init
    <3>2. AnsweredOnce
      BY <3>1 DEF AnsweredOnce
    <3>3. OkMeansStored
      BY <3>1 DEF OkMeansStored, Ids
    <3> QED BY <3>2, <3>3
  <2> QED BY <2>1, <2>2, StageInit, ConstantsAssumption DEF AnswerInv
<1>3. AnswerInv => AnswersTrue
  BY DEF AnswerInv, AnswersTrue
<1> QED BY <1>1, <1>2, <1>3, PTL DEF Spec
=============================================================================
