------------------------------- MODULE Tunnel -------------------------------
(***************************************************************************)
(* The dial-out tunnel between an agent and the Hub: requests replayed     *)
(* into the agent's own routes and artifacts streamed to a temporary file. *)
(*   tunnel/tunnel-client.ts  connect, handleMessage, handleReq,           *)
(*                            dispatchForwardFrame, the stage sessions     *)
(*   tunnel/forward.ts        what a forwarded request ends with           *)
(*   tunnel/frames.ts         the frames                                   *)
(* The socket delivers the Hub's frames in order and loses what is under   *)
(* way when it closes.  An id is a fresh UUID of the Hub: a transfer that  *)
(* was cut off is not continued, and a retry has a new id.  A chunk is     *)
(* known by its number; 0 stands for bytes that are no chunk of the        *)
(* stream, so a file hashes to the announced digest when it holds exactly  *)
(* the chunks 1, 2, ..., Last.                                             *)
(***************************************************************************)
EXTENDS Naturals, Sequences, FiniteSets

CONSTANTS
    Requests,    \* ids of unary requests
    Forwards,    \* those that are `forward` frames
    Streams,     \* ids of artifact transfers
    Last,        \* number of chunks of a transfer
    Limit,       \* concurrencyLimit
    Nobody,
    MaxConns,    \* bound: connections
    MaxCrashes   \* bound: deaths of the process

ASSUME ConstantsAssumption ==
    /\ Forwards \subseteq Requests
    /\ Requests \cap Streams = {}
    /\ Last \in Nat \ {0}
    /\ Limit \in Nat \ {0}
    /\ Nobody \notin Requests \cup Streams
    /\ MaxConns \in Nat
    /\ MaxCrashes \in Nat

VARIABLES
    process,   \* "up" | "down"
    crashes,
    socket,    \* "none" | "open" | "closing" (close was called, `close` not yet fired)
    conn,      \* number of the current or last connection
    pending,   \* pendingChunk: the control half of a chunk and the connection it came on
    sessions,  \* keys of stageSessions
    content,   \* stream -> numbers of the chunks written to its file
    announced, \* keys of pendingStageReplies
    storing,   \* stream -> finalizeStage: "no" | "bare" | "owed" (a reply is owed)
    files,     \* streams with a file in the staging directory
    running,   \* requests being served; the ones that are not forwards are inFlight
    sentOn,    \* Hub: id -> the connection it was first used on, 0 before
    sent,      \* Hub: stream -> chunks sent
    half,      \* Hub: stream whose control frame went out and whose payload follows
    stored,    \* history: <<stream, content>> the artifact store took
    answers    \* history: id -> statuses of the `res` frames that reached the socket

hostVars  == <<process, crashes>>
stageVars == <<sessions, content, files>>
hubVars   == <<sentOn, sent, half>>
vars == <<hostVars, socket, conn, pending, stageVars, announced, storing, running,
          hubVars, stored, answers>>

Ids     == Requests \cup Streams
NoChunk == [id |-> Nobody, i |-> 0, on |-> 0]
Status  == {"ok", "refused", "busy", "failed"}
Whole   == [i \in 1..Last |-> i]

TypeOK ==
    /\ process \in {"up", "down"}
    /\ crashes \in 0..MaxCrashes
    /\ socket \in {"none", "open", "closing"}
    /\ conn \in 0..MaxConns
    /\ pending \in [id : Streams \cup {Nobody}, i : 0..Last, on : 0..MaxConns]
    /\ sessions \subseteq Streams
    /\ content \in [Streams -> Seq(0..Last)]
    /\ announced \subseteq Streams
    /\ storing \in [Streams -> {"no", "bare", "owed"}]
    /\ files \subseteq Streams
    /\ running \subseteq Requests
    /\ sentOn \in [Ids -> 0..MaxConns]
    /\ sent \in [Streams -> 0..Last]
    /\ half \in Streams \cup {Nobody}
    /\ stored \subseteq Streams \X Seq(0..Last)
    /\ answers \in [Ids -> Seq(Status)]

inFlight == Cardinality(running \ Forwards)

-----------------------------------------------------------------------------
(* Helpers of the client.                                                  *)

\* A frame that finds no open socket is dropped; it goes to the current socket,
\* whichever one its request came on.
sendFrame(id, status) ==
    answers' = IF socket = "open"
               THEN [answers EXCEPT ![id] = Append(answers[id], status)]
               ELSE answers

\* abortStageSession: close the descriptor, unlink the file, forget the session.
abort(S) ==
    /\ sessions' = sessions \ S
    /\ files' = files \ (sessions \cap S)
    /\ UNCHANGED content

\* Mutant: the descriptors are closed and the files stay.
cleanupKeepsFiles ==
    /\ sessions' = {}
    /\ announced' = {}
    /\ UNCHANGED <<content, files>>

cleanupAllStageSessions == abort(sessions) /\ announced' = {}

\* finishChunk: the payload (chunk i of the stream, or bytes of another frame) meets
\* the pending control half.  What does not fit is a cap violation: the session is
\* aborted and the socket closed with 4413.
finishChunk(c, i, fits) ==
    IF ~fits
    THEN /\ abort({c.id})
         /\ socket' = "closing"
         /\ UNCHANGED <<announced, storing>>
    ELSE /\ content' = [content EXCEPT ![c.id] =
                IF c.id \in sessions THEN Append(content[c.id], i) ELSE <<i>>]
         /\ files' = files \cup {c.id}
         /\ IF c.i = Last
            THEN /\ sessions' = sessions \ {c.id}
                 /\ storing' = [storing EXCEPT ![c.id] =
                                   IF c.id \in announced THEN "owed" ELSE "bare"]
                 /\ announced' = announced \ {c.id}
            ELSE /\ sessions' = sessions \cup {c.id}
                 /\ UNCHANGED <<announced, storing>>
         /\ UNCHANGED socket

-----------------------------------------------------------------------------
(* Frames from the Hub.  Deliverable: the socket still delivers after the  *)
(* client called close on it.                                              *)

Deliverable(id) ==
    /\ socket # "none"
    /\ half = Nobody
    /\ sentOn[id] = 0

\* A control half left by an earlier connection takes whatever text comes first for its
\* payload; only by accident has it the declared length.
Swallow ==
    /\ pending # NoChunk
    /\ pending' = NoChunk
    /\ \E fits \in BOOLEAN : finishChunk(pending, 0, fits)
    /\ UNCHANGED <<running, answers>>

handleReq(q) ==
    /\ pending = NoChunk
    /\ IF q \notin Forwards /\ inFlight >= Limit
       THEN sendFrame(q, "busy") /\ UNCHANGED running
       ELSE running' = running \cup {q} /\ UNCHANGED answers
    /\ UNCHANGED <<pending, stageVars, announced, storing, socket>>

Request(q) ==
    /\ Deliverable(q)
    /\ sentOn' = [sentOn EXCEPT ![q] = conn]
    /\ handleReq(q) \/ Swallow
    /\ UNCHANGED <<hostVars, conn, sent, half, stored>>

\* handleReq on the control frame of a transfer: the reply is owed, nothing is replayed.
handleStage(s) ==
    /\ pending = NoChunk
    /\ announced' = announced \cup {s}
    /\ UNCHANGED <<pending, stageVars, storing, running, socket, answers>>

Announce(s) ==
    /\ Deliverable(s)
    /\ sentOn' = [sentOn EXCEPT ![s] = conn]
    /\ handleStage(s) \/ Swallow
    /\ UNCHANGED <<hostVars, conn, sent, half, stored>>

\* `req-chunk`: the binary payload is the next message of this socket.
ChunkControl(s) ==
    /\ socket # "none"
    /\ half = Nobody
    /\ sentOn[s] \in {0, conn}
    /\ sent[s] < Last
    /\ sentOn' = [sentOn EXCEPT ![s] = conn]
    /\ sent' = [sent EXCEPT ![s] = sent[s] + 1]
    /\ half' = s
    /\ \/ /\ pending = NoChunk
          /\ pending' = [id |-> s, i |-> sent[s] + 1, on |-> conn]
          /\ UNCHANGED <<stageVars, announced, storing, socket, running, answers>>
       \/ Swallow
    /\ UNCHANGED <<hostVars, conn, stored>>

\* The payload: written, refused, or, without a control half, ignored.
ChunkPayload(fits) ==
    /\ socket # "none"
    /\ half # Nobody
    /\ half' = Nobody
    /\ IF pending # NoChunk
       THEN finishChunk(pending, sent[half], fits) /\ pending' = NoChunk
       ELSE fits /\ UNCHANGED <<pending, stageVars, announced, storing, socket>>
    /\ UNCHANGED <<hostVars, conn, running, sentOn, sent, stored, answers>>

\* `ping`, or any other text: taken for a payload as well.  Otherwise it is answered
\* with a `pong`, which changes nothing here.
ping ==
    /\ socket # "none"
    /\ half = Nobody
    /\ Swallow
    /\ UNCHANGED <<hostVars, conn, hubVars, stored>>

\* decodeFrame refuses a text frame: 4400.
BadFrame ==
    /\ socket = "open"
    /\ half = Nobody
    /\ pending = NoChunk
    /\ socket' = "closing"
    /\ UNCHANGED <<hostVars, conn, pending, stageVars, announced, storing, running,
                   hubVars, stored, answers>>

-----------------------------------------------------------------------------
(* Continuations.                                                          *)

\* inject or the forwarded call settles, in one way or another.  A reply over the
\* frame's size is refused by encodeFrame and dropped.
Answer(q) ==
    /\ q \in running
    /\ running' = running \ {q}
    /\ \/ \E status \in {"ok", "failed"} : sendFrame(q, status)
       \/ UNCHANGED answers
    /\ UNCHANGED <<hostVars, socket, conn, pending, stageVars, announced, storing,
                   hubVars, stored>>

\* Mutant: the streamed bytes are not compared with the announced digest.
AcceptableAny(s) == TRUE

\* The digest check of finalizeStage.
Acceptable(s) == storing[s] = "bare" \/ content[s] = Whole

\* Mutant: a refused transfer is not answered.
finalizeStageSilent(s) ==
    /\ storing[s] # "no"
    /\ \E ok \in BOOLEAN :
        /\ ok => Acceptable(s)
        /\ stored' = IF ok THEN stored \cup {<<s, content[s]>>} ELSE stored
        /\ IF storing[s] = "owed" /\ ok THEN sendFrame(s, "ok") ELSE UNCHANGED answers
    /\ storing' = [storing EXCEPT ![s] = "no"]
    /\ files' = files \ {s}
    /\ UNCHANGED <<hostVars, socket, conn, pending, sessions, content, announced, running,
                   hubVars>>

\* finalizeStage: the artifact store takes the file or refuses it; then the file goes
\* and a reply that is owed is sent.
finalizeStage(s) ==
    /\ storing[s] # "no"
    /\ \E ok \in BOOLEAN :
        /\ ok => Acceptable(s)
        /\ stored' = IF ok THEN stored \cup {<<s, content[s]>>} ELSE stored
        /\ IF storing[s] = "owed" THEN sendFrame(s, IF ok THEN "ok" ELSE "refused")
                                  ELSE UNCHANGED answers
    /\ storing' = [storing EXCEPT ![s] = "no"]
    /\ files' = files \ {s}
    /\ UNCHANGED <<hostVars, socket, conn, pending, sessions, content, announced, running,
                   hubVars>>

-----------------------------------------------------------------------------
(* The connection and the process.                                         *)

connect ==
    /\ process = "up"
    /\ socket = "none"
    /\ conn < MaxConns
    /\ conn' = conn + 1
    /\ socket' = "open"
    /\ UNCHANGED <<hostVars, pending, stageVars, announced, storing, running, hubVars,
                   stored, answers>>

\* The `close` event, for whatever reason.  The control half of a chunk is kept.
closed ==
    /\ socket # "none"
    /\ socket' = "none"
    /\ cleanupAllStageSessions
    /\ half' = Nobody
    /\ UNCHANGED <<hostVars, conn, pending, storing, running, sentOn, sent, stored, answers>>

MemoryLost ==
    /\ crashes < MaxCrashes
    /\ crashes' = crashes + 1
    /\ process' = "down"
    /\ socket' = "none"
    /\ pending' = NoChunk
    /\ sessions' = {}
    /\ announced' = {}
    /\ storing' = [s \in Streams |-> "no"]
    /\ running' = {}
    /\ half' = Nobody
    /\ UNCHANGED <<conn, content, sentOn, sent, stored, answers>>

Crash == process = "up" /\ MemoryLost /\ UNCHANGED files

\* stop() at shutdown: the sessions are aborted, what finalizeStage holds is cut off.
stop == process = "up" /\ MemoryLost /\ files' = files \ sessions

\* start(): cleanupStagingDir, then the first connect.
start ==
    /\ process = "down"
    /\ process' = "up"
    /\ files' = {}
    /\ UNCHANGED <<crashes, socket, conn, pending, sessions, content, announced, storing,
                   running, hubVars, stored, answers>>

-----------------------------------------------------------------------------

Init ==
    /\ process = "down"
    /\ crashes = 0
    /\ socket = "none"
    /\ conn = 0
    /\ pending = NoChunk
    /\ sessions = {}
    /\ content = [s \in Streams |-> <<>>]
    /\ announced = {}
    /\ storing = [s \in Streams |-> "no"]
    /\ files \in SUBSET Streams     \* left by an earlier release
    /\ running = {}
    /\ sentOn = [x \in Ids |-> 0]
    /\ sent = [s \in Streams |-> 0]
    /\ half = Nobody
    /\ stored = {}
    /\ answers = [x \in Ids |-> <<>>]

Next ==
    \/ \E q \in Requests : Request(q) \/ Answer(q)
    \/ \E s \in Streams : Announce(s) \/ ChunkControl(s) \/ finalizeStage(s)
    \/ \E fits \in BOOLEAN : ChunkPayload(fits)
    \/ ping \/ BadFrame \/ connect \/ closed \/ Crash \/ stop \/ start

Spec == Init /\ [][Next]_vars

\* Promises settle and the event loop runs what follows.
FairSpec ==
    /\ Spec
    /\ \A q \in Requests : WF_vars(Answer(q))
    /\ \A s \in Streams : WF_vars(finalizeStage(s))

-----------------------------------------------------------------------------
(* Properties.                                                             *)

\* A transfer answered with success is in the artifact store with exactly the bytes
\* announced, whatever was cut off, refused, swallowed or delivered after the close of
\* an earlier connection (finalizeStage, finishChunk).
OkMeansStored ==
    \A s \in Streams : \A n \in DOMAIN answers[s] :
        answers[s][n] = "ok" => <<s, Whole>> \in stored

\* While the process runs, every file of the staging directory belongs to an open
\* session or to a transfer that is being stored, and the other way round: no cut-off
\* transfer leaks up to 250 MB, and no file is unlinked under its reader.
FilesAccounted ==
    process = "up" =>
        /\ files = sessions \cup {s \in Streams : storing[s] # "no"}
        /\ \A s \in sessions : storing[s] = "no"

\* An id is answered at most once, across reconnects (handleReq, finalizeStage).
AnsweredOnce == \A x \in Ids : Len(answers[x]) <= 1

\* The Hub may believe an answer: there is one at most, and it is true.
AnswersTrue == AnsweredOnce /\ OkMeansStored

\* On a live connection the client waits for a payload exactly while the Hub is about to
\* send it: a frame is taken for the payload of another one only when the connection
\* before was cut between the two halves of a chunk (handleMessage, pendingChunk).
HalvesMeet ==
    pending # NoChunk /\ socket # "none" => (half = pending.id <=> pending.on = conn)

\* A transfer that was announced and delivered completely is answered, unless its
\* connection ends first: the Hub waits on that reply before ENSURE_READY.
StageAnswered ==
    \A s \in Streams, k \in 1..MaxConns :
        s \in announced /\ conn = k /\ socket = "open"
            ~> \/ answers[s] # <<>> \/ conn # k \/ socket # "open"
               \/ [](sent[s] < Last \/ half = s)
=============================================================================
