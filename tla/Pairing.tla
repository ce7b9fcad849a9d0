------------------------------- MODULE Pairing -------------------------------
(***************************************************************************)
(* How a tunnel-mode agent gets, keeps and loses its credential.           *)
(*   tunnel/tunnel-client.ts  connect, its close handler, handlePaired     *)
(*   tunnel/pairing.ts        community bootstrap, dead credentials        *)
(*   cluster-secret.ts, state-dir.ts   the three files of the state dir    *)
(* A pair token is used once, so the credential the Hub mints for it goes  *)
(* by the token's name.  JWT_SECRET is not set, as in the installed        *)
(* service: without a credential file the process is unpaired.             *)
(***************************************************************************)
EXTENDS Naturals

CONSTANTS
    Tokens,      \* pair tokens an operator drops into the state dir
    BootToken,   \* the token the community bootstrap redeems its seed for
    Ids,         \* cluster ids of the Hub
    IdOf,        \* token -> the cluster it pairs
    None,        \* an absent or empty file, the local default id
    Bootstrap,   \* whether PRIVOS_APP_CLUSTER_BOOTSTRAP_TOKEN is set
    MaxCrashes   \* bound: deaths of the process

AllTokens == Tokens \cup {BootToken}

ASSUME ConstantsAssumption ==
    /\ IdOf \in [AllTokens -> Ids]
    /\ None \notin AllTokens \cup Ids
    /\ Bootstrap \in BOOLEAN
    /\ MaxCrashes \in Nat

VARIABLES
    credential, \* state file: the credential, named by the token it was minted for
    clusterId,  \* state file: the Hub's id for this cluster
    pairToken,  \* state file: the token to redeem
    process,    \* "up" | "down"
    crashes,    \* deaths of the process so far
    link,       \* "down" (backoff or before the first connect) | "dialing" | "open" | "paired"
    shown,      \* what the current socket presented: a credential and id, or a token
    frame,      \* the `paired` frame on its way, by token
    bootstrap,  \* runCommunityBootstrap: "idle" | "asked" (waiting for its answer)
    minted,     \* Hub: tokens issued so far
    burnt,      \* Hub: tokens redeemed so far
    honoured    \* Hub: cluster id -> the credential it accepts

fileVars == <<credential, clusterId, pairToken>>
linkVars == <<link, shown, frame>>
hubVars  == <<minted, burnt, honoured>>
vars == <<fileVars, process, crashes, linkVars, bootstrap, hubVars>>

Nothing == [cred |-> None, id |-> None, token |-> None]

TypeOK ==
    /\ credential \in AllTokens \cup {None}
    /\ clusterId \in Ids \cup {None}
    /\ pairToken \in AllTokens \cup {None}
    /\ process \in {"up", "down"}
    /\ crashes \in 0..MaxCrashes
    /\ link \in {"down", "dialing", "open", "paired"}
    /\ shown \in [cred : AllTokens \cup {None}, id : Ids \cup {None},
                  token : AllTokens \cup {None}]
    /\ frame \in AllTokens \cup {None}
    /\ bootstrap \in {"idle", "asked"}
    /\ minted \subseteq AllTokens
    /\ burnt \subseteq minted
    /\ honoured \in [Ids -> AllTokens \cup {None}]

\* The Hub accepts this credential of this process, under the id it was given.
Accepts(c, id) == c # None /\ id # None /\ honoured[id] = c
Alive(c)       == c # None /\ honoured[IdOf[c]] = c
Redeemable(t)  == t \in minted \ burnt

-----------------------------------------------------------------------------
(* The process.                                                            *)

\* Mutant: the pair token is never presented.
buildAuthHeadersNoToken == [cred |-> credential, id |-> clusterId, token |-> None]

\* A credential goes before a pair token; the id is read afresh.
buildAuthHeaders ==
    IF credential # None
    THEN [cred |-> credential, id |-> clusterId, token |-> None]
    ELSE [cred |-> None, id |-> None, token |-> pairToken]

\* connect(): kicks off the bootstrap of a process that has neither a credential
\* nor a token, then dials with what the files say now.
connect ==
    /\ process = "up"
    /\ link = "down"
    /\ link' = "dialing"
    /\ shown' = buildAuthHeaders
    /\ bootstrap' = IF Bootstrap /\ credential = None /\ pairToken = None
                    THEN "asked" ELSE bootstrap
    /\ UNCHANGED <<fileVars, process, crashes, frame, hubVars>>

\* Mutant: an auth failure is taken for a transient one.
handleRepairRequiredCloseIgnored(auth) == UNCHANGED credential

handleRepairRequiredClose(auth) ==
    credential' = IF auth /\ pairToken = None THEN None ELSE credential

\* The close handler: the reconnect timer is set whatever the code was.
Close(auth) ==
    /\ handleRepairRequiredClose(auth)
    /\ link' = "down"
    /\ shown' = Nothing
    /\ frame' = None

\* Mutant: the token is deleted first, the cluster id written last.
PairedFilesTokenFirst(t, n, torn) ==
    /\ pairToken' = IF n >= 1 THEN None ELSE pairToken
    /\ credential' = IF n >= 2 THEN t ELSE IF torn /\ n = 1 THEN None ELSE credential
    /\ clusterId' = IF n >= 3 THEN IdOf[t] ELSE IF torn /\ n = 2 THEN None ELSE clusterId

\* The three files after n of handlePaired's steps; torn when the write of the next
\* one had truncated the file and not filled it.
PairedFiles(t, n, torn) ==
    /\ credential' = IF n >= 1 THEN t ELSE IF torn THEN None ELSE credential
    /\ clusterId' = IF n >= 2 THEN IdOf[t] ELSE IF torn /\ n = 1 THEN None ELSE clusterId
    /\ pairToken' = IF n >= 3 THEN None ELSE pairToken

handlePaired ==
    /\ process = "up"
    /\ frame # None
    /\ PairedFiles(frame, 3, FALSE)
    /\ frame' = None
    /\ UNCHANGED <<process, crashes, link, shown, bootstrap, hubVars>>

ProcessLost ==
    /\ process = "up"
    /\ crashes < MaxCrashes
    /\ crashes' = crashes + 1
    /\ process' = "down"
    /\ link' = "down"
    /\ shown' = Nothing
    /\ frame' = None
    /\ bootstrap' = "idle"

\* The process dies inside handlePaired ...
CrashInPaired(n, torn) ==
    /\ frame # None
    /\ PairedFiles(frame, n, torn)
    /\ ProcessLost
    /\ UNCHANGED hubVars

\* ... or anywhere else.
Crash ==
    /\ ProcessLost
    /\ UNCHANGED <<fileVars, hubVars>>

Start ==
    /\ process = "down"
    /\ process' = "up"
    /\ UNCHANGED <<fileVars, crashes, linkVars, bootstrap, hubVars>>

-----------------------------------------------------------------------------
(* runCommunityBootstrap's answer.  The Hub burns its seed before it       *)
(* replies; the reply may be lost or unreadable, and it arrives whenever   *)
(* it does, whatever happened to the files meanwhile.                      *)

bootstrapAnswer ==
    /\ bootstrap = "asked"
    /\ bootstrap' = "idle"
    /\ BootToken \notin minted
    /\ minted' = minted \cup {BootToken}
    /\ pairToken' \in {pairToken, BootToken}
    /\ UNCHANGED <<credential, clusterId, process, crashes, linkVars, burnt, honoured>>

\* The request failed before the Hub saw it, or was refused.
bootstrapFailed ==
    /\ bootstrap = "asked"
    /\ bootstrap' = "idle"
    /\ UNCHANGED <<fileVars, process, crashes, linkVars, hubVars>>

-----------------------------------------------------------------------------
(* The Hub, the operator and the network (external).                       *)

\* The installer or the command line writes a new token, over an old one.
OperatorDrops(t) ==
    /\ t \notin minted
    /\ minted' = minted \cup {t}
    /\ pairToken' = t
    /\ UNCHANGED <<credential, clusterId, process, crashes, linkVars, bootstrap, burnt, honoured>>

HubOpens ==
    /\ link = "dialing"
    /\ Accepts(shown.cred, shown.id)
    /\ link' = "open"
    /\ UNCHANGED <<fileVars, process, crashes, shown, frame, bootstrap, hubVars>>

\* A valid token: the Hub mints the credential, sends it and will close.
HubPairs ==
    /\ link = "dialing"
    /\ Redeemable(shown.token)
    /\ burnt' = burnt \cup {shown.token}
    /\ honoured' = [honoured EXCEPT ![IdOf[shown.token]] = shown.token]
    /\ link' = "paired"
    /\ frame' = shown.token
    /\ UNCHANGED <<fileVars, process, crashes, shown, bootstrap, minted>>

\* 4401 or 4403: to a dial it does not accept, or to a socket whose credential died.
HubRefuses ==
    /\ \/ link = "dialing" /\ ~Accepts(shown.cred, shown.id) /\ ~Redeemable(shown.token)
       \/ link = "open" /\ ~Accepts(shown.cred, shown.id)
    /\ Close(TRUE)
    /\ UNCHANGED <<clusterId, pairToken, process, crashes, bootstrap, hubVars>>

\* After `paired` was delivered.
HubHangsUp ==
    /\ link = "paired"
    /\ frame = None
    /\ Close(FALSE)
    /\ UNCHANGED <<clusterId, pairToken, process, crashes, bootstrap, hubVars>>

HubRevokes(i) ==
    /\ honoured[i] # None
    /\ honoured' = [honoured EXCEPT ![i] = None]
    /\ UNCHANGED <<fileVars, process, crashes, linkVars, bootstrap, minted, burnt>>

\* The connection is lost, with whatever was under way on it.
Drop ==
    /\ link # "down"
    /\ Close(FALSE)
    /\ UNCHANGED <<clusterId, pairToken, process, crashes, bootstrap, hubVars>>

-----------------------------------------------------------------------------

Init ==
    /\ credential = None
    /\ clusterId = None
    /\ pairToken = None
    /\ process = "down"
    /\ crashes = 0
    /\ link = "down"
    /\ shown = Nothing
    /\ frame = None
    /\ bootstrap = "idle"
    /\ minted = {}
    /\ burnt = {}
    /\ honoured = [i \in Ids |-> None]

HubAnswers == HubOpens \/ HubPairs \/ HubRefuses

Next ==
    \/ connect \/ handlePaired \/ Crash \/ Start
    \/ \E n \in 0..2, torn \in BOOLEAN : CrashInPaired(n, torn)
    \/ bootstrapAnswer \/ bootstrapFailed
    \/ \E t \in Tokens : OperatorDrops(t)
    \/ HubAnswers \/ HubHangsUp \/ Drop
    \/ \E i \in Ids : HubRevokes(i)

Spec == Init /\ [][Next]_vars

\* The reconnect timer always fires again, a supervisor restarts the process, and
\* of many dials one reaches the Hub.
FairSpec ==
    /\ Spec
    /\ WF_vars(connect)
    /\ WF_vars(Start)
    /\ SF_vars(HubAnswers)
    /\ WF_vars(HubHangsUp)
    /\ WF_vars(handlePaired)

-----------------------------------------------------------------------------
(* Properties.                                                             *)

\* handleRepairRequiredClose deletes a credential only when it is dead: a process
\* never throws away a credential the Hub still accepts from this cluster, even when
\* it died half way through handlePaired and dials with the wrong cluster id.
LiveCredentialKept ==
    [][process' = "up" /\ credential # None /\ credential' = None
          => ~Alive(credential)]_vars

\* A credential the Hub no longer accepts is dropped in the end, so the process does
\* not retry forever with it, as long as no token file keeps the close handler from it.
DeadCredentialDropped ==
    \A t \in AllTokens :
        credential = t /\ ~Alive(t) ~> credential # t \/ Alive(t) \/ pairToken # None

\* Without a credential a stored token is redeemed without a restart (or replaced by
\* a newer one): the re-pair path of buildAuthHeaders and handlePaired.
TokenRedeemed ==
    \A t \in AllTokens :
        credential = None /\ pairToken = t /\ Redeemable(t)
            ~> credential # None \/ pairToken # t \/ ~Redeemable(t)

\* What pairing.ts says of a new token file: it is redeemed with no restart, whatever
\* the process held before.
RepairRedeems ==
    \A t \in Tokens :
        pairToken = t /\ Redeemable(t) ~> pairToken # t \/ ~Redeemable(t) \/ Alive(credential)
=============================================================================
