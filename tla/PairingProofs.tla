---------------------------- MODULE PairingProofs ----------------------------
(***************************************************************************)
(* The credential is deleted only when the Hub has stopped accepting it,   *)
(* for any number of tokens, clusters and deaths of the process.           *)
(***************************************************************************)
EXTENDS Pairing, TLAPS

\* One step of the process, the Hub, the operator or the network keeps the types.
LEMMA TypeStep == TypeOK /\ [Next]_vars => TypeOK'
<1> SUFFICES ASSUME TypeOK, [Next]_vars PROVE TypeOK'
  OBVIOUS
<1> USE ConstantsAssumption DEF TypeOK, Nothing
<1>1. CASE connect
  BY <1>1 DEF connect, buildAuthHeaders, fileVars, hubVars
<1>2. CASE handlePaired
  BY <1>2 DEF handlePaired, PairedFiles, hubVars
<1>3. CASE Crash
  BY <1>3 DEF Crash, ProcessLost, fileVars, hubVars
<1>4. CASE Start
  BY <1>4 DEF Start, fileVars, linkVars, hubVars
<1>5. ASSUME NEW n \in 0..2, NEW torn \in BOOLEAN, CrashInPaired(n, torn) PROVE TypeOK'
  <2>1. credential' \in AllTokens \cup {None} /\ clusterId' \in Ids \cup {None}
        /\ pairToken' \in AllTokens \cup {None}
    BY <1>5 DEF CrashInPaired, PairedFiles
  <2> QED BY <1>5, <2>1 DEF CrashInPaired, ProcessLost, hubVars
<1>6. CASE bootstrapAnswer
  BY <1>6 DEF bootstrapAnswer, linkVars, AllTokens
<1>7. CASE bootstrapFailed
  BY <1>7 DEF bootstrapFailed, fileVars, linkVars, hubVars
<1>8. ASSUME NEW t \in Tokens, OperatorDrops(t) PROVE TypeOK'
  BY <1>8 DEF OperatorDrops, linkVars, AllTokens
<1>9. CASE HubOpens
  BY <1>9 DEF HubOpens, fileVars, hubVars
<1>10. CASE HubPairs
  BY <1>10 DEF HubPairs, Redeemable, fileVars
<1>11. CASE HubRefuses
  BY <1>11 DEF HubRefuses, Close, handleRepairRequiredClose, hubVars
<1>12. CASE HubHangsUp
  BY <1>12 DEF HubHangsUp, Close, handleRepairRequiredClose, hubVars
<1>13. CASE Drop
  BY <1>13 DEF Drop, Close, handleRepairRequiredClose, hubVars
<1>14. ASSUME NEW i \in Ids, HubRevokes(i) PROVE TypeOK'
  BY <1>14 DEF HubRevokes, fileVars, linkVars
<1>15. CASE UNCHANGED vars
  BY <1>15 DEF vars, fileVars, linkVars, hubVars
<1> QED
  BY <1>1, <1>2, <1>3, <1>4, <1>5, <1>6, <1>7, <1>8, <1>9, <1>10, <1>11, <1>12,
     <1>13, <1>14, <1>15 DEF Next, HubAnswers

\* Every variable of the pairing model stays in its state space (the three files, the
\* socket, the Hub's tables), however often the process dies.
THEOREM TypeCorrect == Spec => []TypeOK
<1>1. Init => TypeOK
  BY ConstantsAssumption DEF Init, TypeOK, Nothing, AllTokens
<1> QED BY <1>1, TypeStep, PTL DEF Spec

-----------------------------------------------------------------------------
(* What the files and the socket know of each other.                       *)

\* handlePaired deletes the token last: without a token file the id is the
\* credential's own.
IdMatches == credential # None /\ pairToken = None => clusterId = IdOf[credential]

\* A token that is being redeemed is still in its file, and `paired` travels only on
\* the socket that redeemed it.
TokenStays ==
    /\ link = "dialing" /\ shown.token # None => pairToken # None
    /\ frame # None => link = "paired" /\ pairToken # None

\* The socket presented what the files still say.
ShownIsStored ==
    link \in {"dialing", "open"} =>
        /\ shown.cred = credential
        /\ credential # None => shown.id = clusterId

CredentialInv == TypeOK /\ IdMatches /\ TokenStays /\ ShownIsStored

\* Every step keeps the files and the socket in agreement.
LEMMA CredentialStep == CredentialInv /\ [Next]_vars => CredentialInv'
<1> SUFFICES ASSUME CredentialInv, [Next]_vars PROVE (IdMatches /\ TokenStays /\ ShownIsStored)'
  BY TypeStep DEF CredentialInv
<1> USE ConstantsAssumption DEF CredentialInv, TypeOK, IdMatches, TokenStays, ShownIsStored, Nothing
<1>1. CASE connect
  BY <1>1 DEF connect, buildAuthHeaders, fileVars
<1>2. CASE handlePaired
  BY <1>2 DEF handlePaired, PairedFiles
<1>3. CASE Crash
  BY <1>3 DEF Crash, ProcessLost, fileVars
<1>4. CASE Start
  BY <1>4 DEF Start, fileVars, linkVars
<1>5. ASSUME NEW n \in 0..2, NEW torn \in BOOLEAN, CrashInPaired(n, torn)
      PROVE  (IdMatches /\ TokenStays /\ ShownIsStored)'
  <2>1. pairToken' = pairToken /\ pairToken # None
    BY <1>5 DEF CrashInPaired, PairedFiles
  <2> QED BY <1>5, <2>1 DEF CrashInPaired, ProcessLost
<1>6. CASE bootstrapAnswer
  BY <1>6 DEF bootstrapAnswer, linkVars, AllTokens
<1>7. CASE bootstrapFailed
  BY <1>7 DEF bootstrapFailed, fileVars, linkVars
<1>8. ASSUME NEW t \in Tokens, OperatorDrops(t)
      PROVE  (IdMatches /\ TokenStays /\ ShownIsStored)'
  BY <1>8 DEF OperatorDrops, linkVars, AllTokens
<1>9. CASE HubOpens
  BY <1>9 DEF HubOpens, fileVars
<1>10. CASE HubPairs
  BY <1>10 DEF HubPairs, Redeemable, fileVars
<1>11. CASE HubRefuses
  BY <1>11 DEF HubRefuses, Close, handleRepairRequiredClose
<1>12. CASE HubHangsUp
  BY <1>12 DEF HubHangsUp, Close, handleRepairRequiredClose
<1>13. CASE Drop
  BY <1>13 DEF Drop, Close, handleRepairRequiredClose
<1>14. ASSUME NEW i \in Ids, HubRevokes(i)
       PROVE  (IdMatches /\ TokenStays /\ ShownIsStored)'
  BY <1>14 DEF HubRevokes, fileVars, linkVars
<1>15. CASE UNCHANGED vars
  BY <1>15 DEF vars, fileVars, linkVars
<1> QED
  BY <1>1, <1>2, <1>3, <1>4, <1>5, <1>6, <1>7, <1>8, <1>9, <1>10, <1>11, <1>12,
     <1>13, <1>14, <1>15 DEF Next, HubAnswers

\* The close handler never deletes a credential the Hub accepts from this cluster:
\* the deletions of handlePaired and of handleRepairRequiredClose are in the right
\* order whatever dies between them.
THEOREM LiveCredentialIsKept == Spec => LiveCredentialKept
<1>1. Init => CredentialInv
  BY ConstantsAssumption
  DEF Init, CredentialInv, TypeOK, IdMatches, TokenStays, ShownIsStored, Nothing, AllTokens
<1>2. CredentialInv /\ [Next]_vars =>
        [process' = "up" /\ credential # None /\ credential' = None => ~Alive(credential)]_vars
  <2> SUFFICES ASSUME CredentialInv, Next, process' = "up", credential # None, credential' = None
               PROVE  ~Alive(credential)
    BY DEF vars
  <2> USE ConstantsAssumption DEF CredentialInv, TypeOK
  <2>1. CASE HubRefuses
    <3>1. pairToken = None /\ link \in {"dialing", "open"} /\ ~Accepts(shown.cred, shown.id)
      BY <2>1 DEF HubRefuses, Close, handleRepairRequiredClose
    <3>2. shown.cred = credential /\ shown.id = IdOf[credential]
      BY <3>1 DEF IdMatches, ShownIsStored
    <3> QED BY <3>1, <3>2 DEF Accepts, Alive
  <2>2. CASE handlePaired
    BY <2>2 DEF handlePaired, PairedFiles
  <2>3. CASE HubHangsUp \/ Drop
    BY <2>3 DEF HubHangsUp, Drop, Close, handleRepairRequiredClose
  <2>4. ASSUME NEW n \in 0..2, NEW torn \in BOOLEAN, CrashInPaired(n, torn) PROVE FALSE
    BY <2>4 DEF CrashInPaired, ProcessLost
  <2>5. CASE connect \/ Crash \/ Start \/ bootstrapAnswer \/ bootstrapFailed \/ HubOpens \/ HubPairs
    BY <2>5 DEF connect, Crash, Start, bootstrapAnswer, bootstrapFailed, HubOpens, HubPairs, fileVars
  <2>6. CASE (\E t \in Tokens : OperatorDrops(t)) \/ (\E i \in Ids : HubRevokes(i))
    BY <2>6 DEF OperatorDrops, HubRevokes, fileVars
  <2> QED BY <2>1, <2>2, <2>3, <2>4, <2>5, <2>6 DEF Next, HubAnswers
<1> QED BY <1>1, <1>2, CredentialStep, PTL DEF Spec, LiveCredentialKept
=============================================================================
