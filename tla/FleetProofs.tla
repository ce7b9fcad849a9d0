----------------------------- MODULE FleetProofs -----------------------------
(***************************************************************************)
(* The unprotected apps of a workspace, for any number of apps, nodes,     *)
(* requests and failures: what is billed, listed, reserved, reaped, and    *)
(* what a resumed workspace starts again.                                  *)
(*                                                                         *)
(* CoreInv   every variable's type, where each request may be, who holds   *)
(*           the lock, and that what is listed was created                 *)
(* OverlapInv, AccountInv                                                  *)
(*           what every request says of the document, the bill and the     *)
(*           operator's stop of an app it is alone at (Phase), and what    *)
(*           they are when nobody is at it (Settles)                       *)
(* DueInv    what the reaper's list says of the grace clock                *)
(* GoneInv   what a removal past the agents says of the containers         *)
(* ListInv   what the lock's holder has yet to write of what it made       *)
(* QuotaInv  the room that was found when the quota was checked            *)
(*                                                                         *)
(* Each of them is kept by a lemma per action, under what all actions of   *)
(* its kind leave alone (Frame, Ages, Wanes, RepsStay, Eases).             *)
(***************************************************************************)
EXTENDS Fleet, FiniteSetTheorems, WellFoundedInduction, TLAPS

-----------------------------------------------------------------------------
(* Requests                                                                *)

Placers == {"deploy", "install", "tierUp"}
Holders == Placers \cup {"activate", "tierDown"}
Verbs   == {"start", "stop", "redeploy"}
Loops   == {"suspend", "resume", "revoke", "reap"}

\* Where a request may be, and what it has in hand there.
RequestOK(r) ==
    /\ r.op = "none" => r = Rest
    /\ r.op \notin Loops \cup {"none"} => r.app \in Apps /\ r.todo = {}
    /\ r.op \in Loops => IF r.pc = "next" THEN r.app = "none"
                         ELSE r.app \in Apps /\ r.app \notin r.todo
    /\ r.pc = "place" => r.plan # <<>>
    /\ r.pc = "shrink" => r.op = "tierDown"
    /\ r.pc = "undo" => r.op \in {"deploy", "install"}
    /\ r.pc = "agents" => r.op \notin Holders
    /\ r.pc = "mark" => r.op = "remove"
    /\ r.made # <<>> => r.op \in Placers
    /\ r.op \in Placers /\ r.pc \notin {"place", "undo"} => r.made # <<>>
    /\ r.op = "tierUp" => Len(r.made) + Len(r.plan) = 1
    /\ r.op = "tierDown" => r.snap[r.app] # <<>>

ReqInv == \A c \in Procs : RequestOK(req[c])

\* The lock is with the client whose request needs it; a master that is down
\* works on nothing.
LockInv ==
    /\ \A c \in Clients : (lock = c) <=> (req[c].op \in Holders)
    /\ \A c \in Clients : req[c].op # "reap"
    /\ req["reaper"].op \in {"none", "reap"}
    /\ boot.up = "no" => \A c \in Procs : req[c] = Rest
    /\ boot.up = "yes" => boot.todo = {}
    /\ \A i \in boot.todo : Exists(i)

\* Containers that were listed anywhere were created, for the app they are listed at.
Known(snap, C) ==
    \A a \in Apps : \A i \in Listed(snap[a]) : C[i].st # "unused" /\ C[i].app = a

UsedIn(r, C) ==
    /\ Known(r.snap, C)
    /\ \A i \in Listed(r.made) : C[i].st # "unused" /\ C[i].app = r.app

UsedInv ==
    /\ \A a \in Apps : \A i \in Listed(row[a].reps) : ctr[i].st # "unused" /\ ctr[i].app = a
    /\ \A c \in Procs : UsedIn(req[c], ctr)

CoreInv == TypeOK /\ ReqInv /\ LockInv /\ UsedInv

\* The process c goes from its request to r, and takes or gives back the lock.
Takes(c, r) ==
    /\ r \in Requests
    /\ RequestOK(r)
    /\ req' = [req EXCEPT ![c] = r]
    /\ c \in Clients => r.op # "reap"
    /\ c = "reaper" => r.op \in {"none", "reap"}
    /\ \/ r.op \in Holders /\ req[c].op \in Holders /\ lock' = lock
       \/ r.op \in Holders /\ lock = "free" /\ lock' = c
       \/ r.op \notin Holders /\ lock' = IF lock = c THEN "free" ELSE lock
    /\ boot' = boot
    /\ boot.up = "yes"

-----------------------------------------------------------------------------
(* Sequences and numbers                                                   *)

\* A set of numbers that is not empty has a least one.
LEMMA Least ==
    ASSUME NEW S, S \subseteq Nat, S # {}
    PROVE  \E i \in S : \A j \in S : i <= j
<1> DEFINE R == {ss \in Nat \X Nat : ss[1] < ss[2]}
<1>1. IsWellFoundedOn(R, Nat)
  BY NatLessThanWellFounded, Zenon DEF OpToRel
<1>2. PICK x \in S : \A y \in S : ~(<<y, x>> \in R)
  BY <1>1, WFMin
<1>3. \A y \in Nat : <<y, x>> \in R <=> y < x
  OBVIOUS
<1> HIDE DEF R
<1>4. ASSUME NEW y \in S PROVE x <= y
  <2>1. y \in Nat /\ x \in Nat /\ ~(y < x)
    BY <1>2, <1>3
  <2>2. QED BY <2>1
<1>5. QED BY <1>4

\* The container a placement creates is one that was never used.
LEMMA FreshIsUnused ==
    ASSUME TypeOK, \E i \in Ids : ctr[i].st = "unused"
    PROVE  Fresh \in Ids /\ ctr[Fresh].st = "unused"
<1> DEFINE S == {i \in Ids : ctr[i].st = "unused"}
<1>1. S \subseteq Nat /\ S # {}
  BY DEF Ids
<1>2. PICK i \in S : \A j \in S : i <= j
  BY <1>1, Least
<1>3. i \in Ids /\ ctr[i].st = "unused" /\ \A j \in 1..(i - 1) : ctr[j].st # "unused"
  <2>1. i \in Ids /\ ctr[i].st = "unused" /\ i \in Nat
    BY <1>1, <1>2
  <2>2. MaxContainers \in Nat
    BY ConstantsAssumption DEF ConstantsAssumption
  <2>3. ASSUME NEW j \in 1..(i - 1), ctr[j].st = "unused" PROVE FALSE
    <3>1. j \in Nat /\ j < i /\ j \in Ids
      BY <2>1, <2>2 DEF Ids
    <3>2. i <= j
      BY <3>1, <2>3, <1>2
    <3>3. QED BY <3>1, <3>2, <2>1
  <2>4. QED BY <2>1, <2>3
<1>4. QED BY <1>3 DEF Fresh

\* What the head, the tail and an extension of a sequence are.
LEMMA Pieces ==
    ASSUME NEW S, NEW s \in Seq(S), s # <<>>
    PROVE  /\ Head(s) \in S
           /\ Tail(s) \in Seq(S)
           /\ Len(s) \in Nat
           /\ Len(s) > 0
           /\ Len(Tail(s)) = Len(s) - 1
           /\ Len(s) > 1 => Tail(s) # <<>>
<1>1. /\ Head(s) \in S
      /\ Tail(s) \in Seq(S)
      /\ Len(s) \in Nat
      /\ Len(s) > 0
      /\ Len(Tail(s)) = Len(s) - 1
  OBVIOUS
<1>2. Len(<<>>) = 0
  OBVIOUS
<1>3. ASSUME Tail(s) = <<>> PROVE Len(s) = 1
  <2>1. Len(Tail(s)) = 0
    BY <1>2, <1>3, Zenon
  <2>2. Len(s) - 1 = 0
    BY <1>1, <2>1, Zenon
  <2>3. \A k \in Nat : k - 1 = 0 => k = 1
    OBVIOUS
  <2>4. QED BY <1>1, <2>2, <2>3, Zenon
<1>4. QED BY <1>1, <1>3

\* What a sequence with one more member lists.
LEMMA Extended ==
    ASSUME NEW S, NEW s \in Seq(S), NEW x \in S
    PROVE  /\ Append(s, x) \in Seq(S)
           /\ Append(s, x) # <<>>
           /\ Len(s) \in Nat
           /\ Len(Append(s, x)) = Len(s) + 1
           /\ Listed(Append(s, x)) = Listed(s) \cup {x}
<1>1. /\ Append(s, x) \in Seq(S)
      /\ Append(s, x) # <<>>
      /\ Len(s) \in Nat
      /\ Len(Append(s, x)) = Len(s) + 1
      /\ DOMAIN s = 1..Len(s)
      /\ DOMAIN Append(s, x) = 1..(Len(s) + 1)
      /\ \A i \in 1..Len(s) : Append(s, x)[i] = s[i]
      /\ Append(s, x)[Len(s) + 1] = x
  OBVIOUS
<1>2. 1..(Len(s) + 1) = 1..Len(s) \cup {Len(s) + 1}
  BY <1>1
<1>3. QED BY <1>1, <1>2 DEF Listed

\* What is listed in a sequence are its members.
LEMMA ListedIn ==
    ASSUME NEW S, NEW s \in Seq(S)
    PROVE  Listed(s) \subseteq S
BY DEF Listed

\* The empty sequence lists nothing.
LEMMA ListedNone == Listed(<<>>) = {}
BY DEF Listed

\* A sequence of one lists that one.
LEMMA ListedOne ==
    ASSUME NEW S, NEW x \in S
    PROVE  Listed(<<x>>) = {x} /\ <<x>> \in Seq(S) /\ Len(<<x>>) = 1 /\ <<x>> # <<>>
BY DEF Listed

\* A sequence lists its head and what its tail lists.
LEMMA ListedHead ==
    ASSUME NEW S, NEW s \in Seq(S), s # <<>>
    PROVE  Listed(s) = {Head(s)} \cup Listed(Tail(s))
<1>1. /\ Len(s) \in Nat /\ Len(s) > 0
      /\ DOMAIN s = 1..Len(s) /\ Tail(s) \in Seq(S) /\ Len(Tail(s)) = Len(s) - 1
      /\ DOMAIN Tail(s) = 1..(Len(s) - 1) /\ Head(s) = s[1]
      /\ \A i \in 1..(Len(s) - 1) : Tail(s)[i] = s[i + 1]
  OBVIOUS
<1>2. \A i \in 1..Len(s) : i = 1 \/ (i - 1 \in 1..(Len(s) - 1) /\ s[i] = Tail(s)[i - 1])
  BY <1>1
<1>3. Listed(s) \subseteq {Head(s)} \cup Listed(Tail(s))
  <2>1. ASSUME NEW i \in 1..Len(s) PROVE s[i] \in {Head(s)} \cup Listed(Tail(s))
    <3>1. CASE i = 1
      BY <3>1, <1>1
    <3>2. CASE i # 1
      <4>1. i - 1 \in DOMAIN Tail(s) /\ s[i] = Tail(s)[i - 1]
        BY <3>2, <1>1, <1>2
      <4>2. QED BY <4>1 DEF Listed
    <3>3. QED BY <3>1, <3>2
  <2>2. QED BY <2>1, <1>1 DEF Listed
<1>4. Listed(Tail(s)) \subseteq Listed(s)
  BY <1>1 DEF Listed
<1>5. Head(s) \in Listed(s)
  BY <1>1 DEF Listed
<1>6. QED BY <1>3, <1>4, <1>5

\* Two sequences joined list what each of them lists.
LEMMA ListedBoth ==
    ASSUME NEW S, NEW s \in Seq(S), NEW t \in Seq(S)
    PROVE  /\ s \o t \in Seq(S)
           /\ Len(s \o t) = Len(s) + Len(t)
           /\ Listed(s \o t) = Listed(s) \cup Listed(t)
<1>1. /\ s \o t \in Seq(S)
      /\ Len(s) \in Nat /\ Len(t) \in Nat
      /\ Len(s \o t) = Len(s) + Len(t)
      /\ DOMAIN s = 1..Len(s) /\ DOMAIN t = 1..Len(t)
      /\ DOMAIN (s \o t) = 1..(Len(s) + Len(t))
      /\ \A i \in 1..Len(s) : (s \o t)[i] = s[i]
      /\ \A i \in 1..Len(t) : (s \o t)[Len(s) + i] = t[i]
  OBVIOUS
<1>2. \A i \in 1..(Len(s) + Len(t)) : i \in 1..Len(s) \/ (i - Len(s) \in 1..Len(t) /\ i = Len(s) + (i - Len(s)))
  BY <1>1
<1>3. Listed(s \o t) \subseteq Listed(s) \cup Listed(t)
  BY <1>1, <1>2 DEF Listed
<1>4. Listed(s) \subseteq Listed(s \o t)
  BY <1>1 DEF Listed
<1>5. Listed(t) \subseteq Listed(s \o t)
  <2>1. \A i \in 1..Len(t) : Len(s) + i \in 1..(Len(s) + Len(t))
    BY <1>1
  <2>2. QED BY <1>1, <2>1 DEF Listed
<1>6. QED BY <1>1, <1>3, <1>4, <1>5

-----------------------------------------------------------------------------
(* Requests move                                                           *)

\* A request that rests is in order and is at no app.
LEMMA RestFine == Rest \in Requests /\ RequestOK(Rest) /\ Rest.op = "none" /\ Touches(Rest) = {}
<1>1. <<>> \in Seq(Ids) /\ <<>> \in Seq(Nodes)
  OBVIOUS
<1>2. [a \in Apps |-> <<>>] \in [Apps -> Seq(Ids)]
  BY <1>1
<1>3. Rest \in Requests
  BY <1>1, <1>2 DEF Rest, Requests, Ops, Pcs
<1>4. RequestOK(Rest)
  BY DEF Rest, RequestOK, Placers, Holders, Loops
<1>5. QED BY <1>3, <1>4 DEF Rest, Touches

\* The reaper is no client, and nobody is called "free".
LEMMA Names ==
    /\ "reaper" \notin Clients /\ "free" \notin Clients /\ "reaper" \in Procs
    /\ Clients \subseteq Procs /\ "none" \notin Apps
    /\ \A c \in Procs : c \in Clients \/ c = "reaper"
BY ConstantsAssumption DEF ConstantsAssumption, Procs

\* A master that works on something is up.
LEMMA Busy ==
    ASSUME CoreInv, NEW c \in Procs, req[c].op # "none"
    PROVE  boot.up = "yes" /\ boot.todo = {}
<1>1. req[c] # Rest
  BY RestFine
<1>2. boot.up \in {"yes", "no"}
  BY DEF CoreInv, TypeOK
<1>3. QED BY <1>1, <1>2 DEF CoreInv, LockInv

\* The requests and the lock after a process has taken its next request.
LEMMA TakesCore ==
    ASSUME CoreInv, NEW c \in Procs, NEW r, Takes(c, r)
    PROVE  /\ req' \in [Procs -> Requests]
           /\ req'[c] = r
           /\ \A d \in Procs \ {c} : req'[d] = req[d]
           /\ ReqInv' /\ LockInv'
           /\ lock' \in Clients \cup {"free"}
           /\ boot' \in [up : {"yes", "no"}, todo : SUBSET Ids]
<1> USE Names
<1>1. req \in [Procs -> Requests] /\ lock \in Clients \cup {"free"}
      /\ boot \in [up : {"yes", "no"}, todo : SUBSET Ids]
  BY DEF CoreInv, TypeOK
<1>2. req' = [req EXCEPT ![c] = r] /\ r \in Requests /\ RequestOK(r)
  BY DEF Takes
<1>3. req' \in [Procs -> Requests] /\ req'[c] = r /\ \A d \in Procs \ {c} : req'[d] = req[d]
  BY <1>1, <1>2
<1>4. ReqInv'
  BY <1>2, <1>3 DEF CoreInv, ReqInv
<1>5. boot' = boot /\ boot.up = "yes" /\ boot.todo = {}
  BY DEF Takes, CoreInv, LockInv
<1>6. \A d \in Clients : (lock = d) <=> (req[d].op \in Holders)
  BY DEF CoreInv, LockInv
<1>7. /\ lock' \in Clients \cup {"free"}
      /\ \A d \in Clients : (lock' = d) <=> (req'[d].op \in Holders)
  <2>1. CASE r.op \in Holders /\ req[c].op \in Holders /\ lock' = lock
    BY <2>1, <1>1, <1>3, <1>6
  <2>2. CASE r.op \in Holders /\ lock = "free" /\ lock' = c
    <3>1. c \in Clients
      BY <2>2, <1>1, <1>3 DEF Takes, Holders, Placers
    <3>2. \A d \in Clients : req[d].op \notin Holders
      BY <2>2, <1>6
    <3>3. QED BY <3>1, <3>2, <2>2, <1>3
  <2>3. CASE r.op \notin Holders /\ lock' = IF lock = c THEN "free" ELSE lock
    <3>1. CASE lock = c
      BY <3>1, <2>3, <1>1, <1>3, <1>6
    <3>2. CASE lock # c
      BY <3>2, <2>3, <1>1, <1>3, <1>6
    <3>3. QED BY <3>1, <3>2
  <2>4. QED BY <2>1, <2>2, <2>3 DEF Takes
<1>8. \A d \in Clients : req'[d].op # "reap"
  BY <1>3 DEF CoreInv, LockInv, Takes
<1>9. req'["reaper"].op \in {"none", "reap"}
  BY <1>3 DEF CoreInv, LockInv, Takes
<1>10. LockInv'
  BY <1>5, <1>7, <1>8, <1>9 DEF LockInv
<1>11. QED BY <1>1, <1>3, <1>4, <1>5, <1>7, <1>10

\* Giving up a request, and moving on inside one.
LEMMA EndTakes ==
    ASSUME CoreInv, NEW c \in Procs, End(c), boot' = boot, boot.up = "yes"
    PROVE  Takes(c, Rest)
BY RestFine DEF Takes, End, Holders, Placers

\* A request that moves on within its operation, and keeps or has not the lock.
LEMMA GotoTakes ==
    ASSUME CoreInv, NEW c \in Procs, NEW p \in Pcs, Goto(c, p), lock' = lock, boot' = boot,
           req[c].op # "none", RequestOK([req[c] EXCEPT !.pc = p])
    PROVE  Takes(c, [req[c] EXCEPT !.pc = p])
<1> USE Names
<1> DEFINE r == [req[c] EXCEPT !.pc = p]
<1>1. req[c] \in Requests /\ req \in [Procs -> Requests] /\ lock \in Clients \cup {"free"}
  BY DEF CoreInv, TypeOK
<1>2. r \in Requests /\ r.op = req[c].op
  BY <1>1 DEF Requests
<1>3. req' = [req EXCEPT ![c] = r]
  BY DEF Goto
<1>4. (c \in Clients => r.op # "reap") /\ (c = "reaper" => r.op \in {"none", "reap"})
  BY <1>2 DEF CoreInv, LockInv
<1>5. r.op \notin Holders => lock # c
  BY <1>1, <1>2 DEF CoreInv, LockInv
<1>6. boot.up = "yes"
  BY Busy
<1> HIDE DEF r
<1>7. QED
  <2>1. RequestOK(r)
    BY DEF r
  <2>2. Takes(c, r)
    BY <1>2, <1>3, <1>4, <1>5, <1>6, <2>1 DEF Takes
  <2>3. QED BY <2>2 DEF r

-----------------------------------------------------------------------------
(* An app while no request is at it, and in every phase of the one that is: *)
(* d its document, n the replicas billed, h whether an operator stopped it.*)

Settles(d, n, h) ==
    /\ d.st \in {"RUNNING", "STOPPED"} => n = Len(d.reps)
    /\ d.st \in {"NONE", "QUARANTINED"} => n = 0
    /\ d.st # "NONE" => d.reps # <<>>
    /\ d.susp = "yes" /\ d.st # "REMOVED" => n = Len(d.reps)
    /\ h => d.st \notin {"NONE", "RUNNING", "QUARANTINED"} /\ d.susp = "no"

\* RUNNING, and not billed yet.
Opens(d, n, h, s) == d.st = "RUNNING" /\ n = 0 /\ d.reps = s /\ s # <<>> /\ d.susp = "no" /\ ~h

Installing(r, a, d, n, h) ==
    IF r.op = "deploy" /\ r.pc = "events" THEN Opens(d, n, h, r.made)
    ELSE Settles(d, n, h) /\ d.st \in {"NONE", "REMOVED"}

Activating(r, a, d, n, h) ==
    IF r.pc = "events" THEN Opens(d, n, h, r.snap[a])
    ELSE Settles(d, n, h) /\ d.st = "QUARANTINED" /\ d.reps = r.snap[a]

Resizing(r, a, d, n, h) ==
    /\ d.st = "RUNNING" /\ n = Len(r.snap[a]) /\ n # 0 /\ ~h
    /\ IF r.pc = "events" THEN Len(d.reps) = IF r.op = "tierUp" THEN n + 1 ELSE 1
       ELSE d.reps = r.snap[a]

Revoking(r, a, d, n, h) ==
    IF r.pc = "events" /\ a = r.app
    THEN d.st = "QUARANTINED" /\ d.susp = "no" /\ d.reps # <<>> /\ ~h
    ELSE Settles(d, n, h) /\ d.st \notin {"NONE", "REMOVED"}

Removing(r, a, d, n, h) ==
    /\ Settles(d, n, h)
    /\ a \in r.todo => d.st = "QUARANTINED"
    /\ a \notin r.todo =>
          /\ r.pc = "mark" => d.st \notin {"NONE", "REMOVED"} /\ d.reps = r.snap[a]
          /\ r.pc = "agents" => d.st = "REMOVING" /\ d.reps = r.snap[a]
          /\ r.pc \in {"ingress", "row"} => d.st = "REMOVING"
          /\ r.pc = "events" => d.st = "REMOVED"

Phase(r, a, d, n, h) ==
    /\ r.op \in {"deploy", "install"} => Installing(r, a, d, n, h)
    /\ r.op = "activate" => Activating(r, a, d, n, h)
    /\ r.op \in {"tierUp", "tierDown"} => Resizing(r, a, d, n, h)
    /\ r.op \in Verbs => Settles(d, n, h) /\ d.st \notin {"NONE", "REMOVED"}
    /\ r.op = "suspend" => Settles(d, n, h) /\ d.st = "RUNNING"
    /\ r.op = "resume" => Settles(d, n, h) /\ d.st \notin {"NONE", "REMOVED"} /\ d.susp = "yes"
    /\ r.op = "revoke" => Revoking(r, a, d, n, h)
    /\ r.op \in {"remove", "reap"} => Removing(r, a, d, n, h)
    /\ r.op = "unquarantine" => Opens(d, n, h, r.snap[a])

Stands(r, a, d, n, h) == IF a \in Touches(r) THEN Phase(r, a, d, n, h) ELSE Settles(d, n, h)

\* Apps whose history is excused: operations on them overlapped or were cut off,
\* or a document moved that should not have.
Excused == hist.torn \cup hist.moved

Account(a) ==
    /\ \A c \in Procs : a \in Touches(req[c]) =>
          Phase(req[c], a, row[a], open[a], a \in hist.held)
    /\ a \notin InFlight => Settles(row[a], open[a], a \in hist.held)

AccountInv == \A a \in Apps \ Excused : Account(a)

\* Two requests at one app are remembered.
OverlapInv ==
    \A c, d \in Procs, a \in Apps :
        c # d /\ a \in Touches(req[c]) /\ a \in Touches(req[d]) => a \in hist.torn

\* What a step of c leaves alone: the other requests, and every app that c is not
\* at.  An app c comes to is excused when another request is at it.
Frame(c) ==
    /\ \A d \in Procs \ {c} : req'[d] = req[d]
    /\ hist.torn \subseteq hist'.torn
    /\ hist.moved \subseteq hist'.moved
    /\ \A a \in Apps : a \in Touches(req[c])' =>
          a \in Touches(req[c]) \/ a \notin InFlight \/ a \in hist'.torn
    /\ \A a \in Apps : a \notin Touches(req[c]) /\ a \notin Touches(req[c])' =>
          row'[a] = row[a] /\ open'[a] = open[a] /\ (a \in hist'.held <=> a \in hist.held)

\* What it does to the apps it is at.
Stays(c) ==
    \A a \in Apps \ Excused' :
        /\ a \in Touches(req[c]) \/ a \in Touches(req[c])'
        /\ Stands(req[c], a, row[a], open[a], a \in hist.held)
        => Stands(req'[c], a, row'[a], open'[a], a \in hist'.held)

Step(c) == CoreInv' /\ Frame(c) /\ Stays(c)

\* Overlaps stay remembered.
LEMMA OverlapKept ==
    ASSUME OverlapInv, NEW c \in Procs, Frame(c)
    PROVE  OverlapInv'
<1> SUFFICES ASSUME NEW d \in Procs, NEW e \in Procs, NEW a \in Apps, d # e,
                    a \in Touches(req[d])', a \in Touches(req[e])'
             PROVE  a \in hist'.torn
  BY DEF OverlapInv
<1>1. hist.torn \subseteq hist'.torn
  BY DEF Frame
<1>2. \A p \in Procs \ {c} : Touches(req[p])' = Touches(req[p])
  BY DEF Frame, Touches
<1>3. ASSUME NEW p \in Procs \ {c}, a \in Touches(req[c])', a \in Touches(req[p])'
      PROVE  a \in hist'.torn
  <2>1. a \in Touches(req[p]) /\ a \in InFlight
    BY <1>2, <1>3 DEF InFlight
  <2>2. a \in Touches(req[c]) \/ a \in hist'.torn
    BY <1>3, <2>1 DEF Frame
  <2>3. QED BY <1>1, <2>1, <2>2 DEF OverlapInv
<1>4. CASE d = c
  BY <1>3, <1>4
<1>5. CASE e = c
  BY <1>3, <1>5
<1>6. CASE d # c /\ e # c
  BY <1>1, <1>2, <1>6 DEF OverlapInv
<1>7. QED BY <1>4, <1>5, <1>6

\* The accounts of all apps stay right where a step keeps to its own apps.
LEMMA AccountKept ==
    ASSUME OverlapInv, AccountInv, NEW c \in Procs, Frame(c), Stays(c)
    PROVE  AccountInv'
<1> SUFFICES ASSUME NEW a \in Apps, a \notin Excused'
             PROVE  Account(a)'
  BY DEF AccountInv
<1>1. a \notin Excused /\ a \notin hist.torn /\ a \notin hist'.torn
  BY DEF Excused, Frame
<1>2. \A p \in Procs \ {c} : req'[p] = req[p] /\ Touches(req[p])' = Touches(req[p])
  BY DEF Frame, Touches
<1>3. Account(a)
  BY <1>1 DEF AccountInv
<1>4. \A p \in Procs \ {c} : a \in Touches(req[c])' \/ a \in Touches(req[c]) => a \notin Touches(req[p])
  <2> SUFFICES ASSUME NEW p \in Procs \ {c}, a \in Touches(req[p])
               PROVE  a \notin Touches(req[c])' /\ a \notin Touches(req[c])
    OBVIOUS
  <2>1. a \in InFlight
    BY DEF InFlight
  <2>2. a \notin Touches(req[c])
    BY <1>1 DEF OverlapInv
  <2>3. QED BY <1>1, <2>1, <2>2 DEF Frame
<1>5. InFlight' = UNION {Touches(req[p])' : p \in Procs}
  BY DEF InFlight
<1>6. CASE a \in Touches(req[c])' \/ a \in Touches(req[c])
  <2>1. a \notin Touches(req[c]) => a \notin InFlight
    BY <1>4, <1>6 DEF InFlight
  <2>2. Stands(req[c], a, row[a], open[a], a \in hist.held)
    BY <1>3, <2>1 DEF Stands, Account
  <2>3. Stands(req'[c], a, row'[a], open'[a], a \in hist'.held)
    BY <2>2, <1>6 DEF Stays
  <2>4. ASSUME NEW p \in Procs, a \in Touches(req[p])'
        PROVE  Phase(req'[p], a, row'[a], open'[a], a \in hist'.held)
    <3>1. p = c
      BY <2>4, <1>2, <1>4, <1>6
    <3>2. a \in Touches(req'[c])
      BY <2>4, <3>1 DEF Touches
    <3>3. QED BY <3>1, <3>2, <2>3 DEF Stands
  <2>5. ASSUME a \notin InFlight'
        PROVE  Settles(row'[a], open'[a], a \in hist'.held)
    <3>1. a \notin Touches(req'[c])
      BY <2>5, <1>5 DEF Touches
    <3>2. QED BY <3>1, <2>3 DEF Stands
  <2>6. QED BY <2>4, <2>5 DEF Account
<1>7. CASE a \notin Touches(req[c])' /\ a \notin Touches(req[c])
  <2>1. row'[a] = row[a] /\ open'[a] = open[a] /\ (a \in hist'.held <=> a \in hist.held)
    BY <1>7 DEF Frame
  <2>2. ASSUME NEW p \in Procs, a \in Touches(req[p])'
        PROVE  Phase(req'[p], a, row'[a], open'[a], a \in hist'.held)
    <3>1. p # c /\ req'[p] = req[p] /\ a \in Touches(req[p])
      BY <2>2, <1>2, <1>7
    <3>2. Phase(req[p], a, row[a], open[a], a \in hist.held)
      BY <3>1, <1>3 DEF Account
    <3>3. (a \in hist'.held) = (a \in hist.held)
      BY <2>1
    <3>4. QED BY <3>1, <3>2, <3>3, <2>1
  <2>3. ASSUME a \notin InFlight'
        PROVE  Settles(row'[a], open'[a], a \in hist'.held)
    <3>1. a \notin InFlight
      BY <2>3, <1>2, <1>5, <1>7 DEF InFlight
    <3>2. Settles(row[a], open[a], a \in hist.held)
      BY <3>1, <1>3 DEF Account
    <3>3. (a \in hist'.held) = (a \in hist.held)
      BY <2>1
    <3>4. QED BY <3>2, <3>3, <2>1
  <2>4. QED BY <2>2, <2>3 DEF Account
<1>8. QED BY <1>6, <1>7

-----------------------------------------------------------------------------
(* Steps that leave the documents and the bills alone                      *)

\* A container never becomes another app's, and one that is gone stays gone.
Ages ==
    \A i \in Ids : ctr[i].st # "unused" =>
        /\ ctr'[i].st # "unused"
        /\ ctr'[i].app = ctr[i].app
        /\ Exists(i)' => Exists(i)

\* No document lists more than it did.
Shortens == \A a \in Apps : Listed(row'[a].reps) \subseteq Listed(row[a].reps)

\* Every list is one of container ids.
LEMMA ListsAreIds ==
    ASSUME TypeOK
    PROVE  /\ \A a \in Apps : Listed(row[a].reps) \subseteq Ids
           /\ \A c \in Procs : \A a \in Apps : Listed(req[c].snap[a]) \subseteq Ids
           /\ \A c \in Procs : Listed(req[c].made) \subseteq Ids
<1>1. \A a \in Apps : row[a].reps \in Seq(Ids)
  BY DEF TypeOK, Documents
<1>2. \A c \in Procs : req[c].made \in Seq(Ids) /\ req[c].snap \in [Apps -> Seq(Ids)]
  BY DEF TypeOK, Requests
<1>3. \A c \in Procs : \A a \in Apps : req[c].snap[a] \in Seq(Ids)
  BY <1>2
<1>4. QED BY <1>1, <1>2, <1>3, ListedIn

\* The invariant of requests, lock and containers after a step of c.
LEMMA CoreFrom ==
    ASSUME CoreInv, NEW c \in Procs, NEW s, Takes(c, s),
           ws' \in {"ACTIVE", "REVOKED"}, power' \in {"on", "off"},
           status' \in [Nodes -> {"ACTIVE", "DRAINING"}], row' \in [Apps -> Documents],
           ctr' \in [Ids -> Containers], open' \in [Apps -> Nat], hist' \in Histories,
           spent' \in [requests : Nat, mishaps : Nat],
           Ages, UsedIn(s, ctr'),
           \A a \in Apps : \A i \in Listed(row'[a].reps) : ctr'[i].st # "unused" /\ ctr'[i].app = a
    PROVE  CoreInv'
<1>1. TypeOK' /\ ReqInv' /\ LockInv'
  BY TakesCore DEF TypeOK
<1>2. req'[c] = s /\ \A d \in Procs \ {c} : req'[d] = req[d]
  BY TakesCore
<1>3. ASSUME NEW d \in Procs PROVE UsedIn(req'[d], ctr')
  <2>1. CASE d = c
    BY <2>1, <1>2
  <2>2. CASE d # c
    <3>1. UsedIn(req[d], ctr) /\ req'[d] = req[d]
      BY <2>2, <1>2 DEF CoreInv, UsedInv
    <3>2. /\ \A a \in Apps : Listed(req[d].snap[a]) \subseteq Ids
          /\ Listed(req[d].made) \subseteq Ids
      BY ListsAreIds DEF CoreInv
    <3>3. Known(req[d].snap, ctr')
      BY <3>1, <3>2 DEF Ages, UsedIn, Known
    <3>4. \A i \in Listed(req[d].made) : ctr'[i].st # "unused" /\ ctr'[i].app = req[d].app
      BY <3>1, <3>2 DEF Ages, UsedIn
    <3>5. QED BY <3>1, <3>3, <3>4 DEF UsedIn
  <2>3. QED BY <2>1, <2>2
<1>4. UsedInv'
  BY <1>3 DEF UsedInv
<1>5. QED BY <1>1, <1>4 DEF CoreInv

\* What the documents list stays created, where no list grows.
LEMMA StillUsed ==
    ASSUME CoreInv, Ages, Shortens
    PROVE  \A a \in Apps : \A i \in Listed(row'[a].reps) : ctr'[i].st # "unused" /\ ctr'[i].app = a
BY ListsAreIds DEF CoreInv, UsedInv, Ages, Shortens

\* What a request lists stays created.
LEMMA RequestUsed ==
    ASSUME CoreInv, Ages, NEW c \in Procs, NEW s, s.snap = req[c].snap, s.made = req[c].made,
           s.app = req[c].app \/ s.made = <<>>
    PROVE  UsedIn(s, ctr')
<1>1. UsedIn(req[c], ctr)
  BY DEF CoreInv, UsedInv
<1>2. /\ \A a \in Apps : Listed(req[c].snap[a]) \subseteq Ids
      /\ Listed(req[c].made) \subseteq Ids
  BY ListsAreIds DEF CoreInv
<1>3. Known(s.snap, ctr')
  BY <1>1, <1>2 DEF Ages, UsedIn, Known
<1>4. \A i \in Listed(s.made) : ctr'[i].st # "unused" /\ ctr'[i].app = s.app
  BY <1>1, <1>2, ListedNone DEF Ages, UsedIn
<1>5. QED BY <1>3, <1>4 DEF UsedIn

\* A request that rests lists nothing.
LEMMA RestUsed == UsedIn(Rest, ctr')
<1>1. Listed(Rest.made) = {} /\ \A a \in Apps : Listed(Rest.snap[a]) = {}
  BY ListedNone DEF Rest
<1>2. QED BY <1>1 DEF UsedIn, Known

\* The agents' answers leave every container its app and bring none back.
LEMMA AskedAges ==
    ASSUME CoreInv, NEW verb \in {"start", "stop", "redeploy", "delete"}, NEW ids \in SUBSET Ids,
           NEW bad, NEW hit, \A i \in ids : ctr[i].st # "unused", hit \subseteq ids,
           ctr' = Asked(verb, ids, bad, hit)
    PROVE  /\ ctr' \in [Ids -> Containers]
           /\ Ages
           /\ \A i \in Ids : Exists(i)' => Exists(i)
           /\ verb = "delete" => \A i \in ids \ bad : ~Exists(i)'
<1>1. ctr \in [Ids -> Containers]
  BY DEF CoreInv, TypeOK
<1>2. \A i \in Ids : ctr[i].st # "unused" => ctr[i] \in [app : Apps, node : Nodes, st : {"running", "stopped", "gone"}]
  BY <1>1 DEF Containers, Absent
<1>3. \A v \in {"start", "stop", "redeploy", "delete", "lose"}, st \in {"running", "stopped", "gone"} :
        /\ Answer(v, st) \in {"running", "stopped", "gone"}
        /\ st = "gone" => Answer(v, st) = "gone"
        /\ v = "delete" => Answer(v, st) = "gone"
  BY DEF Answer
<1>4. DOMAIN ctr' = Ids /\ \A i \in Ids : ctr'[i] = Asked(verb, ids, bad, hit)[i]
  BY DEF Asked
<1>5. ASSUME NEW i \in Ids
      PROVE  \/ ctr'[i] = ctr[i] /\ ~(i \in ids \ bad)
             \/ \E v \in {"start", "stop", "redeploy", "delete", "lose"} :
                   /\ i \in ids /\ ctr'[i] = [ctr[i] EXCEPT !.st = Answer(v, ctr[i].st)]
                   /\ i \in ids \ bad => v = verb
  <2>1. CASE i \in ids \ bad
    BY <2>1, <1>4 DEF Asked
  <2>2. CASE i \notin ids \ bad /\ i \in hit
    BY <2>2, <1>4 DEF Asked
  <2>3. CASE i \notin ids \ bad /\ i \notin hit
    BY <2>3, <1>4 DEF Asked
  <2>4. QED BY <2>1, <2>2, <2>3
<1>6. ASSUME NEW i \in Ids
      PROVE  /\ ctr'[i] \in Containers
             /\ ctr[i].st # "unused" => ctr'[i].st # "unused" /\ ctr'[i].app = ctr[i].app
             /\ Exists(i)' => Exists(i)
             /\ verb = "delete" /\ i \in ids \ bad => ~Exists(i)'
  <2>1. CASE ctr'[i] = ctr[i] /\ ~(i \in ids \ bad)
    BY <2>1, <1>1 DEF Exists
  <2>2. CASE \E v \in {"start", "stop", "redeploy", "delete", "lose"} :
                   /\ i \in ids /\ ctr'[i] = [ctr[i] EXCEPT !.st = Answer(v, ctr[i].st)]
                   /\ i \in ids \ bad => v = verb
    <3>1. PICK v \in {"start", "stop", "redeploy", "delete", "lose"} :
                   /\ i \in ids /\ ctr'[i] = [ctr[i] EXCEPT !.st = Answer(v, ctr[i].st)]
                   /\ i \in ids \ bad => v = verb
      BY <2>2
    <3>2. ctr[i] \in [app : Apps, node : Nodes, st : {"running", "stopped", "gone"}]
      BY <3>1, <1>2
    <3>3. Answer(v, ctr[i].st) \in {"running", "stopped", "gone"}
      BY <3>2, <1>3
    <3>4. ctr'[i] \in [app : Apps, node : Nodes, st : {"running", "stopped", "gone"}]
      BY <3>1, <3>2, <3>3
    <3>5. ctr'[i].st = Answer(v, ctr[i].st) /\ ctr'[i].app = ctr[i].app
      BY <3>1, <3>2
    <3>6. ctr[i].st = "gone" => Answer(v, ctr[i].st) = "gone"
      BY <3>2, <1>3
    <3>7. verb = "delete" /\ i \in ids \ bad => Answer(v, ctr[i].st) = "gone"
      BY <3>1, <3>2, <1>3
    <3>8. QED BY <3>2, <3>3, <3>4, <3>5, <3>6, <3>7 DEF Exists, Containers
  <2>3. QED BY <2>1, <2>2, <1>5
<1>7. ctr' = [i \in Ids |-> ctr'[i]]
  BY DEF Asked
<1>8. ctr' \in [Ids -> Containers]
  BY <1>6, <1>7
<1>9. QED BY <1>6, <1>8 DEF Ages

\* Neither the app, the list nor the snapshot changes: the app is in the phase
\* after.
LEMMA PhaseMoves ==
    ASSUME NEW r, NEW s, NEW a, NEW d, NEW n, NEW h,
           s.op = r.op, s.app = r.app, s.todo = r.todo, s.snap = r.snap,
           r.op # "unquarantine" => r.pc # "events" /\ s.pc # "events",
           r.op \in {"remove", "reap"} => \/ r.pc = "agents" /\ s.pc = "ingress"
                                          \/ r.pc = "ingress" /\ s.pc = "row",
           Phase(r, a, d, n, h)
    PROVE  Phase(s, a, d, n, h)
<1>1. CASE r.op \in {"deploy", "install"}
  BY <1>1 DEF Phase, Installing, Verbs
<1>2. CASE r.op = "activate"
  BY <1>2 DEF Phase, Activating, Verbs
<1>3. CASE r.op \in {"tierUp", "tierDown"}
  BY <1>3 DEF Phase, Resizing, Verbs
<1>4. CASE r.op \in Verbs \cup {"suspend", "resume", "unquarantine"}
  BY <1>4 DEF Phase, Verbs
<1>5. CASE r.op = "revoke"
  BY <1>5 DEF Phase, Revoking, Verbs
<1>6. CASE r.op \in {"remove", "reap"}
  <2>1. Removing(r, a, d, n, h)
    BY <1>6 DEF Phase
  <2>2. Removing(s, a, d, n, h)
    BY <2>1, <1>6 DEF Removing
  <2>3. QED BY <2>2, <1>6 DEF Phase, Verbs
<1>7. CASE r.op \notin {"deploy", "install", "activate", "tierUp", "tierDown", "suspend", "resume",
                        "unquarantine", "revoke", "remove", "reap"} \cup Verbs
  BY <1>7 DEF Phase
<1>8. QED BY <1>1, <1>2, <1>3, <1>4, <1>5, <1>6, <1>7

\* Before its events a request has not made the document and the bill differ.
LEMMA PhaseSettles ==
    ASSUME NEW r, NEW a, NEW d \in Documents, NEW n \in Nat, NEW h,
           r.op \in Ops \ {"none", "unquarantine"}, r.pc # "events", Phase(r, a, d, n, h)
    PROVE  Settles(d, n, h)
<1>1. CASE r.op \in {"tierUp", "tierDown"}
  <2>1. /\ d.st = "RUNNING" /\ n = Len(d.reps) /\ n # 0 /\ ~h
    BY <1>1 DEF Phase, Resizing
  <2>2. d.reps # <<>>
    BY <2>1
  <2>3. QED BY <2>1, <2>2 DEF Settles
<1>2. CASE r.op \notin {"tierUp", "tierDown"}
  BY <1>2 DEF Ops, Phase, Verbs, Installing, Activating, Revoking, Removing
<1>3. QED BY <1>1, <1>2

\* A step in which c stays with its apps or leaves them, and writes nothing.
LEMMA WalkStep ==
    ASSUME CoreInv, NEW c \in Procs, NEW s, Takes(c, s),
           row' = row, open' = open, hist'.held = hist.held, hist'.moved = hist.moved,
           hist.torn \subseteq hist'.torn,
           \A a \in Apps : a \in Touches(s) => a \in Touches(req[c]),
           \A a \in Apps : /\ a \notin hist'.torn
                           /\ a \in Touches(req[c])
                           /\ Phase(req[c], a, row[a], open[a], a \in hist.held)
                           => Stands(s, a, row[a], open[a], a \in hist.held)
    PROVE  Frame(c) /\ Stays(c)
<1>1. req'[c] = s /\ \A d \in Procs \ {c} : req'[d] = req[d]
  BY TakesCore
<1>2. Touches(req[c])' = Touches(s)
  BY <1>1 DEF Touches
<1>3. Frame(c)
  BY <1>1, <1>2 DEF Frame
<1>4. ASSUME NEW a \in Apps, a \notin Excused', a \in Touches(req[c]) \/ a \in Touches(req[c])',
             Stands(req[c], a, row[a], open[a], a \in hist.held)
      PROVE  Stands(req'[c], a, row'[a], open'[a], a \in hist'.held)
  <2>1. a \in Touches(req[c]) /\ a \notin hist'.torn
    BY <1>2, <1>4 DEF Excused
  <2>2. Phase(req[c], a, row[a], open[a], a \in hist.held)
    BY <1>4, <2>1 DEF Stands
  <2>3. Stands(s, a, row[a], open[a], a \in hist.held)
    BY <2>1, <2>2
  <2>4. QED BY <1>1, <2>3
<1>5. QED BY <1>3, <1>4 DEF Stays

\* A request given up before its events.
LEMMA EndWalk ==
    ASSUME CoreInv, NEW c \in Procs, End(c), boot' = boot,
           row' = row, open' = open, hist'.held = hist.held, hist'.moved = hist.moved,
           hist.torn \subseteq hist'.torn,
           req[c].op # "none", req[c].pc # "events",
           req[c].op = "unquarantine" => req[c].app \in hist'.torn /\ req[c].todo = {}
    PROVE  Takes(c, Rest) /\ Frame(c) /\ Stays(c)
<1>1. Takes(c, Rest)
  BY Busy, EndTakes
<1>2. Touches(Rest) = {}
  BY RestFine
<1>3. req[c] \in Requests /\ row \in [Apps -> Documents] /\ open \in [Apps -> Nat]
  BY DEF CoreInv, TypeOK
<1>4. ASSUME NEW a \in Apps, a \notin hist'.torn, a \in Touches(req[c]),
             Phase(req[c], a, row[a], open[a], a \in hist.held)
      PROVE  Stands(Rest, a, row[a], open[a], a \in hist.held)
  <2>1. req[c].op # "unquarantine"
    BY <1>4 DEF Touches
  <2>2. req[c].op \in Ops \ {"none", "unquarantine"}
    BY <1>3, <2>1 DEF Requests
  <2>3. row[a] \in Documents /\ open[a] \in Nat
    BY <1>3
  <2>4. Settles(row[a], open[a], a \in hist.held)
    BY <1>4, <2>2, <2>3, PhaseSettles
  <2>5. QED BY <2>4, <1>2 DEF Stands
<1>5. Frame(c) /\ Stays(c)
  BY <1>1, <1>2, <1>4, WalkStep
<1>6. QED BY <1>1, <1>5

\* A request that moves on to a place before its events.
LEMMA GotoWalk ==
    ASSUME CoreInv, NEW c \in Procs, NEW s, Takes(c, s),
           row' = row, open' = open, hist'.held = hist.held, hist'.moved = hist.moved,
           hist.torn \subseteq hist'.torn, req[c].op # "none",
           s.op = req[c].op, s.app = req[c].app, s.todo = req[c].todo, s.snap = req[c].snap,
           req[c].op # "unquarantine" => req[c].pc # "events" /\ s.pc # "events",
           req[c].op \in {"remove", "reap"} => \/ req[c].pc = "agents" /\ s.pc = "ingress"
                                               \/ req[c].pc = "ingress" /\ s.pc = "row"
    PROVE  Frame(c) /\ Stays(c)
<1>1. Touches(s) = Touches(req[c])
  BY DEF Touches
<1>2. ASSUME NEW a \in Apps, a \in Touches(req[c]),
             Phase(req[c], a, row[a], open[a], a \in hist.held)
      PROVE  Stands(s, a, row[a], open[a], a \in hist.held)
  <2>1. Phase(s, a, row[a], open[a], a \in hist.held)
    BY <1>2, PhaseMoves
  <2>2. QED BY <2>1, <1>1, <1>2 DEF Stands
<1>3. QED BY <1>1, <1>2, WalkStep

\* One more mishap is a number.
LEMMA FaultedTyped ==
    ASSUME TypeOK
    PROVE  Faulted \in [requests : Nat, mishaps : Nat]
BY DEF TypeOK, Faulted

\* Containers that do not change age, and lists that do not change do not grow.
LEMMA SameAges ==
    /\ ctr' = ctr => Ages
    /\ row' = row => Shortens
BY DEF Ages, Shortens, Exists

\* A step that changes neither documents nor bills, whatever becomes of the rest.
LEMMA QuietCore ==
    ASSUME CoreInv, NEW c \in Procs, NEW s, Takes(c, s), row' = row, open' = open, status' = status,
           ws' \in {"ACTIVE", "REVOKED"}, power' \in {"on", "off"},
           ctr' \in [Ids -> Containers], hist' \in Histories,
           spent' \in [requests : Nat, mishaps : Nat],
           Ages, UsedIn(s, ctr')
    PROVE  CoreInv'
<1>1. /\ status' \in [Nodes -> {"ACTIVE", "DRAINING"}]
      /\ row' \in [Apps -> Documents]
      /\ open' \in [Apps -> Nat]
  BY DEF CoreInv, TypeOK
<1>2. \A a \in Apps : \A i \in Listed(row'[a].reps) : ctr'[i].st # "unused" /\ ctr'[i].app = a
  BY SameAges, StillUsed
<1>3. QED BY <1>1, <1>2, CoreFrom

\* Undoing the replicas of a deployment.
LEMMA CompensateStep ==
    ASSUME CoreInv, NEW c \in Clients, compensate(c)
    PROVE  Step(c)
<1> DEFINE r == req[c]  ids == Listed(r.made)
<1>1. /\ c \in Procs /\ r \in Requests /\ RequestOK(r) /\ hist \in Histories
      /\ ws \in {"ACTIVE", "REVOKED"} /\ power \in {"on", "off"}
      /\ spent \in [requests : Nat, mishaps : Nat]
  BY Names DEF CoreInv, TypeOK, ReqInv
<1>2. r.pc = "undo" /\ r.op \in {"deploy", "install"}
  BY <1>1 DEF compensate, RequestOK
<1>3. PICK bad \in SUBSET ids :
        /\ ctr' = Asked("delete", ids, bad, {})
        /\ hist' = [hist EXCEPT !.leaked = @ \cup bad]
        /\ spent' = IF bad = {} THEN spent ELSE Faulted
  BY DEF compensate
<1>4. ids \in SUBSET Ids /\ \A i \in ids : ctr[i].st # "unused"
  BY <1>1, ListsAreIds DEF CoreInv, UsedInv, UsedIn, Known
<1>5. ctr' \in [Ids -> Containers] /\ Ages
  <2> HIDE DEF ids
  <2>1. PICK hit : hit = {}
    OBVIOUS
  <2>2. ctr' = Asked("delete", ids, bad, hit) /\ hit \subseteq ids
    BY <1>3, <2>1
  <2>3. QED BY <1>4, <2>2, AskedAges
<1>6. /\ hist' \in Histories /\ hist'.held = hist.held
      /\ hist'.moved = hist.moved /\ hist'.torn = hist.torn
  BY <1>1, <1>3, <1>4 DEF Histories
<1>7. spent' \in [requests : Nat, mishaps : Nat]
  BY <1>1, <1>3, FaultedTyped DEF CoreInv
<1>8. End(c) /\ boot' = boot /\ row' = row /\ open' = open /\ ws' = ws /\ power' = power /\ status' = status
  BY DEF compensate
<1>9. Takes(c, Rest) /\ Frame(c) /\ Stays(c)
  <2>1. r.op # "none" /\ r.op # "unquarantine" /\ r.pc # "events"
    BY <1>2
  <2> HIDE DEF r, ids
  <2>2. QED BY <1>1, <1>6, <1>8, <2>1, EndWalk DEF r
<1> HIDE DEF r, ids
<1>10. CoreInv'
  BY <1>1, <1>5, <1>6, <1>7, <1>8, <1>9, RestUsed, QuietCore
<1>11. QED BY <1>9, <1>10 DEF Step

\* What a request is after it has only gone somewhere.
LEMMA Going ==
    ASSUME CoreInv, NEW c \in Procs, NEW p \in Pcs
    PROVE  LET s == [req[c] EXCEPT !.pc = p]
           IN  /\ s \in Requests /\ s.pc = p /\ s.op = req[c].op /\ s.app = req[c].app
               /\ s.todo = req[c].todo /\ s.snap = req[c].snap /\ s.plan = req[c].plan
               /\ s.made = req[c].made
<1>1. req[c] \in Requests
  BY DEF CoreInv, TypeOK
<1>2. QED BY <1>1 DEF Requests

\* A request that goes to a place before its events.
LEMMA GotoStep ==
    ASSUME CoreInv, NEW c \in Procs, NEW p \in Pcs, Goto(c, p), lock' = lock, boot' = boot,
           req[c].op # "none", RequestOK([req[c] EXCEPT !.pc = p]),
           row' = row, open' = open, status' = status, ws' = ws, power' = power,
           ctr' \in [Ids -> Containers], hist' \in Histories,
           spent' \in [requests : Nat, mishaps : Nat], Ages,
           hist'.held = hist.held, hist'.moved = hist.moved, hist.torn \subseteq hist'.torn,
           req[c].op # "unquarantine" => req[c].pc # "events" /\ p # "events",
           req[c].op \in {"remove", "reap"} => \/ req[c].pc = "agents" /\ p = "ingress"
                                               \/ req[c].pc = "ingress" /\ p = "row"
    PROVE  Step(c)
<1> DEFINE s == [req[c] EXCEPT !.pc = p]
<1>1. /\ s \in Requests /\ s.pc = p /\ s.op = req[c].op /\ s.app = req[c].app
      /\ s.todo = req[c].todo /\ s.snap = req[c].snap /\ s.made = req[c].made
  BY Going
<1>2. Takes(c, s)
  BY GotoTakes
<1>3. ws' \in {"ACTIVE", "REVOKED"} /\ power' \in {"on", "off"}
  BY DEF CoreInv, TypeOK
<1> HIDE DEF s
<1>4. UsedIn(s, ctr')
  BY <1>1, RequestUsed
<1>5. CoreInv'
  BY <1>2, <1>3, <1>4, QuietCore
<1>6. Frame(c) /\ Stays(c)
  BY <1>1, <1>2, GotoWalk
<1>7. QED BY <1>5, <1>6 DEF Step

\* A request given up before its events.
LEMMA EndStep ==
    ASSUME CoreInv, NEW c \in Procs, End(c), boot' = boot,
           row' = row, open' = open, status' = status,
           ws' \in {"ACTIVE", "REVOKED"}, power' \in {"on", "off"},
           ctr' \in [Ids -> Containers], hist' \in Histories,
           spent' \in [requests : Nat, mishaps : Nat], Ages,
           hist'.held = hist.held, hist'.moved = hist.moved, hist.torn \subseteq hist'.torn,
           req[c].op # "none", req[c].pc # "events",
           req[c].op = "unquarantine" => req[c].app \in hist'.torn /\ req[c].todo = {}
    PROVE  Step(c)
<1>1. Takes(c, Rest) /\ Frame(c) /\ Stays(c)
  BY EndWalk
<1>2. CoreInv'
  BY <1>1, RestUsed, QuietCore
<1>3. QED BY <1>1, <1>2 DEF Step

\* The tier change to single deletes all replicas but the first.
LEMMA ShrinkStep ==
    ASSUME CoreInv, NEW c \in Clients, shrink(c)
    PROVE  Step(c)
<1> DEFINE r == req[c]  ids == Listed(Tail(r.snap[r.app]))
<1>1. /\ c \in Procs /\ r \in Requests /\ RequestOK(r) /\ hist \in Histories
      /\ ws \in {"ACTIVE", "REVOKED"} /\ power \in {"on", "off"}
      /\ spent \in [requests : Nat, mishaps : Nat]
  BY Names DEF CoreInv, TypeOK, ReqInv
<1>2. r.pc = "shrink" /\ r.op = "tierDown"
  BY <1>1 DEF shrink, RequestOK
<1>3. PICK bad \in SUBSET ids, hit \in SUBSET ids :
        /\ ctr' = Asked("delete", ids, bad, hit)
        /\ spent' = IF bad = {} THEN spent ELSE Faulted
        /\ (Goto(c, "ingress") /\ lock' = lock) \/ End(c)
  BY Zenon DEF shrink
<1>4. ids \in SUBSET Ids /\ \A i \in ids : ctr[i].st # "unused"
  <2>1. r.app \in Apps /\ r.snap[r.app] # <<>> /\ r.snap[r.app] \in Seq(Ids)
    BY <1>1, <1>2 DEF RequestOK, Requests, Loops
  <2>2. ids \subseteq Listed(r.snap[r.app])
    BY <2>1, ListedHead
  <2>3. QED BY <1>1, <2>1, <2>2, ListsAreIds DEF CoreInv, UsedInv, UsedIn, Known
<1>5. ctr' \in [Ids -> Containers] /\ Ages
  BY <1>3, <1>4, AskedAges
<1>6. spent' \in [requests : Nat, mishaps : Nat]
  BY <1>1, <1>3, FaultedTyped DEF CoreInv
<1>7. /\ boot' = boot /\ row' = row /\ open' = open /\ ws' = ws /\ power' = power /\ status' = status
      /\ hist' = hist
  BY DEF shrink
<1>8. CASE Goto(c, "ingress") /\ lock' = lock
  <2>1. RequestOK([req[c] EXCEPT !.pc = "ingress"])
    BY <1>1, <1>2 DEF RequestOK, Requests, Placers, Loops
  <2>2. "ingress" \in Pcs
    BY DEF Pcs
  <2>3. r.op # "none" /\ r.op # "unquarantine" /\ r.pc # "events" /\ r.op \notin {"remove", "reap"}
    BY <1>2
  <2> HIDE DEF r, ids
  <2>4. QED BY <1>1, <1>5, <1>6, <1>7, <1>8, <2>1, <2>2, <2>3, GotoStep DEF r
<1>9. CASE End(c)
  <2>3. r.op # "none" /\ r.op # "unquarantine" /\ r.pc # "events"
    BY <1>2
  <2> HIDE DEF r, ids
  <2>4. QED BY <1>1, <1>5, <1>6, <1>7, <1>9, <2>3, EndStep DEF r
<1>10. QED BY <1>3, <1>8, <1>9

\* The route programmer answers or fails.
LEMMA ProgramRouteStep ==
    ASSUME CoreInv, NEW c \in Clients, programRoute(c)
    PROVE  Step(c)
<1> DEFINE r == req[c]
<1>1. /\ c \in Procs /\ r \in Requests /\ RequestOK(r) /\ hist \in Histories
      /\ ws \in {"ACTIVE", "REVOKED"} /\ power \in {"on", "off"}
      /\ spent \in [requests : Nat, mishaps : Nat]
      /\ Listed(r.made) \subseteq Ids /\ ctr \in [Ids -> Containers]
  BY Names, ListsAreIds DEF CoreInv, TypeOK, ReqInv
<1>2. /\ r.pc = "ingress" /\ r.op \in {"deploy", "tierUp", "tierDown", "activate"}
      /\ boot' = boot /\ row' = row /\ open' = open /\ ws' = ws /\ power' = power /\ status' = status
      /\ ctr' = ctr
  BY DEF programRoute
<1>3. Ages /\ ctr' \in [Ids -> Containers]
  BY <1>1, <1>2, SameAges
<1>4. r.op # "none" /\ r.op # "unquarantine" /\ r.pc # "events" /\ r.op \notin {"remove", "reap"}
  BY <1>2
<1>5. {"row", "undo"} \subseteq Pcs
  BY DEF Pcs
<1>6. RequestOK([req[c] EXCEPT !.pc = "row"])
  BY <1>1, <1>2 DEF RequestOK, Requests, Placers, Loops
<1>7. r.op = "deploy" => RequestOK([req[c] EXCEPT !.pc = "undo"])
  BY <1>1, <1>2 DEF RequestOK, Requests, Placers, Loops
<1>8. CASE Goto(c, "row") /\ lock' = lock /\ hist' = hist /\ spent' = spent
  <2> HIDE DEF r
  <2>1. QED BY <1>1, <1>2, <1>3, <1>4, <1>5, <1>6, <1>8, GotoStep DEF r
<1>9. CASE spent' = Faulted /\ r.op = "deploy" /\ Goto(c, "undo") /\ lock' = lock /\ hist' = hist
  <2>1. spent' \in [requests : Nat, mishaps : Nat]
    BY <1>9, FaultedTyped DEF CoreInv
  <2> HIDE DEF r
  <2>2. QED BY <1>1, <1>2, <1>3, <1>4, <1>5, <1>7, <1>9, <2>1, GotoStep DEF r
<1>10. CASE spent' = Faulted /\ End(c) /\ hist' = [hist EXCEPT !.leaked = @ \cup Listed(r.made)]
  <2>1. spent' \in [requests : Nat, mishaps : Nat]
    BY <1>10, FaultedTyped DEF CoreInv
  <2>2. /\ hist' \in Histories /\ hist'.held = hist.held
        /\ hist'.moved = hist.moved /\ hist'.torn = hist.torn
    BY <1>1, <1>10 DEF Histories
  <2> HIDE DEF r
  <2>3. QED BY <1>1, <1>2, <1>3, <1>4, <1>10, <2>1, <2>2, EndStep DEF r
<1>11. QED BY <1>8, <1>9, <1>10 DEF programRoute

\* A loop has done with one app before its events: the app settles, those still to
\* come are where they were.
LEMMA DoneStep ==
    ASSUME CoreInv, NEW c \in Procs, Done(c), boot' = boot,
           row' = row, open' = open, status' = status, ws' = ws, power' = power,
           ctr' \in [Ids -> Containers], hist' = hist,
           spent' \in [requests : Nat, mishaps : Nat], Ages,
           req[c].op \in Loops, req[c].pc \notin {"next", "events"}
    PROVE  Step(c)
<1> DEFINE r == req[c]  s == [r EXCEPT !.pc = "next", !.app = "none"]
<1>1. /\ r \in Requests /\ RequestOK(r) /\ hist \in Histories
      /\ row \in [Apps -> Documents] /\ open \in [Apps -> Nat]
      /\ ws \in {"ACTIVE", "REVOKED"} /\ power \in {"on", "off"}
      /\ lock \in Clients \cup {"free"}
  BY DEF CoreInv, TypeOK, ReqInv
<1>2. /\ r.app \in Apps /\ r.app \notin r.todo /\ r.made = <<>> /\ r.todo \subseteq Apps
  BY <1>1 DEF RequestOK, Placers, Loops, Requests
<1>3. /\ s \in Requests /\ s.op = r.op /\ s.pc = "next" /\ s.app = "none" /\ s.todo = r.todo
      /\ s.snap = r.snap /\ s.made = <<>>
  BY <1>1, <1>2 DEF Requests, Pcs
<1>4. RequestOK(s)
  BY <1>3 DEF RequestOK, Placers, Holders, Loops
<1>5. req' = [req EXCEPT ![c] = s] /\ lock' = lock
  BY DEF Done, Loops
<1>6. r.op \notin Holders /\ r.op # "none"
  BY DEF Holders, Placers, Loops
<1>7. lock # c
  BY <1>1, <1>6, Names DEF CoreInv, LockInv
<1>8. Takes(c, s)
  <2>1. (c \in Clients => s.op # "reap") /\ (c = "reaper" => s.op \in {"none", "reap"})
    BY <1>3 DEF CoreInv, LockInv
  <2>2. boot.up = "yes"
    BY <1>6, Busy
  <2> HIDE DEF s
  <2>3. QED BY <1>3, <1>4, <1>5, <1>6, <1>7, <2>1, <2>2 DEF Takes
<1>9. UsedIn(s, ctr')
  <2> HIDE DEF s
  <2>1. QED BY <1>2, <1>3, RequestUsed
<1>10. CoreInv'
  <2> HIDE DEF s, r
  <2>1. QED BY <1>1, <1>8, <1>9, QuietCore
<1>11. \A a \in Apps : a \in Touches(s) <=> a \in r.todo
  BY <1>3, <1>6, Names DEF Touches
<1>12. ASSUME NEW a \in Apps, a \in Touches(r), Phase(r, a, row[a], open[a], a \in hist.held)
       PROVE  Stands(s, a, row[a], open[a], a \in hist.held)
  <2>1. row[a] \in Documents /\ open[a] \in Nat /\ r.op \in Ops \ {"none", "unquarantine"}
    BY <1>1 DEF Requests, Loops
  <2>2. Settles(row[a], open[a], a \in hist.held)
    <3> HIDE DEF r
    <3>1. QED BY <1>12, <2>1, PhaseSettles DEF r
  <2>3. CASE a \notin r.todo
    BY <2>2, <2>3, <1>11 DEF Stands
  <2>4. CASE a \in r.todo
    <3> HIDE DEF s, r
    <3>1. CASE r.op \in {"suspend", "resume"}
      BY <3>1, <2>4, <1>3, <1>11, <1>12 DEF Stands, Phase, Verbs
    <3>2. CASE r.op = "revoke"
      <4>1. Revoking(r, a, row[a], open[a], a \in hist.held)
        BY <3>2, <1>12 DEF Phase
      <4>2. Revoking(s, a, row[a], open[a], a \in hist.held)
        BY <4>1, <1>2, <1>3, <2>4 DEF Revoking
      <4>3. QED BY <4>2, <3>2, <2>4, <1>3, <1>11 DEF Stands, Phase, Verbs
    <3>3. CASE r.op = "reap"
      <4>1. row[a].st = "QUARANTINED"
        BY <3>3, <1>12, <2>4 DEF Phase, Removing
      <4>2. Removing(s, a, row[a], open[a], a \in hist.held)
        BY <4>1, <2>2, <2>4, <1>3 DEF Removing
      <4>3. QED BY <4>2, <3>3, <2>4, <1>3, <1>11 DEF Stands, Phase, Verbs
    <3>4. QED BY <3>1, <3>2, <3>3 DEF Loops, r
  <2>5. QED BY <2>3, <2>4
<1>13. \A a \in Apps : a \in Touches(s) => a \in Touches(r)
  BY <1>6, <1>11 DEF Touches
<1>14. Frame(c) /\ Stays(c)
  <2> HIDE DEF s
  <2>1. hist.torn \subseteq hist'.torn /\ hist'.held = hist.held /\ hist'.moved = hist.moved
    OBVIOUS
  <2>2. QED BY <1>8, <1>12, <1>13, <2>1, WalkStep
<1>15. QED BY <1>10, <1>14 DEF Step

\* The route is given back, or the request fails.
LEMMA RemoveRouteStep ==
    ASSUME CoreInv, NEW c \in Procs, removeRoute(c)
    PROVE  Step(c)
<1> DEFINE r == req[c]
<1>1. /\ r \in Requests /\ RequestOK(r) /\ hist \in Histories
      /\ ws \in {"ACTIVE", "REVOKED"} /\ power \in {"on", "off"}
      /\ spent \in [requests : Nat, mishaps : Nat] /\ ctr \in [Ids -> Containers]
  BY DEF CoreInv, TypeOK, ReqInv
<1>2. /\ r.pc = "ingress" /\ r.op \in {"remove", "reap"}
      /\ boot' = boot /\ row' = row /\ open' = open /\ ws' = ws /\ power' = power /\ status' = status
      /\ ctr' = ctr /\ hist' = hist
  BY DEF removeRoute
<1>3. Ages /\ ctr' \in [Ids -> Containers] /\ hist' \in Histories
  BY <1>1, <1>2, SameAges
<1>4. CASE Goto(c, "row") /\ lock' = lock /\ spent' = spent
  <2>1. RequestOK([req[c] EXCEPT !.pc = "row"])
    BY <1>1, <1>2 DEF RequestOK, Requests, Placers, Loops
  <2>2. "row" \in Pcs
    BY DEF Pcs
  <2>3. r.op # "none" /\ r.op # "unquarantine" /\ r.pc # "events"
    BY <1>2
  <2> HIDE DEF r
  <2>4. QED BY <1>1, <1>2, <1>3, <1>4, <2>1, <2>2, <2>3, GotoStep DEF r
<1>5. CASE spent' = Faulted /\ Failed(c)
  <2>1. spent' \in [requests : Nat, mishaps : Nat]
    BY <1>5, FaultedTyped DEF CoreInv
  <2>2. CASE r.op = "reap"
    <3>1. Done(c) /\ r.op \in Loops /\ r.pc \notin {"next", "events"}
      BY <1>2, <1>5, <2>2 DEF Failed, Loops
    <3> HIDE DEF r
    <3>2. QED BY <1>2, <1>3, <2>1, <3>1, DoneStep DEF r
  <2>3. CASE r.op # "reap"
    <3>1. End(c) /\ r.op # "none" /\ r.op # "unquarantine" /\ r.pc # "events"
      BY <1>2, <1>5, <2>3 DEF Failed
    <3> HIDE DEF r
    <3>2. QED BY <1>1, <1>2, <1>3, <2>1, <3>1, EndStep DEF r
  <2>4. QED BY <2>2, <2>3
<1>6. QED BY <1>4, <1>5 DEF removeRoute

\* The agents of the replicas are asked.
LEMMA AskAgentsStep ==
    ASSUME CoreInv, NEW c \in Procs, askAgents(c)
    PROVE  Step(c)
<1> DEFINE r == req[c]  ids == Listed(r.snap[r.app])
<1>1. /\ r \in Requests /\ RequestOK(r) /\ hist \in Histories
      /\ ws \in {"ACTIVE", "REVOKED"} /\ power \in {"on", "off"}
      /\ spent \in [requests : Nat, mishaps : Nat]
  BY DEF CoreInv, TypeOK, ReqInv
<1>2. /\ r.pc = "agents"
      /\ boot' = boot /\ row' = row /\ open' = open /\ ws' = ws /\ power' = power /\ status' = status
  BY DEF askAgents
<1>3. /\ r.op \in Verbs \cup Loops \cup {"remove", "unquarantine"} /\ r.app \in Apps
      /\ r.op \notin Loops => r.todo = {}
  BY <1>1, <1>2 DEF RequestOK, Requests, Ops, Holders, Placers, Verbs, Loops, Rest
<1>4. PICK bad \in SUBSET ids, hit \in SUBSET ids :
        /\ ctr' = Asked(Verb(r.op), ids, bad, hit)
        /\ spent' = IF bad = {} THEN spent ELSE Faulted
        /\ \/ Goto(c, AfterAgents(r.op)) /\ lock' = lock /\ hist' = hist
           \/ /\ Failed(c)
              /\ hist' = IF r.op = "unquarantine"
                         THEN [hist EXCEPT !.torn = @ \cup {r.app}] ELSE hist
  BY Zenon DEF askAgents
<1>5. ids \in SUBSET Ids /\ \A i \in ids : ctr[i].st # "unused"
  BY <1>1, <1>3, ListsAreIds DEF CoreInv, UsedInv, UsedIn, Known
<1>6. Verb(r.op) \in {"start", "stop", "redeploy", "delete"}
  BY <1>3 DEF Verb, Verbs, Loops
<1>7. ctr' \in [Ids -> Containers] /\ Ages
  <2> HIDE DEF ids, r
  <2>1. QED BY <1>4, <1>5, <1>6, AskedAges
<1>8. spent' \in [requests : Nat, mishaps : Nat]
  BY <1>1, <1>4, FaultedTyped DEF CoreInv
<1>9. r.op # "none" /\ r.pc # "events" /\ r.pc # "next"
  BY <1>2, <1>3 DEF Verbs, Loops
<1>10. CASE Goto(c, AfterAgents(r.op)) /\ lock' = lock /\ hist' = hist
  <2> DEFINE p == AfterAgents(r.op)
  <2>1. /\ p \in {"ingress", "events", "row"}
        /\ p = "events" <=> r.op = "unquarantine"
        /\ r.op \in {"remove", "reap"} => p = "ingress"
    BY DEF AfterAgents
  <2>2. p \in Pcs
    BY <2>1 DEF Pcs
  <2> HIDE DEF p
  <2>3. RequestOK([req[c] EXCEPT !.pc = p])
    BY <1>1, <1>3, <1>9, <2>1 DEF RequestOK, Requests, Placers, Holders, Verbs, Loops
  <2>4. Goto(c, p)
    BY <1>10 DEF p
  <2> HIDE DEF r, ids
  <2>5. QED BY <1>1, <1>2, <1>7, <1>8, <1>9, <1>10, <2>1, <2>2, <2>3, <2>4, GotoStep DEF r
<1>11. CASE Failed(c) /\ hist' = IF r.op = "unquarantine"
                         THEN [hist EXCEPT !.torn = @ \cup {r.app}] ELSE hist
  <2>1. CASE r.op = "reap"
    <3>1. Done(c) /\ r.op \in Loops /\ r.pc \notin {"next", "events"} /\ hist' = hist
      BY <1>9, <1>11, <2>1 DEF Failed, Loops
    <3> HIDE DEF r, ids
    <3>2. QED BY <1>2, <1>7, <1>8, <3>1, DoneStep DEF r
  <2>2. CASE r.op # "reap"
    <3>1. End(c)
      BY <1>11, <2>2 DEF Failed
    <3>2. /\ hist' \in Histories /\ hist'.held = hist.held
          /\ hist'.moved = hist.moved /\ hist.torn \subseteq hist'.torn
          /\ r.op = "unquarantine" => r.app \in hist'.torn
      BY <1>1, <1>3, <1>11 DEF Histories
    <3>3. r.op = "unquarantine" => r.todo = {}
      BY <1>3 DEF Loops
    <3> HIDE DEF r, ids
    <3>4. QED BY <1>1, <1>2, <1>7, <1>8, <1>9, <3>1, <3>2, <3>3, EndStep DEF r
  <2>3. QED BY <2>1, <2>2
<1>12. QED BY <1>4, <1>10, <1>11

\* A snapshot of the documents lists what they list.
LEMMA SnapUsed ==
    ASSUME CoreInv, ctr' = ctr, NEW as
    PROVE  /\ Snap(as) \in [Apps -> Seq(Ids)]
           /\ Known(Snap(as), ctr')
           /\ \A a \in as \cap Apps : Snap(as)[a] = row[a].reps
<1>1. \A a \in Apps : row[a].reps \in Seq(Ids)
  BY DEF CoreInv, TypeOK, Documents
<1>2. <<>> \in Seq(Ids)
  OBVIOUS
<1>3. \A a \in Apps : Snap(as)[a] = IF a \in as THEN row[a].reps ELSE <<>>
  BY DEF Snap
<1>4. Snap(as) \in [Apps -> Seq(Ids)]
  BY <1>1, <1>2 DEF Snap
<1>5. Known(Snap(as), ctr')
  BY <1>3, ListedNone DEF CoreInv, UsedInv, Known
<1>6. QED BY <1>3, <1>4, <1>5

\* A loop turns to one of the apps it still has to do.
TurnsTo(c, s, a) ==
    /\ a \in req[c].todo
    /\ s.op = req[c].op /\ s.todo = req[c].todo \ {a} /\ s.made = req[c].made
    /\ s.pc = "agents" /\ s.app = a

\* A loop that turns to its next app keeps to the apps it set out for.
LEMMA TurnTakes ==
    ASSUME CoreInv, NEW c \in Procs, NEW s \in Requests, NEW a, TurnsTo(c, s, a),
           req[c].op \in Loops, req' = [req EXCEPT ![c] = s], lock' = lock, boot' = boot
    PROVE  /\ Takes(c, s)
           /\ \A b \in Apps : b \in Touches(s) => b \in Touches(req[c])
<1>1. req[c] \in Requests /\ RequestOK(req[c]) /\ lock \in Clients \cup {"free"}
  BY DEF CoreInv, TypeOK, ReqInv
<1>2. req[c].op \notin Holders /\ req[c].op # "none" /\ a \in Apps /\ req[c].made = <<>>
  BY <1>1 DEF Holders, Placers, Loops, TurnsTo, Requests, RequestOK
<1>3. RequestOK(s)
  BY <1>2 DEF RequestOK, TurnsTo, Placers, Holders, Loops
<1>4. lock # c
  BY <1>1, <1>2, Names DEF CoreInv, LockInv
<1>5. (c \in Clients => s.op # "reap") /\ (c = "reaper" => s.op \in {"none", "reap"})
  BY DEF CoreInv, LockInv, TurnsTo
<1>6. boot.up = "yes"
  BY <1>2, Busy
<1>7. Takes(c, s)
  BY <1>2, <1>3, <1>4, <1>5, <1>6 DEF Takes, TurnsTo
<1>8. \A b \in Apps : b \in Touches(s) => b \in Touches(req[c])
  BY <1>2 DEF Touches, TurnsTo
<1>9. QED BY <1>7, <1>8

\* suspend and resume turn to their next app, or are over.
LEMMA NextPoweredStep ==
    ASSUME CoreInv, NEW c \in Clients, nextPowered(c)
    PROVE  Step(c)
<1> DEFINE r == req[c]
<1>1. /\ c \in Procs /\ r \in Requests /\ RequestOK(r) /\ hist \in Histories
      /\ ws \in {"ACTIVE", "REVOKED"} /\ power \in {"on", "off"}
      /\ spent \in [requests : Nat, mishaps : Nat] /\ ctr \in [Ids -> Containers]
  BY Names DEF CoreInv, TypeOK, ReqInv
<1>2. /\ r.pc = "next" /\ r.op \in {"suspend", "resume"}
      /\ boot' = boot /\ row' = row /\ open' = open /\ ws' = ws /\ status' = status
      /\ ctr' = ctr /\ hist' = hist /\ spent' = spent
  BY DEF nextPowered
<1>3. Ages
  BY <1>2, SameAges
<1>4. CASE r.todo = {} /\ End(c) /\ power' \in {"on", "off"}
  <2>1. r.op # "none" /\ r.op # "unquarantine" /\ r.pc # "events"
    BY <1>2
  <2> HIDE DEF r
  <2>2. QED BY <1>1, <1>2, <1>3, <1>4, <2>1, EndStep DEF r
<1>5. ASSUME NEW a \in r.todo, Turn(c, a, "agents"), power' = power, lock' = lock
      PROVE  Step(c)
  <2> DEFINE s == [r EXCEPT !.app = a, !.todo = @ \ {a}, !.pc = "agents"]
  <2>1. s \in Requests /\ TurnsTo(c, s, a) /\ s.snap = r.snap
    BY <1>1 DEF Requests, Pcs, TurnsTo
  <2>2. req' = [req EXCEPT ![c] = s]
    BY <1>5, Zenon DEF Turn
  <2> r.op \in Loops
    BY <1>2 DEF Loops
  <2> HIDE DEF s
  <2>3. /\ Takes(c, s)
        /\ \A b \in Apps : b \in Touches(s) => b \in Touches(r)
    BY <1>1, <1>2, <1>5, <2>1, <2>2, TurnTakes
  <2>4. UsedIn(s, ctr')
    <3>1. s.made = r.made /\ r.made = <<>>
      BY <1>1, <1>2, <2>1 DEF RequestOK, Placers, TurnsTo
    <3>2. QED BY <1>1, <1>3, <2>1, <3>1, RequestUsed
  <2>5. CoreInv'
    <3> HIDE DEF r
    <3>1. QED BY <1>1, <1>2, <1>3, <1>5, <2>3, <2>4, QuietCore
  <2>6. ASSUME NEW b \in Apps, b \in Touches(r), Phase(r, b, row[b], open[b], b \in hist.held)
        PROVE  Stands(s, b, row[b], open[b], b \in hist.held)
    <3>1. Phase(s, b, row[b], open[b], b \in hist.held)
      BY <1>2, <2>1, <2>6 DEF Phase, Verbs, TurnsTo
    <3>2. b \in Touches(s)
      <4>1. r.app = "none" /\ b # "none"
        BY <1>1, <1>2, Names DEF RequestOK, Loops
      <4>2. b \in r.todo
        BY <2>6, <4>1 DEF Touches
      <4>3. QED BY <1>2, <2>1, <4>2 DEF Touches, TurnsTo
    <3>3. QED BY <2>6, <3>1, <3>2 DEF Stands
  <2>7. Frame(c) /\ Stays(c)
    <3>1. hist.torn \subseteq hist'.torn /\ hist'.held = hist.held /\ hist'.moved = hist.moved
      BY <1>2
    <3>2. QED BY <1>1, <1>2, <2>3, <2>6, <3>1, WalkStep
  <2>8. QED BY <2>5, <2>7 DEF Step
<1>6. QED
  <2>1. (IF r.op = "resume" THEN "on" ELSE "off") \in {"on", "off"}
    OBVIOUS
  <2>2. QED BY <1>4, <1>5, <2>1 DEF nextPowered

\* A loop leaves out one of the apps it still had to do.
LEMMA SkipStep ==
    ASSUME CoreInv, NEW c \in Procs, NEW a \in req[c].todo, Skip(c, a), lock' = lock, boot' = boot,
           row' = row, open' = open, status' = status, ws' = ws, power' = power, ctr' = ctr,
           hist' = hist, spent' = spent, req[c].op \in Loops, req[c].pc = "next"
    PROVE  Step(c)
<1> DEFINE r == req[c]  s == [r EXCEPT !.todo = r.todo \ {a}]
<1>1. /\ r \in Requests /\ RequestOK(r) /\ hist \in Histories
      /\ row \in [Apps -> Documents] /\ open \in [Apps -> Nat] /\ ctr \in [Ids -> Containers]
      /\ ws \in {"ACTIVE", "REVOKED"} /\ power \in {"on", "off"}
      /\ lock \in Clients \cup {"free"} /\ spent \in [requests : Nat, mishaps : Nat]
  BY DEF CoreInv, TypeOK, ReqInv
<1>2. /\ r.app = "none" /\ r.made = <<>> /\ r.todo \subseteq Apps /\ r.pc = "next"
  BY <1>1 DEF RequestOK, Placers, Loops, Requests
<1>3. /\ s \in Requests /\ s.op = r.op /\ s.pc = "next" /\ s.app = "none" /\ s.todo = r.todo \ {a}
      /\ s.snap = r.snap /\ s.made = r.made
  BY <1>1, <1>2 DEF Requests, Pcs
<1>4. RequestOK(s)
  BY <1>2, <1>3 DEF RequestOK, Placers, Holders, Loops
<1>5. req' = [req EXCEPT ![c] = s]
  BY DEF Skip
<1>6. r.op \notin Holders /\ r.op # "none"
  BY DEF Holders, Placers, Loops
<1>7. lock # c
  BY <1>1, <1>6, Names DEF CoreInv, LockInv
<1>8. Takes(c, s)
  <2>1. (c \in Clients => s.op # "reap") /\ (c = "reaper" => s.op \in {"none", "reap"})
    BY <1>3 DEF CoreInv, LockInv
  <2>2. boot.up = "yes"
    BY <1>6, Busy
  <2> HIDE DEF s
  <2>3. QED BY <1>3, <1>4, <1>5, <1>6, <1>7, <2>1, <2>2 DEF Takes
<1>9. CoreInv'
  <2> HIDE DEF s
  <2>1. Ages
    BY SameAges
  <2>2. UsedIn(s, ctr')
    BY <1>2, <1>3, <2>1, RequestUsed
  <2> HIDE DEF r
  <2>3. QED BY <1>1, <1>8, <2>1, <2>2, QuietCore
<1>10. ASSUME NEW b \in Apps, b \in Touches(r), Phase(r, b, row[b], open[b], b \in hist.held)
       PROVE  Stands(s, b, row[b], open[b], b \in hist.held)
  <2>1. b \in r.todo /\ b # "none"
    BY <1>2, <1>10, Names DEF Touches
  <2>2. row[b] \in Documents /\ open[b] \in Nat /\ r.op \in Ops \ {"none", "unquarantine"}
    BY <1>1 DEF Requests, Loops
  <2>3. Settles(row[b], open[b], b \in hist.held)
    <3> HIDE DEF r
    <3>1. QED BY <1>10, <2>2, PhaseSettles DEF r
  <2> HIDE DEF s, r
  <2>4. CASE b = a
    <3>1. b \notin Touches(s)
      BY <2>1, <2>4, <1>3 DEF Touches
    <3>2. QED BY <3>1, <2>3 DEF Stands
  <2>5. CASE b # a
    <3>1. b \in Touches(s) /\ b \in s.todo
      BY <2>1, <2>5, <1>3, <1>6 DEF Touches
    <3>2. CASE r.op \in {"suspend", "resume"}
      BY <3>1, <3>2, <1>3, <1>10 DEF Stands, Phase, Verbs
    <3>3. CASE r.op = "revoke"
      BY <3>1, <3>3, <1>2, <1>3, <1>10 DEF Stands, Phase, Verbs, Revoking
    <3>4. CASE r.op = "reap"
      <4>1. Removing(s, b, row[b], open[b], b \in hist.held)
        BY <1>3, <1>10, <2>1, <2>3, <3>1, <3>4 DEF Phase, Removing
      <4>2. QED BY <4>1, <3>1, <3>4, <1>3 DEF Stands, Phase, Verbs
    <3>5. QED BY <3>2, <3>3, <3>4 DEF Loops, r
  <2>6. QED BY <2>4, <2>5
<1>11. \A b \in Apps : b \in Touches(s) => b \in Touches(r)
  BY <1>3, <1>6 DEF Touches
<1>12. Frame(c) /\ Stays(c)
  <2> HIDE DEF s
  <2>1. hist.torn \subseteq hist'.torn /\ hist'.held = hist.held /\ hist'.moved = hist.moved
    OBVIOUS
  <2>2. QED BY <1>8, <1>10, <1>11, <2>1, WalkStep
<1>13. QED BY <1>9, <1>12 DEF Step

\* A revocation turns to its next app, skips it, or is over.
LEMMA NextRevokedStep ==
    ASSUME CoreInv, NEW c \in Clients, nextRevoked(c)
    PROVE  Step(c)
<1> DEFINE r == req[c]
<1>1. /\ c \in Procs /\ r \in Requests /\ RequestOK(r) /\ hist \in Histories
      /\ ws \in {"ACTIVE", "REVOKED"} /\ power \in {"on", "off"}
      /\ row \in [Apps -> Documents] /\ open \in [Apps -> Nat]
      /\ spent \in [requests : Nat, mishaps : Nat] /\ ctr \in [Ids -> Containers]
  BY Names DEF CoreInv, TypeOK, ReqInv
<1>2. /\ r.pc = "next" /\ r.op = "revoke"
      /\ boot' = boot /\ row' = row /\ open' = open /\ power' = power /\ status' = status
      /\ ctr' = ctr /\ hist' = hist /\ spent' = spent
  BY DEF nextRevoked
<1>3. Ages /\ r.op \in Loops
  BY <1>2, SameAges DEF Loops
<1>4. CASE End(c) /\ ws' \in {"ACTIVE", "REVOKED"}
  <2>1. r.op # "none" /\ r.op # "unquarantine" /\ r.pc # "events"
    BY <1>2
  <2> HIDE DEF r
  <2>2. QED BY <1>1, <1>2, <1>3, <1>4, <2>1, EndStep DEF r
<1>5. ASSUME NEW a \in r.todo, Skip(c, a), ws' = ws, lock' = lock
      PROVE  Step(c)
  BY <1>1, <1>2, <1>3, <1>5, SkipStep
<1>6. ASSUME NEW a \in r.todo, ws' = ws, lock' = lock,
             req' = [req EXCEPT ![c] = [req[c] EXCEPT !.app = a, !.todo = @ \ {a},
                                                      !.pc = "agents", !.snap = Snap({a})]]
      PROVE  Step(c)
  <2> DEFINE s == [req[c] EXCEPT !.app = a, !.todo = @ \ {a}, !.pc = "agents", !.snap = Snap({a})]
  <2>1. /\ Snap({a}) \in [Apps -> Seq(Ids)]
        /\ Known(Snap({a}), ctr')
    BY <1>2, SnapUsed
  <2>2. s \in Requests /\ TurnsTo(c, s, a) /\ s.snap = Snap({a})
    BY <1>1, <2>1 DEF Requests, Pcs, TurnsTo
  <2>3. req' = [req EXCEPT ![c] = s]
    BY <1>6
  <2> HIDE DEF s
  <2>4. /\ Takes(c, s)
        /\ \A b \in Apps : b \in Touches(s) => b \in Touches(r)
    BY <1>1, <1>2, <1>3, <1>6, <2>2, <2>3, TurnTakes
  <2>5. UsedIn(s, ctr')
    <3>1. s.made = <<>>
      BY <1>1, <1>2, <2>2 DEF RequestOK, Placers, TurnsTo
    <3>2. QED BY <2>1, <2>2, <3>1, ListedNone DEF UsedIn
  <2>6. CoreInv'
    <3> HIDE DEF r
    <3>1. QED BY <1>1, <1>2, <1>3, <1>6, <2>4, <2>5, QuietCore
  <2>7. ASSUME NEW b \in Apps, b \in Touches(r), Phase(r, b, row[b], open[b], b \in hist.held)
        PROVE  Stands(s, b, row[b], open[b], b \in hist.held)
    <3>1. Phase(s, b, row[b], open[b], b \in hist.held)
      BY <1>2, <2>2, <2>7 DEF Phase, Verbs, TurnsTo, Revoking
    <3>2. b \in Touches(s)
      <4>1. r.app = "none" /\ b # "none"
        BY <1>1, <1>2, Names DEF RequestOK, Loops
      <4>2. b \in r.todo
        BY <2>7, <4>1 DEF Touches
      <4>3. QED BY <1>2, <2>2, <4>2 DEF Touches, TurnsTo
    <3>3. QED BY <2>7, <3>1, <3>2 DEF Stands
  <2>8. Frame(c) /\ Stays(c)
    <3>1. hist.torn \subseteq hist'.torn /\ hist'.held = hist.held /\ hist'.moved = hist.moved
      BY <1>2
    <3>2. QED BY <1>1, <1>2, <2>4, <2>7, <3>1, WalkStep
  <2>9. QED BY <2>6, <2>8 DEF Step
<1>7. QED
  <2>1. CASE r.todo = {} /\ ws' = "REVOKED" /\ End(c)
    BY <2>1, <1>4
  <2>2. CASE \E a \in r.todo :
             \/ End(c) /\ ws' = ws
             \/ Skip(c, a) /\ ws' = ws /\ lock' = lock
             \/ /\ req' = [req EXCEPT ![c] = [req[c] EXCEPT !.app = a, !.todo = @ \ {a},
                                                       !.pc = "agents", !.snap = Snap({a})]]
                /\ ws' = ws /\ lock' = lock
    BY <2>2, <1>1, <1>4, <1>5, <1>6
  <2>3. QED BY <2>1, <2>2 DEF nextRevoked

\* One replica is placed.
LEMMA PlacedStep ==
    ASSUME CoreInv, NEW c \in Clients, NEW p \in {"ingress", "row"}, Placed(c, p),
           req[c].op \in Placers, req[c].pc = "place", \E i \in Ids : ctr[i].st = "unused",
           boot' = boot, row' = row, open' = open, status' = status, ws' = ws, power' = power
    PROVE  Step(c)
<1> DEFINE r == req[c]
           s == [r EXCEPT !.made = Append(r.made, Fresh), !.plan = Tail(r.plan),
                          !.pc = IF Len(r.plan) > 1 THEN "place" ELSE p]
<1>1. /\ c \in Procs /\ r \in Requests /\ RequestOK(r) /\ hist \in Histories
      /\ ws \in {"ACTIVE", "REVOKED"} /\ power \in {"on", "off"}
      /\ spent \in [requests : Nat, mishaps : Nat] /\ ctr \in [Ids -> Containers]
  BY Names DEF CoreInv, TypeOK, ReqInv
<1>2. /\ Fresh \in Ids /\ ctr[Fresh].st = "unused"
  BY FreshIsUnused DEF CoreInv
<1>3. /\ r.made \in Seq(Ids) /\ r.plan \in Seq(Nodes) /\ r.plan # <<>> /\ r.app \in Apps
      /\ r.todo = {} /\ r.op \in Placers
  BY <1>1 DEF Requests, RequestOK, Placers, Loops
<1>4. /\ Append(r.made, Fresh) \in Seq(Ids) /\ Append(r.made, Fresh) # <<>>
      /\ Len(r.made) \in Nat /\ Len(Append(r.made, Fresh)) = Len(r.made) + 1
      /\ Listed(Append(r.made, Fresh)) = Listed(r.made) \cup {Fresh}
  BY <1>2, <1>3, Extended
<1>5. /\ Head(r.plan) \in Nodes /\ Tail(r.plan) \in Seq(Nodes)
      /\ Len(r.plan) \in Nat /\ Len(r.plan) > 0 /\ Len(Tail(r.plan)) = Len(r.plan) - 1
      /\ Len(r.plan) > 1 => Tail(r.plan) # <<>>
  BY <1>3, Pieces
<1>6. /\ s \in Requests /\ s.op = r.op /\ s.app = r.app /\ s.todo = r.todo /\ s.snap = r.snap
      /\ s.made = Append(r.made, Fresh) /\ s.plan = Tail(r.plan)
      /\ s.pc = IF Len(r.plan) > 1 THEN "place" ELSE p
  BY <1>1, <1>4, <1>5 DEF Requests, Pcs
<1>7. req' = [req EXCEPT ![c] = s] /\ lock' = lock /\ hist' = hist /\ spent' = spent
  BY DEF Placed
<1>8. ctr' = [ctr EXCEPT ![Fresh] = [app |-> r.app, node |-> Head(r.plan), st |-> "running"]]
  BY DEF Placed
<1> HIDE DEF s
<1>9. RequestOK(s)
  <2>1. s.op = "tierUp" => Len(s.made) + Len(s.plan) = 1
    <3>1. s.op = "tierUp" => Len(r.made) + Len(r.plan) = 1
      BY <1>1, <1>6 DEF RequestOK
    <3>2. Len(s.made) + Len(s.plan) = Len(r.made) + Len(r.plan)
      <4>1. Len(s.made) = Len(r.made) + 1 /\ Len(s.plan) = Len(r.plan) - 1
        BY <1>4, <1>5, <1>6, Zenon
      <4>2. \A m, n \in Nat : (m + 1) + (n - 1) = m + n
        OBVIOUS
      <4>3. QED BY <1>4, <1>5, <4>1, <4>2, Zenon
    <3>3. QED BY <3>1, <3>2
  <2>2. s.pc = "place" => s.plan # <<>>
    BY <1>5, <1>6
  <2>3. s.pc \in {"place", "ingress", "row"} /\ s.made # <<>> /\ s.op \in Placers
    BY <1>3, <1>4, <1>6
  <2>4. s.op \notin Loops /\ s.op # "none" /\ s.app \in Apps /\ s.todo = {} /\ s.op # "tierDown"
    BY <1>3, <1>6 DEF Loops, Placers
  <2>5. QED BY <2>1, <2>2, <2>3, <2>4 DEF RequestOK
<1>10. Takes(c, s)
  <2>1. s.op \in Holders /\ r.op \in Holders /\ s.op # "reap" /\ c # "reaper"
    BY <1>3, <1>6, Names DEF Holders, Placers
  <2>2. boot.up = "yes"
    BY <1>1, <1>3, Busy DEF Placers
  <2>3. QED BY <1>6, <1>7, <1>9, <2>1, <2>2 DEF Takes
<1>11. /\ ctr' \in [Ids -> Containers] /\ ctr'[Fresh].st = "running" /\ ctr'[Fresh].app = r.app
       /\ \A i \in Ids \ {Fresh} : ctr'[i] = ctr[i]
  BY <1>1, <1>2, <1>3, <1>5, <1>8 DEF Containers
<1>12. Ages
  BY <1>2, <1>11 DEF Ages, Exists
<1>13. UsedIn(s, ctr')
  <2>1. UsedIn(r, ctr) /\ Listed(r.made) \subseteq Ids
        /\ \A a \in Apps : Listed(r.snap[a]) \subseteq Ids
    BY <1>1, ListsAreIds DEF CoreInv, UsedInv
  <2>2. \A i \in Listed(s.made) : ctr'[i].st # "unused" /\ ctr'[i].app = s.app
    BY <2>1, <1>4, <1>6, <1>11, <1>12 DEF UsedIn, Ages
  <2>3. Known(s.snap, ctr')
    BY <2>1, <1>6, <1>12 DEF UsedIn, Known, Ages
  <2>4. QED BY <2>2, <2>3 DEF UsedIn
<1>14. CoreInv'
  BY <1>1, <1>7, <1>10, <1>11, <1>12, <1>13, QuietCore
<1>15. Frame(c) /\ Stays(c)
  <2>1. /\ r.op # "none" /\ r.pc # "events" /\ s.pc # "events"
        /\ r.op \notin {"remove", "reap"}
    BY <1>3, <1>6 DEF Placers
  <2>2. hist'.held = hist.held /\ hist'.moved = hist.moved /\ hist.torn \subseteq hist'.torn
    BY <1>7
  <2> HIDE DEF r
  <2>3. QED BY <1>1, <1>6, <1>10, <2>1, <2>2, GotoWalk DEF r
<1>16. QED BY <1>14, <1>15 DEF Step

\* A placement that fails, or whose answer is lost.
LEMMA NotPlacedEffect ==
    ASSUME CoreInv, NEW c \in Clients, NotPlaced(c),
           req[c].op \in Placers, req[c].pc = "place", \E i \in Ids : ctr[i].st = "unused"
    PROVE  /\ ctr' \in [Ids -> Containers] /\ Ages
           /\ hist' \in Histories /\ hist'.held = hist.held /\ hist'.moved = hist.moved
           /\ hist'.torn = hist.torn
           /\ spent' \in [requests : Nat, mishaps : Nat]
<1> DEFINE r == req[c]
<1>1. /\ c \in Procs /\ r \in Requests /\ RequestOK(r) /\ hist \in Histories
      /\ ctr \in [Ids -> Containers]
  BY Names DEF CoreInv, TypeOK, ReqInv
<1>2. /\ Fresh \in Ids /\ ctr[Fresh].st = "unused"
  BY FreshIsUnused DEF CoreInv
<1>3. /\ r.plan \in Seq(Nodes) /\ r.plan # <<>> /\ r.app \in Apps
  BY <1>1 DEF Requests, RequestOK, Placers, Loops
<1>4. Head(r.plan) \in Nodes
  BY <1>3, Pieces
<1>5. spent' \in [requests : Nat, mishaps : Nat]
  BY FaultedTyped DEF NotPlaced, CoreInv
<1>6. CASE ctr' = ctr /\ hist' = hist
  BY <1>1, <1>5, <1>6, SameAges
<1>7. CASE /\ ctr' = [ctr EXCEPT ![Fresh] = [app |-> r.app, node |-> Head(r.plan), st |-> "running"]]
           /\ hist' = [hist EXCEPT !.leaked = @ \cup {Fresh}]
  <2>1. /\ ctr' \in [Ids -> Containers] /\ ctr'[Fresh].st = "running"
        /\ \A i \in Ids \ {Fresh} : ctr'[i] = ctr[i]
    BY <1>1, <1>2, <1>3, <1>4, <1>7 DEF Containers
  <2>2. Ages
    BY <1>2, <2>1 DEF Ages, Exists
  <2>3. /\ hist' \in Histories /\ hist'.held = hist.held /\ hist'.moved = hist.moved
        /\ hist'.torn = hist.torn
    BY <1>1, <1>2, <1>7 DEF Histories
  <2>4. QED BY <1>5, <2>1, <2>2, <2>3
<1>8. QED BY <1>6, <1>7 DEF NotPlaced

\* A replica of a deployment or an installation is placed.
LEMMA DeployToNodesStep ==
    ASSUME CoreInv, NEW c \in Clients, deployToNodes(c) \/ deployMcpToNodes(c)
    PROVE  Step(c)
<1>1. /\ req[c].op \in {"deploy", "install"} /\ req[c].pc = "place"
      /\ \E i \in Ids : ctr[i].st = "unused"
      /\ boot' = boot /\ row' = row /\ open' = open /\ status' = status /\ ws' = ws /\ power' = power
  BY DEF deployToNodes, deployMcpToNodes, Placing
<1>2. c \in Procs /\ RequestOK(req[c]) /\ req[c].op \in Placers /\ req[c] \in Requests
  BY <1>1, Names DEF CoreInv, ReqInv, Placers, TypeOK
<1>3. CASE Placed(c, "ingress") \/ Placed(c, "row")
  BY <1>1, <1>2, <1>3, PlacedStep
<1>4. CASE NotPlaced(c) /\ Goto(c, "undo") /\ lock' = lock
  <2>1. /\ ctr' \in [Ids -> Containers] /\ Ages
        /\ hist' \in Histories /\ hist'.held = hist.held /\ hist'.moved = hist.moved
        /\ hist'.torn = hist.torn
        /\ spent' \in [requests : Nat, mishaps : Nat]
    BY <1>1, <1>2, <1>4, NotPlacedEffect
  <2>2. RequestOK([req[c] EXCEPT !.pc = "undo"])
    BY <1>1, <1>2 DEF RequestOK, Requests, Placers, Loops
  <2>3. "undo" \in Pcs
    BY DEF Pcs
  <2>4. /\ req[c].op # "none" /\ req[c].op # "unquarantine" /\ req[c].pc # "events"
        /\ req[c].op \notin {"remove", "reap"} /\ "undo" # "events"
    BY <1>1
  <2>5. QED BY <1>1, <1>2, <1>4, <2>1, <2>2, <2>3, <2>4, GotoStep
<1>5. QED BY <1>3, <1>4 DEF deployToNodes, deployMcpToNodes

\* The second replica of a tier change is placed.
LEMMA DeploySecondStep ==
    ASSUME CoreInv, NEW c \in Clients, deploySecond(c)
    PROVE  Step(c)
<1>1. /\ req[c].op = "tierUp" /\ req[c].pc = "place"
      /\ \E i \in Ids : ctr[i].st = "unused"
      /\ boot' = boot /\ row' = row /\ open' = open /\ status' = status /\ ws' = ws /\ power' = power
  BY DEF deploySecond, Placing
<1>2. /\ c \in Procs /\ req[c].op \in Placers /\ ws \in {"ACTIVE", "REVOKED"} /\ power \in {"on", "off"}
  BY <1>1, Names DEF CoreInv, Placers, TypeOK
<1>3. CASE Placed(c, "ingress")
  BY <1>1, <1>2, <1>3, PlacedStep
<1>4. CASE NotPlaced(c) /\ End(c)
  <2>1. /\ ctr' \in [Ids -> Containers] /\ Ages
        /\ hist' \in Histories /\ hist'.held = hist.held /\ hist'.moved = hist.moved
        /\ hist'.torn = hist.torn
        /\ spent' \in [requests : Nat, mishaps : Nat]
    BY <1>1, <1>2, <1>4, NotPlacedEffect
  <2>2. req[c].op # "none" /\ req[c].op # "unquarantine" /\ req[c].pc # "events"
    BY <1>1
  <2>3. QED BY <1>1, <1>2, <1>4, <2>1, <2>2, EndStep
<1>5. QED BY <1>3, <1>4 DEF deploySecond

-----------------------------------------------------------------------------
(* Requests begin                                                          *)

\* A new request, with the apps it will be at remembered where another one is.
LEMMA OpenStep ==
    ASSUME CoreInv, NEW c \in Procs, NEW s \in Requests, NEW as \in SUBSET Apps,
           req[c] = Rest, req' = [req EXCEPT ![c] = s], RequestOK(s), s.made = <<>>, s.op # "none",
           Known(s.snap, ctr'),
           \/ s.op \in Holders /\ lock = "free" /\ lock' = c
           \/ s.op \notin Holders /\ lock' = lock,
           c \in Clients => s.op # "reap", c = "reaper" => s.op = "reap",
           boot.up = "yes", boot' = boot, row' = row, ctr' = ctr, open' = open, status' = status,
           ws' = ws, power' \in {"on", "off"}, spent' \in [requests : Nat, mishaps : Nat],
           hist' = Torn(as), \A a \in Apps : a \in Touches(s) <=> a \in as,
           \A a \in as : Settles(row[a], open[a], a \in hist.held) =>
                            Phase(s, a, row[a], open[a], a \in hist.held)
    PROVE  Step(c)
<1>1. /\ hist \in Histories /\ ws \in {"ACTIVE", "REVOKED"} /\ ctr \in [Ids -> Containers]
      /\ req \in [Procs -> Requests]
  BY DEF CoreInv, TypeOK
<1>2. Touches(req[c]) = {} /\ req[c].op = "none" /\ req[c].op \notin Holders
  BY RestFine DEF Holders, Placers
<1>3. Takes(c, s)
  <2>1. lock # c
    BY <1>2, Names DEF CoreInv, LockInv, TypeOK
  <2>2. QED BY <2>1 DEF Takes
<1>4. /\ hist' \in Histories /\ hist'.torn = hist.torn \cup (as \cap InFlight)
      /\ hist'.held = hist.held /\ hist'.moved = hist.moved
  BY <1>1 DEF Torn, Histories
<1>5. CoreInv'
  <2>1. Ages
    BY SameAges
  <2>2. UsedIn(s, ctr')
    BY ListedNone DEF UsedIn
  <2>3. QED BY <1>1, <1>3, <1>4, <2>1, <2>2, QuietCore
<1>6. req'[c] = s /\ \A d \in Procs \ {c} : req'[d] = req[d]
  BY <1>3, TakesCore
<1>7. Touches(req[c])' = Touches(s)
  BY <1>6 DEF Touches
<1>8. Frame(c)
  <2>1. \A a \in Apps : a \in Touches(req[c])' => a \notin InFlight \/ a \in hist'.torn
    BY <1>4, <1>7
  <2>2. QED BY <1>4, <1>6, <2>1 DEF Frame
<1>9. ASSUME NEW a \in Apps, a \notin Excused', a \in Touches(req[c]) \/ a \in Touches(req[c])',
             Stands(req[c], a, row[a], open[a], a \in hist.held)
      PROVE  Stands(req'[c], a, row'[a], open'[a], a \in hist'.held)
  <2>1. a \in Touches(s) /\ a \in as
    BY <1>2, <1>7, <1>9
  <2>2. Settles(row[a], open[a], a \in hist.held)
    BY <1>2, <1>9 DEF Stands
  <2>3. Phase(s, a, row[a], open[a], a \in hist.held)
    BY <2>1, <2>2
  <2>4. QED BY <1>4, <1>6, <2>1, <2>3 DEF Stands
<1>10. QED BY <1>5, <1>8, <1>9 DEF Step, Stays

\* The selections of the scheduler are nodes, one or two.
LEMMA Selected ==
    ASSUME NEW C \in SUBSET Nodes, NEW k, NEW sel \in selectNodes(C, k)
    PROVE  sel \in Seq(Nodes) /\ sel # <<>> /\ Len(sel) = IF k = 1 THEN 1 ELSE 2
<1>1. \A D : Roomiest(D) \subseteq D
  BY DEF Roomiest
<1>2. CASE k = 1
  <2>1. PICK n \in Nodes : sel = <<n>>
    BY <1>1, <1>2 DEF selectNodes
  <2>2. QED BY <2>1, <1>2
<1>3. CASE k # 1
  <2>1. \E n \in Nodes, m \in Nodes : sel = <<n, m>>
    BY <1>1, <1>3 DEF selectNodes
  <2>2. PICK n \in Nodes, m \in Nodes : sel = <<n, m>>
    BY <2>1
  <2>3. QED BY <2>2, <1>3
<1>4. QED BY <1>2, <1>3

\* The new request of a process that rests, and what it counts.
LEMMA Freed ==
    ASSUME CoreInv, NEW c \in Clients, Free(c)
    PROVE  /\ c \in Procs /\ c # "reaper" /\ req[c] = Rest /\ boot.up = "yes"
           /\ spent' \in [requests : Nat, mishaps : Nat]
BY Names DEF Free, CoreInv, TypeOK

\* A deployment or an installation begins.
LEMMA BeginStep ==
    ASSUME CoreInv, NEW c \in Clients, NEW a \in Apps, NEW k, NEW op \in {"deploy", "install"},
           Begin(c, a, k, op)
    PROVE  Step(c)
<1>1. /\ Free(c) /\ Acquire(c) /\ ~Loaded(a) /\ hist' = Torn({a})
      /\ boot' = boot /\ row' = row /\ open' = open /\ status' = status /\ ws' = ws /\ power' = power
      /\ ctr' = ctr
  BY DEF Begin, Hub
<1>2. PICK sel \in selectNodes(Nodes, k) :
        req' = [req EXCEPT ![c] = [Rest EXCEPT !.op = op, !.app = a, !.pc = "place", !.plan = sel]]
  BY DEF Begin
<1>3. sel \in Seq(Nodes) /\ sel # <<>>
  BY Selected
<1> DEFINE s == [Rest EXCEPT !.op = op, !.app = a, !.pc = "place", !.plan = sel]
<1>4. /\ s.op = op /\ s.app = a /\ s.pc = "place" /\ s.plan = sel /\ s.made = <<>> /\ s.todo = {}
      /\ s.snap = [b \in Apps |-> <<>>]
  BY DEF Rest
<1>5. s \in Requests
  BY <1>3, RestFine DEF Requests, Ops, Pcs
<1> HIDE DEF s
<1>6. RequestOK(s) /\ s.op \in Holders
  BY <1>3, <1>4 DEF RequestOK, Placers, Holders, Loops
<1>7. \A b \in Apps : b \in Touches(s) <=> b \in {a}
  BY <1>4 DEF Touches
<1>8. Settles(row[a], open[a], a \in hist.held) => Phase(s, a, row[a], open[a], a \in hist.held)
  BY <1>1, <1>4 DEF Phase, Verbs, Installing, Loaded
<1>9. Known(s.snap, ctr')
  BY <1>4, ListedNone DEF Known
<1>10. req' = [req EXCEPT ![c] = s]
  BY <1>2 DEF s
<1>11. /\ c \in Procs /\ c # "reaper" /\ req[c] = Rest /\ boot.up = "yes"
       /\ spent' \in [requests : Nat, mishaps : Nat]
  BY <1>1, Freed
<1>12. lock = "free" /\ lock' = c /\ power' \in {"on", "off"}
  BY <1>1 DEF Acquire, CoreInv, TypeOK
<1>13. {a} \in SUBSET Apps /\ s.op # "none" /\ s.op # "reap"
  BY <1>4
<1>14. QED BY <1>1, <1>4, <1>5, <1>6, <1>7, <1>8, <1>9, <1>10, <1>11, <1>12, <1>13, OpenStep

\* A request at one app, with a snapshot of its document.
SnapsAt(s, a) ==
    /\ s \in Requests /\ s.app = a /\ s.todo = {} /\ s.made = <<>> /\ s.snap = Snap({a})

\* A request begins at one app, with the list it read.
LEMMA SnapStep ==
    ASSUME CoreInv, NEW c \in Clients, NEW a \in Apps, NEW s, SnapsAt(s, a), Free(c),
           req' = [req EXCEPT ![c] = s],
           s.op \notin Loops \cup {"none", "unquarantine", "deploy", "install"},
           \/ s.op \in Holders /\ lock = "free" /\ lock' = c
           \/ s.op \notin Holders /\ lock' = lock,
           s.pc = "place" => s.op = "tierUp", s.op = "tierUp" => s.pc = "place" /\ Len(s.plan) = 1,
           s.pc = "shrink" => s.op = "tierDown", s.op = "tierDown" => row[a].reps # <<>>,
           s.pc # "undo", s.pc # "events", s.pc = "agents" => s.op \notin Holders,
           s.pc = "mark" => s.op = "remove",
           hist' = Torn({a}),
           boot' = boot, row' = row, ctr' = ctr, open' = open, status' = status, ws' = ws, power' = power,
           s.snap[a] = row[a].reps /\ Settles(row[a], open[a], a \in hist.held) =>
                            Phase(s, a, row[a], open[a], a \in hist.held)
    PROVE  Step(c)
<1>1. /\ Snap({a}) \in [Apps -> Seq(Ids)]
      /\ Known(Snap({a}), ctr')
      /\ Snap({a})[a] = row[a].reps
  <2>1. PICK as : as = {a}
    OBVIOUS
  <2>2. /\ Snap(as) \in [Apps -> Seq(Ids)]
        /\ Known(Snap(as), ctr')
        /\ \A b \in as \cap Apps : Snap(as)[b] = row[b].reps
    BY SnapUsed
  <2>3. QED BY <2>1, <2>2
<1>2. /\ s \in Requests /\ s.app = a /\ s.todo = {} /\ s.made = <<>> /\ s.snap = Snap({a})
  BY DEF SnapsAt
<1>3. RequestOK(s)
  <2>1. s.op = "tierUp" => Len(s.made) + Len(s.plan) = 1
    <3>1. Len(<<>>) = 0
      OBVIOUS
    <3>2. QED BY <3>1, <1>2
  <2>2. s.pc = "place" => s.plan # <<>>
    <3>1. Len(<<>>) # 1
      OBVIOUS
    <3>2. QED BY <3>1, <1>2
  <2>3. s.op \in Placers => s.pc = "place"
    BY DEF Placers
  <2>4. s.op = "tierDown" => s.snap[s.app] # <<>>
    BY <1>1, <1>2
  <2>5. QED BY <1>2, <2>1, <2>2, <2>3, <2>4 DEF RequestOK
<1>4. \A b \in Apps : b \in Touches(s) <=> b \in {a}
  BY <1>2 DEF Touches
<1>5. \A b \in {a} : Settles(row[b], open[b], b \in hist.held) =>
                        Phase(s, b, row[b], open[b], b \in hist.held)
  BY <1>1, <1>2
<1>6. /\ c \in Procs /\ c # "reaper" /\ req[c] = Rest /\ boot.up = "yes"
      /\ spent' \in [requests : Nat, mishaps : Nat]
  BY Freed
<1>7. power' \in {"on", "off"}
  BY DEF CoreInv, TypeOK
<1>8. {a} \in SUBSET Apps /\ s.op # "none" /\ s.op # "reap"
  BY DEF Loops
<1>9. Known(s.snap, ctr')
  BY <1>1, <1>2, Zenon
<1>10. QED BY <1>2, <1>3, <1>4, <1>5, <1>6, <1>7, <1>8, <1>9, OpenStep

\* Starting, stopping, redeploying and removing begin.
LEMMA InvokeStep ==
    ASSUME CoreInv, NEW c \in Clients, NEW a \in Apps, NEW verb \in Verbs, invoke(c, a, verb)
    PROVE  Step(c)
<1>1. /\ Free(c) /\ Loaded(a) /\ hist' = Torn({a}) /\ lock' = lock
      /\ boot' = boot /\ row' = row /\ open' = open /\ status' = status /\ ws' = ws /\ power' = power
      /\ ctr' = ctr
      /\ req' = [req EXCEPT ![c] = [Rest EXCEPT !.op = verb, !.app = a, !.pc = "agents",
                                              !.snap = Snap({a})]]
  BY DEF invoke, Hub
<1>0. PICK s : s = [Rest EXCEPT !.op = verb, !.app = a, !.pc = "agents", !.snap = Snap({a})]
  OBVIOUS
<1>2. /\ verb \in Ops /\ "agents" \in Pcs
      /\ verb \notin Loops \cup {"none", "unquarantine", "deploy", "install", "tierUp", "tierDown"}
      /\ verb \notin Holders
  BY DEF Verbs, Ops, Pcs, Loops, Holders, Placers
<1>3. SnapsAt(s, a) /\ s.op = verb /\ s.pc = "agents"
  <2>1. Snap({a}) \in [Apps -> Seq(Ids)]
    BY <1>1, SnapUsed
  <2>2. s \in Requests
    BY <1>0, <1>2, <2>1, RestFine DEF Requests
  <2>3. QED BY <1>0, <2>2 DEF SnapsAt, Rest
<1>4. req' = [req EXCEPT ![c] = s]
  BY <1>0, <1>1
<1>5. s.snap[a] = row[a].reps /\ Settles(row[a], open[a], a \in hist.held) =>
                       Phase(s, a, row[a], open[a], a \in hist.held)
  BY <1>1, <1>3 DEF Phase, SnapsAt, Verbs, Loaded
<1>6. QED BY <1>1, <1>2, <1>3, <1>4, <1>5, SnapStep

\* A removal begins.
LEMMA RemoveStep ==
    ASSUME CoreInv, NEW c \in Clients, NEW a \in Apps, remove(c, a)
    PROVE  Step(c)
<1>1. /\ Free(c) /\ Loaded(a) /\ hist' = Torn({a}) /\ lock' = lock
      /\ boot' = boot /\ row' = row /\ open' = open /\ status' = status /\ ws' = ws /\ power' = power
      /\ ctr' = ctr
      /\ req' = [req EXCEPT ![c] = [Rest EXCEPT !.op = "remove", !.app = a, !.pc = "mark",
                                              !.snap = Snap({a})]]
  BY DEF remove, Hub
<1>0. PICK s : s = [Rest EXCEPT !.op = "remove", !.app = a, !.pc = "mark", !.snap = Snap({a})]
  OBVIOUS
<1>2. /\ "remove" \in Ops /\ "mark" \in Pcs
      /\ "remove" \notin Loops \cup {"none", "unquarantine", "deploy", "install", "tierUp", "tierDown"}
      /\ "remove" \notin Holders
  BY DEF Verbs, Ops, Pcs, Loops, Holders, Placers
<1>3. SnapsAt(s, a) /\ s.op = "remove" /\ s.pc = "mark"
  <2>1. Snap({a}) \in [Apps -> Seq(Ids)]
    BY <1>1, SnapUsed
  <2>2. s \in Requests
    BY <1>0, <1>2, <2>1, RestFine DEF Requests
  <2>3. QED BY <1>0, <2>2 DEF SnapsAt, Rest
<1>4. req' = [req EXCEPT ![c] = s]
  BY <1>0, <1>1
<1>5. s.snap[a] = row[a].reps /\ Settles(row[a], open[a], a \in hist.held) =>
                       Phase(s, a, row[a], open[a], a \in hist.held)
  BY <1>1, <1>3 DEF Phase, SnapsAt, Verbs, Removing, Loaded
<1>6. QED BY <1>1, <1>2, <1>3, <1>4, <1>5, SnapStep

\* Activating an MCP v2 app begins.
LEMMA ActivateStep ==
    ASSUME CoreInv, NEW c \in Clients, NEW a \in Apps, activateMcp(c, a)
    PROVE  Step(c)
<1>1. /\ Free(c) /\ row[a].st = "QUARANTINED" /\ hist' = Torn({a}) /\ lock = "free" /\ lock' = c
      /\ boot' = boot /\ row' = row /\ open' = open /\ status' = status /\ ws' = ws /\ power' = power
      /\ ctr' = ctr
      /\ req' = [req EXCEPT ![c] = [Rest EXCEPT !.op = "activate", !.app = a, !.pc = "ingress",
                                              !.snap = Snap({a})]]
  BY DEF activateMcp, Hub, Acquire
<1>0. PICK s : s = [Rest EXCEPT !.op = "activate", !.app = a, !.pc = "ingress", !.snap = Snap({a})]
  OBVIOUS
<1>2. /\ "activate" \in Ops /\ "ingress" \in Pcs
      /\ "activate" \notin Loops \cup {"none", "unquarantine", "deploy", "install", "tierUp", "tierDown"}
      /\ "activate" \in Holders
  BY DEF Verbs, Ops, Pcs, Loops, Holders, Placers
<1>3. SnapsAt(s, a) /\ s.op = "activate" /\ s.pc = "ingress"
  <2>1. Snap({a}) \in [Apps -> Seq(Ids)]
    BY <1>1, SnapUsed
  <2>2. s \in Requests
    BY <1>0, <1>2, <2>1, RestFine DEF Requests
  <2>3. QED BY <1>0, <2>2 DEF SnapsAt, Rest
<1>4. req' = [req EXCEPT ![c] = s]
  BY <1>0, <1>1
<1>5. s.snap[a] = row[a].reps /\ Settles(row[a], open[a], a \in hist.held) =>
                       Phase(s, a, row[a], open[a], a \in hist.held)
  BY <1>1, <1>3 DEF Phase, SnapsAt, Verbs, Activating
<1>6. QED BY <1>1, <1>2, <1>3, <1>4, <1>5, SnapStep

\* A change of tier begins, up or down.
LEMMA ChangeTierStep ==
    ASSUME CoreInv, NEW c \in Clients, NEW a \in Apps, NEW tier, changeAvailabilityTier(c, a, tier)
    PROVE  Step(c)
<1>1. /\ Free(c) /\ row[a].st = "RUNNING" /\ hist' = Torn({a}) /\ lock = "free" /\ lock' = c
      /\ boot' = boot /\ row' = row /\ open' = open /\ status' = status /\ ws' = ws /\ power' = power
      /\ ctr' = ctr
  BY DEF changeAvailabilityTier, Hub, Acquire
<1>2. row[a].reps \in Seq(Ids) /\ open[a] \in Nat
  BY DEF CoreInv, TypeOK, Documents
<1>3. Settles(row[a], open[a], a \in hist.held) =>
          open[a] = Len(row[a].reps) /\ open[a] # 0 /\ a \notin hist.held
  BY <1>1, <1>2 DEF Settles
<1>4. /\ {"tierUp", "tierDown"} \subseteq Ops /\ {"place", "shrink"} \subseteq Pcs
      /\ \A op \in {"tierUp", "tierDown"} :
           op \notin Loops \cup {"none", "unquarantine", "deploy", "install"} /\ op \in Holders
  BY DEF Ops, Pcs, Loops, Holders, Placers
<1>5. CASE /\ row[a].reps # <<>>
           /\ req' = [req EXCEPT ![c] = [Rest EXCEPT
                             !.op = "tierDown", !.app = a, !.pc = "shrink", !.snap = Snap({a})]]
  <2>0. PICK s : s = [Rest EXCEPT !.op = "tierDown", !.app = a, !.pc = "shrink", !.snap = Snap({a})]
    OBVIOUS
  <2>1. SnapsAt(s, a) /\ s.op = "tierDown" /\ s.pc = "shrink"
    <3>1. Snap({a}) \in [Apps -> Seq(Ids)]
      BY <1>1, SnapUsed
    <3>2. s \in Requests
      BY <2>0, <1>4, <3>1, RestFine DEF Requests
    <3>3. QED BY <2>0, <3>2 DEF SnapsAt, Rest
  <2>2. req' = [req EXCEPT ![c] = s]
    BY <2>0, <1>5
  <2>3. s.snap[a] = row[a].reps /\ Settles(row[a], open[a], a \in hist.held) =>
                         Phase(s, a, row[a], open[a], a \in hist.held)
    BY <1>1, <1>3, <2>1 DEF Phase, SnapsAt, Verbs, Resizing
  <2>4. QED BY <1>1, <1>4, <1>5, <2>1, <2>2, <2>3, SnapStep
<1>6. ASSUME NEW C \in SUBSET Nodes, NEW sel \in selectNodes(C, 1),
             req' = [req EXCEPT ![c] = [Rest EXCEPT
                               !.op = "tierUp", !.app = a, !.pc = "place", !.plan = sel,
                               !.snap = Snap({a})]]
      PROVE  Step(c)
  <2>0. PICK s : s = [Rest EXCEPT !.op = "tierUp", !.app = a, !.pc = "place", !.plan = sel, !.snap = Snap({a})]
    OBVIOUS
  <2>1. sel \in Seq(Nodes) /\ Len(sel) = 1
    BY Selected
  <2>2. SnapsAt(s, a) /\ s.op = "tierUp" /\ s.pc = "place" /\ s.plan = sel
    <3>1. Snap({a}) \in [Apps -> Seq(Ids)]
      BY <1>1, SnapUsed
    <3>2. s \in Requests
      BY <2>0, <1>4, <2>1, <3>1, RestFine DEF Requests
    <3>3. QED BY <2>0, <3>2 DEF SnapsAt, Rest
  <2>3. req' = [req EXCEPT ![c] = s]
    BY <2>0, <1>6
  <2>4. s.snap[a] = row[a].reps /\ Settles(row[a], open[a], a \in hist.held) =>
                         Phase(s, a, row[a], open[a], a \in hist.held)
    BY <1>1, <1>3, <2>2 DEF Phase, SnapsAt, Verbs, Resizing
  <2>5. QED BY <1>1, <1>4, <2>1, <2>2, <2>3, <2>4, SnapStep
<1>7. QED
  <2> DEFINE used    == {ctr[i].node : i \in Listed(row[a].reps)}
             domains == {Domain[n] : n \in {m \in used : status[m] = "ACTIVE"}}
             cands   == {n \in Nodes \ used : Domain[n] \notin domains}
  <2>1. cands \in SUBSET Nodes
    OBVIOUS
  <2>2. \/ \E sel \in selectNodes(cands, 1) :
              req' = [req EXCEPT ![c] = [Rest EXCEPT
                               !.op = "tierUp", !.app = a, !.pc = "place", !.plan = sel,
                               !.snap = Snap({a})]]
        \/ /\ row[a].reps # <<>>
           /\ req' = [req EXCEPT ![c] = [Rest EXCEPT
                             !.op = "tierDown", !.app = a, !.pc = "shrink", !.snap = Snap({a})]]
    BY DEF changeAvailabilityTier
  <2> HIDE DEF cands
  <2>3. QED BY <1>5, <1>6, <2>1, <2>2

\* A loop over apps begins.
LEMMA LoopStep ==
    ASSUME CoreInv, NEW c \in Procs, NEW s \in Requests, NEW as \in SUBSET Apps,
           req[c] = Rest, req' = [req EXCEPT ![c] = s],
           s.op \in Loops, s.pc = "next", s.app = "none", s.todo = as, s.made = <<>>,
           Known(s.snap, ctr'),
           lock' = lock, c \in Clients => s.op # "reap", c = "reaper" => s.op = "reap",
           boot.up = "yes", boot' = boot, row' = row, ctr' = ctr, open' = open, status' = status,
           ws' = ws, power' \in {"on", "off"}, spent' \in [requests : Nat, mishaps : Nat],
           hist' = Torn(as),
           \A a \in as : Settles(row[a], open[a], a \in hist.held) =>
                            Phase(s, a, row[a], open[a], a \in hist.held)
    PROVE  Step(c)
<1>1. RequestOK(s) /\ s.op \notin Holders /\ s.op # "none"
  BY DEF RequestOK, Placers, Holders, Loops
<1>2. \A a \in Apps : a \in Touches(s) <=> a \in as
  <2>1. Touches(s) = {"none"} \cup as
    BY <1>1 DEF Touches
  <2>2. QED BY <2>1, Names
<1>3. QED BY <1>1, <1>2, OpenStep

\* Suspending and resuming the workspace begin.
LEMMA SetPowerStep ==
    ASSUME CoreInv, NEW c \in Clients, NEW action \in {"suspend", "resume"}, setWorkspacePower(c, action)
    PROVE  Step(c)
<1> DEFINE as == powerTargets(action)
<1>0. PICK s : s = [Rest EXCEPT !.op = action, !.pc = "next", !.todo = as, !.snap = Snap(as)]
  OBVIOUS
<1>1. /\ Free(c) /\ power' = "off" /\ hist' = Torn(as)
      /\ boot' = boot /\ row' = row /\ open' = open /\ status' = status /\ ws' = ws
      /\ ctr' = ctr /\ lock' = lock
      /\ req' = [req EXCEPT ![c] = s]
  BY <1>0 DEF setWorkspacePower
<1>2. as \in SUBSET Apps
  BY DEF powerTargets
<1>3. action = "suspend" => \A a \in as : row[a].st = "RUNNING"
  BY DEF powerTargets
<1>4. action = "resume" => \A a \in as : row[a].st \notin {"NONE", "REMOVED"} /\ row[a].susp = "yes"
  BY DEF powerTargets, Loaded
<1> HIDE DEF as
<1>5. /\ Snap(as) \in [Apps -> Seq(Ids)]
      /\ Known(Snap(as), ctr')
  BY <1>1, SnapUsed
<1>6. /\ s.op = action /\ s.pc = "next" /\ s.app = "none" /\ s.todo = as /\ s.made = <<>>
      /\ s.snap = Snap(as)
  BY <1>0 DEF Rest
<1>7. s \in Requests
  BY <1>0, <1>2, <1>5, RestFine DEF Requests, Ops, Pcs
<1>8. \A a \in as : Settles(row[a], open[a], a \in hist.held) =>
                            Phase(s, a, row[a], open[a], a \in hist.held)
  BY <1>3, <1>4, <1>6 DEF Phase, Verbs
<1>9. /\ c \in Procs /\ c # "reaper" /\ req[c] = Rest /\ boot.up = "yes"
      /\ spent' \in [requests : Nat, mishaps : Nat]
  BY <1>1, Freed
<1>10. s.op \in Loops /\ s.op # "reap"
  BY <1>6 DEF Loops
<1>11. Known(s.snap, ctr')
  BY <1>5, <1>6
<1>12. power' \in {"on", "off"}
  BY <1>1
<1>13. QED BY <1>1, <1>2, <1>6, <1>7, <1>8, <1>9, <1>10, <1>11, <1>12, LoopStep

\* The revocation of the workspace begins.
LEMMA RevokeStep ==
    ASSUME CoreInv, NEW c \in Clients, revokeWorkspace(c)
    PROVE  Step(c)
<1> DEFINE as == {a \in Apps : Loaded(a)}
<1>0. PICK s : s = [Rest EXCEPT !.op = "revoke", !.pc = "next", !.todo = as]
  OBVIOUS
<1>1. /\ Free(c) /\ power' = power /\ hist' = Torn(as)
      /\ boot' = boot /\ row' = row /\ open' = open /\ status' = status /\ ws' = ws
      /\ ctr' = ctr /\ lock' = lock
      /\ req' = [req EXCEPT ![c] = s]
  BY <1>0 DEF revokeWorkspace
<1>2. as \in SUBSET Apps /\ \A a \in as : row[a].st \notin {"NONE", "REMOVED"}
  BY DEF Loaded
<1> HIDE DEF as
<1>3. /\ s.op = "revoke" /\ s.pc = "next" /\ s.app = "none" /\ s.todo = as /\ s.made = <<>>
      /\ s.snap = [b \in Apps |-> <<>>]
  BY <1>0 DEF Rest
<1>4. s \in Requests
  BY <1>0, <1>2, RestFine DEF Requests, Ops, Pcs
<1>5. \A a \in as : Settles(row[a], open[a], a \in hist.held) =>
                            Phase(s, a, row[a], open[a], a \in hist.held)
  BY <1>2, <1>3 DEF Phase, Verbs, Revoking
<1>6. /\ c \in Procs /\ c # "reaper" /\ req[c] = Rest /\ boot.up = "yes"
      /\ spent' \in [requests : Nat, mishaps : Nat]
  BY <1>1, Freed
<1>7. s.op \in Loops /\ s.op # "reap"
  BY <1>3 DEF Loops
<1>8. Known(s.snap, ctr')
  BY <1>3, ListedNone DEF Known
<1>9. power' \in {"on", "off"}
  BY <1>1 DEF CoreInv, TypeOK
<1>10. QED BY <1>1, <1>2, <1>3, <1>4, <1>5, <1>6, <1>7, <1>8, <1>9, LoopStep

\* A tick of the reaper begins.
LEMMA ReaperTickStep ==
    ASSUME CoreInv, reaperTick
    PROVE  Step("reaper")
<1> DEFINE as == {a \in Apps : row[a].st = "QUARANTINED" /\ row[a].stamp = "old"}
<1>0. PICK s : s = [Rest EXCEPT !.op = "reap", !.pc = "next", !.todo = as]
  OBVIOUS
<1>1. /\ power' = power /\ hist' = Torn(as) /\ boot.up = "yes" /\ req["reaper"] = Rest
      /\ boot' = boot /\ row' = row /\ open' = open /\ status' = status /\ ws' = ws
      /\ ctr' = ctr /\ lock' = lock /\ spent' = spent
      /\ req' = [req EXCEPT !["reaper"] = s]
  BY <1>0 DEF reaperTick
<1>2. as \in SUBSET Apps /\ \A a \in as : row[a].st = "QUARANTINED"
  OBVIOUS
<1> HIDE DEF as
<1>3. /\ s.op = "reap" /\ s.pc = "next" /\ s.app = "none" /\ s.todo = as /\ s.made = <<>>
      /\ s.snap = [b \in Apps |-> <<>>]
  BY <1>0 DEF Rest
<1>4. s \in Requests
  BY <1>0, <1>2, RestFine DEF Requests, Ops, Pcs
<1>5. \A a \in as : Settles(row[a], open[a], a \in hist.held) =>
                            Phase(s, a, row[a], open[a], a \in hist.held)
  BY <1>2, <1>3 DEF Phase, Verbs, Removing
<1>6. "reaper" \in Procs /\ "reaper" \notin Clients
  BY Names
<1>7. s.op \in Loops
  BY <1>3 DEF Loops
<1>8. Known(s.snap, ctr')
  BY <1>3, ListedNone DEF Known
<1>9. power' \in {"on", "off"} /\ spent' \in [requests : Nat, mishaps : Nat]
  BY <1>1 DEF CoreInv, TypeOK
<1>10. QED BY <1>1, <1>2, <1>3, <1>4, <1>5, <1>6, <1>7, <1>8, <1>9, LoopStep


-----------------------------------------------------------------------------
(* Steps that write a document or a bill                                   *)

\* A step of c that changes the document, the bill or the operator's stop of no app
\* but a.
OnlyAt(c, a) ==
    /\ hist.torn \subseteq hist'.torn
    /\ hist.moved \subseteq hist'.moved
    /\ \A b \in Apps \ {a} :
          row'[b] = row[b] /\ open'[b] = open[b] /\ (b \in hist'.held <=> b \in hist.held)

\* What the process does with a, and with the apps its loop has still to do.
LEMMA WriteWalk ==
    ASSUME CoreInv, NEW c \in Procs, NEW s, Takes(c, s), NEW a \in Apps, OnlyAt(c, a),
           a \in Touches(req[c]),
           \A b \in Apps : b \in Touches(s) => b \in Touches(req[c]),
           \A b \in Apps \ {a} : /\ b \in Touches(req[c])
                                 /\ Phase(req[c], b, row[b], open[b], b \in hist.held)
                                 => Stands(s, b, row[b], open[b], b \in hist.held),
           /\ a \notin hist'.moved
           /\ Phase(req[c], a, row[a], open[a], a \in hist.held)
           => Stands(s, a, row'[a], open'[a], a \in hist'.held)
    PROVE  Frame(c) /\ Stays(c)
<1>1. req'[c] = s /\ \A d \in Procs \ {c} : req'[d] = req[d]
  BY TakesCore
<1>2. Touches(req[c])' = Touches(s)
  BY <1>1 DEF Touches
<1>3. Frame(c)
  BY <1>1, <1>2 DEF Frame, OnlyAt
<1>4. ASSUME NEW b \in Apps, b \notin Excused', b \in Touches(req[c]) \/ b \in Touches(req[c])',
             Stands(req[c], b, row[b], open[b], b \in hist.held)
      PROVE  Stands(req'[c], b, row'[b], open'[b], b \in hist'.held)
  <2>1. b \in Touches(req[c]) /\ b \notin hist'.moved
    BY <1>2, <1>4 DEF Excused
  <2>2. Phase(req[c], b, row[b], open[b], b \in hist.held)
    BY <1>4, <2>1 DEF Stands
  <2>3. CASE b = a
    BY <1>1, <2>1, <2>2, <2>3
  <2>4. CASE b # a
    <3>1. Stands(s, b, row[b], open[b], b \in hist.held)
      BY <2>1, <2>2, <2>4
    <3>2. row'[b] = row[b] /\ open'[b] = open[b] /\ (b \in hist'.held) = (b \in hist.held)
      BY <2>4 DEF OnlyAt
    <3>3. QED BY <1>1, <3>1, <3>2
  <2>5. QED BY <2>3, <2>4
<1>5. QED BY <1>3, <1>4 DEF Stays

\* An app a loop has still to do does not see what becomes of the one it is at.
LEMMA Waits ==
    ASSUME NEW r, NEW s, NEW b, NEW d, NEW n, NEW h, r.op \in Loops, s.op = r.op,
           s.todo = r.todo, b \in r.todo, b # r.app, b # s.app, Phase(r, b, d, n, h)
    PROVE  Phase(s, b, d, n, h)
<1>1. CASE r.op \in {"suspend", "resume"}
  BY <1>1 DEF Phase, Verbs
<1>2. CASE r.op = "revoke"
  BY <1>2 DEF Phase, Verbs, Revoking
<1>3. CASE r.op = "reap"
  BY <1>3 DEF Phase, Verbs, Removing
<1>4. QED BY <1>1, <1>2, <1>3 DEF Loops

\* A write at the app of the request, of a document that lists containers of that
\* app.
Writes(c) ==
    /\ row' \in [Apps -> Documents] /\ open' \in [Apps -> Nat] /\ hist' \in Histories
    /\ ctr' = ctr /\ status' = status /\ ws' = ws /\ power' = power /\ spent' = spent
    /\ boot' = boot
    /\ OnlyAt(c, req[c].app)
    /\ \A i \in Listed(row'[req[c].app].reps) : ctr[i].st # "unused" /\ ctr[i].app = req[c].app

\* A document is written, with a list of containers that were created.
LEMMA WriteCore ==
    ASSUME CoreInv, NEW c \in Procs, NEW s, Takes(c, s), Writes(c), req[c].app \in Apps,
           UsedIn(s, ctr')
    PROVE  CoreInv'
<1>1. /\ ws' \in {"ACTIVE", "REVOKED"} /\ power' \in {"on", "off"}
      /\ status' \in [Nodes -> {"ACTIVE", "DRAINING"}] /\ ctr' \in [Ids -> Containers]
      /\ spent' \in [requests : Nat, mishaps : Nat]
      /\ row' \in [Apps -> Documents] /\ open' \in [Apps -> Nat] /\ hist' \in Histories
      /\ ctr' = ctr
  BY DEF CoreInv, TypeOK, Writes
<1>2. Ages
  BY <1>1, SameAges
<1>3. ASSUME NEW b \in Apps, NEW i \in Listed(row'[b].reps)
      PROVE  ctr'[i].st # "unused" /\ ctr'[i].app = b
  <2>1. CASE b = req[c].app
    BY <2>1, <1>1, <1>3 DEF Writes
  <2>2. CASE b # req[c].app
    <3>1. row'[b] = row[b]
      BY <2>2 DEF Writes, OnlyAt
    <3>2. QED BY <3>1, <1>1, <1>3 DEF CoreInv, UsedInv
  <2>3. QED BY <2>1, <2>2
<1>4. QED BY <1>1, <1>2, <1>3, CoreFrom

\* A request at an app moves on to another place.
LEMMA GotoWrite ==
    ASSUME CoreInv, NEW c \in Procs, NEW p \in Pcs, Goto(c, p), lock' = lock, Writes(c),
           req[c].op # "none", req[c].pc # "next", p # "next",
           RequestOK([req[c] EXCEPT !.pc = p]),
           /\ req[c].app \notin hist'.moved
           /\ Phase(req[c], req[c].app, row[req[c].app], open[req[c].app], req[c].app \in hist.held)
           => Phase([req[c] EXCEPT !.pc = p], req[c].app, row'[req[c].app], open'[req[c].app],
                    req[c].app \in hist'.held)
    PROVE  Step(c)
<1> DEFINE r == req[c]  a == r.app
<1>0. PICK s : s = [r EXCEPT !.pc = p]
  OBVIOUS
<1>1. r \in Requests /\ RequestOK(r)
  BY DEF CoreInv, TypeOK, ReqInv
<1>2. /\ a \in Apps
      /\ r.op \notin Loops => r.todo = {}
      /\ r.op \in Loops => a \notin r.todo
      /\ r.todo \subseteq Apps
  BY <1>1 DEF RequestOK, Requests
<1>3. /\ s.op = r.op /\ s.app = a /\ s.todo = r.todo /\ s.snap = r.snap /\ s.made = r.made
      /\ s.pc = p
  BY <1>0, <1>1 DEF Requests
<1>4. Takes(c, s)
  BY <1>0, GotoTakes DEF Writes
<1>5. UsedIn(s, ctr')
  <2>1. Ages
    BY SameAges DEF Writes
  <2> HIDE DEF r
  <2>2. QED BY <1>3, <2>1, RequestUsed DEF r
<1>6. CoreInv'
  BY <1>2, <1>4, <1>5, WriteCore
<1>7. Touches(s) = Touches(r)
  BY <1>3 DEF Touches
<1>8. ASSUME NEW b \in Apps \ {a}, b \in Touches(r), Phase(r, b, row[b], open[b], b \in hist.held)
      PROVE  Stands(s, b, row[b], open[b], b \in hist.held)
  <2>1. b \in r.todo /\ r.op \in Loops
    BY <1>2, <1>8 DEF Touches
  <2> HIDE DEF r, a
  <2>2. Phase(s, b, row[b], open[b], b \in hist.held)
    <3>1. b # r.app /\ b # s.app
      BY <1>3, <1>8 DEF a
    <3>2. QED BY <2>1, <3>1, <1>3, <1>8, Waits
  <2>3. QED BY <2>2, <1>7, <1>8 DEF Stands
<1>9. a \in Touches(r)
  BY DEF Touches
<1>10. /\ a \notin hist'.moved
       /\ Phase(r, a, row[a], open[a], a \in hist.held)
       => Stands(s, a, row'[a], open'[a], a \in hist'.held)
  BY <1>0, <1>7, <1>9 DEF Stands
<1>11. Frame(c) /\ Stays(c)
  <2>1. OnlyAt(c, a)
    BY DEF Writes
  <2> HIDE DEF r, a
  <2>2. QED BY <1>2, <1>4, <1>7, <1>8, <1>9, <1>10, <2>1, WriteWalk DEF r
<1>12. QED BY <1>6, <1>11 DEF Step

\* A request at an app is done with it: it ends, or the loop goes on.
LEMMA DoneWrite ==
    ASSUME CoreInv, NEW c \in Procs, Done(c), Writes(c),
           req[c].op # "none", req[c].pc # "next",
           /\ req[c].app \notin hist'.moved
           /\ Phase(req[c], req[c].app, row[req[c].app], open[req[c].app], req[c].app \in hist.held)
           => Settles(row'[req[c].app], open'[req[c].app], req[c].app \in hist'.held)
    PROVE  Step(c)
<1> DEFINE r == req[c]  a == r.app
<1>1. /\ r \in Requests /\ RequestOK(r) /\ lock \in Clients \cup {"free"}
      /\ boot' = boot /\ ctr' = ctr
  BY DEF CoreInv, TypeOK, ReqInv, Writes
<1>2. /\ a \in Apps /\ a \in Touches(r)
      /\ r.op \notin Loops => r.todo = {}
      /\ r.op \in Loops => a \notin r.todo /\ r.made = <<>>
      /\ r.todo \subseteq Apps
  <2>1. /\ r.op \notin Loops => a \in Apps /\ r.todo = {}
        /\ r.op \in Loops => a \in Apps /\ a \notin r.todo
    BY <1>1 DEF RequestOK
  <2>2. r.op \in Loops => r.made = <<>>
    BY <1>1 DEF RequestOK, Loops, Placers
  <2>3. QED BY <1>1, <2>1, <2>2 DEF Requests, Touches
<1>3. boot.up = "yes" /\ Ages
  BY <1>1, Busy, SameAges
<1>4. CASE r.op \notin Loops
  <2>1. End(c)
    BY <1>4 DEF Done, Loops
  <2>2. Takes(c, Rest)
    BY <1>1, <1>3, <2>1, EndTakes
  <2>3. CoreInv'
    BY <1>2, <2>2, RestUsed, WriteCore
  <2>4. Touches(Rest) = {} /\ OnlyAt(c, a)
    BY RestFine DEF Writes
  <2>5. \A b \in Apps \ {a} : b \notin Touches(r)
    BY <1>2, <1>4 DEF Touches
  <2>6. /\ a \notin hist'.moved
        /\ Phase(r, a, row[a], open[a], a \in hist.held)
        => Stands(Rest, a, row'[a], open'[a], a \in hist'.held)
    BY <2>4 DEF Stands
  <2> HIDE DEF r, a
  <2>7. Frame(c) /\ Stays(c)
    BY <1>2, <2>2, <2>4, <2>5, <2>6, WriteWalk DEF r
  <2>8. QED BY <2>3, <2>7 DEF Step
<1>5. CASE r.op \in Loops
  <2>0. PICK s : s = [r EXCEPT !.pc = "next", !.app = "none"]
    OBVIOUS
  <2>1. /\ s \in Requests /\ s.op = r.op /\ s.pc = "next" /\ s.app = "none" /\ s.todo = r.todo
        /\ s.snap = r.snap /\ s.made = r.made
    BY <1>1, <2>0 DEF Requests, Pcs
  <2>2. RequestOK(s)
    BY <1>2, <1>5, <2>1 DEF RequestOK, Placers, Holders, Loops
  <2>3. req' = [req EXCEPT ![c] = s] /\ lock' = lock
    BY <1>5, <2>0 DEF Done, Loops
  <2>4. r.op \notin Holders
    BY <1>5 DEF Holders, Placers, Loops
  <2>5. lock # c
    BY <1>1, <2>4, Names DEF CoreInv, LockInv
  <2>6. (c \in Clients => s.op # "reap") /\ (c = "reaper" => s.op \in {"none", "reap"})
    BY <2>1 DEF CoreInv, LockInv
  <2>7. Takes(c, s)
    BY <1>1, <1>3, <2>1, <2>2, <2>3, <2>4, <2>5, <2>6 DEF Takes
  <2>8. UsedIn(s, ctr')
    BY <1>2, <1>3, <1>5, <2>1, RequestUsed
  <2>9. CoreInv'
    BY <1>2, <2>7, <2>8, WriteCore
  <2>10. \A b \in Apps : b \in Touches(s) <=> b \in r.todo
    BY <2>1, Names DEF Touches
  <2>11. ASSUME NEW b \in Apps \ {a}, b \in Touches(r), Phase(r, b, row[b], open[b], b \in hist.held)
         PROVE  Stands(s, b, row[b], open[b], b \in hist.held)
    <3>1. b \in r.todo /\ b # s.app
      BY <2>1, <2>11, Names DEF Touches
    <3> HIDE DEF r, a
    <3>2. Phase(s, b, row[b], open[b], b \in hist.held)
      <4>1. b # r.app
        BY <2>11 DEF a
      <4>2. QED BY <1>5, <2>1, <2>11, <3>1, <4>1, Waits
    <3>3. QED BY <2>10, <3>1, <3>2 DEF Stands
  <2>12. /\ a \notin hist'.moved
         /\ Phase(r, a, row[a], open[a], a \in hist.held)
         => Stands(s, a, row'[a], open'[a], a \in hist'.held)
    BY <1>2, <1>5, <2>10 DEF Stands
  <2>13. OnlyAt(c, a) /\ \A b \in Apps : b \in Touches(s) => b \in Touches(r)
    BY <2>10 DEF Writes, Touches
  <2> HIDE DEF r, a
  <2>14. Frame(c) /\ Stays(c)
    BY <1>2, <2>7, <2>11, <2>12, <2>13, WriteWalk DEF r
  <2>15. QED BY <2>9, <2>14 DEF Step
<1>6. QED BY <1>4, <1>5

\* A document whose list did not grow lists containers of its app.
LEMMA ListUsed ==
    ASSUME CoreInv, NEW a \in Apps, NEW s, Listed(s) \subseteq Listed(row[a].reps)
    PROVE  \A i \in Listed(s) : ctr[i].st # "unused" /\ ctr[i].app = a
BY DEF CoreInv, UsedInv

\* A start, a stop or a redeployment is written.
LEMMA WriteInvokedStep ==
    ASSUME CoreInv, NEW c \in Clients, writeInvoked(c)
    PROVE  Step(c)
<1> DEFINE r == req[c]  a == r.app
<1>1. /\ c \in Procs /\ r \in Requests /\ RequestOK(r) /\ hist \in Histories
      /\ row \in [Apps -> Documents] /\ open \in [Apps -> Nat]
  BY Names DEF CoreInv, TypeOK, ReqInv
<1>2. /\ r.op \in Verbs /\ r.pc = "row" /\ a \in Apps
      /\ ctr' = ctr /\ status' = status /\ ws' = ws /\ power' = power /\ spent' = spent
      /\ boot' = boot /\ open' = open /\ End(c)
  BY <1>1 DEF writeInvoked, Verbs, RequestOK, Loops
<1>3. PICK d : d = [row[a] EXCEPT !.st = IF r.op = "stop" THEN "STOPPED" ELSE "RUNNING"]
  OBVIOUS
<1>4. /\ d \in Documents /\ d.reps = row[a].reps /\ d.susp = row[a].susp
      /\ d.st = IF r.op = "stop" THEN "STOPPED" ELSE "RUNNING"
  <2>1. PICK t \in RowState : t = IF r.op = "stop" THEN "STOPPED" ELSE "RUNNING"
    BY DEF RowState
  <2>2. d = [row[a] EXCEPT !.st = t] /\ row[a] \in Documents
    BY <1>1, <1>2, <1>3, <2>1
  <2>3. d \in Documents /\ d.reps = row[a].reps /\ d.susp = row[a].susp /\ d.st = t
    BY <2>2 DEF Documents
  <2>4. QED BY <2>1, <2>3
<1>5. row' = [row EXCEPT ![a] = d]
  BY <1>3 DEF writeInvoked
<1>6. hist' = [hist EXCEPT
                 !.moved = IF row[a].st \notin {"RUNNING", "STOPPED"}
                           THEN hist.moved \cup {a} ELSE hist.moved,
                 !.held = IF r.op # "stop" THEN hist.held \ {a}
                          ELSE IF row[a].susp = "no" THEN hist.held \cup {a} ELSE hist.held]
  BY DEF writeInvoked
<1>7. /\ hist'.torn = hist.torn
      /\ hist'.moved = IF row[a].st \notin {"RUNNING", "STOPPED"}
                           THEN hist.moved \cup {a} ELSE hist.moved
      /\ hist'.held = IF r.op # "stop" THEN hist.held \ {a}
                          ELSE IF row[a].susp = "no" THEN hist.held \cup {a} ELSE hist.held
      /\ hist' \in Histories
  BY <1>1, <1>2, <1>6 DEF Histories
<1>8. row' \in [Apps -> Documents] /\ row'[a] = d /\ \A b \in Apps \ {a} : row'[b] = row[b]
  BY <1>1, <1>2, <1>4, <1>5
<1>9. OnlyAt(c, a)
  BY <1>2, <1>7, <1>8 DEF OnlyAt
<1>10. Writes(c)
  <2>1. \A i \in Listed(row'[a].reps) : ctr[i].st # "unused" /\ ctr[i].app = a
    BY <1>2, <1>4, <1>8, ListUsed
  <2>2. QED BY <1>1, <1>2, <1>7, <1>8, <1>9, <2>1 DEF Writes
<1>11. ASSUME a \notin hist'.moved, Phase(r, a, row[a], open[a], a \in hist.held)
       PROVE  Settles(row'[a], open'[a], a \in hist'.held)
  <2>1. row[a].st \in {"RUNNING", "STOPPED"} /\ Settles(row[a], open[a], a \in hist.held)
    BY <1>2, <1>7, <1>11 DEF Phase
  <2>2. open'[a] = Len(row'[a].reps) /\ row'[a].reps # <<>>
    BY <2>1, <1>2, <1>4, <1>8 DEF Settles
  <2>3. a \in hist'.held => row'[a].st = "STOPPED" /\ row'[a].susp = "no"
    BY <2>1, <1>4, <1>7, <1>8 DEF Settles
  <2>4. row'[a].st \in {"RUNNING", "STOPPED"}
    BY <1>4, <1>8
  <2>5. QED BY <2>2, <2>3, <2>4 DEF Settles
<1>12. Done(c) /\ r.op # "none" /\ r.pc # "next"
  BY <1>2 DEF Done, Verbs
<1> HIDE DEF r, a
<1>13. QED BY <1>1, <1>10, <1>11, <1>12, DoneWrite DEF r, a

\* A write that lists no other containers is one at the request's app.
LEMMA RowWrites ==
    ASSUME CoreInv, NEW c \in Procs, req[c].app \in Apps, NEW d \in Documents,
           \A i \in Listed(d.reps) : ctr[i].st # "unused" /\ ctr[i].app = req[c].app,
           row' = [row EXCEPT ![req[c].app] = d], open' = open,
           ctr' = ctr, status' = status, ws' = ws, power' = power, spent' = spent, boot' = boot,
           hist' \in Histories, hist.torn \subseteq hist'.torn, hist.moved \subseteq hist'.moved,
           \A b \in Apps \ {req[c].app} : b \in hist'.held <=> b \in hist.held
    PROVE  Writes(c) /\ row'[req[c].app] = d
<1>1. row \in [Apps -> Documents] /\ open \in [Apps -> Nat]
  BY DEF CoreInv, TypeOK
<1>2. /\ row' \in [Apps -> Documents] /\ row'[req[c].app] = d
      /\ \A b \in Apps \ {req[c].app} : row'[b] = row[b]
  BY <1>1
<1>3. OnlyAt(c, req[c].app)
  BY <1>2 DEF OnlyAt
<1>4. QED BY <1>1, <1>2, <1>3 DEF Writes

\* A suspension or a resumption is written.
LEMMA WritePoweredStep ==
    ASSUME CoreInv, NEW c \in Clients, writePowered(c)
    PROVE  Step(c)
<1> DEFINE r == req[c]  a == r.app
<1>1. /\ c \in Procs /\ r \in Requests /\ RequestOK(r) /\ hist \in Histories
      /\ row \in [Apps -> Documents] /\ open \in [Apps -> Nat]
  BY Names DEF CoreInv, TypeOK, ReqInv
<1>2. /\ r.op \in {"suspend", "resume"} /\ r.pc = "row" /\ a \in Apps
      /\ ctr' = ctr /\ status' = status /\ ws' = ws /\ power' = power /\ spent' = spent
      /\ boot' = boot /\ open' = open /\ Done(c)
  BY <1>1 DEF writePowered, RequestOK, Loops
<1>3. PICK d : d = [row[a] EXCEPT !.st = IF r.op = "suspend" THEN "STOPPED" ELSE "RUNNING",
                                  !.susp = IF r.op = "suspend" THEN "yes" ELSE "no"]
  OBVIOUS
<1>4. /\ d \in Documents /\ d.reps = row[a].reps
      /\ d.susp = IF r.op = "suspend" THEN "yes" ELSE "no"
      /\ d.st = IF r.op = "suspend" THEN "STOPPED" ELSE "RUNNING"
  <2>1. PICK t \in RowState : t = IF r.op = "suspend" THEN "STOPPED" ELSE "RUNNING"
    BY DEF RowState
  <2>2. PICK u \in {"yes", "no"} : u = IF r.op = "suspend" THEN "yes" ELSE "no"
    OBVIOUS
  <2>3. d = [row[a] EXCEPT !.st = t, !.susp = u] /\ row[a] \in Documents
    BY <1>1, <1>2, <1>3, <2>1, <2>2
  <2>4. d \in Documents /\ d.reps = row[a].reps /\ d.susp = u /\ d.st = t
    BY <2>3 DEF Documents
  <2>5. QED BY <2>1, <2>2, <2>4
<1>5. row' = [row EXCEPT ![a] = d]
  <2>1. row' = [row EXCEPT ![a].st = IF r.op = "suspend" THEN "STOPPED" ELSE "RUNNING",
                           ![a].susp = IF r.op = "suspend" THEN "yes" ELSE "no"]
    BY DEF writePowered
  <2>2. QED BY <1>1, <1>2, <1>3, <2>1
<1>6. /\ hist' \in Histories /\ hist'.torn = hist.torn /\ hist'.moved = hist.moved
      /\ hist'.held = hist.held
  <2>1. hist' = [hist EXCEPT !.revived = IF row[a].st \notin {"RUNNING", "STOPPED"}
                                            THEN hist.revived \cup {a} ELSE hist.revived]
    BY DEF writePowered
  <2>2. QED BY <1>1, <1>2, <2>1 DEF Histories
<1>7. \A i \in Listed(d.reps) : ctr[i].st # "unused" /\ ctr[i].app = a
  BY <1>2, <1>4, ListUsed
<1> HIDE DEF r, a
<1>8. Writes(c) /\ row'[a] = d
  BY <1>1, <1>2, <1>4, <1>5, <1>6, <1>7, RowWrites DEF r, a
<1>9. ASSUME Phase(r, a, row[a], open[a], a \in hist.held)
       PROVE  Settles(row'[a], open'[a], a \in hist'.held)
  <2>1. /\ Settles(row[a], open[a], a \in hist.held)
        /\ row[a].st \notin {"NONE", "REMOVED"}
        /\ row[a].st = "RUNNING" \/ row[a].susp = "yes"
    BY <1>2, <1>9 DEF Phase
  <2>2. open'[a] = Len(row'[a].reps) /\ row'[a].reps # <<>> /\ a \notin hist'.held
    BY <2>1, <1>2, <1>4, <1>6, <1>8 DEF Settles
  <2>3. row'[a].st \in {"RUNNING", "STOPPED"}
    BY <1>4, <1>8
  <2>4. QED BY <2>2, <2>3 DEF Settles
<1>10. r.op # "none" /\ r.pc # "next"
  BY <1>2
<1>11. QED BY <1>1, <1>2, <1>8, <1>9, <1>10, DoneWrite DEF r, a

\* The app of a revoked workspace is quarantined.
LEMMA WriteQuarantinedStep ==
    ASSUME CoreInv, NEW c \in Clients, writeQuarantined(c)
    PROVE  Step(c)
<1> DEFINE r == req[c]  a == r.app
<1>1. /\ c \in Procs /\ r \in Requests /\ RequestOK(r) /\ hist \in Histories
      /\ row \in [Apps -> Documents] /\ open \in [Apps -> Nat]
  BY Names DEF CoreInv, TypeOK, ReqInv
<1>2. /\ r.op = "revoke" /\ r.pc = "row" /\ a \in Apps /\ a \notin r.todo
      /\ ctr' = ctr /\ status' = status /\ ws' = ws /\ power' = power /\ spent' = spent
      /\ boot' = boot /\ open' = open /\ lock' = lock /\ Goto(c, "events")
  BY <1>1 DEF writeQuarantined, RequestOK, Loops
<1>3. PICK d : d = Quarantined(row[a])
  OBVIOUS
<1>4. /\ d \in Documents /\ d.reps = row[a].reps /\ d.susp = "no" /\ d.st = "QUARANTINED"
  <2>1. row[a] \in Documents
    BY <1>1, <1>2
  <2>2. QED BY <1>3, <2>1 DEF Documents, Quarantined, RowState
<1>5. row' = [row EXCEPT ![a] = d]
  BY <1>3 DEF writeQuarantined
<1>6. /\ hist' \in Histories /\ hist'.torn = hist.torn /\ hist'.moved = hist.moved
      /\ hist'.held = hist.held \ {a}
  <2>1. hist' = [hist EXCEPT !.grace[a] = "running", !.held = hist.held \ {a}]
    BY DEF writeQuarantined
  <2>2. QED BY <1>1, <1>2, <2>1 DEF Histories
<1>7. \A i \in Listed(d.reps) : ctr[i].st # "unused" /\ ctr[i].app = a
  BY <1>2, <1>4, ListUsed
<1>8. RequestOK([r EXCEPT !.pc = "events"]) /\ "events" \in Pcs
  BY <1>1, <1>2 DEF RequestOK, Requests, Placers, Holders, Loops, Pcs
<1>9. PICK s : s = [r EXCEPT !.pc = "events"]
  OBVIOUS
<1>10. s.pc = "events" /\ s.op = "revoke" /\ s.app = a
  BY <1>1, <1>2, <1>9 DEF Requests
<1> HIDE DEF r, a
<1>11. Writes(c) /\ row'[a] = d
  <2>1. \A b \in Apps \ {a} : b \in hist'.held <=> b \in hist.held
    BY <1>6
  <2>2. QED BY <1>1, <1>2, <1>4, <1>5, <1>6, <1>7, <2>1, RowWrites DEF r, a
<1>12. ASSUME Phase(r, a, row[a], open[a], a \in hist.held)
       PROVE  Phase(s, a, row'[a], open'[a], a \in hist'.held)
  <2>1. Settles(row[a], open[a], a \in hist.held) /\ row[a].st # "NONE"
    BY <1>2, <1>12 DEF Phase, Revoking
  <2>2. d.reps # <<>> /\ a \notin hist'.held
    BY <2>1, <1>4, <1>6 DEF Settles
  <2>3. QED BY <2>2, <1>4, <1>10, <1>11 DEF Phase, Verbs, Revoking
<1>13. r.op # "none" /\ r.pc # "next"
  BY <1>2
<1>14. QED BY <1>1, <1>2, <1>8, <1>9, <1>11, <1>12, <1>13, GotoWrite DEF r, a

\* A document that goes to REMOVING or REMOVED, with all else it says.
LEMMA RetiredDocument ==
    ASSUME CoreInv, NEW a \in Apps, NEW t \in RowState, NEW d, d = [row[a] EXCEPT !.st = t]
    PROVE  /\ d \in Documents /\ d.reps = row[a].reps /\ d.susp = row[a].susp /\ d.st = t
           /\ [row EXCEPT ![a].st = t] = [row EXCEPT ![a] = d]
           /\ \A i \in Listed(d.reps) : ctr[i].st # "unused" /\ ctr[i].app = a
<1>1. row[a] \in Documents /\ row \in [Apps -> Documents]
  BY DEF CoreInv, TypeOK
<1>2. d \in Documents /\ d.reps = row[a].reps /\ d.susp = row[a].susp /\ d.st = t
  BY <1>1 DEF Documents
<1>3. [row EXCEPT ![a].st = t] = [row EXCEPT ![a] = d]
  OBVIOUS
<1>4. QED BY <1>2, <1>3, ListUsed

\* The document is marked before its agents are asked.
LEMMA MarkRemovingStep ==
    ASSUME CoreInv, NEW c \in Clients, markRemoving(c)
    PROVE  Step(c)
<1> DEFINE r == req[c]  a == r.app
<1>1. /\ c \in Procs /\ r \in Requests /\ RequestOK(r) /\ hist \in Histories
  BY Names DEF CoreInv, TypeOK, ReqInv
<1>2. /\ r.op = "remove" /\ r.pc = "mark" /\ a \in Apps /\ r.todo = {}
      /\ ctr' = ctr /\ status' = status /\ ws' = ws /\ power' = power /\ spent' = spent
      /\ boot' = boot /\ open' = open /\ lock' = lock /\ hist' = hist /\ Goto(c, "agents")
  BY <1>1 DEF markRemoving, RequestOK, Loops
<1>3. PICK d : d = [row[a] EXCEPT !.st = "REMOVING"]
  OBVIOUS
<1>4. /\ d \in Documents /\ d.reps = row[a].reps /\ d.susp = row[a].susp /\ d.st = "REMOVING"
      /\ row' = [row EXCEPT ![a] = d]
      /\ \A i \in Listed(d.reps) : ctr[i].st # "unused" /\ ctr[i].app = a
  <2>1. "REMOVING" \in RowState /\ row' = [row EXCEPT ![a].st = "REMOVING"]
    BY DEF RowState, markRemoving
  <2> HIDE DEF a
  <2>2. QED BY <1>2, <1>3, <2>1, RetiredDocument
<1>5. RequestOK([r EXCEPT !.pc = "agents"]) /\ "agents" \in Pcs
  BY <1>1, <1>2 DEF RequestOK, Requests, Placers, Holders, Loops, Pcs
<1>6. PICK s : s = [r EXCEPT !.pc = "agents"]
  OBVIOUS
<1>7. s.pc = "agents" /\ s.op = "remove" /\ s.app = a /\ s.todo = {} /\ s.snap = r.snap
  BY <1>1, <1>2, <1>6 DEF Requests
<1> HIDE DEF r, a
<1>8. Writes(c) /\ row'[a] = d
  BY <1>1, <1>2, <1>4, RowWrites DEF r, a
<1>9. ASSUME Phase(r, a, row[a], open[a], a \in hist.held)
      PROVE  Phase(s, a, row'[a], open'[a], a \in hist'.held)
  <2>1. /\ Settles(row[a], open[a], a \in hist.held) /\ row[a].st \notin {"NONE", "REMOVED"}
        /\ row[a].reps = r.snap[a]
    BY <1>2, <1>9 DEF Phase, Removing
  <2>2. Settles(d, open[a], a \in hist.held)
    BY <2>1, <1>4 DEF Settles
  <2>3. Removing(s, a, d, open[a], a \in hist.held)
    BY <2>1, <2>2, <1>4, <1>7 DEF Removing
  <2>4. QED BY <2>3, <1>2, <1>7, <1>8 DEF Phase, Verbs
<1>10. r.op # "none" /\ r.pc # "next"
  BY <1>2
<1>11. QED BY <1>1, <1>2, <1>5, <1>6, <1>8, <1>9, <1>10, GotoWrite DEF r, a

\* The document of the app that is gone says so.
LEMMA WriteRemovedStep ==
    ASSUME CoreInv, NEW c \in Procs, writeRemoved(c)
    PROVE  Step(c)
<1> DEFINE r == req[c]  a == r.app
<1>1. /\ r \in Requests /\ RequestOK(r) /\ hist \in Histories
  BY DEF CoreInv, TypeOK, ReqInv
<1>2. /\ r.op \in {"remove", "reap"} /\ r.pc = "row" /\ a \in Apps /\ a \notin r.todo
      /\ ctr' = ctr /\ status' = status /\ ws' = ws /\ power' = power /\ spent' = spent
      /\ boot' = boot /\ open' = open /\ lock' = lock /\ hist' = hist /\ Goto(c, "events")
  BY <1>1 DEF writeRemoved, RequestOK, Loops
<1>3. PICK d : d = [row[a] EXCEPT !.st = "REMOVED"]
  OBVIOUS
<1>4. /\ d \in Documents /\ d.reps = row[a].reps /\ d.susp = row[a].susp /\ d.st = "REMOVED"
      /\ row' = [row EXCEPT ![a] = d]
      /\ \A i \in Listed(d.reps) : ctr[i].st # "unused" /\ ctr[i].app = a
  <2>1. "REMOVED" \in RowState /\ row' = [row EXCEPT ![a].st = "REMOVED"]
    BY DEF RowState, writeRemoved
  <2> HIDE DEF a
  <2>2. QED BY <1>2, <1>3, <2>1, RetiredDocument
<1>5. RequestOK([r EXCEPT !.pc = "events"]) /\ "events" \in Pcs
  BY <1>1, <1>2 DEF RequestOK, Requests, Placers, Holders, Loops, Pcs
<1>6. PICK s : s = [r EXCEPT !.pc = "events"]
  OBVIOUS
<1>7. s.pc = "events" /\ s.op = r.op /\ s.app = a /\ s.todo = r.todo /\ s.snap = r.snap
  BY <1>1, <1>2, <1>6 DEF Requests
<1> HIDE DEF r, a
<1>8. Writes(c) /\ row'[a] = d
  BY <1>1, <1>2, <1>4, RowWrites DEF r, a
<1>9. ASSUME Phase(r, a, row[a], open[a], a \in hist.held)
      PROVE  Phase(s, a, row'[a], open'[a], a \in hist'.held)
  <2>1. Settles(row[a], open[a], a \in hist.held) /\ row[a].st = "REMOVING"
    BY <1>2, <1>9 DEF Phase, Removing
  <2>2. Settles(d, open[a], a \in hist.held)
    BY <2>1, <1>4 DEF Settles
  <2>3. Removing(s, a, d, open[a], a \in hist.held)
    BY <2>2, <1>2, <1>4, <1>7 DEF Removing
  <2>4. QED BY <2>3, <1>2, <1>7, <1>8 DEF Phase, Verbs
<1>10. r.op # "none" /\ r.pc # "next"
  BY <1>2
<1>11. QED BY <1>1, <1>2, <1>5, <1>6, <1>8, <1>9, <1>10, GotoWrite DEF r, a

\* An MCP v2 app is taken out of quarantine, unless it no longer is in it.
LEMMA FlipActivatedStep ==
    ASSUME CoreInv, NEW c \in Clients, flipActivated(c)
    PROVE  Step(c)
<1> DEFINE r == req[c]  a == r.app
<1>1. /\ c \in Procs /\ r \in Requests /\ RequestOK(r) /\ hist \in Histories
      /\ ws \in {"ACTIVE", "REVOKED"} /\ power \in {"on", "off"}
      /\ spent \in [requests : Nat, mishaps : Nat] /\ ctr \in [Ids -> Containers]
  BY Names DEF CoreInv, TypeOK, ReqInv
<1>2. /\ r.op = "activate" /\ r.pc = "row" /\ a \in Apps /\ r.todo = {}
      /\ ctr' = ctr /\ status' = status /\ ws' = ws /\ power' = power /\ spent' = spent
      /\ boot' = boot /\ open' = open
  BY <1>1 DEF flipActivated, RequestOK, Loops
<1>3. CASE row[a].st # "QUARANTINED"
  <2>1. End(c) /\ row' = row /\ hist' = hist
    BY <1>3 DEF flipActivated
  <2>2. Ages
    BY <1>2, SameAges
  <2>3. r.op # "none" /\ r.pc # "events" /\ r.op # "unquarantine"
    BY <1>2
  <2> HIDE DEF r, a
  <2>4. QED BY <1>1, <1>2, <2>1, <2>2, <2>3, EndStep DEF r
<1>4. CASE row[a].st = "QUARANTINED"
  <2>1. PICK d : d = [row[a] EXCEPT !.st = "RUNNING"]
    OBVIOUS
  <2>2. /\ d \in Documents /\ d.reps = row[a].reps /\ d.susp = row[a].susp /\ d.st = "RUNNING"
        /\ row' = [row EXCEPT ![a] = d]
        /\ \A i \in Listed(d.reps) : ctr[i].st # "unused" /\ ctr[i].app = a
    <3>1. "RUNNING" \in RowState /\ row' = [row EXCEPT ![a].st = "RUNNING"]
      BY <1>4 DEF RowState, flipActivated
    <3> HIDE DEF a
    <3>2. QED BY <1>2, <2>1, <3>1, RetiredDocument
  <2>3. RequestOK([r EXCEPT !.pc = "events"]) /\ "events" \in Pcs
    BY <1>1, <1>2 DEF RequestOK, Requests, Placers, Holders, Loops, Pcs
  <2>4. PICK s : s = [r EXCEPT !.pc = "events"]
    OBVIOUS
  <2>5. s.pc = "events" /\ s.op = "activate" /\ s.app = a /\ s.snap = r.snap
    BY <1>1, <1>2, <2>4 DEF Requests
  <2>6. /\ hist' \in Histories /\ hist'.torn = hist.torn /\ hist.moved \subseteq hist'.moved
        /\ hist'.held = hist.held
    <3>1. hist' = [hist EXCEPT !.moved = IF row[a].stamp # "none" THEN hist.moved \cup {a} ELSE hist.moved]
      BY <1>4 DEF flipActivated
    <3>2. QED BY <1>1, <1>2, <3>1 DEF Histories
  <2>7. Goto(c, "events") /\ lock' = lock
    BY <1>4 DEF flipActivated
  <2> HIDE DEF r, a
  <2>8. Writes(c) /\ row'[a] = d
    BY <1>1, <1>2, <2>2, <2>6, RowWrites DEF r, a
  <2>9. ASSUME Phase(r, a, row[a], open[a], a \in hist.held)
        PROVE  Phase(s, a, row'[a], open'[a], a \in hist'.held)
    <3>1. Settles(row[a], open[a], a \in hist.held) /\ row[a].reps = r.snap[a]
      BY <1>2, <2>9 DEF Phase, Activating
    <3>2. Opens(d, open[a], a \in hist.held, r.snap[a])
      <4>1. open[a] = 0 /\ row[a].reps # <<>> /\ a \notin hist.held
        BY <3>1, <1>4 DEF Settles
      <4>2. row[a].susp = "no"
        <5>1. Len(row[a].reps) # 0
          <6>1. row[a].reps \in Seq(Ids)
            BY <1>2 DEF CoreInv, TypeOK, Documents
          <6>2. QED BY <6>1, <4>1
        <5>2. row[a].susp \in {"yes", "no"}
          BY <1>2 DEF CoreInv, TypeOK, Documents
        <5>3. QED BY <5>1, <5>2, <3>1, <4>1, <1>4 DEF Settles
      <4>3. QED BY <4>1, <4>2, <2>2, <3>1 DEF Opens
    <3>3. QED BY <3>2, <1>2, <2>5, <2>6, <2>8 DEF Phase, Verbs, Activating
  <2>10. r.op # "none" /\ r.pc # "next"
    BY <1>2
  <2>11. QED BY <1>1, <1>2, <2>3, <2>4, <2>7, <2>8, <2>9, <2>10, GotoWrite DEF r, a
<1>5. QED BY <1>3, <1>4

\* The document of a deployment or an installation is inserted, or refused because
\* one is there.
LEMMA InsertAppStep ==
    ASSUME CoreInv, NEW c \in Clients, insertApp(c)
    PROVE  Step(c)
<1> DEFINE r == req[c]  a == r.app
<1>1. /\ c \in Procs /\ r \in Requests /\ RequestOK(r) /\ hist \in Histories
      /\ ws \in {"ACTIVE", "REVOKED"} /\ power \in {"on", "off"}
      /\ spent \in [requests : Nat, mishaps : Nat] /\ ctr \in [Ids -> Containers]
      /\ Listed(r.made) \subseteq Ids
  BY Names, ListsAreIds DEF CoreInv, TypeOK, ReqInv
<1>2. /\ r.op \in {"deploy", "install"} /\ r.pc = "row" /\ a \in Apps /\ r.todo = {}
      /\ r.made \in Seq(Ids) /\ r.made # <<>>
      /\ ctr' = ctr /\ status' = status /\ ws' = ws /\ power' = power /\ spent' = spent
      /\ boot' = boot /\ open' = open
  BY <1>1 DEF insertApp, RequestOK, Loops, Placers, Requests
<1>3. CASE row[a].st # "NONE"
  <2>1. End(c) /\ row' = row /\ hist' = [hist EXCEPT !.leaked = hist.leaked \cup Listed(r.made)]
    BY <1>3 DEF insertApp
  <2>2. Ages
    BY <1>2, SameAges
  <2>3. /\ hist' \in Histories /\ hist'.held = hist.held /\ hist'.moved = hist.moved
        /\ hist'.torn = hist.torn
    BY <1>1, <2>1 DEF Histories
  <2>4. r.op # "none" /\ r.pc # "events" /\ r.op # "unquarantine"
    BY <1>2
  <2> HIDE DEF r, a
  <2>5. QED BY <1>1, <1>2, <2>1, <2>2, <2>3, <2>4, EndStep DEF r
<1>4. CASE row[a].st = "NONE"
  <2>1. PICK d : d = IF r.op = "deploy" THEN RawApp(r.made) ELSE McpApp(r.made)
    OBVIOUS
  <2>2. /\ d \in Documents /\ d.reps = r.made /\ d.susp = "no"
        /\ d.st = IF r.op = "deploy" THEN "RUNNING" ELSE "QUARANTINED"
    <3>1. PICK t \in {"single", "ha"} : t = IF Len(r.made) = 2 THEN "ha" ELSE "single"
      OBVIOUS
    <3>2. PICK x : x = [None EXCEPT !.st = "RUNNING", !.reps = r.made, !.tier = t]
      OBVIOUS
    <3>3. RawApp(r.made) = x /\ McpApp(r.made) = [x EXCEPT !.st = "QUARANTINED", !.kind = "v2"]
      BY <3>1, <3>2 DEF RawApp, McpApp
    <3>4. x \in Documents /\ x.reps = r.made /\ x.susp = "no" /\ x.st = "RUNNING"
      BY <1>2, <3>2 DEF None, Documents, RowState
    <3>5. CASE r.op = "deploy"
      BY <2>1, <3>3, <3>4, <3>5
    <3>6. CASE r.op # "deploy"
      BY <2>1, <3>3, <3>4, <3>6 DEF Documents, RowState
    <3>7. QED BY <3>5, <3>6
  <2>3. \A i \in Listed(d.reps) : ctr[i].st # "unused" /\ ctr[i].app = a
    BY <1>1, <2>2 DEF CoreInv, UsedInv, UsedIn
  <2>4. row' = [row EXCEPT ![a] = d] /\ hist' = hist
    BY <1>4, <2>1 DEF insertApp
  <2> HIDE DEF r, a
  <2>5. Writes(c) /\ row'[a] = d
    BY <1>1, <1>2, <2>2, <2>3, <2>4, RowWrites DEF r, a
  <2>6. ASSUME Phase(r, a, row[a], open[a], a \in hist.held)
        PROVE  open[a] = 0 /\ a \notin hist'.held
    BY <1>2, <1>4, <2>4, <2>6 DEF Phase, Installing, Settles
  <2>7. CASE r.op = "install"
    <3>1. End(c)
      BY <1>4, <2>7 DEF insertApp, r, a
    <3>2. Done(c) /\ r.op # "none" /\ r.pc # "next"
      BY <1>2, <3>1 DEF Done, r
    <3>3. ASSUME Phase(r, a, row[a], open[a], a \in hist.held)
          PROVE  Settles(row'[a], open'[a], a \in hist'.held)
      BY <1>2, <2>2, <2>5, <2>6, <2>7, <3>3 DEF Settles
    <3>4. QED BY <1>1, <2>5, <3>2, <3>3, DoneWrite DEF r, a
  <2>8. CASE r.op = "deploy"
    <3>1. Goto(c, "events") /\ lock' = lock
      BY <1>4, <2>8 DEF insertApp, r, a
    <3>2. RequestOK([r EXCEPT !.pc = "events"]) /\ "events" \in Pcs
      BY <1>1, <1>2, <2>8 DEF RequestOK, Requests, Placers, Holders, Loops, Pcs
    <3>3. PICK s : s = [r EXCEPT !.pc = "events"]
      OBVIOUS
    <3>4. s.pc = "events" /\ s.op = "deploy" /\ s.app = a /\ s.made = r.made
      BY <1>1, <2>8, <3>3 DEF Requests, a
    <3>5. ASSUME Phase(r, a, row[a], open[a], a \in hist.held)
          PROVE  Phase(s, a, row'[a], open'[a], a \in hist'.held)
      <4>1. Opens(d, open[a], a \in hist'.held, r.made)
        BY <1>2, <2>2, <2>6, <2>8, <3>5 DEF Opens
      <4>2. QED BY <4>1, <1>2, <2>5, <3>4 DEF Phase, Verbs, Installing
    <3>6. r.op # "none" /\ r.pc # "next"
      BY <1>2
    <3>7. QED BY <1>1, <2>5, <3>1, <3>2, <3>3, <3>5, <3>6, GotoWrite DEF r, a
  <2>9. QED BY <1>2, <2>7, <2>8
<1>5. QED BY <1>3, <1>4

\* The tier and the replicas of a tier change are written.
LEMMA WriteTierStep ==
    ASSUME CoreInv, NEW c \in Clients, writeTier(c)
    PROVE  Step(c)
<1> DEFINE r == req[c]  a == r.app
<1>1. /\ c \in Procs /\ r \in Requests /\ RequestOK(r) /\ hist \in Histories
  BY Names DEF CoreInv, TypeOK, ReqInv
<1>2. /\ r.op \in {"tierUp", "tierDown"} /\ r.pc = "row" /\ a \in Apps /\ r.todo = {}
      /\ r.made \in Seq(Ids) /\ r.snap[a] \in Seq(Ids) /\ row[a] \in Documents
      /\ ctr' = ctr /\ status' = status /\ ws' = ws /\ power' = power /\ spent' = spent
      /\ boot' = boot /\ open' = open /\ hist' = hist /\ lock' = lock /\ Goto(c, "events")
  BY <1>1 DEF writeTier, RequestOK, Loops, Requests, CoreInv, TypeOK
<1>3. r.op = "tierUp" => Len(r.made) = 1
  <2> SUFFICES ASSUME r.op = "tierUp" PROVE Len(r.made) = 1
    OBVIOUS
  <2>1. r.made # <<>> /\ Len(r.made) + Len(r.plan) = 1
    BY <1>1, <1>2 DEF RequestOK, Placers
  <2>2. Len(r.made) \in Nat /\ Len(r.made) > 0
    BY <1>2, <2>1, Pieces
  <2>3. r.plan \in Seq(Nodes)
    BY <1>1 DEF Requests
  <2>4. Len(r.plan) \in Nat
    BY <2>3
  <2>5. \A m, n \in Nat : m + n = 1 /\ m > 0 => m = 1
    OBVIOUS
  <2>6. QED BY <2>1, <2>2, <2>4, <2>5, Zenon
<1>4. PICK t : t = IF r.op = "tierUp" THEN row[a].reps \o r.made ELSE <<Head(r.snap[a])>>
  OBVIOUS
<1>5. /\ t \in Seq(Ids)
      /\ \A i \in Listed(t) : ctr[i].st # "unused" /\ ctr[i].app = a
      /\ row[a].reps = r.snap[a] => Len(t) = IF r.op = "tierUp" THEN Len(r.snap[a]) + 1 ELSE 1
  <2>1. /\ row[a].reps \in Seq(Ids)
        /\ \A i \in Listed(row[a].reps) : ctr[i].st # "unused" /\ ctr[i].app = a
        /\ \A i \in Listed(r.made) : ctr[i].st # "unused" /\ ctr[i].app = a
        /\ \A i \in Listed(r.snap[a]) : ctr[i].st # "unused" /\ ctr[i].app = a
    BY <1>1, <1>2 DEF Documents, CoreInv, UsedInv, UsedIn, Known
  <2>2. CASE r.op = "tierUp"
    <3>1. t = row[a].reps \o r.made
      BY <1>4, <2>2
    <3>2. /\ t \in Seq(Ids)
          /\ Len(t) = Len(row[a].reps) + Len(r.made)
          /\ Listed(t) = Listed(row[a].reps) \cup Listed(r.made)
      BY <1>2, <2>1, <3>1, ListedBoth
    <3>3. QED BY <1>3, <2>1, <2>2, <3>2
  <2>3. CASE r.op = "tierDown"
    <3>1. t = <<Head(r.snap[a])>> /\ r.snap[a] # <<>>
      BY <1>1, <1>4, <2>3 DEF RequestOK
    <3>2. Head(r.snap[a]) \in Ids /\ Head(r.snap[a]) \in Listed(r.snap[a])
      BY <1>2, <3>1, Pieces, ListedHead
    <3>3. t \in Seq(Ids) /\ Listed(t) = {Head(r.snap[a])} /\ Len(t) = 1
      BY <3>1, <3>2, ListedOne
    <3>4. QED BY <2>1, <2>3, <3>2, <3>3
  <2>4. QED BY <1>2, <2>2, <2>3
<1>6. PICK d : d = IF r.op = "tierUp" THEN [row[a] EXCEPT !.tier = "ha", !.reps = t]
                   ELSE [row[a] EXCEPT !.tier = "single", !.reps = t]
  OBVIOUS
<1>7. /\ d \in Documents /\ d.reps = t /\ d.st = row[a].st /\ d.susp = row[a].susp
  BY <1>2, <1>5, <1>6 DEF Documents
<1>8. row' = [row EXCEPT ![a] = d]
  <2>1. CASE r.op = "tierUp"
    <3>1. d = [row[a] EXCEPT !.tier = "ha", !.reps = row[a].reps \o r.made]
      BY <1>4, <1>6, <2>1
    <3>2. QED BY <2>1, <3>1 DEF writeTier
  <2>2. CASE r.op = "tierDown"
    BY <2>2, <1>4, <1>6 DEF writeTier
  <2>3. QED BY <1>2, <2>1, <2>2
<1>9. RequestOK([r EXCEPT !.pc = "events"]) /\ "events" \in Pcs
  BY <1>1, <1>2 DEF RequestOK, Requests, Placers, Holders, Loops, Pcs
<1>10. PICK s : s = [r EXCEPT !.pc = "events"]
  OBVIOUS
<1>11. s.pc = "events" /\ s.op = r.op /\ s.app = a /\ s.snap = r.snap
  BY <1>1, <1>10 DEF Requests
<1> HIDE DEF r, a
<1>12. Writes(c) /\ row'[a] = d
  BY <1>1, <1>2, <1>5, <1>7, <1>8, RowWrites DEF r, a
<1>13. ASSUME Phase(r, a, row[a], open[a], a \in hist.held)
       PROVE  Phase(s, a, row'[a], open'[a], a \in hist'.held)
  <2>1. /\ row[a].st = "RUNNING" /\ open[a] = Len(r.snap[a]) /\ open[a] # 0 /\ a \notin hist.held
        /\ row[a].reps = r.snap[a]
    BY <1>2, <1>13 DEF Phase, Resizing
  <2>2. Resizing(s, a, d, open[a], a \in hist.held)
    BY <2>1, <1>5, <1>7, <1>11 DEF Resizing
  <2>3. QED BY <2>2, <1>2, <1>11, <1>12 DEF Phase, Verbs
<1>14. r.op # "none" /\ r.pc # "next"
  BY <1>2
<1>15. QED BY <1>1, <1>2, <1>9, <1>10, <1>12, <1>13, <1>14, GotoWrite DEF r, a

\* The bill after a deployment, an activation or a tier change.
LEMMA RecordLockedStep ==
    ASSUME CoreInv, NEW c \in Clients, recordLocked(c)
    PROVE  Step(c)
<1> DEFINE r == req[c]  a == r.app
<1>1. /\ c \in Procs /\ r \in Requests /\ RequestOK(r) /\ hist \in Histories
      /\ row \in [Apps -> Documents] /\ open \in [Apps -> Nat]
  BY Names DEF CoreInv, TypeOK, ReqInv
<1>2. /\ r.op \in {"deploy", "activate", "tierUp", "tierDown"} /\ r.pc = "events" /\ a \in Apps
      /\ r.todo = {} /\ End(c)
      /\ ctr' = ctr /\ status' = status /\ ws' = ws /\ power' = power /\ spent' = spent
      /\ boot' = boot /\ row' = row /\ hist' = hist
  BY <1>1 DEF recordLocked, RequestOK, Loops
<1>3. /\ r.made \in Seq(Ids) /\ r.snap[a] \in Seq(Ids) /\ row[a].reps \in Seq(Ids)
      /\ open[a] \in Nat
  BY <1>1, <1>2 DEF Requests, Documents
<1>4. \A s \in Seq(Ids) : Len(s) \in Nat /\ (s # <<>> => Len(s) # 0)
  OBVIOUS
<1>5. PICK n : n = CASE r.op = "deploy" -> IF open[a] = 0 THEN Len(r.made) ELSE open[a]
                     [] r.op = "activate" -> IF open[a] = 0 THEN Len(r.snap[a]) ELSE open[a]
                     [] r.op = "tierUp" -> IF open[a] = 0 THEN 0 ELSE Len(r.snap[a]) + 1
                     [] r.op = "tierDown" -> IF Len(r.snap[a]) > 1
                                             THEN IF open[a] = 0 THEN 0 ELSE 1
                                             ELSE open[a]
  OBVIOUS
<1>6. n \in Nat /\ open' = [open EXCEPT ![a] = n]
  <2>1. CASE r.op = "deploy"
    <3>1. n = IF open[a] = 0 THEN Len(r.made) ELSE open[a]
      BY <1>5, <2>1
    <3>2. open' = INSTALLED(a, Len(r.made))
      BY <2>1 DEF recordLocked
    <3>3. QED BY <3>1, <3>2, <1>3, <1>4 DEF INSTALLED
  <2>2. CASE r.op = "activate"
    <3>1. n = IF open[a] = 0 THEN Len(r.snap[a]) ELSE open[a]
      BY <1>5, <2>2
    <3>2. open' = INSTALLED(a, Len(r.snap[a]))
      BY <2>2 DEF recordLocked
    <3>3. QED BY <3>1, <3>2, <1>3, <1>4 DEF INSTALLED
  <2>3. CASE r.op = "tierUp"
    <3>1. n = IF open[a] = 0 THEN 0 ELSE Len(r.snap[a]) + 1
      BY <1>5, <2>3
    <3>2. open' = REPLICAS_CHANGED(a, Len(r.snap[a]) + 1)
      BY <2>3 DEF recordLocked
    <3>3. QED BY <3>1, <3>2, <1>3, <1>4 DEF REPLICAS_CHANGED
  <2>4. CASE r.op = "tierDown"
    <3>1. n = IF Len(r.snap[a]) > 1 THEN IF open[a] = 0 THEN 0 ELSE 1 ELSE open[a]
      BY <1>5, <2>4
    <3>2. open' = IF Len(r.snap[a]) > 1 THEN REPLICAS_CHANGED(a, 1) ELSE open
      BY <2>4 DEF recordLocked
    <3>3. CASE Len(r.snap[a]) > 1
      BY <3>1, <3>2, <3>3, <1>3 DEF REPLICAS_CHANGED
    <3>4. CASE ~(Len(r.snap[a]) > 1)
      BY <3>1, <3>2, <3>4, <1>1, <1>3
    <3>5. QED BY <3>3, <3>4
  <2>5. QED BY <1>2, <2>1, <2>2, <2>3, <2>4
<1>7. /\ open' \in [Apps -> Nat] /\ open'[a] = n
      /\ \A b \in Apps \ {a} : open'[b] = open[b]
  BY <1>1, <1>2, <1>6
<1>8. \A i \in Listed(row'[a].reps) : ctr[i].st # "unused" /\ ctr[i].app = a
  BY <1>2, ListUsed
<1>9. Writes(c)
  <2>1. OnlyAt(c, a)
    BY <1>2, <1>7 DEF OnlyAt
  <2>2. QED BY <1>1, <1>2, <1>7, <1>8, <2>1 DEF Writes
<1>10. ASSUME Phase(r, a, row[a], open[a], a \in hist.held)
       PROVE  Settles(row[a], n, a \in hist.held)
  <2>1. CASE r.op = "deploy"
    <3>1. Opens(row[a], open[a], a \in hist.held, r.made)
      BY <2>1, <1>2, <1>10 DEF Phase, Installing
    <3>2. n = Len(r.made)
      BY <2>1, <3>1, <1>5 DEF Opens
    <3>3. QED BY <3>1, <3>2 DEF Settles, Opens
  <2>2. CASE r.op = "activate"
    <3>1. Opens(row[a], open[a], a \in hist.held, r.snap[a])
      BY <2>2, <1>2, <1>10 DEF Phase, Activating
    <3>2. n = Len(r.snap[a])
      BY <2>2, <3>1, <1>5 DEF Opens
    <3>3. QED BY <3>1, <3>2 DEF Settles, Opens
  <2>3. CASE r.op \in {"tierUp", "tierDown"}
    <3>1. /\ row[a].st = "RUNNING" /\ open[a] = Len(r.snap[a]) /\ open[a] # 0 /\ a \notin hist.held
          /\ Len(row[a].reps) = IF r.op = "tierUp" THEN open[a] + 1 ELSE 1
      BY <2>3, <1>2, <1>10 DEF Phase, Resizing
    <3>2. n = Len(row[a].reps) /\ row[a].reps # <<>>
      <4>1. CASE r.op = "tierUp"
        <5>1. n = open[a] + 1
          BY <4>1, <3>1, <1>5
        <5>2. open[a] + 1 # 0
          BY <1>3
        <5>3. QED BY <5>1, <5>2, <3>1, <4>1
      <4>2. CASE r.op = "tierDown"
        <5>0. \A m \in Nat : m # 0 => m = 1 \/ m > 1
          OBVIOUS
        <5>1. open[a] = 1 \/ Len(r.snap[a]) > 1
          BY <5>0, <1>3, <3>1, Zenon
        <5>2. n = 1
          BY <4>2, <5>1, <3>1, <1>5
        <5>3. Len(<<>>) # 1
          OBVIOUS
        <5>4. Len(row[a].reps) = 1
          BY <3>1, <4>2
        <5>5. QED BY <5>2, <5>3, <5>4, Zenon
      <4>3. QED BY <2>3, <4>1, <4>2
    <3>3. QED BY <3>1, <3>2 DEF Settles
  <2>4. QED BY <1>2, <2>1, <2>2, <2>3
<1>11. Done(c) /\ r.op # "none" /\ r.pc # "next"
  BY <1>2 DEF Done
<1> HIDE DEF r, a
<1>12. row'[a] = row[a] /\ open'[a] = n /\ hist'.held = hist.held
  BY <1>2, <1>7
<1>13. QED BY <1>1, <1>9, <1>10, <1>11, <1>12, DoneWrite DEF r, a

\* The bill after a revocation, a removal or the end of a quarantine.
LEMMA RecordUnlockedStep ==
    ASSUME CoreInv, NEW c \in Procs, recordUnlocked(c)
    PROVE  Step(c)
<1> DEFINE r == req[c]  a == r.app
<1>1. /\ r \in Requests /\ RequestOK(r) /\ hist \in Histories
      /\ row \in [Apps -> Documents] /\ open \in [Apps -> Nat]
  BY DEF CoreInv, TypeOK, ReqInv
<1>2. /\ r.op \in {"revoke", "remove", "reap", "unquarantine"} /\ r.pc = "events" /\ a \in Apps
      /\ a \notin r.todo /\ Done(c)
      /\ ctr' = ctr /\ status' = status /\ ws' = ws /\ power' = power /\ spent' = spent
      /\ boot' = boot /\ row' = row /\ hist' = hist
  BY <1>1 DEF recordUnlocked, RequestOK, Loops
<1>3. /\ r.snap[a] \in Seq(Ids) /\ row[a].reps \in Seq(Ids) /\ open[a] \in Nat
      /\ row[a].susp \in {"yes", "no"}
  BY <1>1, <1>2 DEF Requests, Documents
<1>4. \A s \in Seq(Ids) : Len(s) \in Nat
  OBVIOUS
<1>5. PICK n : n = IF r.op = "unquarantine"
                   THEN IF open[a] = 0 THEN Len(r.snap[a]) ELSE open[a] ELSE 0
  OBVIOUS
<1>6. n \in Nat /\ open' = [open EXCEPT ![a] = n]
  <2>1. CASE r.op = "unquarantine"
    <3>1. open' = INSTALLED(a, Len(r.snap[a]))
      BY <2>1 DEF recordUnlocked
    <3>2. QED BY <2>1, <3>1, <1>3, <1>4, <1>5 DEF INSTALLED
  <2>2. CASE r.op # "unquarantine"
    <3>1. open' = CLOSED(a)
      BY <2>2 DEF recordUnlocked
    <3>2. QED BY <2>2, <3>1, <1>5 DEF CLOSED
  <2>3. QED BY <2>1, <2>2
<1>7. /\ open' \in [Apps -> Nat] /\ open'[a] = n
      /\ \A b \in Apps \ {a} : open'[b] = open[b]
  BY <1>1, <1>2, <1>6
<1>8. \A i \in Listed(row'[a].reps) : ctr[i].st # "unused" /\ ctr[i].app = a
  BY <1>2, ListUsed
<1>9. Writes(c)
  <2>1. OnlyAt(c, a)
    BY <1>2, <1>7 DEF OnlyAt
  <2>2. QED BY <1>1, <1>2, <1>7, <1>8, <2>1 DEF Writes
<1>10. ASSUME Phase(r, a, row[a], open[a], a \in hist.held)
       PROVE  Settles(row[a], n, a \in hist.held)
  <2>1. CASE r.op = "unquarantine"
    <3>1. Opens(row[a], open[a], a \in hist.held, r.snap[a])
      BY <2>1, <1>10 DEF Phase
    <3>2. n = Len(r.snap[a])
      BY <2>1, <3>1, <1>5 DEF Opens
    <3>3. QED BY <3>1, <3>2 DEF Settles, Opens
  <2>2. CASE r.op = "revoke"
    <3>1. row[a].st = "QUARANTINED" /\ row[a].susp = "no" /\ row[a].reps # <<>> /\ a \notin hist.held
      BY <2>2, <1>2, <1>10 DEF Phase, Revoking
    <3>2. QED BY <2>2, <3>1, <1>5 DEF Settles
  <2>3. CASE r.op \in {"remove", "reap"}
    <3>1. Settles(row[a], open[a], a \in hist.held) /\ row[a].st = "REMOVED"
      BY <2>3, <1>2, <1>10 DEF Phase, Removing
    <3>2. QED BY <3>1 DEF Settles
  <2>4. QED BY <1>2, <2>1, <2>2, <2>3
<1>11. r.op # "none" /\ r.pc # "next"
  BY <1>2
<1> HIDE DEF r, a
<1>12. row'[a] = row[a] /\ open'[a] = n /\ hist'.held = hist.held
  BY <1>2, <1>7
<1>13. QED BY <1>1, <1>2, <1>9, <1>10, <1>11, <1>12, DoneWrite DEF r, a

\* An app is taken out of quarantine; its document is written at once.
LEMMA UnquarantineStep ==
    ASSUME CoreInv, NEW c \in Clients, NEW a \in Apps, unquarantine(c, a)
    PROVE  Step(c)
<1>1. /\ Free(c) /\ row[a].st = "QUARANTINED" /\ lock' = lock
      /\ boot' = boot /\ open' = open /\ status' = status /\ ws' = ws /\ power' = power
      /\ ctr' = ctr
      /\ row' = [row EXCEPT ![a].st = "RUNNING", ![a].stamp = "none"]
      /\ hist' = [Torn({a}) EXCEPT !.revived = @ \cup {a}, !.grace[a] = "none",
                                   !.held = @ \ {a}]
      /\ req' = [req EXCEPT ![c] = [Rest EXCEPT !.op = "unquarantine", !.app = a, !.pc = "agents",
                                              !.snap = Snap({a})]]
  BY DEF unquarantine, Claims
<1>2. /\ row \in [Apps -> Documents] /\ open \in [Apps -> Nat] /\ hist \in Histories
      /\ ws \in {"ACTIVE", "REVOKED"} /\ power \in {"on", "off"}
      /\ status \in [Nodes -> {"ACTIVE", "DRAINING"}] /\ ctr \in [Ids -> Containers]
      /\ req \in [Procs -> Requests]
  BY DEF CoreInv, TypeOK
<1>3. /\ c \in Procs /\ c # "reaper" /\ req[c] = Rest /\ boot.up = "yes"
      /\ spent' \in [requests : Nat, mishaps : Nat]
  BY <1>1, Freed
<1>4. PICK d : d = [row[a] EXCEPT !.st = "RUNNING", !.stamp = "none"]
  OBVIOUS
<1>5. d \in Documents /\ d.reps = row[a].reps /\ d.susp = row[a].susp /\ d.st = "RUNNING"
  <2>1. row[a] \in Documents
    BY <1>2
  <2>2. QED BY <2>1, <1>4 DEF Documents, RowState
<1>6. /\ row' \in [Apps -> Documents] /\ row'[a] = d
      /\ \A b \in Apps \ {a} : row'[b] = row[b]
  BY <1>1, <1>2, <1>4, <1>5
<1>7. PICK s : s = [Rest EXCEPT !.op = "unquarantine", !.app = a, !.pc = "agents", !.snap = Snap({a})]
  OBVIOUS
<1>8. /\ Snap({a}) \in [Apps -> Seq(Ids)] /\ Known(Snap({a}), ctr') /\ Snap({a})[a] = row[a].reps
  <2>1. PICK as : as = {a}
    OBVIOUS
  <2>2. /\ Snap(as) \in [Apps -> Seq(Ids)] /\ Known(Snap(as), ctr')
        /\ \A b \in as \cap Apps : Snap(as)[b] = row[b].reps
    BY <1>1, SnapUsed
  <2>3. QED BY <2>1, <2>2
<1>9. /\ s \in Requests /\ s.op = "unquarantine" /\ s.app = a /\ s.pc = "agents"
      /\ s.snap = Snap({a}) /\ s.made = <<>> /\ s.todo = {}
  <2>1. s \in Requests
    BY <1>7, <1>8, RestFine DEF Requests, Ops, Pcs
  <2>2. QED BY <1>7, <2>1 DEF Rest
<1>10. RequestOK(s) /\ s.op \notin Holders
  BY <1>9 DEF RequestOK, Placers, Holders, Loops
<1>11. Touches(req[c]) = {} /\ Touches(s) = {a} /\ req[c].op \notin Holders
  <2>1. Touches(s) = {a}
    BY <1>9 DEF Touches
  <2>2. QED BY <1>3, <2>1, RestFine DEF Holders, Placers
<1>12. Takes(c, s)
  <2>1. lock # c
    BY <1>3, <1>11, Names DEF CoreInv, LockInv
  <2>2. req' = [req EXCEPT ![c] = s]
    BY <1>1, <1>7
  <2>3. QED BY <1>1, <1>3, <1>9, <1>10, <2>1, <2>2 DEF Takes
<1>13. /\ hist' \in Histories /\ hist'.torn = hist.torn \cup ({a} \cap InFlight)
       /\ hist'.moved = hist.moved /\ hist'.held = hist.held \ {a}
  <2>1. PICK g : g = Torn({a})
    OBVIOUS
  <2>2. /\ g \in Histories /\ g.torn = hist.torn \cup ({a} \cap InFlight)
        /\ g.moved = hist.moved /\ g.held = hist.held
    BY <1>2, <2>1 DEF Torn, Histories
  <2>3. hist' = [g EXCEPT !.revived = g.revived \cup {a}, !.grace[a] = "none", !.held = g.held \ {a}]
    BY <1>1, <2>1
  <2>4. QED BY <2>2, <2>3 DEF Histories
<1>14. CoreInv'
  <2>1. Ages
    BY <1>1, SameAges
  <2>2. UsedIn(s, ctr')
    BY <1>8, <1>9, ListedNone DEF UsedIn
  <2>3. \A b \in Apps : \A i \in Listed(row'[b].reps) : ctr'[i].st # "unused" /\ ctr'[i].app = b
    BY <1>1, <1>5, <1>6 DEF CoreInv, UsedInv
  <2>4. open' \in [Apps -> Nat] /\ ws' \in {"ACTIVE", "REVOKED"} /\ power' \in {"on", "off"}
        /\ status' \in [Nodes -> {"ACTIVE", "DRAINING"}] /\ ctr' \in [Ids -> Containers]
    BY <1>1, <1>2
  <2>5. QED BY <1>3, <1>6, <1>12, <1>13, <2>1, <2>2, <2>3, <2>4, CoreFrom
<1>15. req'[c] = s /\ \A p \in Procs \ {c} : req'[p] = req[p]
  BY <1>3, <1>12, TakesCore
<1>16. Touches(req[c])' = {a}
  BY <1>11, <1>15 DEF Touches
<1>17. Frame(c)
  <2>1. \A b \in Apps : b \in Touches(req[c])' => b \notin InFlight \/ b \in hist'.torn
    BY <1>13, <1>16
  <2>2. \A b \in Apps : b \notin Touches(req[c])' =>
            row'[b] = row[b] /\ open'[b] = open[b] /\ (b \in hist'.held <=> b \in hist.held)
    BY <1>1, <1>6, <1>13, <1>16
  <2>3. QED BY <1>13, <1>15, <2>1, <2>2 DEF Frame
<1>18. ASSUME NEW b \in Apps, b \notin Excused', b \in Touches(req[c]) \/ b \in Touches(req[c])',
              Stands(req[c], b, row[b], open[b], b \in hist.held)
       PROVE  Stands(req'[c], b, row'[b], open'[b], b \in hist'.held)
  <2>1. b = a
    BY <1>11, <1>16, <1>18
  <2>2. Settles(row[a], open[a], a \in hist.held)
    BY <1>11, <1>18, <2>1 DEF Stands
  <2>3. open[a] = 0 /\ row[a].reps # <<>>
    BY <1>1, <2>2 DEF Settles
  <2>4. row[a].susp = "no"
    <3>1. row[a].reps \in Seq(Ids) /\ row[a].susp \in {"yes", "no"}
      BY <1>2 DEF Documents
    <3>2. Len(row[a].reps) # 0
      BY <2>3, <3>1
    <3>3. QED BY <1>1, <2>2, <2>3, <3>1, <3>2 DEF Settles
  <2>5. Opens(d, open[a], a \in hist'.held, s.snap[a])
    BY <1>5, <1>8, <1>9, <1>13, <2>3, <2>4 DEF Opens
  <2>6. Phase(s, a, d, open[a], a \in hist'.held)
    BY <1>9, <2>5 DEF Phase, Verbs
  <2>7. QED BY <1>1, <1>6, <1>11, <1>15, <2>1, <2>6 DEF Stands
<1>19. QED BY <1>14, <1>17, <1>18 DEF Step, Stays

\* The reaper claims the next app and marks it, leaves it out, or its tick is over.
LEMMA NextReapedStep ==
    ASSUME CoreInv, nextReaped
    PROVE  Step("reaper")
<1> DEFINE r == req["reaper"]
<1>0. PICK c : c = "reaper"
  OBVIOUS
<1>1. /\ c \in Procs /\ r = req[c] /\ r \in Requests /\ RequestOK(r) /\ hist \in Histories
      /\ row \in [Apps -> Documents] /\ open \in [Apps -> Nat]
      /\ ws \in {"ACTIVE", "REVOKED"} /\ power \in {"on", "off"}
      /\ status \in [Nodes -> {"ACTIVE", "DRAINING"}]
      /\ spent \in [requests : Nat, mishaps : Nat] /\ ctr \in [Ids -> Containers]
  BY <1>0, Names DEF CoreInv, TypeOK, ReqInv
<1>2. /\ r.op = "reap" /\ r.pc = "next" /\ r.op \in Loops
      /\ boot' = boot /\ open' = open /\ status' = status /\ ws' = ws /\ power' = power
      /\ ctr' = ctr /\ hist' = hist /\ spent' = spent
  BY DEF nextReaped, Loops
<1>3. Ages /\ r.todo \subseteq Apps /\ r.app = "none" /\ r.made = <<>>
  BY <1>1, <1>2, SameAges DEF Requests, RequestOK, Placers
<1>4. CASE End(c) /\ row' = row
  <2>1. r.op # "none" /\ r.pc # "events" /\ r.op # "unquarantine"
    BY <1>2
  <2> HIDE DEF r
  <2>2. QED BY <1>0, <1>1, <1>2, <1>3, <1>4, <2>1, EndStep
<1>5. ASSUME NEW a \in r.todo, Skip(c, a), row' = row, lock' = lock
      PROVE  Step(c)
  BY <1>0, <1>1, <1>2, <1>5, SkipStep
<1>6. ASSUME NEW a \in r.todo, Claims(a), row' = [row EXCEPT ![a].st = "REMOVING"], lock' = lock,
             req' = [req EXCEPT ![c] = [req[c] EXCEPT !.app = a, !.todo = @ \ {a},
                                                      !.pc = "agents", !.snap = Snap({a})]]
      PROVE  Step(c)
  <2>1. PICK s : s = [req[c] EXCEPT !.app = a, !.todo = req[c].todo \ {a}, !.pc = "agents",
                                    !.snap = Snap({a})]
    OBVIOUS
  <2>2. /\ Snap({a}) \in [Apps -> Seq(Ids)] /\ Known(Snap({a}), ctr') /\ Snap({a})[a] = row[a].reps
    <3>1. PICK as : as = {a}
      OBVIOUS
    <3>2. /\ Snap(as) \in [Apps -> Seq(Ids)] /\ Known(Snap(as), ctr')
          /\ \A b \in as \cap Apps : Snap(as)[b] = row[b].reps
      BY <1>2, SnapUsed
    <3>3. a \in Apps
      BY <1>3
    <3>4. QED BY <3>1, <3>2, <3>3
  <2>3. /\ s \in Requests /\ TurnsTo(c, s, a) /\ s.snap = Snap({a}) /\ s.made = <<>>
        /\ s.op = "reap" /\ s.pc = "agents" /\ s.app = a /\ s.todo = r.todo \ {a}
    BY <1>1, <1>2, <1>3, <2>1, <2>2 DEF Requests, Pcs, TurnsTo
  <2>4. req' = [req EXCEPT ![c] = s]
    BY <1>6, <2>1
  <2>5. PICK d : d = [row[a] EXCEPT !.st = "REMOVING"]
    OBVIOUS
  <2>6. /\ d \in Documents /\ d.reps = row[a].reps /\ d.susp = row[a].susp /\ d.st = "REMOVING"
        /\ row' = [row EXCEPT ![a] = d] /\ a \in Apps
        /\ \A i \in Listed(d.reps) : ctr[i].st # "unused" /\ ctr[i].app = a
    <3>1. "REMOVING" \in RowState /\ a \in Apps
      BY <1>3 DEF RowState
    <3>2. QED BY <1>6, <2>5, <3>1, RetiredDocument
  <2>7. row' \in [Apps -> Documents] /\ row'[a] = d /\ \A b \in Apps \ {a} : row'[b] = row[b]
    BY <1>1, <2>6
  <2> HIDE DEF r
  <2>8. /\ Takes(c, s)
        /\ \A b \in Apps : b \in Touches(s) => b \in Touches(r)
    BY <1>1, <1>2, <1>6, <2>3, <2>4, TurnTakes
  <2>9. CoreInv'
    <3>1. UsedIn(s, ctr')
      BY <2>2, <2>3, ListedNone DEF UsedIn
    <3>2. \A b \in Apps : \A i \in Listed(row'[b].reps) : ctr'[i].st # "unused" /\ ctr'[i].app = b
      BY <1>2, <2>6, <2>7 DEF CoreInv, UsedInv
    <3>3. QED BY <1>1, <1>2, <1>3, <2>7, <2>8, <3>1, <3>2, CoreFrom
  <2>10. OnlyAt(c, a) /\ a \in Touches(r)
    BY <1>2, <1>6, <2>7 DEF OnlyAt, Touches
  <2>11. \A b \in Apps : b \in Touches(r) => b \in r.todo
    BY <1>3, Names DEF Touches
  <2>12. Touches(s) = {a} \cup (r.todo \ {a})
    BY <2>3 DEF Touches
  <2>13. ASSUME NEW b \in Apps \ {a}, b \in Touches(r), Phase(r, b, row[b], open[b], b \in hist.held)
         PROVE  Stands(s, b, row[b], open[b], b \in hist.held)
    <3>1. Removing(r, b, row[b], open[b], b \in hist.held) /\ b \in r.todo /\ b \in s.todo
      BY <1>2, <2>3, <2>11, <2>13 DEF Phase
    <3>2. Removing(s, b, row[b], open[b], b \in hist.held)
      BY <3>1 DEF Removing
    <3>3. QED BY <2>3, <2>12, <3>1, <3>2 DEF Stands, Phase, Verbs
  <2>14. ASSUME Phase(r, a, row[a], open[a], a \in hist.held)
         PROVE  Stands(s, a, row'[a], open'[a], a \in hist'.held)
    <3>1. Settles(row[a], open[a], a \in hist.held) /\ row[a].st = "QUARANTINED"
      BY <1>2, <1>6, <2>14 DEF Phase, Removing
    <3>2. Settles(d, open[a], a \in hist.held)
      BY <2>6, <3>1 DEF Settles
    <3>3. Removing(s, a, d, open[a], a \in hist.held)
      BY <2>2, <2>3, <2>6, <3>2 DEF Removing
    <3>4. Phase(s, a, d, open[a], a \in hist.held)
      BY <2>3, <3>3 DEF Phase, Verbs
    <3>5. QED BY <1>2, <2>7, <2>12, <3>4 DEF Stands
  <2>15. Frame(c) /\ Stays(c)
    BY <1>1, <2>6, <2>8, <2>10, <2>13, <2>14, WriteWalk
  <2>16. QED BY <2>9, <2>15 DEF Step
<1>7. QED
  <2>1. CASE r.todo = {} /\ End(c) /\ row' = row
    BY <2>1, <1>0, <1>4
  <2>2. CASE \E a \in r.todo :
             \/ Skip(c, a) /\ row' = row /\ lock' = lock
             \/ /\ Claims(a)
                /\ row' = [row EXCEPT ![a].st = "REMOVING"]
                /\ req' = [req EXCEPT ![c] = [req[c] EXCEPT !.app = a, !.todo = @ \ {a},
                                                       !.pc = "agents", !.snap = Snap({a})]]
                /\ lock' = lock
    BY <2>2, <1>0, <1>5, <1>6
  <2>3. QED BY <2>1, <2>2, <1>0 DEF nextReaped

-----------------------------------------------------------------------------
(* Every step of a process                                                 *)

\* The steps of the processes, and those of time, of the nodes and of the master.
Working == \/ \E c \in Clients : (Locked(c) \/ Unlocked(c)) /\ ~upsert(c)
           \/ reaperTick
           \/ nextReaped
           \/ \E c \in Procs : OneApp(c)

\* Whatever a client's request does, it keeps to the apps it is at.
LEMMA LockedStep ==
    ASSUME CoreInv, NEW c \in Clients, Locked(c)
    PROVE  Step(c)
<1>1. CASE \E a \in Apps, k \in {1, 2} : deploy(c, a, k) \/ deployMcp(c, a, k)
  BY <1>1, BeginStep DEF deploy, deployMcp
<1>2. CASE \E a \in Apps, t \in {"single", "ha"} : changeAvailabilityTier(c, a, t)
  BY <1>2, ChangeTierStep
<1>3. CASE \E a \in Apps : activateMcp(c, a)
  BY <1>3, ActivateStep
<1>4. CASE deployToNodes(c) \/ deployMcpToNodes(c)
  BY <1>4, DeployToNodesStep
<1>5. CASE deploySecond(c)
  BY <1>5, DeploySecondStep
<1>6. CASE compensate(c)
  BY <1>6, CompensateStep
<1>7. CASE shrink(c)
  BY <1>7, ShrinkStep
<1>8. CASE programRoute(c)
  BY <1>8, ProgramRouteStep
<1>9. CASE insertApp(c)
  BY <1>9, InsertAppStep
<1>10. CASE writeTier(c)
  BY <1>10, WriteTierStep
<1>11. CASE flipActivated(c)
  BY <1>11, FlipActivatedStep
<1>12. CASE recordLocked(c)
  BY <1>12, RecordLockedStep
<1>13. QED BY <1>1, <1>2, <1>3, <1>4, <1>5, <1>6, <1>7, <1>8, <1>9, <1>10, <1>11, <1>12 DEF Locked

\* So does one that takes no lock.
LEMMA UnlockedStep ==
    ASSUME CoreInv, NEW c \in Clients, Unlocked(c), ~upsert(c)
    PROVE  Step(c)
<1>1. CASE \E a \in Apps, v \in {"start", "stop"} : invoke(c, a, v)
  BY <1>1, InvokeStep DEF Verbs
<1>2. CASE \E a \in Apps : redeploy(c, a)
  BY <1>2, InvokeStep DEF Verbs, redeploy
<1>3. CASE \E v \in {"suspend", "resume"} : setWorkspacePower(c, v)
  BY <1>3, SetPowerStep
<1>4. CASE revokeWorkspace(c)
  BY <1>4, RevokeStep
<1>5. CASE \E a \in Apps : remove(c, a)
  BY <1>5, RemoveStep
<1>6. CASE \E a \in Apps : unquarantine(c, a)
  BY <1>6, UnquarantineStep
<1>7. CASE nextPowered(c)
  BY <1>7, NextPoweredStep
<1>8. CASE nextRevoked(c)
  BY <1>8, NextRevokedStep
<1>9. CASE writeInvoked(c)
  BY <1>9, WriteInvokedStep
<1>10. CASE writePowered(c)
  BY <1>10, WritePoweredStep
<1>11. CASE writeQuarantined(c)
  BY <1>11, WriteQuarantinedStep
<1>12. CASE markRemoving(c)
  BY <1>12, MarkRemovingStep
<1>13. QED BY <1>1, <1>2, <1>3, <1>4, <1>5, <1>6, <1>7, <1>8, <1>9, <1>10, <1>11, <1>12 DEF Unlocked

\* And the reaper.
LEMMA OneAppStep ==
    ASSUME CoreInv, NEW c \in Procs, OneApp(c)
    PROVE  Step(c)
<1>1. CASE askAgents(c)
  BY <1>1, AskAgentsStep
<1>2. CASE removeRoute(c)
  BY <1>2, RemoveRouteStep
<1>3. CASE writeRemoved(c)
  BY <1>3, WriteRemovedStep
<1>4. CASE recordUnlocked(c)
  BY <1>4, RecordUnlockedStep
<1>5. QED BY <1>1, <1>2, <1>3, <1>4 DEF OneApp

\* Whatever a process does, it keeps to the apps it is at.
LEMMA WorkingStep ==
    ASSUME CoreInv, Working
    PROVE  \E c \in Procs : Step(c)
<1>1. CASE \E c \in Clients : (Locked(c) \/ Unlocked(c)) /\ ~upsert(c)
  BY <1>1, LockedStep, UnlockedStep, Names
<1>2. CASE reaperTick
  BY <1>2, ReaperTickStep, Names
<1>3. CASE nextReaped
  BY <1>3, NextReapedStep, Names
<1>4. CASE \E c \in Procs : OneApp(c)
  BY <1>4, OneAppStep
<1>5. QED BY <1>1, <1>2, <1>3, <1>4 DEF Working

-----------------------------------------------------------------------------
(* Time, nodes, and the master's death                                     *)

Around == \/ \E c \in Clients : upsert(c)
          \/ \E n \in Nodes, s \in {"ACTIVE", "DRAINING"} : setStatus(n, s)
          \/ \E n \in Nodes : reconcileUnanswered(n)
          \/ serve
          \/ UNCHANGED vars

\* Where no request moves and no document, the accounts stay.
LEMMA AccountsStay ==
    ASSUME OverlapInv, AccountInv, req' = req, hist.torn \subseteq hist'.torn,
           hist.moved \subseteq hist'.moved,
           \A a \in Apps \ hist'.moved :
               row'[a] = row[a] /\ open'[a] = open[a] /\ (a \in hist'.held <=> a \in hist.held)
    PROVE  OverlapInv' /\ AccountInv'
<1>1. OverlapInv'
  BY DEF OverlapInv, Touches
<1>2. InFlight' = InFlight /\ \A c \in Procs : Touches(req[c])' = Touches(req[c])
  BY DEF InFlight, Touches
<1>3. ASSUME NEW a \in Apps \ Excused' PROVE Account(a)'
  <2>1. Account(a) /\ a \notin hist'.moved
    BY DEF AccountInv, Excused
  <2>2. row'[a] = row[a] /\ open'[a] = open[a] /\ (a \in hist'.held) = (a \in hist.held)
    BY <2>1
  <2>3. QED BY <1>2, <2>1, <2>2 DEF Account
<1>4. QED BY <1>1, <1>3 DEF AccountInv

\* The steps that change neither a request nor a document.
LEMMA AroundKeeps ==
    ASSUME CoreInv, OverlapInv, AccountInv, Around
    PROVE  CoreInv' /\ OverlapInv' /\ AccountInv'
<1>1. TypeOK /\ hist \in Histories
  BY DEF CoreInv, TypeOK
<1>2. /\ row' = row /\ ctr' = ctr /\ open' = open /\ req' = req /\ lock' = lock
      /\ hist' \in Histories /\ hist'.torn = hist.torn /\ hist'.moved = hist.moved
      /\ hist'.held = hist.held
      /\ ws' \in {"ACTIVE", "REVOKED"} /\ power' = power
      /\ status' \in [Nodes -> {"ACTIVE", "DRAINING"}]
      /\ spent' \in [requests : Nat, mishaps : Nat]
      /\ boot' \in [up : {"yes", "no"}, todo : SUBSET Ids]
      /\ boot.up = "yes" => boot' = boot
      /\ boot'.up = "yes" => boot'.todo = {}
      /\ boot'.todo \subseteq boot.todo
  <2>1. CASE \E c \in Clients : upsert(c)
    BY <1>1, <2>1 DEF upsert, Free, TypeOK, CoreInv, LockInv
  <2>2. CASE \E n \in Nodes, s \in {"ACTIVE", "DRAINING"} : setStatus(n, s)
    <3>1. PICK n \in Nodes, s \in {"ACTIVE", "DRAINING"} : setStatus(n, s)
      BY <2>2
    <3>2. hist' = [hist EXCEPT !.drained = hist.drained \cup {n}]
      BY <3>1 DEF setStatus
    <3>3. /\ hist' \in Histories /\ hist'.torn = hist.torn /\ hist'.moved = hist.moved
          /\ hist'.held = hist.held
      BY <1>1, <3>2 DEF Histories
    <3>4. spent' \in [requests : Nat, mishaps : Nat]
      BY <1>1, <3>1, FaultedTyped DEF setStatus
    <3>5. QED BY <1>1, <3>1, <3>3, <3>4 DEF setStatus, TypeOK, CoreInv, LockInv
  <2>3. CASE \E n \in Nodes : reconcileUnanswered(n)
    <3>1. PICK n \in Nodes : reconcileUnanswered(n)
      BY <2>3
    <3>2. PICK T : T = {i \in boot.todo : ctr[i].node # n}
      OBVIOUS
    <3>3. boot' = [boot EXCEPT !.todo = T] /\ T \subseteq boot.todo /\ boot.todo # {}
      BY <3>1, <3>2 DEF reconcileUnanswered
    <3>4. boot.up # "yes" /\ boot \in [up : {"yes", "no"}, todo : SUBSET Ids]
      BY <1>1, <3>3 DEF TypeOK, CoreInv, LockInv
    <3>5. /\ boot' \in [up : {"yes", "no"}, todo : SUBSET Ids] /\ boot'.up = boot.up
          /\ boot'.todo = T
      BY <3>3, <3>4
    <3>6. QED BY <1>1, <3>1, <3>3, <3>4, <3>5 DEF reconcileUnanswered, TypeOK
  <2>4. CASE serve
    <3>1. boot.up = "no" /\ boot' = [up |-> "yes", todo |-> {}]
      BY <2>4 DEF serve
    <3>2. QED BY <1>1, <2>4, <3>1 DEF serve, TypeOK
  <2>5. CASE UNCHANGED vars
    BY <1>1, <2>5 DEF vars, TypeOK, CoreInv, LockInv
  <2>6. QED BY <2>1, <2>2, <2>3, <2>4, <2>5 DEF Around
<1>3. TypeOK'
  BY <1>1, <1>2 DEF TypeOK
<1>4. LockInv'
  <2>1. boot'.up = "no" => boot.up = "no"
    <3>1. boot.up \in {"yes", "no"}
      BY <1>1 DEF TypeOK
    <3>2. QED BY <1>2, <3>1
  <2>2. \A i \in boot'.todo : Exists(i)'
    BY <1>2 DEF CoreInv, LockInv, Exists
  <2>3. QED BY <1>2, <2>1, <2>2 DEF CoreInv, LockInv
<1>5. ReqInv' /\ UsedInv'
  BY <1>2 DEF CoreInv, ReqInv, UsedInv
<1>6. OverlapInv' /\ AccountInv'
  BY <1>2, AccountsStay
<1>7. QED BY <1>3, <1>4, <1>5, <1>6 DEF CoreInv

\* The grace clock of an app nobody works on runs out.
LEMMA GraceKeeps ==
    ASSUME CoreInv, OverlapInv, AccountInv, NEW a \in Apps, graceExpires(a)
    PROVE  CoreInv' /\ OverlapInv' /\ AccountInv'
<1>1. /\ TypeOK /\ hist \in Histories /\ row \in [Apps -> Documents]
  BY DEF CoreInv, TypeOK
<1>2. /\ InFlight = {} /\ ctr' = ctr /\ open' = open /\ req' = req /\ lock' = lock
      /\ ws' = ws /\ power' = power /\ status' = status /\ spent' = spent /\ boot' = boot
      /\ row' = [row EXCEPT ![a].stamp = "old"]
      /\ hist' = [hist EXCEPT !.grace[a] = IF row[a].st = "QUARANTINED" THEN "over" ELSE @]
  BY DEF graceExpires
<1>3. PICK g \in {"none", "running", "over"} :
        g = IF row[a].st = "QUARANTINED" THEN "over" ELSE hist.grace[a]
  BY <1>1 DEF Histories
<1>4. /\ hist' \in Histories /\ hist'.torn = hist.torn /\ hist'.moved = hist.moved
      /\ hist'.held = hist.held
  <2>1. hist' = [hist EXCEPT !.grace[a] = g]
    BY <1>2, <1>3
  <2>2. QED BY <1>1, <2>1 DEF Histories
<1>5. PICK d : d = [row[a] EXCEPT !.stamp = "old"]
  OBVIOUS
<1>6. d \in Documents /\ d.reps = row[a].reps /\ d.susp = row[a].susp /\ d.st = row[a].st
  BY <1>1, <1>5 DEF Documents
<1>7. row' \in [Apps -> Documents] /\ row'[a] = d /\ \A b \in Apps \ {a} : row'[b] = row[b]
  BY <1>1, <1>2, <1>5, <1>6
<1>8. TypeOK'
  BY <1>1, <1>2, <1>4, <1>7 DEF TypeOK
<1>9. LockInv' /\ ReqInv'
  BY <1>2 DEF CoreInv, LockInv, ReqInv, Exists
<1>10. UsedInv'
  BY <1>2, <1>6, <1>7 DEF CoreInv, UsedInv
<1>11. OverlapInv'
  BY <1>2, <1>4 DEF OverlapInv, Touches
<1>12. ASSUME NEW b \in Apps \ Excused' PROVE Account(b)'
  <2>1. Account(b) /\ b \notin InFlight
    BY <1>2, <1>4 DEF AccountInv, Excused
  <2>2. \A c \in Procs : b \notin Touches(req[c])'
    BY <1>2 DEF InFlight, Touches
  <2>3. Settles(row[b], open[b], b \in hist.held)
    BY <2>1 DEF Account
  <2>4. Settles(row'[b], open'[b], b \in hist'.held)
    <3>1. CASE b # a
      BY <3>1, <2>3, <1>2, <1>4, <1>7
    <3>2. CASE b = a
      <4>1. Settles(d, open[a], a \in hist.held)
        BY <2>3, <3>2, <1>6 DEF Settles
      <4>2. QED BY <4>1, <3>2, <1>2, <1>4, <1>7
    <3>3. QED BY <3>1, <3>2
  <2>5. QED BY <2>2, <2>4 DEF Account
<1>13. QED BY <1>8, <1>9, <1>10, <1>11, <1>12 DEF CoreInv, AccountInv

\* The master dies: what was in flight is cut off, and remembered.
LEMMA CrashKeeps ==
    ASSUME CoreInv, OverlapInv, AccountInv, crash
    PROVE  CoreInv' /\ OverlapInv' /\ AccountInv'
<1>1. /\ TypeOK /\ hist \in Histories /\ ctr \in [Ids -> Containers]
  BY DEF CoreInv, TypeOK
<1>2. /\ row' = row /\ ctr' = ctr /\ open' = open /\ lock' = "free"
      /\ ws' = ws /\ power' = power /\ status' = status /\ spent' = Faulted
      /\ req' = [c \in Procs |-> Rest]
  BY DEF crash
<1>3. /\ hist' \in Histories /\ hist'.torn = hist.torn \cup InFlight /\ hist'.moved = hist.moved
      /\ hist'.held = hist.held
  <2>1. hist' = [hist EXCEPT !.torn = hist.torn \cup InFlight,
                      !.leaked = hist.leaked \cup UNION {Listed(req[c].made) : c \in Procs}]
    BY DEF crash
  <2>2. UNION {Listed(req[c].made) : c \in Procs} \subseteq Ids
    BY <1>1, ListsAreIds
  <2>3. InFlight \subseteq Apps \cup {"none"}
    <3>1. \A c \in Procs : Touches(req[c]) \subseteq Apps \cup {"none"}
      BY <1>1 DEF TypeOK, Requests, Touches
    <3>2. QED BY <3>1 DEF InFlight
  <2>4. QED BY <1>1, <2>1, <2>2, <2>3 DEF Histories
<1>4. /\ boot' \in [up : {"yes", "no"}, todo : SUBSET Ids] /\ boot'.up = "no"
      /\ \A i \in boot'.todo : Exists(i)
  <2>1. PICK T : T = IF ws = "ACTIVE" THEN {i \in Ids : Exists(i)} ELSE {}
    OBVIOUS
  <2>2. boot' = [up |-> "no", todo |-> T] /\ T \subseteq Ids /\ \A i \in T : Exists(i)
    BY <2>1 DEF crash
  <2>3. QED BY <2>2
<1>5. Rest \in Requests /\ RequestOK(Rest) /\ Touches(Rest) = {} /\ Rest.op = "none"
  BY RestFine
<1>6. TypeOK'
  BY <1>1, <1>2, <1>3, <1>4, <1>5, FaultedTyped DEF TypeOK
<1>7. ReqInv'
  BY <1>2, <1>5 DEF ReqInv
<1>8. LockInv'
  <2>1. "none" \notin Holders
    BY DEF Holders, Placers
  <2>2. QED BY <1>2, <1>4, <1>5, <2>1, Names DEF LockInv, Exists
<1>9. UsedInv'
  <2>1. UsedIn(Rest, ctr')
    BY RestUsed
  <2>2. QED BY <1>2, <2>1 DEF CoreInv, UsedInv
<1>10. \A c \in Procs : Touches(req[c])' = {}
  BY <1>2, <1>5 DEF Touches
<1>11. OverlapInv'
  BY <1>10 DEF OverlapInv
<1>12. ASSUME NEW a \in Apps \ Excused' PROVE Account(a)'
  <2>1. Account(a) /\ a \notin InFlight
    BY <1>3 DEF AccountInv, Excused
  <2>2. QED BY <1>2, <1>3, <1>10, <2>1 DEF Account
<1>13. QED BY <1>6, <1>7, <1>8, <1>9, <1>11, <1>12 DEF CoreInv, AccountInv

\* Boot reconciliation takes a container: whose document it changes, that is
\* remembered.
LEMMA ReconcileKeeps ==
    ASSUME CoreInv, OverlapInv, AccountInv, NEW i \in Ids, reconcileContainer(i)
    PROVE  CoreInv' /\ OverlapInv' /\ AccountInv'
<1> DEFINE a == ctr[i].app
<1>1. /\ TypeOK /\ hist \in Histories /\ row \in [Apps -> Documents] /\ ctr \in [Ids -> Containers]
      /\ boot \in [up : {"yes", "no"}, todo : SUBSET Ids]
  BY DEF CoreInv, TypeOK
<1>2. /\ i \in boot.todo /\ boot' = [boot EXCEPT !.todo = boot.todo \ {i}]
      /\ ws' = ws /\ power' = power /\ status' = status /\ open' = open /\ lock' = lock
      /\ req' = req /\ spent' = spent
  BY DEF reconcileContainer
<1>3. Exists(i) /\ boot.up = "no"
  BY <1>1, <1>2 DEF CoreInv, LockInv
<1>4. a \in Apps /\ ctr[i] \in [app : Apps, node : Nodes, st : {"running", "stopped", "gone"}]
  BY <1>1, <1>3 DEF Exists, Containers, Absent
<1>5. /\ boot' \in [up : {"yes", "no"}, todo : SUBSET Ids] /\ boot'.up = "no"
      /\ boot'.todo = boot.todo \ {i}
  BY <1>1, <1>2, <1>3
<1>6. ASSUME ctr' \in [Ids -> Containers], row' \in [Apps -> Documents], hist' \in Histories,
             hist.torn \subseteq hist'.torn, hist.moved \subseteq hist'.moved,
             hist'.held = hist.held,
             \A b \in Apps \ hist'.moved : row'[b] = row[b],
             \A j \in Ids : ctr'[j].app = ctr[j].app /\ (ctr[j].st # "unused" => ctr'[j].st # "unused")
                            /\ (Exists(j) => Exists(j)'),
             \A b \in Apps : \A j \in Listed(row'[b].reps) :
                 ctr[j].st # "unused" /\ ctr[j].app = b
      PROVE  CoreInv' /\ OverlapInv' /\ AccountInv'
  <2>1. TypeOK'
    BY <1>1, <1>2, <1>5, <1>6 DEF TypeOK
  <2>2. ReqInv'
    BY <1>2 DEF CoreInv, ReqInv
  <2>3. LockInv'
    <3>1. \A j \in boot'.todo : Exists(j)'
      BY <1>1, <1>5, <1>6 DEF CoreInv, LockInv
    <3>2. QED BY <1>2, <1>3, <1>5, <3>1 DEF CoreInv, LockInv
  <2>4. UsedInv'
    <3>1. /\ \A b \in Apps : Listed(row'[b].reps) \subseteq Ids
      <4>1. \A b \in Apps : row'[b].reps \in Seq(Ids)
        BY <1>6 DEF Documents
      <4>2. QED BY <4>1, ListedIn
    <3>2. \A b \in Apps : \A j \in Listed(row'[b].reps) : ctr'[j].st # "unused" /\ ctr'[j].app = b
      BY <1>6, <3>1
    <3>3. ASSUME NEW c \in Procs PROVE UsedIn(req'[c], ctr')
      <4>1. UsedIn(req[c], ctr) /\ req'[c] = req[c]
        BY <1>2 DEF CoreInv, UsedInv
      <4>2. /\ \A b \in Apps : Listed(req[c].snap[b]) \subseteq Ids
            /\ Listed(req[c].made) \subseteq Ids
        BY <1>1, ListsAreIds
      <4>3. Known(req[c].snap, ctr')
        BY <1>6, <4>1, <4>2 DEF UsedIn, Known
      <4>4. \A j \in Listed(req[c].made) : ctr'[j].st # "unused" /\ ctr'[j].app = req[c].app
        BY <1>6, <4>1, <4>2 DEF UsedIn
      <4>5. QED BY <4>1, <4>3, <4>4 DEF UsedIn
    <3>4. QED BY <3>2, <3>3 DEF UsedInv
  <2>5. OverlapInv' /\ AccountInv'
    BY <1>2, <1>6, AccountsStay
  <2>6. QED BY <2>1, <2>2, <2>3, <2>4, <2>5 DEF CoreInv
<1>7. CASE row' = row /\ hist' = hist /\ ctr' = ctr
  <2>1. \A b \in Apps : \A j \in Listed(row'[b].reps) : ctr[j].st # "unused" /\ ctr[j].app = b
    BY <1>7 DEF CoreInv, UsedInv
  <2>2. \A j \in Ids : Exists(j) => Exists(j)'
    BY <1>7 DEF Exists
  <2>3. QED BY <1>1, <1>6, <1>7, <2>1, <2>2
<1>8. CASE row' = row /\ hist' = hist /\ ctr' = [ctr EXCEPT ![i].st = "stopped"]
  <2>1. PICK x : x = [ctr[i] EXCEPT !.st = "stopped"]
    OBVIOUS
  <2>2. x \in Containers /\ x.app = ctr[i].app /\ x.st = "stopped"
    BY <1>4, <2>1 DEF Containers
  <2>3. ctr' \in [Ids -> Containers] /\ ctr'[i] = x /\ \A j \in Ids \ {i} : ctr'[j] = ctr[j]
    BY <1>1, <1>8, <2>1, <2>2
  <2>4. \A j \in Ids : ctr'[j].app = ctr[j].app /\ (ctr[j].st # "unused" => ctr'[j].st # "unused")
                       /\ (Exists(j) => Exists(j)')
    BY <2>2, <2>3 DEF Exists
  <2>5. \A b \in Apps : \A j \in Listed(row'[b].reps) : ctr[j].st # "unused" /\ ctr[j].app = b
    BY <1>8 DEF CoreInv, UsedInv
  <2>6. QED BY <1>1, <1>6, <1>8, <2>3, <2>4, <2>5
<1>9. CASE /\ row' = [row EXCEPT ![a] = adopted(@, i)] /\ ctr' = ctr
           /\ hist' = [hist EXCEPT !.moved = hist.moved \cup {a}, !.leaked = hist.leaked \ {i}]
  <2>1. PICK t \in RowState : t = IF ctr[i].st = "running" THEN "RUNNING" ELSE "STOPPED"
    BY DEF RowState
  <2>2. PICK d : d = adopted(row[a], i)
    OBVIOUS
  <2>3. /\ row[a].reps \in Seq(Ids) /\ row[a] \in Documents
        /\ \A j \in Listed(row[a].reps) : ctr[j].st # "unused" /\ ctr[j].app = a
    BY <1>1, <1>4 DEF Documents, CoreInv, UsedInv
  <2>4. /\ Append(row[a].reps, i) \in Seq(Ids)
        /\ Listed(Append(row[a].reps, i)) = Listed(row[a].reps) \cup {i}
    BY <2>3, Extended
  <2>5. /\ Listed(<<i>>) = {i} /\ <<i>> \in Seq(Ids)
    BY ListedOne
  <2>6. d \in Documents /\ \A j \in Listed(d.reps) : ctr[j].st # "unused" /\ ctr[j].app = a
    <3>1. CASE row[a].st = "NONE"
      <4>1. d = [None EXCEPT !.st = t, !.reps = <<i>>]
        BY <2>1, <2>2, <3>1 DEF adopted
      <4>2. d \in Documents /\ d.reps = <<i>>
        BY <4>1, <2>5 DEF None, Documents
      <4>3. QED BY <4>2, <2>5, <1>3 DEF Exists
    <3>2. CASE row[a].st # "NONE"
      <4>1. d = [row[a] EXCEPT !.st = t, !.reps = Append(row[a].reps, i)]
        BY <2>1, <2>2, <3>2 DEF adopted
      <4>2. d \in Documents /\ d.reps = Append(row[a].reps, i)
        BY <4>1, <2>3, <2>4 DEF Documents
      <4>3. QED BY <4>2, <2>3, <2>4, <1>3 DEF Exists
    <3>3. QED BY <3>1, <3>2
  <2>7. row' \in [Apps -> Documents] /\ row'[a] = d /\ \A b \in Apps \ {a} : row'[b] = row[b]
    BY <1>1, <1>4, <1>9, <2>2, <2>6
  <2>8. /\ hist' \in Histories /\ hist'.torn = hist.torn /\ hist'.moved = hist.moved \cup {a}
        /\ hist'.held = hist.held
    BY <1>1, <1>4, <1>9 DEF Histories
  <2>9. \A b \in Apps : \A j \in Listed(row'[b].reps) : ctr[j].st # "unused" /\ ctr[j].app = b
    BY <2>6, <2>7 DEF CoreInv, UsedInv
  <2>10. \A j \in Ids : Exists(j) => Exists(j)'
    BY <1>9 DEF Exists
  <2>11. \A b \in Apps \ hist'.moved : row'[b] = row[b]
    BY <2>7, <2>8
  <2> HIDE DEF a
  <2>12. QED BY <1>1, <1>6, <1>9, <2>7, <2>8, <2>9, <2>10, <2>11
<1>10. QED BY <1>7, <1>8, <1>9 DEF reconcileContainer

-----------------------------------------------------------------------------
(* The accounts, in every state                                            *)

BooksInv == CoreInv /\ OverlapInv /\ AccountInv

\* The step of a process, of time, of a node or of the master.
LEMMA NextSplits ==
    ASSUME [Next]_vars
    PROVE  \/ Working
           \/ Around
           \/ \E a \in Apps : graceExpires(a)
           \/ crash
           \/ \E i \in Ids : reconcileContainer(i)
BY DEF Next, Working, Around, Unlocked

\* At first nothing is installed and nothing is billed.
LEMMA BooksStart ==
    ASSUME Init
    PROVE  BooksInv
<1>1. Rest \in Requests /\ RequestOK(Rest) /\ Touches(Rest) = {} /\ Rest.op = "none"
  BY RestFine
<1>2. <<>> \in Seq(Ids) /\ Listed(<<>>) = {}
  BY ListedNone
<1>3. None \in Documents /\ None.reps = <<>> /\ None.st = "NONE" /\ None.susp = "no"
  BY <1>2 DEF None, Documents, RowState
<1>4. Absent \in Containers /\ Absent.st = "unused"
  BY DEF Containers, Absent
<1>5. hist \in Histories /\ hist.torn = {} /\ hist.held = {}
  BY DEF Init, Histories
<1>6. TypeOK
  BY <1>1, <1>3, <1>4, <1>5 DEF Init, TypeOK
<1>7. \A c \in Procs : req[c] = Rest
  BY DEF Init
<1>8. ReqInv
  BY <1>1, <1>7 DEF ReqInv
<1>9. LockInv
  <2>1. "none" \notin Holders
    BY DEF Holders, Placers
  <2>2. boot.up = "yes" /\ boot.todo = {} /\ lock = "free"
    BY DEF Init
  <2>3. QED BY <1>1, <1>7, <2>1, <2>2, Names DEF LockInv
<1>10. UsedInv
  <2>1. \A a \in Apps : Listed(row[a].reps) = {}
    BY <1>2, <1>3 DEF Init
  <2>2. UsedIn(Rest, ctr)
    BY <1>2 DEF UsedIn, Known, Rest
  <2>3. QED BY <1>7, <2>1, <2>2 DEF UsedInv
<1>11. OverlapInv
  BY <1>1, <1>7 DEF OverlapInv
<1>12. AccountInv
  <2>1. ASSUME NEW a \in Apps PROVE Account(a)
    <3>1. row[a] = None /\ open[a] = 0 /\ a \notin hist.held
      BY <1>5 DEF Init
    <3>2. Settles(row[a], open[a], a \in hist.held)
      BY <1>3, <3>1 DEF Settles
    <3>3. QED BY <1>1, <1>7, <3>2 DEF Account
  <2>2. QED BY <2>1 DEF AccountInv
<1>13. QED BY <1>6, <1>8, <1>9, <1>10, <1>11, <1>12 DEF BooksInv, CoreInv

\* Every step keeps the accounts.
LEMMA BooksKept ==
    ASSUME BooksInv, [Next]_vars
    PROVE  BooksInv'
<1>1. CASE Working
  <2>1. PICK c \in Procs : Step(c)
    BY <1>1, WorkingStep DEF BooksInv
  <2>2. CoreInv' /\ OverlapInv' /\ AccountInv'
    BY <2>1, OverlapKept, AccountKept DEF BooksInv, Step
  <2>3. QED BY <2>2 DEF BooksInv
<1>2. CASE Around
  BY <1>2, AroundKeeps DEF BooksInv
<1>3. CASE \E a \in Apps : graceExpires(a)
  BY <1>3, GraceKeeps DEF BooksInv
<1>4. CASE crash
  BY <1>4, CrashKeeps DEF BooksInv
<1>5. CASE \E i \in Ids : reconcileContainer(i)
  BY <1>5, ReconcileKeeps DEF BooksInv
<1>6. QED BY <1>1, <1>2, <1>3, <1>4, <1>5, NextSplits

\* The accounts hold in every state.
LEMMA BooksHold == Spec => []BooksInv
<1>1. Init => BooksInv
  BY BooksStart
<1>2. BooksInv /\ [Next]_vars => BooksInv'
  BY BooksKept
<1>3. QED BY <1>1, <1>2, PTL DEF Spec

\* Every variable stays in its domain.
THEOREM TypeCorrect == Spec => []TypeOK
<1>1. BooksInv => TypeOK
  BY DEF BooksInv, CoreInv
<1>2. QED BY <1>1, BooksHold, PTL

\* What is billed is what is installed, for any number of apps, of requests and of
\* failures (quota-service.ts "reserved capacity the workspace is billed for").
THEOREM InstalledIsBilled == Spec => []BilledIsInstalled
<1>1. BooksInv => BilledIsInstalled
  <2> SUFFICES ASSUME BooksInv, NEW a \in Apps \ (hist.torn \cup hist.moved), Settled(a)
               PROVE  Billed(a) = CASE row[a].st \in {"RUNNING", "STOPPED"} -> Len(row[a].reps)
                                    [] row[a].st = "REMOVING" -> Billed(a)
                                    [] OTHER -> 0
    BY DEF BilledIsInstalled
  <2>1. Settles(row[a], open[a], a \in hist.held)
    BY DEF BooksInv, AccountInv, Account, Excused, Settled
  <2>2. row[a].st \in RowState
    BY DEF BooksInv, CoreInv, TypeOK, Documents
  <2>3. CASE row[a].st \in {"RUNNING", "STOPPED"}
    BY <2>1, <2>3 DEF Settles, Billed
  <2>4. CASE row[a].st \in {"NONE", "QUARANTINED", "REMOVED"}
    <3>1. Billed(a) = 0
      BY <2>1, <2>4 DEF Settles, Billed
    <3>2. QED BY <2>4, <3>1
  <2>5. CASE row[a].st = "REMOVING"
    BY <2>5
  <2>6. QED BY <2>2, <2>3, <2>4, <2>5 DEF RowState
<1>2. QED BY <1>1, BooksHold, PTL

\* An app that the operator stopped before the suspension is not started by the
\* resume after it (the comment in setWorkspacePower).
THEOREM StopsHold == Spec => []OperatorStopHolds
<1>1. BooksInv => OperatorStopHolds
  <2> SUFFICES ASSUME BooksInv, NEW a \in hist.held \ (hist.torn \cup hist.moved)
               PROVE  row[a].st # "RUNNING"
    BY DEF OperatorStopHolds
  <2>1. a \in Apps /\ Account(a) /\ a \in hist.held
    <3>1. hist.held \subseteq Apps
      BY DEF BooksInv, CoreInv, TypeOK, Histories
    <3>2. QED BY <3>1 DEF BooksInv, AccountInv, Excused
  <2>2. CASE a \notin InFlight
    BY <2>1, <2>2 DEF Account, Settles
  <2>3. CASE a \in InFlight
    <3>1. PICK c \in Procs : a \in Touches(req[c])
      BY <2>3 DEF InFlight
    <3>2. Phase(req[c], a, row[a], open[a], TRUE)
      <4>1. (a \in hist.held) = TRUE
        BY <2>1
      <4>2. QED BY <2>1, <3>1, <4>1 DEF Account
    <3>3. req[c].op \in Ops /\ req[c].op # "none"
      BY <3>1 DEF BooksInv, CoreInv, TypeOK, Requests, Touches
    <3>4. QED BY <3>2, <3>3 DEF Ops, Phase, Verbs, Installing, Activating, Resizing, Revoking,
                                Removing, Opens, Settles
  <2>4. QED BY <2>2, <2>3
<1>2. QED BY <1>1, BooksHold, PTL

-----------------------------------------------------------------------------
(* The grace window                                                        *)

\* A clock that ran out did so while the app was quarantined.  What the tick of the
\* reaper has still to do is due, or was revoked again since it began.
DueInv ==
    /\ \A a \in Apps : row[a].st = "QUARANTINED" /\ row[a].stamp = "old" => hist.grace[a] = "over"
    /\ \A a \in req["reaper"].todo :
          /\ row[a].st # "NONE"
          /\ row[a].st = "QUARANTINED" =>
                \/ hist.grace[a] = "over"
                \/ hist.grace[a] = "running" /\ a \in hist.torn

\* A step that quarantines nothing, and touches no clock.
Calm == \A a \in Apps :
    /\ row'[a].st = "QUARANTINED" => /\ row[a].st = "QUARANTINED"
                                     /\ row'[a].stamp = row[a].stamp
                                     /\ hist'.grace[a] = hist.grace[a]
    /\ row'[a].st = "NONE" => row[a].st = "NONE"

\* The clocks stay right where the documents are calm and the reaper's list does not grow.
LEMMA DueStays ==
    ASSUME CoreInv, DueInv, Calm, hist.torn \subseteq hist'.torn,
           req'["reaper"].todo \subseteq req["reaper"].todo
    PROVE  DueInv'
<1>1. req["reaper"].todo \subseteq Apps
  BY Names DEF CoreInv, TypeOK, Requests
<1>2. QED BY <1>1 DEF DueInv, Calm

\* A client's request leaves the reaper's alone.
LEMMA ReaperAlone ==
    ASSUME NEW c \in Clients, Step(c)
    PROVE  hist.torn \subseteq hist'.torn /\ req'["reaper"] = req["reaper"]
BY Names DEF Step, Frame

\* Nothing is quarantined where the documents stay as they are.
LEMMA QuietCalm ==
    ASSUME row' = row, hist'.grace = hist.grace
    PROVE  Calm
BY DEF Calm

\* Nor where the document of one app takes another state.
LEMMA WriteCalm ==
    ASSUME TypeOK, NEW a \in Apps, NEW d, row' = [row EXCEPT ![a] = d],
           hist'.grace = hist.grace, d.st \notin {"NONE", "QUARANTINED"} \/ (d.st = row[a].st /\ d.stamp = row[a].stamp)
    PROVE  Calm
<1>1. row'[a] = d /\ \A b \in Apps \ {a} : row'[b] = row[b]
  BY DEF TypeOK
<1>2. QED BY <1>1 DEF Calm

\* The requests that hold the lock keep the clocks.
LEMMA LockedDue ==
    ASSUME BooksInv, DueInv, NEW c \in Clients, Locked(c)
    PROVE  DueInv'
<1>1. CoreInv /\ TypeOK /\ hist \in Histories /\ c \in Procs /\ RequestOK(req[c])
  BY Names DEF BooksInv, CoreInv, TypeOK, ReqInv
<1>2. hist.torn \subseteq hist'.torn /\ req'["reaper"] = req["reaper"]
  BY <1>1, LockedStep, ReaperAlone
<1>3. Calm => DueInv'
  BY <1>1, <1>2, DueStays
<1>4. \A as : Torn(as).grace = hist.grace
  BY <1>1 DEF Torn, Histories
<1>5. CASE \/ \E a \in Apps, k \in {1, 2} : deploy(c, a, k) \/ deployMcp(c, a, k)
           \/ \E a \in Apps, t \in {"single", "ha"} : changeAvailabilityTier(c, a, t)
           \/ \E a \in Apps : activateMcp(c, a)
  BY <1>3, <1>4, <1>5, QuietCalm DEF deploy, deployMcp, Begin, changeAvailabilityTier, activateMcp
<1>6. CASE deployToNodes(c) \/ deployMcpToNodes(c) \/ deploySecond(c)
  <2>1. row' = row /\ (Placed(c, "ingress") \/ Placed(c, "row") \/ NotPlaced(c))
    BY <1>6 DEF deployToNodes, deployMcpToNodes, deploySecond, Placing
  <2>2. hist'.grace = hist.grace
    BY <1>1, <2>1 DEF Placed, NotPlaced, Histories
  <2>3. QED BY <1>3, <2>1, <2>2, QuietCalm
<1>7. CASE compensate(c)
  <2>1. PICK bad : row' = row /\ hist' = [hist EXCEPT !.leaked = hist.leaked \cup bad]
    BY <1>7 DEF compensate
  <2>2. QED BY <1>1, <1>3, <2>1, QuietCalm DEF Histories
<1>8. CASE shrink(c) \/ recordLocked(c)
  BY <1>3, <1>8, QuietCalm DEF shrink, recordLocked
<1>9. CASE programRoute(c)
  <2>1. row' = row /\ (hist' = hist \/ hist' = [hist EXCEPT !.leaked = hist.leaked \cup Listed(req[c].made)])
    BY <1>9 DEF programRoute
  <2>2. QED BY <1>1, <1>3, <2>1, QuietCalm DEF Histories
<1>10. CASE insertApp(c)
  <2> DEFINE r == req[c]
  <2>1. r.app \in Apps
    BY <1>1, <1>10 DEF insertApp, RequestOK, Loops
  <2>2. CASE row[r.app].st # "NONE"
    <3>1. row' = row /\ hist' = [hist EXCEPT !.leaked = hist.leaked \cup Listed(r.made)]
      BY <1>10, <2>2 DEF insertApp
    <3>2. QED BY <1>1, <1>3, <3>1, QuietCalm DEF Histories
  <2>3. CASE row[r.app].st = "NONE"
    <3>1. PICK d : d = IF r.op = "deploy" THEN RawApp(r.made) ELSE McpApp(r.made)
      OBVIOUS
    <3>2. d.stamp = "none" /\ d.st # "NONE"
      BY <3>1 DEF RawApp, McpApp, None
    <3>3. row' = [row EXCEPT ![r.app] = d] /\ hist' = hist
      BY <1>10, <2>3, <3>1 DEF insertApp
    <3>4. row'[r.app] = d /\ \A b \in Apps \ {r.app} : row'[b] = row[b]
      BY <1>1, <2>1, <3>3 DEF TypeOK
    <3>5. r.app \notin req["reaper"].todo
      BY <2>3 DEF DueInv
    <3>6. req["reaper"].todo \subseteq Apps
      BY <1>1, Names DEF TypeOK, Requests
    <3>7. QED BY <1>2, <2>1, <3>2, <3>3, <3>4, <3>5, <3>6 DEF DueInv
  <2>4. QED BY <2>2, <2>3
<1>11. CASE writeTier(c)
  <2> DEFINE r == req[c]
  <2>1. r.app \in Apps /\ row[r.app] \in Documents
    BY <1>1, <1>11 DEF writeTier, RequestOK, Loops, TypeOK
  <2>2. PICK d : d = IF r.op = "tierUp"
                     THEN [row[r.app] EXCEPT !.tier = "ha", !.reps = row[r.app].reps \o r.made]
                     ELSE [row[r.app] EXCEPT !.tier = "single", !.reps = <<Head(r.snap[r.app])>>]
    OBVIOUS
  <2>3. d.st = row[r.app].st /\ d.stamp = row[r.app].stamp
    BY <2>1, <2>2 DEF Documents
  <2>4. row' = [row EXCEPT ![r.app] = d] /\ hist' = hist
    BY <1>11, <2>2 DEF writeTier
  <2> HIDE DEF r
  <2>5. QED BY <1>1, <1>3, <2>1, <2>3, <2>4, WriteCalm
<1>12. CASE flipActivated(c)
  <2> DEFINE r == req[c]
  <2>1. r.app \in Apps /\ row[r.app] \in Documents /\ row \in [Apps -> Documents]
    BY <1>1, <1>12 DEF flipActivated, RequestOK, Loops, TypeOK
  <2>2. PICK d : d = [row[r.app] EXCEPT !.st = "RUNNING"]
    OBVIOUS
  <2>3. d.st = "RUNNING"
    BY <2>1, <2>2 DEF Documents
  <2>4. CASE row[r.app].st # "QUARANTINED"
    BY <1>3, <1>12, <2>4, QuietCalm DEF flipActivated
  <2>5. CASE row[r.app].st = "QUARANTINED"
    <3>1. /\ row' = [row EXCEPT ![r.app].st = "RUNNING"]
          /\ hist' = [hist EXCEPT !.moved = IF row[r.app].stamp # "none"
                                            THEN hist.moved \cup {r.app} ELSE hist.moved]
      BY <1>12, <2>5 DEF flipActivated
    <3>2. hist'.grace = hist.grace
      BY <1>1, <3>1 DEF Histories
    <3>3. row' = [row EXCEPT ![r.app] = d]
      BY <2>1, <2>2, <3>1
    <3> HIDE DEF r
    <3>4. QED BY <1>1, <1>3, <2>1, <2>3, <3>2, <3>3, WriteCalm
  <2>6. QED BY <2>4, <2>5
<1>13. QED BY <1>5, <1>6, <1>7, <1>8, <1>9, <1>10, <1>11, <1>12 DEF Locked

\* An app that is quarantined starts a new clock; if the reaper's tick has it on its
\* list, two operations are at it.
LEMMA QuarantinedDue ==
    ASSUME BooksInv, DueInv, NEW c \in Clients, writeQuarantined(c)
    PROVE  DueInv'
<1> DEFINE r == req[c]  a == r.app
<1>1. /\ TypeOK /\ hist \in Histories /\ row \in [Apps -> Documents] /\ req["reaper"] \in Requests
      /\ req \in [Procs -> Requests] /\ c \in Procs /\ c # "reaper" /\ RequestOK(r)
      /\ RequestOK(req["reaper"])
  BY Names DEF BooksInv, CoreInv, TypeOK, ReqInv
<1>2. /\ r.op = "revoke" /\ r.pc = "row" /\ a \in Apps
      /\ row' = [row EXCEPT ![a] = Quarantined(row[a])]
      /\ hist' = [hist EXCEPT !.grace[a] = "running", !.held = hist.held \ {a}]
      /\ req' = [req EXCEPT ![c].pc = "events"]
  BY <1>1 DEF writeQuarantined, Goto, RequestOK, Loops
<1>3. PICK d : d = Quarantined(row[a])
  OBVIOUS
<1>4. d.st = "QUARANTINED" /\ d.stamp = "fresh"
  <2>1. row[a] \in Documents
    BY <1>1, <1>2
  <2>2. QED BY <2>1, <1>3 DEF Quarantined, Documents
<1>5. row'[a] = d /\ \A b \in Apps \ {a} : row'[b] = row[b]
  BY <1>1, <1>2, <1>3
<1>6. /\ hist'.torn = hist.torn /\ hist'.grace[a] = "running"
      /\ \A b \in Apps \ {a} : hist'.grace[b] = hist.grace[b]
  BY <1>1, <1>2 DEF Histories
<1>7. req'["reaper"] = req["reaper"]
  BY <1>1, <1>2
<1>8. ASSUME a \in req["reaper"].todo PROVE a \in hist.torn
  <2>1. req["reaper"].op # "none"
    BY <1>1, <1>8 DEF RequestOK, Rest
  <2>2. a \in Touches(req["reaper"]) /\ a \in Touches(r)
    BY <1>2, <1>8, <2>1 DEF Touches
  <2>3. QED BY <1>1, <1>2, <2>2, Names DEF BooksInv, OverlapInv
<1>9. req["reaper"].todo \subseteq Apps
  BY <1>1 DEF Requests
<1> HIDE DEF a, r
<1>10. ASSUME NEW b \in Apps, row'[b].st = "QUARANTINED", row'[b].stamp = "old"
       PROVE  hist'.grace[b] = "over"
  BY <1>4, <1>5, <1>6, <1>10 DEF DueInv
<1>11. ASSUME NEW b \in req'["reaper"].todo
       PROVE  /\ row'[b].st # "NONE"
              /\ row'[b].st = "QUARANTINED" =>
                   \/ hist'.grace[b] = "over"
                   \/ hist'.grace[b] = "running" /\ b \in hist'.torn
  <2>1. b \in Apps /\ b \in req["reaper"].todo
    BY <1>7, <1>9, <1>11
  <2>2. CASE b = a
    BY <2>1, <2>2, <1>4, <1>5, <1>6, <1>8
  <2>3. CASE b # a
    BY <2>1, <2>3, <1>5, <1>6 DEF DueInv
  <2>4. QED BY <2>2, <2>3
<1>12. QED BY <1>10, <1>11 DEF DueInv

\* The requests that take no lock.
LEMMA UnlockedDue ==
    ASSUME BooksInv, DueInv, NEW c \in Clients, Unlocked(c), ~upsert(c)
    PROVE  DueInv'
<1>1. /\ CoreInv /\ TypeOK /\ hist \in Histories /\ row \in [Apps -> Documents]
      /\ c \in Procs /\ RequestOK(req[c])
  BY Names DEF BooksInv, CoreInv, TypeOK, ReqInv
<1>2. hist.torn \subseteq hist'.torn /\ req'["reaper"] = req["reaper"]
  BY <1>1, UnlockedStep, ReaperAlone
<1>3. Calm => DueInv'
  BY <1>1, <1>2, DueStays
<1>4. \A as : Torn(as).grace = hist.grace
  BY <1>1 DEF Torn, Histories
<1>5. CASE \/ \E a \in Apps, v \in {"start", "stop"} : invoke(c, a, v)
           \/ \E a \in Apps : redeploy(c, a)
           \/ \E v \in {"suspend", "resume"} : setWorkspacePower(c, v)
           \/ revokeWorkspace(c)
           \/ \E a \in Apps : remove(c, a)
  <2>1. row' = row /\ \E as : hist' = Torn(as)
    BY <1>5 DEF invoke, redeploy, setWorkspacePower, revokeWorkspace, remove
  <2>2. QED BY <1>3, <1>4, <2>1, QuietCalm
<1>6. CASE nextPowered(c) \/ nextRevoked(c)
  BY <1>3, <1>6, QuietCalm DEF nextPowered, nextRevoked
<1>7. CASE \E a \in Apps : unquarantine(c, a)
  <2>1. PICK a \in Apps : unquarantine(c, a)
    BY <1>7
  <2>2. PICK d : d = [row[a] EXCEPT !.st = "RUNNING", !.stamp = "none"]
    OBVIOUS
  <2>3. d.st = "RUNNING"
    BY <1>1, <2>2 DEF Documents
  <2>4. row' = [row EXCEPT ![a] = d]
    BY <1>1, <2>1, <2>2 DEF unquarantine
  <2>5. row'[a] = d /\ \A b \in Apps \ {a} : row'[b] = row[b]
    BY <1>1, <2>4
  <2>6. \A b \in Apps \ {a} : hist'.grace[b] = hist.grace[b]
    <3>1. PICK g : g = Torn({a})
      OBVIOUS
    <3>2. g \in [torn : SUBSET (Apps \cup {"none"}), moved : SUBSET Apps, revived : SUBSET Apps,
                 held : SUBSET Apps, leaked : SUBSET Ids, drained : SUBSET Nodes,
                 grace : [Apps -> {"none", "running", "over"}]] /\ g.grace = hist.grace
      BY <1>1, <3>1 DEF Torn, Histories
    <3>3. hist' = [g EXCEPT !.revived = g.revived \cup {a}, !.grace[a] = "none",
                            !.held = g.held \ {a}]
      BY <2>1, <3>1 DEF unquarantine
    <3>4. QED BY <3>2, <3>3
  <2>7. Calm
    BY <2>3, <2>5, <2>6 DEF Calm
  <2>8. QED BY <1>3, <2>7
<1>8. CASE writeInvoked(c)
  <2> DEFINE r == req[c]
  <2>1. r.app \in Apps
    BY <1>1, <1>8 DEF writeInvoked, RequestOK, Loops
  <2>2. PICK t : t = IF r.op = "stop" THEN "STOPPED" ELSE "RUNNING"
    OBVIOUS
  <2>3. PICK d : d = [row[r.app] EXCEPT !.st = t]
    OBVIOUS
  <2>4. d.st \notin {"NONE", "QUARANTINED"}
    BY <1>1, <2>1, <2>2, <2>3 DEF Documents
  <2>5. row' = [row EXCEPT ![r.app] = d]
    BY <1>1, <1>8, <2>1, <2>2, <2>3 DEF writeInvoked
  <2>6. hist'.grace = hist.grace
    BY <1>1, <1>8 DEF writeInvoked, Histories
  <2> HIDE DEF r
  <2>7. QED BY <1>1, <1>3, <2>1, <2>4, <2>5, <2>6, WriteCalm
<1>9. CASE writePowered(c)
  <2> DEFINE r == req[c]
  <2>1. r.app \in Apps
    BY <1>1, <1>9 DEF writePowered, RequestOK, Loops
  <2>2. PICK t, p : t = (IF r.op = "suspend" THEN "STOPPED" ELSE "RUNNING")
                    /\ p = (IF r.op = "suspend" THEN "yes" ELSE "no")
    OBVIOUS
  <2>3. PICK d : d = [row[r.app] EXCEPT !.st = t, !.susp = p]
    OBVIOUS
  <2>4. d.st \notin {"NONE", "QUARANTINED"}
    BY <1>1, <2>1, <2>2, <2>3 DEF Documents
  <2>5. row' = [row EXCEPT ![r.app] = d]
    BY <1>1, <1>9, <2>1, <2>2, <2>3 DEF writePowered
  <2>6. hist'.grace = hist.grace
    BY <1>1, <1>9 DEF writePowered, Histories
  <2> HIDE DEF r
  <2>7. QED BY <1>1, <1>3, <2>1, <2>4, <2>5, <2>6, WriteCalm
<1>10. CASE writeQuarantined(c)
  BY <1>10, QuarantinedDue
<1>11. CASE markRemoving(c)
  <2> DEFINE r == req[c]
  <2>1. r.app \in Apps
    BY <1>1, <1>11 DEF markRemoving, RequestOK, Loops
  <2>2. PICK d : d = [row[r.app] EXCEPT !.st = "REMOVING"]
    OBVIOUS
  <2>3. d.st = "REMOVING"
    BY <1>1, <2>1, <2>2 DEF Documents
  <2>4. row' = [row EXCEPT ![r.app] = d] /\ hist' = hist
    BY <1>1, <1>11, <2>1, <2>2 DEF markRemoving
  <2> HIDE DEF r
  <2>5. QED BY <1>1, <1>3, <2>1, <2>3, <2>4, WriteCalm
<1>12. QED BY <1>5, <1>6, <1>7, <1>8, <1>9, <1>10, <1>11 DEF Unlocked

\* A tick of the reaper begins with what has been quarantined long enough.
LEMMA TickDue ==
    ASSUME BooksInv, DueInv, reaperTick
    PROVE  DueInv'
<1> DEFINE due == {a \in Apps : row[a].st = "QUARANTINED" /\ row[a].stamp = "old"}
<1>1. /\ req \in [Procs -> Requests] /\ hist \in Histories /\ "reaper" \in Procs
  BY Names DEF BooksInv, CoreInv, TypeOK
<1>2. row' = row /\ hist' = Torn(due) /\ req'["reaper"].todo = due
  BY <1>1 DEF reaperTick, Rest
<1>3. hist'.grace = hist.grace
  BY <1>1, <1>2 DEF Torn, Histories
<1>4. QED BY <1>2, <1>3 DEF DueInv

\* The reaper takes up the next app, or its tick is over.
LEMMA ReapedDue ==
    ASSUME BooksInv, DueInv, nextReaped
    PROVE  DueInv'
<1> DEFINE r == req["reaper"]
<1>1. /\ CoreInv /\ TypeOK /\ req \in [Procs -> Requests] /\ row \in [Apps -> Documents]
      /\ "reaper" \in Procs /\ r \in Requests /\ hist' = hist
  BY Names DEF BooksInv, CoreInv, TypeOK, nextReaped
<1>2. CASE row' = row /\ End("reaper")
  <2>1. req'["reaper"].todo = {}
    BY <1>1, <1>2 DEF End, Rest
  <2>2. QED BY <1>1, <1>2, <2>1, QuietCalm, DueStays
<1>3. CASE \E a \in r.todo : row' = row /\ Skip("reaper", a)
  <2>1. PICK a \in r.todo : row' = row /\ req' = [req EXCEPT !["reaper"].todo = req["reaper"].todo \ {a}]
    BY <1>3 DEF Skip
  <2>2. req'["reaper"].todo = r.todo \ {a}
    BY <1>1, <2>1 DEF Requests
  <2>3. QED BY <1>1, <2>1, <2>2, QuietCalm, DueStays
<1>4. CASE \E a \in r.todo :
             /\ row' = [row EXCEPT ![a].st = "REMOVING"]
             /\ req' = [req EXCEPT !["reaper"] = [req["reaper"] EXCEPT !.app = a, !.todo = @ \ {a},
                                                        !.pc = "agents", !.snap = Snap({a})]]
  <2>1. PICK a \in r.todo :
             /\ row' = [row EXCEPT ![a].st = "REMOVING"]
             /\ req' = [req EXCEPT !["reaper"] = [req["reaper"] EXCEPT !.app = a, !.todo = @ \ {a},
                                                        !.pc = "agents", !.snap = Snap({a})]]
    BY <1>4
  <2>2. req'["reaper"].todo = r.todo \ {a} /\ a \in Apps
    BY <1>1, <2>1 DEF Requests
  <2>3. PICK d : d = [row[a] EXCEPT !.st = "REMOVING"]
    OBVIOUS
  <2>4. d.st = "REMOVING"
    BY <1>1, <2>2, <2>3 DEF Documents
  <2>5. row' = [row EXCEPT ![a] = d]
    BY <1>1, <2>1, <2>2, <2>3
  <2>6. Calm
    BY <1>1, <2>2, <2>4, <2>5, WriteCalm
  <2>7. QED BY <1>1, <2>2, <2>6, DueStays
<1>5. QED BY <1>2, <1>3, <1>4 DEF nextReaped

\* The steps of one app, of a request or of the reaper.
LEMMA OneAppDue ==
    ASSUME BooksInv, DueInv, NEW c \in Procs, OneApp(c)
    PROVE  DueInv'
<1> DEFINE r == req[c]
<1>1. /\ CoreInv /\ TypeOK /\ req \in [Procs -> Requests] /\ row \in [Apps -> Documents]
      /\ "reaper" \in Procs /\ r \in Requests /\ RequestOK(r) /\ hist \in Histories
  BY Names DEF BooksInv, CoreInv, TypeOK, ReqInv
<1>2. hist.torn \subseteq hist'.torn /\ \A d \in Procs \ {c} : req'[d] = req[d]
  BY <1>1, OneAppStep DEF Step, Frame
<1>3. ASSUME End(c) \/ Done(c) \/ Failed(c) \/ \E p : Goto(c, p)
      PROVE  req'["reaper"].todo \subseteq req["reaper"].todo
  <2>1. CASE c # "reaper"
    BY <1>1, <1>2, <2>1
  <2>2. CASE c = "reaper"
    <3>1. CASE End(c)
      BY <1>1, <2>2, <3>1 DEF End, Rest
    <3>2. CASE req' = [req EXCEPT ![c] = [req[c] EXCEPT !.pc = "next", !.app = "none"]]
      BY <1>1, <2>2, <3>2 DEF Requests
    <3>3. CASE \E p : Goto(c, p)
      BY <1>1, <2>2, <3>3 DEF Goto, Requests
    <3>4. QED BY <1>3, <3>1, <3>2, <3>3 DEF Done, Failed
  <2>3. QED BY <2>1, <2>2
<1>4. CASE askAgents(c)
  <2>1. row' = row /\ hist'.grace = hist.grace
    BY <1>1, <1>4 DEF askAgents, Histories
  <2>2. End(c) \/ Done(c) \/ Failed(c) \/ \E p : Goto(c, p)
    BY <1>4 DEF askAgents
  <2>3. QED BY <1>1, <1>2, <1>3, <2>1, <2>2, QuietCalm, DueStays
<1>5. CASE removeRoute(c)
  <2>1. row' = row /\ hist' = hist
    BY <1>5 DEF removeRoute
  <2>2. End(c) \/ Done(c) \/ Failed(c) \/ \E p : Goto(c, p)
    BY <1>5 DEF removeRoute
  <2>3. QED BY <1>1, <1>2, <1>3, <2>1, <2>2, QuietCalm, DueStays
<1>6. CASE recordUnlocked(c)
  <2>1. row' = row /\ hist' = hist /\ Done(c)
    BY <1>6 DEF recordUnlocked
  <2>2. QED BY <1>1, <1>2, <1>3, <2>1, QuietCalm, DueStays
<1>7. CASE writeRemoved(c)
  <2>1. r.app \in Apps /\ row[r.app] \in Documents
    BY <1>1, <1>7 DEF writeRemoved, RequestOK, Loops
  <2>2. PICK d : d = [row[r.app] EXCEPT !.st = "REMOVED"]
    OBVIOUS
  <2>3. d.st = "REMOVED"
    BY <2>1, <2>2 DEF Documents
  <2>4. row' = [row EXCEPT ![r.app] = d] /\ hist' = hist /\ Goto(c, "events")
    BY <1>1, <1>7, <2>1, <2>2 DEF writeRemoved
  <2>5. Calm
    <3> HIDE DEF r
    <3>1. QED BY <1>1, <2>1, <2>3, <2>4, WriteCalm
  <2>6. QED BY <1>1, <1>2, <1>3, <2>4, <2>5, DueStays
<1>8. QED BY <1>4, <1>5, <1>6, <1>7 DEF OneApp

\* A clock runs out while nobody works on anything.
LEMMA GraceDue ==
    ASSUME BooksInv, DueInv, NEW a \in Apps, graceExpires(a)
    PROVE  DueInv'
<1>1. /\ row \in [Apps -> Documents] /\ hist \in Histories /\ req["reaper"] \in Requests
      /\ "reaper" \in Procs /\ RequestOK(req["reaper"])
  BY Names DEF BooksInv, CoreInv, TypeOK, ReqInv
<1>2. req["reaper"].todo = {}
  <2>1. Touches(req["reaper"]) = {}
    BY <1>1 DEF graceExpires, InFlight
  <2>2. QED BY <1>1, <2>1 DEF Touches, RequestOK, Rest
<1>3. row' = [row EXCEPT ![a].stamp = "old"] /\ req' = req
  BY DEF graceExpires
<1>4. \A b \in Apps : row'[b].st = row[b].st /\ (b # a => row'[b] = row[b])
  BY <1>1, <1>3 DEF Documents
<1>5. /\ \A b \in Apps \ {a} : hist'.grace[b] = hist.grace[b]
      /\ row[a].st = "QUARANTINED" => hist'.grace[a] = "over"
  BY <1>1 DEF graceExpires, Histories
<1>6. QED BY <1>2, <1>3, <1>4, <1>5 DEF DueInv

\* Boot reconciliation finds no request; it never quarantines.
LEMMA ReconcileDue ==
    ASSUME BooksInv, DueInv, NEW i \in Ids, reconcileContainer(i)
    PROVE  DueInv'
<1> DEFINE a == ctr[i].app
<1>1. /\ CoreInv /\ row \in [Apps -> Documents] /\ ctr \in [Ids -> Containers] /\ hist \in Histories
      /\ i \in boot.todo /\ Exists(i) /\ req' = req
  BY DEF BooksInv, CoreInv, TypeOK, LockInv, reconcileContainer
<1>2. a \in Apps
  BY <1>1 DEF Containers, Absent, Exists
<1>3. hist'.grace = hist.grace /\ hist.torn \subseteq hist'.torn
  <2>1. CASE hist' = hist
    BY <2>1
  <2>2. CASE hist' = [hist EXCEPT !.moved = hist.moved \cup {a}, !.leaked = hist.leaked \ {i}]
    BY <1>1, <2>2 DEF Histories
  <2>3. QED BY <2>1, <2>2 DEF reconcileContainer
<1>4. CASE row' = row
  BY <1>1, <1>3, <1>4, QuietCalm, DueStays
<1>5. CASE row' = [row EXCEPT ![a] = adopted(row[a], i)]
  <2>1. PICK d : d = adopted(row[a], i)
    OBVIOUS
  <2>2. PICK t : t = IF ctr[i].st = "running" THEN "RUNNING" ELSE "STOPPED"
    OBVIOUS
  <2>3. t \notin {"NONE", "QUARANTINED"} /\ row[a] \in Documents
    BY <1>1, <1>2, <2>2
  <2>4. \/ d = [None EXCEPT !.st = t, !.reps = <<i>>]
        \/ d = [row[a] EXCEPT !.st = t, !.reps = Append(row[a].reps, i)]
    BY <2>1, <2>2 DEF adopted
  <2>5. d.st = t
    BY <2>3, <2>4 DEF None, Documents
  <2>6. row' = [row EXCEPT ![a] = d]
    BY <1>5, <2>1
  <2> HIDE DEF a
  <2>7. Calm
    BY <1>1, <1>2, <1>3, <2>3, <2>5, <2>6, WriteCalm DEF CoreInv
  <2>8. QED BY <1>1, <1>3, <2>7, DueStays
<1>6. QED BY <1>4, <1>5 DEF reconcileContainer

\* Every step keeps the clocks right.
LEMMA DueKept ==
    ASSUME BooksInv, DueInv, [Next]_vars
    PROVE  DueInv'
<1>1. CoreInv /\ hist \in Histories
  BY DEF BooksInv, CoreInv, TypeOK
<1>2. CASE Working
  BY <1>2, LockedDue, UnlockedDue, TickDue, ReapedDue, OneAppDue DEF Working
<1>3. CASE Around
  <2>1. row' = row /\ req' = req /\ hist'.torn = hist.torn /\ hist'.grace = hist.grace
    BY <1>1, <1>3 DEF Around, upsert, setStatus, reconcileUnanswered, serve, vars, Histories
  <2>2. QED BY <1>1, <2>1, QuietCalm, DueStays
<1>4. CASE \E a \in Apps : graceExpires(a)
  BY <1>4, GraceDue
<1>5. CASE crash
  <2>1. row' = row /\ req'["reaper"].todo = {}
    BY <1>5, Names DEF crash, Rest
  <2>2. hist'.grace = hist.grace /\ hist.torn \subseteq hist'.torn
    BY <1>1, <1>5 DEF crash, Histories
  <2>3. QED BY <1>1, <2>1, <2>2, QuietCalm, DueStays
<1>6. CASE \E i \in Ids : reconcileContainer(i)
  BY <1>6, ReconcileDue
<1>7. QED BY <1>2, <1>3, <1>4, <1>5, <1>6, NextSplits

\* The clocks, in every state.
LEMMA DueHolds == Spec => [](BooksInv /\ DueInv)
<1>1. Init => BooksInv /\ DueInv
  <2>1. ASSUME Init PROVE DueInv
    <3>1. req["reaper"].todo = {} /\ \A a \in Apps : row[a].st = "NONE"
      BY <2>1, Names DEF Init, Rest, None
    <3>2. QED BY <3>1 DEF DueInv
  <2>2. QED BY <2>1, BooksStart
<1>2. BooksInv /\ DueInv /\ [Next]_vars => (BooksInv /\ DueInv)'
  BY BooksKept, DueKept
<1>3. QED BY <1>1, <1>2, PTL DEF Spec

\* The reaper destroys an app only when the grace window after its last revocation
\* has passed, or when it was revoked once more while the tick ran; never one that
\* was taken out of quarantine (reapQuarantined's claim against quarantine's clock).
THEOREM ReapsAreDue == Spec => ReapIsDue
<1> DEFINE r == req'["reaper"]
<1>1. ASSUME BooksInv, DueInv, [Next]_vars, req["reaper"].pc = "next", r.pc = "agents"
      PROVE  hist.grace[r.app] = "over" \/ (hist.grace[r.app] = "running" /\ r.app \in hist.torn)
  <2>1. /\ CoreInv /\ req \in [Procs -> Requests] /\ "reaper" \in Procs /\ r # req["reaper"]
        /\ req["reaper"] \in Requests
    BY <1>1, Names DEF BooksInv, CoreInv, TypeOK
  <2>2. CASE Working
    <3>1. CASE \E c \in Clients : (Locked(c) \/ Unlocked(c)) /\ ~upsert(c)
      BY <2>1, <3>1, LockedStep, UnlockedStep, ReaperAlone
    <3>2. CASE reaperTick
      BY <1>1, <3>2 DEF reaperTick, Rest
    <3>3. CASE nextReaped
      <4>1. CASE \E a \in req["reaper"].todo :
                   /\ row[a].st = "QUARANTINED"
                   /\ req' = [req EXCEPT !["reaper"] = [req["reaper"] EXCEPT !.app = a,
                                   !.todo = @ \ {a}, !.pc = "agents", !.snap = Snap({a})]]
        <5>1. PICK a \in req["reaper"].todo :
                   /\ row[a].st = "QUARANTINED"
                   /\ req' = [req EXCEPT !["reaper"] = [req["reaper"] EXCEPT !.app = a,
                                   !.todo = @ \ {a}, !.pc = "agents", !.snap = Snap({a})]]
          BY <4>1
        <5>2. r.app = a
          BY <2>1, <5>1 DEF Requests
        <5>3. QED BY <1>1, <5>1, <5>2 DEF DueInv
      <4>2. CASE \E a : Skip("reaper", a)
        BY <1>1, <2>1, <4>2 DEF Skip, Requests
      <4>3. CASE End("reaper")
        BY <1>1, <2>1, <4>3 DEF End, Rest
      <4>4. QED BY <3>3, <4>1, <4>2, <4>3 DEF nextReaped, Claims
    <3>4. CASE \E c \in Procs : OneApp(c)
      <4>1. PICK c \in Procs : OneApp(c)
        BY <3>4
      <4>2. CASE c = "reaper"
        BY <1>1, <4>1, <4>2 DEF OneApp, askAgents, removeRoute, writeRemoved, recordUnlocked
      <4>3. CASE c # "reaper"
        BY <2>1, <4>1, <4>3, OneAppStep DEF Step, Frame
      <4>4. QED BY <4>2, <4>3
    <3>5. QED BY <2>2, <3>1, <3>2, <3>3, <3>4 DEF Working
  <2>3. CASE Around
    BY <2>1, <2>3 DEF Around, upsert, setStatus, reconcileUnanswered, serve, vars
  <2>4. CASE \E a \in Apps : graceExpires(a)
    BY <2>1, <2>4 DEF graceExpires
  <2>5. CASE crash
    BY <1>1, <2>1, <2>5 DEF crash, Rest
  <2>6. CASE \E i \in Ids : reconcileContainer(i)
    BY <2>1, <2>6 DEF reconcileContainer
  <2>7. QED BY <1>1, <2>2, <2>3, <2>4, <2>5, <2>6, NextSplits
<1>2. BooksInv /\ DueInv /\ [Next]_vars =>
        [LET q == req'["reaper"]
         IN  req["reaper"].pc = "next" /\ q.pc = "agents" =>
                \/ hist.grace[q.app] = "over"
                \/ hist.grace[q.app] = "running" /\ q.app \in hist.torn]_vars
  BY <1>1
<1>3. QED BY <1>2, DueHolds, PTL DEF ReapIsDue, Spec

-----------------------------------------------------------------------------
(* What becomes of the containers                                          *)

Gone(s) == \A i \in Listed(s) : ~Exists(i)

\* No container is created, and none comes back.
Wanes == \A i \in Ids : Exists(i)' => Exists(i) /\ ctr'[i].app = ctr[i].app

\* A container that is there belongs to an app.
LEMMA OfAnApp ==
    ASSUME TypeOK, NEW i \in Ids, Exists(i)
    PROVE  ctr[i].app \in Apps /\ ctr[i].st # "unused"
BY DEF TypeOK, Containers, Absent, Exists

\* Where none is created, ageing is waning.
LEMMA AgesWane ==
    ASSUME TypeOK, Ages, \A i \in Ids : Exists(i)' => Exists(i)
    PROVE  Wanes
BY OfAnApp DEF Ages, Wanes

\* Containers that do not change age and wane.
LEMMA SameWanes ==
    ASSUME ctr' = ctr
    PROVE  Wanes /\ Ages
BY DEF Wanes, Ages, Exists

\* What is gone stays gone.
LEMMA StaysGone ==
    ASSUME Ages, NEW s, Gone(s), \A i \in Listed(s) : i \in Ids /\ ctr[i].st # "unused"
    PROVE  \A i \in Listed(s) : ~Exists(i)'
BY DEF Ages, Gone

\* A placement creates at most one container: the answer lists it, or it is leaked.
LEMMA PlacingEffect ==
    ASSUME CoreInv, NEW c \in Clients, deployToNodes(c) \/ deployMcpToNodes(c) \/ deploySecond(c)
    PROVE  /\ req[c].op \in Placers /\ req[c].pc = "place" /\ row' = row
           /\ \/ ctr' = ctr /\ NotPlaced(c) /\ hist' = hist
              \/ \E i \in Ids :
                   /\ ctr[i].st = "unused" /\ ctr'[i].app = req[c].app
                   /\ \A j \in Ids \ {i} : ctr'[j] = ctr[j]
                   /\ \/ Placed(c, "ingress") /\ i = Fresh
                      \/ Placed(c, "row") /\ i = Fresh
                      \/ /\ NotPlaced(c)
                         /\ hist.leaked \subseteq hist'.leaked
                         /\ i \in hist'.leaked
<1> DEFINE r == req[c]
<1>1. /\ r.op \in Placers /\ r.pc = "place" /\ row' = row
      /\ \E i \in Ids : ctr[i].st = "unused"
      /\ Placed(c, "ingress") \/ Placed(c, "row") \/ NotPlaced(c)
  BY DEF deployToNodes, deployMcpToNodes, deploySecond, Placing, Placers
<1>2. /\ Fresh \in Ids /\ ctr[Fresh].st = "unused" /\ ctr \in [Ids -> Containers] /\ hist \in Histories
  BY <1>1, FreshIsUnused DEF CoreInv, TypeOK
<1>3. ASSUME ctr' = [ctr EXCEPT ![Fresh] = [app |-> r.app, node |-> Head(r.plan), st |-> "running"]]
      PROVE  ctr'[Fresh].app = r.app /\ \A j \in Ids \ {Fresh} : ctr'[j] = ctr[j]
  BY <1>2, <1>3
<1>4. CASE Placed(c, "ingress") \/ Placed(c, "row")
  BY <1>1, <1>2, <1>3, <1>4 DEF Placed
<1>5. CASE NotPlaced(c) /\ ctr' = ctr /\ hist' = hist
  BY <1>1, <1>2, <1>5
<1>6. CASE /\ NotPlaced(c)
           /\ ctr' = [ctr EXCEPT ![Fresh] = [app |-> r.app, node |-> Head(r.plan), st |-> "running"]]
           /\ hist' = [hist EXCEPT !.leaked = hist.leaked \cup {Fresh}]
  <2>1. hist.leaked \subseteq hist'.leaked /\ Fresh \in hist'.leaked
    BY <1>2, <1>6 DEF Histories
  <2>2. QED BY <1>1, <1>2, <1>3, <1>6, <2>1
<1>7. QED BY <1>1, <1>4, <1>5, <1>6 DEF NotPlaced

\* The agents are asked about containers that were created; what the reaper or a
\* removal goes on from is gone.
LEMMA AskEffect ==
    ASSUME CoreInv, NEW c \in Procs, askAgents(c)
    PROVE  /\ Ages /\ Wanes /\ row' = row /\ req[c].pc = "agents" /\ req[c].app \in Apps
           /\ \/ /\ Goto(c, AfterAgents(req[c].op)) /\ hist' = hist
                 /\ req[c].op \in {"remove", "reap"} =>
                      \A i \in Listed(req[c].snap[req[c].app]) : ~Exists(i)'
              \/ Failed(c) /\ hist'.leaked = hist.leaked
<1> DEFINE r == req[c]  ids == Listed(r.snap[r.app])
<1>1. /\ r \in Requests /\ RequestOK(r) /\ hist \in Histories /\ TypeOK
  BY DEF CoreInv, TypeOK, ReqInv
<1>2. r.pc = "agents" /\ row' = row
  BY DEF askAgents
<1>3. r.op \in Verbs \cup Loops \cup {"remove", "unquarantine"} /\ r.app \in Apps
  BY <1>1, <1>2 DEF RequestOK, Requests, Ops, Holders, Placers, Verbs, Loops, Rest
<1>4. PICK bad \in SUBSET ids, hit \in SUBSET ids :
        /\ ctr' = Asked(Verb(r.op), ids, bad, hit)
        /\ \/ /\ r.op = "revoke" \/ assertResponses(ids, bad, r.op = "reap")
              /\ Goto(c, AfterAgents(r.op)) /\ hist' = hist
           \/ /\ Failed(c)
              /\ hist' = IF r.op = "unquarantine"
                         THEN [hist EXCEPT !.torn = @ \cup {r.app}] ELSE hist
  BY Zenon DEF askAgents
<1>5. ids \in SUBSET Ids /\ \A i \in ids : ctr[i].st # "unused"
  BY <1>1, <1>3, ListsAreIds DEF CoreInv, UsedInv, UsedIn, Known
<1>6. /\ Verb(r.op) \in {"start", "stop", "redeploy", "delete"}
      /\ r.op \in {"remove", "reap"} => Verb(r.op) = "delete"
  BY <1>3 DEF Verb, Verbs, Loops
<1>7. /\ Ages /\ \A i \in Ids : Exists(i)' => Exists(i)
      /\ Verb(r.op) = "delete" => \A i \in ids \ bad : ~Exists(i)'
  <2>1. PICK v : v = Verb(r.op)
    OBVIOUS
  <2>2. ctr' = Asked(v, ids, bad, hit)
    BY <1>4, <2>1
  <2> HIDE DEF ids, r
  <2>3. /\ Ages /\ \A i \in Ids : Exists(i)' => Exists(i)
        /\ v = "delete" => \A i \in ids \ bad : ~Exists(i)'
    <3>1. v \in {"start", "stop", "redeploy", "delete"}
      BY <1>6, <2>1
    <3>2. QED BY <1>5, <2>2, <3>1, AskedAges
  <2>4. QED BY <2>1, <2>3
<1>8. Wanes
  BY <1>1, <1>7, AgesWane
<1>9. assertResponses(ids, bad, r.op = "reap") => bad = {}
  BY DEF assertResponses
<1>10. CASE (r.op = "revoke" \/ assertResponses(ids, bad, r.op = "reap")) /\ Goto(c, AfterAgents(r.op))
            /\ hist' = hist
  BY <1>2, <1>3, <1>6, <1>7, <1>8, <1>9, <1>10
<1>11. CASE Failed(c) /\ hist' = IF r.op = "unquarantine"
                                 THEN [hist EXCEPT !.torn = @ \cup {r.app}] ELSE hist
  <2>1. hist'.leaked = hist.leaked
    BY <1>1, <1>11 DEF Histories
  <2>2. QED BY <1>2, <1>3, <1>7, <1>8, <1>11, <2>1
<1>12. QED BY <1>4, <1>10, <1>11

\* Undoing a deployment removes what it made, or what is left is leaked.
LEMMA CompensateEffect ==
    ASSUME CoreInv, NEW c \in Clients, compensate(c)
    PROVE  /\ Ages /\ Wanes /\ row' = row /\ req[c].op \in {"deploy", "install"}
           /\ hist.leaked \subseteq hist'.leaked
           /\ \A i \in Listed(req[c].made) : Exists(i)' => i \in hist'.leaked
<1> DEFINE r == req[c]  ids == Listed(r.made)
<1>1. /\ c \in Procs /\ r \in Requests /\ RequestOK(r) /\ hist \in Histories /\ TypeOK
  BY Names DEF CoreInv, TypeOK, ReqInv
<1>2. r.op \in {"deploy", "install"} /\ row' = row
  BY <1>1 DEF compensate, RequestOK
<1>3. PICK bad \in SUBSET ids :
        /\ ctr' = Asked("delete", ids, bad, {})
        /\ hist' = [hist EXCEPT !.leaked = hist.leaked \cup bad]
  BY DEF compensate
<1>4. ids \in SUBSET Ids /\ \A i \in ids : ctr[i].st # "unused"
  BY <1>1, ListsAreIds DEF CoreInv, UsedInv, UsedIn, Known
<1>5. Ages /\ (\A i \in Ids : Exists(i)' => Exists(i)) /\ \A i \in ids \ bad : ~Exists(i)'
  <2> HIDE DEF ids
  <2>1. PICK hit : hit = {}
    OBVIOUS
  <2>2. ctr' = Asked("delete", ids, bad, hit) /\ hit \subseteq ids
    BY <1>3, <2>1
  <2>3. QED BY <1>4, <2>2, AskedAges
<1>6. hist'.leaked = hist.leaked \cup bad
  BY <1>1, <1>3 DEF Histories
<1>7. QED BY <1>1, <1>2, <1>5, <1>6, AgesWane

\* Shrinking removes all replicas but the first before it goes on.
LEMMA ShrinkEffect ==
    ASSUME CoreInv, NEW c \in Clients, shrink(c)
    PROVE  /\ Ages /\ Wanes /\ row' = row /\ hist' = hist /\ req[c].op = "tierDown"
           /\ req[c].pc = "shrink"
           /\ \/ Goto(c, "ingress") /\ \A i \in Listed(Tail(req[c].snap[req[c].app])) : ~Exists(i)'
              \/ End(c)
<1> DEFINE r == req[c]  ids == Listed(Tail(r.snap[r.app]))
<1>1. /\ c \in Procs /\ r \in Requests /\ RequestOK(r) /\ TypeOK
  BY Names DEF CoreInv, TypeOK, ReqInv
<1>2. r.pc = "shrink" /\ r.op = "tierDown" /\ row' = row /\ hist' = hist
  BY <1>1 DEF shrink, RequestOK
<1>3. PICK bad \in SUBSET ids, hit \in SUBSET ids :
        /\ ctr' = Asked("delete", ids, bad, hit)
        /\ (Goto(c, "ingress") /\ assertResponses(ids, bad, TRUE)) \/ End(c)
  BY Zenon DEF shrink
<1>4. ids \in SUBSET Ids /\ \A i \in ids : ctr[i].st # "unused"
  <2>1. r.app \in Apps /\ r.snap[r.app] # <<>> /\ r.snap[r.app] \in Seq(Ids)
    BY <1>1, <1>2 DEF RequestOK, Requests, Loops
  <2>2. ids \subseteq Listed(r.snap[r.app])
    BY <2>1, ListedHead
  <2>3. QED BY <1>1, <2>1, <2>2, ListsAreIds DEF CoreInv, UsedInv, UsedIn, Known
<1>5. Ages /\ (\A i \in Ids : Exists(i)' => Exists(i)) /\ \A i \in ids \ bad : ~Exists(i)'
  BY <1>3, <1>4, AskedAges
<1>6. assertResponses(ids, bad, TRUE) => bad = {}
  BY DEF assertResponses
<1>7. Wanes
  BY <1>1, <1>5, AgesWane
<1>8. QED BY <1>2, <1>3, <1>5, <1>6, <1>7

-----------------------------------------------------------------------------
(* A removed app leaves nothing behind                                     *)

\* A removal or the reaper, between the agents' answer and the document.
Retires(r, a) == r.op \in {"remove", "reap"} /\ r.pc \in {"ingress", "row"} /\ r.app = a

GoneInv ==
    \A a \in Apps \ Excused :
        row[a].st = "REMOVED" \/ (\E c \in Procs : Retires(req[c], a)) => Gone(row[a].reps)

\* No document becomes REMOVED.
RowsLive == \A a \in Apps : row'[a].st = "REMOVED" => row'[a] = row[a]

\* What was gone before a step of c stays gone; c has to show it only for the apps
\* it is at.
LEMMA GoneFrom ==
    ASSUME BooksInv, GoneInv, NEW c \in Procs, Step(c), Ages,
           \A a \in Apps \ Excused' :
               /\ a \in Touches(req[c]) \/ a \in Touches(req[c])'
               /\ row'[a].st = "REMOVED" \/ Retires(req'[c], a)
               => \A i \in Listed(row'[a].reps) : ~Exists(i)'
    PROVE  GoneInv'
<1>1. /\ CoreInv /\ OverlapInv /\ OverlapInv' /\ Frame(c)
  BY OverlapKept DEF BooksInv, Step
<1>2. SUFFICES ASSUME NEW a \in Apps \ Excused',
                      row'[a].st = "REMOVED" \/ \E d \in Procs : Retires(req'[d], a)
               PROVE  \A i \in Listed(row'[a].reps) : ~Exists(i)'
  BY DEF GoneInv, Gone, Retires
<1>3. a \notin Excused /\ a \notin hist'.torn
  BY <1>1 DEF Excused, Frame
<1>4. \A d \in Procs : Retires(req'[d], a) => a \in Touches(req[d])'
  BY DEF Retires, Touches
<1>5. \A d \in Procs \ {c} : req'[d] = req[d] /\ Touches(req[d])' = Touches(req[d])
  BY <1>1 DEF Frame, Touches
<1>6. CASE a \in Touches(req[c]) \/ a \in Touches(req[c])'
  <2>1. \A d \in Procs \ {c} : ~Retires(req'[d], a)
    <3> SUFFICES ASSUME NEW d \in Procs \ {c}, Retires(req'[d], a)
                 PROVE  FALSE
      OBVIOUS
    <3>1. a \in Touches(req[d])' /\ a \in Touches(req[d]) /\ a \notin hist.torn
      BY <1>1, <1>3, <1>4, <1>5 DEF Frame
    <3>2. CASE a \in Touches(req[c])
      BY <1>1, <3>1, <3>2 DEF OverlapInv
    <3>3. CASE a \in Touches(req[c])'
      BY <1>1, <1>3, <3>1, <3>3 DEF OverlapInv
    <3>4. QED BY <1>6, <3>2, <3>3
  <2>2. QED BY <1>2, <1>6, <2>1
<1>7. CASE a \notin Touches(req[c]) /\ a \notin Touches(req[c])'
  <2>1. row'[a] = row[a] /\ ~Retires(req'[c], a)
    BY <1>1, <1>4, <1>7 DEF Frame
  <2>2. Gone(row[a].reps)
    BY <1>2, <1>3, <1>5, <2>1 DEF GoneInv
  <2>3. \A i \in Listed(row[a].reps) : i \in Ids /\ ctr[i].st # "unused"
    BY <1>1, ListsAreIds DEF CoreInv, UsedInv
  <2>4. QED BY <2>1, <2>2, <2>3, StaysGone
<1>8. QED BY <1>6, <1>7

\* A step that retires no app and makes no document REMOVED.
LEMMA GoneEasy ==
    ASSUME BooksInv, GoneInv, NEW c \in Procs, Step(c), Ages, RowsLive,
           \A a \in Apps : Retires(req'[c], a) => Retires(req[c], a) /\ row'[a] = row[a]
    PROVE  GoneInv'
<1>1. ASSUME NEW a \in Apps \ Excused', row'[a].st = "REMOVED" \/ Retires(req'[c], a)
      PROVE  \A i \in Listed(row'[a].reps) : ~Exists(i)'
  <2>1. a \notin Excused
    BY DEF Excused, Step, Frame
  <2>2. row'[a] = row[a] /\ Gone(row[a].reps)
    BY <1>1, <2>1 DEF RowsLive, GoneInv
  <2>3. \A i \in Listed(row[a].reps) : i \in Ids /\ ctr[i].st # "unused"
    BY ListsAreIds DEF BooksInv, CoreInv, UsedInv
  <2>4. QED BY <2>2, <2>3, StaysGone
<1>2. QED BY <1>1, GoneFrom

\* A document that is written with another state than REMOVED.
LEMMA LiveWrite ==
    ASSUME TypeOK, NEW a \in Apps, NEW d, row' = [row EXCEPT ![a] = d], d.st # "REMOVED"
    PROVE  RowsLive
BY DEF RowsLive, TypeOK

\* Where no document changes, none becomes REMOVED.
LEMMA SameLives ==
    ASSUME row' = row
    PROVE  RowsLive
BY DEF RowsLive

\* A request that ends or moves on within its operation retires nothing new.
LEMMA NoRetire ==
    ASSUME CoreInv, NEW c \in Procs,
           \/ End(c)
           \/ req[c].op \notin {"remove", "reap"} /\ ((\E p : Goto(c, p)) \/ Done(c))
           \/ Done(c)
           \/ \E p : p \notin {"ingress", "row"} /\ Goto(c, p)
    PROVE  \A a \in Apps : ~Retires(req'[c], a)
<1>1. req \in [Procs -> Requests]
  BY DEF CoreInv, TypeOK
<1>2. CASE End(c)
  BY <1>1, <1>2 DEF End, Rest, Retires
<1>3. CASE \E p : (p \notin {"ingress", "row"} \/ req[c].op \notin {"remove", "reap"}) /\ Goto(c, p)
  <2>1. PICK p : (p \notin {"ingress", "row"} \/ req[c].op \notin {"remove", "reap"}) /\ Goto(c, p)
    BY <1>3
  <2>2. req'[c].op = req[c].op /\ req'[c].pc = p
    BY <1>1, <2>1 DEF Goto, Requests
  <2>3. QED BY <2>1, <2>2 DEF Retires
<1>4. CASE Done(c)
  <2>1. CASE req' = [req EXCEPT ![c] = [req[c] EXCEPT !.pc = "next", !.app = "none"]]
    BY <1>1, <2>1 DEF Requests, Retires
  <2>2. QED BY <1>2, <1>4, <2>1 DEF Done
<1>5. QED BY <1>2, <1>3, <1>4

\* The requests that hold the lock remove no app.
LEMMA LockedGone ==
    ASSUME BooksInv, GoneInv, NEW c \in Clients, Locked(c)
    PROVE  GoneInv'
<1>1. /\ CoreInv /\ TypeOK /\ hist \in Histories /\ c \in Procs /\ RequestOK(req[c])
      /\ req \in [Procs -> Requests] /\ row \in [Apps -> Documents]
  BY Names DEF BooksInv, CoreInv, TypeOK, ReqInv
<1>2. Step(c)
  BY <1>1, LockedStep
<1>3. Ages /\ RowsLive /\ (\A a \in Apps : ~Retires(req'[c], a)) => GoneInv'
  BY <1>1, <1>2, GoneEasy
<1>4. CASE \/ \E a \in Apps, k \in {1, 2} : deploy(c, a, k) \/ deployMcp(c, a, k)
           \/ \E a \in Apps, t \in {"single", "ha"} : changeAvailabilityTier(c, a, t)
           \/ \E a \in Apps : activateMcp(c, a)
  <2>1. /\ row' = row /\ ctr' = ctr
        /\ \E s : req' = [req EXCEPT ![c] = s] /\ s.op \notin {"remove", "reap"}
    <3>1. CASE \E a \in Apps, k \in {1, 2} : deploy(c, a, k) \/ deployMcp(c, a, k)
      <4>1. PICK a \in Apps, k \in {1, 2}, op \in {"deploy", "install"} : Begin(c, a, k, op)
        BY <3>1 DEF deploy, deployMcp
      <4>2. PICK sel : req' = [req EXCEPT ![c] = [Rest EXCEPT !.op = op, !.app = a, !.pc = "place",
                                                              !.plan = sel]]
        BY <4>1 DEF Begin
      <4>3. PICK s : s = [Rest EXCEPT !.op = op, !.app = a, !.pc = "place", !.plan = sel]
        OBVIOUS
      <4>4. s.op = op /\ req' = [req EXCEPT ![c] = s]
        BY <4>2, <4>3 DEF Rest
      <4>5. QED BY <4>1, <4>4 DEF Begin
    <3>2. CASE \E a \in Apps, t \in {"single", "ha"} : changeAvailabilityTier(c, a, t)
      <4>1. PICK a \in Apps, t \in {"single", "ha"} : changeAvailabilityTier(c, a, t)
        BY <3>2
      <4>2. \/ \E sel : req' = [req EXCEPT ![c] = [Rest EXCEPT
                                   !.op = "tierUp", !.app = a, !.pc = "place", !.plan = sel,
                                   !.snap = Snap({a})]]
            \/ req' = [req EXCEPT ![c] = [Rest EXCEPT
                             !.op = "tierDown", !.app = a, !.pc = "shrink",
                             !.snap = Snap({a})]]
        BY <4>1 DEF changeAvailabilityTier
      <4>3. \E s : req' = [req EXCEPT ![c] = s] /\ s.op \in {"tierUp", "tierDown"}
        <5>1. PICK s : \/ \E sel : s = [Rest EXCEPT !.op = "tierUp", !.app = a, !.pc = "place",
                                                    !.plan = sel, !.snap = Snap({a})]
                                   /\ req' = [req EXCEPT ![c] = s]
                       \/ /\ s = [Rest EXCEPT !.op = "tierDown", !.app = a, !.pc = "shrink",
                                              !.snap = Snap({a})]
                          /\ req' = [req EXCEPT ![c] = s]
          BY <4>2
        <5>2. s.op \in {"tierUp", "tierDown"}
          BY <5>1 DEF Rest
        <5>3. QED BY <5>1, <5>2
      <4>4. QED BY <4>1, <4>3 DEF changeAvailabilityTier
    <3>3. CASE \E a \in Apps : activateMcp(c, a)
      <4>1. PICK a \in Apps : activateMcp(c, a)
        BY <3>3
      <4>2. PICK s : s = [Rest EXCEPT !.op = "activate", !.app = a, !.pc = "ingress", !.snap = Snap({a})]
        OBVIOUS
      <4>3. s.op = "activate" /\ req' = [req EXCEPT ![c] = s]
        BY <4>1, <4>2 DEF activateMcp, Rest
      <4>4. QED BY <4>1, <4>3 DEF activateMcp
    <3>4. QED BY <1>4, <3>1, <3>2, <3>3
  <2>2. \A a \in Apps : ~Retires(req'[c], a)
    BY <1>1, <2>1 DEF Retires
  <2>3. QED BY <1>3, <2>1, <2>2, SameWanes, SameLives
<1>5. CASE deployToNodes(c) \/ deployMcpToNodes(c) \/ deploySecond(c)
  <2>1. Ages /\ row' = row
    BY <1>1, <1>5, PlacingEffect DEF Ages, Exists
  <2>2. req[c].op \in Placers /\ (End(c) \/ (\E p : Goto(c, p)) \/ req'[c].op = req[c].op)
    BY <1>1, <1>5 DEF deployToNodes, deployMcpToNodes, deploySecond, Placing, Placed, Placers, Requests
  <2>3. \A a \in Apps : ~Retires(req'[c], a)
    BY <1>1, <2>2, NoRetire DEF Placers, Retires
  <2>4. QED BY <1>3, <2>1, <2>3, SameLives
<1>6. CASE compensate(c)
  <2>1. End(c)
    BY <1>6 DEF compensate
  <2>2. QED BY <1>1, <1>3, <1>6, <2>1, CompensateEffect, NoRetire, SameLives
<1>7. CASE shrink(c)
  <2>1. Ages /\ row' = row /\ req[c].op = "tierDown" /\ (End(c) \/ Goto(c, "ingress"))
    BY <1>1, <1>7, ShrinkEffect
  <2>2. \A a \in Apps : ~Retires(req'[c], a)
    BY <1>1, <2>1, NoRetire
  <2>3. QED BY <1>3, <2>1, <2>2, SameLives
<1>8. CASE programRoute(c) \/ recordLocked(c)
  <2>1. /\ row' = row /\ ctr' = ctr /\ req[c].op \notin {"remove", "reap"}
        /\ End(c) \/ \E p : Goto(c, p)
    BY <1>8 DEF programRoute, recordLocked
  <2>2. \A a \in Apps : ~Retires(req'[c], a)
    BY <1>1, <2>1, NoRetire
  <2>3. QED BY <1>3, <2>1, <2>2, SameWanes, SameLives
<1>9. CASE insertApp(c)
  <2> DEFINE r == req[c]
  <2>1. r.app \in Apps /\ ctr' = ctr /\ r.op \notin {"remove", "reap"} /\ (End(c) \/ \E p : Goto(c, p))
    BY <1>1, <1>9 DEF insertApp, RequestOK, Loops
  <2>2. PICK d : d = IF r.op = "deploy" THEN RawApp(r.made) ELSE McpApp(r.made)
    OBVIOUS
  <2>3. d.st # "REMOVED"
    BY <2>2 DEF RawApp, McpApp, None
  <2>4. row' = row \/ row' = [row EXCEPT ![r.app] = d]
    BY <1>9, <2>2 DEF insertApp
  <2> HIDE DEF r
  <2>5. RowsLive
    BY <1>1, <2>1, <2>3, <2>4, LiveWrite, SameLives
  <2>6. \A a \in Apps : ~Retires(req'[c], a)
    BY <1>1, <2>1, NoRetire DEF r
  <2>7. QED BY <1>3, <2>1, <2>5, <2>6, SameWanes
<1>10. CASE flipActivated(c)
  <2> DEFINE r == req[c]
  <2>1. r.app \in Apps /\ ctr' = ctr /\ r.op \notin {"remove", "reap"} /\ (End(c) \/ \E p : Goto(c, p))
    BY <1>1, <1>10 DEF flipActivated, RequestOK, Loops
  <2>2. PICK d : d = [row[r.app] EXCEPT !.st = "RUNNING"]
    OBVIOUS
  <2>3. d.st # "REMOVED"
    BY <1>1, <2>1, <2>2 DEF Documents
  <2>4. row' = row \/ row' = [row EXCEPT ![r.app] = d]
    BY <1>1, <1>10, <2>1, <2>2 DEF flipActivated
  <2> HIDE DEF r
  <2>5. RowsLive
    BY <1>1, <2>1, <2>3, <2>4, LiveWrite, SameLives
  <2>6. \A a \in Apps : ~Retires(req'[c], a)
    BY <1>1, <2>1, NoRetire DEF r
  <2>7. QED BY <1>3, <2>1, <2>5, <2>6, SameWanes
<1>11. CASE writeTier(c)
  <2> DEFINE r == req[c]  a == r.app
  <2>1. /\ a \in Apps /\ ctr' = ctr /\ r.op \in {"tierUp", "tierDown"} /\ Goto(c, "events")
        /\ r.todo = {} /\ hist' = hist
    BY <1>1, <1>11 DEF writeTier, RequestOK, Loops
  <2>2. PICK d : d = IF r.op = "tierUp"
                     THEN [row[a] EXCEPT !.tier = "ha", !.reps = row[a].reps \o r.made]
                     ELSE [row[a] EXCEPT !.tier = "single", !.reps = <<Head(r.snap[a])>>]
    OBVIOUS
  <2>3. row' = [row EXCEPT ![a] = d] /\ d.st = row[a].st
    <3>1. row[a] \in Documents
      BY <1>1, <2>1
    <3>2. QED BY <1>11, <2>2, <3>1 DEF writeTier, Documents
  <2>4. row'[a] = d /\ \A b \in Apps \ {a} : row'[b] = row[b]
    BY <1>1, <2>1, <2>3
  <2>5. \A b \in Apps : ~Retires(req'[c], b)
    BY <1>1, <2>1, NoRetire
  <2>6. a \notin Excused => row[a].st = "RUNNING"
    <3>1. a \in Touches(r)
      BY <2>1 DEF Touches
    <3>2. a \notin Excused => Phase(r, a, row[a], open[a], a \in hist.held)
      BY <1>1, <2>1, <3>1 DEF BooksInv, AccountInv, Account
    <3>3. QED BY <2>1, <3>2 DEF Phase, Resizing
  <2>7. \A b \in Apps \ Excused' : b \in Touches(r) \/ b \in Touches(req[c])' => b = a
    <3>1. req'[c].op = r.op /\ req'[c].app = a /\ req'[c].todo = {}
      BY <1>1, <2>1 DEF Goto, Requests
    <3>2. QED BY <2>1, <3>1 DEF Touches
  <2>8. Excused' = Excused
    BY <2>1 DEF Excused
  <2>9. Ages
    BY <2>1, SameWanes
  <2>10. \A b \in Apps \ Excused' :
             /\ b \in Touches(r) \/ b \in Touches(req[c])'
             /\ row'[b].st = "REMOVED" \/ Retires(req'[c], b)
             => \A i \in Listed(row'[b].reps) : ~Exists(i)'
    BY <2>3, <2>4, <2>5, <2>6, <2>7, <2>8
  <2>11. QED BY <1>1, <1>2, <2>9, <2>10, GoneFrom
<1>12. QED BY <1>4, <1>5, <1>6, <1>7, <1>8, <1>9, <1>10, <1>11 DEF Locked

\* Those that take no lock ask the agents before they retire an app.
LEMMA UnlockedGone ==
    ASSUME BooksInv, GoneInv, NEW c \in Clients, Unlocked(c), ~upsert(c)
    PROVE  GoneInv'
<1>1. /\ CoreInv /\ TypeOK /\ hist \in Histories /\ c \in Procs /\ RequestOK(req[c])
      /\ req \in [Procs -> Requests] /\ row \in [Apps -> Documents]
  BY Names DEF BooksInv, CoreInv, TypeOK, ReqInv
<1>2. Step(c)
  BY <1>1, UnlockedStep
<1>3. Ages /\ RowsLive /\ (\A a \in Apps : ~Retires(req'[c], a)) => GoneInv'
  BY <1>1, <1>2, GoneEasy
<1>4. ctr' = ctr
  BY DEF Unlocked, invoke, redeploy, setWorkspacePower, revokeWorkspace, upsert, remove, unquarantine,
         nextPowered, nextRevoked, writeInvoked, writePowered, writeQuarantined, markRemoving
<1>5. RowsLive /\ (\A a \in Apps : ~Retires(req'[c], a)) => GoneInv'
  BY <1>3, <1>4, SameWanes
<1>6. ASSUME NEW s, req' = [req EXCEPT ![c] = s], s.pc \notin {"ingress", "row"}
      PROVE  \A a \in Apps : ~Retires(req'[c], a)
  BY <1>1, <1>6 DEF Retires
<1>7. CASE \/ \E a \in Apps, v \in {"start", "stop"} : invoke(c, a, v)
           \/ \E a \in Apps : redeploy(c, a)
  <2>1. PICK a \in Apps, v \in Verbs : invoke(c, a, v)
    BY <1>7 DEF redeploy, Verbs
  <2>2. PICK s : s = [Rest EXCEPT !.op = v, !.app = a, !.pc = "agents", !.snap = Snap({a})]
    OBVIOUS
  <2>3. req' = [req EXCEPT ![c] = s] /\ s.pc = "agents" /\ row' = row
    BY <2>1, <2>2 DEF invoke, Rest
  <2>4. QED BY <1>5, <1>6, <2>3, SameLives
<1>8. CASE \E v \in {"suspend", "resume"} : setWorkspacePower(c, v)
  <2>1. PICK v : setWorkspacePower(c, v)
    BY <1>8
  <2>2. PICK s : s = [Rest EXCEPT !.op = v, !.pc = "next", !.todo = powerTargets(v),
                                  !.snap = Snap(powerTargets(v))]
    OBVIOUS
  <2>3. req' = [req EXCEPT ![c] = s] /\ s.pc = "next" /\ row' = row
    BY <2>1, <2>2 DEF setWorkspacePower, Rest
  <2>4. QED BY <1>5, <1>6, <2>3, SameLives
<1>9. CASE revokeWorkspace(c)
  <2>1. PICK s : s = [Rest EXCEPT !.op = "revoke", !.pc = "next", !.todo = {a \in Apps : Loaded(a)}]
    OBVIOUS
  <2>2. req' = [req EXCEPT ![c] = s] /\ s.pc = "next" /\ row' = row
    BY <1>9, <2>1 DEF revokeWorkspace, Rest
  <2>3. QED BY <1>5, <1>6, <2>2, SameLives
<1>10. CASE \E a \in Apps : remove(c, a)
  <2>1. PICK a \in Apps : remove(c, a)
    BY <1>10
  <2>2. PICK s : s = [Rest EXCEPT !.op = "remove", !.app = a, !.pc = "mark", !.snap = Snap({a})]
    OBVIOUS
  <2>3. req' = [req EXCEPT ![c] = s] /\ s.pc = "mark" /\ row' = row
    BY <2>1, <2>2 DEF remove, Rest
  <2>4. QED BY <1>5, <1>6, <2>3, SameLives
<1>11. CASE \E a \in Apps : unquarantine(c, a)
  <2>1. PICK a \in Apps : unquarantine(c, a)
    BY <1>11
  <2>2. PICK s : s = [Rest EXCEPT !.op = "unquarantine", !.app = a, !.pc = "agents", !.snap = Snap({a})]
    OBVIOUS
  <2>3. req' = [req EXCEPT ![c] = s] /\ s.pc = "agents"
    BY <2>1, <2>2 DEF unquarantine, Rest
  <2>4. PICK d : d = [row[a] EXCEPT !.st = "RUNNING", !.stamp = "none"]
    OBVIOUS
  <2>5. row' = [row EXCEPT ![a] = d] /\ d.st = "RUNNING"
    BY <1>1, <2>1, <2>4 DEF unquarantine, Documents
  <2>6. RowsLive
    BY <1>1, <2>5, LiveWrite
  <2>7. QED BY <1>5, <1>6, <2>3, <2>6
<1>12. CASE nextPowered(c)
  <2>1. row' = row
    BY <1>12 DEF nextPowered
  <2>2. CASE End(c)
    BY <1>1, <1>5, <2>1, <2>2, NoRetire, SameLives
  <2>3. CASE \E a : Turn(c, a, "agents")
    <3>1. PICK a : req' = [req EXCEPT ![c] = [req[c] EXCEPT !.app = a, !.todo = @ \ {a}, !.pc = "agents"]]
      BY <2>3 DEF Turn
    <3>2. PICK s : s = [req[c] EXCEPT !.app = a, !.todo = req[c].todo \ {a}, !.pc = "agents"]
      OBVIOUS
    <3>3. req' = [req EXCEPT ![c] = s] /\ s.pc = "agents"
      BY <1>1, <3>1, <3>2 DEF Requests
    <3>4. QED BY <1>5, <1>6, <2>1, <3>3, SameLives
  <2>4. QED BY <1>12, <2>2, <2>3 DEF nextPowered
<1>13. CASE nextRevoked(c)
  <2>1. row' = row /\ req[c].op = "revoke"
    BY <1>13 DEF nextRevoked
  <2>2. \/ End(c)
        \/ \E a : Skip(c, a)
        \/ \E a : req' = [req EXCEPT ![c] = [req[c] EXCEPT !.app = a, !.todo = @ \ {a},
                                                      !.pc = "agents", !.snap = Snap({a})]]
    BY <1>13 DEF nextRevoked
  <2>3. CASE End(c)
    BY <1>1, <1>5, <2>1, <2>3, NoRetire, SameLives
  <2>4. CASE \E a : Skip(c, a)
    <3>1. req'[c].op = "revoke"
      BY <1>1, <2>1, <2>4 DEF Skip, Requests
    <3>2. QED BY <1>5, <2>1, <3>1, SameLives DEF Retires
  <2>5. CASE \E a : req' = [req EXCEPT ![c] = [req[c] EXCEPT !.app = a, !.todo = @ \ {a},
                                                      !.pc = "agents", !.snap = Snap({a})]]
    <3>1. req'[c].op = "revoke"
      BY <1>1, <2>1, <2>5 DEF Requests
    <3>2. QED BY <1>5, <2>1, <3>1, SameLives DEF Retires
  <2>6. QED BY <2>2, <2>3, <2>4, <2>5
<1>14. CASE writeInvoked(c)
  <2> DEFINE r == req[c]
  <2>1. r.app \in Apps /\ End(c)
    BY <1>1, <1>14 DEF writeInvoked, RequestOK, Loops
  <2>2. PICK t : t = IF r.op = "stop" THEN "STOPPED" ELSE "RUNNING"
    OBVIOUS
  <2>3. PICK d : d = [row[r.app] EXCEPT !.st = t]
    OBVIOUS
  <2>4. d.st # "REMOVED" /\ row' = [row EXCEPT ![r.app] = d]
    BY <1>1, <1>14, <2>1, <2>2, <2>3 DEF writeInvoked, Documents
  <2>5. \A a \in Apps : ~Retires(req'[c], a)
    BY <1>1, <2>1, NoRetire
  <2> HIDE DEF r
  <2>6. QED BY <1>1, <1>5, <2>1, <2>4, <2>5, LiveWrite
<1>15. CASE writePowered(c)
  <2> DEFINE r == req[c]
  <2>1. r.app \in Apps /\ Done(c)
    BY <1>1, <1>15 DEF writePowered, RequestOK, Loops
  <2>2. PICK t, p : t = (IF r.op = "suspend" THEN "STOPPED" ELSE "RUNNING")
                    /\ p = (IF r.op = "suspend" THEN "yes" ELSE "no")
    OBVIOUS
  <2>3. PICK d : d = [row[r.app] EXCEPT !.st = t, !.susp = p]
    OBVIOUS
  <2>4. d.st # "REMOVED" /\ row' = [row EXCEPT ![r.app] = d]
    BY <1>1, <1>15, <2>1, <2>2, <2>3 DEF writePowered, Documents
  <2>5. \A a \in Apps : ~Retires(req'[c], a)
    BY <1>1, <2>1, NoRetire
  <2> HIDE DEF r
  <2>6. QED BY <1>1, <1>5, <2>1, <2>4, <2>5, LiveWrite
<1>16. CASE writeQuarantined(c)
  <2> DEFINE r == req[c]
  <2>1. r.app \in Apps /\ Goto(c, "events")
    BY <1>1, <1>16 DEF writeQuarantined, RequestOK, Loops
  <2>2. PICK d : d = Quarantined(row[r.app])
    OBVIOUS
  <2>3. d.st # "REMOVED" /\ row' = [row EXCEPT ![r.app] = d]
    BY <1>1, <1>16, <2>1, <2>2 DEF writeQuarantined, Documents, Quarantined
  <2>4. \A a \in Apps : ~Retires(req'[c], a)
    BY <1>1, <2>1, NoRetire
  <2> HIDE DEF r
  <2>5. QED BY <1>1, <1>5, <2>1, <2>3, <2>4, LiveWrite
<1>17. CASE markRemoving(c)
  <2> DEFINE r == req[c]
  <2>1. r.app \in Apps /\ Goto(c, "agents")
    BY <1>1, <1>17 DEF markRemoving, RequestOK, Loops
  <2>2. PICK d : d = [row[r.app] EXCEPT !.st = "REMOVING"]
    OBVIOUS
  <2>3. d.st # "REMOVED" /\ row' = [row EXCEPT ![r.app] = d]
    BY <1>1, <1>17, <2>1, <2>2 DEF markRemoving, Documents
  <2>4. \A a \in Apps : ~Retires(req'[c], a)
    BY <1>1, <2>1, NoRetire
  <2> HIDE DEF r
  <2>5. QED BY <1>1, <1>5, <2>1, <2>3, <2>4, LiveWrite
<1>18. QED BY <1>7, <1>8, <1>9, <1>10, <1>11, <1>12, <1>13, <1>14, <1>15, <1>16, <1>17 DEF Unlocked

\* The reaper turns to an app, or its tick begins or ends.
LEMMA ReaperGone ==
    ASSUME BooksInv, GoneInv, reaperTick \/ nextReaped
    PROVE  GoneInv'
<1> DEFINE c == "reaper"
<1>1. /\ CoreInv /\ TypeOK /\ c \in Procs
      /\ req \in [Procs -> Requests] /\ row \in [Apps -> Documents]
  BY Names DEF BooksInv, CoreInv, TypeOK
<1>2. Step(c)
  BY <1>1, ReaperTickStep, NextReapedStep
<1>3. ctr' = ctr
  BY DEF reaperTick, nextReaped
<1>4. RowsLive /\ (\A a \in Apps : ~Retires(req'[c], a)) => GoneInv'
  BY <1>1, <1>2, <1>3, SameWanes, GoneEasy
<1>5. CASE reaperTick
  <2>1. row' = row /\ req'[c].pc = "next"
    BY <1>1, <1>5 DEF reaperTick, Rest
  <2>2. QED BY <1>4, <2>1, SameLives DEF Retires
<1>6. CASE row' = row /\ End(c)
  BY <1>1, <1>4, <1>6, NoRetire, SameLives
<1>7. CASE row' = row /\ req[c].pc = "next" /\ \E a : Skip(c, a)
  <2>1. req'[c].pc = "next"
    BY <1>1, <1>7 DEF Skip, Requests
  <2>2. QED BY <1>4, <1>7, <2>1, SameLives DEF Retires
<1>8. CASE \E a \in req[c].todo :
             /\ row' = [row EXCEPT ![a].st = "REMOVING"]
             /\ req' = [req EXCEPT ![c] = [req[c] EXCEPT !.app = a, !.todo = @ \ {a},
                                                         !.pc = "agents", !.snap = Snap({a})]]
  <2>1. PICK a \in req[c].todo :
             /\ row' = [row EXCEPT ![a].st = "REMOVING"]
             /\ req' = [req EXCEPT ![c] = [req[c] EXCEPT !.app = a, !.todo = @ \ {a},
                                                         !.pc = "agents", !.snap = Snap({a})]]
    BY <1>8
  <2>2. req'[c].pc = "agents" /\ a \in Apps
    BY <1>1, <2>1 DEF Requests
  <2>3. PICK d : d = [row[a] EXCEPT !.st = "REMOVING"]
    OBVIOUS
  <2>4. row' = [row EXCEPT ![a] = d] /\ d.st = "REMOVING"
    BY <1>1, <2>1, <2>2, <2>3 DEF Documents
  <2>5. RowsLive
    BY <1>1, <2>2, <2>4, LiveWrite
  <2>6. QED BY <1>4, <2>2, <2>5 DEF Retires
<1>9. QED BY <1>5, <1>6, <1>7, <1>8 DEF nextReaped

\* A removal goes on from the agents when all its containers are gone, and writes
\* REMOVED after that.
LEMMA OneAppGone ==
    ASSUME BooksInv, GoneInv, NEW c \in Procs, OneApp(c)
    PROVE  GoneInv'
<1> DEFINE r == req[c]
<1>1. /\ CoreInv /\ TypeOK /\ hist \in Histories /\ RequestOK(r) /\ r \in Requests
      /\ req \in [Procs -> Requests] /\ row \in [Apps -> Documents]
  BY DEF BooksInv, CoreInv, TypeOK, ReqInv
<1>2. Step(c) /\ Excused \subseteq Excused'
  BY <1>1, OneAppStep DEF Step, Frame, Excused
<1>3. Ages /\ row' = row /\ (\A a \in Apps : ~Retires(req'[c], a)) => GoneInv'
  BY <1>1, <1>2, GoneEasy, SameLives
<1>4. ASSUME NEW b \in Apps, row[b].st = "REMOVED", b \notin Excused, Ages
      PROVE  \A i \in Listed(row[b].reps) : ~Exists(i)'
  <2>1. Gone(row[b].reps)
    BY <1>4 DEF GoneInv
  <2>2. \A i \in Listed(row[b].reps) : i \in Ids /\ ctr[i].st # "unused"
    BY <1>1, ListsAreIds DEF CoreInv, UsedInv
  <2>3. QED BY <1>4, <2>1, <2>2, StaysGone
<1>5. CASE askAgents(c)
  <2>1. /\ Ages /\ row' = row /\ r.pc = "agents" /\ r.app \in Apps
        /\ \/ /\ Goto(c, AfterAgents(r.op))
              /\ r.op \in {"remove", "reap"} => \A i \in Listed(r.snap[r.app]) : ~Exists(i)'
           \/ Failed(c)
    BY <1>1, <1>5, AskEffect
  <2>2. CASE Failed(c)
    <3>1. End(c) \/ Done(c)
      BY <2>2 DEF Failed
    <3>2. QED BY <1>1, <1>3, <2>1, <3>1, NoRetire
  <2>3. CASE Goto(c, AfterAgents(r.op)) /\ r.op \notin {"remove", "reap"}
    <3>1. \A a \in Apps : ~Retires(req'[c], a)
      BY <1>1, <2>3, NoRetire
    <3>2. QED BY <1>3, <2>1, <3>1
  <2>4. CASE /\ Goto(c, AfterAgents(r.op)) /\ r.op \in {"remove", "reap"}
             /\ \A i \in Listed(r.snap[r.app]) : ~Exists(i)'
    <3>1. req'[c].app = r.app
      BY <1>1, <2>4 DEF Goto, Requests
    <3>2. ASSUME NEW a \in Apps \ Excused', row'[a].st = "REMOVED" \/ Retires(req'[c], a)
          PROVE  \A i \in Listed(row'[a].reps) : ~Exists(i)'
      <4>1. CASE row'[a].st = "REMOVED"
        BY <1>2, <1>4, <2>1, <3>2, <4>1
      <4>2. CASE Retires(req'[c], a)
        <5>1. a = r.app /\ a \in Touches(r) /\ a \notin r.todo
          BY <1>1, <2>1, <2>4, <3>1, <4>2 DEF Retires, Touches, RequestOK, Loops
        <5>2. Phase(r, a, row[a], open[a], a \in hist.held)
          BY <1>2, <3>2, <5>1 DEF BooksInv, AccountInv, Account
        <5>3. row[a].reps = r.snap[a]
          BY <2>1, <2>4, <5>1, <5>2 DEF Phase, Removing
        <5>4. QED BY <2>1, <2>4, <5>1, <5>3
      <4>3. QED BY <3>2, <4>1, <4>2
    <3>3. QED BY <1>1, <1>2, <2>1, <3>2, GoneFrom
  <2>5. QED BY <2>1, <2>2, <2>3, <2>4
<1>6. CASE removeRoute(c)
  <2>1. row' = row /\ ctr' = ctr /\ r.op \in {"remove", "reap"} /\ r.pc = "ingress"
        /\ (Goto(c, "row") \/ Failed(c))
    BY <1>6 DEF removeRoute
  <2>2. CASE Failed(c)
    <3>1. End(c) \/ Done(c)
      BY <2>2 DEF Failed
    <3>2. QED BY <1>1, <1>3, <2>1, <3>1, NoRetire, SameWanes
  <2>3. CASE Goto(c, "row")
    <3>1. req'[c].app = r.app
      BY <1>1, <2>3 DEF Goto, Requests
    <3>2. \A a \in Apps : Retires(req'[c], a) => Retires(r, a) /\ row'[a] = row[a]
      BY <2>1, <3>1 DEF Retires
    <3>3. Ages /\ RowsLive
      BY <2>1, SameWanes, SameLives
    <3>4. QED BY <1>1, <1>2, <3>2, <3>3, GoneEasy
  <2>4. QED BY <2>1, <2>2, <2>3
<1>7. CASE writeRemoved(c)
  <2> DEFINE a == r.app
  <2>1. /\ a \in Apps /\ ctr' = ctr /\ r.op \in {"remove", "reap"} /\ r.pc = "row"
        /\ Goto(c, "events") /\ row' = [row EXCEPT ![a].st = "REMOVED"]
    BY <1>1, <1>7 DEF writeRemoved, RequestOK, Loops
  <2>2. row'[a].reps = row[a].reps /\ \A b \in Apps \ {a} : row'[b] = row[b]
    BY <1>1, <2>1 DEF Documents
  <2>3. Ages /\ \A i \in Ids : Exists(i)' <=> Exists(i)
    BY <2>1, SameWanes DEF Exists
  <2>4. \A b \in Apps : ~Retires(req'[c], b)
    BY <1>1, <2>1, NoRetire
  <2>5. a \notin Excused => \A i \in Listed(row[a].reps) : ~Exists(i)'
    <3>1. Retires(r, a)
      BY <2>1 DEF Retires
    <3>2. a \notin Excused => Gone(row[a].reps)
      BY <2>1, <3>1 DEF GoneInv
    <3>3. Listed(row[a].reps) \subseteq Ids
      BY <1>1, <2>1, ListsAreIds
    <3>4. QED BY <2>3, <3>2, <3>3 DEF Gone
  <2> HIDE DEF a, r
  <2>6. ASSUME NEW b \in Apps \ Excused', row'[b].st = "REMOVED" \/ Retires(req'[c], b)
        PROVE  \A i \in Listed(row'[b].reps) : ~Exists(i)'
    BY <1>2, <1>4, <2>2, <2>3, <2>4, <2>5, <2>6
  <2>7. QED BY <1>1, <1>2, <2>3, <2>6, GoneFrom
<1>8. CASE recordUnlocked(c)
  <2>1. row' = row /\ ctr' = ctr /\ Done(c)
    BY <1>8 DEF recordUnlocked
  <2>2. QED BY <1>1, <1>3, <2>1, NoRetire, SameWanes
<1>9. QED BY <1>5, <1>6, <1>7, <1>8 DEF OneApp

\* Where no request is at work, or none moves, the documents keep their lists and
\* none becomes REMOVED.
LEMMA GoneRests ==
    ASSUME BooksInv, GoneInv, Ages, Excused \subseteq Excused',
           req' = req \/ \A c \in Procs : req'[c] = Rest,
           \A a \in Apps \ Excused' : row'[a].st = row[a].st /\ row'[a].reps = row[a].reps
    PROVE  GoneInv'
<1>1. CoreInv
  BY DEF BooksInv
<1>2. SUFFICES ASSUME NEW a \in Apps \ Excused',
                      row'[a].st = "REMOVED" \/ \E d \in Procs : Retires(req'[d], a)
               PROVE  \A i \in Listed(row'[a].reps) : ~Exists(i)'
  BY DEF GoneInv, Gone, Retires
<1>3. \A d \in Procs : Retires(req'[d], a) => Retires(req[d], a)
  BY DEF Retires, Rest
<1>4. Gone(row[a].reps)
  BY <1>2, <1>3 DEF GoneInv
<1>5. \A i \in Listed(row[a].reps) : i \in Ids /\ ctr[i].st # "unused"
  BY <1>1, ListsAreIds DEF CoreInv, UsedInv
<1>6. QED BY <1>4, <1>5, StaysGone

\* Every step keeps what is gone gone.
LEMMA GoneKept ==
    ASSUME BooksInv, GoneInv, [Next]_vars
    PROVE  GoneInv'
<1>1. /\ CoreInv /\ hist \in Histories /\ TypeOK /\ row \in [Apps -> Documents]
      /\ ctr \in [Ids -> Containers]
  BY DEF BooksInv, CoreInv, TypeOK
<1>2. CASE Working
  BY <1>2, LockedGone, UnlockedGone, ReaperGone, OneAppGone DEF Working
<1>3. CASE Around
  <2>1. /\ row' = row /\ req' = req /\ ctr' = ctr /\ hist'.torn = hist.torn
        /\ hist'.moved = hist.moved
    BY <1>1, <1>3 DEF Around, upsert, setStatus, reconcileUnanswered, serve, vars, Histories
  <2>2. Ages /\ Excused \subseteq Excused'
    BY <2>1, SameWanes DEF Excused
  <2>3. QED BY <2>1, <2>2, GoneRests
<1>4. CASE \E a \in Apps : graceExpires(a)
  <2>1. PICK a \in Apps : graceExpires(a)
    BY <1>4
  <2>2. /\ ctr' = ctr /\ req' = req /\ row' = [row EXCEPT ![a].stamp = "old"]
        /\ \E g : hist' = [hist EXCEPT !.grace[a] = g]
    BY <2>1 DEF graceExpires
  <2>3. Ages /\ Excused \subseteq Excused'
    BY <1>1, <2>2, SameWanes DEF Excused, Histories
  <2>4. \A b \in Apps : row'[b].st = row[b].st /\ row'[b].reps = row[b].reps
    BY <1>1, <2>2 DEF Documents
  <2>5. QED BY <2>2, <2>3, <2>4, GoneRests
<1>5. CASE crash
  <2>1. row' = row /\ ctr' = ctr /\ \A c \in Procs : req'[c] = Rest
    BY <1>5 DEF crash
  <2>2. Ages /\ Excused \subseteq Excused'
    BY <1>1, <1>5, <2>1, SameWanes DEF Excused, crash, Histories
  <2>3. QED BY <2>1, <2>2, GoneRests
<1>6. CASE \E i \in Ids : reconcileContainer(i)
  <2>1. PICK i \in Ids : reconcileContainer(i)
    BY <1>6
  <2>2. req' = req /\ i \in boot.todo /\ Exists(i)
    BY <1>1, <2>1 DEF reconcileContainer, CoreInv, LockInv
  <2>3. Ages
    <3>1. CASE ctr' = ctr
      BY <3>1, SameWanes
    <3>2. CASE ctr' = [ctr EXCEPT ![i].st = "stopped"]
      <4>1. ctr'[i].app = ctr[i].app /\ ctr'[i].st = "stopped" /\ \A j \in Ids \ {i} : ctr'[j] = ctr[j]
        BY <1>1, <2>2, <3>2 DEF Containers, Absent, Exists
      <4>2. QED BY <2>2, <4>1 DEF Ages, Exists
    <3>3. QED BY <2>1, <3>1, <3>2 DEF reconcileContainer
  <2>4. CASE row' = row /\ hist' = hist
    BY <2>2, <2>3, <2>4, GoneRests DEF Excused
  <2>5. CASE /\ row' = [row EXCEPT ![ctr[i].app] = adopted(row[ctr[i].app], i)]
             /\ hist' = [hist EXCEPT !.moved = hist.moved \cup {ctr[i].app}, !.leaked = hist.leaked \ {i}]
    <3>1. hist'.moved = hist.moved \cup {ctr[i].app} /\ hist'.torn = hist.torn
      BY <1>1, <2>5 DEF Histories
    <3>2. \A b \in Apps \ {ctr[i].app} : row'[b] = row[b]
      BY <1>1, <2>5
    <3>3. Excused \subseteq Excused' /\ ctr[i].app \in Excused'
      BY <3>1 DEF Excused
    <3>4. QED BY <2>2, <2>3, <3>2, <3>3, GoneRests
  <2>6. QED BY <2>1, <2>4, <2>5 DEF reconcileContainer
<1>7. QED BY <1>2, <1>3, <1>4, <1>5, <1>6, NextSplits

-----------------------------------------------------------------------------
(* Every container is listed, made or leaked                               *)

\* What the request that holds the lock has yet to write: a deployment that is at
\* its events is listed, a tier change is at the list it read, and the replicas that
\* leave the list are gone.
Handed(r) ==
    /\ r.op \in {"deploy", "tierUp"} /\ r.pc = "events" => Listed(r.made) \subseteq Listed(row[r.app].reps)
    /\ r.op \in {"tierUp", "tierDown"} => row[r.app].st # "NONE"
    /\ r.op = "tierDown" /\ r.pc # "events" => row[r.app].reps = r.snap[r.app]
    /\ r.op = "tierDown" /\ r.pc \in {"ingress", "row"} => Gone(Tail(r.snap[r.app]))

ListInv ==
    /\ ListedOrLeaked
    /\ \A c \in Clients : Handed(req[c])
    /\ \A a \in Apps : row[a].st = "NONE" => row[a].reps = <<>>

\* No list changes, and no document is deleted.
RepsStay == \A a \in Apps : row'[a].reps = row[a].reps /\ (row'[a].st = "NONE" => row[a].st = "NONE")

\* Where no document changes, no list does.
LEMMA SameReps ==
    ASSUME row' = row
    PROVE  RepsStay
BY DEF RepsStay

\* A document that is written with the list it had.
LEMMA WriteReps ==
    ASSUME TypeOK, NEW a \in Apps, NEW d, row' = [row EXCEPT ![a] = d], d.st # "NONE",
           d.reps = row[a].reps
    PROVE  RepsStay
BY DEF RepsStay, TypeOK

\* A request that holds no lock has made nothing, and a tier change's list is one of
\* containers that were created.
LEMMA Makers ==
    ASSUME CoreInv, NEW c \in Clients
    PROVE  /\ c \in Procs /\ req[c] \in Requests /\ RequestOK(req[c])
           /\ req[c].op \notin Placers => req[c].made = <<>>
           /\ req[c].op \in Holders => req[c].app \in Apps
           /\ req[c].op = "tierDown" =>
                \A i \in Listed(Tail(req[c].snap[req[c].app])) : i \in Ids /\ ctr[i].st # "unused"
           /\ \A i \in Listed(req[c].made) : i \in Ids /\ ctr[i].st # "unused" /\ ctr[i].app = req[c].app
<1> DEFINE r == req[c]
<1>1. c \in Procs /\ r \in Requests /\ RequestOK(r) /\ TypeOK
  BY Names DEF CoreInv, TypeOK, ReqInv
<1>2. r.op \notin Placers => r.made = <<>>
  BY <1>1 DEF RequestOK
<1>3. r.op \in Holders => r.app \in Apps
  BY <1>1 DEF RequestOK, Holders, Placers, Loops
<1>4. ASSUME r.op = "tierDown"
      PROVE  \A i \in Listed(Tail(r.snap[r.app])) : i \in Ids /\ ctr[i].st # "unused"
  <2>1. r.app \in Apps /\ r.snap[r.app] # <<>> /\ r.snap[r.app] \in Seq(Ids)
    BY <1>1, <1>3, <1>4 DEF RequestOK, Requests, Holders
  <2>2. Listed(Tail(r.snap[r.app])) \subseteq Listed(r.snap[r.app])
    BY <2>1, ListedHead
  <2>3. QED BY <1>1, <2>1, <2>2, ListsAreIds DEF CoreInv, UsedInv, UsedIn, Known
<1>5. \A i \in Listed(r.made) : i \in Ids /\ ctr[i].st # "unused" /\ ctr[i].app = r.app
  BY <1>1, ListsAreIds DEF CoreInv, UsedInv, UsedIn
<1>6. QED BY <1>1, <1>2, <1>3, <1>4, <1>5

\* A request that stays where it is has the same to hand over, if no list changes.
LEMMA HandedStays ==
    ASSUME CoreInv, ListInv, RepsStay, Ages, NEW c \in Clients, req'[c] = req[c]
    PROVE  Handed(req[c])'
<1> DEFINE r == req[c]
<1>1. /\ r.op \in Holders => r.app \in Apps
      /\ r.op = "tierDown" =>
           \A i \in Listed(Tail(r.snap[r.app])) : i \in Ids /\ ctr[i].st # "unused"
  BY Makers
<1>2. Handed(r)
  BY DEF ListInv
<1>3. r.op = "tierDown" /\ r.pc \in {"ingress", "row"} =>
        \A i \in Listed(Tail(r.snap[r.app])) : ~Exists(i)'
  BY <1>1, <1>2, StaysGone DEF Handed
<1>4. r.op \in Holders => row'[r.app].reps = row[r.app].reps /\ (row[r.app].st # "NONE" => row'[r.app].st # "NONE")
  BY <1>1 DEF RepsStay
<1>5. \A op \in {"deploy", "tierUp", "tierDown"} : op \in Holders
  BY DEF Holders, Placers
<1>6. QED BY <1>2, <1>3, <1>4, <1>5 DEF Handed, Gone

\* Where no list changes, no container is created and no holder of the lock moves,
\* all stays listed.
LEMMA ListFrame ==
    ASSUME CoreInv, ListInv, RepsStay, Ages, Wanes, hist.leaked \subseteq hist'.leaked,
           \A c \in Clients :
               req'[c] = req[c] \/ (req[c].op \notin Holders /\ req'[c].op \notin Holders)
    PROVE  ListInv'
<1>1. TypeOK
  BY DEF CoreInv
<1>2. ListedOrLeaked'
  <2> SUFFICES ASSUME NEW i \in Ids, Exists(i)'
               PROVE  \/ ctr'[i].app \in Apps /\ i \in Listed(row'[ctr'[i].app].reps)
                      \/ \E c \in Clients : i \in Listed(req'[c].made)
                      \/ i \in hist'.leaked
    BY DEF ListedOrLeaked
  <2>1. Exists(i) /\ ctr'[i].app = ctr[i].app /\ ctr[i].app \in Apps
    BY <1>1, OfAnApp DEF Wanes
  <2>2. CASE i \in Listed(row[ctr[i].app].reps)
    BY <2>1, <2>2 DEF RepsStay
  <2>3. CASE \E c \in Clients : i \in Listed(req[c].made)
    <3>1. PICK c \in Clients : i \in Listed(req[c].made)
      BY <2>3
    <3>2. req[c].op \in Placers
      BY <3>1, Makers, ListedNone
    <3>3. req'[c] = req[c]
      BY <3>2 DEF Holders
    <3>4. QED BY <3>1, <3>3
  <2>4. QED BY <2>1, <2>2, <2>3 DEF ListInv, ListedOrLeaked
<1>3. \A c \in Clients : Handed(req[c])'
  <2>1. ASSUME NEW c \in Clients, req'[c].op \notin Holders PROVE Handed(req[c])'
    BY <2>1 DEF Handed, Holders, Placers
  <2>2. QED BY <2>1, HandedStays
<1>4. \A a \in Apps : row'[a].st = "NONE" => row'[a].reps = <<>>
  BY DEF RepsStay, ListInv
<1>5. QED BY <1>2, <1>3, <1>4 DEF ListInv

\* The holder of the lock, or the one that takes it, moves.
LEMMA HolderFrame ==
    ASSUME CoreInv, ListInv, NEW c \in Clients, Step(c),
           req[c].op \in Holders \/ req'[c].op \in Holders, Handed(req[c])',
           \A i \in Ids : Exists(i)' =>
               \/ Exists(i) /\ ctr'[i].app = ctr[i].app
               \/ i \in Listed(req'[c].made)
               \/ i \in hist'.leaked,
           hist.leaked \subseteq hist'.leaked,
           \A a \in Apps : \A i \in Listed(row[a].reps) :
               i \in Ids /\ Exists(i)' => i \in Listed(row'[a].reps),
           \A i \in Listed(req[c].made) : i \in Ids /\ Exists(i)' =>
               \/ i \in Listed(req'[c].made)
               \/ i \in Listed(row'[req[c].app].reps)
               \/ i \in hist'.leaked,
           \A a \in Apps : row'[a].st = "NONE" => row'[a].reps = <<>>
    PROVE  ListInv'
<1>1. /\ TypeOK /\ c \in Procs /\ \A d \in Clients \ {c} : req'[d] = req[d]
  BY Names DEF CoreInv, Step, Frame
<1>2. \A d \in Clients \ {c} : req'[d].op \notin Holders
  <2>1. \A d \in Clients : (lock = d) <=> (req[d].op \in Holders)
    BY DEF CoreInv, LockInv
  <2>2. \A d \in Clients : (lock' = d) <=> (req'[d].op \in Holders)
    BY DEF Step, CoreInv, LockInv
  <2>3. QED BY <1>1, <2>1, <2>2
<1>3. ListedOrLeaked'
  <2> SUFFICES ASSUME NEW i \in Ids, Exists(i)'
               PROVE  \/ ctr'[i].app \in Apps /\ i \in Listed(row'[ctr'[i].app].reps)
                      \/ \E d \in Clients : i \in Listed(req'[d].made)
                      \/ i \in hist'.leaked
    BY DEF ListedOrLeaked
  <2>1. CASE Exists(i) /\ ctr'[i].app = ctr[i].app
    <3>1. ctr[i].app \in Apps
      BY <1>1, <2>1, OfAnApp
    <3>2. CASE i \in Listed(row[ctr[i].app].reps)
      BY <2>1, <3>1, <3>2
    <3>3. CASE \E d \in Clients : i \in Listed(req[d].made)
      <4>1. PICK d \in Clients : i \in Listed(req[d].made)
        BY <3>3
      <4>2. CASE d = c
        <5>1. ctr[i].app = req[c].app
          BY <4>1, <4>2, Makers
        <5>2. QED BY <2>1, <3>1, <4>1, <4>2, <5>1
      <4>3. CASE d # c
        BY <1>1, <4>1, <4>3
      <4>4. QED BY <4>2, <4>3
    <3>4. QED BY <2>1, <3>2, <3>3 DEF ListInv, ListedOrLeaked
  <2>2. QED BY <2>1
<1>4. \A d \in Clients : Handed(req[d])'
  <2>1. ASSUME NEW d \in Clients \ {c} PROVE Handed(req[d])'
    BY <1>2, <2>1 DEF Handed, Holders, Placers
  <2>2. QED BY <2>1
<1>5. QED BY <1>3, <1>4 DEF ListInv

\* A request that takes the lock has nothing to hand over but the list it read.
LEMMA LockTakenList ==
    ASSUME BooksInv, ListInv, NEW c \in Clients,
           \/ \E a \in Apps, k \in {1, 2} : deploy(c, a, k) \/ deployMcp(c, a, k)
           \/ \E a \in Apps, t \in {"single", "ha"} : changeAvailabilityTier(c, a, t)
           \/ \E a \in Apps : activateMcp(c, a)
    PROVE  ListInv'
<1>1. /\ CoreInv /\ req[c] = Rest /\ row' = row /\ ctr' = ctr /\ c \in Procs
      /\ hist \in Histories /\ req \in [Procs -> Requests] /\ row \in [Apps -> Documents]
  BY Names DEF BooksInv, CoreInv, TypeOK, deploy, deployMcp, Begin, Hub, Free,
               changeAvailabilityTier, activateMcp
<1>2. Step(c)
  BY <1>1, LockedStep DEF Locked
<1>3. hist'.leaked = hist.leaked
  <2>1. PICK as : hist' = Torn(as)
    BY DEF deploy, deployMcp, Begin, changeAvailabilityTier, activateMcp
  <2>2. QED BY <1>1, <2>1 DEF Torn, Histories
<1>4. req'[c].op \in Holders /\ Handed(req[c])'
  <2>1. CASE \E a \in Apps, k \in {1, 2} : deploy(c, a, k) \/ deployMcp(c, a, k)
    <3>1. PICK a \in Apps, k \in {1, 2}, op \in {"deploy", "install"} : Begin(c, a, k, op)
      BY <2>1 DEF deploy, deployMcp
    <3>2. PICK sel : req' = [req EXCEPT ![c] = [Rest EXCEPT !.op = op, !.app = a, !.pc = "place",
                                                            !.plan = sel]]
      BY <3>1 DEF Begin
    <3>3. req'[c].op = op /\ req'[c].pc = "place"
      BY <1>1, <3>2 DEF Rest
    <3>4. QED BY <3>3 DEF Handed, Holders, Placers
  <2>2. CASE \E a \in Apps, t \in {"single", "ha"} : changeAvailabilityTier(c, a, t)
    <3>1. PICK a \in Apps, t \in {"single", "ha"} : changeAvailabilityTier(c, a, t)
      BY <2>2
    <3>2. row[a].st # "NONE"
      BY <3>1 DEF changeAvailabilityTier
    <3>3. CASE \E sel : req' = [req EXCEPT ![c] = [Rest EXCEPT
                                   !.op = "tierUp", !.app = a, !.pc = "place", !.plan = sel,
                                   !.snap = Snap({a})]]
      <4>1. req'[c].op = "tierUp" /\ req'[c].pc = "place" /\ req'[c].app = a
        BY <1>1, <3>3 DEF Rest
      <4>2. QED BY <1>1, <3>2, <4>1 DEF Handed, Holders, Placers
    <3>4. CASE req' = [req EXCEPT ![c] = [Rest EXCEPT
                             !.op = "tierDown", !.app = a, !.pc = "shrink",
                             !.snap = Snap({a})]]
      <4>1. /\ req'[c].op = "tierDown" /\ req'[c].pc = "shrink" /\ req'[c].app = a
            /\ req'[c].snap = Snap({a})
        BY <1>1, <3>4 DEF Rest
      <4>2. Snap({a})[a] = row[a].reps
        BY DEF Snap
      <4>3. QED BY <1>1, <3>2, <4>1, <4>2 DEF Handed, Holders, Placers
    <3>5. QED BY <3>1, <3>3, <3>4 DEF changeAvailabilityTier
  <2>3. CASE \E a \in Apps : activateMcp(c, a)
    <3>1. PICK a \in Apps : activateMcp(c, a)
      BY <2>3
    <3>2. req'[c].op = "activate"
      BY <1>1, <3>1 DEF activateMcp, Rest
    <3>3. QED BY <3>2 DEF Handed, Holders, Placers
  <2>4. QED BY <2>1, <2>2, <2>3
<1>5. Listed(req[c].made) = {}
  BY <1>1, ListedNone DEF Rest
<1>6. \A i \in Ids : Exists(i)' => Exists(i) /\ ctr'[i].app = ctr[i].app
  BY <1>1 DEF Exists
<1>7. \A a \in Apps : row'[a].st = "NONE" => row'[a].reps = <<>>
  BY <1>1 DEF ListInv
<1>8. \A a \in Apps : \A i \in Listed(row[a].reps) : i \in Listed(row'[a].reps)
  BY <1>1
<1>9. QED BY <1>1, <1>2, <1>3, <1>4, <1>5, <1>6, <1>7, <1>8, HolderFrame

\* A placed replica is among what was made; one whose answer is lost is leaked.
LEMMA PlacingList ==
    ASSUME BooksInv, ListInv, NEW c \in Clients,
           deployToNodes(c) \/ deployMcpToNodes(c) \/ deploySecond(c)
    PROVE  ListInv'
<1> DEFINE r == req[c]
<1>1. /\ CoreInv /\ TypeOK /\ c \in Procs /\ r \in Requests /\ RequestOK(r) /\ Handed(r)
      /\ hist \in Histories /\ req \in [Procs -> Requests]
      /\ r.op \in Placers /\ r.op \in Holders /\ r.pc = "place" /\ row' = row
  BY Makers, PlacingEffect DEF BooksInv, CoreInv, TypeOK, ListInv, Holders
<1>2. Step(c)
  BY <1>1, LockedStep DEF Locked
<1>3. Fresh \in Ids /\ ctr[Fresh].st = "unused"
  BY <1>1, FreshIsUnused DEF deployToNodes, deployMcpToNodes, deploySecond, Placing
<1>4. /\ \A i \in Ids : Exists(i)' =>
            \/ Exists(i) /\ ctr'[i].app = ctr[i].app
            \/ i \in Listed(req'[c].made)
            \/ i \in hist'.leaked
      /\ hist.leaked \subseteq hist'.leaked
      /\ \A i \in Listed(r.made) : i \in Ids /\ Exists(i)' => i \in Listed(req'[c].made) \/ i \in hist'.leaked
      /\ req'[c].pc # "events"
      /\ req'[c].op = "none" \/ (req'[c].op = r.op /\ req'[c].app = r.app)
  <2>1. CASE Placed(c, "ingress") \/ Placed(c, "row")
    <3>1. PICK p \in {"ingress", "row"} : Placed(c, p)
      BY <2>1
    <3>2. PICK q \in Pcs : q = IF Len(r.plan) > 1 THEN "place" ELSE p
      BY DEF Pcs
    <3>3. req' = [req EXCEPT ![c] = [r EXCEPT !.made = Append(r.made, Fresh), !.plan = Tail(r.plan),
                                             !.pc = q]]
          /\ hist' = hist
      BY <3>1, <3>2 DEF Placed
    <3>4. req'[c].made = Append(r.made, Fresh) /\ req'[c].op = r.op /\ req'[c].app = r.app /\ req'[c].pc = q
      BY <1>1, <3>3 DEF Requests
    <3>5. Listed(req'[c].made) = Listed(r.made) \cup {Fresh}
      BY <1>1, <1>3, <3>4, Extended DEF Requests
    <3>6. \A i \in Ids \ {Fresh} : ctr'[i] = ctr[i]
      BY <1>1, <1>3, <3>1 DEF Placed, TypeOK
    <3>7. \A i \in Ids \ {Fresh} : Exists(i)' => Exists(i) /\ ctr'[i].app = ctr[i].app
      BY <3>6 DEF Exists
    <3>8. q # "events"
      BY <3>2
    <3>9. QED BY <3>3, <3>4, <3>5, <3>7, <3>8
  <2>2. CASE NotPlaced(c)
    <3>1. \/ ctr' = ctr /\ hist' = hist
          \/ /\ ctr' = [ctr EXCEPT ![Fresh] = [app |-> r.app, node |-> Head(r.plan), st |-> "running"]]
             /\ hist' = [hist EXCEPT !.leaked = hist.leaked \cup {Fresh}]
      BY <2>2 DEF NotPlaced
    <3>2. /\ hist.leaked \subseteq hist'.leaked
          /\ \A i \in Ids : Exists(i)' => (Exists(i) /\ ctr'[i].app = ctr[i].app) \/ i \in hist'.leaked
      <4>1. CASE ctr' = ctr /\ hist' = hist
        BY <4>1 DEF Exists
      <4>2. CASE /\ ctr' = [ctr EXCEPT ![Fresh] = [app |-> r.app, node |-> Head(r.plan), st |-> "running"]]
                 /\ hist' = [hist EXCEPT !.leaked = hist.leaked \cup {Fresh}]
        <5>1. hist'.leaked = hist.leaked \cup {Fresh}
          BY <1>1, <4>2 DEF Histories
        <5>2. \A i \in Ids \ {Fresh} : ctr'[i] = ctr[i]
          BY <1>1, <1>3, <4>2 DEF TypeOK
        <5>3. \A i \in Ids \ {Fresh} : Exists(i)' => Exists(i) /\ ctr'[i].app = ctr[i].app
          BY <5>2 DEF Exists
        <5>4. QED BY <5>1, <5>3
      <4>3. QED BY <3>1, <4>1, <4>2
    <3>3. CASE Goto(c, "undo")
      <4>1. req'[c].made = r.made /\ req'[c].op = r.op /\ req'[c].app = r.app /\ req'[c].pc = "undo"
        BY <1>1, <3>3 DEF Goto, Requests
      <4>2. QED BY <3>2, <4>1
    <3>4. CASE deploySecond(c) /\ End(c)
      <4>1. r.op = "tierUp"
        BY <3>4 DEF deploySecond, Placing
      <4>2. r.made = <<>>
        <5>1. Len(r.made) + Len(r.plan) = 1 /\ r.plan # <<>> /\ r.made \in Seq(Ids) /\ r.plan \in Seq(Nodes)
          BY <1>1, <4>1 DEF RequestOK, Requests
        <5>2. Len(r.plan) \in Nat /\ Len(r.plan) > 0 /\ Len(r.made) \in Nat
          BY <5>1
        <5>3. \A m, n \in Nat : m + n = 1 /\ n > 0 => m = 0
          OBVIOUS
        <5>4. Len(r.made) = 0
          BY <5>1, <5>2, <5>3, Zenon
        <5>5. QED BY <5>1, <5>4
      <4>3. req'[c].op = "none" /\ req'[c].app = "none" /\ req'[c].pc = "none"
        BY <1>1, <3>4 DEF End, Rest
      <4>4. QED BY <3>2, <4>2, <4>3, ListedNone
    <3>5. (Goto(c, "undo") \/ (deploySecond(c) /\ End(c)))
      <4>1. CASE deploySecond(c)
        <5>1. Placed(c, "ingress") \/ End(c)
          BY <4>1 DEF deploySecond
        <5>2. CASE Placed(c, "ingress")
          BY <2>2, <5>2, <1>1 DEF Placed, NotPlaced, Faulted, Fault, TypeOK
        <5>3. QED BY <4>1, <5>1, <5>2
      <4>2. CASE deployToNodes(c) \/ deployMcpToNodes(c)
        <5>1. Placed(c, "ingress") \/ Placed(c, "row") \/ Goto(c, "undo")
          BY <4>2 DEF deployToNodes, deployMcpToNodes
        <5>2. CASE Placed(c, "ingress") \/ Placed(c, "row")
          BY <2>2, <5>2, <1>1 DEF Placed, NotPlaced, Faulted, Fault, TypeOK
        <5>3. QED BY <5>1, <5>2
      <4>3. QED BY <4>1, <4>2
    <3>6. QED BY <3>3, <3>4, <3>5
  <2>3. QED BY <2>1, <2>2 DEF deployToNodes, deployMcpToNodes, deploySecond
<1>5. Handed(req[c])'
  BY <1>1, <1>4 DEF Handed, Placers
<1>6. \A a \in Apps : row'[a].st = "NONE" => row'[a].reps = <<>>
  BY <1>1 DEF ListInv
<1>7. \A a \in Apps : \A i \in Listed(row[a].reps) : i \in Listed(row'[a].reps)
  BY <1>1
<1> HIDE DEF r
<1>8. QED BY <1>1, <1>2, <1>4, <1>5, <1>6, <1>7, HolderFrame DEF r

\* The holder of the lock leaves the documents alone.
LEMMA HolderQuiet ==
    ASSUME BooksInv, ListInv, NEW c \in Clients, Locked(c), req[c].op \in Holders, row' = row, Wanes,
           hist.leaked \subseteq hist'.leaked, Handed(req[c])',
           \A i \in Listed(req[c].made) : i \in Ids /\ Exists(i)' =>
               \/ i \in Listed(req'[c].made)
               \/ i \in Listed(row'[req[c].app].reps)
               \/ i \in hist'.leaked
    PROVE  ListInv'
<1>1. CoreInv /\ Step(c)
  BY LockedStep DEF BooksInv
<1>2. \A i \in Ids : Exists(i)' => Exists(i) /\ ctr'[i].app = ctr[i].app
  BY DEF Wanes
<1>3. \A a \in Apps : row'[a].st = "NONE" => row'[a].reps = <<>>
  BY DEF ListInv
<1>4. QED BY <1>1, <1>2, <1>3, HolderFrame

\* A request that is over has nothing to hand over.
LEMMA EndHanded ==
    ASSUME CoreInv, NEW c \in Procs, End(c)
    PROVE  Handed(req[c])' /\ req'[c] = Rest
<1>1. req'[c] = Rest
  BY DEF CoreInv, TypeOK, End
<1>2. QED BY <1>1 DEF Handed, Rest

\* What a move within a request leaves as it was.
LEMMA GotoFields ==
    ASSUME CoreInv, NEW c \in Procs, NEW p, Goto(c, p)
    PROVE  /\ req'[c].op = req[c].op /\ req'[c].app = req[c].app /\ req'[c].snap = req[c].snap
           /\ req'[c].made = req[c].made /\ req'[c].pc = p
BY DEF CoreInv, TypeOK, Goto, Requests

\* Undoing, shrinking and programming the route.
LEMMA UndoneList ==
    ASSUME BooksInv, ListInv, NEW c \in Clients, compensate(c) \/ shrink(c) \/ programRoute(c)
    PROVE  ListInv'
<1> DEFINE r == req[c]
<1>1. /\ CoreInv /\ Locked(c) /\ c \in Procs /\ r \in Requests /\ RequestOK(r) /\ Handed(r)
      /\ hist \in Histories
      /\ r.op \notin Placers => r.made = <<>>
      /\ r.op = "tierDown" =>
           \A i \in Listed(Tail(r.snap[r.app])) : i \in Ids /\ ctr[i].st # "unused"
  BY Makers DEF BooksInv, ListInv, Locked, CoreInv, TypeOK
<1>2. CASE compensate(c)
  <2>1. /\ Wanes /\ row' = row /\ hist.leaked \subseteq hist'.leaked /\ r.op \in Holders
        /\ \A i \in Listed(r.made) : Exists(i)' => i \in hist'.leaked
    BY <1>1, <1>2, CompensateEffect DEF Holders, Placers
  <2>2. Handed(req[c])'
    BY <1>1, <1>2, EndHanded DEF compensate
  <2>3. QED BY <1>1, <2>1, <2>2, HolderQuiet
<1>3. CASE shrink(c)
  <2>1. /\ Wanes /\ row' = row /\ hist' = hist /\ r.op = "tierDown" /\ r.op \in Holders
        /\ r.pc = "shrink"
        /\ \/ Goto(c, "ingress") /\ \A i \in Listed(Tail(r.snap[r.app])) : ~Exists(i)'
           \/ End(c)
    BY <1>1, <1>3, ShrinkEffect DEF Holders
  <2>2. Listed(r.made) = {}
    BY <1>1, <2>1, ListedNone DEF Placers
  <2>3. CASE End(c)
    <3>1. Handed(req[c])'
      BY <1>1, <2>3, EndHanded
    <3>2. QED BY <1>1, <2>1, <2>2, <3>1, HolderQuiet
  <2>4. CASE Goto(c, "ingress") /\ \A i \in Listed(Tail(r.snap[r.app])) : ~Exists(i)'
    <3>1. req'[c].op = r.op /\ req'[c].app = r.app /\ req'[c].snap = r.snap /\ req'[c].pc = "ingress"
      BY <1>1, <2>4, GotoFields
    <3>2. Handed(req[c])'
      BY <1>1, <2>1, <2>4, <3>1 DEF Handed, Gone
    <3>3. QED BY <1>1, <2>1, <2>2, <3>2, HolderQuiet
  <2>5. QED BY <2>1, <2>3, <2>4
<1>4. CASE programRoute(c)
  <2>1. /\ r.op \in Holders /\ row' = row /\ ctr' = ctr /\ r.pc = "ingress"
        /\ \/ Goto(c, "row") /\ hist' = hist
           \/ Goto(c, "undo") /\ hist' = hist /\ r.op = "deploy"
           \/ End(c) /\ hist' = [hist EXCEPT !.leaked = hist.leaked \cup Listed(r.made)]
    BY <1>4 DEF programRoute, Holders, Placers
  <2>2. Wanes /\ Ages
    BY <2>1, SameWanes
  <2>3. CASE End(c) /\ hist' = [hist EXCEPT !.leaked = hist.leaked \cup Listed(r.made)]
    <3>1. hist'.leaked = hist.leaked \cup Listed(r.made)
      BY <1>1, <2>3 DEF Histories
    <3>2. Handed(req[c])'
      BY <1>1, <2>3, EndHanded
    <3>3. QED BY <1>1, <2>1, <2>2, <3>1, <3>2, HolderQuiet
  <2>4. ASSUME NEW p \in {"row", "undo"}, Goto(c, p), p = "undo" => r.op = "deploy", hist' = hist
        PROVE  ListInv'
    <3>1. /\ req'[c].op = r.op /\ req'[c].app = r.app /\ req'[c].snap = r.snap /\ req'[c].pc = p
          /\ req'[c].made = r.made
      BY <1>1, <2>4, GotoFields
    <3>2. r.op = "tierDown" => \A i \in Listed(Tail(r.snap[r.app])) : ~Exists(i)'
      BY <1>1, <2>1, <2>2, StaysGone DEF Handed
    <3>3. Handed(req[c])'
      BY <1>1, <2>1, <2>4, <3>1, <3>2 DEF Handed, Gone
    <3>4. QED BY <1>1, <2>1, <2>2, <2>4, <3>1, <3>3, HolderQuiet
  <2>5. QED BY <2>1, <2>3, <2>4
<1>5. QED BY <1>2, <1>3, <1>4

\* A document that is inserted lists what was made; one that is not leaves it leaked.
LEMMA InsertedList ==
    ASSUME BooksInv, ListInv, NEW c \in Clients, insertApp(c)
    PROVE  ListInv'
<1> DEFINE r == req[c]  a == r.app
<1>1. /\ CoreInv /\ Locked(c) /\ c \in Procs /\ r \in Requests /\ RequestOK(r) /\ Handed(r)
      /\ hist \in Histories /\ row \in [Apps -> Documents]
      /\ r.op \in {"deploy", "install"} /\ r.op \in Holders /\ a \in Apps /\ ctr' = ctr
  BY Makers DEF BooksInv, ListInv, Locked, CoreInv, TypeOK, insertApp, Holders, Placers
<1>2. Wanes
  BY <1>1, SameWanes
<1>3. CASE row[a].st # "NONE"
  <2>1. row' = row /\ End(c) /\ hist' = [hist EXCEPT !.leaked = hist.leaked \cup Listed(r.made)]
    BY <1>3 DEF insertApp
  <2>2. hist'.leaked = hist.leaked \cup Listed(r.made)
    BY <1>1, <2>1 DEF Histories
  <2>3. Handed(req[c])'
    BY <1>1, <2>1, EndHanded
  <2>4. QED BY <1>1, <1>2, <2>1, <2>2, <2>3, HolderQuiet
<1>4. CASE row[a].st = "NONE"
  <2>1. PICK d : d = IF r.op = "deploy" THEN RawApp(r.made) ELSE McpApp(r.made)
    OBVIOUS
  <2>2. d.reps = r.made /\ d.st # "NONE"
    BY <2>1 DEF RawApp, McpApp, None
  <2>3. /\ row' = [row EXCEPT ![a] = d] /\ hist' = hist
        /\ (r.op = "deploy" /\ Goto(c, "events")) \/ End(c)
    BY <1>4, <2>1 DEF insertApp
  <2>4. row'[a] = d /\ \A b \in Apps \ {a} : row'[b] = row[b]
    BY <1>1, <2>3
  <2>5. Handed(req[c])'
    <3>1. CASE End(c)
      BY <1>1, <3>1, EndHanded
    <3>2. CASE r.op = "deploy" /\ Goto(c, "events")
      <4>1. /\ req'[c].op = r.op /\ req'[c].app = r.app /\ req'[c].snap = r.snap
            /\ req'[c].pc = "events" /\ req'[c].made = r.made
        BY <1>1, <3>2, GotoFields
      <4>2. QED BY <2>2, <2>4, <3>2, <4>1 DEF Handed
    <3>3. QED BY <2>3, <3>1, <3>2
  <2>6. Listed(row[a].reps) = {}
    BY <1>1, <1>4, ListedNone DEF ListInv
  <2>7. \A b \in Apps : \A i \in Listed(row[b].reps) : i \in Listed(row'[b].reps)
    BY <2>4, <2>6
  <2>8. \A b \in Apps : row'[b].st = "NONE" => row'[b].reps = <<>>
    BY <2>2, <2>4 DEF ListInv
  <2>9. \A i \in Listed(r.made) : i \in Listed(row'[a].reps)
    BY <2>2, <2>4
  <2>10. \A i \in Ids : Exists(i)' => Exists(i) /\ ctr'[i].app = ctr[i].app
    BY <1>2 DEF Wanes
  <2>11. Step(c)
    BY <1>1, LockedStep
  <2>12. QED BY <1>1, <2>3, <2>5, <2>7, <2>8, <2>9, <2>10, <2>11, HolderFrame
<1>5. QED BY <1>3, <1>4

\* A tier change's document lists the new replica; what it no longer lists is gone.
LEMMA TierList ==
    ASSUME BooksInv, ListInv, NEW c \in Clients, writeTier(c)
    PROVE  ListInv'
<1> DEFINE r == req[c]  a == r.app
<1>1. /\ CoreInv /\ Locked(c) /\ c \in Procs /\ r \in Requests /\ RequestOK(r) /\ Handed(r)
      /\ row \in [Apps -> Documents] /\ hist' = hist
      /\ r.op \in {"tierUp", "tierDown"} /\ r.op \in Holders /\ a \in Apps /\ ctr' = ctr
      /\ r.pc = "row" /\ Goto(c, "events") /\ row[a].st # "NONE"
      /\ r.op \notin Placers => r.made = <<>>
  BY Makers DEF BooksInv, ListInv, Locked, CoreInv, TypeOK, writeTier, Holders, Placers, Handed
<1>2. row[a] \in Documents /\ row[a].reps \in Seq(Ids) /\ r.made \in Seq(Ids)
  BY <1>1 DEF Documents, Requests
<1>3. PICK q : q = IF r.op = "tierUp" THEN row[a].reps \o r.made ELSE <<Head(r.snap[a])>>
  OBVIOUS
<1>4. \E t : row' = [row EXCEPT ![a] = [row[a] EXCEPT !.tier = t, !.reps = q]]
  <2>1. CASE r.op = "tierUp"
    BY <1>3, <2>1 DEF writeTier
  <2>2. CASE r.op = "tierDown"
    BY <1>3, <2>2 DEF writeTier
  <2>3. QED BY <1>1, <2>1, <2>2
<1>5. row'[a].reps = q /\ row'[a].st = row[a].st /\ \A b \in Apps \ {a} : row'[b] = row[b]
  BY <1>1, <1>2, <1>4 DEF Documents
<1>6. /\ \A i \in Listed(row[a].reps) : i \in Ids /\ Exists(i)' => i \in Listed(q)
      /\ \A i \in Listed(r.made) : i \in Listed(q)
  <2>1. CASE r.op = "tierUp"
    BY <1>2, <1>3, <2>1, ListedBoth
  <2>2. CASE r.op = "tierDown"
    <3>1. /\ row[a].reps = r.snap[a] /\ \A i \in Listed(Tail(r.snap[a])) : ~Exists(i)
          /\ r.snap[a] # <<>>
      BY <1>1, <2>2 DEF Handed, Gone, RequestOK
    <3>2. Listed(row[a].reps) = {Head(r.snap[a])} \cup Listed(Tail(r.snap[a]))
      BY <1>2, <3>1, ListedHead
    <3>3. Listed(q) = {Head(r.snap[a])}
      BY <1>3, <2>2, ListedOne
    <3>4. Listed(r.made) = {}
      BY <1>1, <2>2, ListedNone DEF Placers
    <3>5. \A i \in Ids : Exists(i)' => Exists(i)
      BY <1>1 DEF Exists
    <3>6. QED BY <3>1, <3>2, <3>3, <3>4, <3>5
  <2>3. QED BY <1>1, <2>1, <2>2
<1>7. Handed(req[c])'
  <2>1. /\ req'[c].op = r.op /\ req'[c].app = r.app /\ req'[c].snap = r.snap
        /\ req'[c].pc = "events" /\ req'[c].made = r.made
    BY <1>1, GotoFields
  <2>2. QED BY <1>1, <1>5, <1>6, <2>1 DEF Handed
<1>8. \A b \in Apps : \A i \in Listed(row[b].reps) : i \in Ids /\ Exists(i)' => i \in Listed(row'[b].reps)
  BY <1>5, <1>6
<1>9. \A b \in Apps : row'[b].st = "NONE" => row'[b].reps = <<>>
  BY <1>1, <1>5 DEF ListInv
<1>10. \A i \in Ids : Exists(i)' => Exists(i) /\ ctr'[i].app = ctr[i].app
  BY <1>1 DEF Exists
<1>11. Step(c)
  BY <1>1, LockedStep
<1>12. \A i \in Listed(r.made) : i \in Listed(row'[a].reps)
  BY <1>5, <1>6
<1>13. QED BY <1>1, <1>7, <1>8, <1>9, <1>10, <1>11, <1>12, HolderFrame

\* The requests that hold the lock keep every container listed, made or leaked.
LEMMA LockedList ==
    ASSUME BooksInv, ListInv, NEW c \in Clients, Locked(c)
    PROVE  ListInv'
<1> DEFINE r == req[c]
<1>1. /\ CoreInv /\ c \in Procs /\ r \in Requests /\ RequestOK(r) /\ Handed(r)
      /\ hist \in Histories /\ row \in [Apps -> Documents]
      /\ r.op \notin Placers => r.made = <<>>
  BY Makers DEF BooksInv, ListInv, CoreInv, TypeOK
<1>2. CASE flipActivated(c)
  <2>1. /\ r.op = "activate" /\ r.op \in Holders /\ ctr' = ctr /\ r.app \in Apps
        /\ Goto(c, "events") \/ End(c)
    BY <1>1, <1>2 DEF flipActivated, Holders, RequestOK, Loops
  <2>2. Handed(req[c])'
    <3>1. CASE End(c)
      BY <1>1, <3>1, EndHanded
    <3>2. CASE Goto(c, "events")
      <4>1. req'[c].op = "activate"
        BY <1>1, <2>1, <3>2, GotoFields
      <4>2. QED BY <4>1 DEF Handed
    <3>3. QED BY <2>1, <3>1, <3>2
  <2>3. hist'.leaked = hist.leaked
    <3>1. hist' = hist \/ \E m : hist' = [hist EXCEPT !.moved = m]
      BY <1>2 DEF flipActivated
    <3>2. QED BY <1>1, <3>1 DEF Histories
  <2>4. \A b \in Apps : row'[b].reps = row[b].reps /\ (row'[b].st = "NONE" => row[b].st = "NONE")
    <3>1. CASE row' = row
      BY <3>1
    <3>2. CASE row' = [row EXCEPT ![r.app].st = "RUNNING"]
      BY <1>1, <2>1, <3>2 DEF Documents
    <3>3. QED BY <1>2, <3>1, <3>2 DEF flipActivated
  <2>5. \A b \in Apps : row'[b].st = "NONE" => row'[b].reps = <<>>
    BY <2>4 DEF ListInv
  <2>6. Listed(r.made) = {}
    BY <1>1, <2>1, ListedNone DEF Placers
  <2>7. \A i \in Ids : Exists(i)' => Exists(i) /\ ctr'[i].app = ctr[i].app
    BY <2>1 DEF Exists
  <2>8. Step(c)
    BY <1>1, <1>2, LockedStep
  <2>9. QED BY <1>1, <2>1, <2>2, <2>3, <2>4, <2>5, <2>6, <2>7, <2>8, HolderFrame
<1>3. CASE recordLocked(c)
  <2>1. /\ r.op \in {"deploy", "activate", "tierUp", "tierDown"} /\ r.op \in Holders /\ r.pc = "events"
        /\ row' = row /\ ctr' = ctr /\ hist' = hist /\ End(c)
    BY <1>3 DEF recordLocked, Holders, Placers
  <2>2. Handed(req[c])' /\ Wanes
    BY <1>1, <2>1, EndHanded, SameWanes
  <2>3. \A i \in Listed(r.made) : i \in Listed(row[r.app].reps)
    <3>1. CASE r.op \in {"deploy", "tierUp"}
      BY <1>1, <2>1, <3>1 DEF Handed
    <3>2. CASE r.op \notin Placers
      BY <1>1, <3>2, ListedNone
    <3>3. QED BY <2>1, <3>1, <3>2 DEF Placers
  <2>4. QED BY <1>1, <1>3, <2>1, <2>2, <2>3, HolderQuiet
<1>4. QED BY <1>2, <1>3, LockTakenList, PlacingList, UndoneList, InsertedList, TierList DEF Locked

\* A request that takes no lock neither holds it before nor after.
LEMMA UnlockedIdle ==
    ASSUME CoreInv, NEW c \in Clients, Unlocked(c), ~upsert(c)
    PROVE  req[c].op \notin Holders /\ req'[c].op \notin Holders
<1>1. c \in Procs /\ RequestOK(req[c]) /\ Step(c)
  BY Names, UnlockedStep DEF CoreInv, ReqInv
<1>2. req[c].op \notin Holders
  <2>1. CASE req[c] = Rest
    BY <2>1, RestFine DEF Holders, Placers
  <2>2. CASE req[c].op \in {"suspend", "resume", "revoke", "start", "stop", "redeploy", "remove"}
    BY <2>2 DEF Holders, Placers
  <2>3. QED BY <1>1, <2>1, <2>2 DEF Unlocked, invoke, redeploy, setWorkspacePower, revokeWorkspace, upsert,
                 remove, unquarantine, Hub, Free, nextPowered, nextRevoked, writeInvoked, writePowered,
                 writeQuarantined, markRemoving, RequestOK
<1>3. lock' = lock \/ End(c)
  BY DEF Unlocked, invoke, redeploy, setWorkspacePower, revokeWorkspace, upsert,
         remove, unquarantine, nextPowered, nextRevoked, writeInvoked, writePowered,
         writeQuarantined, markRemoving, Done
<1>4. lock # c /\ c # "free"
  BY <1>2, Names DEF CoreInv, LockInv
<1>5. lock' # c
  BY <1>3, <1>4 DEF End
<1>6. QED BY <1>1, <1>2, <1>5 DEF Step, CoreInv, LockInv

\* It changes no list.
LEMMA UnlockedList ==
    ASSUME BooksInv, ListInv, NEW c \in Clients, Unlocked(c), ~upsert(c)
    PROVE  ListInv'
<1>1. /\ CoreInv /\ TypeOK /\ hist \in Histories /\ c \in Procs /\ RequestOK(req[c])
      /\ row \in [Apps -> Documents]
  BY Names DEF BooksInv, CoreInv, TypeOK, ReqInv
<1>2. Step(c) /\ req[c].op \notin Holders /\ req'[c].op \notin Holders
  BY <1>1, UnlockedStep, UnlockedIdle
<1>3. \A d \in Clients : req'[d] = req[d] \/ (req[d].op \notin Holders /\ req'[d].op \notin Holders)
  BY <1>2, Names DEF Step, Frame
<1>4. ctr' = ctr
  BY DEF Unlocked, invoke, redeploy, setWorkspacePower, revokeWorkspace, upsert, remove, unquarantine,
         nextPowered, nextRevoked, writeInvoked, writePowered, writeQuarantined, markRemoving
<1>5. RepsStay /\ hist'.leaked = hist.leaked => ListInv'
  BY <1>1, <1>3, <1>4, SameWanes, ListFrame
<1>6. CASE \/ \E a \in Apps, v \in {"start", "stop"} : invoke(c, a, v)
           \/ \E a \in Apps : redeploy(c, a)
           \/ \E v \in {"suspend", "resume"} : setWorkspacePower(c, v)
           \/ revokeWorkspace(c)
           \/ \E a \in Apps : remove(c, a)
  <2>1. row' = row /\ \E as : hist' = Torn(as)
    BY <1>6 DEF invoke, redeploy, setWorkspacePower, revokeWorkspace, remove
  <2>2. hist'.leaked = hist.leaked
    BY <1>1, <2>1 DEF Torn, Histories
  <2>3. QED BY <1>5, <2>1, <2>2, SameReps
<1>7. CASE nextPowered(c) \/ nextRevoked(c)
  BY <1>5, <1>7, SameReps DEF nextPowered, nextRevoked
<1>8. CASE \E a \in Apps : unquarantine(c, a)
  <2>1. PICK a \in Apps : unquarantine(c, a)
    BY <1>8
  <2>2. PICK d : d = [row[a] EXCEPT !.st = "RUNNING", !.stamp = "none"]
    OBVIOUS
  <2>3. d.st = "RUNNING" /\ d.reps = row[a].reps /\ row' = [row EXCEPT ![a] = d]
    BY <1>1, <2>1, <2>2 DEF unquarantine, Documents
  <2>4. hist'.leaked = hist.leaked
    <3>1. PICK g : g = Torn({a})
      OBVIOUS
    <3>2. g \in Histories /\ g.leaked = hist.leaked
      <4>1. {a} \cap InFlight \subseteq Apps
        OBVIOUS
      <4>2. QED BY <1>1, <3>1, <4>1 DEF Torn, Histories
    <3>3. hist' = [g EXCEPT !.revived = g.revived \cup {a}, !.grace[a] = "none",
                            !.held = g.held \ {a}]
      BY <2>1, <3>1 DEF unquarantine
    <3>4. QED BY <3>2, <3>3 DEF Histories
  <2>5. QED BY <1>1, <1>5, <2>3, <2>4, WriteReps
<1>9. CASE writeInvoked(c)
  <2> DEFINE r == req[c]
  <2>1. r.app \in Apps
    BY <1>1, <1>9 DEF writeInvoked, RequestOK, Loops
  <2>2. PICK t : t = IF r.op = "stop" THEN "STOPPED" ELSE "RUNNING"
    OBVIOUS
  <2>3. PICK d : d = [row[r.app] EXCEPT !.st = t]
    OBVIOUS
  <2>4. d.st # "NONE" /\ d.reps = row[r.app].reps /\ row' = [row EXCEPT ![r.app] = d]
    BY <1>1, <1>9, <2>1, <2>2, <2>3 DEF writeInvoked, Documents
  <2>5. hist'.leaked = hist.leaked
    BY <1>1, <1>9 DEF writeInvoked, Histories
  <2> HIDE DEF r
  <2>6. QED BY <1>1, <1>5, <2>1, <2>4, <2>5, WriteReps
<1>10. CASE writePowered(c)
  <2> DEFINE r == req[c]
  <2>1. r.app \in Apps
    BY <1>1, <1>10 DEF writePowered, RequestOK, Loops
  <2>2. PICK t, p : t = (IF r.op = "suspend" THEN "STOPPED" ELSE "RUNNING")
                    /\ p = (IF r.op = "suspend" THEN "yes" ELSE "no")
    OBVIOUS
  <2>3. PICK d : d = [row[r.app] EXCEPT !.st = t, !.susp = p]
    OBVIOUS
  <2>4. d.st # "NONE" /\ d.reps = row[r.app].reps /\ row' = [row EXCEPT ![r.app] = d]
    BY <1>1, <1>10, <2>1, <2>2, <2>3 DEF writePowered, Documents
  <2>5. hist'.leaked = hist.leaked
    BY <1>1, <1>10 DEF writePowered, Histories
  <2> HIDE DEF r
  <2>6. QED BY <1>1, <1>5, <2>1, <2>4, <2>5, WriteReps
<1>11. CASE writeQuarantined(c)
  <2> DEFINE r == req[c]
  <2>1. r.app \in Apps
    BY <1>1, <1>11 DEF writeQuarantined, RequestOK, Loops
  <2>2. PICK d : d = Quarantined(row[r.app])
    OBVIOUS
  <2>3. d.st # "NONE" /\ d.reps = row[r.app].reps /\ row' = [row EXCEPT ![r.app] = d]
    BY <1>1, <1>11, <2>1, <2>2 DEF writeQuarantined, Documents, Quarantined
  <2>4. hist'.leaked = hist.leaked
    BY <1>1, <1>11 DEF writeQuarantined, Histories
  <2> HIDE DEF r
  <2>5. QED BY <1>1, <1>5, <2>1, <2>3, <2>4, WriteReps
<1>12. CASE markRemoving(c)
  <2> DEFINE r == req[c]
  <2>1. r.app \in Apps
    BY <1>1, <1>12 DEF markRemoving, RequestOK, Loops
  <2>2. PICK d : d = [row[r.app] EXCEPT !.st = "REMOVING"]
    OBVIOUS
  <2>3. d.st # "NONE" /\ d.reps = row[r.app].reps /\ row' = [row EXCEPT ![r.app] = d] /\ hist' = hist
    BY <1>1, <1>12, <2>1, <2>2 DEF markRemoving, Documents
  <2> HIDE DEF r
  <2>4. QED BY <1>1, <1>5, <2>1, <2>3, WriteReps
<1>13. QED BY <1>6, <1>7, <1>8, <1>9, <1>10, <1>11, <1>12 DEF Unlocked

\* Nor does the reaper when it turns to an app.
LEMMA ReaperList ==
    ASSUME BooksInv, ListInv, reaperTick \/ nextReaped
    PROVE  ListInv'
<1>1. /\ CoreInv /\ TypeOK /\ hist \in Histories /\ row \in [Apps -> Documents]
      /\ req["reaper"] \in Requests
  BY Names DEF BooksInv, CoreInv, TypeOK
<1>2. \A d \in Clients : req'[d] = req[d]
  BY <1>1, ReaperTickStep, NextReapedStep, Names DEF Step, Frame
<1>3. ctr' = ctr /\ hist'.leaked = hist.leaked
  BY <1>1 DEF reaperTick, nextReaped, Torn, Histories
<1>4. RepsStay => ListInv'
  BY <1>1, <1>2, <1>3, SameWanes, ListFrame
<1>5. CASE row' = row
  BY <1>4, <1>5, SameReps
<1>6. CASE \E a \in req["reaper"].todo : row' = [row EXCEPT ![a].st = "REMOVING"]
  <2>1. PICK a \in Apps : row' = [row EXCEPT ![a].st = "REMOVING"]
    BY <1>1, <1>6 DEF Requests
  <2>2. PICK d : d = [row[a] EXCEPT !.st = "REMOVING"]
    OBVIOUS
  <2>3. d.st # "NONE" /\ d.reps = row[a].reps /\ row' = [row EXCEPT ![a] = d]
    BY <1>1, <2>1, <2>2 DEF Documents
  <2>4. QED BY <1>1, <1>4, <2>3, WriteReps
<1>7. QED BY <1>5, <1>6 DEF reaperTick, nextReaped

\* A step of one app is not one of the lock's holder.
LEMMA OneAppIdle ==
    ASSUME CoreInv, NEW c \in Procs, OneApp(c)
    PROVE  req[c].op \notin Holders /\ req'[c].op \notin Holders
<1> DEFINE r == req[c]
<1>1. r \in Requests /\ RequestOK(r) /\ req \in [Procs -> Requests]
  BY DEF CoreInv, TypeOK, ReqInv
<1>3. r.op \notin Holders
  <2>1. CASE r.pc = "agents"
    BY <1>1, <2>1 DEF RequestOK
  <2>2. CASE r.op \in {"revoke", "remove", "reap", "unquarantine"}
    BY <2>2 DEF Holders, Placers
  <2>3. QED BY <2>1, <2>2 DEF OneApp, askAgents, removeRoute, writeRemoved, recordUnlocked
<1>4. End(c) \/ Done(c) \/ Failed(c) \/ \E p : Goto(c, p)
  BY DEF OneApp, askAgents, removeRoute, writeRemoved, recordUnlocked
<1>5. req'[c].op \notin Holders
  <2>1. CASE End(c)
    BY <1>1, <2>1, EndHanded, RestFine DEF Holders, Placers
  <2>2. CASE req' = [req EXCEPT ![c] = [req[c] EXCEPT !.pc = "next", !.app = "none"]]
    BY <1>1, <1>3, <2>2 DEF Requests
  <2>3. CASE \E p : Goto(c, p)
    BY <1>1, <1>3, <2>3, GotoFields
  <2>4. QED BY <1>4, <2>1, <2>2, <2>3 DEF Done, Failed
<1>6. QED BY <1>3, <1>5

\* Nor do the steps of one app, though containers go away in them.
LEMMA OneAppList ==
    ASSUME BooksInv, ListInv, NEW c \in Procs, OneApp(c)
    PROVE  ListInv'
<1> DEFINE r == req[c]
<1>1. /\ CoreInv /\ TypeOK /\ hist \in Histories /\ row \in [Apps -> Documents]
      /\ r \in Requests /\ RequestOK(r) /\ req \in [Procs -> Requests]
  BY DEF BooksInv, CoreInv, TypeOK, ReqInv
<1>2. \A d \in Procs \ {c} : req'[d] = req[d]
  BY <1>1, OneAppStep DEF Step, Frame
<1>5. r.op \notin Holders /\ req'[c].op \notin Holders
  BY <1>1, OneAppIdle
<1>6. \A d \in Clients : req'[d] = req[d] \/ (req[d].op \notin Holders /\ req'[d].op \notin Holders)
  BY <1>2, <1>5, Names
<1>7. CASE askAgents(c)
  <2>1. /\ Ages /\ Wanes /\ row' = row /\ hist'.leaked = hist.leaked
    BY <1>1, <1>7, AskEffect
  <2>2. QED BY <1>1, <1>6, <2>1, SameReps, ListFrame
<1>8. CASE removeRoute(c) \/ recordUnlocked(c)
  <2>1. row' = row /\ ctr' = ctr /\ hist' = hist
    BY <1>8 DEF removeRoute, recordUnlocked
  <2>2. QED BY <1>1, <1>6, <2>1, SameWanes, SameReps, ListFrame
<1>9. CASE writeRemoved(c)
  <2>1. ctr' = ctr /\ hist' = hist /\ r.app \in Apps /\ row' = [row EXCEPT ![r.app].st = "REMOVED"]
    BY <1>1, <1>9 DEF writeRemoved, RequestOK, Loops
  <2>2. PICK d : d = [row[r.app] EXCEPT !.st = "REMOVED"]
    OBVIOUS
  <2>3. d.st # "NONE" /\ d.reps = row[r.app].reps /\ row' = [row EXCEPT ![r.app] = d]
    BY <1>1, <2>1, <2>2 DEF Documents
  <2> HIDE DEF r
  <2>4. RepsStay
    BY <1>1, <2>1, <2>3, WriteReps
  <2>5. QED BY <1>1, <1>6, <2>1, <2>4, SameWanes, ListFrame
<1>10. QED BY <1>7, <1>8, <1>9 DEF OneApp

\* A dying master forgets what was made: those containers are leaked.
LEMMA CrashList ==
    ASSUME BooksInv, ListInv, crash
    PROVE  ListInv'
<1>1. /\ CoreInv /\ TypeOK /\ hist \in Histories /\ row' = row /\ ctr' = ctr
      /\ \A c \in Procs : req'[c] = Rest
  BY DEF BooksInv, CoreInv, TypeOK, crash
<1>2. hist'.leaked = hist.leaked \cup UNION {Listed(req[c].made) : c \in Procs}
  <2>1. PICK M : M = UNION {Listed(req[c].made) : c \in Procs}
    OBVIOUS
  <2>2. hist' = [hist EXCEPT !.torn = hist.torn \cup InFlight, !.leaked = hist.leaked \cup M]
    BY <2>1 DEF crash
  <2>3. hist'.leaked = hist.leaked \cup M
    BY <1>1, <2>2 DEF Histories
  <2>4. QED BY <2>1, <2>3
<1>3. \A c \in Clients : Listed(req[c].made) \subseteq hist'.leaked
  BY <1>2, Names
<1>4. ListedOrLeaked'
  <2>1. \A i \in Ids : Exists(i)' => Exists(i) /\ ctr'[i].app = ctr[i].app
    BY <1>1 DEF Exists
  <2>2. QED BY <1>1, <1>2, <1>3, <2>1 DEF ListInv, ListedOrLeaked
<1>5. \A c \in Clients : Handed(req[c])'
  BY <1>1, Names DEF Handed, Rest
<1>6. \A a \in Apps : row'[a].st = "NONE" => row'[a].reps = <<>>
  BY <1>1 DEF ListInv
<1>7. QED BY <1>4, <1>5, <1>6 DEF ListInv

\* Boot reconciliation lists what it takes in, and drops nothing that was listed.
LEMMA ReconcileList ==
    ASSUME BooksInv, ListInv, NEW i \in Ids, reconcileContainer(i)
    PROVE  ListInv'
<1> DEFINE a == ctr[i].app
<1>1. /\ CoreInv /\ TypeOK /\ hist \in Histories /\ row \in [Apps -> Documents]
      /\ ctr \in [Ids -> Containers]
  BY DEF BooksInv, CoreInv, TypeOK
<1>2. req' = req /\ i \in boot.todo /\ Exists(i) /\ \A c \in Clients : req[c] = Rest
  <2>1. req' = req /\ i \in boot.todo
    BY DEF reconcileContainer
  <2>2. boot.up \in {"yes", "no"}
    BY <1>1 DEF TypeOK
  <2>3. QED BY <1>1, <2>1, <2>2, Names DEF CoreInv, LockInv
<1>3. a \in Apps
  BY <1>1, <1>2, OfAnApp
<1>4. CASE row' = row /\ hist' = hist
  <2>1. Ages /\ Wanes
    <3>1. CASE ctr' = ctr
      BY <3>1, SameWanes
    <3>2. CASE ctr' = [ctr EXCEPT ![i].st = "stopped"]
      <4>1. ctr'[i].app = ctr[i].app /\ ctr'[i].st = "stopped" /\ \A j \in Ids \ {i} : ctr'[j] = ctr[j]
        BY <1>1, <1>2, <3>2 DEF Containers, Absent, Exists
      <4>2. QED BY <1>2, <4>1 DEF Ages, Wanes, Exists
    <3>3. QED BY <3>1, <3>2 DEF reconcileContainer
  <2>2. QED BY <1>1, <1>2, <1>4, <2>1, SameReps, ListFrame
<1>5. CASE /\ row' = [row EXCEPT ![a] = adopted(row[a], i)] /\ ctr' = ctr
           /\ hist' = [hist EXCEPT !.moved = hist.moved \cup {a}, !.leaked = hist.leaked \ {i}]
  <2>1. PICK t : t = IF ctr[i].st = "running" THEN "RUNNING" ELSE "STOPPED"
    OBVIOUS
  <2>2. PICK d : d = adopted(row[a], i)
    OBVIOUS
  <2>3. row[a].reps \in Seq(Ids) /\ row[a] \in Documents
    BY <1>1, <1>3 DEF Documents
  <2>4. Listed(d.reps) = Listed(row[a].reps) \cup {i} /\ d.st # "NONE"
    <3>1. CASE row[a].st = "NONE"
      <4>1. d = [None EXCEPT !.st = t, !.reps = <<i>>]
        BY <2>1, <2>2, <3>1 DEF adopted
      <4>2. d.reps = <<i>> /\ d.st = t
        BY <4>1 DEF None
      <4>3. Listed(row[a].reps) = {}
        BY <1>3, <3>1, ListedNone DEF ListInv
      <4>4. QED BY <2>1, <4>2, <4>3, ListedOne
    <3>2. CASE row[a].st # "NONE"
      <4>1. d = [row[a] EXCEPT !.st = t, !.reps = Append(row[a].reps, i)]
        BY <2>1, <2>2, <3>2 DEF adopted
      <4>2. d.reps = Append(row[a].reps, i) /\ d.st = t
        BY <2>3, <4>1 DEF Documents
      <4>3. QED BY <2>1, <2>3, <4>2, Extended
    <3>3. QED BY <3>1, <3>2
  <2>5. row'[a] = d /\ \A b \in Apps \ {a} : row'[b] = row[b]
    BY <1>1, <1>3, <1>5, <2>2
  <2>6. hist'.leaked = hist.leaked \ {i}
    BY <1>1, <1>5 DEF Histories
  <2>7. ListedOrLeaked'
    <3> SUFFICES ASSUME NEW j \in Ids, Exists(j)'
                 PROVE  \/ ctr'[j].app \in Apps /\ j \in Listed(row'[ctr'[j].app].reps)
                        \/ \E c \in Clients : j \in Listed(req'[c].made)
                        \/ j \in hist'.leaked
      BY DEF ListedOrLeaked
    <3>1. ctr'[j].app = ctr[j].app /\ Exists(j)
      BY <1>5 DEF Exists
    <3>2. CASE j = i
      BY <1>3, <1>5, <2>4, <2>5, <3>2
    <3>3. CASE j # i
      <4>1. \/ ctr[j].app \in Apps /\ j \in Listed(row[ctr[j].app].reps)
            \/ \E c \in Clients : j \in Listed(req[c].made)
            \/ j \in hist.leaked
        BY <3>1 DEF ListInv, ListedOrLeaked
      <4>2. ctr[j].app \in Apps => Listed(row[ctr[j].app].reps) \subseteq Listed(row'[ctr[j].app].reps)
        BY <2>4, <2>5
      <4>3. QED BY <1>2, <2>6, <3>1, <3>3, <4>1, <4>2
    <3>4. QED BY <3>2, <3>3
  <2>8. \A c \in Clients : Handed(req[c])'
    BY <1>2 DEF Handed, Rest
  <2>9. \A b \in Apps : row'[b].st = "NONE" => row'[b].reps = <<>>
    BY <2>4, <2>5 DEF ListInv
  <2>10. QED BY <2>7, <2>8, <2>9 DEF ListInv
<1>6. QED BY <1>4, <1>5 DEF reconcileContainer

\* Every step keeps the containers listed, made or leaked.
LEMMA ListKept ==
    ASSUME BooksInv, ListInv, [Next]_vars
    PROVE  ListInv'
<1>1. CoreInv /\ hist \in Histories /\ TypeOK /\ row \in [Apps -> Documents]
  BY DEF BooksInv, CoreInv, TypeOK
<1>2. CASE Working
  <2>1. CASE \E c \in Clients : (Locked(c) \/ Unlocked(c)) /\ ~upsert(c)
    BY <2>1, LockedList, UnlockedList
  <2>2. QED BY <1>2, <2>1, ReaperList, OneAppList DEF Working
<1>3. CASE Around
  <2>1. row' = row /\ req' = req /\ ctr' = ctr /\ hist'.leaked = hist.leaked
    BY <1>1, <1>3 DEF Around, upsert, setStatus, reconcileUnanswered, serve, vars, Histories
  <2>2. QED BY <1>1, <2>1, SameWanes, SameReps, ListFrame
<1>4. CASE \E a \in Apps : graceExpires(a)
  <2>1. PICK a \in Apps : graceExpires(a)
    BY <1>4
  <2>2. /\ ctr' = ctr /\ req' = req /\ row' = [row EXCEPT ![a].stamp = "old"]
        /\ \E g : hist' = [hist EXCEPT !.grace[a] = g]
    BY <2>1 DEF graceExpires
  <2>3. hist'.leaked = hist.leaked
    BY <1>1, <2>2 DEF Histories
  <2>4. RepsStay
    BY <1>1, <2>2 DEF Documents, RepsStay
  <2>5. QED BY <1>1, <2>2, <2>3, <2>4, SameWanes, ListFrame
<1>5. CASE crash
  BY <1>5, CrashList
<1>6. CASE \E i \in Ids : reconcileContainer(i)
  BY <1>6, ReconcileList
<1>7. QED BY <1>2, <1>3, <1>4, <1>5, <1>6, NextSplits

\* Where the containers are, in every state.
LEMMA WhereaboutsHold == Spec => [](BooksInv /\ GoneInv /\ ListInv)
<1>1. Init => BooksInv /\ GoneInv /\ ListInv
  <2> SUFFICES ASSUME Init
               PROVE  BooksInv /\ GoneInv /\ ListInv
    OBVIOUS
  <2>1. \A i \in Ids : ~Exists(i)
    BY DEF Init, Absent, Exists
  <2>2. \A a \in Apps : row[a].st = "NONE" /\ row[a].reps = <<>>
    BY DEF Init, None
  <2>3. \A c \in Procs : req[c] = Rest
    BY DEF Init
  <2>4. GoneInv
    BY <2>2, <2>3 DEF GoneInv, Retires, Rest
  <2>5. \A c \in Clients : Handed(req[c])
    BY <2>3, Names DEF Handed, Rest
  <2>6. ListInv
    BY <2>1, <2>2, <2>5 DEF ListInv, ListedOrLeaked
  <2>7. QED BY <2>4, <2>6, BooksStart
<1>2. BooksInv /\ GoneInv /\ ListInv /\ [Next]_vars => (BooksInv /\ GoneInv /\ ListInv)'
  BY BooksKept, GoneKept, ListKept
<1>3. QED BY <1>1, <1>2, PTL DEF Spec

\* Documents and nodes account for each other: a container that is there is in its
\* app's document, in the hands of the request that made it, or leaked; and one whose
\* document says REMOVED is gone (destroy, deployToNodes and its undo, the tier change,
\* boot reconciliation).
THEOREM ContainersAreAccounted == Spec => []ContainersAccounted
<1>1. BooksInv /\ GoneInv /\ ListInv => ContainersAccounted
  <2>1. GoneInv => RemovedIsGone
    BY DEF GoneInv, RemovedIsGone, Excused, Gone
  <2>2. ListInv => ListedOrLeaked
    BY DEF ListInv
  <2>3. QED BY <2>1, <2>2 DEF ContainersAccounted
<1>2. QED BY <1>1, WhereaboutsHold, PTL

-----------------------------------------------------------------------------
(* Counting what is installed and what is reserved                         *)

\* The installed apps of the documents R, and the replicas they reserve.
Inst(R)  == {a \in Apps : isInstalledForQuota(R[a])}
Slots(R) == {x \in Apps \X Ids : x[1] \in Inst(R) /\ x[2] \in DOMAIN R[x[1]].reps}

\* Both are finite.
LEMMA Counted ==
    ASSUME NEW R
    PROVE  /\ IsFiniteSet(Inst(R)) /\ IsFiniteSet(Slots(R))
           /\ Cardinality(Inst(R)) \in Nat /\ Cardinality(Slots(R)) \in Nat
<1>1. IsFiniteSet(Apps) /\ MaxContainers \in Nat
  BY ConstantsAssumption DEF ConstantsAssumption
<1>2. IsFiniteSet(Ids)
  BY <1>1, FS_Interval DEF Ids
<1>3. IsFiniteSet(Apps \X Ids)
  BY <1>1, <1>2, FS_Product
<1>4. Inst(R) \in SUBSET Apps /\ Slots(R) \in SUBSET (Apps \X Ids)
  BY DEF Inst, Slots
<1>5. IsFiniteSet(Inst(R)) /\ IsFiniteSet(Slots(R))
  BY <1>1, <1>3, <1>4, FS_Subset
<1>6. QED BY <1>5, FS_CardinalityType

\* Whatever the documents Q count, the documents R count.
Eases(R, Q) ==
    \A a \in Apps : isInstalledForQuota(Q[a]) =>
        isInstalledForQuota(R[a]) /\ DOMAIN Q[a].reps \subseteq DOMAIN R[a].reps

\* What counts for no more is no more.
LEMMA Fewer ==
    ASSUME NEW R, NEW Q, Eases(R, Q)
    PROVE  /\ Cardinality(Inst(Q)) <= Cardinality(Inst(R))
           /\ Cardinality(Slots(Q)) <= Cardinality(Slots(R))
<1>1. Inst(Q) \in SUBSET Inst(R) /\ Slots(Q) \in SUBSET Slots(R)
  BY DEF Inst, Slots, Eases
<1>2. QED BY <1>1, Counted, FS_Subset

\* The document of one app counts for at most k replicas more than it did.
LEMMA Grown ==
    ASSUME NEW R, NEW Q, NEW a \in Apps, NEW m \in Nat, NEW k \in Nat,
           \A b \in Apps \ {a} : Q[b] = R[b],
           DOMAIN Q[a].reps = 1..(m + k),
           m > 0 => isInstalledForQuota(R[a]) /\ DOMAIN R[a].reps = 1..m
    PROVE  /\ Cardinality(Inst(Q)) <= Cardinality(Inst(R)) + 1
           /\ isInstalledForQuota(R[a]) => Cardinality(Inst(Q)) <= Cardinality(Inst(R))
           /\ Cardinality(Slots(Q)) <= Cardinality(Slots(R)) + k
<1> DEFINE More == {a} \X ((m + 1)..(m + k))
<1>1. /\ IsFiniteSet(Inst(R)) /\ IsFiniteSet(Slots(R)) /\ Cardinality(Inst(R)) \in Nat
      /\ Cardinality(Slots(R)) \in Nat /\ Cardinality(Inst(Q)) \in Nat
      /\ Cardinality(Slots(Q)) \in Nat
  BY Counted
<1>2. IsFiniteSet({a}) /\ Cardinality({a}) = 1
  BY FS_Singleton
<1>3. IsFiniteSet((m + 1)..(m + k)) /\ Cardinality((m + 1)..(m + k)) = k
  <2>1. m + 1 \in Int /\ m + k \in Int
    OBVIOUS
  <2>2. Cardinality((m + 1)..(m + k)) = IF m + 1 > m + k THEN 0 ELSE (m + k) - (m + 1) + 1
    BY <2>1, FS_Interval
  <2>3. (IF m + 1 > m + k THEN 0 ELSE (m + k) - (m + 1) + 1) = k
    OBVIOUS
  <2>4. QED BY <2>1, <2>2, <2>3, FS_Interval
<1>4. IsFiniteSet(More) /\ Cardinality(More) = k
  <2>1. IsFiniteSet(More) /\ Cardinality(More) = 1 * k
    BY <1>2, <1>3, FS_Product
  <2>2. QED BY <2>1
<1>5. Inst(Q) \subseteq Inst(R) \cup {a} /\ (isInstalledForQuota(R[a]) => Inst(Q) \subseteq Inst(R))
  BY DEF Inst
<1>6. Slots(Q) \subseteq Slots(R) \cup More
  <2> SUFFICES ASSUME NEW x \in Slots(Q)
               PROVE  x \in Slots(R) \cup More
    OBVIOUS
  <2>1. x \in Apps \X Ids /\ x[1] \in Inst(Q) /\ x[2] \in DOMAIN Q[x[1]].reps
    BY DEF Slots
  <2>2. CASE x[1] # a
    BY <2>1, <2>2 DEF Slots, Inst
  <2>3. CASE x[1] = a /\ x[2] \in 1..m
    <3>1. m > 0
      BY <2>3
    <3>2. QED BY <2>1, <2>3, <3>1 DEF Slots, Inst
  <2>4. CASE x[1] = a /\ x[2] \notin 1..m
    <3>1. x[2] \in 1..(m + k)
      BY <2>1, <2>4
    <3>2. x[2] \in (m + 1)..(m + k)
      BY <2>4, <3>1
    <3>3. x = <<x[1], x[2]>>
      BY <2>1
    <3>4. QED BY <2>4, <3>2, <3>3
  <2>5. QED BY <2>2, <2>3, <2>4
<1> HIDE DEF More
<1>7. \A S, T : IsFiniteSet(S) /\ IsFiniteSet(T) =>
        IsFiniteSet(S \cup T) /\ Cardinality(S \cup T) <= Cardinality(S) + Cardinality(T)
  <2> SUFFICES ASSUME NEW S, NEW T, IsFiniteSet(S), IsFiniteSet(T)
               PROVE  IsFiniteSet(S \cup T) /\ Cardinality(S \cup T) <= Cardinality(S) + Cardinality(T)
    OBVIOUS
  <2>1. /\ IsFiniteSet(S \cup T)
        /\ Cardinality(S \cup T) = Cardinality(S) + Cardinality(T) - Cardinality(S \cap T)
    BY FS_Union
  <2>2. IsFiniteSet(S \cap T)
    BY FS_Intersection
  <2>3. Cardinality(S) \in Nat /\ Cardinality(T) \in Nat /\ Cardinality(S \cap T) \in Nat
    BY <2>2, FS_CardinalityType
  <2>4. QED BY <2>1, <2>3
<1>8. Cardinality(Inst(Q)) <= Cardinality(Inst(R)) + 1
  <2>1. /\ IsFiniteSet(Inst(R) \cup {a})
        /\ Cardinality(Inst(R) \cup {a}) <= Cardinality(Inst(R)) + 1
    BY <1>1, <1>2, <1>7
  <2>2. Cardinality(Inst(Q)) <= Cardinality(Inst(R) \cup {a}) /\ Cardinality(Inst(R) \cup {a}) \in Nat
    BY <1>5, <2>1, FS_Subset, FS_CardinalityType
  <2>3. QED BY <1>1, <2>1, <2>2
<1>9. isInstalledForQuota(R[a]) => Cardinality(Inst(Q)) <= Cardinality(Inst(R))
  BY <1>1, <1>5, FS_Subset
<1>10. Cardinality(Slots(Q)) <= Cardinality(Slots(R)) + k
  <2>1. /\ IsFiniteSet(Slots(R) \cup More)
        /\ Cardinality(Slots(R) \cup More) <= Cardinality(Slots(R)) + k
    BY <1>1, <1>4, <1>7
  <2>2. Cardinality(Slots(Q)) <= Cardinality(Slots(R) \cup More) /\ Cardinality(Slots(R) \cup More) \in Nat
    BY <1>6, <2>1, FS_Subset, FS_CardinalityType
  <2>3. QED BY <1>1, <2>1, <2>2
<1>11. QED BY <1>8, <1>9, <1>10

-----------------------------------------------------------------------------
(* The quota                                                               *)

\* No app came back without a check, and no operations overlapped.
Clean == hist.moved = {} /\ hist.revived = {} /\ hist.torn = {}

Fits(R) == Cardinality(Inst(R)) <= MaxApps /\ Cardinality(Slots(R)) <= MaxReplicas

\* The quota has room for what a request that checked it has yet to write.
Headroom(R, r) ==
    /\ r.op \in {"deploy", "install"} /\ r.pc \in {"place", "ingress", "row"} =>
         /\ Cardinality(Inst(R)) + 1 <= MaxApps
         /\ Cardinality(Slots(R)) + (Len(r.made) + Len(r.plan)) <= MaxReplicas
    /\ r.op = "tierUp" /\ r.pc # "events" => Cardinality(Slots(R)) + 1 <= MaxReplicas

QuotaInv == Clean => Fits(row) /\ \A c \in Clients : Headroom(row, req[c])

\* Where the documents count for no more, the room stays.
LEMMA RoomEases ==
    ASSUME NEW R, NEW Q, Eases(R, Q), NEW r \in Requests
    PROVE  /\ Fits(R) => Fits(Q)
           /\ Headroom(R, r) => Headroom(Q, r)
<1>1. /\ Cardinality(Inst(R)) \in Nat /\ Cardinality(Slots(R)) \in Nat
      /\ Cardinality(Inst(Q)) \in Nat /\ Cardinality(Slots(Q)) \in Nat
      /\ Cardinality(Inst(Q)) <= Cardinality(Inst(R))
      /\ Cardinality(Slots(Q)) <= Cardinality(Slots(R))
  BY Counted, Fewer
<1>2. MaxApps \in Nat /\ MaxReplicas \in Nat
  BY ConstantsAssumption DEF ConstantsAssumption
<1>3. Len(r.made) \in Nat /\ Len(r.plan) \in Nat
  BY DEF Requests
<1>4. Fits(R) => Fits(Q)
  BY <1>1, <1>2 DEF Fits
<1>5. ASSUME NEW n \in Nat, Cardinality(Slots(R)) + n <= MaxReplicas
      PROVE  Cardinality(Slots(Q)) + n <= MaxReplicas
  BY <1>1, <1>2, <1>5
<1>6. Len(r.made) + Len(r.plan) \in Nat /\ 1 \in Nat
  <2>1. \A m, n \in Nat : m + n \in Nat
    OBVIOUS
  <2>2. QED BY <1>3, <2>1
<1>7. Cardinality(Inst(R)) + 1 <= MaxApps => Cardinality(Inst(Q)) + 1 <= MaxApps
  BY <1>1, <1>2
<1>8. Headroom(R, r) => Headroom(Q, r)
  BY <1>5, <1>6, <1>7 DEF Headroom
<1>9. QED BY <1>4, <1>8

\* Documents that do not change count for no more.
LEMMA SameEases == ASSUME row' = row PROVE Eases(row, row')
BY DEF Eases

\* A document that is written and counts for no more.
LEMMA WriteEases ==
    ASSUME TypeOK, NEW a \in Apps, NEW d, row' = [row EXCEPT ![a] = d],
           isInstalledForQuota(d) =>
               isInstalledForQuota(row[a]) /\ DOMAIN d.reps \subseteq DOMAIN row[a].reps
    PROVE  Eases(row, row')
BY DEF Eases, TypeOK

\* A step of c after which the documents count for no more keeps the quota, if c
\* needs no more room.
LEMMA QuotaFrom ==
    ASSUME TypeOK, QuotaInv, NEW c, \A d \in Clients \ {c} : req'[d] = req[d],
           Clean' => Clean /\ Eases(row, row'),
           c \in Clients /\ Headroom(row, req[c]) => req'[c] \in Requests /\ Headroom(row, req'[c])
    PROVE  QuotaInv'
<1> SUFFICES ASSUME Clean'
             PROVE  Fits(row') /\ \A d \in Clients : Headroom(row', req'[d])
  BY DEF QuotaInv, Fits, Headroom, Inst, Slots, isInstalledForQuota
<1>1. Eases(row, row') /\ Fits(row) /\ \A d \in Clients : Headroom(row, req[d]) /\ req[d] \in Requests
  BY Names DEF QuotaInv, TypeOK
<1>2. Rest \in Requests
  BY RestFine
<1>3. Fits(row')
  BY <1>1, <1>2, RoomEases
<1>4. ASSUME NEW d \in Clients PROVE Headroom(row', req'[d])
  <2>1. req'[d] \in Requests /\ Headroom(row, req'[d])
    BY <1>1
  <2>2. QED BY <1>1, <2>1, RoomEases
<1>5. QED BY <1>3, <1>4

\* A request that holds no lock needs no room.
LEMMA IdleRoom ==
    ASSUME NEW R, NEW r, r.op \notin Placers
    PROVE  Headroom(R, r)
BY DEF Headroom, Placers

\* The apps that came back are remembered.
LEMMA RevivedGrows ==
    ASSUME TypeOK, [Next]_vars
    PROVE  hist.revived \subseteq hist'.revived
<1>1. hist \in Histories
  BY DEF TypeOK
<1>2. CASE hist' = hist
  BY <1>2
<1>3. CASE \E as : hist' = Torn(as)
  BY <1>1, <1>3 DEF Torn, Histories
<1>4. CASE \E x, y : \/ hist' = [hist EXCEPT !.leaked = x]
                     \/ hist' = [hist EXCEPT !.moved = x]
                     \/ hist' = [hist EXCEPT !.torn = x]
                     \/ hist' = [hist EXCEPT !.drained = x]
                     \/ hist' = [hist EXCEPT !.moved = x, !.held = y]
                     \/ hist' = [hist EXCEPT !.torn = x, !.leaked = y]
                     \/ hist' = [hist EXCEPT !.moved = x, !.leaked = y]
  BY <1>1, <1>4 DEF Histories
<1>5. ASSUME NEW c \in Clients, Locked(c)
      PROVE  \/ hist' = hist
             \/ \E as : hist' = Torn(as)
             \/ \E x : hist' = [hist EXCEPT !.leaked = x] \/ hist' = [hist EXCEPT !.moved = x]
  <2>1. CASE \/ \E a \in Apps, k \in {1, 2} : deploy(c, a, k) \/ deployMcp(c, a, k)
             \/ \E a \in Apps, t \in {"single", "ha"} : changeAvailabilityTier(c, a, t)
             \/ \E a \in Apps : activateMcp(c, a)
    BY <2>1 DEF deploy, deployMcp, Begin, changeAvailabilityTier, activateMcp
  <2>2. CASE deployToNodes(c) \/ deployMcpToNodes(c) \/ deploySecond(c)
    BY <2>2 DEF deployToNodes, deployMcpToNodes, deploySecond, Placed, NotPlaced
  <2>3. CASE compensate(c) \/ shrink(c) \/ programRoute(c) \/ insertApp(c)
    BY <2>3 DEF compensate, shrink, programRoute, insertApp
  <2>4. CASE writeTier(c) \/ flipActivated(c) \/ recordLocked(c)
    BY <2>4 DEF writeTier, flipActivated, recordLocked
  <2>5. QED BY <1>5, <2>1, <2>2, <2>3, <2>4 DEF Locked
<1>6. ASSUME NEW c \in Clients, Unlocked(c)
      PROVE  hist.revived \subseteq hist'.revived
  <2>1. CASE \E a \in Apps : unquarantine(c, a)
    <3>1. PICK a \in Apps : unquarantine(c, a)
      BY <2>1
    <3>2. PICK g : g = Torn({a})
      OBVIOUS
    <3>3. g.revived = hist.revived /\ DOMAIN g = DOMAIN hist
      BY <1>1, <3>2 DEF Torn, Histories
    <3>4. hist' = [g EXCEPT !.revived = g.revived \cup {a}, !.grace[a] = "none",
                            !.held = g.held \ {a}]
      BY <3>1, <3>2 DEF unquarantine
    <3>5. hist'.revived = g.revived \cup {a}
      BY <1>1, <3>3, <3>4 DEF Histories
    <3>6. QED BY <3>3, <3>5
  <2>2. CASE writePowered(c)
    <3>1. PICK v : /\ v = IF row[req[c].app].st \notin {"RUNNING", "STOPPED"}
                          THEN hist.revived \cup {req[c].app} ELSE hist.revived
                   /\ hist' = [hist EXCEPT !.revived = v]
      BY <2>2 DEF writePowered
    <3>2. QED BY <1>1, <3>1 DEF Histories
  <2>3. CASE writeQuarantined(c)
    <3>1. \E x, y, a : hist' = [hist EXCEPT !.grace[a] = x, !.held = y]
      BY <2>3 DEF writeQuarantined
    <3>2. QED BY <1>1, <3>1 DEF Histories
  <2>4. CASE writeInvoked(c)
    BY <1>4, <2>4 DEF writeInvoked
  <2>5. CASE \/ \E a \in Apps, v \in {"start", "stop"} : invoke(c, a, v)
             \/ \E a \in Apps : redeploy(c, a)
             \/ \E v \in {"suspend", "resume"} : setWorkspacePower(c, v)
             \/ revokeWorkspace(c)
             \/ \E a \in Apps : remove(c, a)
    BY <1>3, <2>5 DEF invoke, redeploy, setWorkspacePower, revokeWorkspace, remove
  <2>6. CASE upsert(c) \/ nextPowered(c) \/ nextRevoked(c) \/ markRemoving(c)
    BY <1>2, <2>6 DEF upsert, nextPowered, nextRevoked, markRemoving
  <2>7. QED BY <1>6, <2>1, <2>2, <2>3, <2>4, <2>5, <2>6 DEF Unlocked
<1>7. CASE reaperTick \/ nextReaped
  BY <1>2, <1>3, <1>7 DEF reaperTick, nextReaped
<1>8. CASE \E c \in Procs : OneApp(c)
  BY <1>2, <1>4, <1>8 DEF OneApp, askAgents, removeRoute, writeRemoved, recordUnlocked
<1>9. CASE Around
  <2>1. hist' = hist \/ \E x : hist' = [hist EXCEPT !.drained = x]
    BY <1>9 DEF Around, upsert, setStatus, reconcileUnanswered, serve, vars
  <2>2. QED BY <1>2, <1>4, <2>1
<1>10. CASE \E a \in Apps : graceExpires(a)
  <2>1. \E a, x : hist' = [hist EXCEPT !.grace[a] = x]
    BY <1>10 DEF graceExpires
  <2>2. QED BY <1>1, <2>1 DEF Histories
<1>11. CASE crash \/ \E i \in Ids : reconcileContainer(i)
  BY <1>2, <1>4, <1>11 DEF crash, reconcileContainer
<1>12. QED
  <2>1. CASE Working
    BY <1>2, <1>3, <1>4, <1>5, <1>6, <1>7, <1>8, <2>1 DEF Working
  <2>2. QED BY <1>9, <1>10, <1>11, <2>1, NextSplits

\* So a history that is clean was clean before.
LEMMA CleanBefore ==
    ASSUME BooksInv, [Next]_vars
    PROVE  Clean' => Clean
<1>1. TypeOK /\ hist \in Histories
  BY DEF BooksInv, CoreInv, TypeOK
<1>2. hist.revived \subseteq hist'.revived
  BY <1>1, RevivedGrows
<1>3. hist.torn \subseteq hist'.torn /\ hist.moved \subseteq hist'.moved
  <2>1. CASE Working
    BY <2>1, WorkingStep DEF BooksInv, Step, Frame
  <2>2. CASE Around
    BY <1>1, <2>2 DEF Around, upsert, setStatus, reconcileUnanswered, serve, vars, Histories
  <2>3. CASE \E a \in Apps : graceExpires(a)
    <3>1. \E a, x : hist' = [hist EXCEPT !.grace[a] = x]
      BY <2>3 DEF graceExpires
    <3>2. QED BY <1>1, <3>1 DEF Histories
  <2>4. CASE crash
    BY <1>1, <2>4 DEF crash, Histories
  <2>5. CASE \E i \in Ids : reconcileContainer(i)
    <3>1. hist' = hist \/ \E a, x : hist' = [hist EXCEPT !.moved = hist.moved \cup {a}, !.leaked = x]
      BY <2>5 DEF reconcileContainer
    <3>2. CASE \E a, x : hist' = [hist EXCEPT !.moved = hist.moved \cup {a}, !.leaked = x]
      BY <1>1, <3>2 DEF Histories
    <3>3. QED BY <3>1, <3>2
  <2>6. QED BY <2>1, <2>2, <2>3, <2>4, <2>5, NextSplits
<1>4. QED BY <1>2, <1>3 DEF Clean

\* A request that checked the quota takes the room it found.
LEMMA LockTakenRoom ==
    ASSUME BooksInv, NEW c \in Clients,
           \/ \E a \in Apps, k \in {1, 2} : deploy(c, a, k) \/ deployMcp(c, a, k)
           \/ \E a \in Apps, t \in {"single", "ha"} : changeAvailabilityTier(c, a, t)
           \/ \E a \in Apps : activateMcp(c, a)
    PROVE  Headroom(row, req'[c])
<1>1. c \in Procs /\ req \in [Procs -> Requests]
  BY Names DEF BooksInv, CoreInv, TypeOK
<1>2. CASE \E a \in Apps, k \in {1, 2} : deploy(c, a, k) \/ deployMcp(c, a, k)
  <2>1. PICK a \in Apps, k \in {1, 2}, op \in {"deploy", "install"} : Begin(c, a, k, op)
    BY <1>2 DEF deploy, deployMcp
  <2>2. PICK sel \in selectNodes(Nodes, k) :
          req' = [req EXCEPT ![c] = [Rest EXCEPT !.op = op, !.app = a, !.pc = "place", !.plan = sel]]
    BY <2>1 DEF Begin
  <2>3. req'[c].op = op /\ req'[c].made = <<>> /\ req'[c].plan = sel
    BY <1>1, <2>2 DEF Rest
  <2>4. Len(sel) = k /\ Len(<<>>) = 0
    BY Selected
  <2>5. Len(req'[c].made) + Len(req'[c].plan) = k
    <3>1. Len(req'[c].made) = 0 /\ Len(req'[c].plan) = k
      BY <2>3, <2>4, Zenon
    <3>2. 0 + k = k
      OBVIOUS
    <3>3. QED BY <3>1, <3>2
  <2>6. Cardinality(Inst(row)) < MaxApps /\ Cardinality(Slots(row)) + k <= MaxReplicas
    BY <2>1 DEF Begin, assertDeployAllowed, ReservedReplicas, InstalledApps, Inst, Slots
  <2>7. Cardinality(Inst(row)) + 1 <= MaxApps
    BY <2>6, Counted, ConstantsAssumption DEF ConstantsAssumption
  <2>8. QED BY <2>3, <2>5, <2>6, <2>7 DEF Headroom
<1>3. CASE \E a \in Apps, t \in {"single", "ha"} : changeAvailabilityTier(c, a, t)
  <2>1. PICK a \in Apps, t \in {"single", "ha"} : changeAvailabilityTier(c, a, t)
    BY <1>3
  <2>2. CASE /\ assertAdditionalReplicaAllowed
             /\ \E sel : req' = [req EXCEPT ![c] = [Rest EXCEPT
                               !.op = "tierUp", !.app = a, !.pc = "place", !.plan = sel,
                               !.snap = Snap({a})]]
    <3>1. req'[c].op = "tierUp"
      BY <1>1, <2>2 DEF Rest
    <3>2. Cardinality(Slots(row)) + 1 <= MaxReplicas
      BY <2>2 DEF assertAdditionalReplicaAllowed, ReservedReplicas, InstalledApps, Inst, Slots
    <3>3. QED BY <3>1, <3>2 DEF Headroom
  <2>3. CASE req' = [req EXCEPT ![c] = [Rest EXCEPT
                             !.op = "tierDown", !.app = a, !.pc = "shrink",
                             !.snap = Snap({a})]]
    <3>1. req'[c].op = "tierDown"
      BY <1>1, <2>3 DEF Rest
    <3>2. QED BY <3>1 DEF Headroom
  <2>4. QED BY <2>1, <2>2, <2>3 DEF changeAvailabilityTier
<1>4. CASE \E a \in Apps : activateMcp(c, a)
  <2>1. req'[c].op = "activate"
    BY <1>1, <1>4 DEF activateMcp, Rest
  <2>2. QED BY <2>1 DEF Headroom
<1>5. QED BY <1>2, <1>3, <1>4

\* One that is at work needs no more than it found, until it writes.
LEMMA WorkRoom ==
    ASSUME BooksInv, NEW c \in Clients, Headroom(row, req[c]),
           \/ deployToNodes(c) \/ deployMcpToNodes(c) \/ deploySecond(c)
           \/ compensate(c) \/ shrink(c) \/ programRoute(c)
           \/ flipActivated(c) \/ recordLocked(c)
    PROVE  Headroom(row, req'[c])
<1> DEFINE r == req[c]
<1>1. /\ CoreInv /\ TypeOK /\ c \in Procs /\ r \in Requests /\ RequestOK(r)
      /\ req \in [Procs -> Requests]
  BY Names DEF BooksInv, CoreInv, TypeOK, ReqInv
<1>2. CASE End(c)
  <2>1. req'[c] = Rest
    BY <1>1, <1>2, EndHanded
  <2>2. QED BY <2>1 DEF Headroom, Rest
<1>3. ASSUME NEW p, Goto(c, p),
             \/ r.op \notin Placers
             \/ p = "undo" /\ r.op # "tierUp"
             \/ r.pc \in {"place", "ingress"} /\ p = "row"
      PROVE  Headroom(row, req'[c])
  <2>1. req'[c].op = r.op /\ req'[c].made = r.made /\ req'[c].pc = p /\ req'[c].plan = r.plan
    BY <1>1, <1>3 DEF Goto, Requests
  <2>2. QED BY <1>3, <2>1 DEF Headroom, Placers
<1>4. ASSUME NEW p \in {"ingress", "row"}, Placed(c, p), r.op \in Placers, r.pc = "place",
             Fresh \in Ids
      PROVE  Headroom(row, req'[c])
  <2>1. PICK q \in Pcs : q = IF Len(r.plan) > 1 THEN "place" ELSE p
    BY DEF Pcs
  <2>2. req' = [req EXCEPT ![c] = [r EXCEPT !.made = Append(r.made, Fresh), !.plan = Tail(r.plan),
                                           !.pc = q]]
    BY <1>4, <2>1 DEF Placed
  <2>3. /\ req'[c].made = Append(r.made, Fresh) /\ req'[c].plan = Tail(r.plan)
        /\ req'[c].op = r.op /\ req'[c].pc = q
    BY <1>1, <2>2 DEF Requests
  <2>4. r.made \in Seq(Ids) /\ r.plan \in Seq(Nodes) /\ r.plan # <<>>
    BY <1>1, <1>4 DEF Requests, RequestOK
  <2>5. /\ Len(Append(r.made, Fresh)) = Len(r.made) + 1 /\ Len(Tail(r.plan)) = Len(r.plan) - 1
        /\ Len(r.made) \in Nat /\ Len(r.plan) \in Nat
    BY <1>4, <2>4, Extended, Pieces
  <2>6. Len(req'[c].made) + Len(req'[c].plan) = Len(r.made) + Len(r.plan)
    <3>1. \A m, n \in Nat : (m + 1) + (n - 1) = m + n
      OBVIOUS
    <3>2. (Len(r.made) + 1) + (Len(r.plan) - 1) = Len(r.made) + Len(r.plan)
      BY <2>5, <3>1, Zenon
    <3>3. Len(req'[c].made) = Len(r.made) + 1 /\ Len(req'[c].plan) = Len(r.plan) - 1
      BY <2>3, <2>5, Zenon
    <3>4. QED BY <3>2, <3>3
  <2>7. q # "events"
    BY <2>1
  <2>8. QED BY <1>4, <2>3, <2>6, <2>7 DEF Headroom, Placers
<1>5. CASE deployToNodes(c) \/ deployMcpToNodes(c) \/ deploySecond(c)
  <2>1. Fresh \in Ids
    BY <1>1, <1>5, FreshIsUnused DEF deployToNodes, deployMcpToNodes, deploySecond, Placing
  <2>2. /\ r.op \in Placers /\ r.pc = "place"
        /\ \/ Placed(c, "ingress") \/ Placed(c, "row")
           \/ Goto(c, "undo") /\ r.op # "tierUp"
           \/ End(c)
    BY <1>5 DEF deployToNodes, deployMcpToNodes, deploySecond, Placing, Placers
  <2>3. QED BY <1>2, <1>3, <1>4, <2>1, <2>2
<1>6. CASE compensate(c) \/ recordLocked(c)
  BY <1>2, <1>6 DEF compensate, recordLocked
<1>7. CASE shrink(c)
  <2>1. r.op \notin Placers /\ (Goto(c, "ingress") \/ End(c))
    BY <1>1, <1>7 DEF shrink, RequestOK, Placers
  <2>2. QED BY <1>2, <1>3, <2>1
<1>8. CASE programRoute(c)
  <2>1. r.pc = "ingress" /\ (Goto(c, "row") \/ (Goto(c, "undo") /\ r.op = "deploy") \/ End(c))
    BY <1>8 DEF programRoute
  <2>2. QED BY <1>2, <1>3, <2>1
<1>9. CASE flipActivated(c)
  <2>1. r.op \notin Placers /\ (Goto(c, "events") \/ End(c))
    BY <1>9 DEF flipActivated, Placers
  <2>2. QED BY <1>2, <1>3, <2>1
<1>10. QED BY <1>5, <1>6, <1>7, <1>8, <1>9

\* The document that is inserted fits into the room that was found.
LEMMA InsertedFits ==
    ASSUME BooksInv, QuotaInv, NEW c \in Clients, insertApp(c)
    PROVE  QuotaInv'
<1> DEFINE r == req[c]  a == r.app
<1>1. /\ CoreInv /\ TypeOK /\ Locked(c) /\ c \in Procs /\ r \in Requests /\ RequestOK(r)
      /\ hist \in Histories /\ row \in [Apps -> Documents] /\ [Next]_vars
      /\ r.op \in {"deploy", "install"} /\ r.pc = "row" /\ r.op \in Holders /\ a \in Apps
  BY Makers DEF BooksInv, Locked, CoreInv, TypeOK, insertApp, Holders, Placers, Next
<1>2. (Clean' => Clean) /\ (\A d \in Clients \ {c} : req'[d] = req[d])
  BY <1>1, CleanBefore, LockedStep, Names DEF Step, Frame
<1>3. req'[c] \in Requests /\ \A R : Headroom(R, req'[c])
  <2>1. CASE End(c)
    BY <1>1, <2>1, EndHanded, RestFine DEF Headroom, Rest
  <2>2. CASE Goto(c, "events")
    <3>1. req'[c] = [r EXCEPT !.pc = "events"]
      BY <1>1, <2>2 DEF Goto, TypeOK
    <3>2. req'[c] \in Requests /\ req'[c].pc = "events" /\ req'[c].op = r.op
      BY <1>1, <3>1 DEF Requests, Pcs
    <3>3. QED BY <1>1, <3>2 DEF Headroom
  <2>3. QED BY <2>1, <2>2 DEF insertApp
<1>4. CASE row' = row
  <2> HIDE DEF r
  <2>1. QED BY <1>1, <1>2, <1>3, <1>4, SameEases, QuotaFrom
<1>5. CASE /\ row[a].st = "NONE"
           /\ row' = [row EXCEPT ![a] = IF r.op = "deploy" THEN RawApp(r.made) ELSE McpApp(r.made)]
  <2>1. PICK d : d = IF r.op = "deploy" THEN RawApp(r.made) ELSE McpApp(r.made)
    OBVIOUS
  <2>2. d.reps = r.made
    BY <2>1 DEF RawApp, McpApp, None
  <2>3. row'[a] = d /\ \A b \in Apps \ {a} : row'[b] = row[b]
    BY <1>1, <1>5, <2>1
  <2>4. PICK k \in Nat : k = Len(r.made) /\ DOMAIN d.reps = 1..k
    BY <1>1, <2>2 DEF Requests
  <2>5. DOMAIN row'[a].reps = 1..(0 + k)
    BY <2>3, <2>4
  <2>6. /\ Cardinality(Inst(row')) <= Cardinality(Inst(row)) + 1
        /\ Cardinality(Slots(row')) <= Cardinality(Slots(row)) + k
    <3> HIDE DEF r, a
    <3>1. 0 \in Nat /\ ~(0 > 0)
      OBVIOUS
    <3>2. QED BY <1>1, <2>3, <2>4, <2>5, <3>1, Grown
  <2>7. /\ Cardinality(Inst(row)) \in Nat /\ Cardinality(Slots(row)) \in Nat
        /\ Cardinality(Inst(row')) \in Nat /\ Cardinality(Slots(row')) \in Nat
    BY Counted
  <2>8. MaxApps \in Nat /\ MaxReplicas \in Nat /\ Len(r.plan) \in Nat
    BY <1>1, ConstantsAssumption DEF ConstantsAssumption, Requests
  <2>9. ASSUME Clean'
        PROVE  Fits(row') /\ \A d2 \in Clients : Headroom(row', req'[d2])
    <3>1. Headroom(row, r)
      BY <1>2, <2>9 DEF QuotaInv
    <3>2. Cardinality(Inst(row)) + 1 <= MaxApps /\ Cardinality(Slots(row)) + (k + Len(r.plan)) <= MaxReplicas
      BY <1>1, <2>4, <3>1 DEF Headroom
    <3>3. Fits(row')
      <4>1. PICK j \in Nat : j = Len(r.plan)
        BY <2>8
      <4>2. Cardinality(Slots(row)) + (k + j) <= MaxReplicas
        BY <3>2, <4>1
      <4>3. \A s, t, m \in Nat : t <= s + k /\ s + (k + j) <= m => t <= m
        OBVIOUS
      <4>4. Cardinality(Slots(row')) <= MaxReplicas
        BY <2>6, <2>7, <2>8, <4>2, <4>3
      <4>5. \A s, t, m \in Nat : t <= s + 1 /\ s + 1 <= m => t <= m
        OBVIOUS
      <4>6. Cardinality(Inst(row')) <= MaxApps
        BY <2>6, <2>7, <2>8, <3>2, <4>5
      <4>7. QED BY <4>4, <4>6 DEF Fits
    <3>4. ASSUME NEW d2 \in Clients, d2 # c PROVE req'[d2].op \notin Placers
      <4>1. req[c].op \in Holders /\ req'[d2] = req[d2]
        BY <1>1, <1>2, <3>4
      <4>2. req[d2].op \notin Holders
        BY <1>1, <3>4, <4>1 DEF CoreInv, LockInv
      <4>3. QED BY <4>1, <4>2 DEF Holders
    <3>5. QED BY <1>3, <3>3, <3>4, IdleRoom
  <2>10. QED BY <2>9 DEF QuotaInv, Fits, Headroom, Inst, Slots, isInstalledForQuota
<1>6. QED BY <1>4, <1>5 DEF insertApp

\* So does the replica a tier change adds; one that takes a replica away counts less.
LEMMA TierFits ==
    ASSUME BooksInv, ListInv, QuotaInv, NEW c \in Clients, writeTier(c)
    PROVE  QuotaInv'
<1> DEFINE r == req[c]  a == r.app
<1>1. /\ CoreInv /\ TypeOK /\ Locked(c) /\ c \in Procs /\ r \in Requests /\ RequestOK(r)
      /\ row \in [Apps -> Documents] /\ [Next]_vars /\ Handed(r) /\ Goto(c, "events")
      /\ r.op \in {"tierUp", "tierDown"} /\ r.pc = "row" /\ r.op \in Holders /\ a \in Apps
  BY Makers DEF BooksInv, ListInv, Locked, CoreInv, TypeOK, writeTier, Holders, Placers, Next
<1>2. (Clean' => Clean) /\ (\A d \in Clients \ {c} : req'[d] = req[d])
  BY <1>1, CleanBefore, LockedStep, Names DEF Step, Frame
<1>3. req'[c] \in Requests /\ \A R : Headroom(R, req'[c])
  <2>1. req'[c] = [r EXCEPT !.pc = "events"]
    BY <1>1 DEF Goto, TypeOK
  <2>2. req'[c] \in Requests /\ req'[c].pc = "events" /\ req'[c].op = r.op
    BY <1>1, <2>1 DEF Requests, Pcs
  <2>3. QED BY <1>1, <2>2 DEF Headroom
<1>4. PICK q : q = IF r.op = "tierUp" THEN row[a].reps \o r.made ELSE <<Head(r.snap[a])>>
  OBVIOUS
<1>5. PICK d : /\ row' = [row EXCEPT ![a] = d] /\ d.reps = q
               /\ d.st = row[a].st /\ d.stamp = row[a].stamp
  <2>1. CASE r.op = "tierUp"
    <3>1. PICK d : d = [row[a] EXCEPT !.tier = "ha", !.reps = row[a].reps \o r.made]
      OBVIOUS
    <3>2. row' = [row EXCEPT ![a] = d]
      BY <2>1, <3>1 DEF writeTier
    <3>3. d.reps = q /\ d.st = row[a].st /\ d.stamp = row[a].stamp
      BY <1>1, <1>4, <2>1, <3>1 DEF Documents
    <3>4. QED BY <3>2, <3>3
  <2>2. CASE r.op = "tierDown"
    <3>1. PICK d : d = [row[a] EXCEPT !.tier = "single", !.reps = <<Head(r.snap[a])>>]
      OBVIOUS
    <3>2. row' = [row EXCEPT ![a] = d]
      BY <2>2, <3>1 DEF writeTier
    <3>3. d.reps = q /\ d.st = row[a].st /\ d.stamp = row[a].stamp
      BY <1>1, <1>4, <2>2, <3>1 DEF Documents
    <3>4. QED BY <3>2, <3>3
  <2>3. QED BY <1>1, <2>1, <2>2
<1>6. isInstalledForQuota(d) <=> isInstalledForQuota(row[a])
  BY <1>5 DEF isInstalledForQuota
<1>7. row'[a] = d /\ \A b \in Apps \ {a} : row'[b] = row[b]
  BY <1>1, <1>5
<1>8. row[a].reps \in Seq(Ids) /\ r.made \in Seq(Ids)
  BY <1>1 DEF Documents, Requests
<1>9. CASE r.op = "tierDown" \/ ~isInstalledForQuota(row[a])
  <2>1. isInstalledForQuota(d) => DOMAIN d.reps \subseteq DOMAIN row[a].reps
    <3>1. ASSUME r.op = "tierDown"
          PROVE  DOMAIN d.reps \subseteq DOMAIN row[a].reps
      <4>1. row[a].reps = r.snap[a] /\ r.snap[a] # <<>>
        BY <1>1, <3>1 DEF Handed, RequestOK
      <4>2. DOMAIN d.reps = {1}
        BY <1>4, <1>5, <3>1
      <4>3. 1 \in DOMAIN row[a].reps
        BY <1>8, <4>1
      <4>4. QED BY <4>2, <4>3
    <3>2. QED BY <1>6, <1>9, <3>1
  <2> HIDE DEF r, a
  <2>2. Eases(row, row')
    BY <1>1, <1>5, <1>6, <2>1, WriteEases
  <2>3. QED BY <1>1, <1>2, <1>3, <2>2, QuotaFrom DEF r
<1>10. CASE r.op = "tierUp" /\ isInstalledForQuota(row[a])
  <2>1. Len(r.made) = 1
    <3>1. Len(r.made) + Len(r.plan) = 1 /\ r.made # <<>> /\ r.made \in Seq(Ids) /\ r.plan \in Seq(Nodes)
      BY <1>1, <1>10 DEF RequestOK, Requests, Placers
    <3>2. Len(r.made) \in Nat /\ Len(r.made) > 0 /\ Len(r.plan) \in Nat
      BY <3>1
    <3>3. \A m, n \in Nat : m + n = 1 /\ m > 0 => m = 1
      OBVIOUS
    <3>4. QED BY <3>1, <3>2, <3>3, Zenon
  <2>2. PICK m \in Nat : m = Len(row[a].reps) /\ DOMAIN row[a].reps = 1..m
    BY <1>8
  <2>3. DOMAIN row'[a].reps = 1..(m + 1)
    <3>1. row'[a].reps = row[a].reps \o r.made
      BY <1>4, <1>5, <1>7, <1>10
    <3>2. row[a].reps \o r.made \in Seq(Ids) /\ Len(row[a].reps \o r.made) = Len(row[a].reps) + Len(r.made)
      BY <1>8, ListedBoth
    <3>3. PICK n : n = Len(row[a].reps \o r.made)
      OBVIOUS
    <3>4. n = m + 1
      BY <2>1, <2>2, <3>2, <3>3, Zenon
    <3>5. DOMAIN (row[a].reps \o r.made) = 1..n
      BY <3>2, <3>3
    <3>6. QED BY <3>1, <3>4, <3>5
  <2>4. /\ Cardinality(Inst(row')) <= Cardinality(Inst(row))
        /\ Cardinality(Slots(row')) <= Cardinality(Slots(row)) + 1
    <3> HIDE DEF r, a
    <3>1. 1 \in Nat
      OBVIOUS
    <3>2. QED BY <1>1, <1>7, <1>10, <2>2, <2>3, <3>1, Grown
  <2>5. /\ Cardinality(Inst(row)) \in Nat /\ Cardinality(Slots(row)) \in Nat
        /\ Cardinality(Inst(row')) \in Nat /\ Cardinality(Slots(row')) \in Nat
    BY Counted
  <2>6. MaxApps \in Nat /\ MaxReplicas \in Nat
    BY ConstantsAssumption DEF ConstantsAssumption
  <2>7. ASSUME Clean'
        PROVE  Fits(row') /\ \A e \in Clients : Headroom(row', req'[e])
    <3>1. Headroom(row, r) /\ Fits(row)
      BY <1>2, <2>7 DEF QuotaInv
    <3>2. Cardinality(Slots(row)) + 1 <= MaxReplicas
      BY <1>1, <1>10, <3>1 DEF Headroom
    <3>3. Fits(row')
      BY <2>4, <2>5, <2>6, <3>1, <3>2 DEF Fits
    <3>4. ASSUME NEW e \in Clients, e # c PROVE req'[e].op \notin Placers
      <4>1. req[c].op \in Holders /\ req'[e] = req[e]
        BY <1>1, <1>2, <3>4
      <4>2. req[e].op \notin Holders
        BY <1>1, <3>4, <4>1 DEF CoreInv, LockInv
      <4>3. QED BY <4>1, <4>2 DEF Holders
    <3>5. QED BY <1>3, <3>3, <3>4, IdleRoom
  <2>8. QED BY <2>7 DEF QuotaInv, Fits, Headroom, Inst, Slots, isInstalledForQuota
<1>11. QED BY <1>1, <1>9, <1>10

\* The requests that hold the lock keep the quota.
LEMMA LockedQuota ==
    ASSUME BooksInv, ListInv, QuotaInv, NEW c \in Clients, Locked(c)
    PROVE  QuotaInv'
<1>1. /\ CoreInv /\ TypeOK /\ c \in Procs /\ [Next]_vars /\ RequestOK(req[c])
      /\ row \in [Apps -> Documents] /\ hist \in Histories
  BY Names DEF BooksInv, CoreInv, TypeOK, Next, ReqInv
<1>2. /\ Clean' => Clean
      /\ \A d \in Clients \ {c} : req'[d] = req[d]
      /\ req'[c] \in Requests
  BY <1>1, CleanBefore, LockedStep, Names DEF Step, Frame, CoreInv, TypeOK
<1>3. CASE \/ \E a \in Apps, k \in {1, 2} : deploy(c, a, k) \/ deployMcp(c, a, k)
           \/ \E a \in Apps, t \in {"single", "ha"} : changeAvailabilityTier(c, a, t)
           \/ \E a \in Apps : activateMcp(c, a)
  <2>1. row' = row
    BY <1>3 DEF deploy, deployMcp, Begin, changeAvailabilityTier, activateMcp
  <2>2. QED BY <1>1, <1>2, <1>3, <2>1, LockTakenRoom, SameEases, QuotaFrom
<1>4. CASE \/ deployToNodes(c) \/ deployMcpToNodes(c) \/ deploySecond(c)
           \/ compensate(c) \/ shrink(c) \/ programRoute(c) \/ recordLocked(c)
  <2>1. row' = row
    BY <1>4 DEF deployToNodes, deployMcpToNodes, deploySecond, Placing, compensate, shrink,
                programRoute, recordLocked
  <2>2. QED BY <1>1, <1>2, <1>4, <2>1, WorkRoom, SameEases, QuotaFrom
<1>5. CASE flipActivated(c)
  <2> DEFINE a == req[c].app
  <2>1. Clean' => Eases(row, row')
    <3>1. CASE row' = row
      BY <3>1, SameEases
    <3>2. CASE /\ row[a].st = "QUARANTINED" /\ row' = [row EXCEPT ![a].st = "RUNNING"]
               /\ hist' = [hist EXCEPT !.moved = IF row[a].stamp # "none"
                                                 THEN @ \cup {a} ELSE @]
      <4>1. a \in Apps
        BY <1>1, <1>5 DEF flipActivated, RequestOK, Loops
      <4>2. PICK d : d = [row[a] EXCEPT !.st = "RUNNING"]
        OBVIOUS
      <4>3. d.reps = row[a].reps /\ row' = [row EXCEPT ![a] = d]
        BY <1>1, <3>2, <4>1, <4>2 DEF Documents
      <4>4. Clean' => row[a].stamp = "none"
        BY <1>1, <3>2 DEF Clean, Histories
      <4>5. row[a].stamp = "none" => isInstalledForQuota(row[a])
        BY <3>2 DEF isInstalledForQuota
      <4> HIDE DEF a
      <4>6. QED BY <1>1, <4>1, <4>3, <4>4, <4>5, WriteEases
    <3>3. QED BY <1>5, <3>1, <3>2 DEF flipActivated
  <2>2. QED BY <1>1, <1>2, <1>5, <2>1, WorkRoom, QuotaFrom
<1>6. QED BY <1>3, <1>4, <1>5, InsertedFits, TierFits DEF Locked

\* A document written with the state it had, or with one that does not count.
LEMMA QuietWrite ==
    ASSUME TypeOK, NEW a \in Apps, NEW d, row' = [row EXCEPT ![a] = d], d.reps = row[a].reps,
           isInstalledForQuota(d) => isInstalledForQuota(row[a])
    PROVE  Eases(row, row')
BY WriteEases

\* The requests that take no lock free what they take, or are remembered.
LEMMA UnlockedQuota ==
    ASSUME BooksInv, QuotaInv, NEW c \in Clients, Unlocked(c), ~upsert(c)
    PROVE  QuotaInv'
<1> DEFINE r == req[c]  a == r.app
<1>1. /\ CoreInv /\ TypeOK /\ c \in Procs /\ [Next]_vars /\ RequestOK(r)
      /\ row \in [Apps -> Documents] /\ hist \in Histories
  BY Names DEF BooksInv, CoreInv, TypeOK, Next, ReqInv
<1>2. /\ Clean' => Clean
      /\ \A d \in Clients \ {c} : req'[d] = req[d]
      /\ req'[c] \in Requests
  BY <1>1, CleanBefore, UnlockedStep, Names DEF Step, Frame, CoreInv, TypeOK
<1>3. Headroom(row, req'[c])
  BY <1>1, UnlockedIdle, IdleRoom DEF Holders
<1>4. (Clean' => Eases(row, row')) => QuotaInv'
  BY <1>1, <1>2, <1>3, QuotaFrom
<1>5. CASE row' = row
  BY <1>4, <1>5, SameEases
<1>6. CASE \E b \in Apps : unquarantine(c, b)
  <2>1. PICK b \in Apps : unquarantine(c, b)
    BY <1>6
  <2>2. PICK g : g = Torn({b})
    OBVIOUS
  <2>3. hist' = [g EXCEPT !.revived = g.revived \cup {b}, !.grace[b] = "none", !.held = g.held \ {b}]
    BY <2>1, <2>2 DEF unquarantine
  <2>4. DOMAIN g = DOMAIN hist
    BY <1>1, <2>2 DEF Torn, Histories
  <2>5. hist'.revived = g.revived \cup {b}
    BY <1>1, <2>3, <2>4 DEF Histories
  <2>6. ~Clean'
    BY <2>5 DEF Clean
  <2>7. QED BY <1>4, <2>6
<1>7. CASE writeInvoked(c)
  <2>1. a \in Apps
    BY <1>1, <1>7 DEF writeInvoked, RequestOK, Loops
  <2>2. PICK t : t = IF r.op = "stop" THEN "STOPPED" ELSE "RUNNING"
    OBVIOUS
  <2>3. PICK d : d = [row[a] EXCEPT !.st = t]
    OBVIOUS
  <2>4. d.reps = row[a].reps /\ row' = [row EXCEPT ![a] = d]
    BY <1>1, <1>7, <2>1, <2>2, <2>3 DEF writeInvoked, Documents
  <2>5. Clean' => row[a].st \in {"RUNNING", "STOPPED"}
    <3>1. PICK v, h : /\ v = IF row[a].st \notin {"RUNNING", "STOPPED"}
                             THEN hist.moved \cup {a} ELSE hist.moved
                      /\ hist' = [hist EXCEPT !.moved = v, !.held = h]
      BY <1>7 DEF writeInvoked
    <3>2. hist'.moved = v
      BY <1>1, <3>1 DEF Histories
    <3>3. QED BY <3>1, <3>2 DEF Clean
  <2> HIDE DEF a, r
  <2>6. QED BY <1>1, <1>4, <2>1, <2>4, <2>5, QuietWrite DEF isInstalledForQuota
<1>8. CASE writePowered(c)
  <2>1. a \in Apps
    BY <1>1, <1>8 DEF writePowered, RequestOK, Loops
  <2>2. PICK t, p : t = (IF r.op = "suspend" THEN "STOPPED" ELSE "RUNNING")
                    /\ p = (IF r.op = "suspend" THEN "yes" ELSE "no")
    OBVIOUS
  <2>3. PICK d : d = [row[a] EXCEPT !.st = t, !.susp = p]
    OBVIOUS
  <2>4. d.reps = row[a].reps /\ row' = [row EXCEPT ![a] = d]
    BY <1>1, <1>8, <2>1, <2>2, <2>3 DEF writePowered, Documents
  <2>5. Clean' => row[a].st \in {"RUNNING", "STOPPED"}
    <3>1. PICK v : /\ v = IF row[a].st \notin {"RUNNING", "STOPPED"}
                          THEN hist.revived \cup {a} ELSE hist.revived
                   /\ hist' = [hist EXCEPT !.revived = v]
      BY <1>8 DEF writePowered
    <3>2. hist'.revived = v
      BY <1>1, <3>1 DEF Histories
    <3>3. QED BY <3>1, <3>2 DEF Clean
  <2> HIDE DEF a, r
  <2>6. QED BY <1>1, <1>4, <2>1, <2>4, <2>5, QuietWrite DEF isInstalledForQuota
<1>9. CASE writeQuarantined(c)
  <2>1. a \in Apps
    BY <1>1, <1>9 DEF writeQuarantined, RequestOK, Loops
  <2>2. PICK d : d = Quarantined(row[a])
    OBVIOUS
  <2>3. d.st = "QUARANTINED" /\ d.stamp = "fresh" /\ d.reps = row[a].reps /\ row' = [row EXCEPT ![a] = d]
    BY <1>1, <1>9, <2>1, <2>2 DEF writeQuarantined, Documents, Quarantined
  <2> HIDE DEF a, r
  <2>4. QED BY <1>1, <1>4, <2>1, <2>3, QuietWrite DEF isInstalledForQuota
<1>10. CASE markRemoving(c)
  <2>1. a \in Apps
    BY <1>1, <1>10 DEF markRemoving, RequestOK, Loops
  <2>2. PICK d : d = [row[a] EXCEPT !.st = "REMOVING"]
    OBVIOUS
  <2>3. d.st = "REMOVING" /\ d.reps = row[a].reps /\ row' = [row EXCEPT ![a] = d]
    BY <1>1, <1>10, <2>1, <2>2 DEF markRemoving, Documents
  <2> HIDE DEF a, r
  <2>4. QED BY <1>1, <1>4, <2>1, <2>3, QuietWrite DEF isInstalledForQuota
<1>11. \/ row' = row \/ writeInvoked(c) \/ writePowered(c) \/ writeQuarantined(c) \/ markRemoving(c)
       \/ \E b \in Apps : unquarantine(c, b)
  BY DEF Unlocked, invoke, redeploy, setWorkspacePower, revokeWorkspace, upsert, remove,
         nextPowered, nextRevoked
<1>12. QED BY <1>5, <1>6, <1>7, <1>8, <1>9, <1>10, <1>11

\* Every step keeps the quota.
LEMMA QuotaKept ==
    ASSUME BooksInv, ListInv, QuotaInv, [Next]_vars
    PROVE  QuotaInv'
<1>1. /\ CoreInv /\ TypeOK /\ row \in [Apps -> Documents] /\ hist \in Histories /\ (Clean' => Clean)
      /\ req \in [Procs -> Requests]
  BY CleanBefore DEF BooksInv, CoreInv, TypeOK
<1>2. ASSUME Clean' => Eases(row, row'), \A d \in Clients : req'[d] = req[d] \/ req'[d] = Rest
      PROVE  QuotaInv'
  <2> SUFFICES ASSUME Clean'
               PROVE  Fits(row') /\ \A d \in Clients : Headroom(row', req'[d])
    BY DEF QuotaInv, Fits, Headroom, Inst, Slots, isInstalledForQuota
  <2>1. Eases(row, row') /\ Fits(row) /\ \A d \in Clients : Headroom(row, req[d]) /\ req[d] \in Requests
    BY <1>1, <1>2, Names DEF QuotaInv
  <2>2. Rest \in Requests /\ Headroom(row, Rest)
    BY RestFine DEF Headroom, Rest
  <2>3. QED BY <1>2, <2>1, <2>2, RoomEases
<1>3. CASE reaperTick \/ nextReaped
  <2>1. \A d \in Clients : req'[d] = req[d]
    BY <1>1, <1>3, ReaperTickStep, NextReapedStep, Names DEF Step, Frame
  <2>2. CASE row' = row
    BY <1>2, <2>1, <2>2, SameEases
  <2>3. CASE \E a \in req["reaper"].todo : row' = [row EXCEPT ![a].st = "REMOVING"]
    <3>1. PICK a \in Apps : row' = [row EXCEPT ![a].st = "REMOVING"]
      BY <1>1, <2>3, Names DEF Requests
    <3>2. PICK d : d = [row[a] EXCEPT !.st = "REMOVING"]
      OBVIOUS
    <3>3. d.st = "REMOVING" /\ d.reps = row[a].reps /\ row' = [row EXCEPT ![a] = d]
      BY <1>1, <3>1, <3>2 DEF Documents
    <3>4. Eases(row, row')
      BY <1>1, <3>3, QuietWrite DEF isInstalledForQuota
    <3>5. QED BY <1>2, <2>1, <3>4
  <2>4. QED BY <1>3, <2>2, <2>3 DEF reaperTick, nextReaped
<1>4. ASSUME NEW c \in Procs, OneApp(c)
      PROVE  QuotaInv'
  <2>1. \A d \in Clients \ {c} : req'[d] = req[d]
    BY <1>1, <1>4, OneAppStep, Names DEF Step, Frame
  <2>2. Headroom(row, req'[c]) /\ req'[c] \in Requests
    BY <1>1, <1>4, OneAppIdle, OneAppStep, IdleRoom DEF Holders, Step, CoreInv, TypeOK
  <2>3. Eases(row, row')
    <3>1. CASE row' = row
      BY <3>1, SameEases
    <3>2. CASE writeRemoved(c)
      <4>1. RequestOK(req[c]) /\ req[c].op \in {"remove", "reap"} /\ req[c].pc = "row"
            /\ row' = [row EXCEPT ![req[c].app].st = "REMOVED"]
        BY <1>1, <3>2 DEF CoreInv, ReqInv, writeRemoved
      <4>2. req[c].app \in Apps
        BY <4>1 DEF RequestOK, Loops
      <4>3. PICK a \in Apps : row' = [row EXCEPT ![a].st = "REMOVED"]
        BY <4>1, <4>2
      <4>4. PICK d : d = [row[a] EXCEPT !.st = "REMOVED"]
        OBVIOUS
      <4>5. d.st = "REMOVED" /\ d.reps = row[a].reps /\ row' = [row EXCEPT ![a] = d]
        BY <1>1, <4>3, <4>4 DEF Documents
      <4>6. QED BY <1>1, <4>5, QuietWrite DEF isInstalledForQuota
    <3>3. QED BY <1>4, <3>1, <3>2 DEF OneApp, askAgents, removeRoute, recordUnlocked
  <2>4. QED BY <1>1, <2>1, <2>2, <2>3, QuotaFrom
<1>5. CASE Working
  <2>1. CASE \E c \in Clients : (Locked(c) \/ Unlocked(c)) /\ ~upsert(c)
    BY <2>1, LockedQuota, UnlockedQuota
  <2>2. QED BY <1>3, <1>4, <1>5, <2>1 DEF Working
<1>6. CASE Around
  <2>1. row' = row /\ req' = req
    BY <1>6 DEF Around, upsert, setStatus, reconcileUnanswered, serve, vars
  <2>2. QED BY <1>2, <2>1, SameEases
<1>7. CASE \E a \in Apps : graceExpires(a)
  <2>1. PICK a \in Apps : graceExpires(a)
    BY <1>7
  <2>2. PICK d : d = [row[a] EXCEPT !.stamp = "old"]
    OBVIOUS
  <2>3. /\ req' = req /\ row' = [row EXCEPT ![a] = d] /\ d.reps = row[a].reps
        /\ d.st = row[a].st /\ d.stamp = "old"
    BY <1>1, <2>1, <2>2 DEF graceExpires, Documents
  <2>4. Eases(row, row')
    BY <1>1, <2>3, QuietWrite DEF isInstalledForQuota
  <2>5. QED BY <1>2, <2>3, <2>4
<1>8. CASE crash
  <2>1. row' = row /\ \A d \in Clients : req'[d] = Rest
    BY <1>8, Names DEF crash
  <2>2. QED BY <1>2, <2>1, SameEases
<1>9. CASE \E i \in Ids : reconcileContainer(i)
  <2>1. req' = req /\ (row' = row \/ \E a, x : hist' = [hist EXCEPT !.moved = hist.moved \cup {a}, !.leaked = x])
    BY <1>9 DEF reconcileContainer
  <2>2. CASE row' = row
    BY <1>2, <2>1, <2>2, SameEases
  <2>3. CASE \E a, x : hist' = [hist EXCEPT !.moved = hist.moved \cup {a}, !.leaked = x]
    <3>1. ~Clean'
      BY <1>1, <2>3 DEF Clean, Histories
    <3>2. QED BY <1>2, <2>1, <3>1
  <2>4. QED BY <2>1, <2>2, <2>3
<1>10. QED BY <1>5, <1>6, <1>7, <1>8, <1>9, NextSplits

\* The workspace's quota holds as long as no app came back without a check and no
\* operations overlapped: the lock is held from the check to the document
\* (assertDeployAllowed, assertAdditionalReplicaAllowed, WorkspaceLock.run).
THEOREM QuotaIsHeld == Spec => []QuotaHeld
<1>1. Init => QuotaInv
  <2> SUFFICES ASSUME Init
               PROVE  QuotaInv
    OBVIOUS
  <2>1. Inst(row) = {} /\ Slots(row) = {}
    BY DEF Init, None, Inst, Slots, isInstalledForQuota
  <2>2. Cardinality({}) = 0
    BY FS_EmptySet
  <2>3. Fits(row)
    BY <2>1, <2>2, ConstantsAssumption DEF Fits, ConstantsAssumption
  <2>4. \A c \in Clients : req[c] = Rest
    BY Names DEF Init
  <2>5. \A c \in Clients : Headroom(row, req[c])
    BY <2>4, IdleRoom DEF Rest, Placers
  <2>6. QED BY <2>3, <2>5 DEF QuotaInv
<1>2. BooksInv /\ ListInv /\ QuotaInv /\ [Next]_vars => QuotaInv'
  BY QuotaKept
<1>3. QuotaInv => QuotaHeld
  <2>1. hist.moved \cup hist.revived \cup hist.torn = {} => Clean
    BY DEF Clean
  <2>2. Inst(row) = InstalledApps /\ Slots(row) = {x \in Apps \X Ids : /\ x[1] \in InstalledApps
                                                      /\ x[2] \in DOMAIN row[x[1]].reps}
    BY DEF Inst, Slots, InstalledApps
  <2>3. QED BY <2>1, <2>2 DEF QuotaInv, Fits, QuotaHeld, ReservedReplicas
<1>4. QED BY <1>1, <1>2, <1>3, WhereaboutsHold, PTL DEF Spec
=============================================================================
