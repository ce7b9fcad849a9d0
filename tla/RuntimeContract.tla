--------------------------- MODULE RuntimeContract ---------------------------
(***************************************************************************)
(* What the local runtime driver promises the Hub about one runtime id,    *)
(* without containers, brokers, locks or files: a candidate is claimed,    *)
(* becomes READY, takes one activation intent and becomes ACTIVE with it.  *)
(* A candidate may be withdrawn at any time (it changed, or its artifact   *)
(* is erased).  What was activated goes only while a REMOVE for it is      *)
(* being served.                                                           *)
(***************************************************************************)

CONSTANTS Runtimes, Specs, Activations, AuthorizedSpec, Nobody

VARIABLES
    promise,  \* runtime -> the state, the request and the activation it stands by
    removing  \* runtimes for which a REMOVE is being served

vars == <<promise, removing>>

None == [st |-> "ABSENT", spec |-> Nobody, act |-> Nobody]
Standing(st, s, a) == [st |-> st, spec |-> s, act |-> a]

Init ==
    /\ promise = [r \in Runtimes |-> None]
    /\ removing = {}

Becomes(r, from, to) ==
    /\ promise[r] = from
    /\ promise' = [promise EXCEPT ![r] = to]

Claim(r, s) == Becomes(r, None, Standing("CLAIMED", s, Nobody))
Ready(r, s) == Becomes(r, Standing("CLAIMED", s, Nobody), Standing("READY", s, Nobody))
Intend(r, s, a) ==
    /\ AuthorizedSpec[a] = s
    /\ Becomes(r, Standing("READY", s, Nobody), Standing("ACTIVATING", s, a))
Activate(r, s, a) ==
    Becomes(r, Standing("ACTIVATING", s, a), Standing("ACTIVE", s, a))
Withdraw(r, s) ==
    \E st \in {"CLAIMED", "READY"} : Becomes(r, Standing(st, s, Nobody), None)
Remove(r, s, a) ==
    /\ r \in removing
    /\ \E st \in {"ACTIVATING", "ACTIVE"} : Becomes(r, Standing(st, s, a), None)

\* At most one promise changes in a step; requests to remove come and go.
Next ==
    /\ removing' \in SUBSET Runtimes
    /\ \/ UNCHANGED promise
       \/ \E r \in Runtimes, s \in Specs :
            \/ Claim(r, s) \/ Ready(r, s) \/ Withdraw(r, s)
            \/ \E a \in Activations : Intend(r, s, a) \/ Activate(r, s, a) \/ Remove(r, s, a)

Spec == Init /\ [][Next]_vars
=============================================================================
