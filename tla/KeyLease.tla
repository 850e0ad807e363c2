------------------------------ MODULE KeyLease ------------------------------
(***************************************************************************)
(* What ATI's ephemeral keys promise to whoever issues and revokes them,   *)
(* with pods, caches, the database and its notifications left out: a key   *)
(* opens the proxy from its issue to its end, and for less than Grace time *)
(* units more; never after its own lifetime; and never again after that.   *)
(* KeyStore implements it.                                                 *)
(***************************************************************************)
EXTENDS Integers

CONSTANTS Keys, Lifetimes, TTL, MaxFill

NoExpiry == -1
Grace == TTL + MaxFill
NoVerdict == [key |-> "none", answer |-> "none"]

VARIABLES
    state,      \* "new" before its issue, "live", or "ended" by the issuer
    life,       \* time to the end of its lifetime; NoExpiry if it has none
    since,      \* time since it ended, counted up to Grace
    verdict     \* the decision on a request, in the state after it

leaseVars == <<state, life, since, verdict>>

Init ==
    /\ state = [k \in Keys |-> "new"]
    /\ life = [k \in Keys |-> NoExpiry]
    /\ since = [k \in Keys |-> 0]
    /\ verdict = NoVerdict

Issue(k, lifetime) ==
    /\ state[k] = "new"
    /\ state' = [state EXCEPT ![k] = "live"]
    /\ life' = [life EXCEPT ![k] = lifetime]
    /\ verdict' = NoVerdict
    /\ UNCHANGED since

End(ks) ==
    /\ \A k \in ks : state[k] # "new"
    /\ state' = [k \in Keys |-> IF k \in ks THEN "ended" ELSE state[k]]
    /\ verdict' = NoVerdict
    /\ UNCHANGED <<life, since>>

Grant(k) ==
    /\ state[k] # "new"
    /\ life[k] # 0
    /\ since[k] < Grace
    /\ verdict' = [key |-> k, answer |-> "granted"]
    /\ UNCHANGED <<state, life, since>>

Refuse(k) ==
    /\ state[k] # "new"
    /\ verdict' = [key |-> k, answer |-> "refused"]
    /\ UNCHANGED <<state, life, since>>

Forget ==
    /\ verdict' = NoVerdict
    /\ UNCHANGED <<state, life, since>>

Tick ==
    /\ life' = [k \in Keys |-> IF life[k] > 0 THEN life[k] - 1 ELSE life[k]]
    /\ since' = [k \in Keys |-> IF state[k] = "ended" /\ since[k] < Grace
                                THEN since[k] + 1 ELSE since[k]]
    /\ verdict' = NoVerdict
    /\ UNCHANGED state

Next ==
    \/ \E k \in Keys : Grant(k) \/ Refuse(k)
    \/ \E k \in Keys, lifetime \in Lifetimes : Issue(k, lifetime)
    \/ \E ks \in SUBSET Keys : End(ks)
    \/ Forget
    \/ Tick

Spec == Init /\ [][Next]_leaseVars
=============================================================================
