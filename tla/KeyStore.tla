------------------------------ MODULE KeyStore ------------------------------
(***************************************************************************)
(* The ephemeral virtual keys of ATI: src/core/keys.rs and the part of     *)
(* proxy/server.rs that authenticates `Authorization: Ati-Key <raw>`.      *)
(*                                                                         *)
(* Several proxy processes ("pods") share one Postgres database.  Each pod *)
(* fronts the table ati_keys with a TTL cache and runs a LISTEN task that  *)
(* drops a hash from the cache when another pod revokes it.  Every await   *)
(* of the code is a step boundary here: an operation in flight is a record *)
(* in `op`, and any other operation may run between two of its steps.      *)
(* One database transaction is one step.                                   *)
(*                                                                         *)
(* Time.  The model keeps no absolute clock.  One Tick is one time unit;   *)
(* cached entries, key lifetimes and reads in flight carry counters that a *)
(* Tick moves, so that behaviours are unbounded and the states are finite. *)
(*                                                                         *)
(* Assumed of the environment, by name: a row read from the database, or   *)
(* returned by the INSERT, reaches the cache within MaxFill time units     *)
(* (the guard of Tick).                                                    *)
(***************************************************************************)
EXTENDS Integers, FiniteSets

CONSTANTS
    Pods,        \* proxy processes
    Keys,        \* token hashes: each is drawn from 128 random bits, so used once
    Ops,         \* slots for operations in flight, over all pods
    Users,       \* values of ati_keys.user_id
    Aliases,     \* values of ati_keys.key_alias
    Lifetimes,   \* values of IssueParams.expires_in
    MaxLife,     \* the longest lifetime chrono::Duration can represent
    TTL,         \* CACHE_TTL in time units
    MaxFill      \* bound on the time between a row's read and its insertion

NoExpiry == -1   \* expires_in = None

ASSUME KeyStoreAssumption ==
    /\ TTL \in Nat \ {0}
    /\ MaxFill \in Nat
    /\ MaxLife \in Nat
    /\ Lifetimes \subseteq Nat \cup {NoExpiry}
    /\ Users # {} /\ Aliases # {} /\ Lifetimes # {}
    /\ "none" \notin Keys

\* How long after its end a key may still be accepted (see KeyLease).
Grace == TTL + MaxFill

IssueParams == [user_id : Users, key_alias : Aliases, expires_in : Lifetimes]

\* What the database says of a hash at one instant.
RowValue == {"active", "blocked", "missing"}

\* A cached entry and the time it still has; `raced` is a history variable:
\* the database had already removed the row when the entry was inserted.
Entry  == [val : RowValue, left : 1..TTL, raced : BOOLEAN]
Absent == [val |-> "absent", left |-> 0, raced |-> FALSE]

\* Operations in flight, named by what they do next.
Idle    == [pc |-> "idle"]
Selects == [pc : {"select"}, pod : Pods, key : Keys]
Fills   == [pc : {"fill", "warm"}, pod : Pods, key : Keys,
            val : RowValue, age : 0..MaxFill]
Purges  == [pc : {"purge"}, pod : Pods, todo : SUBSET Keys]

NoVerdict == [key |-> "none", answer |-> "none"]

VARIABLES
    rows,       \* hashes in ati_keys
    blocked,    \* those whose column `blocked` is set
    params,     \* the parameters a hash was issued with
    life,       \* time to a key's expires_at; NoExpiry if it has none
    deleted,    \* hashes in ati_deleted_keys
    audit,      \* number of ati_audit_log rows per action and hash
    cache,      \* per pod: the moka cache
    listening,  \* pods whose LISTEN connection is up
    pending,    \* per pod: NOTIFY payloads sent and not yet received
    op,         \* the operations in flight
    handed,     \* keys whose raw value the issuer has received
    verdict,    \* the decision on an Ati-Key request, in the state after it
    missed,     \* history: per pod, revocations it has not been told of
    gone        \* history: time since a key ended in the database

db    == <<rows, blocked, params, deleted, audit>>
pods  == <<cache, listening, pending, missed>>
vars  == <<rows, blocked, params, life, deleted, audit, cache, listening,
           pending, op, handed, verdict, missed, gone>>

AuditAction == {"key.issue", "key.revoke", "key.bulk_revoke"}

-----------------------------------------------------------------------------
Init ==
    /\ rows = {} /\ blocked = {} /\ deleted = {} /\ handed = {}
    /\ params = [k \in Keys |-> CHOOSE ps \in IssueParams : TRUE]
    /\ life = [k \in Keys |-> NoExpiry]
    /\ gone = [k \in Keys |-> 0]
    /\ audit = [a \in AuditAction |-> [k \in Keys |-> 0]]
    /\ cache = [p \in Pods |-> [k \in Keys |-> Absent]]
    /\ listening = {}
    /\ pending = [p \in Pods |-> {}]
    /\ missed = [p \in Pods |-> {}]
    /\ op = [o \in Ops |-> Idle]
    /\ verdict = NoVerdict

Issued(k) == audit["key.issue"][k] > 0

\* The row a SELECT returns for hash k.
RowOf(k) == IF k \notin rows THEN "missing"
            ELSE IF k \in blocked THEN "blocked" ELSE "active"

\* Mutant: the `blocked` column is not looked at.
IsActiveUnlessExpired(val, k) == val # "missing" /\ life[k] # 0

\* AtiKey::is_active on a cached or freshly read row: expires_at is a column
\* that never changes, and it is compared with the clock at every use.
IsActive(val, k) == val = "active" /\ life[k] # 0

\* The decision of authenticate_ati_key, left in `verdict` for the state after.
Decide(val, k) ==
    verdict' = [key |-> k,
                answer |-> IF IsActive(val, k) THEN "granted" ELSE "refused"]

\* cache.insert and cache.invalidate of moka, as the code relies on them.
Insert(p, k, val) ==
    cache' = [cache EXCEPT ![p][k] =
                [val |-> val, left |-> TTL, raced |-> k \notin rows]]

\* Mutant: the removal has no effect.
KeepEntry(p, k) == cache[p]

Invalidate(p, k) == [cache[p] EXCEPT ![k] = Absent]

-----------------------------------------------------------------------------
(* KeyStore::issue                                                          *)

\* The lifetime a key gets: none, and no key, if chrono::Duration overflows.
ExpiresIn(ps) == IF ps.expires_in <= MaxLife THEN {ps.expires_in} ELSE {}

\* One transaction: the row, under UNIQUE (user_id, key_alias), and its audit.
IssueCommit(o, p, k, ps) ==
    /\ op[o] = Idle
    /\ ~Issued(k)
    /\ \A j \in rows : <<params[j].user_id, params[j].key_alias>>
                         # <<ps.user_id, ps.key_alias>>
    /\ rows' = rows \cup {k}
    /\ params' = [params EXCEPT ![k] = ps]
    /\ \E expires_in \in ExpiresIn(ps) : life' = [life EXCEPT ![k] = expires_in]
    /\ audit' = [audit EXCEPT !["key.issue"][k] = @ + 1]
    /\ op' = [op EXCEPT ![o] = [pc |-> "warm", pod |-> p, key |-> k,
                                val |-> "active", age |-> 0]]
    /\ verdict' = NoVerdict
    /\ UNCHANGED <<blocked, deleted, handed, gone, pods>>

\* The cache is pre-warmed with the row the INSERT returned, after the commit;
\* then the raw key goes to the caller.
IssueWarm(o) ==
    /\ op[o].pc = "warm"
    /\ Insert(op[o].pod, op[o].key, op[o].val)
    /\ handed' = handed \cup {op[o].key}
    /\ op' = [op EXCEPT ![o] = Idle]
    /\ verdict' = NoVerdict
    /\ UNCHANGED <<db, life, listening, pending, missed, gone>>

-----------------------------------------------------------------------------
(* KeyStore::lookup, called by authenticate_ati_key                         *)

\* Mutant: time_to_idle, by which every hit renews the entry.
AfterGetIdle(p, k) == [cache EXCEPT ![p][k].left = TTL]

\* The cache is built with time_to_live: a hit does not prolong an entry.
AfterGet(p, k) == cache

\* Keys are presented by whoever received them; the hash of a key that was
\* never handed out has no preimage to present.
LookupHit(p, k) ==
    /\ k \in handed
    /\ cache[p][k] # Absent
    /\ Decide(cache[p][k].val, k)
    /\ cache' = AfterGet(p, k)
    /\ UNCHANGED <<db, life, listening, pending, missed, op, handed, gone>>

LookupMiss(o, p, k) ==
    /\ op[o] = Idle
    /\ k \in handed
    /\ cache[p][k] = Absent
    /\ op' = [op EXCEPT ![o] = [pc |-> "select", pod |-> p, key |-> k]]
    /\ verdict' = NoVerdict
    /\ UNCHANGED <<db, life, pods, handed, gone>>

LookupSelect(o) ==
    /\ op[o].pc = "select"
    /\ op' = [op EXCEPT ![o] = [pc |-> "fill", pod |-> op[o].pod,
                                key |-> op[o].key,
                                val |-> RowOf(op[o].key), age |-> 0]]
    /\ verdict' = NoVerdict
    /\ UNCHANGED <<db, life, pods, handed, gone>>

\* The row read before the await is inserted and decided on after it.
LookupFill(o) ==
    /\ op[o].pc = "fill"
    /\ Insert(op[o].pod, op[o].key, op[o].val)
    /\ Decide(op[o].val, op[o].key)
    /\ op' = [op EXCEPT ![o] = Idle]
    /\ UNCHANGED <<db, life, listening, pending, missed, handed, gone>>

-----------------------------------------------------------------------------
(* KeyStore::revoke and KeyStore::bulk_revoke                               *)

\* pg_notify at commit: every pod that listens is sent the payloads; `missed`
\* remembers, for the pods that do not, what they will not hear.
Notify(ks) ==
    /\ pending' = [q \in Pods |-> IF q \in listening THEN pending[q] \cup ks
                                                     ELSE pending[q]]
    /\ missed'  = [q \in Pods |-> IF q \in listening THEN missed[q]
                                                     ELSE missed[q] \cup ks]

\* Mutant: the rows were found by an earlier SELECT, and none is locked.
SelectedBefore(ks) == ks # {}

\* DELETE ... RETURNING removed ks, and the PRIMARY KEY of ati_deleted_keys
\* admits their snapshots.
DeleteReturns(ks) == ks # {} /\ ks \subseteq rows /\ ks \cap deleted = {}

\* The transaction shared by both: DELETE ... RETURNING, one snapshot, one audit
\* row and one NOTIFY per deleted row.  What is left is the local purge.
RevokeCommit(o, p, ks, action) ==
    /\ op[o] = Idle
    /\ DeleteReturns(ks)
    /\ rows' = rows \ ks
    /\ deleted' = deleted \cup ks
    /\ audit' = [audit EXCEPT ![action] =
                   [k \in Keys |-> IF k \in ks THEN @[k] + 1 ELSE @[k]]]
    /\ Notify(ks)
    /\ op' = [op EXCEPT ![o] = [pc |-> "purge", pod |-> p, todo |-> ks]]
    /\ verdict' = NoVerdict
    /\ UNCHANGED <<blocked, params, life, cache, listening, handed, gone>>

\* A hash with no row: the transaction is dropped, Ok(false), nothing changes.
Revoke(o, p, k) == RevokeCommit(o, p, {k}, "key.revoke")

\* The rows a filter selects.  An unset field is {}: user_id and alias_prefix
\* as the set of users and aliases they match, hashes as given.
Selected(users, prefix, hashes) ==
    {k \in rows : /\ users  = {} \/ params[k].user_id \in users
                  /\ prefix = {} \/ params[k].key_alias \in prefix
                  /\ hashes = {} \/ k \in hashes}

BulkRevoke(o, p, users, prefix, hashes) ==
    /\ ~(users = {} /\ prefix = {} /\ hashes = {})     \* BulkRevokeFilter::is_empty
    /\ RevokeCommit(o, p, Selected(users, prefix, hashes), "key.bulk_revoke")

\* cache.invalidate(hash).await, one revoked hash after the other.
Purge(o, k) ==
    /\ op[o].pc = "purge"
    /\ k \in op[o].todo
    /\ cache' = [cache EXCEPT ![op[o].pod] = Invalidate(op[o].pod, k)]
    /\ missed' = [missed EXCEPT ![op[o].pod] = @ \ {k}]
    /\ op' = [op EXCEPT ![o] = IF op[o].todo = {k} THEN Idle
                               ELSE [pc |-> "purge", pod |-> op[o].pod,
                                     todo |-> op[o].todo \ {k}]]
    /\ verdict' = NoVerdict
    /\ UNCHANGED <<db, life, listening, pending, handed, gone>>

-----------------------------------------------------------------------------
(* The LISTEN task                                                          *)

ListenConnect(p) ==
    /\ p \notin listening
    /\ listening' = listening \cup {p}
    /\ verdict' = NoVerdict
    /\ UNCHANGED <<db, life, cache, pending, missed, op, handed, gone>>

ListenRecv(p, k) ==
    /\ p \in listening
    /\ k \in pending[p]
    /\ cache' = [cache EXCEPT ![p] = Invalidate(p, k)]
    /\ pending' = [pending EXCEPT ![p] = @ \ {k}]
    /\ missed' = [missed EXCEPT ![p] = @ \ {k}]
    /\ verdict' = NoVerdict
    /\ UNCHANGED <<db, life, listening, op, handed, gone>>

\* The connection breaks: what was sent and not received is lost, and the
\* task reconnects later without touching the cache.
ListenDrop(p) ==
    /\ p \in listening
    /\ listening' = listening \ {p}
    /\ pending' = [pending EXCEPT ![p] = {}]
    /\ missed' = [missed EXCEPT ![p] = @ \cup pending[p]]
    /\ verdict' = NoVerdict
    /\ UNCHANGED <<db, life, cache, op, handed, gone>>

-----------------------------------------------------------------------------
(* Failures, the operator, and time                                         *)

\* A query fails, the acknowledgement of a commit is lost, or the client hangs
\* up and its handler is dropped: the operation ends at the await it was at.
Abandon(o) ==
    /\ op[o] # Idle
    /\ op' = [op EXCEPT ![o] = Idle]
    /\ verdict' = NoVerdict
    /\ UNCHANGED <<db, life, pods, handed, gone>>

\* A pod stops and starts again: KeyStore::new returns with an empty cache and
\* a listener that is not connected yet.
Restart(p) ==
    /\ cache' = [cache EXCEPT ![p] = [k \in Keys |-> Absent]]
    /\ listening' = listening \ {p}
    /\ pending' = [pending EXCEPT ![p] = {}]
    /\ missed' = [missed EXCEPT ![p] = {}]
    /\ op' = [o \in Ops |-> IF op[o] # Idle /\ op[o].pod = p THEN Idle ELSE op[o]]
    /\ verdict' = NoVerdict
    /\ UNCHANGED <<db, life, handed, gone>>

\* The code reads the column `blocked` and never writes it: an operator does.
OperatorBlock(k) ==
    /\ k \in rows \ blocked
    /\ blocked' = blocked \cup {k}
    /\ verdict' = NoVerdict
    /\ UNCHANGED <<rows, params, deleted, audit, life, pods, op, handed, gone>>

\* moka may drop an entry to stay within CACHE_CAPACITY.
Evict(p, k) ==
    /\ cache[p][k] # Absent
    /\ cache' = [cache EXCEPT ![p][k] = Absent]
    /\ verdict' = NoVerdict
    /\ UNCHANGED <<db, life, listening, pending, missed, op, handed, gone>>

\* The row has been removed or blocked.
Ended(k) == Issued(k) /\ RowOf(k) # "active"

\* Mutant: an entry is dropped one unit after its time.
AgedLate(e) == IF e.left < 1 THEN Absent
           ELSE [val |-> e.val, left |-> e.left - 1, raced |-> e.raced]

Aged(e) == IF e.left <= 1 THEN Absent
           ELSE [val |-> e.val, left |-> e.left - 1, raced |-> e.raced]

Filling(o) == op[o].pc \in {"fill", "warm"}

Older(f) == [pc |-> f.pc, pod |-> f.pod, key |-> f.key,
             val |-> f.val, age |-> f.age + 1]

Tick ==
    /\ \A o \in Ops : Filling(o) => op[o].age < MaxFill
    /\ life' = [k \in Keys |-> IF life[k] > 0 THEN life[k] - 1 ELSE life[k]]
    /\ gone' = [k \in Keys |-> IF Ended(k) /\ gone[k] < Grace
                               THEN gone[k] + 1 ELSE gone[k]]
    /\ cache' = [p \in Pods |-> [k \in Keys |-> Aged(cache[p][k])]]
    /\ op' = [o \in Ops |-> IF Filling(o) THEN Older(op[o]) ELSE op[o]]
    /\ verdict' = NoVerdict
    /\ UNCHANGED <<db, listening, pending, missed, handed>>

-----------------------------------------------------------------------------
Answer(o) == IssueWarm(o) \/ LookupSelect(o) \/ LookupFill(o)

Next ==
    \/ \E o \in Ops :
         \/ Answer(o)
         \/ Abandon(o)
         \/ \E k \in Keys : Purge(o, k)
         \/ \E p \in Pods, k \in Keys :
              \/ LookupMiss(o, p, k)
              \/ Revoke(o, p, k)
              \/ \E ps \in IssueParams : IssueCommit(o, p, k, ps)
         \/ \E p \in Pods, users \in SUBSET Users,
               prefix \in SUBSET Aliases, hashes \in SUBSET Keys :
              BulkRevoke(o, p, users, prefix, hashes)
    \/ \E p \in Pods :
         \/ ListenConnect(p) \/ ListenDrop(p) \/ Restart(p)
         \/ \E k \in Keys : LookupHit(p, k) \/ ListenRecv(p, k) \/ Evict(p, k)
    \/ \E k \in Keys : OperatorBlock(k)
    \/ Tick

Spec == Init /\ [][Next]_vars

-----------------------------------------------------------------------------
(* What makes it correct                                                    *)

Granted(k) == verdict = [key |-> k, answer |-> "granted"]

\* The shape of the state; the bounds on `left`, `age` and `gone` are part of it.
TypeOK ==
    /\ rows \subseteq Keys /\ blocked \subseteq Keys
    /\ deleted \subseteq Keys /\ handed \subseteq Keys
    /\ params \in [Keys -> IssueParams]
    /\ life \in [Keys -> Nat \cup {NoExpiry}]
    /\ audit \in [AuditAction -> [Keys -> Nat]]
    /\ cache \in [Pods -> [Keys -> Entry \cup {Absent}]]
    /\ listening \subseteq Pods
    /\ pending \in [Pods -> SUBSET Keys]
    /\ missed \in [Pods -> SUBSET Keys]
    /\ op \in [Ops -> {Idle} \cup Selects \cup Fills \cup Purges]
    /\ gone \in [Keys -> 0..Grace]
    /\ verdict \in {NoVerdict} \cup [key : Keys, answer : {"granted", "refused"}]

\* The soft-delete promise of the module header (invariant 3): every key ever
\* issued is in exactly one of ati_keys and ati_deleted_keys, and ati_audit_log
\* tells its story once, whichever revokers raced for it.
AuditTrail ==
    \A k \in Keys :
      /\ audit["key.issue"][k] = IF k \in rows \cup deleted THEN 1 ELSE 0
      /\ audit["key.revoke"][k] + audit["key.bulk_revoke"][k]
           = IF k \in deleted THEN 1 ELSE 0
      /\ k \notin rows \cap deleted

\* A request is let through only while the key's own lifetime runs, and within
\* Grace of the moment the database stopped listing the key as usable: the
\* cached row is stale for at most one TTL after a bounded fill.
GrantsAreTimely ==
    \A k \in Keys : Granted(k) =>
      /\ params[k].expires_in # NoExpiry => life[k] \in 1..params[k].expires_in
      /\ gone[k] < Grace

\* Cross-pod invalidation: a pod that caches a revoked key as usable has not been
\* told yet, missed the NOTIFY, or inserted the entry after the revocation.
StaleOnlyIfExcused ==
    \A p \in Pods, k \in Keys :
      cache[p][k].val = "active" /\ k \notin rows
        => k \in pending[p] \cup missed[p] \/ cache[p][k].raced

\* What keys.rs:5-7 and :17-18 say: with every listener up and no notification
\* left to receive, a revoked key is let through nowhere.  The code does not keep
\* this: a row read before the revocation may enter a cache after it.
RevocationIsImmediate ==
    \A k \in Keys : Granted(k) /\ k \in deleted /\ listening = Pods
      => \E p \in Pods : k \in pending[p] \cup missed[p]

\* The abstract promise, with the database and the caches hidden.
Lease == INSTANCE KeyLease WITH
           state <- [k \in Keys |-> IF ~Issued(k) THEN "new"
                                    ELSE IF RowOf(k) = "active" THEN "live"
                                    ELSE "ended"],
           since <- gone
KeepsLease == Lease!Spec
=============================================================================
