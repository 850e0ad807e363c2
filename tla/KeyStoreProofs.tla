--------------------------- MODULE KeyStoreProofs ---------------------------
(***************************************************************************)
(* Theorems about KeyStore for every number of pods, keys and operations   *)
(* in flight, every TTL and every bound on the time of a fill.             *)
(***************************************************************************)
EXTENDS KeyStore, TLAPS

LEMMA InitType == Init => TypeOK
<1> SUFFICES ASSUME Init PROVE TypeOK
  OBVIOUS
<1>1. params \in [Keys -> IssueParams]
  <2>1. \E ps \in IssueParams : TRUE
    <3>1. PICK u \in Users, a \in Aliases, l \in Lifetimes : TRUE
      BY KeyStoreAssumption
    <3>2. [user_id |-> u, key_alias |-> a, expires_in |-> l] \in IssueParams
      BY DEF IssueParams
    <3> QED BY <3>2
  <2> QED BY <2>1 DEF Init
<1>2. /\ rows \subseteq Keys /\ blocked \subseteq Keys
      /\ deleted \subseteq Keys /\ handed \subseteq Keys
      /\ listening \subseteq Pods
      /\ pending \in [Pods -> SUBSET Keys]
      /\ missed \in [Pods -> SUBSET Keys]
      /\ life \in [Keys -> Nat \cup {NoExpiry}]
      /\ audit \in [AuditAction -> [Keys -> Nat]]
  BY DEF Init
<1>3. gone \in [Keys -> 0..Grace]
  BY KeyStoreAssumption DEF Init, Grace
<1>4. cache \in [Pods -> [Keys -> Entry \cup {Absent}]]
  BY DEF Init
<1>5. op \in [Ops -> {Idle} \cup Selects \cup Fills \cup Purges]
  BY DEF Init
<1> QED BY <1>1, <1>2, <1>3, <1>4, <1>5 DEF TypeOK, Init

LEMMA IssueCommitType ==
    ASSUME TypeOK, NEW o \in Ops, NEW p \in Pods, NEW k \in Keys,
           NEW ps \in IssueParams, IssueCommit(o, p, k, ps)
    PROVE  TypeOK'
<1>1. life' \in [Keys -> Nat \cup {NoExpiry}]
  BY KeyStoreAssumption DEF TypeOK, IssueCommit, ExpiresIn, IssueParams
<1>2. audit' \in [AuditAction -> [Keys -> Nat]]
  BY DEF TypeOK, IssueCommit, AuditAction
<1>3. op' \in [Ops -> {Idle} \cup Selects \cup Fills \cup Purges]
  <2>1. [pc |-> "warm", pod |-> p, key |-> k, val |-> "active", age |-> 0] \in Fills
    BY KeyStoreAssumption DEF Fills, RowValue
  <2> QED BY <2>1 DEF TypeOK, IssueCommit
<1>4. params' \in [Keys -> IssueParams]
  BY DEF TypeOK, IssueCommit
<1> QED BY <1>1, <1>2, <1>3, <1>4 DEF TypeOK, IssueCommit, pods

LEMMA FillingType ==
    ASSUME TypeOK, NEW o \in Ops, Filling(o)
    PROVE  op[o] \in Fills
<1>1. op[o] \in {Idle} \cup Selects \cup Fills \cup Purges
  BY DEF TypeOK
<1> QED BY <1>1 DEF Filling, Idle, Selects, Fills, Purges

LEMMA InsertType ==
    ASSUME TypeOK, NEW p \in Pods, NEW k \in Keys, NEW val \in RowValue,
           Insert(p, k, val)
    PROVE  cache' \in [Pods -> [Keys -> Entry \cup {Absent}]]
<1>1. [val |-> val, left |-> TTL, raced |-> k \notin rows] \in Entry
  BY KeyStoreAssumption DEF Entry
<1> QED BY <1>1 DEF TypeOK, Insert

LEMMA DecideType ==
    ASSUME NEW k \in Keys, NEW val, Decide(val, k)
    PROVE  verdict' \in {NoVerdict} \cup [key : Keys, answer : {"granted", "refused"}]
BY DEF Decide

LEMMA TickType == TypeOK /\ Tick => TypeOK'
<1> SUFFICES ASSUME TypeOK, Tick PROVE TypeOK'
  OBVIOUS
<1>1. life' \in [Keys -> Nat \cup {NoExpiry}]
  BY DEF TypeOK, Tick, NoExpiry
<1>2. gone' \in [Keys -> 0..Grace]
  BY KeyStoreAssumption DEF TypeOK, Tick, Grace
<1>3. cache' \in [Pods -> [Keys -> Entry \cup {Absent}]]
  <2>1. ASSUME NEW e \in Entry \cup {Absent} PROVE Aged(e) \in Entry \cup {Absent}
    BY KeyStoreAssumption DEF Entry, Absent, Aged
  <2> QED BY <2>1 DEF TypeOK, Tick
<1>4. op' \in [Ops -> {Idle} \cup Selects \cup Fills \cup Purges]
  <2>1. ASSUME NEW o \in Ops, Filling(o)
        PROVE  Older(op[o]) \in Fills
    BY <2>1, FillingType, KeyStoreAssumption DEF Tick, Fills, Older
  <2> QED BY <2>1 DEF TypeOK, Tick
<1> QED BY <1>1, <1>2, <1>3, <1>4 DEF TypeOK, Tick, db

-----------------------------------------------------------------------------
(* The two revocations are one transaction on different sets of rows.       *)

LEMMA SelectedRows ==
    ASSUME NEW users, NEW prefix, NEW hashes
    PROVE  Selected(users, prefix, hashes) \subseteq rows
BY DEF Selected

LEMMA Revocations ==
    ASSUME NEW o \in Ops, NEW p \in Pods,
           \/ \E k \in Keys : Revoke(o, p, k)
           \/ \E users \in SUBSET Users, prefix \in SUBSET Aliases,
                 hashes \in SUBSET Keys : BulkRevoke(o, p, users, prefix, hashes)
    PROVE  \E ks \in SUBSET rows, action \in {"key.revoke", "key.bulk_revoke"} :
             RevokeCommit(o, p, ks, action)
<1>1. ASSUME NEW k \in Keys, Revoke(o, p, k)
      PROVE  {k} \in SUBSET rows /\ RevokeCommit(o, p, {k}, "key.revoke")
  BY <1>1 DEF Revoke, RevokeCommit, DeleteReturns
<1>2. ASSUME NEW users \in SUBSET Users, NEW prefix \in SUBSET Aliases,
             NEW hashes \in SUBSET Keys, BulkRevoke(o, p, users, prefix, hashes)
      PROVE  /\ Selected(users, prefix, hashes) \in SUBSET rows
             /\ RevokeCommit(o, p, Selected(users, prefix, hashes), "key.bulk_revoke")
  BY <1>2, SelectedRows DEF BulkRevoke
<1> QED BY <1>1, <1>2

\* The steps of the system, with the two revocations as one.
Step ==
    \/ \E o \in Ops, p \in Pods, k \in Keys, ps \in IssueParams :
         IssueCommit(o, p, k, ps)
    \/ \E o \in Ops, p \in Pods, ks \in SUBSET rows,
          action \in {"key.revoke", "key.bulk_revoke"} :
         RevokeCommit(o, p, ks, action)
    \/ \E o \in Ops, p \in Pods, k \in Keys : LookupMiss(o, p, k)
    \/ \E o \in Ops, k \in Keys : Purge(o, k)
    \/ \E o \in Ops : \/ IssueWarm(o) \/ LookupSelect(o) \/ LookupFill(o)
                      \/ Abandon(o)
    \/ \E p \in Pods, k \in Keys : \/ LookupHit(p, k) \/ ListenRecv(p, k)
                                   \/ Evict(p, k)
    \/ \E p \in Pods : ListenConnect(p) \/ ListenDrop(p) \/ Restart(p)
    \/ \E k \in Keys : OperatorBlock(k)
    \/ Tick

LEMMA NextSteps == Next => Step
BY Revocations DEF Next, Answer, Step

-----------------------------------------------------------------------------
(* Type correctness                                                         *)

LEMMA RevokeCommitType ==
    ASSUME TypeOK, NEW o \in Ops, NEW p \in Pods, NEW ks \in SUBSET rows,
           NEW action \in {"key.revoke", "key.bulk_revoke"},
           RevokeCommit(o, p, ks, action)
    PROVE  TypeOK'
<1>1. audit' \in [AuditAction -> [Keys -> Nat]]
  BY DEF TypeOK, RevokeCommit, AuditAction
<1>2. op' \in [Ops -> {Idle} \cup Selects \cup Fills \cup Purges]
  <2>1. [pc |-> "purge", pod |-> p, todo |-> ks] \in Purges
    BY DEF Purges, TypeOK
  <2> QED BY <2>1 DEF TypeOK, RevokeCommit
<1>3. pending' \in [Pods -> SUBSET Keys] /\ missed' \in [Pods -> SUBSET Keys]
  BY DEF TypeOK, RevokeCommit, Notify
<1> QED BY <1>1, <1>2, <1>3 DEF TypeOK, RevokeCommit

LEMMA PurgeType ==
    ASSUME TypeOK, NEW o \in Ops, NEW k \in Keys, Purge(o, k)
    PROVE  op[o] \in Purges /\ TypeOK'
<1>1. op[o] \in Purges
  <2>1. op[o] \in {Idle} \cup Selects \cup Fills \cup Purges
    BY DEF TypeOK
  <2> QED BY <2>1 DEF Purge, Idle, Selects, Fills, Purges
<1>2. cache' \in [Pods -> [Keys -> Entry \cup {Absent}]]
  BY <1>1 DEF TypeOK, Purge, Invalidate, Purges
<1>3. missed' \in [Pods -> SUBSET Keys]
  BY <1>1 DEF TypeOK, Purge, Purges
<1>4. op' \in [Ops -> {Idle} \cup Selects \cup Fills \cup Purges]
  <2>1. [pc |-> "purge", pod |-> op[o].pod, todo |-> op[o].todo \ {k}] \in Purges
    BY <1>1 DEF Purges
  <2> QED BY <2>1 DEF TypeOK, Purge
<1> QED BY <1>1, <1>2, <1>3, <1>4 DEF TypeOK, Purge, db

LEMMA FillStepType ==
    ASSUME TypeOK, NEW o \in Ops, IssueWarm(o) \/ LookupFill(o)
    PROVE  op[o] \in Fills /\ TypeOK'
<1>1. op[o] \in Fills
  BY FillingType DEF IssueWarm, LookupFill, Filling
<1>2. cache' \in [Pods -> [Keys -> Entry \cup {Absent}]]
  BY <1>1, InsertType DEF IssueWarm, LookupFill, Fills
<1>3. verdict' \in {NoVerdict} \cup [key : Keys, answer : {"granted", "refused"}]
  BY <1>1, DecideType DEF IssueWarm, LookupFill, Fills
<1> QED BY <1>1, <1>2, <1>3 DEF TypeOK, IssueWarm, LookupFill, Fills, db

LEMMA SelectType ==
    ASSUME TypeOK, NEW o \in Ops, LookupSelect(o)
    PROVE  op[o] \in Selects /\ TypeOK'
<1>1. op[o] \in Selects
  <2>1. op[o] \in {Idle} \cup Selects \cup Fills \cup Purges
    BY DEF TypeOK
  <2> QED BY <2>1 DEF LookupSelect, Idle, Selects, Fills, Purges
<1>2. [pc |-> "fill", pod |-> op[o].pod, key |-> op[o].key,
       val |-> RowOf(op[o].key), age |-> 0] \in Fills
  BY <1>1, KeyStoreAssumption DEF Fills, Selects, RowOf, RowValue
<1> QED BY <1>1, <1>2 DEF TypeOK, LookupSelect, db, pods

LEMMA MissType ==
    ASSUME TypeOK, NEW o \in Ops, NEW p \in Pods, NEW k \in Keys,
           LookupMiss(o, p, k)
    PROVE  TypeOK'
<1>1. [pc |-> "select", pod |-> p, key |-> k] \in Selects
  BY DEF Selects
<1> QED BY <1>1 DEF TypeOK, LookupMiss, db, pods

LEMMA PodStepType ==
    ASSUME TypeOK, NEW p \in Pods,
           \/ ListenConnect(p) \/ ListenDrop(p) \/ Restart(p)
           \/ \E k \in Keys : LookupHit(p, k) \/ ListenRecv(p, k) \/ Evict(p, k)
    PROVE  TypeOK'
<1>1. CASE ListenConnect(p)
  BY <1>1 DEF TypeOK, ListenConnect, db
<1>2. CASE ListenDrop(p)
  BY <1>2 DEF TypeOK, ListenDrop, db
<1>3. CASE Restart(p)
  BY <1>3 DEF TypeOK, Restart, db
<1>4. ASSUME NEW k \in Keys, LookupHit(p, k) PROVE TypeOK'
  BY <1>4, DecideType DEF TypeOK, LookupHit, AfterGet, db
<1>5. ASSUME NEW k \in Keys, ListenRecv(p, k) PROVE TypeOK'
  BY <1>5 DEF TypeOK, ListenRecv, Invalidate, db
<1>6. ASSUME NEW k \in Keys, Evict(p, k) PROVE TypeOK'
  BY <1>6 DEF TypeOK, Evict, db
<1> QED BY <1>1, <1>2, <1>3, <1>4, <1>5, <1>6

LEMMA StepType == TypeOK /\ [Next]_vars => TypeOK'
<1> SUFFICES ASSUME TypeOK, [Next]_vars PROVE TypeOK'
  OBVIOUS
<1>1. CASE UNCHANGED vars
  BY <1>1 DEF TypeOK, vars
<1>2. CASE Step
  <2>1. ASSUME NEW o \in Ops, Abandon(o) PROVE TypeOK'
    BY <2>1 DEF TypeOK, Abandon, db, pods
  <2>2. ASSUME NEW k \in Keys, OperatorBlock(k) PROVE TypeOK'
    BY <2>2 DEF TypeOK, OperatorBlock, pods
  <2> QED BY <1>2, <2>1, <2>2, IssueCommitType, RevokeCommitType, MissType,
             PurgeType, FillStepType, SelectType, PodStepType, TickType DEF Step
<1> QED BY <1>1, <1>2, NextSteps

\* Type correctness: in particular no cached entry outlives TTL, and no read in
\* flight is older than MaxFill.
THEOREM TypeCorrect == Spec => []TypeOK
<1>1. Init => TypeOK
  BY InitType
<1>2. TypeOK /\ [Next]_vars => TypeOK'
  BY StepType
<1> QED BY <1>1, <1>2, PTL DEF Spec

-----------------------------------------------------------------------------
(* The audit trail                                                          *)

LEMMA AuditIssue ==
    ASSUME TypeOK, AuditTrail, NEW o \in Ops, NEW p \in Pods, NEW k \in Keys,
           NEW ps \in IssueParams, IssueCommit(o, p, k, ps)
    PROVE  AuditTrail'
BY DEF TypeOK, AuditTrail, IssueCommit, Issued, AuditAction

LEMMA AuditRevoke ==
    ASSUME TypeOK, AuditTrail, NEW o \in Ops, NEW p \in Pods,
           NEW ks \in SUBSET rows, NEW action \in {"key.revoke", "key.bulk_revoke"},
           RevokeCommit(o, p, ks, action)
    PROVE  AuditTrail'
<1> SUFFICES ASSUME NEW k \in Keys
             PROVE  /\ audit'["key.issue"][k] = IF k \in rows' \cup deleted' THEN 1 ELSE 0
                    /\ audit'["key.revoke"][k] + audit'["key.bulk_revoke"][k]
                         = IF k \in deleted' THEN 1 ELSE 0
                    /\ k \notin rows' \cap deleted'
  BY DEF AuditTrail
<1>1. audit'["key.issue"][k] = audit["key.issue"][k]
  BY DEF TypeOK, RevokeCommit, AuditAction
<1>2. audit'["key.revoke"][k] + audit'["key.bulk_revoke"][k]
        = IF k \in ks THEN audit["key.revoke"][k] + audit["key.bulk_revoke"][k] + 1
          ELSE audit["key.revoke"][k] + audit["key.bulk_revoke"][k]
  BY DEF TypeOK, RevokeCommit, AuditAction
<1>3. k \in ks => k \in rows /\ k \notin deleted
  BY DEF AuditTrail, TypeOK
<1>4. rows' = rows \ ks /\ deleted' = deleted \cup ks
  BY DEF RevokeCommit
<1> QED BY <1>1, <1>2, <1>3, <1>4 DEF AuditTrail

LEMMA AuditStep == TypeOK /\ AuditTrail /\ [Next]_vars => AuditTrail'
<1> SUFFICES ASSUME TypeOK, AuditTrail, [Next]_vars PROVE AuditTrail'
  OBVIOUS
<1>1. ASSUME UNCHANGED <<rows, deleted, audit>> PROVE AuditTrail'
  BY <1>1 DEF AuditTrail
<1>2. CASE Step
  <2>1. ASSUME NEW o \in Ops, NEW p \in Pods, NEW k \in Keys, LookupMiss(o, p, k)
        PROVE  AuditTrail'
    BY <1>1, <2>1 DEF LookupMiss, db
  <2>2. ASSUME NEW o \in Ops, NEW k \in Keys, Purge(o, k) PROVE AuditTrail'
    BY <1>1, <2>2 DEF Purge, db
  <2>3. ASSUME NEW o \in Ops,
               IssueWarm(o) \/ LookupSelect(o) \/ LookupFill(o) \/ Abandon(o)
        PROVE  AuditTrail'
    BY <1>1, <2>3 DEF IssueWarm, LookupSelect, LookupFill, Abandon, db
  <2>4. ASSUME NEW p \in Pods, NEW k \in Keys,
               LookupHit(p, k) \/ ListenRecv(p, k) \/ Evict(p, k)
        PROVE  AuditTrail'
    BY <1>1, <2>4 DEF LookupHit, ListenRecv, Evict, db
  <2>5. ASSUME NEW p \in Pods, ListenConnect(p) \/ ListenDrop(p) \/ Restart(p)
        PROVE  AuditTrail'
    BY <1>1, <2>5 DEF ListenConnect, ListenDrop, Restart, db
  <2>6. ASSUME NEW k \in Keys, OperatorBlock(k) PROVE AuditTrail'
    BY <1>1, <2>6 DEF OperatorBlock
  <2>7. CASE Tick
    BY <1>1, <2>7 DEF Tick, db
  <2> QED BY <1>2, <2>1, <2>2, <2>3, <2>4, <2>5, <2>6, <2>7,
             AuditIssue, AuditRevoke DEF Step
<1>3. CASE UNCHANGED vars
  BY <1>1, <1>3 DEF vars
<1> QED BY <1>2, <1>3, NextSteps

\* However revokers interleave, every key issued is in exactly one of the two
\* tables and its history is written exactly once.
THEOREM AuditIsComplete == Spec => []AuditTrail
<1>1. Init => AuditTrail
  BY DEF Init, AuditTrail, AuditAction
<1>2. TypeOK /\ AuditTrail /\ [Next]_vars => AuditTrail'
  BY AuditStep
<1> QED BY <1>1, <1>2, TypeCorrect, PTL DEF Spec

-----------------------------------------------------------------------------
(* Stale entries                                                            *)

LEMMA InsertExcused ==
    ASSUME TypeOK, StaleOnlyIfExcused, NEW p \in Pods, NEW k \in Keys,
           NEW val \in RowValue, Insert(p, k, val),
           UNCHANGED <<rows, pending, missed>>
    PROVE  StaleOnlyIfExcused'
BY DEF TypeOK, StaleOnlyIfExcused, Insert

\* An entry is dropped, and nobody but its pod is told anything.
LEMMA RemovalExcused ==
    ASSUME TypeOK, StaleOnlyIfExcused, NEW p \in Pods, NEW k \in Keys,
           cache' = [cache EXCEPT ![p] = Invalidate(p, k)],
           pending' = [pending EXCEPT ![p] = @ \ {k}] \/ UNCHANGED pending,
           missed' = [missed EXCEPT ![p] = @ \ {k}],
           UNCHANGED rows
    PROVE  StaleOnlyIfExcused'
<1> SUFFICES ASSUME NEW q \in Pods, NEW j \in Keys,
                    cache'[q][j].val = "active", j \notin rows'
             PROVE  j \in pending'[q] \cup missed'[q] \/ cache'[q][j].raced
  BY DEF StaleOnlyIfExcused
<1>1. ~(q = p /\ j = k)
  BY DEF TypeOK, Invalidate, Absent
<1>2. cache'[q][j] = cache[q][j]
  BY <1>1 DEF TypeOK, Invalidate
<1>3. j \in pending[q] \cup missed[q] => j \in pending'[q] \cup missed'[q]
  BY <1>1 DEF TypeOK
<1> QED BY <1>2, <1>3 DEF StaleOnlyIfExcused

LEMMA RevokeExcused ==
    ASSUME TypeOK, StaleOnlyIfExcused, NEW o \in Ops, NEW p \in Pods,
           NEW ks \in SUBSET rows, NEW action \in {"key.revoke", "key.bulk_revoke"},
           RevokeCommit(o, p, ks, action)
    PROVE  StaleOnlyIfExcused'
<1> SUFFICES ASSUME NEW q \in Pods, NEW j \in Keys,
                    cache[q][j].val = "active", j \notin rows \ ks
             PROVE  j \in pending'[q] \cup missed'[q] \/ cache[q][j].raced
  BY DEF StaleOnlyIfExcused, RevokeCommit
<1>1. ks \subseteq pending'[q] \cup missed'[q]
  BY DEF TypeOK, RevokeCommit, Notify
<1>2. pending[q] \cup missed[q] \subseteq pending'[q] \cup missed'[q]
  BY DEF TypeOK, RevokeCommit, Notify
<1> QED BY <1>1, <1>2 DEF StaleOnlyIfExcused

LEMMA TickExcused == TypeOK /\ StaleOnlyIfExcused /\ Tick => StaleOnlyIfExcused'
<1> SUFFICES ASSUME TypeOK, StaleOnlyIfExcused, Tick,
                    NEW q \in Pods, NEW j \in Keys,
                    cache'[q][j].val = "active", j \notin rows
             PROVE  j \in pending[q] \cup missed[q] \/ cache'[q][j].raced
  BY DEF StaleOnlyIfExcused, Tick, db
<1>1. cache'[q][j] = Aged(cache[q][j])
  BY DEF Tick
<1>2. ~(cache[q][j].left <= 1)
  BY <1>1 DEF Aged, Absent
<1>3. cache'[q][j] = [val |-> cache[q][j].val, left |-> cache[q][j].left - 1,
                      raced |-> cache[q][j].raced]
  BY <1>1, <1>2 DEF Aged
<1>4. cache[q][j].val = "active"
  BY <1>3
<1>5. cache'[q][j].raced = cache[q][j].raced
  <2>1. ASSUME NEW v, NEW n, NEW r PROVE [val |-> v, left |-> n, raced |-> r].raced = r
    OBVIOUS
  <2> QED BY <1>3, <2>1
<1> QED BY <1>4, <1>5 DEF StaleOnlyIfExcused

LEMMA StaleStep ==
    TypeOK /\ StaleOnlyIfExcused /\ [Next]_vars => StaleOnlyIfExcused'
<1> SUFFICES ASSUME TypeOK, StaleOnlyIfExcused, [Next]_vars
             PROVE  StaleOnlyIfExcused'
  OBVIOUS
<1>1. ASSUME UNCHANGED <<rows, cache, pending, missed>> PROVE StaleOnlyIfExcused'
  BY <1>1 DEF StaleOnlyIfExcused
<1>2. CASE Step
  <2>0. ASSUME NEW o \in Ops, NEW p \in Pods, NEW k \in Keys, LookupMiss(o, p, k)
        PROVE  StaleOnlyIfExcused'
    BY <1>1, <2>0 DEF LookupMiss, db, pods
  <2>1. ASSUME NEW o \in Ops, NEW p \in Pods, NEW k \in Keys,
               NEW ps \in IssueParams, IssueCommit(o, p, k, ps)
        PROVE  StaleOnlyIfExcused'
    BY <2>1 DEF IssueCommit, StaleOnlyIfExcused, pods
  <2>2. ASSUME NEW o \in Ops, NEW k \in Keys, Purge(o, k) PROVE StaleOnlyIfExcused'
    <3>1. op[o].pod \in Pods
      BY <2>2, PurgeType DEF Purges
    <3> QED BY <2>2, <3>1, RemovalExcused DEF Purge, db
  <2>3. ASSUME NEW o \in Ops, IssueWarm(o) \/ LookupFill(o)
        PROVE  StaleOnlyIfExcused'
    <3>1. op[o] \in Fills
      BY <2>3, FillStepType
    <3> QED BY <2>3, <3>1, InsertExcused DEF IssueWarm, LookupFill, Fills, db
  <2>4. ASSUME NEW o \in Ops, LookupSelect(o) \/ Abandon(o)
        PROVE  StaleOnlyIfExcused'
    BY <1>1, <2>4 DEF LookupSelect, Abandon, db, pods
  <2>5. ASSUME NEW p \in Pods, NEW k \in Keys, LookupHit(p, k)
        PROVE  StaleOnlyIfExcused'
    BY <1>1, <2>5 DEF LookupHit, AfterGet, db
  <2>6. ASSUME NEW p \in Pods, NEW k \in Keys, ListenRecv(p, k)
        PROVE  StaleOnlyIfExcused'
    BY <2>6, RemovalExcused DEF ListenRecv, db
  <2>7. ASSUME NEW p \in Pods, NEW k \in Keys, Evict(p, k)
        PROVE  StaleOnlyIfExcused'
    BY <2>7 DEF Evict, Absent, StaleOnlyIfExcused, TypeOK, db
  <2>8. ASSUME NEW p \in Pods, ListenConnect(p) PROVE StaleOnlyIfExcused'
    BY <1>1, <2>8 DEF ListenConnect, db
  <2>9. ASSUME NEW p \in Pods, ListenDrop(p) PROVE StaleOnlyIfExcused'
    BY <2>9 DEF ListenDrop, StaleOnlyIfExcused, TypeOK, db
  <2>10. ASSUME NEW p \in Pods, Restart(p) PROVE StaleOnlyIfExcused'
    BY <2>10 DEF Restart, Absent, StaleOnlyIfExcused, TypeOK, db
  <2>11. ASSUME NEW k \in Keys, OperatorBlock(k) PROVE StaleOnlyIfExcused'
    BY <1>1, <2>11 DEF OperatorBlock, pods
  <2> QED BY <1>2, <2>0, <2>1, <2>2, <2>3, <2>4, <2>5, <2>6, <2>7, <2>8, <2>9,
             <2>10, <2>11, RevokeExcused, TickExcused DEF Step
<1>3. CASE UNCHANGED vars
  BY <1>1, <1>3 DEF vars
<1> QED BY <1>2, <1>3, NextSteps

\* A pod caches a revoked key as usable only if it has not been told, missed the
\* NOTIFY, or inserted the row after the revocation.
THEOREM StaleEntriesAreExcused == Spec => []StaleOnlyIfExcused
<1>1. Init => StaleOnlyIfExcused
  BY DEF Init, StaleOnlyIfExcused, Absent
<1>2. TypeOK /\ StaleOnlyIfExcused /\ [Next]_vars => StaleOnlyIfExcused'
  BY StaleStep
<1> QED BY <1>1, <1>2, TypeCorrect, PTL DEF Spec

-----------------------------------------------------------------------------
(* Timeliness.  GrantsAreTimely speaks of one decision; it is inductive with *)
(* what is known of every value a decision can be taken on.                  *)

Loading(o) == op[o].pc \in {"select", "fill", "warm"}

\* Whatever is stored, blocked, handed out or being loaded has been issued.
Known ==
    /\ rows \subseteq {k \in Keys : Issued(k)}
    /\ blocked \subseteq {k \in Keys : Issued(k)}
    /\ handed \subseteq {k \in Keys : Issued(k)}
    /\ \A o \in Ops : Loading(o) => Issued(op[o].key)

\* A lifetime never exceeds the one asked for.
Mortal ==
    \A k \in Keys : Issued(k) /\ params[k].expires_in # NoExpiry
                      => life[k] \in 0..params[k].expires_in

\* Time since the end is paid for by the age of the value: an entry that still
\* says "active" has been cached, and was read, that long ago.
Fresh ==
    /\ \A k \in Keys : ~Ended(k) => gone[k] = 0
    /\ \A p \in Pods, k \in Keys :
         cache[p][k].val = "active" => gone[k] + cache[p][k].left <= Grace
    /\ \A o \in Ops : Filling(o) /\ op[o].val = "active"
                        => gone[op[o].key] <= op[o].age

Timely == Known /\ Mortal /\ Fresh /\ GrantsAreTimely

LEMMA InitTimely == Init => Timely
BY KeyStoreAssumption DEF Init, Timely, Known, Mortal, Fresh, GrantsAreTimely,
   Granted, NoVerdict, Issued, Ended, RowOf, Loading, Filling, Idle, Absent,
   AuditAction, Grace

\* A step that decides nothing leaves no grant to justify.
LEMMA NoGrant == ASSUME verdict' = NoVerdict PROVE GrantsAreTimely'
<1> SUFFICES ASSUME NEW k \in Keys, Granted(k)' PROVE FALSE
  BY DEF GrantsAreTimely
<1> QED BY DEF Granted, NoVerdict

LEMMA AskedIsInt == ASSUME TypeOK, NEW k \in Keys PROVE params[k].expires_in \in Int
<1>1. params[k] \in IssueParams
  BY DEF TypeOK
<1>2. params[k].expires_in \in Lifetimes
  BY <1>1 DEF IssueParams
<1>3. \A l \in Lifetimes : l \in Nat \/ l = -1
  BY KeyStoreAssumption DEF NoExpiry
<1> QED BY <1>2, <1>3

\* What is issued stays issued, and only issued keys are added.
LEMMA KnownStep ==
    ASSUME Known,
           \A j \in Keys : Issued(j) => Issued(j)',
           rows' \subseteq rows \cup {j \in Keys : Issued(j)'},
           blocked' \subseteq blocked \cup rows,
           handed' \subseteq handed \cup {j \in Keys : Issued(j)'},
           \A x \in Ops : Loading(x)' =>
             \/ Loading(x) /\ op'[x].key = op[x].key /\ op[x].key \in Keys
             \/ op'[x].key \in {j \in Keys : Issued(j)'}
    PROVE  Known'
<1>1. /\ rows' \subseteq {j \in Keys : Issued(j)'}
      /\ blocked' \subseteq {j \in Keys : Issued(j)'}
      /\ handed' \subseteq {j \in Keys : Issued(j)'}
  BY DEF Known
<1>2. ASSUME NEW x \in Ops, Loading(x)' PROVE op'[x].key \in {j \in Keys : Issued(j)'}
  BY <1>2 DEF Known
<1>3. \A j \in {i \in Keys : Issued(i)'} : audit'["key.issue"][j] > 0
  BY DEF Issued
<1> QED BY <1>1, <1>2, <1>3 DEF Known, Issued

LEMMA LoadingKey ==
    ASSUME TypeOK, NEW o \in Ops, Loading(o)
    PROVE  op[o].key \in Keys
<1>1. op[o] \in {Idle} \cup Selects \cup Fills \cup Purges
  BY DEF TypeOK
<1> QED BY <1>1 DEF Loading, Idle, Selects, Fills, Purges

\* A decision on an issued key and a fresh value.
LEMMA DecisionTimely ==
    ASSUME TypeOK, Mortal, NEW k \in Keys, NEW val, Issued(k), Decide(val, k),
           val = "active" => gone[k] < Grace, UNCHANGED <<params, life, gone>>
    PROVE  GrantsAreTimely'
<1> SUFFICES ASSUME NEW j \in Keys, verdict' = [key |-> j, answer |-> "granted"]
             PROVE  /\ params[j].expires_in # NoExpiry
                         => life[j] \in 1..params[j].expires_in
                    /\ gone[j] < Grace
  BY DEF GrantsAreTimely, Granted
<1>1. j = k /\ IsActive(val, k)
  BY DEF Decide
<1>2. params[k].expires_in # NoExpiry => life[k] \in 0..params[k].expires_in
  BY DEF Mortal
<1>3. life[k] # 0 /\ val = "active"
  BY <1>1 DEF IsActive
<1>4. params[k].expires_in \in Int
  BY AskedIsInt
<1> QED BY <1>1, <1>2, <1>3, <1>4

LEMMA TimelyIssue ==
    ASSUME TypeOK, AuditTrail, Timely, NEW o \in Ops, NEW p \in Pods,
           NEW k \in Keys, NEW ps \in IssueParams, IssueCommit(o, p, k, ps)
    PROVE  Timely'
<1>1. GrantsAreTimely'
  BY NoGrant DEF IssueCommit
<1>2. \A j \in Keys : Issued(j)' <=> j = k \/ Issued(j)
  BY DEF TypeOK, IssueCommit, Issued, AuditAction
<1>3. Known'
  <2>1. op'[o].key = k /\ \A x \in Ops \ {o} : op'[x] = op[x]
    BY DEF TypeOK, IssueCommit
  <2>2. \A x \in Ops : Loading(x)' =>
          \/ Loading(x) /\ op'[x].key = op[x].key /\ op[x].key \in Keys
          \/ op'[x].key \in {j \in Keys : Issued(j)'}
    BY <1>2, <2>1, LoadingKey DEF Loading
  <2> QED BY <1>2, <2>2, KnownStep DEF Timely, IssueCommit
<1>4. Mortal'
  <2>1. life'[k] = ps.expires_in /\ params'[k] = ps
    BY DEF TypeOK, IssueCommit, ExpiresIn
  <2>2. \A j \in Keys \ {k} : life'[j] = life[j] /\ params'[j] = params[j]
    BY DEF TypeOK, IssueCommit
  <2>3. ps.expires_in \in Nat \cup {NoExpiry}
    BY KeyStoreAssumption DEF IssueParams
  <2> QED BY <1>2, <2>1, <2>2, <2>3 DEF Timely, Mortal
<1>5. Fresh'
  <2>1. k \notin blocked /\ k \notin rows
    BY DEF Timely, Known, IssueCommit
  <2>2. \A j \in Keys : ~Ended(j)' => ~Ended(j)
    BY <1>2, <2>1 DEF IssueCommit, Ended, RowOf
  <2>3. gone[k] = 0
    BY DEF Timely, Fresh, Ended, IssueCommit
  <2> QED BY <2>2, <2>3 DEF TypeOK, Timely, Fresh, IssueCommit, Filling, pods
<1> QED BY <1>1, <1>3, <1>4, <1>5 DEF Timely

LEMMA TimelyRevoke ==
    ASSUME TypeOK, Timely, NEW o \in Ops, NEW p \in Pods,
           NEW ks \in SUBSET rows, NEW action \in {"key.revoke", "key.bulk_revoke"},
           RevokeCommit(o, p, ks, action)
    PROVE  Timely'
<1>1. GrantsAreTimely'
  BY NoGrant DEF RevokeCommit
<1>2. \A j \in Keys : Issued(j)' <=> Issued(j)
  BY DEF TypeOK, RevokeCommit, Issued, AuditAction
<1>3. Known'
  <2>1. \A x \in Ops : Loading(x)' => op'[x] = op[x]
    BY DEF TypeOK, RevokeCommit, Loading
  <2> QED BY <1>2, <2>1, KnownStep, LoadingKey DEF Timely, RevokeCommit, Loading
<1>4. Mortal'
  BY <1>2 DEF Timely, Mortal, RevokeCommit
<1>5. \A j \in Keys : ~Ended(j)' => ~Ended(j)
  BY <1>2 DEF RevokeCommit, Ended, RowOf
<1>6. Fresh'
  BY <1>5 DEF TypeOK, Timely, Fresh, RevokeCommit, Filling
<1> QED BY <1>1, <1>3, <1>4, <1>6 DEF Timely

\* The insertion that ends an issue or a lookup, of a value no older than MaxFill.
LEMMA TimelyFill ==
    ASSUME TypeOK, Timely, NEW o \in Ops, IssueWarm(o) \/ LookupFill(o)
    PROVE  Timely'
<1>1. op[o] \in Fills /\ Issued(op[o].key)
  BY FillStepType DEF Timely, Known, Loading, IssueWarm, LookupFill
<1> DEFINE p == op[o].pod
           k == op[o].key
<1>2. p \in Pods /\ k \in Keys /\ op[o].age \in 0..MaxFill /\ op[o].val \in RowValue
  BY <1>1 DEF Fills
<1>3. op[o].val = "active" => gone[k] + TTL <= Grace /\ gone[k] < Grace
  <2>1. op[o].val = "active" => gone[k] <= op[o].age
    BY DEF Timely, Fresh, Filling, IssueWarm, LookupFill
  <2>2. gone[k] \in Nat
    BY <1>2 DEF TypeOK
  <2> QED BY <1>2, <2>1, <2>2, KeyStoreAssumption DEF Grace
<1>4. GrantsAreTimely'
  <2>1. CASE IssueWarm(o)
    BY <2>1, NoGrant DEF IssueWarm
  <2>2. CASE LookupFill(o)
    BY <1>1, <1>2, <1>3, <2>2, DecisionTimely DEF LookupFill, Timely, db
  <2> QED BY <2>1, <2>2
<1>5. UNCHANGED <<rows, blocked, params, audit, life, gone>>
  BY DEF IssueWarm, LookupFill, db
<1>6. Known'
  <2>1. \A x \in Ops : Loading(x)' => op'[x] = op[x]
    BY DEF TypeOK, IssueWarm, LookupFill, Loading, Idle
  <2>2. handed' \subseteq handed \cup {k} /\ \A j \in Keys : Issued(j)' <=> Issued(j)
    BY <1>5 DEF IssueWarm, LookupFill, Issued
  <2> QED BY <1>1, <1>2, <1>5, <2>1, <2>2, KnownStep, LoadingKey DEF Timely, Loading
<1>7. Mortal'
  BY <1>5 DEF Timely, Mortal, Issued
<1>8. Fresh'
  <2>1. \A q \in Pods, j \in Keys :
          cache'[q][j].val = "active" => gone[j] + cache'[q][j].left <= Grace
    <3>1. cache' = [cache EXCEPT ![p][k] =
                      [val |-> op[o].val, left |-> TTL, raced |-> k \notin rows]]
      BY DEF IssueWarm, LookupFill, Insert
    <3>2. cache'[p][k].val = op[o].val /\ cache'[p][k].left = TTL
      BY <1>2, <3>1 DEF TypeOK
    <3>3. ASSUME NEW q \in Pods, NEW j \in Keys, ~(q = p /\ j = k)
          PROVE  cache'[q][j] = cache[q][j]
      BY <1>2, <3>1, <3>3 DEF TypeOK
    <3> QED BY <1>3, <3>2, <3>3 DEF Timely, Fresh
  <2>2. \A x \in Ops : Filling(x)' => Filling(x) /\ op'[x] = op[x]
    BY DEF TypeOK, Filling, IssueWarm, LookupFill, Idle
  <2> QED BY <1>5, <2>1, <2>2 DEF Timely, Fresh, Ended, Issued, RowOf
<1> QED BY <1>4, <1>6, <1>7, <1>8 DEF Timely

LEMMA TimelySelect ==
    ASSUME TypeOK, Timely, NEW o \in Ops, LookupSelect(o)
    PROVE  Timely'
<1>1. op[o] \in Selects /\ Issued(op[o].key)
  BY SelectType DEF Timely, Known, Loading, LookupSelect
<1>2. GrantsAreTimely'
  BY NoGrant DEF LookupSelect
<1>3. Known'
  BY <1>1 DEF TypeOK, Timely, Known, Issued, Loading, LookupSelect, db
<1>4. Mortal'
  BY DEF Timely, Mortal, Issued, LookupSelect, db
<1>5. Fresh'
  <2>1. RowOf(op[o].key) = "active" => gone[op[o].key] = 0
    BY <1>1 DEF Timely, Fresh, Ended, Selects
  <2>2. op'[o].key = op[o].key /\ op'[o].age = 0 /\ op'[o].val = RowOf(op[o].key)
    BY DEF TypeOK, LookupSelect
  <2>3. \A x \in Ops \ {o} : op'[x] = op[x]
    BY DEF TypeOK, LookupSelect
  <2> QED BY <2>1, <2>2, <2>3
          DEF Timely, Fresh, Ended, Issued, RowOf, Filling, LookupSelect, db, pods
<1> QED BY <1>2, <1>3, <1>4, <1>5 DEF Timely

LEMMA TimelyHit ==
    ASSUME TypeOK, Timely, NEW p \in Pods, NEW k \in Keys, LookupHit(p, k)
    PROVE  Timely'
<1>1. GrantsAreTimely'
  <2>1. cache[p][k].val = "active" => gone[k] < Grace
    <3>1. cache[p][k] \in Entry /\ gone[k] \in Nat
      BY DEF TypeOK, LookupHit
    <3>2. cache[p][k].left \in 1..TTL
      BY <3>1 DEF Entry
    <3> QED BY <3>1, <3>2, KeyStoreAssumption DEF Timely, Fresh, Grace
  <2>2. Issued(k)
    BY DEF Timely, Known, LookupHit
  <2> QED BY <2>1, <2>2, DecisionTimely DEF Timely, LookupHit, db
<1>2. Known' /\ Mortal' /\ Fresh'
  BY DEF Timely, Known, Mortal, Fresh, Issued, Ended, RowOf, Loading, Filling,
         LookupHit, AfterGet, db
<1> QED BY <1>1, <1>2 DEF Timely

LEMMA TimelyTick == TypeOK /\ Timely /\ Tick => Timely'
<1> SUFFICES ASSUME TypeOK, Timely, Tick PROVE Timely'
  OBVIOUS
<1>1. GrantsAreTimely'
  BY NoGrant DEF Tick
<1>2. \A o \in Ops : /\ op'[o].pc = op[o].pc
                     /\ Loading(o) => op'[o].key = op[o].key
                     /\ Filling(o) => op'[o].val = op[o].val /\ op'[o].age = op[o].age + 1
  BY DEF Tick, Older, Filling, Loading
<1>3. Known'
  BY <1>2 DEF Timely, Known, Issued, Loading, Tick, db
<1>4. Mortal'
  <2> SUFFICES ASSUME NEW k \in Keys, Issued(k), params[k].expires_in # NoExpiry
               PROVE  life'[k] \in 0..params[k].expires_in
    BY DEF Mortal, Issued, Tick, db
  <2>1. life[k] \in 0..params[k].expires_in /\ params[k].expires_in \in Int
    BY AskedIsInt DEF Timely, Mortal
  <2> QED BY <2>1 DEF Tick
<1>5. Fresh'
  <2>1. \A k \in Keys : Ended(k)' <=> Ended(k)
    BY DEF Ended, Issued, RowOf, Tick, db
  <2>2. \A k \in Keys : ~Ended(k)' => gone'[k] = 0
    BY <2>1 DEF Timely, Fresh, Tick
  <2>3. ASSUME NEW p \in Pods, NEW k \in Keys, cache'[p][k].val = "active"
        PROVE  gone'[k] + cache'[p][k].left <= Grace
    <3>1. cache'[p][k] = Aged(cache[p][k])
      BY DEF Tick
    <3>2. ~(cache[p][k].left <= 1)
      BY <2>3, <3>1 DEF Aged, Absent
    <3>3. cache'[p][k] = [val |-> cache[p][k].val, left |-> cache[p][k].left - 1,
                          raced |-> cache[p][k].raced]
      BY <3>1, <3>2 DEF Aged
    <3>4. cache[p][k].val = "active" /\ cache'[p][k].left = cache[p][k].left - 1
      BY <2>3, <3>3
    <3>5. cache[p][k].left \in Nat /\ gone[k] \in Nat
      BY KeyStoreAssumption DEF TypeOK, Entry, Absent
    <3>6. gone'[k] \in {gone[k], gone[k] + 1}
      BY DEF Tick
    <3> QED BY <3>4, <3>5, <3>6, KeyStoreAssumption DEF Timely, Fresh, Grace
  <2>4. ASSUME NEW o \in Ops, Filling(o), op[o].val = "active"
        PROVE  gone'[op[o].key] <= op[o].age + 1
    <3>1. op[o].key \in Keys /\ op[o].age \in Nat
      BY <2>4, FillingType DEF Fills
    <3>2. gone[op[o].key] \in Nat /\ gone'[op[o].key] \in {gone[op[o].key], gone[op[o].key] + 1}
      BY <3>1 DEF Tick, TypeOK
    <3> QED BY <2>4, <3>1, <3>2 DEF Timely, Fresh
  <2>5. \A o \in Ops : Filling(o)' <=> Filling(o)
    BY <1>2 DEF Filling
  <2>6. \A o \in Ops : Filling(o) => Loading(o)
    BY DEF Filling, Loading
  <2> QED BY <1>2, <2>2, <2>3, <2>4, <2>5, <2>6 DEF Fresh
<1> QED BY <1>1, <1>3, <1>4, <1>5 DEF Timely

\* Steps that only remove: entries from caches, operations, or the use of a row.
LEMMA TimelyRemoval ==
    ASSUME TypeOK, Timely, verdict' = NoVerdict,
           UNCHANGED <<rows, params, audit, life, handed, gone>>,
           blocked \subseteq blocked',
           blocked' \subseteq blocked \cup rows,
           \A p \in Pods, k \in Keys : cache'[p][k] \in {cache[p][k], Absent},
           \A o \in Ops : Loading(o)' => op'[o] = op[o]
    PROVE  Timely'
<1>1. GrantsAreTimely'
  BY NoGrant
<1>2. \A k \in Keys : (Issued(k)' <=> Issued(k)) /\ (~Ended(k)' => ~Ended(k))
  BY DEF Issued, Ended, RowOf
<1>3. Known'
  BY <1>2, KnownStep, LoadingKey DEF Timely, Loading
<1>4. Mortal'
  BY <1>2 DEF Timely, Mortal
<1>5. Fresh'
  <2>1. \A o \in Ops : Filling(o)' => op'[o] = op[o]
    BY DEF Filling, Loading
  <2>2. \A p \in Pods, k \in Keys :
          cache'[p][k].val = "active" => cache'[p][k] = cache[p][k]
    BY DEF Absent
  <2> QED BY <1>2, <2>1, <2>2 DEF Timely, Fresh, Filling
<1> QED BY <1>1, <1>3, <1>4, <1>5 DEF Timely

LEMMA TimelyStep == TypeOK /\ AuditTrail /\ Timely /\ [Next]_vars => Timely'
<1> SUFFICES ASSUME TypeOK, AuditTrail, Timely, [Next]_vars PROVE Timely'
  OBVIOUS
<1>1. CASE Step
  <2>1. ASSUME NEW o \in Ops, NEW p \in Pods, NEW k \in Keys, LookupMiss(o, p, k)
        PROVE  Timely'
    <3>1. GrantsAreTimely'
      BY <2>1, NoGrant DEF LookupMiss
    <3>2. Known'
      BY <2>1 DEF TypeOK, Timely, Known, Issued, Loading, LookupMiss, db
    <3>3. Mortal' /\ Fresh'
      BY <2>1 DEF TypeOK, Timely, Mortal, Fresh, Issued, Ended, RowOf, Filling,
                  LookupMiss, db, pods
    <3> QED BY <3>1, <3>2, <3>3 DEF Timely
  <2>2. ASSUME NEW o \in Ops, NEW k \in Keys, Purge(o, k) PROVE Timely'
    <3>1. op[o].pod \in Pods
      BY <2>2, PurgeType DEF Purges
    <3>2. \A p \in Pods, j \in Keys : cache'[p][j] \in {cache[p][j], Absent}
      BY <2>2, <3>1 DEF TypeOK, Purge, Invalidate
    <3>3. \A x \in Ops : Loading(x)' => op'[x] = op[x]
      BY <2>2 DEF TypeOK, Purge, Loading, Idle
    <3> QED BY <2>2, <3>2, <3>3, TimelyRemoval DEF Purge, db
  <2>3. ASSUME NEW o \in Ops, Abandon(o) PROVE Timely'
    <3>1. \A x \in Ops : Loading(x)' => op'[x] = op[x]
      BY <2>3 DEF TypeOK, Abandon, Loading, Idle
    <3> QED BY <2>3, <3>1, TimelyRemoval DEF Abandon, db, pods
  <2>4. ASSUME NEW p \in Pods, NEW k \in Keys, ListenRecv(p, k) \/ Evict(p, k)
        PROVE  Timely'
    <3>1. \A q \in Pods, j \in Keys : cache'[q][j] \in {cache[q][j], Absent}
      BY <2>4 DEF TypeOK, ListenRecv, Evict, Invalidate
    <3> QED BY <2>4, <3>1, TimelyRemoval DEF ListenRecv, Evict, db
  <2>5. ASSUME NEW p \in Pods, ListenConnect(p) \/ ListenDrop(p) PROVE Timely'
    BY <2>5, TimelyRemoval DEF ListenConnect, ListenDrop, db
  <2>6. ASSUME NEW p \in Pods, Restart(p) PROVE Timely'
    <3>1. \A q \in Pods, j \in Keys : cache'[q][j] \in {cache[q][j], Absent}
      BY <2>6 DEF TypeOK, Restart
    <3>2. \A x \in Ops : Loading(x)' => op'[x] = op[x]
      BY <2>6 DEF Restart, Loading, Idle
    <3> QED BY <2>6, <3>1, <3>2, TimelyRemoval DEF Restart, db
  <2>7. ASSUME NEW k \in Keys, OperatorBlock(k) PROVE Timely'
    BY <2>7, TimelyRemoval DEF OperatorBlock, pods
  <2> QED BY <1>1, <2>1, <2>2, <2>3, <2>4, <2>5, <2>6, <2>7, TimelyIssue,
             TimelyRevoke, TimelyFill, TimelySelect, TimelyHit, TimelyTick DEF Step
<1>2. CASE UNCHANGED vars
  BY <1>2 DEF vars, Timely, Known, Mortal, Fresh, GrantsAreTimely, Granted,
              Issued, Ended, RowOf, Loading, Filling
<1> QED BY <1>1, <1>2, NextSteps

\* No pod ever lets a key through after its own lifetime, nor TTL + MaxFill or
\* more after the database stopped listing it as usable.
THEOREM GrantsTimely == Spec => []GrantsAreTimely
<1>1. Init => Timely
  BY InitTimely
<1>2. TypeOK /\ AuditTrail /\ Timely /\ [Next]_vars => Timely'
  BY TimelyStep
<1>3. Timely => GrantsAreTimely
  BY DEF Timely
<1> QED BY <1>1, <1>2, <1>3, TypeCorrect, AuditIsComplete, PTL DEF Spec

-----------------------------------------------------------------------------
(* KeyStore implements KeyLease                                             *)

State(k) == IF ~Issued(k) THEN "new"
            ELSE IF RowOf(k) = "active" THEN "live" ELSE "ended"

StateOf == [k \in Keys |-> State(k)]

\* The lease's actions, with its variables replaced as in KeyStore.
LEMMA ForgetMaps ==
    ASSUME verdict' = NoVerdict, UNCHANGED <<rows, blocked, audit, life, gone>>
    PROVE  Lease!Next
<1>1. Lease!Forget
  BY DEF Lease!Forget, Lease!NoVerdict, NoVerdict, Issued, RowOf
<1> QED BY <1>1 DEF Lease!Next

LEMMA DecisionMaps ==
    ASSUME NEW k \in Keys, NEW val, Issued(k), Decide(val, k),
           val = "active" => gone[k] < Grace,
           UNCHANGED <<rows, blocked, audit, life, gone>>
    PROVE  Lease!Next
<1>1. CASE IsActive(val, k)
  <2>1. Lease!Grant(k)
    BY <1>1 DEF Lease!Grant, Lease!Grace, Grace, Decide, IsActive, Issued, RowOf
  <2> QED BY <2>1 DEF Lease!Next
<1>2. CASE ~IsActive(val, k)
  <2>1. Lease!Refuse(k)
    BY <1>2 DEF Lease!Refuse, Decide, Issued, RowOf
  <2> QED BY <2>1 DEF Lease!Next
<1> QED BY <1>1, <1>2

LEMMA EndMaps ==
    ASSUME NEW ks \in SUBSET Keys,
           \A k \in ks : Issued(k) /\ RowOf(k)' # "active",
           \A k \in Keys \ ks : RowOf(k)' = RowOf(k),
           \A k \in Keys : Issued(k)' <=> Issued(k),
           verdict' = NoVerdict, UNCHANGED <<life, gone>>
    PROVE  Lease!Next
<1>1. \A k \in Keys : State(k)' = IF k \in ks THEN "ended" ELSE State(k)
  BY DEF State
<1>2. StateOf' = [k \in Keys |-> IF k \in ks THEN "ended" ELSE StateOf[k]]
  BY <1>1 DEF StateOf
<1>3. \A k \in ks : StateOf[k] # "new"
  BY DEF StateOf, State
<1>4. Lease!End(ks)
  BY <1>2, <1>3 DEF Lease!End, Lease!NoVerdict, NoVerdict, StateOf, State
<1> QED BY <1>4 DEF Lease!Next

LEMMA IssueMaps ==
    ASSUME TypeOK, AuditTrail, Timely, NEW o \in Ops, NEW p \in Pods,
           NEW k \in Keys, NEW ps \in IssueParams, IssueCommit(o, p, k, ps)
    PROVE  Lease!Next
<1>1. \A j \in Keys : Issued(j)' <=> j = k \/ Issued(j)
  BY DEF TypeOK, IssueCommit, Issued, AuditAction
<1>2. k \notin blocked
  BY DEF Timely, Known, IssueCommit
<1>3. \A j \in Keys : State(j)' = IF j = k THEN "live" ELSE State(j)
  BY <1>1, <1>2 DEF State, RowOf, IssueCommit
<1>4. StateOf' = [StateOf EXCEPT ![k] = "live"]
  BY <1>3 DEF StateOf
<1>5. StateOf[k] = "new"
  BY DEF StateOf, State, IssueCommit
<1>6. PICK lifetime \in Lifetimes : life' = [life EXCEPT ![k] = lifetime]
  BY DEF IssueCommit, ExpiresIn, IssueParams
<1>7. Lease!Issue(k, lifetime)
  BY <1>4, <1>5, <1>6
     DEF Lease!Issue, Lease!NoVerdict, NoVerdict, StateOf, State, IssueCommit
<1> QED BY <1>7 DEF Lease!Next

LEMMA TickMaps == TypeOK /\ Tick => Lease!Next
<1> SUFFICES ASSUME TypeOK, Tick PROVE Lease!Next
  OBVIOUS
<1>1. \A k \in Keys : StateOf[k] = "ended" <=> Ended(k)
  BY DEF StateOf, State, Ended
<1>2. \A k \in Keys : State(k)' = State(k)
  BY DEF State, Issued, RowOf, Tick, db
<1>3. StateOf' = StateOf
  BY <1>2 DEF StateOf
<1>4. Lease!Tick
  BY <1>1, <1>3 DEF Lease!Tick, Lease!NoVerdict, NoVerdict, Lease!Grace, Grace,
                    StateOf, State, Tick
<1> QED BY <1>4 DEF Lease!Next

LEMMA StepMaps ==
    TypeOK /\ AuditTrail /\ Timely /\ [Next]_vars => [Lease!Next]_(Lease!leaseVars)
<1> SUFFICES ASSUME TypeOK, AuditTrail, Timely, [Next]_vars
             PROVE  [Lease!Next]_(Lease!leaseVars)
  OBVIOUS
<1>1. CASE Step
  <2>1. ASSUME NEW o \in Ops, NEW p \in Pods, NEW ks \in SUBSET rows,
               NEW action \in {"key.revoke", "key.bulk_revoke"},
               RevokeCommit(o, p, ks, action)
        PROVE  Lease!Next
    <3>1. \A k \in Keys : Issued(k)' <=> Issued(k)
      BY <2>1 DEF TypeOK, RevokeCommit, Issued, AuditAction
    <3>2. \A k \in ks : Issued(k) /\ RowOf(k)' # "active"
      BY <2>1 DEF Timely, Known, RevokeCommit, RowOf
    <3>3. \A k \in Keys \ ks : RowOf(k)' = RowOf(k)
      BY <2>1 DEF RevokeCommit, RowOf
    <3> QED BY <2>1, <3>1, <3>2, <3>3, EndMaps DEF RevokeCommit, TypeOK
  <2>2. ASSUME NEW k \in Keys, OperatorBlock(k) PROVE Lease!Next
    <3>1. \A j \in Keys : Issued(j)' <=> Issued(j)
      BY <2>2 DEF OperatorBlock, Issued
    <3>2. {k} \in SUBSET Keys /\ \A j \in {k} : Issued(j) /\ RowOf(j)' # "active"
      BY <2>2 DEF Timely, Known, OperatorBlock, RowOf
    <3>3. \A j \in Keys \ {k} : RowOf(j)' = RowOf(j)
      BY <2>2 DEF OperatorBlock, RowOf
    <3> QED BY <2>2, <3>1, <3>2, <3>3, EndMaps DEF OperatorBlock
  <2>3. ASSUME NEW o \in Ops, LookupFill(o) PROVE Lease!Next
    <3>1. op[o] \in Fills /\ Issued(op[o].key)
      BY <2>3, FillStepType DEF Timely, Known, Loading, LookupFill
    <3>2. op[o].val = "active" => gone[op[o].key] < Grace
      <4>1. op[o].key \in Keys /\ op[o].age \in 0..MaxFill
        BY <3>1 DEF Fills
      <4>2. gone[op[o].key] \in Nat
        BY <4>1 DEF TypeOK
      <4>3. op[o].val = "active" => gone[op[o].key] <= op[o].age
        BY <2>3 DEF Timely, Fresh, Filling, LookupFill
      <4> QED BY <4>1, <4>2, <4>3, KeyStoreAssumption DEF Grace
    <3>3. op[o].key \in Keys
      BY <3>1 DEF Fills
    <3> QED BY <2>3, <3>1, <3>2, <3>3, DecisionMaps DEF LookupFill, db
  <2>4. ASSUME NEW p \in Pods, NEW k \in Keys, LookupHit(p, k) PROVE Lease!Next
    <3>1. cache[p][k] \in Entry /\ gone[k] \in Nat
      BY <2>4 DEF TypeOK, LookupHit
    <3>2. cache[p][k].left \in 1..TTL
      BY <3>1 DEF Entry
    <3>3. cache[p][k].val = "active" => gone[k] < Grace
      BY <3>1, <3>2, KeyStoreAssumption DEF Timely, Fresh, Grace
    <3>4. Issued(k)
      BY <2>4 DEF Timely, Known, LookupHit
    <3> QED BY <2>4, <3>3, <3>4, DecisionMaps DEF LookupHit, db
  <2>5. ASSUME NEW o \in Ops, IssueWarm(o) \/ LookupSelect(o) \/ Abandon(o)
        PROVE  Lease!Next
    BY <2>5, ForgetMaps DEF IssueWarm, LookupSelect, Abandon, db
  <2>6. ASSUME NEW o \in Ops, NEW p \in Pods, NEW k \in Keys,
               LookupMiss(o, p, k)
        PROVE  Lease!Next
    BY <2>6, ForgetMaps DEF LookupMiss, db
  <2>7. ASSUME NEW p \in Pods, NEW k \in Keys, ListenRecv(p, k) \/ Evict(p, k)
        PROVE  Lease!Next
    BY <2>7, ForgetMaps DEF ListenRecv, Evict, db
  <2>8. ASSUME NEW p \in Pods, ListenConnect(p) \/ ListenDrop(p) \/ Restart(p)
        PROVE  Lease!Next
    BY <2>8, ForgetMaps DEF ListenConnect, ListenDrop, Restart, db
  <2>9. ASSUME NEW o \in Ops, NEW k \in Keys, Purge(o, k) PROVE Lease!Next
    BY <2>9, ForgetMaps DEF Purge, db
  <2>10. ASSUME NEW o \in Ops, NEW p \in Pods, NEW k \in Keys,
                NEW ps \in IssueParams, IssueCommit(o, p, k, ps)
         PROVE  Lease!Next
    BY <2>10, IssueMaps
  <2>11. CASE Tick
    BY <2>11, TickMaps
  <2> QED BY <1>1, <2>1, <2>2, <2>3, <2>4, <2>5, <2>6, <2>7, <2>8, <2>9, <2>10,
             <2>11 DEF Step
<1>2. CASE UNCHANGED vars
  BY <1>2 DEF vars, Lease!leaseVars, Issued, RowOf
<1> QED BY <1>1, <1>2, NextSteps

\* The system of pods, caches and notifications implements the lease: every one
\* of its behaviours, seen through the database, is a behaviour of KeyLease.
THEOREM KeyStoreKeepsLease == Spec => KeepsLease
<1>1. Init => Lease!Init
  BY DEF Init, Lease!Init, Lease!NoExpiry, NoExpiry, Lease!NoVerdict, NoVerdict,
         Issued, AuditAction
<1>2. TypeOK /\ AuditTrail /\ Timely /\ [Next]_vars => [Lease!Next]_(Lease!leaseVars)
  BY StepMaps
<1>3. Spec => []Timely
  <2>1. Init => Timely
    BY InitTimely
  <2>2. TypeOK /\ AuditTrail /\ Timely /\ [Next]_vars => Timely'
    BY TimelyStep
  <2> QED BY <2>1, <2>2, TypeCorrect, AuditIsComplete, PTL DEF Spec
<1> QED BY <1>1, <1>2, <1>3, TypeCorrect, AuditIsComplete, PTL
        DEF Spec, KeepsLease, Lease!Spec
=============================================================================
