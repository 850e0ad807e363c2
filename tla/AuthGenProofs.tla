--------------------------- MODULE AuthGenProofs ---------------------------
(***************************************************************************)
(* Theorems about the cache of generated credentials, for any callers,     *)
(* requests and lifetimes: sandboxes do not receive each other's           *)
(* credentials when the cache key tells them apart, and no credential out  *)
(* of the cache is past its ttl.                                           *)
(***************************************************************************)
EXTENDS AuthGenCache, TLAPS

\* Two requests that share a cache key are of one sandbox.  Holds of requests
\* that carry a JWT issued per sandbox; does not hold of Ati-Key requests.
KeysTellApart ==
    \A r, q \in Requests : KeyOf(r) = KeyOf(q) => r.box = q.box

\* An entry was made for a request with its key, and so was what is served.
Ours ==
    /\ \A k \in CacheKey : minted[k] # Nothing => KeyOf(minted[k]) = k
    /\ \A c \in Callers : step[c] = "served" =>
          /\ asker[c] \in Requests /\ given[c] \in Requests
          /\ KeyOf(given[c]) = KeyOf(asker[c])

\* The part of the types that does not count anything.
Carried ==
    /\ minted \in [CacheKey -> Requests \cup {Nothing}]
    /\ step \in [Callers -> {"idle", "running", "served", "failed"}]
    /\ asker \in [Callers -> Requests \cup {Nothing}]
    /\ given \in [Callers -> Requests \cup {Nothing}]
    /\ \A c \in Callers : step[c] # "idle" => asker[c] \in Requests

LEMMA KeysInCache == ASSUME NEW r \in Requests PROVE KeyOf(r) \in CacheKey
<1>1. r \in Request
  BY AuthGenAssumption
<1> QED
  BY <1>1 DEF Request, KeyOf, CacheKey

\* What AuthCache::insert leaves in the map.
LEMMA InsertKeeps ==
    ASSUME Carried, Ours, NEW r \in Requests, Insert(r)
    PROVE  /\ minted' \in [CacheKey -> Requests \cup {Nothing}]
           /\ \A k \in CacheKey : minted'[k] # Nothing => KeyOf(minted'[k]) = k
<1>1. CASE Ttl[r.provider] = 0
  BY <1>1 DEF Insert, cacheVars, Carried, Ours
<1>2. CASE Ttl[r.provider] # 0
  <2>1. minted' = [k \in CacheKey |->
            IF k = KeyOf(r) THEN r ELSE IF Retained(k) THEN minted[k] ELSE Nothing]
    BY <1>2 DEF Insert
  <2>2. \A k \in CacheKey : minted'[k] \in {r, minted[k], Nothing}
    BY <2>1
  <2>3. \A k \in CacheKey : minted[k] \in Requests \cup {Nothing}
    BY DEF Carried
  <2>4. ASSUME NEW k \in CacheKey, minted'[k] # Nothing
        PROVE  KeyOf(minted'[k]) = k
    BY <2>1, <2>4 DEF Ours
  <2> QED
    BY <2>1, <2>2, <2>3, <2>4
<1> QED
  BY <1>1, <1>2

LEMMA OursInit == ASSUME AuthInit PROVE Carried /\ Ours
  BY DEF AuthInit, Carried, Ours

\* A step that leaves the cache alone and only gives a caller its answer.
LEMMA ServeKeeps ==
    ASSUME Carried, Ours, NEW c \in Callers, NEW r \in Requests,
           NEW q \in Requests, NEW n, KeyOf(q) = KeyOf(r), Serve(c, r, q, n),
           minted' \in [CacheKey -> Requests \cup {Nothing}],
           \A k \in CacheKey : minted'[k] # Nothing => KeyOf(minted'[k]) = k
    PROVE  Carried' /\ Ours'
  BY DEF Carried, Ours, Serve, KeyOf

LEMMA FailKeeps ==
    ASSUME Carried, Ours, NEW c \in Callers, NEW r \in Requests, Fail(c, r),
           UNCHANGED minted
    PROVE  Carried' /\ Ours'
  BY DEF Carried, Ours, Fail, KeyOf

LEMMA CallKeeps ==
    ASSUME Carried, Ours, NEW c \in Callers, NEW r \in Requests, Call(c, r)
    PROVE  Carried' /\ Ours'
<1>1. KeyOf(r) \in CacheKey
  BY KeysInCache
<1>2. CASE FromCache(c, r)
  <2>1. minted[KeyOf(r)] \in Requests /\ KeyOf(minted[KeyOf(r)]) = KeyOf(r)
    BY <1>1, <1>2 DEF FromCache, Hit, Carried, Ours
  <2>2. Serve(c, r, minted[KeyOf(r)], age[KeyOf(r)]) /\ UNCHANGED minted
    BY <1>2 DEF FromCache
  <2> QED
    BY <2>1, <2>2, ServeKeeps DEF Carried, Ours
<1>3. CASE NotStarted(c, r)
  BY <1>3, FailKeeps DEF NotStarted
<1>4. CASE SpawnFails(c, r)
  BY <1>4, FailKeeps DEF SpawnFails, cacheVars
<1>5. CASE Spawn(c, r)
  BY <1>5 DEF Spawn, cacheVars, Carried, Ours, KeyOf
<1> QED
  BY <1>2, <1>3, <1>4, <1>5 DEF Call

LEMMA EndsKeeps ==
    ASSUME Carried, Ours, NEW c \in Callers, Ends(c)
    PROVE  Carried' /\ Ours'
<1>1. asker[c] \in Requests
  BY DEF Ends, Generated, Rejected, TimesOut, WaitFails, Carried
<1>2. CASE Generated(c)
  <2>1. Serve(c, asker[c], asker[c], 0) /\ Insert(asker[c])
    BY <1>2 DEF Generated
  <2> QED
    BY <1>1, <2>1, InsertKeeps, ServeKeeps
<1>3. CASE Rejected(c) \/ TimesOut(c) \/ WaitFails(c)
  BY <1>1, <1>3, FailKeeps DEF Rejected, TimesOut, WaitFails, cacheVars
<1> QED
  BY <1>2, <1>3 DEF Ends

LEMMA OursStep == ASSUME Carried, Ours, [AuthNext]_authVars PROVE Carried' /\ Ours'
<1>1. CASE AuthNext
  <2>1. ASSUME NEW c \in Callers, Dropped(c) PROVE Carried' /\ Ours'
    BY <2>1 DEF Dropped, Carried, Ours, KeyOf
  <2>2. CASE TimePasses
    BY <2>2 DEF TimePasses, Carried, Ours, KeyOf
  <2> QED
    BY <1>1, <2>1, <2>2, CallKeeps, EndsKeeps DEF AuthNext
<1>2. CASE UNCHANGED authVars
  BY <1>2 DEF authVars, Carried, Ours, KeyOf
<1> QED
  BY <1>1, <1>2

\* Of requests whose sandboxes have tokens of their own, no tool call ever
\* carries a credential that was generated for another sandbox.
THEOREM SandboxesStayApart == KeysTellApart => (AuthSpec => []SandboxesApart)
<1> SUFFICES ASSUME KeysTellApart PROVE AuthSpec => []SandboxesApart
  OBVIOUS
<1>1. Carried /\ Ours => SandboxesApart
  BY DEF Ours, SandboxesApart, KeysTellApart
<1>2. AuthInit => Carried /\ Ours
  BY OursInit
<1>3. Carried /\ Ours /\ [AuthNext]_authVars => (Carried /\ Ours)'
  BY OursStep
<1> QED
  BY <1>1, <1>2, <1>3, PTL DEF AuthSpec
-----------------------------------------------------------------------------
(* The age of a credential.  The clock of an entry and the time it has left *)
(* are kept apart, and together never exceed the ttl of its provider.       *)

Clocks ==
    /\ left \in [CacheKey -> Nat] /\ age \in [CacheKey -> Nat]
    /\ givenAge \in [Callers -> Nat]

Young ==
    /\ \A k \in CacheKey : minted[k] # Nothing /\ left[k] > 0
                              => left[k] + age[k] <= Ttl[minted[k].provider]
    /\ YoungerThanTtl

AgeInv == Carried /\ Ours /\ Clocks /\ Young

LEMMA TtlIsNat == ASSUME NEW r \in Requests PROVE Ttl[r.provider] \in Nat
<1>1. r \in Request
  BY AuthGenAssumption
<1>2. r.provider \in Providers
  BY <1>1 DEF Request
<1> QED
  BY <1>2, AuthGenAssumption

LEMMA SameProvider ==
    ASSUME NEW r, NEW q, KeyOf(r) = KeyOf(q) PROVE r.provider = q.provider
  BY DEF KeyOf

\* AuthCache::insert starts the clock of one entry and drops the entries that ended.
LEMMA InsertIsYoung ==
    ASSUME AgeInv, NEW r \in Requests, Insert(r)
    PROVE  /\ left' \in [CacheKey -> Nat] /\ age' \in [CacheKey -> Nat]
           /\ \A k \in CacheKey : minted'[k] # Nothing /\ left'[k] > 0
                                      => left'[k] + age'[k] <= Ttl[minted'[k].provider]
<1>1. Ttl[r.provider] \in Nat
  BY TtlIsNat
<1>2. CASE Ttl[r.provider] = 0
  BY <1>2 DEF Insert, cacheVars, AgeInv, Clocks, Young
<1>3. CASE Ttl[r.provider] # 0
  <2>1. /\ minted' = [k \in CacheKey |->
             IF k = KeyOf(r) THEN r ELSE IF Retained(k) THEN minted[k] ELSE Nothing]
        /\ left' = [k \in CacheKey |->
             IF k = KeyOf(r) THEN Ttl[r.provider] ELSE IF Retained(k) THEN left[k] ELSE 0]
        /\ age' = [k \in CacheKey |->
             IF k = KeyOf(r) THEN 0 ELSE IF Retained(k) THEN age[k] ELSE 0]
    BY <1>3 DEF Insert
  <2>2. \A k \in CacheKey : left[k] \in Nat /\ age[k] \in Nat
    BY DEF AgeInv, Clocks
  <2>3. left' \in [CacheKey -> Nat] /\ age' \in [CacheKey -> Nat]
    BY <1>1, <2>1, <2>2
  <2>4. ASSUME NEW k \in CacheKey, minted'[k] # Nothing, left'[k] > 0
        PROVE  left'[k] + age'[k] <= Ttl[minted'[k].provider]
    <3>1. CASE k = KeyOf(r)
      BY <1>1, <2>1, <3>1
    <3>2. CASE k # KeyOf(r)
      <4>1. Retained(k) /\ minted'[k] = minted[k] /\ left'[k] = left[k] /\ age'[k] = age[k]
        BY <2>1, <2>4, <3>2
      <4> QED
        BY <4>1 DEF Retained, AgeInv, Young
    <3> QED
      BY <3>1, <3>2
  <2> QED
    BY <2>3, <2>4
<1> QED
  BY <1>2, <1>3

\* A hit is on an entry that has time left, so it is younger than its ttl.
LEMMA HitIsYoung ==
    ASSUME AgeInv, NEW r \in Requests, Hit(r)
    PROVE  age[KeyOf(r)] \in Nat /\ age[KeyOf(r)] < Ttl[r.provider]
<1>1. KeyOf(r) \in CacheKey
  BY KeysInCache
<1>2. minted[KeyOf(r)] # Nothing /\ left[KeyOf(r)] > 0
  BY DEF Hit
<1>3. Ttl[minted[KeyOf(r)].provider] = Ttl[r.provider]
  BY <1>1, <1>2, SameProvider DEF AgeInv, Ours
<1>4. left[KeyOf(r)] + age[KeyOf(r)] <= Ttl[r.provider]
  BY <1>1, <1>2, <1>3 DEF AgeInv, Young
<1>5. left[KeyOf(r)] \in Nat /\ age[KeyOf(r)] \in Nat
  BY <1>1 DEF AgeInv, Clocks
<1>6. Ttl[r.provider] \in Nat
  BY TtlIsNat
<1> QED
  BY <1>2, <1>4, <1>5, <1>6

\* A caller that is served is given a credential that is fresh or young.
LEMMA ServesYoung ==
    ASSUME AgeInv, NEW c \in Callers, NEW r \in Requests, NEW cred, NEW n \in Nat,
           n > 0 => n < Ttl[r.provider], Serve(c, r, cred, n)
    PROVE  givenAge' \in [Callers -> Nat] /\ YoungerThanTtl'
  BY DEF Serve, AgeInv, Carried, Clocks, Young, YoungerThanTtl

LEMMA FailsYoung ==
    ASSUME AgeInv, NEW c \in Callers, NEW r, Fail(c, r)
    PROVE  givenAge' \in [Callers -> Nat] /\ YoungerThanTtl'
  BY DEF Fail, AgeInv, Carried, Clocks, Young, YoungerThanTtl

LEMMA CacheStaysYoung ==
    ASSUME AgeInv, Carried' /\ Ours', UNCHANGED cacheVars,
           givenAge' \in [Callers -> Nat], YoungerThanTtl'
    PROVE  AgeInv'
  BY DEF AgeInv, Clocks, Young, cacheVars

LEMMA TickIsYoung ==
    ASSUME AgeInv, TimePasses PROVE Clocks' /\ Young'
<1>1. /\ left' = [k \in CacheKey |-> Less(left[k])]
      /\ age' = [k \in CacheKey |->
                   IF minted[k] # Nothing /\ age[k] < Oldest THEN age[k] + 1 ELSE age[k]]
      /\ UNCHANGED <<minted, step, asker, givenAge>>
  BY DEF TimePasses
<1>2. \A k \in CacheKey : left[k] \in Nat /\ age[k] \in Nat
  BY DEF AgeInv, Clocks
<1>3. \A k \in CacheKey : left'[k] \in Nat /\ age'[k] \in {age[k], age[k] + 1}
  BY <1>1, <1>2 DEF Less
<1>4. Clocks'
  <2>1. left' \in [CacheKey -> Nat]
    BY <1>1, <1>3
  <2>2. age' \in [CacheKey -> Nat]
    BY <1>1, <1>2, <1>3
  <2> QED
    BY <1>1, <2>1, <2>2 DEF AgeInv, Clocks
<1>5. ASSUME NEW k \in CacheKey, minted'[k] # Nothing, left'[k] > 0
      PROVE  left'[k] + age'[k] <= Ttl[minted'[k].provider]
  <2>1. left[k] = left'[k] + 1
    BY <1>1, <1>2, <1>5 DEF Less
  <2>2. minted'[k] = minted[k] /\ left[k] > 0
    BY <1>1, <1>3, <2>1
  <2>3. left[k] + age[k] <= Ttl[minted[k].provider]
    BY <1>5, <2>2 DEF AgeInv, Young
  <2>4. minted[k] \in Requests
    BY <1>5, <2>2 DEF AgeInv, Carried
  <2>5. Ttl[minted[k].provider] \in Nat
    BY <2>4, TtlIsNat
  <2> QED
    BY <1>2, <1>3, <2>1, <2>2, <2>3, <2>5
<1>6. YoungerThanTtl'
  BY <1>1 DEF AgeInv, Young, YoungerThanTtl
<1> QED
  BY <1>4, <1>5, <1>6 DEF Young

LEMMA AgeStep == ASSUME AgeInv, [AuthNext]_authVars PROVE AgeInv'
<1>1. Carried' /\ Ours'
  BY OursStep DEF AgeInv
<1>2. ASSUME NEW c \in Callers, NEW r \in Requests, Call(c, r) PROVE AgeInv'
  <2>1. CASE FromCache(c, r)
    <3>1. Hit(r) /\ Serve(c, r, minted[KeyOf(r)], age[KeyOf(r)]) /\ UNCHANGED cacheVars
      BY <2>1 DEF FromCache, cacheVars
    <3>2. age[KeyOf(r)] \in Nat /\ age[KeyOf(r)] < Ttl[r.provider]
      BY <3>1, HitIsYoung
    <3> QED
      BY <1>1, <3>1, <3>2, ServesYoung, CacheStaysYoung
  <2>2. CASE NotStarted(c, r) \/ SpawnFails(c, r)
    BY <1>1, <2>2, FailsYoung, CacheStaysYoung DEF NotStarted, SpawnFails, cacheVars
  <2>3. CASE Spawn(c, r)
    <3>1. UNCHANGED cacheVars
      BY <2>3 DEF Spawn
    <3>2. givenAge' \in [Callers -> Nat] /\ YoungerThanTtl'
      BY <2>3 DEF Spawn, AgeInv, Carried, Clocks, Young, YoungerThanTtl
    <3> QED
      BY <1>1, <3>1, <3>2, CacheStaysYoung
  <2> QED
    BY <1>2, <2>1, <2>2, <2>3 DEF Call
<1>3. ASSUME NEW c \in Callers, Ends(c) PROVE AgeInv'
  <2>1. asker[c] \in Requests
    BY <1>3 DEF Ends, Generated, Rejected, TimesOut, WaitFails, AgeInv, Carried
  <2>2. CASE Generated(c)
    <3>1. Insert(asker[c]) /\ Serve(c, asker[c], asker[c], 0)
      BY <2>2 DEF Generated
    <3> QED
      BY <1>1, <2>1, <3>1, InsertIsYoung, ServesYoung DEF AgeInv, Clocks, Young
  <2>3. CASE Rejected(c) \/ TimesOut(c) \/ WaitFails(c)
    BY <1>1, <2>3, FailsYoung, CacheStaysYoung DEF Rejected, TimesOut, WaitFails, cacheVars
  <2> QED
    BY <1>3, <2>2, <2>3 DEF Ends
<1>4. ASSUME NEW c \in Callers, Dropped(c) PROVE AgeInv'
  <2>1. UNCHANGED cacheVars /\ UNCHANGED givenAge
    BY <1>4 DEF Dropped, cacheVars
  <2>2. YoungerThanTtl'
    BY <1>4 DEF Dropped, AgeInv, Carried, Young, YoungerThanTtl
  <2> QED
    BY <1>1, <2>1, <2>2, CacheStaysYoung DEF AgeInv, Clocks
<1>5. CASE TimePasses
  BY <1>1, <1>5, TickIsYoung DEF AgeInv
<1>6. CASE UNCHANGED authVars
  <2>1. UNCHANGED cacheVars /\ UNCHANGED <<step, asker, givenAge>>
    BY <1>6 DEF authVars, cacheVars
  <2>2. YoungerThanTtl'
    BY <2>1 DEF AgeInv, Young, YoungerThanTtl
  <2> QED
    BY <1>1, <2>1, <2>2, CacheStaysYoung DEF AgeInv, Clocks
<1> QED
  BY <1>2, <1>3, <1>4, <1>5, <1>6 DEF AuthNext

\* A credential out of the cache is younger than cache_ttl_secs, however many
\* generators of its key overlap (AuthCache::get and insert of auth_generator.rs).
THEOREM ServedIsYoung == AuthSpec => []YoungerThanTtl
<1>1. AuthInit => AgeInv
  <2> SUFFICES ASSUME AuthInit PROVE AgeInv
    OBVIOUS
  <2>1. Carried /\ Ours
    BY OursInit
  <2>2. Clocks /\ Young
    BY DEF AuthInit, Clocks, Young, YoungerThanTtl
  <2> QED
    BY <2>1, <2>2 DEF AgeInv
<1>2. AgeInv /\ [AuthNext]_authVars => AgeInv'
  BY AgeStep
<1>3. AgeInv => YoungerThanTtl
  BY DEF AgeInv, Young
<1> QED
  BY <1>1, <1>2, <1>3, PTL DEF AuthSpec

=============================================================================
