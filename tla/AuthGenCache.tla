---------------------------- MODULE AuthGenCache ----------------------------
(***************************************************************************)
(* The credential generators of src/core/auth_generator.rs: a provider     *)
(* may name a command, or a script, whose output is the upstream           *)
(* credential.  `generate` runs it for the calling sandbox and keeps the   *)
(* result in AuthCache, which all requests of the proxy share.             *)
(*                                                                         *)
(* `generate` awaits once, for the child process; the code before and      *)
(* after that await is one step each, and any number of calls may be       *)
(* waiting at once.  Several may miss on the same key: nothing joins them. *)
(* The text of a credential is abstracted to the request it was made for.  *)
(***************************************************************************)
EXTENDS Integers

CONSTANTS
    Callers,  \* tool calls the proxy handles at once
    Providers, Subs, Tokens, Boxes,
    Requests, \* the requests that are made: a subset of Request
    Ttl,      \* per provider, cache_ttl_secs
    Timeout,  \* timeout_secs of the generators
    IsScript, \* AuthGenType::Script rather than ::Command
    MaxLeaked \* bound of the model: the temporary files one caller may leave

\* token_fingerprint("") = "": a request without a Bearer token, such as one
\* that was authenticated by an Ati-Key.
NoToken == "no_token"

\* GenContext.  `box` is the sandbox that calls: what JWT_SCOPE and JWT_TOKEN
\* expand to is its own.
Request == [provider : Providers, sub : Subs,
            token : Tokens \cup {NoToken}, box : Boxes]

ASSUME AuthGenAssumption ==
    /\ Requests \subseteq Request
    /\ Ttl \in [Providers -> Nat]
    /\ Timeout \in Nat
    /\ IsScript \in BOOLEAN
    /\ MaxLeaked \in Nat

CacheKey == Providers \X Subs \X (Tokens \cup {NoToken})

Nothing == [box |-> "nobody"]
MaxOf(S) == CHOOSE n \in S : \A m \in S : m <= n
Oldest   == MaxOf({Ttl[p] : p \in Providers} \cup {0})

VARIABLES
    minted,   \* per cache key, the request its credential was made for
    left,     \* per cache key, time to expires_at
    age,      \* history: per cache key, time since its generator ended
    step,     \* per caller
    asker,    \* per caller, the request it handles
    timer,    \* per caller, time to the timeout of its child process
    given,    \* per caller, the request its credential was made for
    givenAge, \* history: the age that credential had when it was given
    files     \* per caller, its files ati_gen_<suffix>.tmp

cacheVars == <<minted, left, age>>
callVars  == <<step, asker, timer, given, givenAge, files>>
authVars      == <<minted, left, age, step, asker, timer, given, givenAge, files>>

AuthInit ==
    /\ minted = [k \in CacheKey |-> Nothing]
    /\ left = [k \in CacheKey |-> 0]
    /\ age = [k \in CacheKey |-> 0]
    /\ step = [c \in Callers |-> "idle"]
    /\ asker = [c \in Callers |-> Nothing]
    /\ timer = [c \in Callers |-> 0]
    /\ given = [c \in Callers |-> Nothing]
    /\ givenAge = [c \in Callers |-> 0]
    /\ files = [c \in Callers |-> 0]

\* Mutant: the key of before the fingerprint was added.
KeyWithoutToken(r) == <<r.provider, r.sub, NoToken>>

KeyOf(r) == <<r.provider, r.sub, r.token>>

\* Mutant: expiry is not looked at.
HitExpired(r) == Ttl[r.provider] > 0 /\ minted[KeyOf(r)] # Nothing

\* AuthCache::get
Hit(r) == Ttl[r.provider] > 0 /\ minted[KeyOf(r)] # Nothing /\ left[KeyOf(r)] > 0

\* Mutant: no sweep, as when the key was <<provider, sub>>.
KeepsEvery(k) == minted[k] # Nothing

\* What the sweep of AuthCache::insert retains.
Retained(k) == minted[k] # Nothing /\ left[k] > 0

\* AuthCache::insert
Insert(r) ==
    IF Ttl[r.provider] = 0
    THEN UNCHANGED cacheVars
    ELSE LET new(k) == k = KeyOf(r)
         IN  /\ minted' = [k \in CacheKey |->
                  IF new(k) THEN r ELSE IF Retained(k) THEN minted[k] ELSE Nothing]
             /\ left' = [k \in CacheKey |->
                  IF new(k) THEN Ttl[r.provider] ELSE IF Retained(k) THEN left[k] ELSE 0]
             /\ age' = [k \in CacheKey |->
                  IF new(k) THEN 0 ELSE IF Retained(k) THEN age[k] ELSE 0]

-----------------------------------------------------------------------------
(* generate                                                                 *)

Ready(c) == step[c] # "running"

Serve(c, r, cred, credAge) ==
    /\ step' = [step EXCEPT ![c] = "served"]
    /\ asker' = [asker EXCEPT ![c] = r]
    /\ given' = [given EXCEPT ![c] = cred]
    /\ givenAge' = [givenAge EXCEPT ![c] = credAge]
    /\ timer' = [timer EXCEPT ![c] = 0]

Fail(c, r) ==
    /\ step' = [step EXCEPT ![c] = "failed"]
    /\ asker' = [asker EXCEPT ![c] = r]
    /\ given' = [given EXCEPT ![c] = Nothing]
    /\ givenAge' = [givenAge EXCEPT ![c] = 0]
    /\ timer' = [timer EXCEPT ![c] = 0]

FromCache(c, r) ==
    /\ Ready(c) /\ Hit(r)
    /\ Serve(c, r, minted[KeyOf(r)], age[KeyOf(r)])
    /\ UNCHANGED <<minted, left, age, files>>

\* A variable that is neither of the context nor in the keyring, a field the
\* type needs and the manifest lacks, or a temporary file that is not written.
NotStarted(c, r) ==
    /\ Ready(c) /\ ~Hit(r)
    /\ Fail(c, r)
    /\ UNCHANGED <<minted, left, age, files>>

WriteScript(c) ==
    files' = IF IsScript THEN [files EXCEPT ![c] = @ + 1] ELSE files

Room(c) == files[c] < MaxLeaked

\* The interpreter does not start, and `?` returns past remove_file.
SpawnFails(c, r) ==
    /\ Ready(c) /\ ~Hit(r) /\ Room(c)
    /\ WriteScript(c)
    /\ Fail(c, r)
    /\ UNCHANGED cacheVars

Spawn(c, r) ==
    /\ Ready(c) /\ ~Hit(r) /\ Room(c)
    /\ WriteScript(c)
    /\ step' = [step EXCEPT ![c] = "running"]
    /\ asker' = [asker EXCEPT ![c] = r]
    /\ given' = [given EXCEPT ![c] = Nothing]
    /\ givenAge' = [givenAge EXCEPT ![c] = 0]
    /\ timer' = [timer EXCEPT ![c] = Timeout]
    /\ UNCHANGED cacheVars

RemoveScript(c) ==
    files' = IF IsScript THEN [files EXCEPT ![c] = @ - 1] ELSE files

\* The child ends with success and its output parses.
Generated(c) ==
    /\ step[c] = "running"
    /\ RemoveScript(c)
    /\ Serve(c, asker[c], asker[c], 0)
    /\ Insert(asker[c])

\* It ends with another status, or the output is not what `inject` needs.
Rejected(c) ==
    /\ step[c] = "running"
    /\ RemoveScript(c)
    /\ Fail(c, asker[c])
    /\ UNCHANGED cacheVars

\* Mutant: only ::Command has the timeout.
TimesOutOfCommand(c) ==
    /\ step[c] = "running" /\ timer[c] = 0 /\ ~IsScript
    /\ Fail(c, asker[c])
    /\ UNCHANGED <<minted, left, age, files>>

\* The timeout, or an error of the wait: `?` returns past remove_file, and
\* kill_on_drop ends the child.
TimesOut(c) ==
    /\ step[c] = "running" /\ timer[c] = 0
    /\ Fail(c, asker[c])
    /\ UNCHANGED <<minted, left, age, files>>

WaitFails(c) ==
    /\ step[c] = "running"
    /\ Fail(c, asker[c])
    /\ UNCHANGED <<minted, left, age, files>>

\* The client goes away and the request's future is dropped.
Dropped(c) ==
    /\ step[c] = "running"
    /\ step' = [step EXCEPT ![c] = "idle"]
    /\ asker' = [asker EXCEPT ![c] = Nothing]
    /\ timer' = [timer EXCEPT ![c] = 0]
    /\ UNCHANGED <<minted, left, age, given, givenAge, files>>

Less(n) == IF n > 0 THEN n - 1 ELSE 0

TimePasses ==
    /\ left' = [k \in CacheKey |-> Less(left[k])]
    /\ age' = [k \in CacheKey |->
                 IF minted[k] # Nothing /\ age[k] < Oldest THEN age[k] + 1 ELSE age[k]]
    /\ timer' = [c \in Callers |-> Less(timer[c])]
    /\ UNCHANGED <<minted, step, asker, given, givenAge, files>>

Ends(c) == \/ Generated(c) \/ Rejected(c) \/ TimesOut(c) \/ WaitFails(c)

Call(c, r) == \/ FromCache(c, r) \/ NotStarted(c, r)
              \/ SpawnFails(c, r) \/ Spawn(c, r)

AuthNext ==
    \/ \E c \in Callers : \/ \E r \in Requests : Call(c, r)
                          \/ Ends(c)
                          \/ Dropped(c)
    \/ TimePasses

AuthSpec == AuthInit /\ [][AuthNext]_authVars

\* Time passes, and a runtime timer that is due is polled.
FairAuthSpec == AuthSpec /\ WF_authVars(TimePasses) /\ \A c \in Callers : WF_authVars(TimesOut(c))

-----------------------------------------------------------------------------
(* Correctness                                                              *)

\* Values have their types, and a child process exists for the call that
\* waits for it: its temporary file is among those of the caller.
AuthTypeOK ==
    /\ minted \in [CacheKey -> Requests \cup {Nothing}]
    /\ left \in [CacheKey -> 0..Oldest]
    /\ age \in [CacheKey -> 0..Oldest]
    /\ step \in [Callers -> {"idle", "running", "served", "failed"}]
    /\ asker \in [Callers -> Requests \cup {Nothing}]
    /\ timer \in [Callers -> 0..Timeout]
    /\ given \in [Callers -> Requests \cup {Nothing}]
    /\ givenAge \in [Callers -> 0..Oldest]
    /\ files \in [Callers -> 0..MaxLeaked]
    /\ \A c \in Callers : step[c] # "idle" => asker[c] \in Requests
    /\ \A c \in Callers : step[c] = "running" /\ IsScript => files[c] > 0

\* A tool call never carries a credential that was generated for another
\* sandbox, whatever sub the two have in common: cross-sandbox reuse of the
\* cache misses (auth_generator.rs:103, issue #115).
SandboxesApart ==
    \A c \in Callers : step[c] = "served" => given[c].box = asker[c].box

\* A credential out of the cache is younger than the cache_ttl_secs of its
\* provider, even when many generators of one key overlap and the last to end
\* replaces the entries of the others.
YoungerThanTtl ==
    \A c \in Callers :
        step[c] = "served" /\ givenAge[c] > 0
            => givenAge[c] < Ttl[asker[c].provider]

\* No generator holds a tool call for ever, whatever its child process does.
CallsEnd == \A c \in Callers : step[c] = "running" ~> step[c] # "running"
=============================================================================
