------------------------------- MODULE Gateway -------------------------------
(***************************************************************************)
(* A request on its way through the proxy (src/proxy/server.rs): the       *)
(* signature layer (src/core/sig_verify.rs), the authentication layer with *)
(* its three kinds of caller, and the handlers of POST /call, POST /mcp    *)
(* (tools/call) and GET /tools/{name}, up to the answer and its audit row  *)
(* (src/core/audit.rs).                                                    *)
(*                                                                         *)
(* A handler is a future: what it does between two awaits is one step, and *)
(* it awaits the key store, the request's body and the upstream.  Time     *)
(* passes, keys end and the signing secret is replaced meanwhile.  Ephemeral *)
(* keys are those of KeyLease, which KeyStore implements; the rate limiter *)
(* may let a limited call through or not (RateLimiter says when).          *)
(***************************************************************************)
EXTENDS Integers

CONSTANTS
    Slots,            \* requests in flight at once
    Requests,         \* per slot, the requests that are made in it
    Tokens, Keys,     \* bearers that verify; Ati-Keys
    Expiry,           \* per token, its exp claim
    Grants,           \* per token or key, the tools its scopes match
    Limits,           \* per token, the names its rate patterns match
    Tools, Urls, Secrets,
    Scoped,           \* tools that declare a scope
    Handler,          \* per tool, its provider's handler
    Accepts,          \* tools whose provider declares mcp_url_env
    Lazy,             \* tools without a schema in the manifest
    AllowedUrls,      \* X-Ati-Upstream-Url values the allowlists match
    Exempt,           \* routes under --sig-exempt-paths
    Modes, JwtModes,  \* the proxies considered: --sig-verify-mode; is a JWT key set
    Leeway, Drift,    \* leeway_secs; --sig-drift-seconds
    Lifetimes, TTL, MaxFill,    \* of KeyLease
    MaxNow            \* bound of the model: the clock

NoOne == "nobody"
None  == "none"
Never == -1
NoExpiry == -1

\* `alias`: the name has an underscore where the tool's has its colon.  `skew`: of
\* the sandbox's clock.  `secret` is what the sandbox signs with.
Request == [route  : {"call", "mcp", "info", "raw"},
            tool   : Tools \cup {None}, alias : BOOLEAN,
            cred   : {"none", "bearer", "key"},
            who    : Tokens \cup Keys \cup {NoOne},
            secret : Secrets \cup {None}, skew : Int,
            url    : Urls \cup {None}]

ASSUME GatewayAssumption ==
    /\ Requests \in [Slots -> SUBSET Request]
    /\ \A s \in Slots : \A r \in Requests[s] :
                           /\ r.cred = "none" => r.who = NoOne
                           /\ r.cred = "bearer" => r.who \in Tokens
                           /\ r.cred = "key" => r.who \in Keys
    /\ Expiry \in [Tokens -> Nat]
    /\ Grants \in [Tokens \cup Keys -> SUBSET Tools]
    /\ Limits \in [Tokens -> SUBSET (Tools \X BOOLEAN)]
    /\ Scoped \subseteq Tools /\ Lazy \subseteq Accepts /\ Accepts \subseteq Tools
    /\ Handler \in [Tools -> {"http", "mcp", "cli", "file_manager"}]
    /\ \A t \in Accepts : Handler[t] = "mcp"
    /\ AllowedUrls \subseteq Urls
    /\ Modes \subseteq {"log", "warn", "enforce"} /\ JwtModes \subseteq BOOLEAN
    /\ Leeway \in Nat /\ Drift \in Nat /\ MaxNow \in Nat
    /\ Lifetimes \subseteq Nat \cup {NoExpiry}
    /\ Tokens \cap Keys = {}
    /\ {NoOne, None} \cap (Tokens \cup Keys \cup Tools \cup Urls \cup Secrets) = {}

VARIABLES
    now,
    mode, jwt,   \* constants of a proxy: SigVerifyConfig.mode; jwt_config is set
    secret,      \* SigVerifyConfig.secret
    state, life, since, verdict,    \* the keys, as KeyLease has them
    at,          \* per slot, where the request is
    req,         \* per slot, the request
    stamp,       \* per slot, t= of the signature
    opened,      \* history, per slot: the secret and the time its signature met
    holder,      \* per slot, whose claims the request carries
    ends,        \* per slot, exp of those claims
    charged,     \* per slot, the limiter has recorded the call
    began,       \* history, per slot: when the tool was started
    status,      \* per slot, of the answer
    row,         \* per slot, its row of the audit log, if that can be read
    unended,     \* the slots with text in the last line of the log, if it has no end
    remnant,     \* history: a write to the log failed, and none has ended a line since
    spoilt,      \* history, per slot: its row was written as AuditAgrees allows for
    schemas      \* lazy_schema_cache, per URL

Lease == INSTANCE KeyLease

slotVars  == <<at, req, stamp, opened, holder, ends, charged, began, status>>
logVars   == <<row, unended, remnant, spoilt>>
proxyVars == <<mode, jwt, secret, schemas, logVars>>
vars == <<now, mode, jwt, secret, state, life, since, verdict, at, req, stamp, opened,
          holder, ends, charged, began, status, row, unended, remnant, spoilt, schemas>>

Stages == {"idle", "sent", "lookup", "admitted", "dialing", "running",
           "ending", "answered"}
Unopened == [secret |-> None, time |-> Never]
Blank == [route |-> "raw", tool |-> None, alias |-> FALSE, cred |-> "none",
          who |-> NoOne, secret |-> None, skew |-> 0, url |-> None]

Init ==
    /\ now = 0
    /\ mode \in Modes /\ jwt \in JwtModes
    /\ secret \in Secrets
    /\ Lease!Init
    /\ at = [s \in Slots |-> "idle"] /\ req = [s \in Slots |-> Blank]
    /\ stamp = [s \in Slots |-> 0] /\ opened = [s \in Slots |-> Unopened]
    /\ holder = [s \in Slots |-> NoOne] /\ ends = [s \in Slots |-> NoExpiry]
    /\ charged = [s \in Slots |-> FALSE] /\ began = [s \in Slots |-> Never]
    /\ status = [s \in Slots |-> None] /\ row = [s \in Slots |-> None]
    /\ unended = {} /\ remnant = FALSE /\ spoilt = [s \in Slots |-> FALSE]
    /\ schemas = [u \in Urls |-> None]

-----------------------------------------------------------------------------
(* Surroundings                                                             *)

\* Lease!Forget: a step that is not a decision on a key only forgets the last one.
Tick ==
    /\ now < MaxNow
    /\ now' = now + 1
    /\ Lease!Tick
    /\ UNCHANGED <<proxyVars, slotVars>>

\* Keys are issued, and revoked or blocked.
Administer ==
    /\ \/ \E k \in Keys, lifetime \in Lifetimes : Lease!Issue(k, lifetime)
       \/ \E k \in Keys : state[k] = "live" /\ Lease!End({k})
    /\ UNCHANGED <<now, proxyVars, slotVars>>

\* The SIGHUP handler has read the keyring again (KeyringRotation).
Reload ==
    /\ secret' \in (Secrets \cup {None}) \ {secret}
    /\ Lease!Forget
    /\ UNCHANGED <<now, mode, jwt, schemas, slotVars, logVars>>

\* The slot holds r, and nothing is known of it yet.
Holds(s, stage, r, t) ==
    /\ at' = [at EXCEPT ![s] = stage]
    /\ req' = [req EXCEPT ![s] = r]
    /\ stamp' = [stamp EXCEPT ![s] = t]
    /\ opened' = [opened EXCEPT ![s] = Unopened]
    /\ holder' = [holder EXCEPT ![s] = NoOne]
    /\ ends' = [ends EXCEPT ![s] = NoExpiry]
    /\ charged' = [charged EXCEPT ![s] = FALSE]
    /\ began' = [began EXCEPT ![s] = Never]
    /\ status' = [status EXCEPT ![s] = None]
    /\ row' = [row EXCEPT ![s] = None] /\ spoilt' = [spoilt EXCEPT ![s] = FALSE]
    /\ Lease!Forget
    /\ UNCHANGED <<now, mode, jwt, secret, schemas, unended, remnant>>

\* A sandbox signs a request and sends it, with a key only if it was issued.
Send(s, r) ==
    /\ at[s] = "idle"
    /\ r.cred = "key" => state[r.who] # "new"
    /\ Holds(s, "sent", r, IF r.secret = None THEN 0 ELSE now + r.skew)

\* The answer has been sent; or the client closes the connection before, which drops
\* the handler's future where it awaits.
Leave(s) == at[s] \notin {"idle", "ending"} /\ Holds(s, "idle", Blank, 0)

Goes(s, stage) == at' = [at EXCEPT ![s] = stage]

Answers(s, st) == Goes(s, "answered") /\ status' = [status EXCEPT ![s] = st]

\* An answer that no tool was started for.
Refuses(s) == Answers(s, "refused")

-----------------------------------------------------------------------------
(* sig_verify_middleware and auth_middleware                                *)

Abs(n) == IF n < 0 THEN -n ELSE n

\* Mutant: a timestamp in the past is taken for a small one.
DriftOneWay(s) == stamp[s] - now <= Drift

InDrift(s) == Abs(now - stamp[s]) <= Drift

\* verify
Valid(s) ==
    /\ req[s].secret # None
    /\ InDrift(s)
    /\ secret # None
    /\ req[s].secret = secret

Passes(s) == req[s].route \in Exempt \/ mode # "enforce" \/ Valid(s)

\* The request reaches the proxy; the signature is checked before all else.
Meets(s) ==
    /\ at[s] = "sent"
    /\ opened' = IF req[s].route \in Exempt THEN opened
                 ELSE [opened EXCEPT ![s] = [secret |-> secret, time |-> now]]
    /\ Lease!Forget
    /\ UNCHANGED <<now, proxyVars, req, stamp, charged>>

RefuseSignature(s) ==
    /\ Meets(s)
    /\ ~Passes(s)
    /\ Refuses(s)
    /\ UNCHANGED <<holder, ends, began>>

\* A passthrough route: nobody is authenticated, and the request is forwarded.
TakeRaw(s) ==
    /\ Meets(s)
    /\ Passes(s) /\ req[s].route = "raw"
    /\ Goes(s, "running")
    /\ began' = [began EXCEPT ![s] = now]
    /\ UNCHANGED <<holder, ends, status>>

\* An Ati-Key comes before all other credentials, and is looked up.
TakeKey(s) ==
    /\ Meets(s)
    /\ Passes(s) /\ req[s].route # "raw" /\ req[s].cred = "key"
    /\ Goes(s, "lookup")
    /\ UNCHANGED <<holder, ends, began, status>>

Admits(s, w, e) ==
    /\ Goes(s, "admitted")
    /\ holder' = [holder EXCEPT ![s] = w]
    /\ ends' = [ends EXCEPT ![s] = e]
    /\ UNCHANGED <<began, status>>

\* No JWT key is configured: the development mode, with or without a bearer.
TakeUnauthenticated(s) ==
    /\ Meets(s)
    /\ Passes(s) /\ req[s].route # "raw" /\ req[s].cred # "key"
    /\ ~jwt
    /\ Admits(s, NoOne, NoExpiry)

\* jwt::validate
Validates(s) == req[s].cred = "bearer" /\ now <= Expiry[req[s].who] + Leeway

TakeBearer(s) ==
    /\ Meets(s)
    /\ Passes(s) /\ req[s].route # "raw" /\ req[s].cred # "key"
    /\ jwt
    /\ IF Validates(s)
       THEN Admits(s, req[s].who, Expiry[req[s].who])
       ELSE Refuses(s) /\ UNCHANGED <<holder, ends, began>>

\* to_synthetic_claims: the row's expires_at.
ExpOf(k) == IF life[k] = NoExpiry THEN NoExpiry ELSE now + life[k]

\* authenticate_ati_key, after the key store has answered or failed.
LookupEnds(s) ==
    /\ at[s] = "lookup"
    /\ LET k == req[s].who IN
       \/ Lease!Grant(k) /\ Admits(s, k, ExpOf(k))
       \/ Lease!Refuse(k) /\ Refuses(s) /\ UNCHANGED <<holder, ends, began>>
       \/ Lease!Forget /\ Refuses(s) /\ UNCHANGED <<holder, ends, began>>
    /\ UNCHANGED <<now, proxyVars, req, stamp, opened, charged>>

-----------------------------------------------------------------------------
(* The handlers, from the body's last byte to the next await                *)

\* Mutant: the claims are trusted until the request ends.
NeverExpired(s) == FALSE

\* ScopeConfig::is_expired
Expired(s) == ends[s] # NoExpiry /\ now > ends[s]

\* scopes_for_request: the claims, or all tools in development mode.
Scopes(s) ==
    IF holder[s] # NoOne THEN Grants[holder[s]] ELSE IF jwt THEN {} ELSE Tools

\* is_allowed, for a tool that declares a scope.
Allowed(s) ==
    LET t == req[s].tool IN
    t \in Scoped => ~Expired(s) /\ t \in Scopes(s)

\* get_tool; POST /call alone tries a colon for each underscore.
Known(s) ==
    /\ req[s].tool # None
    /\ req[s].alias => req[s].route = "call"

\* resolve_upstream_override
Overrides(s) ==
    \/ req[s].url = None
    \/ req[s].tool \in Accepts /\ req[s].url \in AllowedUrls

\* check_and_record is asked under the name of the request.
Limited(s) ==
    /\ holder[s] \in Tokens
    /\ <<req[s].tool, req[s].alias>> \in Limits[holder[s]]

\* Mutant: the limiter is asked before the scopes.
ChargedFirst(s) == Known(s) /\ Limited(s)

Charges(s) == Known(s) /\ Allowed(s) /\ Limited(s)

HandlerOf(s, route) ==
    /\ at[s] = "admitted" /\ req[s].route = route
    /\ Lease!Forget
    /\ UNCHANGED <<now, proxyVars, req, stamp, opened, holder, ends>>

Starts(s) ==
    /\ Goes(s, "running")
    /\ began' = [began EXCEPT ![s] = now]
    /\ UNCHANGED status

\* The body cannot be read or parsed.
BadBody(s) ==
    /\ \E route \in {"call", "mcp"} : HandlerOf(s, route)
    /\ Refuses(s)
    /\ UNCHANGED <<charged, began>>

\* The limiter lets a call that it is asked about through, and records it, or not.
Call(s) ==
    /\ HandlerOf(s, "call")
    /\ \E ok \in BOOLEAN :
         /\ charged' = [charged EXCEPT ![s] = Charges(s) /\ ok]
         /\ ok \/ Charges(s)
         /\ IF Known(s) /\ Allowed(s) /\ ok /\ Overrides(s)
            THEN Starts(s)
            ELSE Refuses(s) /\ UNCHANGED began

\* tools/call over JSON-RPC: no rate limit.
McpCall(s) ==
    /\ HandlerOf(s, "mcp")
    /\ UNCHANGED charged
    /\ IF Known(s) /\ Allowed(s) /\ Overrides(s)
       THEN Starts(s)
       ELSE Refuses(s) /\ UNCHANGED began

\* handle_tool_info, for a tool that is not to be discovered, or is not to be seen.
Info(s) ==
    /\ at[s] = "admitted" /\ req[s].route = "info"
    /\ IF Known(s) /\ Allowed(s)
       THEN /\ req[s].tool \notin Lazy \/ req[s].url = None \/ ~Overrides(s)
            /\ Answers(s, "ok")
       ELSE Refuses(s)
    /\ Lease!Forget
    /\ UNCHANGED <<now, proxyVars, req, stamp, opened, holder, ends, charged, began>>

\* Mutant: only a discovery that succeeded is remembered.
CachedIfFound(u) == schemas[u] = "found"

\* lazy_schema_cache.get: a failure is remembered as well.
Cached(u) == schemas[u] # None

\* resolve_lazy_input_schema, up to the dial.
InfoLazy(s) ==
    /\ at[s] = "admitted" /\ req[s].route = "info"
    /\ Known(s) /\ Allowed(s)
    /\ req[s].tool \in Lazy /\ req[s].url # None /\ Overrides(s)
    /\ IF Cached(req[s].url)
       THEN Answers(s, "ok")
       ELSE Goes(s, "dialing") /\ UNCHANGED status
    /\ Lease!Forget
    /\ UNCHANGED <<now, proxyVars, req, stamp, opened, holder, ends, charged, began>>

\* lazy_fetch_schemas, after tools/list or an error.
DialEnds(s) ==
    /\ at[s] = "dialing"
    /\ \E found \in {"found", "failed"} :
         schemas' = [schemas EXCEPT ![req[s].url] = found]
    /\ Answers(s, "ok")
    /\ Lease!Forget
    /\ UNCHANGED <<now, mode, jwt, secret, req, stamp, opened, holder, ends,
                   charged, began, logVars>>

-----------------------------------------------------------------------------
(* After the upstream                                                       *)

\* Mutant: the early return for an empty upstream result forgets the row.
RowUnlessEmpty(s, kind) ==
    IF req[s].route # "call" \/ kind = "empty" THEN None
    ELSE IF kind = "ok" THEN "ok" ELSE "error"

\* The row of write_proxy_audit, on each way out of handle_call after the dispatch.
RowOf(s, kind) ==
    IF req[s].route # "call" THEN None
    ELSE IF kind \in {"ok", "empty"} THEN "ok" ELSE "error"

\* What the upstream comes to.  The HTTP executor alone knows an empty result, and
\* POST /call alone processes the response.
Kinds(s) ==
    LET http == req[s].route # "raw" /\ Handler[req[s].tool] = "http" IN
    {"ok", "error"} \cup (IF http THEN {"empty"} ELSE {})
                    \cup (IF http /\ req[s].route = "call" THEN {"unprocessed"} ELSE {})

\* dispatch_file_manager and the MCP client take the name of the request, so an
\* alias resolves and then finds no tool of that name.
Reaches(s, kind) ==
    req[s].alias /\ Handler[req[s].tool] \in {"file_manager", "mcp"} => kind = "error"

\* An empty result is an answer of POST /call, and an error of POST /mcp.
StatusOf(s, kind) ==
    IF kind = "ok" \/ (kind = "empty" /\ req[s].route = "call") THEN "ok" ELSE "error"

\* audit::append opens the log and puts the text of the row at its end, or part of it, or
\* nothing.  Text that shares its line with other text cannot be read, and neither can the
\* other.  The handler does not look at the error.
Appends(s, st, rw) ==
    LET beside == {t \in Slots : at[t] = "ending"}
    IN  \E put \in {"all", "part", "nothing"} :
          /\ Goes(s, IF put = "all" THEN "ending" ELSE "answered")
          /\ status' = [status EXCEPT ![s] = st]
          /\ row' = [t \in Slots |->
                        IF put # "nothing" /\ t \in unended THEN None
                        ELSE IF t = s /\ put = "all" /\ unended = {} THEN rw
                        ELSE row[t]]
          /\ unended' = IF put = "nothing" THEN unended ELSE unended \cup {s}
          /\ remnant' = (remnant \/ put = "part")
          /\ spoilt' = [t \in Slots |->
                           \/ spoilt[t]
                           \/ t = s /\ (put # "all" \/ remnant)
                           \/ put # "nothing" /\ beside # {} /\ t \in beside \cup {s}]

Finish(s) ==
    /\ at[s] = "running"
    /\ \E kind \in Kinds(s) :
         /\ Reaches(s, kind)
         /\ IF RowOf(s, kind) = None
            THEN Answers(s, StatusOf(s, kind)) /\ UNCHANGED logVars
            ELSE Appends(s, StatusOf(s, kind), RowOf(s, kind))
    /\ Lease!Forget
    /\ UNCHANGED <<now, mode, jwt, secret, schemas, req, stamp, opened, holder, ends,
                   charged, began>>

\* The newline is a write of its own: writeln! goes to a File, which has no buffer.
EndsRow(s) ==
    /\ at[s] = "ending"
    /\ Goes(s, "answered")
    /\ \/ unended' = {} /\ remnant' = FALSE /\ UNCHANGED spoilt
       \/ remnant' = TRUE /\ spoilt' = [spoilt EXCEPT ![s] = TRUE] /\ UNCHANGED unended
    /\ Lease!Forget
    /\ UNCHANGED <<now, mode, jwt, secret, schemas, req, stamp, opened, holder, ends,
                   charged, began, status, row>>

Handle(s) == BadBody(s) \/ Call(s) \/ McpCall(s) \/ Info(s) \/ InfoLazy(s)

Next ==
    \/ Tick \/ Administer \/ Reload
    \/ \E s \in Slots :
         \/ \E r \in Requests[s] : Send(s, r)
         \/ Leave(s)
         \/ RefuseSignature(s) \/ TakeRaw(s) \/ TakeKey(s)
         \/ TakeUnauthenticated(s) \/ TakeBearer(s) \/ LookupEnds(s)
         \/ Handle(s) \/ DialEnds(s) \/ Finish(s) \/ EndsRow(s)

Spec == Init /\ [][Next]_vars

-----------------------------------------------------------------------------
(* Correctness                                                              *)

\* Values have their types; what a slot holds fits where its request is.
TypeOK ==
    /\ now \in 0..MaxNow
    /\ mode \in Modes /\ jwt \in JwtModes /\ secret \in Secrets \cup {None}
    /\ at \in [Slots -> Stages]
    /\ \A s \in Slots : req[s] \in Requests[s] \cup {Blank}
    /\ stamp \in [Slots -> Int]
    /\ opened \in [Slots -> [secret : Secrets \cup {None}, time : Never..MaxNow]]
    /\ holder \in [Slots -> Tokens \cup Keys \cup {NoOne}]
    /\ ends \in [Slots -> Int]
    /\ charged \in [Slots -> BOOLEAN] /\ began \in [Slots -> Never..MaxNow]
    /\ status \in [Slots -> {None, "refused", "ok", "error"}]
    /\ row \in [Slots -> {None, "ok", "error"}] /\ unended \subseteq Slots
    /\ remnant \in BOOLEAN /\ spoilt \in [Slots -> BOOLEAN]
    /\ schemas \in [Urls -> {None, "found", "failed"}]
    /\ \A s \in Slots :
         /\ at[s] = "lookup" => req[s].cred = "key"
         /\ at[s] = "running" => began[s] # Never /\ status[s] = None
         /\ at[s] = "answered" => status[s] # None

Started(s) == began[s] # Never
Needs(s)   == req[s].route # "raw" /\ req[s].tool \in Scoped

\* A tool runs, or a passthrough request is forwarded, only if in enforce mode the
\* request was signed with the secret that was in force when the proxy met it, in
\* the drift window; only for a caller who was authenticated, or in development
\* mode, where a key that is presented still counts; and only in the scopes of that
\* caller, although the secret, the keys and the clock change while it waits.
RunsForCause ==
    \A s \in Slots : Started(s) =>
        /\ mode = "enforce" /\ req[s].route \notin Exempt =>
               /\ req[s].secret = opened[s].secret /\ opened[s].secret # None
               /\ opened[s].time - stamp[s] \in -Drift..Drift
        /\ req[s].route # "raw" =>
               \/ holder[s] # NoOne /\ holder[s] = req[s].who
               \/ holder[s] = NoOne /\ ~jwt /\ req[s].cred # "key"
        /\ Needs(s) /\ holder[s] # NoOne => req[s].tool \in Grants[holder[s]]

\* However long the body takes, a tool that declares a scope never starts after the
\* expiry of the caller's token or key, and the leeway of the validation does not
\* extend it; a tool without a scope starts for a token that was valid on arrival.
StartsInTime ==
    \A s \in Slots : Started(s) /\ req[s].route # "raw" =>
        /\ Needs(s) /\ ends[s] # NoExpiry => began[s] <= ends[s]
        /\ holder[s] \in Tokens => /\ ends[s] = Expiry[holder[s]]
                                   /\ opened[s].time <= Expiry[holder[s]] + Leeway

\* A budget is spent only by POST /call, on a name that the token limits and a tool
\* that it may call; a call that starts under such a name has spent it.
ChargedForCause ==
    \A s \in Slots :
        LET limited == /\ req[s].route = "call" /\ holder[s] \in Tokens
                       /\ <<req[s].tool, req[s].alias>> \in Limits[holder[s]]
        IN  /\ charged[s] => limited /\ (Needs(s) => req[s].tool \in Grants[holder[s]])
            /\ Started(s) /\ limited => charged[s]

\* A row that can be read is that of a POST /call whose tool was started, and says what
\* the answer says.  Such a call has one, unless a write of it failed, or the write to the
\* log before it, which leaves text without an end; or another's row was written while it
\* was.  Its caller is not told.
AuditAgrees ==
    \A s \in Slots : at[s] = "answered" =>
        /\ row[s] # None => req[s].route = "call" /\ Started(s) /\ row[s] = status[s]
        /\ req[s].route = "call" /\ Started(s) /\ row[s] = None => spoilt[s]

Dialing(u) == \E s \in Slots : at[s] = "dialing" /\ req[s].url = u

\* Once a URL has an entry, found or failed, and the discoveries that raced for it
\* have ended, the URL is never dialed again and its entry is never replaced.
SchemaSettles ==
    [][\A u \in Urls : schemas[u] # None /\ ~Dialing(u)
                          => schemas'[u] = schemas[u] /\ ~Dialing(u)']_vars
=============================================================================
