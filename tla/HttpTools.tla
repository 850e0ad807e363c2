----------------------------- MODULE HttpTools -----------------------------
(***************************************************************************)
(* The HTTP executor of src/core/http.rs: how a call of a tool becomes a   *)
(* request to its provider, and the OAuth2 tokens that the calls of one    *)
(* provider share through OAUTH2_CACHE.                                    *)
(*                                                                         *)
(* The mutex of the cache is held to look and to insert, not across the    *)
(* exchange between the two: any number of calls may exchange credentials  *)
(* at once.  A token is worth what its server gave it; the caller counts   *)
(* its lifetime from when the response came, and where the response has no *)
(* expires_in, or none that is an integer, it counts on one of its own.    *)
(* Static and generated credentials need no exchange (AuthGenCache has the *)
(* latter).                                                                *)
(*                                                                         *)
(* A tool is [method, in, default, located, bad]: `in` gives each of its   *)
(* parameters a place, `default` are those with a default that is not      *)
(* empty, `located` says that some x-ati-param-location is there, and      *)
(* `bad` are the parameters that hold a value no path may have or name a   *)
(* header no caller may set.                                               *)
(***************************************************************************)
EXTENDS Integers, Sequences

CONSTANTS
    HttpCalls,
    HttpProviders,
    Auth,             \* per provider: "none", "static", "oauth2" or "broken"
    Blocked,          \* providers whose address validate_url_not_private refuses
    ToolCalls,        \* what is called: [provider, tool, args]
    Lifetimes,        \* lifetimes of the tokens that servers give
    Presumed,         \* the lifetime of a token whose server states none (1799 s)
    Margin,           \* what a cached token must have left (60 s)
    ExchangeLimit,    \* timeout of an exchange (15 s)
    SendLimit,        \* timeout of a request (60 s)
    MaxTokens, MaxNow \* bounds of the model: tokens given and ticks of the clock

\* The margin covers what an exchange may take.
HttpAssumption ==
    /\ Lifetimes \subseteq Nat /\ Presumed \in Nat
    /\ Margin \in Nat /\ ExchangeLimit \in Nat /\ SendLimit \in Nat /\ MaxNow \in Nat
    /\ MaxTokens \in Nat
    /\ ExchangeLimit <= Margin

VARIABLES
    now,
    cache,  \* per provider: [token, until], token 0 when there is none
    tokens, \* those given so far: [dies, counted, stated]
    call    \* per call: what its future holds

httpVars == <<now, cache, tokens, call>>

NotCalled == [at |-> "new"]
NoToken == 0
HttpEnded == {"ok", "none found", "failed"}

HttpInit ==
    /\ now = 0
    /\ cache = [p \in HttpProviders |-> [token |-> NoToken, until |-> 0]]
    /\ tokens = <<>>
    /\ call = [c \in HttpCalls |-> NotCalled]

-----------------------------------------------------------------------------
(* The request                                                              *)

\* merge_defaults
Merged(tool, args) == args \cup tool.default

PlaceOf(tool, a) == IF a \in DOMAIN tool.in THEN tool.in[a] ELSE "body"

HasBody(tool) == tool.method \notin {"GET", "DELETE"}

\* Where the arguments go, as pairs <<argument, place>>.  With locations, GET and
\* DELETE get no body; without, a GET has all in its query and any other in its body.
Placed(tool, args) ==
    IF ~tool.located
    THEN {<<a, IF tool.method = "GET" THEN "query" ELSE "body">> : a \in Merged(tool, args)}
    ELSE {x \in {<<a, PlaceOf(tool, a)>> : a \in Merged(tool, args)} :
            x[2] = "body" => HasBody(tool)}

\* validate_headers and substitute_path_params fail before anything is sent.
Refused(tool, args) ==
    tool.located /\ \E a \in Merged(tool, args) \cap tool.bad : PlaceOf(tool, a) \in {"header", "path"}

-----------------------------------------------------------------------------
(* The calls                                                                *)

\* Mutant: a token is used to its end.
HitToTheEnd(p) == cache[p].token # NoToken /\ now < cache[p].until

\* get_oauth2_token finds a token with enough left.
Hit(p) == cache[p].token # NoToken /\ now + Margin < cache[p].until

TokenEnds(c, how) == call' = [call EXCEPT ![c] = [at |-> how]]

\* request.send(), with the token if there is one.
SendsCall(c, wanted, issued, cached) ==
    call' = [call EXCEPT ![c] =
        [at |-> "sent", args |-> wanted.args, tool |-> wanted.tool,
         placed |-> Placed(wanted.tool, wanted.args), token |-> issued, cached |-> cached,
         since |-> now]]

\* execute_tool_with_gen up to its first await: the exchange, or the request.
Execute(c) ==
    /\ call[c].at \in {"new"} \cup HttpEnded /\ now + ExchangeLimit + SendLimit <= MaxNow
    /\ \E a \in ToolCalls :
         LET auth == Auth[a.provider]
         IN  CASE a.provider \in Blocked \/ Refused(a.tool, a.args) \/ auth = "broken" ->
                    TokenEnds(c, "failed")
               [] a.provider \notin Blocked /\ ~Refused(a.tool, a.args) /\ auth = "oauth2"
                    /\ ~Hit(a.provider) ->
                    call' = [call EXCEPT ![c] =
                        [at |-> "exchange", asked |-> a, token |-> NoToken, life |-> 0,
                         since |-> now]]
               [] OTHER ->
                    SendsCall(c, a, IF auth = "oauth2" THEN cache[a.provider].token ELSE NoToken,
                              auth = "oauth2")
    /\ UNCHANGED <<now, cache, tokens>>

\* What a client makes of a response: expires_in, or Presumed where none is stated.
LifeIn(life, stated) == IF stated THEN life ELSE Presumed

\* The server gives a token, ends it when its life is over, whatever the response
\* states of it, and the response is under way.
Gives(c) ==
    /\ call[c].at = "exchange" /\ call[c].token = NoToken /\ Len(tokens) < MaxTokens
    /\ \E life \in Lifetimes, stated \in BOOLEAN :
         /\ tokens' = Append(tokens, [dies |-> now + life, counted |-> now + LifeIn(life, stated),
                                     stated |-> stated])
         /\ call' = [call EXCEPT ![c] =
                [at |-> "exchange", asked |-> @.asked, token |-> Len(tokens) + 1,
                 life |-> LifeIn(life, stated), since |-> @.since]]
    /\ UNCHANGED <<now, cache>>

\* cache.insert
Stored(p, issued, until) == [cache EXCEPT ![p] = [token |-> issued, until |-> until]]

\* The response comes: the token is cached, whatever is there by now, and used.
TakesToken(c) ==
    /\ call[c].at = "exchange" /\ call[c].token # NoToken
    /\ LET e == call[c]
       IN  /\ cache' = Stored(e.asked.provider, e.token, now + e.life)
           /\ SendsCall(c, e.asked, e.token, FALSE)
    /\ UNCHANGED <<now, tokens>>

\* A status, a body without a token, or a lifetime that overflows an Instant.
ExchangeFails(c) ==
    /\ call[c].at = "exchange"
    /\ TokenEnds(c, "failed")
    /\ UNCHANGED <<now, cache, tokens>>

Due(c) ==
    \/ call[c].at = "exchange" /\ now = call[c].since + ExchangeLimit
    \/ call[c].at = "sent" /\ now = call[c].since + SendLimit

\* A timer of reqwest.
CallTimesOut(c) ==
    /\ Due(c)
    /\ TokenEnds(c, "failed")
    /\ UNCHANGED <<now, cache, tokens>>

\* A body, a 404 that means that there are no records, or any other failure.
Answers(c) ==
    /\ call[c].at = "sent"
    /\ \E how \in HttpEnded : TokenEnds(c, how)
    /\ UNCHANGED <<now, cache, tokens>>

\* The clock does not run past a timer that is due.
Tick ==
    /\ now < MaxNow /\ \A c \in HttpCalls : ~Due(c)
    /\ now' = now + 1
    /\ UNCHANGED <<cache, tokens, call>>

CallSteps(c) == Execute(c) \/ Gives(c) \/ TakesToken(c) \/ ExchangeFails(c) \/ CallTimesOut(c)
                \/ Answers(c)

HttpNext == Tick \/ \E c \in HttpCalls : CallSteps(c)

\* The timers of a call fire while the clock runs.
HttpSpec == HttpInit /\ [][HttpNext]_httpVars

FairHttpSpec ==
    HttpSpec /\ WF_httpVars(Tick) /\ \A c \in HttpCalls : WF_httpVars(CallTimesOut(c))

-----------------------------------------------------------------------------
(* What is checked                                                          *)

HttpTypeOK ==
    /\ now \in 0..MaxNow /\ Len(tokens) <= MaxTokens
    /\ \A p \in HttpProviders : cache[p].token \in 0..Len(tokens)
    /\ \A c \in HttpCalls : call[c].at \in {"new", "exchange", "sent"} \cup HttpEnded

\* A token out of OAUTH2_CACHE is alive at its server when a call takes it, however the
\* exchanges of several calls overlap, whichever response comes last and however long
\* each was under way: the 60 seconds cover the 15 an exchange may take (http.rs:667).
\* Only a token whose server stated no lifetime may be dead, since 1799 seconds are
\* counted on (http.rs:744-747), and it is not used beyond those.
TokensAreAlive ==
    \A c \in HttpCalls : call[c].at = "sent" /\ call[c].cached =>
      LET t == tokens[call[c].token]
      IN  call[c].since < t.dies \/ (~t.stated /\ call[c].since < t.counted)

\* A call that was begun ends: no server holds it longer than its timeouts.
HttpPending == \E c \in HttpCalls : call[c].at \in {"exchange", "sent"}
CallsEnd == []<>~HttpPending

\* "body params go to the JSON body" (http.rs:385): every argument of a request that
\* was sent is somewhere in it.
ArgumentsArrive ==
    \A c \in HttpCalls : call[c].at = "sent" =>
      \A a \in call[c].args : \E place \in {"path", "query", "header", "body"} :
        <<a, place>> \in call[c].placed
=============================================================================
