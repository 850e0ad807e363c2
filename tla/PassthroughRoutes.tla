------------------------- MODULE PassthroughRoutes -------------------------
(***************************************************************************)
(* What the passthrough router decides about a request before anything is  *)
(* sent (src/core/passthrough.rs): which routes a start compiles, which of *)
(* them takes a request, what path, credential and headers go upstream.    *)
(*                                                                         *)
(* A path is a sequence of pieces of text, "/" among them, so that a       *)
(* strip_prefix of the code, which cuts text wherever it ends, is IsPrefix *)
(* here; "." and ".." stand for %2e and %2e%2e too.  A route is            *)
(*   [name, host, prefix, strip, from, to, base, deny, forward, auth, key, *)
(*    extra, sockets, maxRequest, maxResponse]                             *)
(* with NoHost, NoPrefix and <<>> (no replacement) for what is not set;    *)
(* `base` is the keyring variable that base_url and host_override need;    *)
(* a base_url has no path of its own.                                      *)
(***************************************************************************)
EXTENDS Integers, FiniteSets, SequencesExt

CONSTANTS
    Providers, \* the passthrough providers in the order of the registry
    Keyring,   \* the names of the keys the proxy started with
    NoHost, NoKey

RoutesAssumption ==
    /\ Len(Providers) \in Nat /\ DOMAIN Providers = 1..Len(Providers)
    /\ \A i \in DOMAIN Providers :
         /\ Len(Providers[i].prefix) \in Nat
         /\ Providers[i].maxRequest \in Nat /\ Providers[i].maxResponse \in Nat

ASSUME RoutesAssumption

NoPrefix == <<>>
Root == <<"/">>

\* Whose it is: the caller's, the key of the route or one of its extra_headers.
Header(name, of) == [name |-> name, of |-> of]

-----------------------------------------------------------------------------
(* The start                                                                *)

\* compile_route refuses a residual "${" in base_url or host_override.
Compiles(p) == p.base = NoKey \/ p.base \in Keyring

\* Mutant: the order of the registry decides between host classes.
ByPrefixOnly(a, b) == Len(a.prefix) >= Len(b.prefix)

\* A route with a host before one without; then the longer prefix.
NotAfter(a, b) ==
    LET rank(r) == IF r.host = NoHost THEN 1 ELSE 0
    IN  rank(a) < rank(b) \/ (rank(a) = rank(b) /\ Len(a.prefix) >= Len(b.prefix))

\* sort_by is stable: route i comes before j when it is not after it, and in the
\* registry's order when neither is after the other.
RouterBuilt ==
    LET before(i, j) == /\ NotAfter(Providers[i], Providers[j])
                        /\ NotAfter(Providers[j], Providers[i]) => i <= j
        order == CHOOSE f \in [DOMAIN Providers -> DOMAIN Providers] :
                   \A i, j \in DOMAIN Providers : i < j => f[i] # f[j] /\ before(f[i], f[j])
    IN  [i \in DOMAIN Providers |-> Providers[order[i]]]

\* resolve_auth: the name of the header, or "query", that carries the key.
Credential(p) ==
    IF p.auth \in {"none", "oauth2", "url"} \/ p.key \notin Keyring THEN "none"
    ELSE CASE p.auth \in {"bearer", "basic"} -> "authorization"
           [] p.auth = "header" -> "x-api-key"
           [] p.auth = "query"  -> "query"

-----------------------------------------------------------------------------
(* A request                                                                *)

\* matches_prefix: up to a slash.
Matches(r, host, path) ==
    /\ r.host = NoHost \/ r.host = host
    /\ r.prefix \in {NoPrefix, Root, path} \/ IsPrefix(Append(r.prefix, "/"), path)

\* match_request: the first of the sorted routes that matches, as a set.
Match(host, path) ==
    LET hits == {i \in DOMAIN RouterBuilt : Matches(RouterBuilt[i], host, path)}
    IN  {RouterBuilt[i] : i \in {j \in hits : \A k \in hits : j <= k}}

After(prefix, s) == SubSeq(s, Len(prefix) + 1, Len(s))

\* rewrite_path
Rewritten(r, path) ==
    LET tail == IF ~r.strip \/ ~IsPrefix(r.prefix, path) THEN path
                ELSE IF path = r.prefix THEN Root ELSE After(r.prefix, path)
    IN  IF r.from # <<>> /\ IsPrefix(r.from, tail) THEN r.to \o After(r.from, tail) ELSE tail

\* The path that the URL says: a slash goes before one that has none ...
Slashed(path) == IF IsPrefix(Root, path) THEN path ELSE Root \o path

\* ... and where reqwest parses it, "." and ".." segments are resolved, as its URL standard does.
DotAt(path, n) ==
    /\ path[n] \in {".", ".."}
    /\ n > 1 => path[n - 1] = "/"
    /\ n < Len(path) => path[n + 1] = "/"
Dotted(path) == \E n \in DOMAIN path : DotAt(path, n)

\* What is before the last slash of a path, and before the one before that.
Above[path \in Seq(STRING)] ==
    LET slashes == {n \in DOMAIN path : path[n] = "/"}
    IN  IF slashes = {} THEN <<>> ELSE SubSeq(path, 1, (CHOOSE n \in slashes : \A m \in slashes : m <= n) - 1)
Resolved(path) ==
    LET follow(before, n) ==
            IF ~DotAt(path, n) THEN Append(before, path[n])
            ELSE IF path[n] = "." THEN Above[before] ELSE Above[Above[before]]
        all == FoldLeftDomain(follow, <<>>, path)
    IN  IF ~Dotted(path) THEN path
        ELSE IF DotAt(path, Len(path)) THEN Append(all, "/") ELSE all

\* A WebSocket's URL is not parsed so.
Sought(path, socket) == IF socket THEN Slashed(path) ELSE Resolved(Slashed(path))

\* A pattern [path, star] with its twin of expand_deny_pattern: "/foo/*" is all that
\* is below /foo, "/foo" is /foo and all that is below.  It is held against the text.
Covers(pattern, path) ==
    (~pattern.star /\ path = pattern.path) \/ IsPrefix(Append(pattern.path, "/"), path)

Denied(r, path) == \E d \in r.deny : Covers(d, path)

\* forward_authorization_paths: the caller's own credential goes upstream.
Forwards(r, path) == \E f \in r.forward : Covers(f, path)

HopByHop == {"connection", "upgrade", "transfer-encoding", "te"}
Internal == {"host", "authorization", "traceparent", "x-sandbox-sig"}

\* filter_request_headers (and filter_ws_client_headers).  `hopByHop` are the names that
\* the caller's Connection header lists.
Kept(r, path, headers, hopByHop) ==
    {h \in headers : /\ h \notin HopByHop \cup hopByHop
                     /\ h \in Internal => h = "authorization" /\ Forwards(r, path)}

OwnKey(r, path) == IF Forwards(r, path) THEN {} ELSE {Credential(r)} \ {"none"}

\* A header of the manifest is appended to those of its name; on a WebSocket it
\* replaces them.
Sent(r, path, headers, hopByHop, socket) ==
    LET kept == Kept(r, path, headers, hopByHop)
        key  == OwnKey(r, path)
    IN  {Header(h, "caller") : h \in IF socket THEN kept \ (key \cup r.extra) ELSE kept}
        \cup {Header(h, "key") : h \in IF socket THEN key \ r.extra ELSE key}
        \cup {Header(h, "extra") : h \in r.extra}
=============================================================================
