---------------------------- MODULE Passthrough ----------------------------
(***************************************************************************)
(* One request that no named route of the proxy takes: handle_passthrough  *)
(* (src/core/passthrough.rs) streams it to the upstream of its route, and  *)
(* the response back, each through a MaxBytesStream; or it upgrades both   *)
(* legs to WebSocket and pumps frames between them (pump_ws).              *)
(*                                                                         *)
(* The two bodies flow at once: an upstream may respond before it has read *)
(* the request.  Either end may fail at any time and the timer of the      *)
(* route's client may fire.  A chunk is its length; a connection holds     *)
(* LegRoom frames  before its sender has to wait.  The routes do not       *)
(* change, so requests have nothing in common and one is enough.           *)
(***************************************************************************)
EXTENDS PassthroughRoutes

CONSTANTS
    Exchanges, \* requests [host, path, headers, listed, upgrade, shaken, bodied, declared, body]
    Replies,   \* response bodies: sequences of chunks
    Sides,     \* frames that each end may send in a conversation
    LegRoom    \* frames in flight on a leg

Parties == {"caller", "upstream"}

\* `bodied`: its method is not GET, HEAD, DELETE or OPTIONS (accepts_body); any may have a body.
PassthroughAssumption ==
    /\ LegRoom \in Nat \ {0} /\ DOMAIN Sides = Parties
    /\ Replies \subseteq Seq(Nat)
    /\ \A q \in Exchanges : q.body \in Seq(Nat)

ASSUME PassthroughAssumption

VARIABLES
    asked,    \* the request
    route,    \* the route that took it, as a set
    at,       \* where its handler is
    status,   \* of the answer to the caller; 0 before it
    seen,     \* what the upstream was asked: {} or {[path, headers]}
    up, down, \* the bodies of the request and of the response
    said,     \* per end ("caller", "upstream"): the frames it sent
    leg,      \* per end: frames on their way to the pump
    heard,    \* per end: frames of the other that the pump has sent it
    unread,   \* per end: how many of those it has not read
    holds,    \* the frame the pump is sending: {} or {[to, frame]}
    gone      \* the ends whose connection has ended

passVars == <<asked, route, at, status, seen, up, down, said, leg, heard, unread, holds, gone>>

Other(e) == IF e = "caller" THEN "upstream" ELSE "caller"
Sum(s) ==
    LET upTo[n \in 0..Len(s)] == IF n = 0 THEN 0 ELSE upTo[n - 1] + s[n]
    IN  upTo[Len(s)]

\* A body: the chunks the sender has left, those that came out at the other end of
\* MaxBytesStream, and how it ended.
Body(chunks) == [left |-> chunks, out |-> <<>>, end |-> "open"]

PassInit ==
    /\ \A i \in DOMAIN Providers : Compiles(Providers[i])      \* or the proxy does not start
    /\ asked \in Exchanges /\ route = {} /\ at = "match" /\ status = 0 /\ seen = {}
    /\ up = Body(asked.body) /\ down = Body(<<>>)
    /\ said = [e \in Parties |-> <<>>] /\ leg = [e \in Parties |-> <<>>]
    /\ heard = [e \in Parties |-> <<>>] /\ unread = [e \in Parties |-> 0]
    /\ holds = {} /\ gone = {}

bodies == <<up, down>>
frames == <<said, leg, heard, unread, holds, gone>>
Done == {"ended", "dropped"}

-----------------------------------------------------------------------------
(* handle_passthrough up to the send                                        *)

\* Every early return of the handler and its status.
Refuse(code) ==
    /\ at' = "ended" /\ status' = code
    /\ UNCHANGED <<asked, seen, bodies, frames>>

Upgrades(r) == asked.upgrade /\ r.sockets

\* The body of a method that is to have none is dropped.  The caller's Content-Length goes up all
\* the same, so the upstream may find that something is missing, but only of a declared body.
Undone(declared) == {"whole"} \cup (IF declared THEN {"broken"} ELSE {})

Dispatch ==
    /\ at = "match"
    /\ route' = Match(asked.host, asked.path)
    /\ IF route' = {} THEN Refuse(404)
       ELSE \E r \in route' :
         LET path == Rewritten(r, asked.path)
             tooBig == /\ r.maxRequest > 0 /\ asked.declared
                       /\ Sum(asked.body) > r.maxRequest
             ask == {[path |-> Sought(path, Upgrades(r)), route |-> r.name,
                      headers |-> Sent(r, path, asked.headers, asked.listed, Upgrades(r))]}
         IN  IF Denied(r, path) THEN Refuse(403)
             ELSE IF Upgrades(r) /\ ~asked.shaken THEN Refuse(400)  \* no handshake of axum
             ELSE IF Upgrades(r) THEN
                \* the 101 goes out before the upstream is dialled
                /\ at' = "dial" /\ status' = 101 /\ seen' = ask
                /\ UNCHANGED <<asked, bodies, frames>>
             ELSE IF tooBig THEN Refuse(413)
             ELSE
                /\ at' = "send" /\ seen' = ask
                /\ IF asked.bodied THEN UNCHANGED up
                   ELSE \E e \in Undone(asked.declared) : up' = [Body(<<>>) EXCEPT !.end = e]
                /\ UNCHANGED <<asked, status, down, frames>>

-----------------------------------------------------------------------------
(* The bodies                                                               *)

\* Mutant: the cap ends the stream as its sender would.
CappedQuietly(b, max) ==
    IF b.left = <<>> THEN [b EXCEPT !.end = "whole"]
    ELSE IF max > 0 /\ Sum(b.out) + Head(b.left) > max THEN [b EXCEPT !.end = "whole"]
    ELSE [b EXCEPT !.left = Tail(@), !.out = Append(@, Head(b.left))]

\* MaxBytesStream::poll_next, with 0 for "unlimited".  What ended stays so.
Capped(b, max) ==
    IF b.left = <<>> THEN [b EXCEPT !.end = "whole"]
    ELSE IF max > 0 /\ Sum(b.out) + Head(b.left) > max THEN [b EXCEPT !.end = "broken"]
    ELSE [b EXCEPT !.left = Tail(@), !.out = Append(@, Head(b.left))]

Broken(b) == IF b.end = "open" THEN [b EXCEPT !.end = "broken"] ELSE b

\* send fails: the cap, the caller's body, the upstream or the timer.
SendFails ==
    /\ at' = "ended" /\ status' = 502 /\ up' = Broken(up)
    /\ UNCHANGED <<asked, route, seen, down, frames>>

\* A chunk goes up, before the response or beside it.
PullUp ==
    /\ at \in {"send", "reply"} /\ up.end = "open"
    /\ \E r \in route :
         LET b == Capped(up, r.maxRequest)
         IN  IF b.end = "broken" /\ at = "send" THEN SendFails
             ELSE up' = b /\ UNCHANGED <<asked, route, at, status, seen, down, frames>>

Responds ==
    /\ at = "send"
    /\ \E reply \in Replies : down' = Body(reply)
    /\ at' = "reply" /\ status' = 200
    /\ UNCHANGED <<asked, route, seen, up, frames>>

\* The connection or the timer fails the exchange, in either half.
Breaks == at = "send" /\ SendFails

\* The response is broken off: the caller sees that it is not whole.
BreaksReply ==
    /\ at = "reply"
    /\ at' = "ended" /\ down' = Broken(down) /\ up' = Broken(up)
    /\ UNCHANGED <<asked, route, status, seen, frames>>

\* A chunk comes down; when the response ends, what was not sent up is given up.
PullDown ==
    /\ at = "reply"
    /\ \E r \in route : down' = Capped(down, r.maxResponse)
    /\ at' = IF down'.end = "open" THEN at ELSE "ended"
    /\ up' = IF down'.end = "open" THEN up ELSE Broken(up)
    /\ UNCHANGED <<asked, route, status, seen, frames>>

\* The caller goes away: hyper drops the handler and what it holds.
CallerGoes ==
    /\ at \in {"send", "reply"}
    /\ at' = "dropped" /\ up' = Broken(up) /\ down' = Broken(down)
    /\ UNCHANGED <<asked, route, status, seen, frames>>

-----------------------------------------------------------------------------
(* pump_ws                                                                  *)

\* connect_async under its timeout.  A failure drops the caller's leg.
Dial ==
    /\ at = "dial"
    /\ \/ at' = "pump" /\ UNCHANGED gone
       \/ at' = "ended" /\ gone' = Parties
    /\ UNCHANGED <<asked, route, status, seen, bodies, said, leg, heard, unread, holds>>

pumpOnly == <<asked, route, status, seen, bodies, said>>

\* Mutant: each direction has a task of its own, which takes the next frame
\* whether or not the one before has been sent.
TakesUnsent(e) ==
    /\ at = "pump" /\ leg[e] # <<>>
    /\ leg' = [leg EXCEPT ![e] = Tail(@)]
    /\ holds' = IF Head(leg[e]) = "ping" THEN holds ELSE {[to |-> Other(e), frame |-> Head(leg[e])]}
    /\ UNCHANGED <<pumpOnly, at, heard, unread, gone>>

\* An arm of the select: a ping or pong goes no further; any other frame is sent
\* before the loop turns to either end again.
Takes(e) ==
    /\ at = "pump" /\ holds = {} /\ leg[e] # <<>>
    /\ leg' = [leg EXCEPT ![e] = Tail(@)]
    /\ holds' = IF Head(leg[e]) = "ping" THEN {} ELSE {[to |-> Other(e), frame |-> Head(leg[e])]}
    /\ UNCHANGED <<pumpOnly, at, heard, unread, gone>>

\* The send ends when the other end has room, or is gone.  A close ends the loop.
Delivers ==
    /\ at = "pump"
    /\ \E h \in holds :
         /\ h.to \in gone \/ unread[h.to] < LegRoom
         /\ heard' = IF h.to \in gone THEN heard ELSE [heard EXCEPT ![h.to] = Append(@, h.frame)]
         /\ unread' = IF h.to \in gone THEN unread ELSE [unread EXCEPT ![h.to] = @ + 1]
         /\ at' = IF h.to \in gone \/ h.frame = "close" THEN "close" ELSE at
         /\ holds' = {}
    /\ UNCHANGED <<pumpOnly, leg, gone>>

\* Mutant: the end of the caller's leg is not looked at.
MissesUpstream(e) ==
    /\ at = "pump" /\ holds = {} /\ e = "upstream" /\ e \in gone /\ leg[e] = <<>>
    /\ at' = "close"
    /\ UNCHANGED <<pumpOnly, leg, heard, unread, holds, gone>>

\* None or an error from an end that has gone.
Misses(e) ==
    /\ at = "pump" /\ holds = {} /\ e \in gone /\ leg[e] = <<>>
    /\ at' = "close"
    /\ UNCHANGED <<pumpOnly, leg, heard, unread, holds, gone>>

\* up_tx.close() and then sandbox.close(): each has to find room.
Closes ==
    /\ at = "close"
    /\ IF "upstream" \notin gone
       THEN /\ unread["upstream"] < LegRoom
            /\ gone' = gone \cup {"upstream"} /\ UNCHANGED at
       ELSE /\ "caller" \in gone \/ unread["caller"] < LegRoom
            /\ gone' = Parties /\ at' = "ended"
    /\ UNCHANGED <<pumpOnly, leg, heard, unread, holds>>

(* The ends *)

Says(e) ==
    /\ at = "pump" /\ e \notin gone /\ Len(leg[e]) < LegRoom
    /\ \A i \in DOMAIN said[e] : said[e][i] # "close"
    /\ \E f \in Sides[e] :
         /\ \A i \in DOMAIN said[e] : said[e][i] # f
         /\ said' = [said EXCEPT ![e] = Append(@, f)]
         /\ leg' = [leg EXCEPT ![e] = Append(@, f)]
    /\ UNCHANGED <<asked, route, at, status, seen, bodies, heard, unread, holds, gone>>

Reads(e) ==
    /\ unread[e] > 0 /\ e \notin gone
    /\ unread' = [unread EXCEPT ![e] = @ - 1]
    /\ UNCHANGED <<pumpOnly, at, leg, heard, holds, gone>>

\* An end disappears; what it sent may still be on its way.
Leaves(e) ==
    /\ at \in {"pump", "close"} /\ e \notin gone
    /\ gone' = gone \cup {e}
    /\ UNCHANGED <<pumpOnly, at, leg, heard, unread, holds>>

-----------------------------------------------------------------------------
Http == Dispatch \/ PullUp \/ Responds \/ PullDown \/ Breaks \/ BreaksReply \/ CallerGoes
Pump == Dial \/ (\E e \in Parties : Takes(e) \/ Misses(e)) \/ Delivers \/ Closes

PassNext == Http \/ Pump \/ \E e \in Parties : Says(e) \/ Reads(e) \/ Leaves(e)

\* The runtime polls the handler and the route's timer fires; of the ends nothing
\* is assumed.
Progress == Dispatch \/ PullUp \/ PullDown \/ Breaks \/ BreaksReply \/ Pump

PassSpec == PassInit /\ [][PassNext]_passVars /\ WF_passVars(Progress)

-----------------------------------------------------------------------------
(* What is checked                                                          *)

PassTypeOK ==
    /\ asked \in Exchanges /\ Cardinality(route) <= 1
    /\ at \in {"match", "send", "reply", "dial", "pump", "close"} \cup Done
    /\ status \in {0, 101, 200, 400, 403, 404, 413, 502}
    /\ \A b \in {up, down} : b.end \in {"open", "whole", "broken"}
    /\ Cardinality(holds) <= 1 /\ gone \subseteq Parties
    /\ \A e \in Parties : unread[e] \in 0..LegRoom /\ Len(leg[e]) <= LegRoom

\* What arrives of a body is what was sent, from its start and within the cap of the
\* route; and the receiver takes it for complete only if nothing of it is missing,
\* whatever cap, error, timeout or early answer ended it (MaxBytesStream, issue #130).
\* Of the body of a GET, HEAD, DELETE or OPTIONS nothing arrives at all, and the upstream
\* may take the request for complete without it (accepts_body).
BodiesAreWhole ==
    /\ down.out \o down.left \in Replies \cup {<<>>}
    /\ ~asked.bodied => up.out = <<>>
    /\ \A r \in route :
      \A b \in {[is |-> up, all |-> IF asked.bodied THEN asked.body ELSE <<>>, max |-> r.maxRequest],
                [is |-> down, all |-> down.out \o down.left, max |-> r.maxResponse]} :
        /\ IsPrefix(b.is.out, b.all)
        /\ b.max > 0 => Sum(b.is.out) <= b.max
        /\ b.is.end = "whole" => b.is.out = b.all

\* A more specific route than s for the same request.
Beats(r, s) ==
    \/ r.host # NoHost /\ s.host = NoHost
    \/ (r.host = NoHost <=> s.host = NoHost) /\ Len(r.prefix) > Len(s.prefix)

\* The upstream is the one of the most specific route of the registry.  Unless the
\* path that the route makes of the caller's has dot segments or no slash, the upstream is
\* asked on that very path, which deny_paths leave open; and it sees the caller's
\* Authorization only on the paths that forward it and the route's key only on all others.
\* It never sees two Authorization headers, unless extra_headers, which an HTTP request
\* appends, name another.
AskedAsConfigured ==
    \A s \in seen : \A r \in route :
      LET judged == Rewritten(r, asked.path)
      IN  /\ \A i \in DOMAIN Providers :
               Matches(Providers[i], asked.host, asked.path) => ~Beats(Providers[i], r)
          /\ s.path # judged => ~IsPrefix(Root, judged) \/ (~Upgrades(r) /\ Dotted(judged))
          /\ s.path = judged =>
               /\ ~Denied(r, s.path)
               /\ Header("authorization", "caller") \in s.headers => Forwards(r, s.path)
               /\ Forwards(r, s.path) => \A h \in s.headers : h.of # "key"
          /\ Upgrades(r) \/ "authorization" \notin r.extra =>
               Cardinality({h \in s.headers : h.name = "authorization"}) <= 1

\* The frames of a sequence that are to be relayed.
NoPings(s) ==
    LET of[n \in 0..Len(s)] == IF n = 0 THEN <<>>
                               ELSE IF s[n] = "ping" THEN of[n - 1]
                               ELSE Append(of[n - 1], s[n])
    IN  of[Len(s)]

\* Each end hears the other's frames in their order, none twice and none left out; and
\* when an end's close frame reaches the other, all it said before has.
FramesInOrder ==
    \A e \in Parties :
      LET waiting == {h.frame : h \in {g \in holds : g.to = Other(e)}}
      IN  \E h \in {<<>>} \cup {<<f>> : f \in waiting} :
            \/ heard[Other(e)] \o h \o NoPings(leg[e]) = NoPings(said[e])
            \/ at \in {"close"} \cup Done /\ IsPrefix(heard[Other(e)], NoPings(said[e]))

\* The pump has no timer: an end that stops reading, its window full, keeps it.
Stuck ==
    \/ \E h \in holds : h.to \notin gone /\ unread[h.to] = LegRoom
    \/ at = "close" /\ \E e \in Parties \ gone : unread[e] = LegRoom

\* An exchange goes on, or a conversation that one end has left or closed.
PassPending == at \in {"send", "reply", "close"} \/ (at = "pump" /\ gone # {})

\* Nothing else does: every exchange ends in an answer, and a conversation that one
\* end has left or closed ends for the other too.
ExchangeEnds == (~ <>[]Stuck) => []<>~PassPending
=============================================================================
