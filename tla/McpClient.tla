------------------------------ MODULE McpClient ------------------------------
(***************************************************************************)
(* The MCP client (src/core/mcp_client.rs): the JSON-RPC conversation with *)
(* one server over stdio or Streamable HTTP, the calls the proxy makes     *)
(* with it and the discovery of every provider's tools that the proxy      *)
(* waits for before it serves (src/proxy/server.rs, `run`).                *)
(*                                                                         *)
(* The stdio transport reads a pipe with the blocking calls of std::io     *)
(* inside async functions: from its spawn to its end a stdio job never     *)
(* yields, so it keeps the thread that polls it.  The discoveries are      *)
(* polled by one task; each call is a task of its own on one of Workers    *)
(* threads.  Servers answer, interleave notifications and requests of      *)
(* their own, repeat an answer, batch, print noise, exit or say nothing;   *)
(* they list nothing where tools were asked for, and answer a POST under   *)
(* the id of another.                                                      *)
(***************************************************************************)
EXTENDS Integers, FiniteSets, Sequences

CONSTANTS
    Calls,              \* tool calls the proxy serves
    Discoveries,        \* the MCP providers found at the start
    Starts,             \* bound: the jobs [jobs] a behaviour has, those [noisy] whose server chatters
    Stdio,              \* the jobs whose server is a subprocess
    Workers,            \* worker threads of the runtime
    Window,             \* discoveries at a time (10 in the code)
    MaxPages, MaxTools, \* caps of a listing (100 and 10 000 in the code)
    PageSize,           \* per discovery, tools on a page of tools/list
    ServerIds,          \* ids the servers give their own requests
    MaxNoise            \* bound: units a server sends that are not what it was asked

Jobs == Calls \cup Discoveries

McpAssumption ==
    /\ Calls \cap Discoveries = {} /\ IsFiniteSet(Jobs)
    /\ Stdio \subseteq Jobs /\ \A s \in Starts : s.jobs \subseteq Jobs /\ s.noisy \subseteq Jobs
    /\ \A n \in {Workers, Window, MaxPages, MaxTools} : n \in Nat \ {0}
    /\ PageSize \in [Discoveries -> Nat \ {0}]
    /\ ServerIds \subseteq Nat /\ MaxNoise \in Nat

VARIABLES
    job,        \* per job: what its future holds
    child,      \* per job: its subprocess
    server,     \* per job: what its server is like and what it has done
    wire,       \* per job: units its server sent that are not read yet
    closed,     \* per job: how its server stopped sending ("no" while it may)
    registered, \* the discoveries whose tools were registered
    serving     \* discover_all_mcp_tools has returned and the proxy serves

mcpVars == <<job, child, server, wire, closed, registered, serving>>

Ended == {"ok", "err", "timeout", "cancelled", "never"}

\* A message is an answer to `id` (an error, a result, a result without the `tools`
\* of tools/list: "bare"), a request of the server's own under `id`, a notification
\* or noise that is no JSON (neither has an id).
\* A unit (a line, an SSE event, a JSON body) is one message, or a batch.
Message(kind, id) == [kind |-> kind, id |-> id]
Noise == <<Message("noise", 0)>>
Results == {"result", "bare"}

McpInit ==
    /\ child = [j \in Jobs |-> "none"]
    /\ \E start \in Starts, pages \in [Discoveries -> 1..MaxPages + 1] :
         /\ job = [j \in Jobs |-> [at |-> IF j \in start.jobs THEN "new" ELSE "never", id |-> 0,
                                  waits |-> FALSE, session |-> FALSE, took |-> Message("none", 0),
                                  page |-> 0, tools |-> 0, good |-> FALSE]]
         /\ server = [j \in Jobs |-> [pages |-> IF j \in Discoveries THEN pages[j] ELSE 1,
                                     noisy |-> j \in start.noisy, owes |-> FALSE, noise |-> 0,
                                     runs |-> 0, bare |-> FALSE, strayed |-> {}]]
    /\ wire = [j \in Jobs |-> <<>>]
    /\ closed = [j \in Jobs |-> "no"]
    /\ registered = {} /\ serving = FALSE

-----------------------------------------------------------------------------
(* The client                                                               *)

Started(j) == job[j].at \notin {"new"} \cup Ended
Running(S) == {j \in S : Started(j)}

\* A thread can poll j: no stdio job keeps it.
CanPoll(j) ==
    IF j \in Discoveries THEN Running(Discoveries \cap Stdio) \subseteq {j}
                         ELSE Cardinality(Running(Calls \cap Stdio) \ {j}) < Workers

\* Mutant: a client that failed leaves its subprocess alone.
EndNoDrop(j, how) ==
    /\ job' = [job EXCEPT ![j].at = how, ![j].waits = FALSE]
    /\ child' = [child EXCEPT ![j] = IF how = "ok" THEN "reaped" ELSE @]
    /\ server' = [server EXCEPT ![j].owes = FALSE]
    /\ wire' = [wire EXCEPT ![j] = <<>>]
    /\ closed' = [closed EXCEPT ![j] = "no"]
    /\ UNCHANGED <<registered, serving>>

\* The future ends.  What it owned is dropped: a subprocess is killed and
\* waited for.
End(j, how) ==
    /\ job' = [job EXCEPT ![j].at = how, ![j].waits = FALSE]
    /\ child' = [child EXCEPT ![j] = IF @ = "none" THEN @ ELSE "reaped"]
    /\ server' = [server EXCEPT ![j].owes = FALSE]
    /\ wire' = [wire EXCEPT ![j] = <<>>]
    /\ closed' = [closed EXCEPT ![j] = "no"]
    /\ UNCHANGED <<registered, serving>>

\* The future goes on as `to`, with `others` left to read of what a subprocess
\* wrote; every HTTP exchange has a body of its own.
GoesOn(j, to, others) ==
    /\ job' = [job EXCEPT ![j] = to]
    /\ server' = [server EXCEPT ![j].owes = to.waits]
    /\ wire' = [wire EXCEPT ![j] = IF j \in Stdio THEN others ELSE <<>>]
    /\ closed' = [closed EXCEPT ![j] = IF j \in Stdio THEN @ ELSE "no"]
    /\ UNCHANGED <<child, registered, serving>>

\* send_request: the next id goes out.  The pipe of a dead process is broken.
Asks(j, to, others) ==
    IF child[j] = "exited"
    THEN End(j, "err")
    ELSE GoesOn(j, [to EXCEPT !.id = @ + 1, !.waits = TRUE], others)

\* connect_with_gen up to the write of initialize.  The spawn may fail.
Connect(j) ==
    /\ job[j].at = "new" /\ CanPoll(j)
    /\ IF j \in Discoveries THEN Cardinality(Running(Discoveries)) < Window ELSE serving
    /\ \/ /\ job' = [job EXCEPT ![j].at = "init", ![j].id = 1, ![j].waits = TRUE]
          /\ server' = [server EXCEPT ![j].owes = TRUE]
          /\ child' = [child EXCEPT ![j] = IF j \in Stdio THEN "runs" ELSE "none"]
          /\ UNCHANGED <<wire, closed, registered, serving>>
       \/ End(j, "err")

\* notifications/initialized: a line, or a POST that waits for its status.
Notify(j) ==
    /\ job[j].at = "note" /\ ~job[j].waits /\ CanPoll(j)
    /\ IF j \in Stdio THEN Asks(j, [job[j] EXCEPT !.at = "work"], wire[j])
                       ELSE GoesOn(j, [job[j] EXCEPT !.waits = TRUE], <<>>)

\* The page that came ends the listing: it exceeds the cap of tools, the loop
\* asks for no more, or there is no nextCursor.
LastPage(j) ==
    \/ job[j].tools + PageSize[j] > MaxTools
    \/ job[j].page + 1 = MaxPages
    \/ job[j].page + 1 >= server[j].pages

\* Mutant: a listing that fails keeps the pages it has.
FailsSoftly(j, others) ==
    IF job[j].at = "work" /\ j \in Discoveries
    THEN GoesOn(j, [job[j] EXCEPT !.at = "bye", !.waits = FALSE,
                                  !.good = job[j].page > 0], others)
    ELSE End(j, "err")

\* Mutant: a call that fails is asked once more.
FailsTwice(j, others) ==
    IF job[j].at = "work" /\ job[j].id = 2 /\ j \in Calls
    THEN Asks(j, job[j], others)
    ELSE End(j, "err")

\* A request failed.  A listing still disconnects; any other drops the client.
Fails(j, others) ==
    IF job[j].at = "work" /\ j \in Discoveries
    THEN GoesOn(j, [job[j] EXCEPT !.at = "bye", !.waits = FALSE], others)
    ELSE End(j, "err")

\* The message m was taken for the answer.  The handshake goes on if the server
\* has tools, a listing if there is another page.  A result without the fields of
\* its method fails as an error does; but one without `tools` is a page of none, with
\* or without a nextCursor.
TakeResult(j, m, others) ==
    LET s == [job[j] EXCEPT !.took = m, !.waits = FALSE]
        lists == s.at = "work" /\ j \in Discoveries
        all   == IF m.kind = "bare" THEN s.tools ELSE s.tools + PageSize[j]
        more  == [s EXCEPT !.page = @ + 1, !.tools = IF all > MaxTools THEN MaxTools ELSE all]
    IN  CASE m.kind \notin (IF lists THEN Results ELSE {"result"}) -> Fails(j, others)
          [] m.kind = "result" /\ s.at = "init" ->
               \/ \E has \in {FALSE, j \notin Stdio} :
                    GoesOn(j, [s EXCEPT !.at = "note", !.session = has], others)
               \/ End(j, "err")        \* NoToolsCapability
          [] m.kind = "result" /\ s.at = "work" /\ j \in Calls ->
               GoesOn(j, [s EXCEPT !.at = "bye", !.good = TRUE], others)
          [] m.kind \in Results /\ lists ->
               \/ /\ m.kind = "bare" \/ LastPage(j)
                  /\ GoesOn(j, [more EXCEPT !.at = "bye", !.good = TRUE], others)
               \/ /\ IF m.kind = "bare" THEN s.page + 1 < MaxPages ELSE ~LastPage(j)
                  /\ Asks(j, more, others)

\* Mutant: the next answer is taken for ours.
AnyAnswer(unit, id) == Len(unit) = 1 /\ unit[1].kind \in {"result", "error"}

\* send_stdio_request: the line is an object with our id (a batch has none).
IsOurs(unit, id) == Len(unit) = 1 /\ unit[1].id = id

\* send_stdio_request reads one line.  Noise fails it; what is not ours is skipped.
ReadLine(j) ==
    /\ j \in Stdio /\ job[j].waits /\ wire[j] # <<>> /\ CanPoll(j)
    /\ LET unit == Head(wire[j])
           others == Tail(wire[j])
       IN  IF unit = Noise THEN Fails(j, others)
           ELSE IF IsOurs(unit, job[j].id) THEN TakeResult(j, unit[1], others)
           ELSE /\ wire' = [wire EXCEPT ![j] = others]
                /\ UNCHANGED <<job, child, server, closed, registered, serving>>

\* ProcessExited
ReadEof(j) ==
    /\ j \in Stdio /\ job[j].waits /\ wire[j] = <<>> /\ closed[j] = "eof" /\ CanPoll(j)
    /\ Fails(j, <<>>)

\* parse_sse_response and process_sse_data: where the first message with our id is,
\* in whatever event or batch; noise is skipped.
Places(units) == UNION {{i} \X DOMAIN units[i] : i \in DOMAIN units}
At(units, p) == units[p[1]][p[2]]
InStream(units, id) ==
    {p \in Places(units) :
        /\ At(units, p).id = id
        /\ \A q \in Places(units) :
             q[1] < p[1] \/ (q[1] = p[1] /\ q[2] < p[2]) => At(units, q).id # id}

\* send_http_request, send_notification, disconnect: the response is here.
Receive(j) ==
    /\ j \notin Stdio /\ job[j].waits /\ closed[j] # "no" /\ CanPoll(j)
    /\ CASE job[j].at = "bye" -> End(j, IF job[j].good THEN "ok" ELSE "err")
         [] job[j].at # "bye" /\ closed[j] = "refused" -> Fails(j, <<>>)
         [] job[j].at = "note" /\ closed[j] # "refused" ->
              Asks(j, [job[j] EXCEPT !.at = "work"], <<>>)
         [] job[j].at \in {"init", "work"} /\ closed[j] = "sse" ->
              LET ours == InStream(wire[j], job[j].id)
              IN  IF ours = {} THEN Fails(j, <<>>)
                  ELSE \E p \in ours : TakeResult(j, At(wire[j], p), <<>>)
         [] job[j].at \in {"init", "work"} /\ closed[j] = "json" ->
              IF Len(wire[j]) # 1 \/ Len(wire[j][1]) # 1 THEN Fails(j, <<>>)
              ELSE TakeResult(j, wire[j][1][1], <<>>)

\* The 300 s of the HTTP client; disconnect ignores what its DELETE returns.
RequestTimesOut(j) ==
    /\ j \notin Stdio /\ job[j].waits /\ CanPoll(j)
    /\ IF job[j].at = "bye" THEN End(j, IF job[j].good THEN "ok" ELSE "err")
                            ELSE Fails(j, <<>>)

\* disconnect: a DELETE for a session, or the end of the subprocess.
Disconnect(j) ==
    /\ job[j].at = "bye" /\ ~job[j].waits /\ CanPoll(j)
    /\ IF job[j].session THEN GoesOn(j, [job[j] EXCEPT !.waits = TRUE], <<>>)
                         ELSE End(j, IF job[j].good THEN "ok" ELSE "err")

\* The 30 s of a discovery.  A stdio one never yields to the timer.
TimesOut(d) ==
    /\ d \in Discoveries \ Stdio /\ Started(d) /\ CanPoll(d)
    /\ End(d, "timeout")

\* The sandbox closes its connection and the handler's future is dropped.
Cancel(c) ==
    /\ c \in Calls \ Stdio /\ Started(c) /\ job[c].waits /\ CanPoll(c)
    /\ End(c, "cancelled")

\* discover_all_mcp_tools returns when every discovery has ended.
Register ==
    /\ ~serving
    /\ \A d \in Discoveries : job[d].at \in Ended
    /\ registered' = {d \in Discoveries : job[d].at = "ok"}
    /\ serving' = TRUE
    /\ UNCHANGED <<job, child, server, wire, closed>>

-----------------------------------------------------------------------------
(* The servers                                                              *)

Chatters(j) == server[j].noisy /\ server[j].noise < MaxNoise
Sends(j, unit) == wire' = [wire EXCEPT ![j] = Append(@, unit)]

\* The answer that is owed, which for a call means that the tool has run.
AnswersRequest(j) ==
    /\ server[j].owes /\ closed[j] = "no" /\ job[j].at \in {"init", "work"}
    /\ \E kind \in Results \cup {"error"} :
         /\ kind = "bare" => j \in Discoveries /\ job[j].at = "work" /\ Chatters(j)
         /\ \E unit \in {<<Message(kind, job[j].id)>>,
                        <<Message("note", 0), Message(kind, job[j].id)>>} :
              Sends(j, unit)
         /\ server' = [server EXCEPT ![j].owes = FALSE, ![j].bare = @ \/ kind = "bare",
                          ![j].noise = IF kind = "bare" THEN @ + 1 ELSE @,
                          ![j].runs = IF j \in Calls /\ job[j].at = "work" THEN @ + 1 ELSE @]
    /\ IF j \in Stdio THEN UNCHANGED closed
       ELSE closed' \in {[closed EXCEPT ![j] = form] :
                           form \in {"sse"} \cup (IF wire[j] = <<>> THEN {"json"} ELSE {})}
    /\ UNCHANGED <<job, child, registered, serving>>

\* An answer to something else, or to nothing (0), as the JSON body of the response to
\* our POST; the tool of a call has run or not.  Nobody compares its id.
Strays(j) ==
    /\ j \notin Stdio /\ server[j].owes /\ closed[j] = "no" /\ job[j].at \in {"init", "work"}
    /\ wire[j] = <<>> /\ Chatters(j)
    /\ \E kind \in Results, id \in 0..job[j].id - 1,
          ran \in IF j \in Calls /\ job[j].at = "work" THEN {0, 1} ELSE {0} :
         /\ kind = "bare" => j \in Discoveries /\ job[j].at = "work"
         /\ Sends(j, <<Message(kind, id)>>)
         /\ server' = [server EXCEPT ![j].owes = FALSE, ![j].bare = @ \/ kind = "bare",
                          ![j].noise = @ + 1, ![j].runs = @ + ran,
                          ![j].strayed = @ \cup {job[j].id}]
    /\ closed' = [closed EXCEPT ![j] = "json"]
    /\ UNCHANGED <<job, child, registered, serving>>

\* An HTTP response without an answer: a status, or a stream cut short.
RespondsTo(j) ==
    /\ j \notin Stdio /\ server[j].owes /\ closed[j] = "no"
    /\ \E form \in {"sse", "refused"} : closed' = [closed EXCEPT ![j] = form]
    /\ server' = [server EXCEPT ![j].owes = FALSE]
    /\ UNCHANGED <<job, child, wire, registered, serving>>

\* Whatever else a server sends: a notification, noise, a request of its own,
\* an answer it has sent before.
Chatter(j) ==
    /\ Chatters(j) /\ closed[j] = "no" /\ job[j].at \in {"init", "work"}
    /\ IF j \in Stdio THEN child[j] = "runs" ELSE server[j].owes
    /\ \/ Sends(j, <<Message("note", 0)>>)
       \/ Sends(j, Noise)
       \/ \E id \in ServerIds : Sends(j, <<Message("request", id)>>)
       \/ \E id \in 1..job[j].id :
             /\ id = job[j].id => ~server[j].owes
             /\ Sends(j, <<Message("result", id)>>)
    /\ server' = [server EXCEPT ![j].noise = @ + 1]
    /\ UNCHANGED <<job, child, closed, registered, serving>>

Exits(j) ==
    /\ child[j] = "runs" /\ Started(j)
    /\ child' = [child EXCEPT ![j] = "exited"]
    /\ closed' = [closed EXCEPT ![j] = "eof"]
    /\ server' = [server EXCEPT ![j].owes = FALSE]
    /\ UNCHANGED <<job, wire, registered, serving>>

-----------------------------------------------------------------------------
Works(j) ==
    \/ Connect(j) \/ Notify(j) \/ Disconnect(j)
    \/ ReadLine(j) \/ ReadEof(j) \/ Receive(j) \/ RequestTimesOut(j)

Serve(j) == AnswersRequest(j) \/ Strays(j) \/ RespondsTo(j) \/ Chatter(j) \/ Exits(j)

McpNext ==
    \/ \E j \in Jobs : Works(j) \/ Serve(j)
    \/ \E d \in Discoveries : TimesOut(d)
    \/ \E c \in Calls : Cancel(c)
    \/ Register

McpSpec == McpInit /\ [][McpNext]_mcpVars

\* The runtime polls what is ready and its timers fire.  Nothing is assumed of the
\* servers.
FairMcpSpec ==
    /\ McpSpec
    /\ \A j \in Jobs : WF_mcpVars(Works(j))
    /\ WF_mcpVars(Register)

-----------------------------------------------------------------------------
(* What is checked                                                          *)

\* Every variable keeps its type, and the loop of list_tools keeps its caps.
McpTypeOK ==
    /\ \A j \in Jobs :
         /\ job[j].at \in {"new", "init", "note", "work", "bye"} \cup Ended
         /\ job[j].id \in 0..MaxPages + 1 /\ job[j].page \in 0..MaxPages
         /\ job[j].tools \in 0..MaxTools
         /\ job[j].waits \in BOOLEAN /\ job[j].session \in BOOLEAN /\ job[j].good \in BOOLEAN
         /\ server[j].noise \in 0..MaxNoise /\ server[j].owes \in BOOLEAN
         /\ Len(wire[j]) <= MaxNoise + MaxPages + 1
    /\ child \in [Jobs -> {"none", "runs", "exited", "reaped"}]
    /\ closed \in [Jobs -> {"no", "eof", "sse", "json", "refused"}]
    /\ registered \subseteq Discoveries /\ serving \in BOOLEAN

\* The id of the last request that was answered, if the job goes well.
Answered(j) == IF job[j].at = "work" THEN job[j].id - 1 ELSE job[j].id

\* What send_request returned as the result of a request is the server's result
\* for that request, whatever the server sent before, between or twice.  Only where
\* the server answered that very POST with another's result as its JSON body, the
\* result is another's: extract_jsonrpc_result does not look at the id.
OwnAnswer ==
    \A j \in Jobs :
       \/ job[j].at \in {"note", "work"}
       \/ job[j].at \in {"bye", "ok"} /\ job[j].good
       => /\ job[j].took.kind \in Results
          /\ job[j].took.id = Answered(j) \/ Answered(j) \in server[j].strayed

\* A tool runs at most once for a call, failed, cancelled and timed-out ones
\* included, and it has run when execute_with_gen returns its result (unless that
\* result is another's).
RunsOnce ==
    \A c \in Calls :
       /\ server[c].runs <= 1
       /\ job[c].at = "ok" => server[c].runs = 1 \/ job[c].id \in server[c].strayed

\* The tools that the server's pages hold, as far as the caps let them in.
WholeListing(d) ==
    LET pages == IF server[d].pages > MaxPages THEN MaxPages ELSE server[d].pages
    IN  IF pages * PageSize[d] > MaxTools THEN MaxTools ELSE pages * PageSize[d]

\* discover_all_mcp_tools registers all the tools of a provider or none: a page
\* that failed, a timeout or a dead server leaves no part of a listing behind.  A part
\* is registered only where the server said that it was all: with a result without
\* `tools`, or with another's.
RegisteredAreWhole ==
    \A d \in registered :
       job[d].tools = WholeListing(d) \/ server[d].bare \/ server[d].strayed # {}

\* `impl Drop for StdioTransport`: no subprocess outlives its client, and none
\* is left a zombie.
NoOrphans ==
    \A j \in Stdio : job[j].at \in Ended => child[j] \in {"none", "reaped"}

\* discover_all_mcp_tools ends within its 30-second timeouts, so the proxy comes
\* to serve.
ProxyServes == <>serving

\* A subprocess that is alive and does not answer holds the thread that reads it.
Silent(j) == j \in Stdio /\ job[j].waits /\ child[j] = "runs"
Held == \E j \in Jobs : Silent(j)

\* The proxy is not serving yet, or a call that execute_with_gen began goes on.
McpPending == ~serving \/ \E c \in Calls : Started(c)

=============================================================================
