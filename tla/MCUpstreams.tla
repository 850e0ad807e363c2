---------------------------- MODULE MCUpstreams ----------------------------
(***************************************************************************)
(* Instances for TLC of the components through which ATI reaches something *)
(* outside itself: MCP servers, HTTP tools, subprocesses, passthrough      *)
(* upstreams and the remote skills.  They share no state.  A behaviour     *)
(* runs one of them, its `part`, and leaves the variables of the others as *)
(* they start; a configuration names the parts it runs.  What is checked   *)
(* is what the components state.                                           *)
(***************************************************************************)
EXTENDS Passthrough, McpClient, RemoteSkills, HttpTools, CliExecutor

CONSTANT Parts

VARIABLE part

ASSUME McpAssumption /\ HttpAssumption /\ CliAssumption

upstreamVars == <<part, passVars, mcpVars, remoteVars, httpVars, cliVars>>

-----------------------------------------------------------------------------
(* McpClient: two discoveries, whose pages meet the cap of pages and that   *)
(* of tools, or two calls on one worker thread; one of each speaks stdio.   *)
(* One server chatters: that of a call beside another, that of a discovery  *)
(* beside a quiet one or, if it speaks stdio, alone.                        *)

Begin(jobs, noisy) == [jobs |-> jobs, noisy |-> noisy]
McpStarts ==
    {Begin({"d1", "d2"}, {"d2"}), Begin({"d1"}, {"d1"}),
     Begin({"c1", "c2"}, {"c1"}), Begin({"c1", "c2"}, {"c2"})}
PagesOf == [d \in Discoveries |-> IF d = "d1" THEN 1 ELSE 2]

-----------------------------------------------------------------------------
(* RemoteSkills                                                             *)

Key(s, f) == <<s, f>>
IndexKeys == <<Key("_skillati", "catalog.v1.json"), Key("", "skillati-catalog.json")>>
Content(k, v) == [is |-> "file", of |-> k, version |-> v]
IndexOf(skills) == Index(skills, [s \in skills |-> {"a"}])
NoIndex == Content(<<"", "">>, 0)
FileKeys == {"alps", "maps", "route"} \X {"SKILL.md", "a"}

BucketWith(first, second) ==
    [k \in {IndexKeys[1], IndexKeys[2]} \cup FileKeys |->
        IF k = IndexKeys[1] THEN first ELSE IF k = IndexKeys[2] THEN second
        ELSE IF k[1] = "alps" THEN Absent ELSE Content(k, 1)]
Good == IndexOf({"maps", "route"})

Want(kind, skill, sibling, path, by) ==
    [kind |-> kind, skill |-> skill, sibling |-> sibling, path |-> path, by |-> by]
Wants ==
    {Want("catalog", "", "none", "", by) : by \in {"handler", "command"}}
    \cup {Want("read", "maps", "none", "", by) : by \in {"handler", "command"}}
    \cup {Want("resources", "maps", "none", "", by) : by \in {"handler", "command"}}
    \cup {Want("file", "maps", "none", "a", "handler"), Want("file", "maps", "route", "a", "command"),
          Want("file", "maps", "none", "bad", "command"), Want("read", "other", "none", "", "handler")}

SomeBuckets ==
    {BucketWith(Absent, Absent), BucketWith(Good, Absent), BucketWith(NoIndex, Good),
     BucketWith(NoIndex, Absent)}
SomeChanges ==
    {<<Key("maps", "SKILL.md"), Content(Key("maps", "SKILL.md"), 2)>>,
     <<Key("maps", "SKILL.md"), Absent>>, <<Key("route", "SKILL.md"), EmptyFile>>,
     <<Key("route", "SKILL.md"), Absent>>, <<Key("maps", "a"), Content(Key("maps", "a"), 2)>>,
     <<Key("maps", "a"), Absent>>, <<Key("alps", "a"), Content(Key("alps", "a"), 1)>>,
     <<Key("route", "SKILL.md"), Content(Key("route", "SKILL.md"), 1)>>,
     <<IndexKeys[1], Absent>>, <<IndexKeys[1], Good>>, <<IndexKeys[2], IndexOf({"route"})>>}
Folder == <<"_skillati", "alps", "maps", "route">>

-----------------------------------------------------------------------------
(* Passthrough                                                              *)

Provider(name, host, prefix, strip, from, to) ==
    [name |-> name, host |-> host, prefix |-> prefix, strip |-> strip, from |-> from, to |-> to,
     base |-> "no key", deny |-> {}, forward |-> {}, auth |-> "bearer", key |-> "k", extra |-> {},
     sockets |-> FALSE, maxRequest |-> 0, maxResponse |-> 0]
Glob(path, star) == [path |-> path, star |-> star]

\* "/", "/a", "/a/b" ...
Path(segments) == [n \in 1..(2 * Len(segments)) |-> IF n % 2 = 1 THEN "/" ELSE segments[n \div 2]]

RouteProviders ==
    <<[Provider("root", "cc", Root, TRUE, <<>>, <<>>) EXCEPT !.deny = {Glob(Path(<<"config">>), FALSE)}],
      [Provider("llm", "none", Path(<<"llm">>), TRUE, <<"/", "v">>, <<"/", "api", "/", "v">>) EXCEPT
         !.deny = {Glob(Path(<<"config">>), FALSE)}, !.forward = {Glob(Path(<<"api">>), TRUE)},
         !.extra = {"plain"}, !.maxRequest = 2, !.maxResponse = 3],
      [Provider("long", "none", Path(<<"llm", "v1">>), FALSE, <<>>, <<>>) EXCEPT
         !.auth = "query", !.base = "k", !.maxRequest = 3],
      [Provider("host", "bb", <<>>, FALSE, <<>>, <<>>) EXCEPT
         !.sockets = TRUE, !.extra = {"authorization"}, !.deny = {Glob(Path(<<"x">>), TRUE)},
         !.forward = {Glob(Path(<<"llm">>), FALSE)}]>>

Requested(host, segments, bodied, declared, body) ==
    [host |-> host, path |-> Path(segments), headers |-> {"authorization", "plain", "te", "host", "listed"},
     listed |-> {"listed"}, upgrade |-> FALSE, shaken |-> FALSE, bodied |-> bodied,
     declared |-> declared, body |-> body]
Upgrade(host, segments, shaken) ==
    [Requested(host, segments, FALSE, FALSE, <<>>) EXCEPT !.upgrade = TRUE, !.shaken = shaken]

SomeExchanges ==
    {Requested("a", <<"llm", "x">>, TRUE, d, b) : d \in BOOLEAN, b \in {<<1, 1>>, <<2, 1>>, <<>>}}
    \cup {Requested("a", <<"llm", "x">>, FALSE, d, <<1>>) : d \in BOOLEAN}
    \cup {Requested("a", <<"llm", "v1", "x">>, TRUE, FALSE, <<2, 1>>),
          Requested("a", <<"llm", "config", "x">>, FALSE, FALSE, <<>>),
          Requested("a", <<"llm", "x", "..", "config">>, FALSE, FALSE, <<>>),
          Requested("a", <<"llm", "api", ".", "y", "..", "..">>, FALSE, FALSE, <<>>),
          [Requested("a", <<"llm">>, FALSE, FALSE, <<>>) EXCEPT !.path = <<"/", "llm", "/", "v", "2">>],
          Requested("a", <<"llm">>, FALSE, FALSE, <<>>),
          Requested("a", <<"llm", "api", "y">>, TRUE, FALSE, <<1>>),
          Requested("cc", <<"config">>, FALSE, FALSE, <<>>),
          Upgrade("bb", <<"llm", "x">>, TRUE), Upgrade("bb", <<"llm", "..">>, FALSE),
          Upgrade("bb", <<"x", "y">>, TRUE),
          [Upgrade("a", <<"other">>, TRUE) EXCEPT !.bodied = TRUE, !.body = <<1>>]}
ResponseBodies == {<<>>, <<2, 1>>, <<2, 2>>}
SaidInTurn == [caller |-> {"a", "b", "ping", "close"}, upstream |-> {"a", "close"}]

-----------------------------------------------------------------------------
(* HttpTools                                                                *)

Tool(method, located, bad) ==
    [method |-> method, located |-> located, bad |-> bad, default |-> {"limit"},
     in |-> [a \in {"id", "trace", "limit"} |->
               CASE a = "id" -> "path" [] a = "trace" -> "header" [] OTHER -> "query"]]
ToolCall(provider, tool, args) == [provider |-> provider, tool |-> tool, args |-> args]

SomeCalls ==
    {ToolCall("oauth", Tool("POST", TRUE, {}), {"id", "text"}),
     ToolCall("plain", Tool("GET", FALSE, {}), {"text"}),
     ToolCall("plain", Tool("PUT", TRUE, {"trace"}), {"id", "trace"}),
     ToolCall("internal", Tool("PUT", TRUE, {}), {}),
     ToolCall("keyless", Tool("PUT", FALSE, {}), {"id"})}
WithDelete == SomeCalls \cup {ToolCall("plain", Tool("DELETE", TRUE, {}), {"id", "text"})}
AuthOf == [oauth |-> "oauth2", keyless |-> "broken", plain |-> "static", internal |-> "static"]

-----------------------------------------------------------------------------
(* CliExecutor                                                              *)

Token(kind, name, value) == [kind |-> kind, name |-> name, value |-> value]
W(value) == Token("word", "", value)
Out == Token("flag", "--out", "")

SomeCommands ==
    {<<W("shot"), Out, W("a.png"), W("b.png")>>,
     <<Token("inline", "--out", "a.png"), W("shot"), W("page"), W("c.png")>>,
     <<Out, Out, W("shot"), Token("flag", "--wide", ""), Out>>}
Rules == {[prefix |-> <<"shot">>, index |-> 0], [prefix |-> <<"shot", "page">>, index |-> 0]}

-----------------------------------------------------------------------------
(* One part runs, the others stay at one of their initial states.           *)

AtRest ==
    /\ part # "mcp" => /\ \A j \in Jobs : server[j].pages = 1 /\ (server[j].noisy => j = "c1")
                       /\ \A c \in Calls : job[c].at = "new"
    /\ part # "remote" => req = Want("catalog", "", "none", "", "command") /\ via = "gcs"
                          /\ bucket = BucketWith(Absent, Absent)
    /\ part # "pass" => asked = Requested("a", <<"llm">>, FALSE, FALSE, <<>>)
    /\ part # "cli" => wipes

UpstreamsInit ==
    /\ part \in Parts
    /\ PassInit /\ McpInit /\ RemoteInit /\ HttpInit /\ CliInit
    /\ AtRest
    /\ \A j \in Jobs : job[j].at = "never" => server[j].pages = 1
    /\ server["d2"].noisy => server["d1"].pages # 2

Others(v) == UNCHANGED <<part, v>>
McpOnly == Others(<<remoteVars, passVars, httpVars, cliVars>>)
RemoteOnly == Others(<<mcpVars, passVars, httpVars, cliVars>>)
PassOnly == Others(<<mcpVars, remoteVars, httpVars, cliVars>>)
HttpOnly == Others(<<mcpVars, remoteVars, passVars, cliVars>>)
CliOnly == Others(<<mcpVars, remoteVars, passVars, httpVars>>)

UpstreamsNext ==
    \/ part = "mcp" /\ McpNext /\ McpOnly
    \/ part = "remote" /\ RemoteNext /\ RemoteOnly
    \/ part = "pass" /\ PassNext /\ PassOnly
    \/ part = "http" /\ HttpNext /\ HttpOnly
    \/ part = "cli" /\ CliNext /\ CliOnly

\* Each part has the fairness of its component: for each of its jobs or calls, and
\* for what its process does besides.
Polls(j) == part = "mcp" /\ Works(j) /\ McpOnly
Expires(c) == part = "http" /\ CallTimesOut(c) /\ HttpOnly
Proceeds ==
    \/ part = "mcp" /\ Register /\ McpOnly
    \/ part = "http" /\ Tick /\ HttpOnly
    \/ part = "pass" /\ Progress /\ PassOnly

UpstreamsSpec == UpstreamsInit /\ [][UpstreamsNext]_upstreamVars
FairUpstreamsSpec ==
    /\ UpstreamsSpec /\ WF_upstreamVars(Proceeds)
    /\ \A j \in Jobs : WF_upstreamVars(Polls(j))
    /\ \A c \in HttpCalls : WF_upstreamVars(Expires(c))

-----------------------------------------------------------------------------
(* What is checked of several components together.                          *)

AnyHeld ==
    \/ part = "mcp" /\ Held
    \/ part = "pass" /\ Stuck
AnyPending ==
    \/ part = "mcp" /\ McpPending
    \/ part = "pass" /\ PassPending
    \/ part = "http" /\ HttpPending

\* Everything that was begun ends, under the fairness of its component: the
\* discovery that the proxy's start waits for and a call but for a silent
\* subprocess, a passthrough exchange but for an end that stops reading, an
\* HTTP call whatever its servers do.
EverythingEnds == (~ <>[]AnyHeld) => []<>~AnyPending
=============================================================================
