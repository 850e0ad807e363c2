----------------------------- MODULE MCGateway -----------------------------
(* An instance of Gateway for TLC. *)
EXTENDS Gateway, TLC

CONSTANTS jwt1, key1, search, read, upload, url1, url2, old, new, s1, s2

\* `search` is an HTTP tool with a scope, `read` an MCP tool whose server the
\* sandbox names, `upload` a file_manager tool without a scope.
MCHandler == search :> "http" @@ read :> "mcp" @@ upload :> "file_manager"
MCExpiry == jwt1 :> 0
MCGrants == jwt1 :> {search, upload} @@ key1 :> {read}
MCLimits == jwt1 :> ({search, read, upload} \X {FALSE})

By(route, tool, cred, who, sec, url) ==
    [route |-> route, tool |-> tool, alias |-> FALSE, cred |-> cred, who |-> who,
     secret |-> sec, skew |-> 0, url |-> url]

Bearer(route, tool, url) == By(route, tool, "bearer", jwt1, old, url)
Keyed(route, tool, url)  == By(route, tool, "key", key1, new, url)

\* One slot takes them all, the other what races with them for url1 and for the log.
MCRequests ==
    s1 :> { Bearer("call", search, None),
            [Bearer("call", search, None) EXCEPT !.alias = TRUE, !.skew = 2],
            Bearer("call", upload, url1),
            Bearer("mcp", search, None),
            Bearer("call", read, url1),
            Keyed("mcp", read, url1),
            Keyed("info", read, url1),
            Keyed("info", read, url2),
            By("raw", None, "none", NoOne, new, None),
            By("call", upload, "none", NoOne, None, None) }
    @@ s2 :> { By("info", read, "none", NoOne, None, url1),
               By("call", upload, "none", NoOne, None, None) }

\* Bounds of this instance: requests race with one another, with time, keys, reloads and
\* discoveries, while the log takes its rows; or two calls meet at a log that may fail.
LogTakesRows == ~remnant /\ (\A s \in Slots : ~spoilt[s]) /\ req[s2].route # "call"
RestIsQuiet ==
    /\ now = 0 /\ secret = old /\ state[key1] = "new" /\ \A u \in Urls : schemas[u] = None
    /\ \A s \in Slots : req[s] \in {Blank, By("call", upload, "none", NoOne, None, None)}

MCNext == Next /\ (LogTakesRows \/ RestIsQuiet)'
MCSpec == Init /\ [][MCNext]_vars

=============================================================================
