------------------------------ MODULE MCAtiHome ------------------------------
EXTENDS AtiHome, TLC
MCSymmetry == Permutations(Procs)
MCOrder == <<"maps", "route">>
MCCatalog == [n \in {"maps", "route"} |-> IF n = "maps" THEN <<[skill |-> "route", url |-> "u"]>> ELSE <<>>]
\* The second version of one repository has a skill.toml that claims another for its source;
\* that other one has no text and names the first, without a hash.
MCShips(u, v) ==
    [f \in IF u = "here" THEN {"toml"} ELSE IF v = 1 THEN {"md", "bundle"} ELSE {"md", "toml"} |->
        CASE f = "md" -> Text(u, v) [] f = "bundle" -> Manifest("maps", "http")
          [] u = "here" -> Toml("maps", NoHash, "u", NoPin)
          [] OTHER -> Toml("maps", Hash(Text(u, v)), "here", NoPin)]
MCMaxVersion == [u \in Urls |-> IF u = "here" THEN 1 ELSE 2]
C(do, on, with) == [do |-> do, on |-> on, with |-> with]
Full == [transport |-> "stdio", url |-> FALSE, command |-> TRUE, auth |-> "none", key |-> FALSE,
         env |-> TRUE, save |-> FALSE]
MCCommands ==
    {C("add-mcp", "maps", Full), C("import-openapi", "maps", [dryRun |-> FALSE]), C("load mcp", "maps", Full),
     C("unload", "maps", NoData), C("remove", "maps", NoData), C("list", "", NoData),
     C("install-skills", "maps", NoData), C("skill install", "route", [url |-> "u", pin |-> NoPin]),
     C("skill install", "route", [url |-> "u", pin |-> 1]), C("skill install", "route", [url |-> "u", pin |-> 2]), C("skill from git", "route", [url |-> "u"]),
     C("skill copy", "route", [url |-> "here"]),
     C("skill install", "route", [url |-> "here", pin |-> NoPin]),
     C("skill update", "route", [force |-> FALSE]), C("skill remove", "route", NoData), C("skill init", "route", [bindings |-> TRUE]),
     C("init", "", [proxy |-> TRUE, es256 |-> TRUE]), C("key set", "k", NoData), C("key set", "l", NoData), C("key remove", "k", NoData)}
=============================================================================
