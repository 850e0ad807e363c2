------------------------------ MODULE MCStores ------------------------------
(***************************************************************************)
(* Instances for TLC of the components that keep something for the calls   *)
(* that come: the rate file, the credential cache, the keyring, the local  *)
(* skills, the control plane's tables and its envelopes.  They share no    *)
(* state.  A behaviour runs one of them, its `part`, and leaves the        *)
(* variables of the others as they start; a configuration names the parts  *)
(* it runs.  What is checked is what the components state.                 *)
(***************************************************************************)
EXTENDS AuthGenCache, RateLimiter, KeyringRotation, LocalSkills, ControlPlane, Envelope, TLC

CONSTANT Parts

VARIABLE part

ASSUME /\ RateLimiterAssumption /\ RotationAssumption /\ LocalSkillsAssumption /\ OnePerName
       /\ ControlPlaneAssumption /\ EnvelopeAssumption

storeVars == <<part, authVars, rateVars, ringVars, skillsVars, controlVars, envelopeVars>>

-----------------------------------------------------------------------------
(* RateLimiter: `any` is "tool:*", `narrow` is "tool:github:*".             *)

ToolMatches == [t \in Tools |-> IF t = "github" THEN {"any", "narrow"} ELSE {"any"}]
SomeLimits == [s \in Subjects |-> "any" :> [count |-> 2, window |-> 2]
                               @@ "narrow" :> [count |-> 1, window |-> 2]]

-----------------------------------------------------------------------------
(* AuthGenCache                                                             *)

SomeTtl == "cached" :> 2 @@ "uncached" :> 0

By(p, t, b) == [provider |-> p, sub |-> "s1", token |-> t, box |-> b]

\* Two sandboxes of one sub; each presents a JWT of its own.
JwtRequests == {By("cached", "t1", "b1"), By("cached", "t2", "b2"), By("uncached", "t1", "b1")}

\* Two sandboxes of one sub; each presents an Ati-Key of its own.
AtiKeyRequests == {By("cached", NoToken, "b1"), By("cached", NoToken, "b2")}

-----------------------------------------------------------------------------
(* LocalSkills: a skill that two directories carry, a cycle of              *)
(* dependencies, a tool that no manifest has, an internal tool.             *)

SkillNames == {"a", "b", "c"}
Directories == {"d1", "d2", "d3"}
Meta(name, tools, providers, categories, deps) ==
    [name |-> name, tools |-> tools, providers |-> providers, categories |-> categories,
     deps |-> deps, dir |-> ""]
SkillIn(meta) == [is |-> "skill", meta |-> meta, version |-> 1]
FirstMetas ==
    {Meta("a", {"maps:route"}, {}, {}, {"b"}), Meta("a", {}, {"maps"}, {}, {}),
     Meta("b", {}, {}, {"travel"}, {"c"}), Meta("b", {"absent"}, {"misc"}, {}, {"c", "a"}),
     Meta("c", {}, {}, {}, {"a"}), Meta("c", {"_llm"}, {"mail"}, {}, {})}
Named(name) == {SkillIn(meta) : meta \in {n \in FirstMetas : n.name = name}}
FirstLayouts ==
    {[d \in Directories |-> CASE d = "d1" -> x [] d = "d2" -> y [] OTHER -> z] :
       x \in UNION {Named(n) : n \in SkillNames}, y \in Named("b") \cup {Bare}, z \in Named("c") \cup {Gone}}

Manifest(name, alias, provider, category, scope, internal) ==
    [name |-> name, alias |-> alias, provider |-> provider, category |-> category,
     scope |-> scope, internal |-> internal]
OnSkill(s) == [is |-> "skill", on |-> s]
OnTool(t) == [is |-> "tool", on |-> t]
AnyScopes ==
    {<<>>, <<All>>, <<OnSkill("a")>>, <<OnTool("maps_route"), OnSkill("c")>>,
     <<[is |-> "provider tools", on |-> "mail"], OnTool("absent")>>, <<OnTool("_llm")>>,
     <<OnTool("maps:route"), All>>, <<OnTool("mail:send"), OnTool("maps:route")>>}
Question(by, kind, names, from, scopes) ==
    [by |-> by, kind |-> kind, names |-> names, caller |-> from, scopes |-> scopes]
Questions ==
    {Question(by, kind, <<"maps:route">>, c, <<>>) :
        by \in {"proxy", "command"}, kind \in {"list", "search"}, c \in {<<OnSkill("a")>>, <<All>>}}
    \cup {Question("proxy", "resolve", <<>>, <<OnSkill("a")>>, s) : s \in AnyScopes}
    \cup {Question("command", "resolve", <<>>, <<All>>, s) :
        s \in AnyScopes \cup {<<OnTool("maps:route"), OnSkill("c"), Lapsed>>}}
    \cup {Question(by, "detail", <<"a">>, c, <<>>) :
        by \in {"proxy", "command"}, c \in {<<OnTool("maps_route")>>, <<OnTool("maps_route"), Lapsed>>, <<All>>}}
    \cup {Question("proxy", "batch", b, <<OnTool("maps:route")>>, <<>>) :
        b \in {<<"a", "b">>, <<"a", "b", "c">>}}
    \cup {Question("proxy", "bundle", <<"b">>, <<OnTool("maps:route")>>, <<>>),
          Question("command", "read", <<"maps:route">>, <<OnSkill("b")>>, <<>>)}

SomeTools ==
    {Manifest("maps:route", "maps_route", "maps", "travel", "maps:route", FALSE),
     Manifest("echo", "echo", "misc", "no category", "no scope", FALSE),
     Manifest("_llm", "_llm", "llm", "travel", "_llm", TRUE),
     Manifest("mail:send", "mail_send", "mail", "office", "mail:send", FALSE)}
SomeEdits ==
    {<<"d1", Gone>>, <<"d2", Gone>>, <<"d2", Bare>>,
     <<"d1", [SkillIn(Meta("c", {}, {}, {}, {"a"})) EXCEPT !.version = 2]>>}
SkillDirs == <<"d1", "d2", "d3">>

-----------------------------------------------------------------------------
(* ControlPlane: two proxies whose disks carry two versions of a manifest,  *)
(* as in a rolling deployment, and one that the table refuses by its name.  *)

TomlOf == [p \in Proxies |-> [n \in ProviderNames |-> p]]

-----------------------------------------------------------------------------
(* One part runs, the others stay at one of their initial states.           *)

AtRest ==
    /\ part # "ring" => drawn = 0
    /\ part # "skills" => req = Question("command", "resolve", <<>>, <<All>>, <<>>)
                          /\ dirs = CHOOSE layout \in FirstLayouts : TRUE
    /\ part # "envelope" => env.bare = "k1"

StoresInit ==
    /\ part \in Parts
    /\ AuthInit /\ RateInit /\ RingInit /\ SkillsInit /\ ControlInit /\ EnvelopeInit
    /\ AtRest

Others(v) == UNCHANGED <<part, v>>
AuthGenOnly == Others(<<rateVars, ringVars, skillsVars, controlVars, envelopeVars>>)
RingOnly == Others(<<authVars, rateVars, skillsVars, controlVars, envelopeVars>>)

StoresNext ==
    \/ part = "authgen" /\ AuthNext /\ AuthGenOnly
    \/ part = "rate" /\ RateNext
       /\ Others(<<authVars, ringVars, skillsVars, controlVars, envelopeVars>>)
    \/ part = "ring" /\ RingNext /\ RingOnly
    \/ part = "skills" /\ SkillsNext
       /\ Others(<<authVars, rateVars, ringVars, controlVars, envelopeVars>>)
    \/ part = "control" /\ ControlNext
       /\ Others(<<authVars, rateVars, ringVars, skillsVars, envelopeVars>>)
    \/ part = "envelope" /\ EnvelopeNext
       /\ Others(<<authVars, rateVars, ringVars, skillsVars, controlVars>>)

\* Each part has the fairness of its component.
Proceeds == \/ part = "authgen" /\ TimePasses /\ AuthGenOnly
            \/ part = "ring" /\ (ReloadBegin \/ ReloadEnd) /\ RingOnly
Expires(c) == part = "authgen" /\ TimesOut(c) /\ AuthGenOnly

StoresSpec == StoresInit /\ [][StoresNext]_storeVars
FairStoresSpec ==
    StoresSpec /\ WF_storeVars(Proceeds) /\ \A c \in Callers : WF_storeVars(Expires(c))

-----------------------------------------------------------------------------
(* What is checked of two components together.                              *)

Outstanding(c) ==
    \/ part = "authgen" /\ step[c] = "running"
    \/ part = "ring" /\ Outdated

\* No credential generator holds a tool call for ever, and a serving proxy that
\* was signalled comes to verify with the secret on disk.
WorkSettles == \A c \in Callers : []<>~Outstanding(c)
=============================================================================
