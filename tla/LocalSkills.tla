------------------------------ MODULE LocalSkills ------------------------------
(***************************************************************************)
(* The skills of one machine: the registry that the proxy loads when it    *)
(* starts and a command when it runs (core/skill.rs), which of them a      *)
(* caller's scopes lead to (core/scope.rs, resolve_skills), and what a     *)
(* request answers with: a handler /skills... (proxy/server.rs) or a       *)
(* reading command of `ati skill` (cli/skills.rs).  The registry stays as  *)
(* it was loaded, while files are read when they are asked for.            *)
(***************************************************************************)
EXTENDS Integers, Sequences

CONSTANTS
    Dirs,          \* directories under skills/, in the order they are read
    ManifestTools, \* tools of the manifests: [name, alias, provider, category, scope, internal]
    Layouts,       \* what the directories may hold when the registry is loaded
    Edits,         \* what a directory may hold later: pairs of directory and content
    Asked,         \* requests: [by, kind, names, caller, scopes]
    MaxBatch,      \* names in one batch
    MaxEdits       \* bound on the changes during a request

DirSet == {Dirs[i] : i \in DOMAIN Dirs}
Contents == {e[2] : e \in Edits} \cup UNION {{l[d] : d \in DirSet} : l \in Layouts}
Elements(q) == {q[i] : i \in DOMAIN q}
IsSequence(q) == q \in Seq(Elements(q))

VARIABLES
    dirs,     \* the content of each directory
    registry, \* the skills as loaded
    req,      \* the request
    pass,     \* how far the resolution is
    next,     \* position in the current pass
    resolved, \* indices in registry, in the order they were found
    todo,     \* names whose files are still to be read
    got,      \* texts read, by name
    answer,   \* status, names and texts
    edits,    \* how many changes there were
    texts     \* history: what each directory held at some moment since the loading

skillsVars == <<dirs, registry, req, pass, next, resolved, todo, got, answer, edits, texts>>

Gone == [is |-> "gone"]
Bare == [is |-> "bare"]           \* neither skill.toml nor SKILL.md
NoText == [is |-> "no text"]
Text(d, version) == [is |-> "text", dir |-> d, version |-> version]

(* Scopes.  A pattern is a whole name, a provider's tools, or all; "tool:github_x" may stand for   *)
(* "tool:github:x".  Lapsed is among the scopes of a caller whose token is past its expiry and    *)
(* still within the leeway that lets it in (jwt.rs:152).                                          *)
All == [is |-> "all"]
Lapsed == [is |-> "lapsed"]
SkillScope(s) == [is |-> "skill", on |-> s]
NoScope == "no scope"
NoCategory == "no category"

LocalSkillsAssumption ==
    /\ Dirs \in Seq(DirSet) /\ MaxEdits \in Nat
    /\ Layouts \subseteq [DirSet -> Contents]
    /\ \A e \in Edits : e[1] \in DirSet
    /\ \A c \in Contents : c.is = "skill" => "dir" \in DOMAIN c.meta
    /\ \A r \in Asked : IsSequence(r.caller) /\ IsSequence(r.scopes)
    /\ \A r \in Asked : \A s \in Elements(r.caller) \cup Elements(r.scopes) :
         s.is = "skill" => s = SkillScope(s.on)

\* A name is one tool's, and all tools of a provider have the category that its manifest names.
OnePerName ==
    \A t, u \in ManifestTools : /\ t.name = u.name => t = u
                                /\ t.provider = u.provider => t.category = u.category

MatchesWildcard(t, s) ==
    CASE s.is = "all"            -> TRUE
      [] s.is = "tool"           -> s.on \in {t.scope, t.alias}
      [] s.is = "provider tools" -> s.on = t.provider
      [] OTHER                   -> FALSE
IsWildcard(scopes) == All \in Elements(scopes)
IsAllowed(t, scopes) ==
    Lapsed \notin Elements(scopes) /\ \E s \in Elements(scopes) : MatchesWildcard(t, s)
PublicTools == {t \in ManifestTools : ~t.internal}
FilterToolsByScope(scopes) ==
    IF IsWildcard(scopes) THEN PublicTools
    ELSE {t \in PublicTools : t.scope = NoScope \/ IsAllowed(t, scopes)}

(* The registry: a directory without either file fails it as a whole, and the proxy starts with    *)
(* an empty one; a name that two directories carry is the last one's.                              *)
Loads(d) == \A x \in DirSet : d[x] # Bare
Loaded(d) ==
    LET SkillsTo[i \in 0..Len(Dirs)] ==
            IF i = 0 THEN <<>>
            ELSE IF d[Dirs[i]].is = "skill" THEN Append(SkillsTo[i - 1], [d[Dirs[i]].meta EXCEPT !.dir = Dirs[i]])
            ELSE SkillsTo[i - 1]
    IN  SkillsTo[Len(Dirs)]
Load(d) == IF Loads(d) THEN Loaded(d) ELSE <<>>

Names == {registry[i].name : i \in DOMAIN registry}
NameIndex(n) == CHOOSE i \in DOMAIN registry :
    registry[i].name = n /\ \A j \in DOMAIN registry : registry[j].name = n => j <= i
ByName(n) == IF n \in Names THEN {NameIndex(n)} ELSE {}
ByTool(t) == {i \in DOMAIN registry : t \in registry[i].tools}
ByProvider(p) == {i \in DOMAIN registry : p \in registry[i].providers}
ByCategory(c) == {i \in DOMAIN registry : c # NoCategory /\ c \in registry[i].categories}
ByProviderOf(t) == ByProvider(t.provider) \cup ByCategory(t.category)

(* What one scope leads to: its skill; the skills of its tool, which no manifest need know; and    *)
(* those of the provider and the category of the tool, if one does.                                *)
Direct(s) ==
    CASE s.is = "skill" -> ByName(s.on)
      [] s.is = "tool"  -> ByTool(s.on) \cup UNION {ByProviderOf(t) : t \in {u \in ManifestTools : u.name = s.on}}
      [] OTHER          -> {}
Through(scopes) ==
    IF IsWildcard(scopes) THEN {}
    ELSE UNION {ByTool(t.name) \cup ByProviderOf(t) : t \in FilterToolsByScope(scopes)}
DependsOn(i) == UNION {ByName(n) : n \in registry[i].deps}

Seeds(scopes) == (UNION {Direct(scopes[i]) : i \in DOMAIN scopes}) \cup Through(scopes)
Reach(seeds) ==
    LET Step[n \in 0..Len(registry)] ==
            IF n = 0 THEN seeds ELSE Step[n - 1] \cup UNION {DependsOn(i) : i \in Step[n - 1]}
    IN  Step[Len(registry)]
\* The members of a set of positions, or of names of skills, in every order.
Distinct(q) == \A i, j \in DOMAIN q : q[i] = q[j] => i = j
Orders(S) == {q \in UNION {[1..n -> S] : n \in 0..Len(registry)} : Elements(q) = S /\ Distinct(q)}

NamesOf(indices) == {registry[i].name : i \in indices}
VisibleTo(scopes) == NamesOf(IF IsWildcard(scopes) THEN DOMAIN registry ELSE Reach(Seeds(scopes)))

\* A catalogue of another place knows no dependencies, and goes by the public tools alone.
VisibleRemote(scopes, catalog) ==
    LET tools == FilterToolsByScope(scopes)
        providers == {t.provider : t \in tools}
        categories == {t.category : t \in {u \in ManifestTools : u.provider \in providers}} \ {NoCategory}
    IN  {catalog[i].name : i \in {j \in DOMAIN catalog :
            \/ IsWildcard(scopes)
            \/ SkillScope(catalog[j].name) \in Elements(scopes)
            \/ catalog[j].tools \cap {t.name : t \in tools} # {}
            \/ catalog[j].providers \cap providers # {}
            \/ catalog[j].categories \cap categories # {}}}

-----------------------------------------------------------------------------
NoAnswer == [status |-> 0]
NoFiles == [n \in {} |-> NoText]
Subject == IF req.kind = "resolve" THEN req.scopes ELSE req.caller

SkillsInit ==
    /\ dirs \in Layouts /\ req \in Asked
    /\ registry = Load(dirs)
    /\ pass = "begin" /\ next = 1 /\ resolved = <<>> /\ todo = <<>> /\ got = NoFiles
    /\ answer = NoAnswer /\ edits = 0
    /\ texts = {<<d, dirs[d]>> : d \in DirSet}

Files == UNCHANGED <<dirs, edits, texts>>

\* A command loads the registry for itself, and ends if it cannot.
BeginRequest ==
    /\ pass = "begin"
    /\ registry' = IF req.by = "command" THEN Load(dirs) ELSE registry
    /\ IF req.by = "command" /\ ~Loads(dirs)
       THEN answer' = [status |-> 500] /\ pass' = "end"
       ELSE pass' = "scopes" /\ UNCHANGED answer
    /\ UNCHANGED <<req, next, resolved, todo, got>> /\ Files

\* Indices are appended once, in any order the indexes give.
Found(indices) == \E q \in Orders(indices \ Elements(resolved)) : resolved' = resolved \o q

ScopePass ==
    /\ pass = "scopes"
    /\ IF next > Len(Subject) THEN pass' = "tools" /\ next' = 1 /\ UNCHANGED resolved
       ELSE Found(Direct(Subject[next])) /\ next' = next + 1 /\ UNCHANGED pass
    /\ UNCHANGED <<registry, req, todo, got, answer>> /\ Files

ToolsPass ==
    /\ pass = "tools"
    /\ Found(Through(Subject))
    /\ pass' = "deps"
    /\ UNCHANGED <<registry, req, next, todo, got, answer>> /\ Files

\* Mutant: what a dependency depends on is not looked at.
OneLevel(i) == IF i \in Seeds(Subject) THEN DependsOn(i) ELSE {}
Dependencies(i) == DependsOn(i)
DepsPass ==
    /\ pass = "deps"
    /\ IF next > Len(resolved) THEN pass' = "answer" /\ UNCHANGED <<next, resolved>>
       ELSE Found(Dependencies(resolved[next])) /\ next' = next + 1 /\ UNCHANGED pass
    /\ UNCHANGED <<registry, req, todo, got, answer>> /\ Files

VisibleNames == IF req.kind = "resolve" \/ ~IsWildcard(req.caller)
                THEN NamesOf(Elements(resolved)) ELSE Names

(* The handlers and the commands: a list is answered at once, texts are read one after the other.  *)
Is(by, kind) == pass = "answer" /\ req.by = by /\ req.kind = kind
List(names) ==
    /\ answer' = [status |-> 200, names |-> names]
    /\ pass' = "end" /\ UNCHANGED todo
NotFound == answer' = [status |-> 404] /\ pass' = "end" /\ UNCHANGED todo
Read(names) == todo' = names /\ pass' = "files" /\ UNCHANGED answer
Same == UNCHANGED <<registry, req, next, resolved, got>> /\ Files

\* ?tool= or --tool, and a search that a name, a tool, a provider or a category answers.
OfTool(t) == NamesOf(ByTool(t))
Matching(q) == NamesOf(ByName(q) \cup ByTool(q) \cup ByProvider(q) \cup ByCategory(q))

HandleList ==
    /\ Is("proxy", "list")
    /\ List(VisibleNames \cap IF req.names = <<>> THEN Names ELSE OfTool(req.names[1]))
    /\ Same
ListSkills ==
    /\ Is("command", "list")
    /\ List(IF req.names = <<>> THEN VisibleNames ELSE VisibleNames \cap OfTool(req.names[1]))
    /\ Same
Search(by) ==
    /\ Is(by, "search")
    /\ List(Matching(req.names[1]) \cap VisibleNames)
    /\ Same
HandleDetail ==
    /\ Is("proxy", "detail")
    /\ IF req.names[1] \in VisibleNames \cap Names THEN Read(req.names) ELSE NotFound
    /\ Same
ShowSkill ==
    /\ Is("command", "detail")
    /\ IF req.names[1] \in VisibleNames THEN Read(req.names) ELSE NotFound
    /\ Same
HandleBundle ==
    /\ Is("proxy", "bundle")
    /\ IF req.names[1] \in VisibleNames THEN Read(req.names) ELSE NotFound
    /\ Same
HandleBatch ==
    /\ Is("proxy", "batch")
    /\ IF Len(req.names) > MaxBatch THEN answer' = [status |-> 400] /\ pass' = "end" /\ UNCHANGED todo
       ELSE Read(req.names)
    /\ Same
\* --tool: the texts of all skills of the tool.
ReadSkill ==
    /\ Is("command", "read")
    /\ LET names == OfTool(req.names[1]) \cap VisibleNames
       IN  IF names = {} THEN NotFound
           ELSE \E q \in Orders(names) : Read(q)
    /\ Same
\* The proxy gives no skill that the caller does not see; a command is its own caller.
HandleResolve ==
    /\ Is("proxy", "resolve")
    /\ List(VisibleNames \cap VisibleTo(req.caller))
    /\ Same
ResolveSkills == Is("command", "resolve") /\ List(VisibleNames) /\ Same

Respond ==
    \/ HandleList \/ ListSkills \/ Search("proxy") \/ Search("command") \/ HandleDetail \/ ShowSkill
    \/ HandleBundle \/ HandleBatch \/ ReadSkill \/ HandleResolve \/ ResolveSkills

\* Mutant: the first directory of the name.
TextOfFirst(n) ==
    LET i == CHOOSE j \in DOMAIN registry : registry[j].name = n /\ \A k \in 1..(j - 1) : registry[k].name # n
        d == registry[i].dir
    IN  IF dirs[d].is = "skill" THEN Text(d, dirs[d].version) ELSE NoText

\* The text of the directory that has the name: empty, and no error, when the file is gone.
TextOf(n) ==
    LET d == registry[NameIndex(n)].dir
    IN  IF dirs[d].is = "skill" THEN Text(d, dirs[d].version) ELSE NoText

ReadFiles ==
    /\ pass = "files" /\ todo # <<>>
    /\ got' = IF Head(todo) \in VisibleNames \cap Names
              THEN [n \in DOMAIN got \cup {Head(todo)} |-> IF n = Head(todo) THEN TextOf(n) ELSE got[n]]
              ELSE got
    /\ todo' = Tail(todo)
    /\ UNCHANGED <<registry, req, pass, next, resolved, answer>> /\ Files

Deliver ==
    /\ pass = "files" /\ todo = <<>>
    /\ answer' = [status |-> 200, names |-> DOMAIN got, texts |-> got]
    /\ pass' = "end"
    /\ UNCHANGED <<registry, req, next, resolved, todo, got>> /\ Files

\* Someone installs, removes or edits a skill.
Edit(d, content) ==
    /\ pass # "end" /\ edits < MaxEdits /\ dirs[d] # content
    /\ dirs' = [dirs EXCEPT ![d] = content]
    /\ edits' = edits + 1
    /\ texts' = texts \cup {<<d, content>>}
    /\ UNCHANGED <<registry, req, pass, next, resolved, todo, got, answer>>

SkillsNext ==
    \/ BeginRequest \/ ScopePass \/ ToolsPass \/ DepsPass \/ Respond \/ ReadFiles \/ Deliver
    \/ \E e \in Edits : Edit(e[1], e[2])

SkillsSpec == SkillsInit /\ [][SkillsNext]_skillsVars
-----------------------------------------------------------------------------
SkillsTypeOK ==
    /\ dirs \in [DirSet -> Contents]
    /\ Elements(resolved) \subseteq DOMAIN registry /\ edits \in 0..MaxEdits
    /\ answer.status \in {0, 200, 400, 404, 500}

Resolved == pass \in {"answer", "files", "end"} /\ answer.status # 500

(* The passes over scopes, tools and dependencies find each skill once, and together all that the *)
(* scopes lead to: through the skill, the tool, its provider or category, and from there through  *)
(* any chain of dependencies, cycles included (resolve_skills in core/skill.rs).                  *)
ResolveIsClosure ==
    Resolved => /\ Elements(resolved) = Reach(Seeds(Subject))
                /\ Distinct(resolved)

(* Were the same skills in a remote catalogue, a caller would see there no skill that it does not *)
(* see here, and miss only those that a dependency leads to, or a tool that no public manifest    *)
(* has (visible_remote_skill_names in proxy/server.rs beside resolve_skills).                     *)
PublicScopes ==
    \A s \in Elements(Subject) :
        s.is = "tool" => \E t \in FilterToolsByScope(Subject) : t.name = s.on
RemoteAgrees ==
    Resolved /\ ~IsWildcard(Subject) =>
        /\ VisibleRemote(Subject, registry) \subseteq NamesOf(Elements(resolved))
        /\ PublicScopes => NamesOf(Seeds(Subject)) \subseteq VisibleRemote(Subject, registry)

(* What scopes lead to, here and in a remote catalogue.                                           *)
SkillsAgree == ResolveIsClosure /\ RemoteAgrees

(* A text is served under a name for which the caller's scopes, and the registry as it was loaded,*)
(* allow it, and it is one that this skill's own directory held since: whatever was edited,       *)
(* removed or installed meanwhile, and if two directories carry the name, the last one's          *)
(* (handle_skill_detail, handle_skills_bundle_batch, read_content, bundle_files).                 *)
TextsAreTheirs ==
    answer.status = 200 /\ req.kind \in {"detail", "bundle", "batch", "read"} =>
        \A n \in answer.names :
            /\ n \in VisibleTo(req.caller)
            /\ answer.texts[n] = NoText
               \/ \E h \in texts : /\ h[1] = registry[NameIndex(n)].dir /\ h[2].is = "skill"
                                   /\ answer.texts[n] = Text(h[1], h[2].version)
=============================================================================
