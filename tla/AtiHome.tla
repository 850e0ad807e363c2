------------------------------- MODULE AtiHome -------------------------------
(***************************************************************************)
(* One ATI directory and the `ati` commands that work on it, each a        *)
(* process of its own: no command takes a lock, and every call to the file *)
(* system is a step (cli/provider.rs, cli/skills.rs, cli/init.rs,          *)
(* cli/keys.rs, core/manifest.rs).  A process can be killed between two    *)
(* calls; the user edits skills by hand; the repositories go on.           *)
(***************************************************************************)
EXTENDS SkillFiles, HomeFiles

CONSTANTS
    Procs,      \* processes
    Commands,   \* what the users start: [do, on, with]
    KeyNames,   \* names of API keys
    MaxStarts,  \* bound on the commands started
    MaxTogether,\* bound on them in a behaviour in which two overlap
    MaxEdits,   \* bound on the edits by hand
    MaxVersion  \* bound on the versions of each repository

ProviderCommands == {"add-mcp", "add-cli", "import-openapi", "load openapi", "load mcp", "unload",
                     "remove", "list", "info", "install-skills"}
SkillCommands == {"skill install", "skill from git", "skill copy", "skill update", "skill diff",
                  "skill remove", "skill init"}
HomeCommands == {"init", "key set", "key remove"}

ByHand == "by hand"      \* where a text comes from that a user wrote

\* Commands and files name providers, skills and repositories that there are.  What a repository
\* ships parses, a skill.toml of its own may claim any source and hash, a manifest it bundles
\* needs no spec, and an edit is a text that no repository has.
SourceOK(url, pin) == url = NoUrl \/ (url \in Urls /\ pin \in 0..MaxVersion[url])
TomlOK(t) == t.is = "toml" /\ t.provider \in Names \cup {""} /\ SourceOK(t.url, t.pin)
BundleOK(m) == m.is = "manifest" /\ m.name \in Names /\ m.handler # "openapi"
CommandOK(c) ==
    /\ c.do \in ProviderCommands \cup SkillCommands \cup HomeCommands
    /\ c.do \in ProviderCommands \ {"list"} => c.on \in Names
    /\ c.do \in SkillCommands => c.on \in Skills
    /\ c.do \in {"skill install", "skill from git", "skill copy"} => c.with.url \in Urls
    /\ c.do = "skill install" => c.with.pin \in 0..MaxVersion[c.with.url]
ShipmentOK(files) ==
    /\ DOMAIN files \subseteq {"md", "toml", "bundle"}
    /\ "md" \in DOMAIN files => files["md"].is = "text" /\ files["md"].from # ByHand
    /\ "toml" \in DOMAIN files => TomlOK(files["toml"])
    /\ "bundle" \in DOMAIN files => BundleOK(files["bundle"])

ASSUME AtiHomeAssumption ==
    /\ MaxStarts \in Nat /\ MaxTogether \in 0..MaxStarts /\ MaxEdits \in Nat
    /\ MaxVersion \in [Urls -> Nat \ {0}]
    /\ Skills \subseteq Names /\ ByHand \notin Urls
    /\ \A n \in Names : Catalog[n] \in Seq([skill : Skills, url : Urls])
    /\ \A u \in Urls : \A v \in 1..MaxVersion[u] : ShipmentOK(Ships(u, v))
    /\ \A c \in Commands : CommandOK(c)

VARIABLES
    disk,     \* what each path holds
    head,     \* the version each repository is at
    prog,     \* what each process still has to do
    cmd,      \* the command a process runs
    starts,   \* how many commands were started
    edits,    \* how many edits were made by hand
    alone,    \* history: no command was started while another ran
    torn,     \* history: paths that a killed process was still to write
    crossed,  \* history: paths that were last opened while another process was to write them
    vouched   \* history: texts with a signature that is not of their installation

vars == <<disk, head, prog, cmd, starts, edits, alone, torn, crossed, vouched>>

Paths == {ManifestFile(n) : n \in Names} \cup {SpecFile(n) : n \in Names}
         \cup {CacheFile(n) : n \in Names} \cup {SkillDir(s) : s \in Skills}
         \cup (UNION {FilesOf(s) : s \in Skills}) \cup TopFiles

NoCommand == [do |-> "nothing", on |-> "", with |-> NoData]
Busy == {p \in Procs : prog[p] # <<>>}

ProgramOf(c, id) ==
    IF c.do \in SkillCommands THEN SkillProgram(c)
    ELSE IF c.do \in HomeCommands THEN HomeProgram(c, id) ELSE ProviderProgram(c)

Init ==
    /\ disk = [path \in Paths |-> None]
    /\ head = [u \in Urls |-> 1]
    /\ prog = [p \in Procs |-> <<>>] /\ cmd = [p \in Procs |-> NoCommand]
    /\ starts = 0 /\ edits = 0 /\ alone = TRUE /\ torn = {} /\ crossed = {} /\ vouched = {}

Start(p, c) ==
    /\ prog[p] = <<>>
    /\ starts < IF alone /\ Busy = {} THEN MaxStarts ELSE MaxTogether
    /\ prog' = [prog EXCEPT ![p] = ProgramOf(c, starts + 1)]
    /\ cmd' = [cmd EXCEPT ![p] = IF ProgramOf(c, starts + 1) = <<>> THEN NoCommand ELSE c]
    /\ starts' = starts + 1
    /\ alone' = (alone /\ Busy = {})
    /\ UNCHANGED <<disk, head, edits, torn, crossed, vouched>>

\* After a failure the rest of the program is dropped, to the end of what the failure is caught in.
AfterFailure(q) ==
    IF \A i \in DOMAIN q : q[i].do # "end" THEN <<>>
    ELSE LET first == CHOOSE i \in DOMAIN q :
                 q[i].do = "end" /\ \A j \in 1..(i - 1) : q[j].do # "end"
         IN  SubSeq(q, first + 1, Len(q))

\* p is between the open of a file and its write.
Writes(p, path) == prog[p] # <<>> /\ Head(prog[p]).do = "fill" /\ Head(prog[p]).at = path
Writing(path) == \E p \in Procs : Writes(p, path)

Signature(text, url, pin) == [text |-> text, url |-> url, pin |-> pin]
\* What a repository holds, of the versions it had so far.
Shipped(u, v, file, content) == file \in DOMAIN Ships(u, v) /\ Ships(u, v)[file] = content
TextIsOf(text, url, pin, h) ==
    \E v \in 1..h[url] : Shipped(url, v, "md", text) /\ (pin # NoPin => v = pin)
TomlIsShipped(t, h) == \E u \in Urls : \E v \in 1..h[u] : Shipped(u, v, "toml", t)

\* An installation without a text of its own signs the one it finds; an update takes the word of
\* a skill.toml that is as a repository shipped it.
Adopted(op, d, then) ==
    LET last == op.with.tail[1]
    IN  IF /\ last.do = "sign" /\ Exists(d, SkillMd(op.at))
           /\ \A i \in DOMAIN then : then[i].do = "open" => then[i].at # SkillMd(op.at)
        THEN {Signature(d[SkillMd(op.at)], last.with.url, last.with.pin)} ELSE {}
Believed(op, d, h) ==
    LET t == ReadToml(d, op.at)
    IN  IF TomlIsShipped(t, h) THEN {Signature(d[SkillMd(op.at)], t.url, t.pin)} ELSE {}
Vouches(op, d, h, r) ==
    CASE r.fails                     -> {}
      [] op.do \in {"copy", "clone"} -> Adopted(op, d, r.then)
      [] op.do = "update"            -> Believed(op, d, h)
      [] OTHER                       -> {}

Take(p, results) ==
    /\ \E r \in results : LET op == Head(prog[p]) IN
        /\ disk' = r.disk
        /\ prog' = [prog EXCEPT ![p] = IF r.fails THEN AfterFailure(Tail(@)) ELSE r.then \o Tail(@)]
        /\ torn' = IF op.do \in {"fill", "unlink", "clear"} THEN torn \ {op.at} ELSE torn
        /\ crossed' = IF op.do # "open" THEN crossed
                      ELSE IF \E q \in Procs \ {p} : Writes(q, op.at) THEN crossed \cup {op.at}
                      ELSE crossed \ {op.at}
        /\ vouched' = vouched \cup Vouches(op, disk, head, r)
    /\ cmd' = [cmd EXCEPT ![p] = IF prog'[p] = <<>> THEN NoCommand ELSE @]
    /\ UNCHANGED <<head, starts, edits, alone>>

FileOps == {"new", "present", "open", "fill", "unlink", "clear", "fetch", "visit", "load", "fail"}
SkillOps == {"mkdir", "copy", "clone", "sign", "generate", "bundle", "rmdir", "update", "skills", "end"}
HomeOps == {"default", "set key", "remove key"}
Next1(p, ops) == prog[p] # <<>> /\ Head(prog[p]).do \in ops

FileStep(p) == Next1(p, FileOps) /\ Take(p, FileResults(Head(prog[p]), disk))
SkillStep(p) == Next1(p, SkillOps) /\ Take(p, SkillResults(Head(prog[p]), disk, head))
HomeStep(p) == Next1(p, HomeOps) /\ Take(p, HomeResults(Head(prog[p]), disk))

\* Bound: after a kill, the next one comes when what it left undone has been written again.
Kill(p) ==
    /\ prog[p] # <<>> /\ torn = {}
    /\ torn' = torn \cup {op.at : op \in {prog[p][i] : i \in {j \in DOMAIN prog[p] : prog[p][j].do = "fill"}}}
    /\ prog' = [prog EXCEPT ![p] = <<>>]
    /\ cmd' = [cmd EXCEPT ![p] = NoCommand]
    /\ UNCHANGED <<disk, head, starts, edits, alone, crossed, vouched>>

Cached == {path \in Paths : disk[path].is = "cached"}
Older(c) == CachedProvider(c.name, c.left - 1)
Tick ==
    /\ \E path \in Cached : disk[path].left >= 0
    /\ disk' = [path \in Paths |-> IF path \in Cached /\ disk[path].left >= 0
                                   THEN Older(disk[path]) ELSE disk[path]]
    /\ UNCHANGED <<head, prog, cmd, starts, edits, alone, torn, crossed, vouched>>

\* Bound: users edit and repositories go on between the commands.
Edit(s) ==
    /\ Busy = {} /\ edits < MaxEdits /\ Exists(disk, SkillDir(s)) /\ Exists(disk, SkillMd(s))
    /\ disk' = [disk EXCEPT ![SkillMd(s)] = Text(ByHand, edits + 1)]
    /\ edits' = edits + 1
    /\ torn' = torn \ {SkillMd(s)}
    /\ UNCHANGED <<head, prog, cmd, starts, alone, crossed, vouched>>

Publish(u) ==
    /\ Busy = {} /\ head[u] < MaxVersion[u]
    /\ head' = [head EXCEPT ![u] = @ + 1]
    /\ UNCHANGED <<disk, prog, cmd, starts, edits, alone, torn, crossed, vouched>>

Next ==
    \/ \E p \in Procs, c \in Commands : Start(p, c)
    \/ \E p \in Procs : FileStep(p) \/ SkillStep(p) \/ HomeStep(p) \/ Kill(p)
    \/ Tick
    \/ \E s \in Skills : Edit(s)
    \/ \E u \in Urls : Publish(u)

Spec == Init /\ [][Next]_vars
-----------------------------------------------------------------------------
TypeOK ==
    /\ DOMAIN disk = Paths /\ torn \subseteq Paths /\ crossed \subseteq Paths
    /\ DOMAIN head = Urls /\ \A u \in Urls : head[u] \in 1..MaxVersion[u]
    /\ \A p \in Procs : cmd[p] \in Commands \cup {NoCommand}
    /\ starts \in 0..MaxStarts /\ edits \in 0..MaxEdits /\ alone \in BOOLEAN

(* If nothing overlapped, what `ati skill verify` calls VERIFIED with a source is a text which    *)
(* that source published, at the pinned commit if one is recorded, after every installation,      *)
(* update, removal, edit and kill; or the signature is not of this text's installation: it came   *)
(* with the skill.toml of a repository, which `provider install-skills` copies as it is, or an    *)
(* installation that brought no SKILL.md signed the one it found (write_integrity_info,           *)
(* verify_skill, update_skill, install_skill_from_url in cli/skills.rs).                          *)
VerifiedIsPublished ==
    alone => \A s \in Skills :
        LET t == ReadToml(disk, s)
            text == disk[SkillMd(s)]
        IN  Verify(disk, s) = "verified" /\ t.url # NoUrl =>
                \/ TextIsOf(text, t.url, t.pin, head)
                \/ TomlIsShipped(t, head)
                \/ Signature(text, t.url, t.pin) \in vouched

Excused(path) == Writing(path) \/ path \in torn \/ path \in crossed
ManifestsWhole ==
    \A n \in Names : Exists(disk, ManifestFile(n)) =>
        Parses(disk, n) \/ disk[ManifestFile(n)].is = "junk" \/ Excused(ManifestFile(n))
SpecsWhole ==
    \A n \in Names : Parses(disk, n) /\ disk[ManifestFile(n)].handler = "openapi" =>
        HasTools(disk, n) \/ Excused(SpecFile(n))
InitRuns == \E p \in Busy : cmd[p].do = "init"
PairMatches ==
    disk[Config].is = "config" /\ disk[Config].algorithm = "ES256" =>
        \/ disk[PrivateKey] = disk[PublicKey]
        \/ InitRuns
        \/ PublicKey \in torn
        \/ ~alone
CredentialsWhole == CredentialsLoad(disk) \/ Excused(Credentials)

(* What the commands leave can be loaded: a manifest parses, an OpenAPI manifest has its spec,    *)
(* the credentials parse, and the two halves of the signing key belong together if nothing        *)
(* overlapped; the exceptions are a file that is being written, that a killed process was to      *)
(* write or that two processes had open at once since it was last opened by one alone (the        *)
(* shorter text then ends with the tail of the longer), and text taken unread from a language     *)
(* model or a skill's bundle (import_openapi, try_write_manifest, ManifestRegistry::load,         *)
(* keys.rs, init.rs).                                                                             *)
BrokenForCause == ManifestsWhole /\ SpecsWhole /\ CredentialsWhole /\ PairMatches

Asked(do, on) == \E p \in Busy : cmd[p].do \in do /\ cmd[p].on = on
CachedKept(n) ==
    disk[CacheFile(n)].is = "cached" /\ disk[CacheFile(n)].left >= 0 =>
        \/ disk'[CacheFile(n)].is = "cached"
        \/ Asked({"unload", "load mcp", "load openapi"}, n)
EditKept(s) ==
    disk[SkillMd(s)].is = "text" /\ disk[SkillMd(s)].from = ByHand =>
        \/ disk'[SkillMd(s)] = disk[SkillMd(s)]
        \/ disk'[SkillMd(s)].is = "text" /\ disk'[SkillMd(s)].from = ByHand
        \/ Asked({"skill install", "skill from git", "skill copy", "skill remove"}, s)
        \/ \E p \in Busy : cmd[p].do = "install-skills"
        \/ \E p \in Busy : cmd[p].do = "skill update" /\ cmd[p].with.force
        \/ Asked({"skill update"}, s) /\ \E x \in vouched : x.text = disk[SkillMd(s)]
\* The file has k, or a process has truncated it and is to write it with k.
Keeps(k) ==
    \/ disk[Credentials].is = "keys" /\ k \in disk[Credentials].names
    \/ \E p \in Procs : Writes(p, Credentials) /\ k \in Head(prog[p]).with.names
KilledInWrite(path) == \E p \in Procs : Writes(p, path) /\ prog'[p] = <<>> /\ disk' = disk
KeyKept(k) ==
    Keeps(k) => Keeps(k)' \/ Asked({"key remove"}, k) \/ KilledInWrite(Credentials)

(* If nothing overlaps, nothing is lost that no one asked to lose: a cached provider stays for    *)
(* its time to live, until it is unloaded or loaded again, although listings and loads remove     *)
(* the expired ones; an edit made by hand outlives an update that is not forced, unless an        *)
(* installation without a text has signed it or a repository's own skill.toml speaks for it; and  *)
(* a key stays until its removal begins, through the truncation and rewriting of the file by      *)
(* every other command, except for a kill between the two, which loses all keys (list_providers,  *)
(* ManifestRegistry::load, update_skill, set_key, remove_key, save_credentials).                  *)
KeptUnlessAsked ==
    [][alone' => /\ \A n \in Names : CachedKept(n)
                 /\ \A s \in Skills : EditKept(s)
                 /\ \A k \in KeyNames : KeyKept(k)]_vars
=============================================================================
