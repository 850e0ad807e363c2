----------------------------- MODULE SkillFiles -----------------------------
(***************************************************************************)
(* The skill directories of an ATI directory and the commands of           *)
(* `ati skill` that change them (cli/skills.rs, core/skill.rs): install    *)
(* from a directory or a repository, with the record of where it came      *)
(* from, update, remove, init, verify; and the manifest that an            *)
(* installation generates for the skill's provider.                        *)
(***************************************************************************)
EXTENDS ProviderFiles

CONSTANTS
    Skills,     \* names of skills; a skill's provider is named in its skill.toml or after it
    Urls,       \* repositories, #fragment included
    Ships(_, _) \* what version v of repository u holds, as a record of files

SkillMd(s) == <<"md", s>>
SkillToml(s) == <<"toml", s>>
BundledProvider(s) == <<"bundle", s>>
FilesOf(s) == {SkillMd(s), SkillToml(s), BundledProvider(s)}

Dir == [is |-> "dir"]
Text(from, version) == [is |-> "text", from |-> from, version |-> version]
NoUrl == "no url"
NoPin == 0
NoHash == [is |-> "no hash"]

(* skill.toml: the provider it names ("" if it names none) and its [ati.integrity] section. *)
Toml(provider, hash, url, pin) ==
    [is |-> "toml", provider |-> provider, hash |-> hash, url |-> url, pin |-> pin]
Unsigned(provider) == Toml(provider, NoHash, NoUrl, NoPin)

\* A skill.toml that is missing, empty or does not parse says nothing of use.
ReadToml(d, s) == IF d[SkillToml(s)].is = "toml" THEN d[SkillToml(s)] ELSE Unsigned("")

(* The content hash is the content. *)
Hash(content) == content

Verify(d, s) ==
    IF ~Exists(d, SkillDir(s)) \/ ~Exists(d, SkillMd(s)) THEN "missing"
    ELSE IF ReadToml(d, s).hash = NoHash THEN "no hash"
    ELSE IF ReadToml(d, s).hash = Hash(d[SkillMd(s)]) THEN "verified"
    ELSE "changed"

ProviderOf(d, s) == IF ReadToml(d, s).provider = "" THEN s ELSE ReadToml(d, s).provider

-----------------------------------------------------------------------------
(* Programs.  End is the boundary of a failure that the command survives. *)
End == Op("end", <<>>, NoData)

\* Every regular file is copied over what is there, in the order the directory gives them.
Orders(S) == {q \in [1..Cardinality(S) -> S] : {q[i] : i \in DOMAIN q} = S}
CopyDir(files, s, order) ==
    <<Op("mkdir", SkillDir(s), NoData)>> \o
    IF Len(order) = 0 THEN <<>>
    ELSE LET Copy[i \in 0..Len(order)] ==
                 IF i = 0 THEN <<>> ELSE Copy[i - 1] \o Write(<<order[i], s>>, files[order[i]])
         IN  Copy[Len(order)]

Finish(s, url, pin) ==
    <<Op("sign", s, [url |-> url, pin |-> pin]), Op("generate", s, NoData)>>

Install(s, url, pin) == <<Op("clone", s, [url |-> url, pin |-> pin, tail |-> Finish(s, url, pin)])>>
\* --from-git takes the older path, which records no source.
InstallFromGit(s, url) ==
    <<Op("clone", s, [url |-> url, pin |-> NoPin, tail |-> Finish(s, NoUrl, NoPin)])>>
InstallLocal(s, url) ==
    <<Op("copy", s, [url |-> url, pin |-> NoPin, tail |-> Finish(s, NoUrl, NoPin)])>>
\* `provider install-skills` neither signs nor generates; the bundled manifest is its only one.
InstallFromUrl(s, url) ==
    <<Op("clone", s, [url |-> url, pin |-> NoPin, tail |-> <<Op("bundle", s, NoData)>>]), End>>

RemoveSkill(s) == <<Op("present", SkillDir(s), NoData), Op("rmdir", s, NoData)>>
InitSkill(s, bindings) ==
    <<Op("new", SkillDir(s), NoData), Op("mkdir", SkillDir(s), NoData)>>
    \o Write(SkillMd(s), Text("scaffold", 0))
    \o (IF bindings THEN Write(SkillToml(s), Unsigned("")) ELSE <<>>)
\* Compares the installed text with a clone in a temporary directory.
Diff(s, url, pin) == <<Op("present", SkillMd(s), NoData), Op("fetch", SkillMd(s), NoData)>>
Update(s, force) ==
    <<Op("present", SkillDir(s), NoData), Op("update", s, [force |-> force])>>

SkillProgram(c) ==
    CASE c.do = "skill install"  -> Install(c.on, c.with.url, c.with.pin)
      [] c.do = "skill from git" -> InstallFromGit(c.on, c.with.url)
      [] c.do = "skill copy"     -> InstallLocal(c.on, c.with.url)
      [] c.do = "skill update"   -> Update(c.on, c.with.force)
      [] c.do = "skill diff"     -> Diff(c.on, c.with.url, c.with.pin)
      [] c.do = "skill remove"   -> RemoveSkill(c.on)
      [] c.do = "skill init"     -> InitSkill(c.on, c.with.bindings)

\* Mutant: a pinned skill is taken for what was pinned.
ModifiedUnlessPinned(d, s) ==
    /\ Exists(d, SkillMd(s))
    /\ ReadToml(d, s).pin = NoPin
    /\ ReadToml(d, s).hash \notin {NoHash, Hash(d[SkillMd(s)])}
Modified(d, s) ==
    /\ Exists(d, SkillMd(s))
    /\ ReadToml(d, s).hash \notin {NoHash, Hash(d[SkillMd(s)])}

(* What a command of skills does at a call, head being the version each repository is at. *)
Copies(op, d, version) ==
    LET files == Ships(op.with.url, version)
    IN  {Go(d, CopyDir(files, op.at, o) \o op.with.tail) : o \in Orders(DOMAIN files)}

\* Mutant: the section of the last installation stays when this one has no source.
SignKeepsSource(op, d) ==
    LET s == op.at
        t == ReadToml(d, s)
        signed == Toml(t.provider, Hash(d[SkillMd(s)]),
                       IF op.with.url = NoUrl THEN t.url ELSE op.with.url,
                       IF op.with.pin = NoPin THEN t.pin ELSE op.with.pin)
    IN  {Go(d, IF Exists(d, SkillMd(s)) THEN Write(SkillToml(s), signed) ELSE <<>>)}
\* The section is edited as text: where two writers left a mixture, it may stay one.
Sign(op, d) ==
    LET s == op.at
        signed == Toml(ReadToml(d, s).provider, Hash(d[SkillMd(s)]), op.with.url, op.with.pin)
    IN  {Go(d, IF Exists(d, SkillMd(s)) THEN Write(SkillToml(s), text) ELSE <<>>) :
            text \in {signed} \cup {left \in {Mixed} : d[SkillToml(s)] = left}}

\* The skill and the record of its source are gone before the clone that may fail.
Reinstall(op, d) ==
    LET t == ReadToml(d, op.at)
    IN  IF t.url = NoUrl \/ (Modified(d, op.at) /\ ~op.with.force) THEN Fails(d)
        ELSE Go(d, <<Op("rmdir", op.at, NoData)>> \o Install(op.at, t.url, t.pin))

Bundle(s, d) ==
    LET b == d[BundledProvider(s)]
    IN  IF ~Exists(d, BundledProvider(s)) THEN Go(d, <<>>)
        ELSE IF b.is \in {"empty", "mixed"} THEN Fails(d)
        ELSE IF Exists(d, ManifestFile(b.name)) THEN Go(d, <<>>)
        ELSE Go(d, Write(ManifestFile(b.name), b))

(* The text a language model gives for a manifest: the right one, one that only looks right, or   *)
(* none that does.  With --local ollama alone is asked, else an API if there is a key for it.     *)
NoText == [is |-> "no text"]
LooksLikeManifest(text) == text.is \in {"manifest", "junk"}
OllamaAnswers(n) == {Manifest(n, "http"), Junk(n), NoText}
ApiAnswers(n) == {Manifest(n, "http"), Junk(n), NoText}

\* The looks are all that is asked; without them the bundled manifest is tried, its failure ignored.
Generate(s, d) ==
    LET n == ProviderOf(d, s)
    IN  IF d[SkillMd(s)].is \in {"none", "empty"} \/ Exists(d, ManifestFile(n)) THEN {Go(d, <<>>)}
        ELSE {IF LooksLikeManifest(text) THEN Go(d, Write(ManifestFile(n), text))
              ELSE Go(d, Bundle(s, d).then) : text \in OllamaAnswers(n) \cup ApiAnswers(n)}

SkillResults(op, d, head) ==
    CASE op.do = "mkdir"    -> {Go([d EXCEPT ![op.at] = Dir], <<>>)}
      [] op.do = "copy"     -> Copies(op, d, head[op.with.url])
      \* a commit that is not there cannot be checked out
      [] op.do = "clone"    -> {Fails(d)} \cup
             IF op.with.pin > head[op.with.url] THEN {}
             ELSE Copies(op, d, IF op.with.pin = NoPin THEN head[op.with.url] ELSE op.with.pin)
      [] op.do = "sign"     -> Sign(op, d)
      [] op.do = "generate" -> Generate(op.at, d)
      [] op.do = "bundle"   -> {Bundle(op.at, d)}
      [] op.do = "rmdir"    ->
             IF \E f \in FilesOf(op.at) : Exists(d, f)
             THEN {Go([d EXCEPT ![f] = None], <<op>>) : f \in {g \in FilesOf(op.at) : Exists(d, g)}}
             ELSE {Go([d EXCEPT ![SkillDir(op.at)] = None], <<>>)}
      [] op.do = "update"   -> {Reinstall(op, d)}
      [] op.do = "skills"   ->
             LET urls == Catalog[op.at]
                 Each[i \in 0..Len(urls)] == IF i = 0 THEN <<>>
                     ELSE Each[i - 1] \o InstallFromUrl(urls[i].skill, urls[i].url)
             IN  {Go(d, Each[Len(urls)])}
      [] op.do = "end"      -> {Go(d, <<>>)}
=============================================================================
