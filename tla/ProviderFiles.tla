---------------------------- MODULE ProviderFiles ----------------------------
(***************************************************************************)
(* The files of an ATI directory that describe providers, and the commands *)
(* of `ati provider` on them (cli/provider.rs, core/manifest.rs,           *)
(* core/openapi.rs).  A command is a program: the sequence of the calls it *)
(* makes to the file system, which AtiHome executes one at a time.         *)
(*                                                                         *)
(* d is always the disk: a function from paths to contents.                *)
(***************************************************************************)
EXTENDS Integers, Sequences, FiniteSets

CONSTANTS
    Order,     \* provider names, in the order in which the directory is read
    Ttl,       \* time to live of a cached provider
    Catalog    \* what each provider's manifest declares: its skills' URLs

ASSUME ProviderFilesAssumption ==
    /\ Ttl \in Nat
    /\ Order \in Seq({Order[i] : i \in DOMAIN Order})
    /\ DOMAIN Catalog = {Order[i] : i \in DOMAIN Order}

Names == {Order[i] : i \in DOMAIN Order}

(* Paths and contents.  An open that truncates leaves Empty until the write. *)
ManifestFile(n) == <<"manifests", n>>
SpecFile(n) == <<"specs", n>>
CacheFile(n) == <<"cache", n>>

None == [is |-> "none"]
Empty == [is |-> "empty"]
Mixed == [is |-> "mixed"]                       \* a text, and after it the end of a longer one
SpecText == [is |-> "spec"]
Manifest(n, handler) == [is |-> "manifest", name |-> n, handler |-> handler]
Junk(n) == [is |-> "junk", name |-> n]          \* text that is no manifest
CachedProvider(n, left) == [is |-> "cached", name |-> n, left |-> left]

Exists(d, path) == d[path] # None
SkillDir(s) == <<"dir", s>>
\* The directories of manifests, specs and cache are made on the way; a skill's may be gone.
HasDirectory(d, path) == path[1] \in {"md", "toml", "bundle"} => Exists(d, SkillDir(path[2]))
IsExpired(c) == c.left < 0

Op(do, at, with) == [do |-> do, at |-> at, with |-> with]
NoData == [is |-> "no data"]
Write(path, content) == <<Op("open", path, NoData), Op("fill", path, content)>>
Clears(path) == Op("clear", path, NoData)       \* remove_file, result ignored

(***************************************************************************)
(* The registry: every manifest must parse; an OpenAPI manifest whose spec *)
(* does not load keeps its place without tools; a cached provider is       *)
(* hidden by a permanent one of its name, and removed once expired.        *)
(***************************************************************************)
Parses(d, n) == d[ManifestFile(n)].is = "manifest"
RegistryLoads(d) == \A n \in Names : Exists(d, ManifestFile(n)) => Parses(d, n)
Permanent(d) == {d[ManifestFile(n)].name : n \in {m \in Names : Parses(d, m)}}
Fresh(d) == {n \in Names : d[CacheFile(n)].is = "cached" /\ ~IsExpired(d[CacheFile(n)])}
Expired(d) == {n \in Names : d[CacheFile(n)].is = "cached" /\ IsExpired(d[CacheFile(n)])}
Providers(d) == Permanent(d) \cup (Fresh(d) \ Permanent(d))
SpecLoads(d, n) == d[SpecFile(n)] = SpecText
HasTools(d, n) ==
    CASE d[ManifestFile(n)].handler = "openapi" -> SpecLoads(d, n)
      [] d[ManifestFile(n)].handler = "mcp"     -> FALSE    \* until it is discovered
      [] OTHER                                  -> TRUE     \* one implicit tool at least

\* A listing and a load look at the cache entries one after the other.
Visits == [i \in DOMAIN Order |-> Op("visit", CacheFile(Order[i]), NoData)]

(* The commands.  args says which of the options a transport or an auth type needs are there. *)
TransportOk(args) ==
    \/ args.transport = "http" /\ args.url
    \/ args.transport = "stdio" /\ args.command
AuthOk(args) == args.auth = "none" \/ (args.auth \in {"bearer", "header"} /\ args.key)

AddMcp(n, args) ==
    IF TransportOk(args) /\ AuthOk(args) /\ args.env
    THEN <<Op("new", ManifestFile(n), NoData)>> \o Write(ManifestFile(n), Manifest(n, "mcp"))
    ELSE <<>>

AddCli(n, args) ==
    IF args.env
    THEN <<Op("new", ManifestFile(n), NoData)>> \o Write(ManifestFile(n), Manifest(n, "cli"))
    ELSE <<>>

\* Mutant: the manifest goes first.
ImportManifestFirst(n, dryRun) ==
    <<Op("fetch", SpecFile(n), NoData)>> \o
    IF dryRun THEN <<>>
    ELSE Write(ManifestFile(n), Manifest(n, "openapi")) \o Write(SpecFile(n), SpecText)
\* The spec goes to disk before the manifest that refers to it.  Nothing asks whether they exist.
ImportOpenapi(n, dryRun) ==
    <<Op("fetch", SpecFile(n), NoData)>> \o
    IF dryRun THEN <<>>
    ELSE Write(SpecFile(n), SpecText) \o Write(ManifestFile(n), Manifest(n, "openapi"))

LoadOpenapi(n, save) ==
    IF save THEN ImportOpenapi(n, FALSE)
    ELSE <<Op("fetch", SpecFile(n), NoData)>> \o Write(CacheFile(n), CachedProvider(n, Ttl))

\* The probe of the server comes after the entry, and its failure does not take the entry back.
LoadMcp(n, args, save) ==
    IF ~TransportOk(args) THEN <<>>
    ELSE IF save THEN AddMcp(n, args)
    ELSE IF args.env THEN Write(CacheFile(n), CachedProvider(n, Ttl)) ELSE <<>>

RemoveProvider(n) ==
    <<Op("present", ManifestFile(n), NoData), Op("unlink", ManifestFile(n), NoData)>>
Unload(n) ==
    <<Op("present", CacheFile(n), NoData), Op("unlink", CacheFile(n), NoData)>>

\* A listing skips what it cannot read; the other two need the whole registry.
ListProviders == Visits
ProviderInfo(n) == <<Op("load", n, [then |-> <<>>])>>
InstallProviderSkills(n) ==
    <<Op("load", n, [then |-> <<Op("skills", n, NoData)>>])>>

ProviderProgram(c) ==
    CASE c.do = "add-mcp"        -> AddMcp(c.on, c.with)
      [] c.do = "add-cli"        -> AddCli(c.on, c.with)
      [] c.do = "import-openapi" -> ImportOpenapi(c.on, c.with.dryRun)
      [] c.do = "load openapi"   -> LoadOpenapi(c.on, c.with.save)
      [] c.do = "load mcp"       -> LoadMcp(c.on, c.with, c.with.save)
      [] c.do = "unload"         -> Unload(c.on)
      [] c.do = "remove"         -> RemoveProvider(c.on)
      [] c.do = "list"           -> ListProviders
      [] c.do = "info"           -> ProviderInfo(c.on)
      [] c.do = "install-skills" -> InstallProviderSkills(c.on)

-----------------------------------------------------------------------------
(* What a call may do to the disk: what it leaves, what the command does next, whether it fails. *)
Go(d, then) == [disk |-> d, then |-> then, fails |-> FALSE]
Fails(d) == [disk |-> d, then |-> <<>>, fails |-> TRUE]

\* A text is written over what came since the open, from the start: the end of a longer one stays.
\* A file unlinked since it was opened takes the text with it.
Filled(d, path, text) ==
    CASE d[path] = None           -> {d}
      [] d[path] \in {Empty, text} -> {[d EXCEPT ![path] = text]}
      [] OTHER                    -> {[d EXCEPT ![path] = left] : left \in {text, Mixed}}

FileResults(op, d) ==
    CASE op.do = "new"     -> {IF Exists(d, op.at) THEN Fails(d) ELSE Go(d, <<>>)}
      [] op.do = "present" -> {IF Exists(d, op.at) THEN Go(d, <<>>) ELSE Fails(d)}
      [] op.do = "open"    -> {IF HasDirectory(d, op.at) THEN Go([d EXCEPT ![op.at] = Empty], <<>>)
                               ELSE Fails(d)}
      [] op.do = "fill"    -> {Go(e, <<>>) : e \in Filled(d, op.at, op.with)}
      [] op.do = "unlink"  -> {IF Exists(d, op.at) THEN Go([d EXCEPT ![op.at] = None], <<>>)
                               ELSE Fails(d)}
      [] op.do = "clear"   -> {Go([d EXCEPT ![op.at] = None], <<>>)}
      [] op.do = "fetch"   -> {Go(d, <<>>), Fails(d)}
      [] op.do = "visit"   -> {Go(d, IF d[op.at].is = "cached" /\ IsExpired(d[op.at])
                                     THEN <<Clears(op.at)>> ELSE <<>>)}
      [] op.do = "load"    -> {IF ~RegistryLoads(d) THEN Fails(d)
                               ELSE Go(d, Visits \o IF op.at \in Providers(d) THEN op.with.then
                                                    ELSE <<Op("fail", op.at, NoData)>>)}
      [] op.do = "fail"    -> {Fails(d)}
=============================================================================
