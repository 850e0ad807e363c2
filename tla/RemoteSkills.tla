----------------------------- MODULE RemoteSkills -----------------------------
(***************************************************************************)
(* One request for remote skills: a handler GET /skillati/... of the proxy *)
(* (proxy/server.rs) or a command `ati skill fetch` (cli/skillati.rs), on  *)
(* a SkillAtiClient of its own (core/skillati.rs), over a bucket           *)
(* (core/gcs.rs) that others write to meanwhile, or over another proxy.    *)
(* Nothing outlives a request: two of them meet in the bucket alone.       *)
(***************************************************************************)
EXTENDS Integers, Sequences, FiniteSets

CONSTANTS
    FolderOrder,   \* the top-level folders of the bucket, in the order a listing has them
    Files,         \* files of a skill besides SKILL.md
    Candidates,    \* keys of the catalogue index, in the order they are tried
    Granted,       \* remote skills the caller's scopes cover, should the catalogue have them
    Local,         \* skills of the proxy's own registry that the caller sees
    SkillRequests, \* requests: [kind, skill, sibling, path, by]
    Buckets,       \* what the bucket may hold at first
    Changes,       \* what others may store: pairs of key and content
    ListPage,      \* prefixes in one page of a listing
    Concurrency,   \* FALLBACK_CATALOG_CONCURRENCY
    MaxAttempts,   \* attempts of get_with_retry
    MaxChanges     \* bound on the changes during a request

VARIABLES
    bucket,       \* the objects by key, <<folder, name>>
    req, via,     \* the request, and "gcs" or "proxy" as its transport
    todo,         \* what is still to do for it
    phase,        \* how far its catalogue is: 0, the index tried, or one of the two below
    asks,         \* GETs under way: attempts made so far
    listed, rest, \* folders the fall-back lists, and has not asked for yet
    failure,      \* first failure of the fall-back
    authed,       \* an access token is cached
    bytes,        \* bytes_cache
    catalog,      \* catalog_cache
    found,        \* what was read for the answer
    answer,       \* status and body
    changes,      \* how many changes there were
    held,         \* history: what each key held at some moment of the request
    always, ever, \* history: skills the catalogue had at every, a catalogue listed at some moment
    refused,      \* history: keys said to be missing by another than the bucket
    settled       \* history: no index was changed or refused

remoteVars == <<bucket, req, via, todo, phase, asks, listed, rest, failure, authed, bytes, catalog,
                found, answer, changes, held, always, ever, refused, settled>>

Absent == [is |-> "absent"]
EmptyFile == [is |-> "empty"]
Index(skills, resources) == [is |-> "index", skills |-> skills, resources |-> resources]
NotFound == [is |-> "not found"]
Unavailable == [is |-> "unavailable"]
Invalid == [is |-> "invalid"]

SkillMd(s) == <<s, "SKILL.md">>
Names == <<"", "prefixes">>
Objects(s) == <<"", "objects", s>>
Whole == <<"", "catalog">>
Keys == DOMAIN bucket
Indexes == {Candidates[i] : i \in DOMAIN Candidates}

(* What the bucket says of itself. *)
Present(b, k) == b[k] # Absent
Folders(b) == {k[1] : k \in {j \in DOMAIN b : Present(b, j)}} \ {""}
\* list_skill_names asks for one page; the folder of the index is a folder as any other.
Rank(f) == CHOOSE i \in DOMAIN FolderOrder : FolderOrder[i] = f
FirstPage(b) == {f \in Folders(b) : Cardinality({g \in Folders(b) : Rank(g) < Rank(f)}) < ListPage}
Readable(b, s) == SkillMd(s) \in DOMAIN b /\ b[SkillMd(s)].is = "file"
HasIndex(b) == \E k \in Indexes : b[k].is = "index"
FirstIndex(b) == b[Candidates[CHOOSE i \in DOMAIN Candidates :
    /\ b[Candidates[i]].is = "index"
    /\ \A j \in 1..(i - 1) : b[Candidates[j]].is # "index"]]
Offered(b) == IF HasIndex(b) THEN FirstIndex(b).skills ELSE FirstPage(b)
Catalogue(b) == IF HasIndex(b) THEN FirstIndex(b).skills ELSE {s \in FirstPage(b) : Readable(b, s)}

\* What keys hold: an index or a folder's file may be there and be anything that parses or does not.
ContentOK(k, c) ==
    \/ c \in {Absent, EmptyFile} \/ c.is = "file"
    \/ c.is = "index" /\ k \in Indexes
BucketOK(b) == Indexes \subseteq DOMAIN b /\ \A k \in DOMAIN b : ContentOK(k, b[k])
RequestOK(r) ==
    /\ r.kind \in {"catalog", "read", "file", "resources"} /\ r.by \in {"handler", "command"}
    /\ r.kind # "catalog" => r.skill # "" /\ r.sibling # ""

ASSUME RemoteSkillsAssumption ==
    /\ Candidates \in Seq({Candidates[i] : i \in DOMAIN Candidates}) /\ Candidates # <<>>
    /\ \A k \in Indexes : Len(k) = 2 /\ k \notin {Names, Whole} /\ k[2] # "SKILL.md"
    /\ \A r \in SkillRequests : RequestOK(r)
    /\ \A b \in Buckets : BucketOK(b)
    /\ \A c \in Changes : ContentOK(c[1], c[2]) /\ \A b \in Buckets : c[1] \in DOMAIN b
    /\ MaxAttempts \in Nat \ {0} /\ MaxChanges \in Nat

(* Where a path leads: "../other/file" is the sibling's. *)
NoSibling == "none"
BadPath == "bad"
Wanted(r) ==
    IF r.kind \in {"read", "resources"} THEN SkillMd(r.skill)
    ELSE IF r.sibling # NoSibling THEN <<r.sibling, r.path>> ELSE <<r.skill, r.path>>
ValidPath(r) == r.kind = "file" => r.path # BadPath

\* A command goes straight to the client; a handler first asks whether the caller may see the skill.
Plan(r) ==
    (IF r.by = "handler" /\ r.kind # "catalog" THEN <<"catalog", "visible">> ELSE <<>>) \o
    CASE r.kind = "catalog"   -> <<"catalog">>
      [] r.kind = "read"      -> <<"bytes", "describe">>
      [] r.kind = "file"      -> <<"bytes">>
      [] r.kind = "resources" -> <<"catalog", "resources">>

NoAsks == [k \in {} |-> 0]
Unknown == [is |-> "unknown"]
NoAnswer == [status |-> 0]
Loading == Len(Candidates) + 2
Listing == Len(Candidates) + 1
Status(e) == CASE e = NotFound -> 404 [] e = Invalid -> 400 [] e = Unavailable -> 502

RemoteInit ==
    /\ req \in SkillRequests /\ via \in {"gcs", "proxy"}
    /\ bucket \in Buckets
    /\ todo = Plan(req) /\ phase = 0 /\ asks = NoAsks /\ listed = {} /\ rest = {}
    /\ failure = Unknown /\ authed = FALSE /\ bytes = NoAsks /\ catalog = Unknown /\ found = Unknown
    /\ answer = NoAnswer /\ changes = 0
    /\ held = {<<k, bucket[k]>> : k \in Keys}
    /\ always = Catalogue(bucket) /\ ever = Offered(bucket)
    /\ refused = {} /\ settled = TRUE

-----------------------------------------------------------------------------
(* Pieces. *)
Set(f, k, v) == [j \in DOMAIN f \cup {k} |-> IF j = k THEN v ELSE f[j]]
Without(f, k) == [j \in DOMAIN f \ {k} |-> f[j]]
Idle == answer = NoAnswer /\ asks = NoAsks /\ phase # Loading
Does(goal) == Idle /\ todo # <<>> /\ Head(todo) = goal
Outside == UNCHANGED <<bucket, req, via, changes, held, always, ever>>
Rest == Outside /\ UNCHANGED <<refused, settled>>

\* Mutant: the skill is left out of the key.
ByPath(k) == <<"", k[2]>>
CacheKey(k) == k
Cached(k) == CacheKey(k) \in DOMAIN bytes
Ask(k) == asks' = Set(asks, k, 0)
Fail(e) == answer' = [status |-> Status(e)] /\ todo' = <<>>

\* read_skill does without its catalogue if that fails.
CatalogFails(e) ==
    IF Head(todo) = "describe" THEN todo' = Tail(todo) /\ UNCHANGED answer ELSE Fail(e)

\* A catalogue that knows no resources.
Plain(skills) == [skills |-> skills, complete |-> {}, resources |-> NoAsks]

Visible == Local \cup (Granted \cap catalog.skills)

(* Steps without input or output. *)
AskCatalog ==
    /\ Idle /\ todo # <<>> /\ Head(todo) \in {"catalog", "describe"}
    /\ IF catalog # Unknown THEN todo' = Tail(todo) /\ UNCHANGED <<phase, asks>>
       ELSE /\ phase' = 1 /\ UNCHANGED todo
            /\ Ask(IF via = "proxy" THEN Whole ELSE Candidates[1])
    /\ UNCHANGED <<listed, rest, failure, authed, bytes, catalog, found, answer>> /\ Rest

CheckVisible ==
    /\ Does("visible")
    /\ IF req.skill \in Visible THEN todo' = Tail(todo) /\ UNCHANGED answer ELSE Fail(NotFound)
    /\ UNCHANGED <<phase, asks, listed, rest, failure, authed, bytes, catalog, found>> /\ Rest

\* The bytes the answer is made of, or the proof that the skill exists.
AskBytes ==
    /\ Idle /\ todo # <<>> /\ Head(todo) \in {"bytes", "exists"}
    /\ LET k == IF Head(todo) = "exists" THEN SkillMd(req.skill) ELSE Wanted(req)
       IN  CASE ~ValidPath(req) -> Fail(Invalid) /\ UNCHANGED <<asks, found>>
             [] ValidPath(req) /\ Cached(k) ->
                    /\ found' = bytes[CacheKey(k)] /\ todo' = Tail(todo) /\ UNCHANGED <<asks, answer>>
             [] OTHER -> Ask(k) /\ UNCHANGED <<todo, found, answer>>
    /\ UNCHANGED <<phase, listed, rest, failure, authed, bytes, catalog>> /\ Rest

\* An index knows every resource; without one the bucket is listed.
ListResources ==
    /\ Does("resources")
    /\ IF via = "proxy" THEN Ask(Objects(req.skill)) /\ UNCHANGED <<todo, found>>
       ELSE IF req.skill \in catalog.complete
       THEN /\ found' = [is |-> "list", names |-> catalog.resources[req.skill]]
            /\ todo' = Tail(todo) /\ UNCHANGED asks
       ELSE todo' = <<"exists", "objects">> \o Tail(todo) /\ UNCHANGED <<asks, found>>
    /\ UNCHANGED <<phase, listed, rest, failure, authed, bytes, catalog, answer>> /\ Rest

ListObjects ==
    /\ Does("objects")
    /\ Ask(Objects(req.skill))
    /\ UNCHANGED <<todo, phase, listed, rest, failure, authed, bytes, catalog, found, answer>> /\ Rest

\* The fall-back asks for the SKILL.md of every folder, so many at once.
LoadNext ==
    /\ phase = Loading /\ rest # {} /\ Cardinality(DOMAIN asks) < Concurrency
    /\ \E s \in rest :
        /\ rest' = rest \ {s}
        /\ IF Cached(SkillMd(s)) THEN UNCHANGED asks ELSE Ask(SkillMd(s))
    /\ UNCHANGED <<todo, phase, listed, failure, authed, bytes, catalog, found, answer>> /\ Rest

\* Mutant: what could not be read is left out.
LoadedAnyhow ==
    /\ catalog' = Plain({s \in listed : Cached(SkillMd(s)) /\ bytes[CacheKey(SkillMd(s))].is = "file"})
    /\ todo' = Tail(todo) /\ UNCHANGED answer
Loaded ==
    IF failure # Unknown THEN CatalogFails(failure) /\ UNCHANGED catalog
    ELSE IF \E s \in listed : bytes[CacheKey(SkillMd(s))] = EmptyFile
    THEN CatalogFails(Invalid) /\ UNCHANGED catalog
    ELSE catalog' = Plain(listed) /\ todo' = Tail(todo) /\ UNCHANGED answer
LoadEnds ==
    /\ phase = Loading /\ rest = {} /\ asks = NoAsks
    /\ phase' = 0
    /\ Loaded
    /\ UNCHANGED <<asks, listed, rest, failure, authed, bytes, found>> /\ Rest

Answer ==
    /\ Idle /\ todo = <<>>
    /\ answer' = [status |-> 200,
                  body |-> IF req.kind # "catalog" THEN found
                           ELSE [is |-> "list", names |-> IF req.by = "handler" THEN Visible \cap catalog.skills
                                                          ELSE catalog.skills]]
    /\ UNCHANGED <<todo, phase, asks, listed, rest, failure, authed, bytes, catalog, found>> /\ Rest

-----------------------------------------------------------------------------
(* One attempt of a GET: the token may be refused first; an object is read, or is not there; a     *)
(* transport error, 429 or 5xx is tried again, and any other status is final.                      *)
FromIndex(c) == [skills |-> c.skills, complete |-> c.skills, resources |-> c.resources]
TransientFails(k) == IF via = "proxy" THEN TRUE ELSE asks[k] + 1 = MaxAttempts

ReadNow(k) ==
    IF k = Names THEN [is |-> "list", names |-> FirstPage(bucket)]
    ELSE IF k = Whole THEN [is |-> "list", names |-> Catalogue(bucket)]
    ELSE IF k = Objects(req.skill)
    THEN [is |-> "list", names |-> {f \in Files : Present(bucket, <<req.skill, f>>)}]
    ELSE IF k \in Keys /\ Present(bucket, k) THEN bucket[k] ELSE NotFound

\* Mutant: whatever failed, there is nothing there.
NothingThere(result) == IF result.is = "unavailable" THEN NotFound ELSE result
MapError(result) == result

\* An index that is absent or does not parse passes the turn to the next candidate.
TakeIndex(result) ==
    /\ CASE result.is = "index" -> /\ catalog' = FromIndex(result) /\ phase' = 0
                                   /\ todo' = Tail(todo) /\ asks' = NoAsks /\ UNCHANGED answer
         [] result = Unavailable -> /\ CatalogFails(result) /\ phase' = 0 /\ asks' = NoAsks
                                    /\ UNCHANGED catalog
         [] OTHER -> /\ phase' = phase + 1 /\ UNCHANGED <<catalog, todo, answer>>
                     /\ asks' = Set(NoAsks, IF phase' = Listing THEN Names ELSE Candidates[phase'], 0)
    /\ UNCHANGED <<listed, rest, failure, bytes, found>>

TakeNames(result) ==
    /\ IF result = Unavailable THEN CatalogFails(result) /\ phase' = 0 /\ UNCHANGED <<listed, rest>>
       ELSE listed' = result.names /\ rest' = result.names /\ phase' = Loading /\ UNCHANGED <<todo, answer>>
    /\ asks' = NoAsks
    /\ UNCHANGED <<failure, bytes, catalog, found>>

TakeWhole(result) ==
    /\ IF result = Unavailable THEN CatalogFails(result) /\ UNCHANGED catalog
       ELSE catalog' = Plain(result.names) /\ todo' = Tail(todo) /\ UNCHANGED answer
    /\ phase' = 0 /\ asks' = NoAsks
    /\ UNCHANGED <<listed, rest, failure, bytes, found>>

TakeLoaded(k, result) ==
    /\ asks' = Without(asks, k)
    /\ IF result \in {Unavailable, NotFound}
       THEN failure' = (IF failure = Unknown THEN MapError(result) ELSE failure) /\ UNCHANGED bytes
       ELSE bytes' = Set(bytes, CacheKey(k), result) /\ UNCHANGED failure
    /\ UNCHANGED <<todo, phase, listed, rest, catalog, found, answer>>

TakeBytes(k, result) ==
    /\ asks' = NoAsks
    /\ IF result \in {Unavailable, NotFound} THEN Fail(MapError(result)) /\ UNCHANGED <<bytes, found>>
       ELSE /\ bytes' = Set(bytes, CacheKey(k), result)
            /\ found' = result /\ todo' = Tail(todo) /\ UNCHANGED answer
    /\ UNCHANGED <<phase, listed, rest, failure, catalog>>

TakeObjects(result) ==
    /\ asks' = NoAsks
    /\ IF result \in {Unavailable, NotFound} THEN Fail(result) /\ UNCHANGED found
       ELSE found' = result /\ todo' = Tail(todo) /\ UNCHANGED answer
    /\ UNCHANGED <<phase, listed, rest, failure, bytes, catalog>>

Take(k, result) ==
    IF phase = Loading THEN TakeLoaded(k, result)
    ELSE IF phase = 0
    THEN IF k = Objects(req.skill) THEN TakeObjects(result) ELSE TakeBytes(k, result)
    ELSE IF k = Whole THEN TakeWhole(result)
    ELSE IF k = Names THEN TakeNames(result) ELSE TakeIndex(result)

Get(k) ==
    /\ k \in DOMAIN asks
    /\ Take(k, ReadNow(k))
    /\ authed' = TRUE /\ Rest

GetFails(k) ==
    /\ k \in DOMAIN asks
    /\ \/ TransientFails(k) /\ authed' = TRUE
       \/ ~authed /\ via = "gcs" /\ UNCHANGED authed      \* no access token
    /\ Take(k, Unavailable)
    /\ Rest

\* A 404 of another: access_token has the status of the token endpoint for that of the bucket, and
\* the other proxy may be told so itself. What is listed knows no "not found".
Refusal(k) ==
    IF k \in {Names, Whole} \/ (via = "gcs" /\ k = Objects(req.skill)) THEN Unavailable ELSE NotFound
GetRefused(k) ==
    /\ k \in DOMAIN asks
    /\ via = "gcs" => ~authed
    /\ Take(k, Refusal(k))
    /\ refused' = refused \cup {k}
    /\ settled' = (settled /\ k \notin Indexes)
    /\ Outside /\ UNCHANGED authed

Again(k) == authed' = TRUE /\ asks' = [asks EXCEPT ![k] = @ + 1]
Retry(k) ==
    /\ k \in DOMAIN asks /\ ~TransientFails(k)
    /\ Again(k)
    /\ UNCHANGED <<todo, phase, listed, rest, failure, bytes, catalog, found, answer>> /\ Rest

(* Others store and delete objects. *)
Change(k, c) ==
    /\ answer = NoAnswer /\ changes < MaxChanges /\ bucket[k] # c
    /\ bucket' = [bucket EXCEPT ![k] = c]
    /\ changes' = changes + 1
    /\ held' = held \cup {<<k, c>>}
    /\ always' = always \cap Catalogue(bucket') /\ ever' = ever \cup Offered(bucket')
    /\ settled' = (settled /\ k \notin Indexes)
    /\ UNCHANGED <<req, via, todo, phase, asks, listed, rest, failure, authed, bytes, catalog, found,
                   answer, refused>>

Steps ==
    \/ AskCatalog \/ CheckVisible \/ AskBytes \/ ListResources \/ ListObjects
    \/ LoadNext \/ LoadEnds \/ Answer
    \/ \E k \in DOMAIN asks : Get(k) \/ GetFails(k) \/ GetRefused(k) \/ Retry(k)
RemoteNext == Steps \/ \E c \in Changes : Change(c[1], c[2])

RemoteSpec == RemoteInit /\ [][RemoteNext]_remoteVars
-----------------------------------------------------------------------------
RemoteTypeOK ==
    /\ req \in SkillRequests /\ changes \in 0..MaxChanges /\ phase \in 0..Loading
    /\ \A k \in DOMAIN asks : asks[k] < MaxAttempts
    /\ answer.status \in {0, 200, 400, 404, 502}

Ok(kind) == answer.status = 200 /\ req.kind \in kind

(* The bytes a request answers with are those that the bucket held for that very file at some     *)
(* moment of the request, however the fall-back's readings interleave and whatever the caches     *)
(* have (read_path, read_bytes and load_catalog_fallback in core/skillati.rs).                    *)
ServedIsOwn ==
    Ok({"read", "file"}) => answer.body # NotFound /\ <<Wanted(req), answer.body>> \in held

(* While the index stands, or there is none, a catalogue has every skill it had all along that    *)
(* the caller may see, and no other than one that was listed and could be read, each at some       *)
(* moment; a folder beyond the first page of the listing is not counted, nor a request for which   *)
(* a 404 of the token endpoint passed for an absent index (catalog_entries in core/skillati.rs,    *)
(* list_skill_names, access_token in core/gcs.rs).                                                 *)
WasReadable(s) == \E h \in held : h[1] = SkillMd(s) /\ h[2].is = "file"
CatalogueTrue ==
    Ok({"catalog"}) /\ settled =>
        /\ answer.body.names \subseteq ever
        /\ ~HasIndex(bucket) => \A s \in answer.body.names : WasReadable(s)
        /\ (IF req.by = "handler" THEN always \cap (Local \cup Granted) ELSE always)
               \subseteq answer.body.names

(* A request is told "not found" only if the file, or the skill in the catalogue, was absent at   *)
(* some moment, or indexes were replaced while they were tried one after the other, or no index   *)
(* was found and a folder of the listing had no SKILL.md; a 404 in place of the bucket's own, of   *)
(* the token endpoint or of the other proxy, counts for the very key it was told of. A timeout, a  *)
(* 5xx or any other failure is never the cause (map_gcs_error, load_catalog_index, access_token,   *)
(* visible_skill_names_with_remote).                                                               *)
SaidMissing(k) == k \in refused
WasMissing(k) == k \notin Keys \/ <<k, Absent>> \in held \/ SaidMissing(k)
WasNoIndex(k) == SaidMissing(k) \/ \E h \in held : h[1] = k /\ h[2].is # "index"
WasFolder(s) == s # "" /\ \E h \in held : h[1][1] = s /\ h[2] # Absent
NotFoundForCause ==
    answer.status = 404 =>
        \/ WasMissing(Wanted(req)) \/ SaidMissing(Objects(req.skill))
        \/ /\ req.by = "handler"
           /\ settled => req.skill \notin Local \cup (Granted \cap always)
        \/ /\ \A k \in Indexes : WasNoIndex(k)
           /\ \E k \in Keys : WasFolder(k[1]) /\ WasMissing(SkillMd(k[1]))
=============================================================================
