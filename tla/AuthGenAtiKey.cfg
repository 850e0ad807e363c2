SPECIFICATION StoresSpec
CONSTANTS
    Callers = {c1, c2}
    Providers = {"cached", "uncached"}
    Subs = {"s1"}
    Tokens = {"t1", "t2"}
    Boxes = {"b1", "b2"}
    Requests <- AtiKeyRequests
    Ttl <- SomeTtl
    Timeout = 1
    IsScript = TRUE
    MaxLeaked = 2
    Clients = {"c1", "c2"}
    Subjects = {"s1"}
    Tools = {"github", "other"}
    Patterns = {"any", "narrow"}
    Matches <- ToolMatches
    Limits <- SomeLimits
    MaxNow = 4
    MaxCalls = 3
    Rotators = {"r1", "r2"}
    Bootstrappers = {"b1"}
    Enforce = FALSE
    MaxVersion = 2
    MaxKeys = 2
    MaxPid = 2
    Dirs <- SkillDirs
    ManifestTools <- SomeTools
    Layouts <- FirstLayouts
    Edits <- SomeEdits
    Asked <- Questions
    MaxBatch = 2
    MaxEdits = 1
    Proxies = {"p1", "p2"}
    ProviderNames = {"web", "Web", "vault"}
    Customers = {"acme"}
    Toml <- TomlOf
    Internal = {"vault"}
    Misnamed = {"Web"}
    Edited = {"edited"}
    MaxRows = 3
    Pods = {"p1", "p2"}
    MasterKeys = {"k1", "k2"}
    NotAKey = "garbage"
    Slots = {"s1", "s2"}
    None = None
    Parts = {"authgen"}
INVARIANT SandboxesApart
CHECK_DEADLOCK FALSE
