SPECIFICATION UpstreamsSpec
CONSTANTS
    Providers <- RouteProviders
    Keyring = {"k"}
    NoHost = "none"
    NoKey = "no key"
    Exchanges <- SomeExchanges
    Replies <- ResponseBodies
    Sides <- SaidInTurn
    LegRoom = 1
    Calls = {"c1", "c2"}
    Discoveries = {"d1", "d2"}
    Starts <- McpStarts
    Stdio = {"c1", "d1"}
    Workers = 1
    Window = 2
    MaxPages = 2
    MaxTools = 3
    PageSize <- PagesOf
    ServerIds = {1, 2}
    MaxNoise = 1
    FolderOrder <- Folder
    Files = {"a"}
    Candidates <- IndexKeys
    Granted = {"maps", "other"}
    Local = {"route"}
    SkillRequests <- Wants
    Buckets <- SomeBuckets
    Changes <- SomeChanges
    ListPage = 2
    Concurrency = 2
    MaxAttempts = 3
    MaxChanges = 2
    HttpCalls = {"one", "two"}
    HttpProviders = {"oauth", "plain", "internal", "keyless"}
    Auth <- AuthOf
    Blocked = {"internal"}
    ToolCalls <- WithDelete
    Lifetimes = {1, 4}
    Presumed = 4
    Margin = 2
    ExchangeLimit = 1
    SendLimit = 2
    MaxTokens = 2
    MaxNow = 5
    CliCalls = {"one", "two"}
    OutFlags = {"--out"}
    Positional <- Rules
    Commands <- SomeCommands
    Generated = TRUE
    MaxBusy = 1
    Parts = {"http"}
INVARIANT ArgumentsArrive
CHECK_DEADLOCK FALSE
