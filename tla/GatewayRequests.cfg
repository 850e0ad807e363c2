SPECIFICATION MCSpec
CONSTANTS
    s1 = s1
    s2 = s2
    jwt1 = jwt1
    key1 = key1
    search = search
    read = read
    upload = upload
    url1 = url1
    url2 = url2
    old = old
    new = new
    Slots = {s1, s2}
    Requests <- MCRequests
    Tokens = {jwt1}
    Keys = {key1}
    Expiry <- MCExpiry
    Grants <- MCGrants
    Limits <- MCLimits
    Tools = {search, read, upload}
    Urls = {url1, url2}
    Secrets = {old, new}
    Scoped = {search, read}
    Handler <- MCHandler
    Accepts = {read}
    Lazy = {read}
    AllowedUrls = {url1}
    Exempt = {"info"}
    Modes = {"warn", "enforce"}
    JwtModes = {TRUE, FALSE}
    Leeway = 1
    Drift = 1
    Lifetimes = {1}
    TTL = 1
    MaxFill = 1
    MaxNow = 2
INVARIANTS
    RunsForCause
    StartsInTime
    ChargedForCause
    AuditAgrees
PROPERTY SchemaSettles
CHECK_DEADLOCK FALSE
