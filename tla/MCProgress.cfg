\* Accounts, batch removals, settings and rate limits, each alone and fair.
SPECIFICATION AllSpec
CONSTANTS
    Null = Null
    Requests = {r1, r2}
    Themes = {x, y}
    Slugs = {s1, s2, s3}
    Shipped = s1
    DefaultView = s2
    Ttl = 2
    Ids = {i1}
    Batch = {i1, i2}
    Emails = {e1}
    Codes = {c1}
    Passwords = {p1}
    Otps = {}
    Statuses = {"Active"}
    Roles = {a1, a2}
    OtpTtl = 0
    MaxClock = 0
    Calls = {q1, q2}
    Limit = 2
    Window = 2
    MaxRestarts = 1
INVARIANTS CacheIsCurrent ActiveTemplateOnDisk
PROPERTIES PagesCatchUp RequestsFinish LimitLifts
