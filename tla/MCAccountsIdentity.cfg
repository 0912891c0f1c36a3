\* Two requests race over three accounts, two emails, two codes.
SPECIFICATION Spec
CONSTANTS
    Ids = {i1, i2, i3}
    Emails = {e1, e2}
    Codes = {c1, c2}
    Passwords = {p1}
    Otps = {}
    Statuses = {"Active"}
    Roles = {}
    Requests = {r1, r2}
    Null = Null
    OtpTtl = 0
    MaxClock = 0
SYMMETRY Symmetry
INVARIANTS TypeOK IdentityUnique
PROPERTIES ImplementsUserStore
