\* A profile edit that read its row before the admin blocked the account.
SPECIFICATION Spec
CONSTANTS
    Ids = {i1}
    Emails = {e1}
    Codes = {c1}
    Passwords = {p1}
    Otps = {}
    Statuses = {"Active"}
    Roles = {}
    Requests = {r1, r2}
    Null = Null
    OtpTtl = 0
    MaxClock = 0
PROPERTIES OnlyAdminChangesBlocked
