\* Two requests race over one account and its OTPs, the clock running, or its roles.
SPECIFICATION Spec
CONSTANTS
    Ids = {i1}
    Emails = {e1}
    Codes = {c1}
    Passwords = {p1}
    Otps = {o1, o2}
    Statuses = {"Active", "Inactive"}
    Roles = {a1, a2}
    Requests = {r1, r2}
    Null = Null
    OtpTtl = 1
    MaxClock = 2
SYMMETRY Symmetry
CONSTRAINT CodesOrRoles
INVARIANTS OtpSound UncontendedBlockHolds RolesAreOneList
PROPERTIES ImplementsStanding
