\* The permissions page loaded twice at once.
SPECIFICATION Spec
CONSTANTS
    Users = {u1}
    RoleIds = {a1}
    PermIds = {p1, p2}
    RoleNames = {"Administrator", "Editor"}
    Routes = {n1}
    Requests = {r1, r2}
    Null = Null
PROPERTIES DiscoveryAddsNoDuplicate
