\* A role deleted while a user holds it.
SPECIFICATION Spec
CONSTANTS
    Users = {u1}
    RoleIds = {a1}
    PermIds = {p1}
    RoleNames = {"Administrator", "Editor"}
    Routes = {n1}
    Requests = {r1, r2}
    Null = Null
INVARIANTS DeletedRoleGrantsNothing
