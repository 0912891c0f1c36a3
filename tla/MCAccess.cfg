\* Two requests race over two roles and two permissions, three of them at most.
SPECIFICATION Spec
CONSTANTS
    Users = {u1}
    RoleIds = {a1, a2}
    PermIds = {p1, p2}
    RoleNames = {"Administrator", "Editor"}
    Routes = {n1}
    Requests = {r1, r2}
    Null = Null
SYMMETRY Symmetry
CONSTRAINT ThreeIds
INVARIANTS TypeOK RoleNamesUnique ListsAreExact
PROPERTIES GrantsAreDeliberate
