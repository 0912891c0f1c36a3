\* A logged-out token presented to the API.
SPECIFICATION Spec
CONSTANTS
    Users = {u1}
    Tokens = {t1}
    Requests = {r1}
    Null = Null
    Lifetime = 2
    MaxClock = 3
    DbFails = FALSE
CHECK_DEADLOCK FALSE
INVARIANTS LoggedOutNeverReused
