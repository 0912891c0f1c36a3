\* One user, two tokens and two requests; the whole life of both tokens.
SPECIFICATION Spec
CONSTANTS
    Users = {u1}
    Tokens = {t1, t2}
    Requests = {r1, r2}
    Null = Null
    Lifetime = 2
    MaxClock = 5
    DbFails = TRUE
CHECK_DEADLOCK FALSE
INVARIANTS TypeOK BarredRunsOut LogoutHolds
PROPERTIES BarredTurnedAway
