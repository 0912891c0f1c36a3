\* The buttons of the lists, as the browser submits them.
INIT Init
NEXT Next
CONSTANTS
    Null = Null
    Id = Id
    Wild = Wild
CHECK_DEADLOCK FALSE
INVARIANTS ButtonsDoWhatTheySay
