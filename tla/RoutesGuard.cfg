\* The forms of the panel before RbacFilter.
INIT Init
NEXT Next
CONSTANTS
    Null = Null
    Id = Id
    Wild = Wild
CHECK_DEADLOCK FALSE
INVARIANTS FormsAreAskedFor
