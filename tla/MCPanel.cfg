\* Each part alone, at its own bounds.
CONSTANTS
  Null = Null
  Id = Id
  Wild = Wild
  MinSize = 2
  ApiMax = 2
  Offered = 2
  MaxRows = 3
  MaxItems = 10
  Requests = {r1, r2}
  UrlTtl = 1
  MaxTick = 2
  MaxForms = 2
  Visitors = {v1, v2}
  Default = Default
  Rare = Rare
  Ttl = 1
  MaxCrashes = 1
  Calls = {c1, c2}
  Limit = 2
  Window = 2
  MaxRestarts = 1
  Sessions = {s1, s2}
  Addresses = {a1, a2}
  MaxHour = 3
  Actors = {t1, t2}
  MaxMessages = 3
  MaxFields = 3
  Migrations = 2
  MaxBoots = 3
SPECIFICATION Spec
CHECK_DEADLOCK FALSE
INVARIANTS TypeOK FormsReachTheirOperation GuardNamesTheOperation RedirectsEnd
INVARIANTS WalkShowsEveryRow LinksAreInOrder PicturesAreStored PicturesAreTheirOwn
INVARIANTS AnswersAreWhole AtMostTwice HonestFormsPass
INVARIANTS SessionsDoNotMix PageShowsItsMessage FormsReadBack SecretIsStable StartsAreComplete
PROPERTIES EditKeepsRoles CatalogRecovers BootKeepsRows
