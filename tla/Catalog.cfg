SPECIFICATION FairSpec
CONSTANTS
    ProductIds = {p, q}
    p = p
    q = q
    Calls = {c1, c2}
    c1 = c1
    c2 = c2
    Missing = missing
    Torn = torn
    MaxPublications = 3
    MaxCrashes = 2
INVARIANTS
    TypeOK
    FeedFileIntact
    ServesOnePublication
    UnracedUpsertKept
PROPERTIES
    NeverServesOlder
    Converges
