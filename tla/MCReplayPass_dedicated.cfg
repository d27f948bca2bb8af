SPECIFICATION FairSpec
CONSTANTS
    s1 = s1  s2 = s2  s3 = s3
    orders = orders  users = users  NoDb = NoDb
    Sessions = {s1, s2, s3}
    Dbs = {orders, users}
    Events <- PacketCapture
    UrlDb = NoDb
    Cap = 1
    Pooled = FALSE
    AllowWrites = FALSE
    UseEventDb = TRUE
    MaxReadFailures = 1
    MaxSamples = 1
INVARIANTS
    TypeOK ConnectionCap WriteGate EveryEventCounted WaitersExact NothingLeaks
PROPERTIES PassEnds
