SPECIFICATION FairSpec
CONSTANTS
    s1 = s1  s2 = s2  s3 = s3
    orders = orders  users = users  NoDb = NoDb
    Sessions = {s1, s2, s3}
    Dbs = {orders, users}
    Events <- BusyCapture
    UrlDb = orders
    Cap = 2
    Pooled = TRUE
    AllowWrites = TRUE
    UseEventDb = TRUE
    MaxReadFailures = 0
    MaxSamples = 0
INVARIANTS RightDb AbortIsReported
PROPERTIES AbortStopsSending
