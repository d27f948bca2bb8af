SPECIFICATION Spec
CONSTANTS
    s1 = s1  s2 = s2  s3 = s3
    orders = orders  users = users  NoDb = NoDb
    Sessions = {s1, s2}
    Dbs = {orders, users}
    Events <- SlowLogCapture
    UrlDb = NoDb
    Cap = 2
    Pooled = FALSE
    AllowWrites = FALSE
    UseEventDb = TRUE
    MaxReadFailures = 0
    MaxSamples = 0
INVARIANTS RightDb
