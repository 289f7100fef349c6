SPECIFICATION FairSpec
CONSTANTS
    Users = {u1}
    Documents = {d1}
    Requests = {r1, r2}
    Lifetime = 2
    Failures = {"statement", "audit", "storage", "kill"}
INVARIANTS AccessTypeOK LoginsAreAudited DownloadsAreAudited
PROPERTIES AccessEnds
