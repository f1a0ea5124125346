SPECIFICATION Spec
CONSTANTS
    Readers = {r1}
    Loaders = {l1}
    Writers = {w1}
    DataSources = {ds1, ds2}
    Empty = Empty
    Terms <- MCTerms
    Lower <- MCLower
INVARIANTS
    TypeOK
    CustomRulesFresh
    CacheCoherent
CHECK_DEADLOCK FALSE
