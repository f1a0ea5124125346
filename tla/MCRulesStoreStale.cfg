SPECIFICATION Spec
CONSTANTS
    Readers = {}
    Loaders = {l1, l2}
    Writers = {}
    DataSources = {ds1, ds2}
    Empty = Empty
    Terms <- MCPlainTerms
    Lower <- MCPlain
INVARIANT
    PrePackagedFresh
CHECK_DEADLOCK FALSE
