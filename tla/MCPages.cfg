SPECIFICATION Spec
CONSTANTS
  NoSource = NoSource
  DataSources = {local, remote}
  MaxPage = 1
  MaxSelections = 2
  MaxMaps = 2
  MaxRules = 1
  FewEdits = 1
  MoreEdits = 2
  ManyEdits = 3
  MaxCalls = 2
  LogTypeNames = {dns, windows}
  RuleNames = {r1}
  MaxTriggers = 2
  NoSelection = NoSelection
  S3Fields = {bucket}
  MaxReads = 1
  Alerts = {a1, a2}
  Documents = {d1, d2}
INVARIANTS TypeOK SourceKept ScanKept PagesCurrent AlertsHandled NavigationSettles RuleShown PartsKept
  TriggersHold MappingsHold SubmitsComplete
CHECK_DEADLOCK FALSE
SYMMETRY Symmetry
