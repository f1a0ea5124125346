SPECIFICATION Spec
CONSTANTS
  NoCopy = NoCopy
  MaxEdits = 1
  MaxCalls = 2
  MaxLoads = 2
  MaxDetectors = 2
  MaxPages = 2
  Findings = {f1, f2}
  MaxViews = 3
  Local = Local
  Remotes = {remote1, remote2}
  NoChoice = NoChoice
  NoCall = NoCall
  MaxExtras = 3
INVARIANTS TypeOK UndoesNothing RulesBeforeFindings CorrelationsCurrent RequestsArrive
PROPERTIES AbortStops WaitingEnds
CHECK_DEADLOCK FALSE
