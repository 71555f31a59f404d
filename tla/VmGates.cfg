SPECIFICATION MCSpec
CONSTANTS
  s1 = s1
  s2 = s2
  g1 = g1
  Clients = {s1, s2, g1}
  Suites = {s1, s2}
  Gates = {g1}
  Pads = {0, 1, 2}
  ReadyFrame = 2
  InitialRoom = 0
  TargetRoom = 1
  TransitionAfter = 2
  CorruptChoices = {TRUE, FALSE}
  SavedGuests <- MCSavedGuests
  FaultBounds = {1, 2}
  MaxWords = 3
  MaxFrames = 4
  MaxIterations = 2
  Options <- MCSuiteOptions
  GateOptions <- MCGateOptions
INVARIANTS InjectionPlaysScript SuiteVerdict GateVerdict LeasesAccounted
PROPERTY Termination
