\* Two clients of one call each, two lives of the container; clients stop,
\* so the system may.
CONSTANTS
  Clients = {c1, c2}
  ScriptStreams <- MCScriptStreams
  OtherStreams <- MCOtherStreams
  MaxLives = 2
  MaxCalls = 1
SPECIFICATION Spec
INVARIANTS TypeOK EnsuredExists
PROPERTIES StopsOnlyUnready ProbeTellsTruth EventuallyBootstrapped
CHECK_DEADLOCK FALSE
