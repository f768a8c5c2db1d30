\* Two threads of three calls, a configuration file and a schema file; no
\* symmetry.  The threads stop after their last call.
CONSTANTS
  Threads = {t1, t2}
  ConfigFiles = {sources}
  SchemaFiles = {lot}
  MaxGen = 2
  MaxCalls = 3
  Free = Free
SPECIFICATION Spec
CHECK_DEADLOCK FALSE
INVARIANTS TypeOK ParsedOnce NoStaleReload
PROPERTIES EveryCallReturns CallsAreAtomic
