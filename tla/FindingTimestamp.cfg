\* A timestamp fromisoformat does not read.
CONSTANTS
  Requests = {r1}
  Sources = {mes}
  LotSource = mes
  Unrouted = {}
  Routes = {"api"}
  Defects = {"none", "badTimestamp"}
  Slow = {}
  MaxCrashes = 0
  Nobody = Nobody
SPECIFICATION Spec
INVARIANT InvalidIsRefused
