\* A sound request.
CONSTANTS
  Requests = {r1}
  Sources = {mes}
  LotSource = mes
  Unrouted = {}
  Routes = {"api"}
  Defects = {"none"}
  Slow = {}
  MaxCrashes = 0
  Nobody = Nobody
SPECIFICATION Spec
INVARIANT AuditHasDuration
