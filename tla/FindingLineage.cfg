\* Two sound requests.
CONSTANTS
  Requests = {r1, r2}
  Sources = {mes}
  LotSource = mes
  Unrouted = {}
  Routes = {"api"}
  Defects = {"none"}
  Slow = {}
  MaxCrashes = 0
  Nobody = Nobody
SPECIFICATION Spec
INVARIANT LineagePairsOwnRow
