\* Three requests of two sources, one crash: the orders of rows and audit
\* entries.  The requests are sound: only the stores and the process fail,
\* which parts rows and audit entries in every way, late commits included.
CONSTANTS
  Requests = {r1, r2, r3}
  Sources = {mes, erp}
  LotSource = mes
  Unrouted = {}
  Routes = {"ui"}
  Defects = {"none"}
  Slow = {"curated", "audit"}
  MaxCrashes = 1
  Nobody = Nobody
SPECIFICATION Spec
SYMMETRY Symmetry
INVARIANTS UiShowsOwnRow LineageNeverAhead LineageExactWhenComplete
