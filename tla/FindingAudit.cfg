\* A body that does not parse.
CONSTANTS
  Requests = {r1}
  Sources = {mes}
  LotSource = mes
  Unrouted = {}
  Routes = {"api"}
  Defects = {"unparsable"}
  Slow = {}
  MaxCrashes = 0
  Nobody = Nobody
SPECIFICATION Spec
INVARIANT EveryAnswerAudited
