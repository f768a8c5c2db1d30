\* Two requests with every defect on every route, one crash; the stream of
\* erp is not configured.  No symmetry: refinement and liveness are checked.
CONSTANTS
  Requests = {r1, r2}
  Sources = {mes, erp}
  LotSource = mes
  Unrouted = {erp}
  Routes = {"api", "ui"}
  Defects = {"none", "unparsable", "unknownSource", "unstorableSource",
             "disabledSource", "notAnObject", "schemaInvalid",
             "unserialisable", "badTimestamp", "undriverable"}
  Slow = {"landing", "kinesis", "curated"}
  MaxCrashes = 1
  Nobody = Nobody
SPECIFICATION Spec
INVARIANTS TypeOK AcceptedIsDurable WriteOrder RefusedLeavesNoTrace
           AuditTellsTruth AtMostOnce CuratedInStreamOrder
PROPERTIES KeepsPromise EveryRequestEnds
