\* Three clients and a probe of two requests each share two connections;
\* no symmetry.
CONSTANTS
  Clients = {c1, c2, c3}
  Probes = {p1}
  Capacity = 2
  MaxRounds = 2
  Nobody = Nobody
SPECIFICATION Spec
INVARIANTS TypeOK PoolConserved WaitsForFinished
PROPERTIES StarvedOnlyInCrowd EveryRequestCloses
