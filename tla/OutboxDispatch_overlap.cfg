\* A cycle that is rejected while its pool still works.
CONSTANTS
  e1 = e1  bad = bad  d1 = d1  d2 = d2  t1 = t1  t2 = t2  t3 = t3
  Events = {e1, bad}
  Poison = {bad}
  Dispatchers = {d1, d2}
  Tokens = {t1, t2, t3}
  NoToken = NoToken
  BatchSize = 2
  Concurrency = 2
  LeaseTicks = 1
  BaseDelay = 1
  MaxDelay = 1
  LeaseCovers = TRUE
  Budget <- OneOfEach
SPECIFICATION Spec
SYMMETRY ModelSymmetry
INVARIANTS CyclesDoNotOverlap
CHECK_DEADLOCK FALSE
