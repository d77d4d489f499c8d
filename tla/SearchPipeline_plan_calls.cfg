SPECIFICATION Spec
CONSTANTS
  a = a  b = b  p1 = p1  p2 = p2  s1 = s1  s2 = s2
  Participants = {p1, p2}
  Cities = {a, b}
  Rankings <- TwoWaves
  NotReady = NotReady
  Slots = {s1, s2}
  MaxAttempts = 2
  MaxStalls = 1
  InitialCandidates = 1
  MaxCandidates = 2
  MaxPlanCalls = 4
  Budget <- NoFaults
SYMMETRY ModelSymmetry
CHECK_DEADLOCK FALSE
INVARIANTS
  PlanCallsWithinBudget
