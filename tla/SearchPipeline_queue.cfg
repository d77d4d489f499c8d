SPECIFICATION Spec
CONSTANTS
  a = a  b = b  p1 = p1  p2 = p2  s1 = s1  s2 = s2
  Participants = {p1, p2}
  Cities = {a, b}
  Rankings <- OneWave
  NotReady = NotReady
  Slots = {s1}
  MaxAttempts = 2
  MaxStalls = 1
  InitialCandidates = 1
  MaxCandidates = 1
  MaxPlanCalls = 2
  Budget <- QueueFaults
SYMMETRY ParticipantSymmetry
CHECK_DEADLOCK FALSE
INVARIANTS
  NoJourneysHasNone
  FinalizationPending
PROPERTIES
  GenerationSettles
