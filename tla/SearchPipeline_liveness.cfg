SPECIFICATION FairSpec
CONSTANTS
  a = a  b = b  p1 = p1  p2 = p2  s1 = s1  s2 = s2
  Participants = {p1, p2}
  Cities = {a, b}
  Rankings <- TwoWaves
  NotReady = NotReady
  Slots = {s1}
  MaxAttempts = 1
  MaxStalls = 1
  InitialCandidates = 1
  MaxCandidates = 2
  MaxPlanCalls = 4
  Budget <- OneCrash
CHECK_DEADLOCK FALSE
PROPERTIES
  SearchTerminates
