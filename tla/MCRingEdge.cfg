SPECIFICATION SectionSpec
CONSTANTS
  c1 = c1
  c2 = c2
  w1 = w1
  w2 = w2
  Consumers = {c1}
  Words = {w1, w2}
  Section = 2
  Capacities = {2}
  FillSeq = 0
  MaxSeq = 3
  MaxRuns = 2
INVARIANTS
  RestartedAtLiveEdge
CHECK_DEADLOCK FALSE
