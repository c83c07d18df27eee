SPECIFICATION TasksSpec
CONSTANTS
  Word = 16
  Threads = 3
  Quantum = 2
  BootTicks = 1
  Callers = {1, 2}
  MaxKeys = 1
  Candidates <- MCCandidates
  CountAllocate = 4
  TableQuantum = 4
INVARIANTS
  ContextsIntact
  CallsAreShielded
  FairShare
  TableIsRing
PROPERTIES
  SwitchesInUserCode
  ThreadsProgress
