SPECIFICATION Spec
CONSTANTS
  c1 = c1
  c2 = c2
  s1 = s1
  p1 = p1
  NoParent = NoParent
  Uops <- MCUops
  Parents <- MCParents
  ParentOf <- MCParentOf
  PidOf <- TwoPids
  Knobs <- OneFrame
  TlbSize = 1
  FaultBufferSize = 1
  WalkLatency = 0
  EvictionLatency = 0
  BatchOverhead = 0
INVARIANTS
  InsertedPageIsNew
CHECK_DEADLOCK FALSE
