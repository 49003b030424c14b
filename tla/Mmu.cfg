SPECIFICATION FairSpec
CONSTANTS
  c1 = c1
  c2 = c2
  s1 = s1
  p1 = p1
  NoParent = NoParent
  Uops <- MCUops
  Parents <- MCParents
  ParentOf <- MCParentOf
  PidOf <- TwoPids
  Knobs <- BothModes
  TlbSize = 1
  FaultBufferSize = 1
  WalkLatency = 1
  EvictionLatency = 0
  BatchOverhead = 0
INVARIANTS
  MappingsAgree
  FreeFrameEnsured
  TranslationIsCurrent
PROPERTY MissIsTranslated
CHECK_DEADLOCK FALSE
