SPECIFICATION FairSpec
CONSTANTS
  s1 = s1
  s2 = s2
  Stream <- TwoStreams
  Controls <- AsyncControls
INVARIANTS
  EvidenceHolds
PROPERTIES
  ReleaseAfterClose
  QuietForGood
  ControlsEnd
  ReleasedEnds
