CONSTANTS
  Frames <- MCFrames
  MinLimit = 1
  DefaultMax = 3
  MaxFrames = 4
SPECIFICATION Spec
INVARIANTS TypeOK ConformingPeerIsServed
PROPERTIES ImplementsAgentProtocol EveryFrameAnswered
CHECK_DEADLOCK FALSE
