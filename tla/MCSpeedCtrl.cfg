SPECIFICATION FairSpec
CONSTANTS
  Paras <- MCParas
  Starts <- MCStarts
  Glitches <- MCGlitches
  IMax = 250
  OutHzMax = 5000
  DMax = 100
  Settled = 1
  MaxLag = 1
  MaxGlitch = 1
  MaxCmd = 1
INVARIANTS TypeOK IntegralFollowsError NeverStalls
PROPERTIES NoDeadBand SpeedReached
