SPECIFICATION FairSpec
CONSTANTS
  ICheckDelay = 1
  TempCheckDelay = 1
  TempPeriod = 1
  StartupDelay = 0
  PowerDownDelay = 1
  AttMax = 2
  CurRstNum = 1
  CurRstDelay = 1
  TempInterval = 1
  CurLevels = {"normal"}
  TempLevels = {"cool","high","over"}
  VccLevels = {"ok","over","dead"}
  RfLevels = {"ok"}
  PowerErrors = {"low","band"}
  Commands = {}
  AttCodes = {1}
  Frequencies = {1}
  Modes = {"auto","manual"}
INVARIANTS
  ReductionHasTimer
PROPERTIES
  RestartComes
  PowerComesBack
  ManualComesToRest
