SPECIFICATION HSpec
CONSTANTS
  ICheckDelay = 1
  TempCheckDelay = 1
  TempPeriod = 1
  StartupDelay = 1
  PowerDownDelay = 1
  AttMax = 2
  CurRstNum = 1
  CurRstDelay = 1
  TempInterval = 2
  CurLevels = {"normal","over"}
  TempLevels = {"cool","over"}
  VccLevels = {"ok","over"}
  RfLevels = {"ok"}
  PowerErrors = {"vlow","band"}
  Commands = {"on","off","att","lcdFreq"}
  AttCodes = {2}
  Frequencies = {1}
  Modes = {"auto","manual"}
INVARIANTS
  
  LatchedMeansOff
  OverTempOff
PROPERTIES
  KeepsProtection
  SoftStart
