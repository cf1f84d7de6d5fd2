SPECIFICATION Spec
CONSTANTS
  ICheckDelay = 1
  TempCheckDelay = 1
  TempPeriod = 2
  StartupDelay = 1
  PowerDownDelay = 1
  AttMax = 5
  CurRstNum = 1
  CurRstDelay = 1
  TempInterval = 2
  CurLevels = {"normal"}
  TempLevels = {"cool","high"}
  VccLevels = {"ok"}
  RfLevels = {"ok"}
  PowerErrors = {"vlow","band","high"}
  Commands = {"on","off","auto","power","lcdPower","att","freq","lcdFreq"}
  AttCodes = {0,4}
  Frequencies = {1,2}
  Modes = {"auto","manual"}
INVARIANTS
  TypeOK
  
PROPERTIES
  ManualCeiling
