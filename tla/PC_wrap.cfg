SPECIFICATION Spec
CONSTANTS
  ICheckDelay = 1
  TempCheckDelay = 1
  TempPeriod = 2
  StartupDelay = 0
  PowerDownDelay = 1
  AttMax = 5
  CurRstNum = 1
  CurRstDelay = 1
  TempInterval = 1
  CurLevels = {"normal"}
  TempLevels = {"cool","high"}
  VccLevels = {"ok"}
  RfLevels = {"ok"}
  PowerErrors = {"high","band"}
  Commands = {}
  AttCodes = {2}
  Frequencies = {1}
  Modes = {"auto"}
PROPERTIES
  HighPowerStepsDown
