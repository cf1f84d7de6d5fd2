SPECIFICATION HSpec
CONSTANTS
  ICheckDelay = 1
  TempCheckDelay = 1
  TempPeriod = 2
  StartupDelay = 1
  PowerDownDelay = 1
  AttMax = 3
  CurRstNum = 1
  CurRstDelay = 1
  TempInterval = 2
  CurLevels = {"normal","over"}
  TempLevels = {"cool"}
  VccLevels = {"ok"}
  RfLevels = {"ok"}
  PowerErrors = {"band"}
  Commands = {"on","off"}
  AttCodes = {0}
  Frequencies = {1}
  Modes = {"auto"}
INVARIANTS
  OffStaysOff
