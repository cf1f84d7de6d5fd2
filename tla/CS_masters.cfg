SPECIFICATION Spec
CONSTANTS
  N = 1
  NewValues = {"new"}
  CfgCells = {1}
  MsgCells = {1}
  Commands = {"set","act","factory"}
  Remotes = {"uart1","uart2","udp"}
  Locals = {"panel","paon"}
  WriteMayFail = TRUE
  BootTrouble = FALSE
INVARIANTS
  TypeOK
  
  ShownIsStored
  OldOrNew
PROPERTIES
  BootLoads
  ImageStaysValid
