SPECIFICATION Spec
CONSTANTS
  N = 1
  NewValues = {"new"}
  CfgCells = {1}
  MsgCells = {1}
  Commands = {"set"}
  Remotes = {"udp"}
  Locals = {}
  WriteMayFail = FALSE
  BootTrouble = FALSE
PROPERTIES
  ReadBackIsHarmless
