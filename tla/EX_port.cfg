CONSTANTS
  Masters = {"udp", "pc"}
  Panels = {"oled"}
  Freqs = {"f1", "f2"}
  FirstFreq = "f1"
  Tries = 2
  Heads = {1}
  Looks = 2
  ExCntCap = 2
  Room = 4
  Backlog = 1
  MaxCommands = 2
  Apart = TRUE
  Faults = {"lose"}
SPECIFICATION Spec
INVARIANTS TypeOK OnePortUser FlagHasUser
PROPERTIES PortIsExclusive LossNeedsTwoPolls
