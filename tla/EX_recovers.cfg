CONSTANTS
  Masters = {"pc"}
  Panels = {}
  Freqs = {"f1", "f2"}
  FirstFreq = "f1"
  Tries = 1
  Heads = {1, 2}
  Looks = 2
  ExCntCap = 2
  Room = 4
  Backlog = 1
  MaxCommands = 1
  Apart = TRUE
  Faults = {"exchange", "die"}
SPECIFICATION Spec
PROPERTIES Resync Recovers SilenceNoticed CommandEnds
