CONSTANTS
  MsPerSec = 1
  Timers = {"auto", "down", "restart"}
  Delays = {1, 2}
  Interval = 2
  Writers = {"paon"}
SPECIFICATION Spec
INVARIANTS TypeOK TakenOnce
PROPERTIES TimerExpires TimerIsCountdown
