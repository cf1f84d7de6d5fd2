----------------------------- MODULE Protection -----------------------------
(***************************************************************************)
(* What the protection of the power amplifier promises (the protections    *)
(* and the restart of Main_Process, Power_Control_App.c): a trip switches  *)
(* it off and latches; it comes back by itself only from the latch, after  *)
(* the whole delay of the last trip and within a budget of restarts; and   *)
(* whatever else switches it on is an operator's command.                  *)
(***************************************************************************)
EXTENDS Naturals

CONSTANTS
  Budget,   \* restarts by itself between two operator starts (CurRstNum)
  Delays    \* the protections may wait before a restart

VARIABLES
  on,       \* gate voltage
  latched,  \* a protection has tripped and not been answered by a restart
  allowed,  \* an operator has switched on since the last trip
  starts,   \* switched on by itself since an operator renewed the budget
  state, elapsed, delay   \* the restart timer

Timer == INSTANCE Countdown

timer == <<state, elapsed, delay>>
vars == <<on, latched, allowed, starts, timer>>

Init ==
  /\ on = TRUE /\ latched = FALSE /\ allowed = TRUE /\ starts = 0
  /\ Timer!Init

Trip ==
  /\ Timer!Arm
  /\ on' = FALSE /\ latched' = TRUE /\ allowed' = FALSE
  /\ UNCHANGED starts

Wait ==
  /\ Timer!Second \/ Timer!Expire
  /\ UNCHANGED <<on, latched, allowed, starts>>

Restart ==
  /\ latched /\ Timer!Take
  /\ on' = TRUE /\ latched' = FALSE
  /\ starts' = (IF on THEN starts ELSE starts + 1) /\ starts' <= Budget
  /\ UNCHANGED allowed

SwitchOn ==
  /\ on' = TRUE /\ allowed' = TRUE
  /\ starts' \in {0, starts}
  /\ UNCHANGED <<latched, timer>>

SwitchOff ==
  /\ on' = FALSE
  /\ UNCHANGED <<latched, allowed, starts, timer>>

Next == Trip \/ Wait \/ Restart \/ SwitchOn \/ SwitchOff

Spec == Init /\ [][Next]_vars
=============================================================================
