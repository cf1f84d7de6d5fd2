------------------------------ MODULE Countdown ------------------------------
(***************************************************************************)
(* What Main_Process (Power_Control_App.c) counts on of its restart timer  *)
(* OVERLOADRESTARTTIMER, a MYTIMER (structure.h) that it arms and takes    *)
(* and App_TaskStart (main.c) counts: armed with a delay it runs that      *)
(* delay, no second more or less, and then waits to be taken.  It promises *)
(* nothing when it is armed in the few instructions in which App_TaskStart *)
(* counts it ("spoilt"), until it is armed again.                          *)
(***************************************************************************)
EXTENDS Naturals

CONSTANT Delays   \* it may be armed with, in seconds

VARIABLES
  state,      \* "off", "running", "expired" or "spoilt"
  elapsed,    \* seconds since it was last armed, up to its delay
  delay       \* it was last armed with

vars == <<state, elapsed, delay>>

Init == state = "off" /\ elapsed = 0 /\ delay \in Delays

Load == elapsed' = 0 /\ delay' \in Delays

Arm == state' = "running" /\ Load

Spoil == state' = "spoilt" /\ Load

\* A second of the delay; the last one may end it at once.
Second ==
  /\ elapsed < delay
  /\ elapsed' = elapsed + 1
  /\ \/ state' = state
     \/ state = "running" /\ elapsed' = delay /\ state' = "expired"
  /\ UNCHANGED delay

Expire ==
  /\ state = "running" /\ elapsed = delay
  /\ state' = "expired"
  /\ UNCHANGED <<elapsed, delay>>

\* The timeout is taken.
Take ==
  /\ state = "expired"
  /\ state' = "off"
  /\ UNCHANGED <<elapsed, delay>>

Next == Arm \/ Spoil \/ Second \/ Expire \/ Take

Spec == Init /\ [][Next]_vars
=============================================================================
