------------------------ MODULE PowerControlHistory ------------------------
(***************************************************************************)
(* PowerControl with history variables, for the properties that relate a   *)
(* state to earlier ones.  The history never restricts a step.             *)
(***************************************************************************)
EXTENDS PowerControl

VARIABLES
  sinceTrip,    \* seconds since the last protection trip, up to its delay
  autoStarts,   \* times Main_Process switched the gate on since an operator
                \* last gave it a fresh restart budget
  operatorOff,  \* the last word of the operators was "off"
  operatorOn,   \* an operator has switched on since the last trip
  operatorCode, \* an operator has chosen an attenuator code since it
  supplyStart   \* Main_Process last switched the gate on after a trip of the
                \* supply alone

history == <<sinceTrip, autoStarts, operatorOff, operatorOn, operatorCode, supplyStart>>
hvars == <<vars, history>>

HInit ==
  /\ Init
  /\ sinceTrip = 0 /\ autoStarts = 0
  /\ operatorOff = FALSE /\ operatorOn = TRUE /\ operatorCode = FALSE
  /\ supplyStart = FALSE

\* A protection trips in this step.
Tripping == pc = "protect" /\ Trips # {}
\* Main_Process switches the gate on in this step.
AutoStart == ~gate /\ gate'

HPass ==
  /\ Pass
  /\ sinceTrip' = IF Tripping THEN 0 ELSE sinceTrip
  /\ autoStarts' = IF AutoStart THEN autoStarts + 1 ELSE autoStarts
  /\ operatorOn' = (operatorOn /\ ~Tripping)
  /\ operatorCode' = (operatorCode /\ ~Tripping)
  /\ supplyStart' = IF AutoStart THEN cause = {"PAVCCERR"} ELSE supplyStart
  /\ UNCHANGED operatorOff

HTick ==
  /\ SecondTick
  /\ sinceTrip' = CountUp(sinceTrip, rt.out)
  /\ UNCHANGED <<autoStarts, operatorOff, operatorOn, operatorCode, supplyStart>>

HPowerTick == PowerTick /\ UNCHANGED history

HStart ==
  /\ SetOn \/ SetAuto \/ SetPower("power") \/ SetPower("lcdPower")
  /\ autoStarts' = IF restartCount' = 0 THEN 0 ELSE autoStarts
  /\ operatorOff' = FALSE /\ operatorOn' = TRUE
  /\ UNCHANGED <<sinceTrip, operatorCode, supplyStart>>

HOff ==
  /\ SetOff
  /\ operatorOff' = TRUE
  /\ UNCHANGED <<sinceTrip, autoStarts, operatorOn, operatorCode, supplyStart>>

HCode ==
  /\ \E code \in AttCodes : SetAtt(code)
  /\ operatorCode' = TRUE
  /\ UNCHANGED <<sinceTrip, autoStarts, operatorOff, operatorOn, supplyStart>>

HFrequency ==
  /\ \E cmd \in {"freq", "lcdFreq"}, f \in Frequencies : SetFrequency(cmd, f)
  /\ UNCHANGED history

HNext == HPass \/ HTick \/ HPowerTick \/ HStart \/ HOff \/ HCode \/ HFrequency
HSpec == HInit /\ [][HNext]_hvars

-----------------------------------------------------------------------------
(* Properties that hold.                                                   *)

\* "Smaller than the maximum number of restarts": between two operator starts
\* Main_Process switches the amplifier on at most CurRstNum times, by
\* whichever of its two restart paths.
RestartBudget == autoStarts <= CurRstNum

\* While a protection is latched the amplifier carries gate voltage only
\* because an operator has switched it on after the trip.
LatchedMeansOff == cause # {} /\ gate => operatorOn

\* Main_Process never switches the amplifier on before the delay of the last
\* trip has passed, whatever commands, ticks and further trips came between.
CoolDown ==
  [][pc # "idle" /\ pc' # pc /\ ~gate /\ gate' => sinceTrip >= rt.out]_hvars

\* The protection keeps what Protection promises: a trip switches off, and
\* the amplifier comes back from it by an operator's command or, the whole
\* delay of the last trip having passed, by one of the restarts budgeted,
\* whatever commands, ticks and further trips come between the stages of a
\* pass (Power_Control_App.c:278-321, 857-890).
TimerState == IF rt.en THEN "running" ELSE IF rt.to THEN "expired" ELSE "off"
Promise == INSTANCE Protection WITH
  Budget <- CurRstNum, Delays <- {CurRstDelay, TempInterval},
  on <- gate, latched <- (cause # {}), allowed <- operatorOn, starts <- autoStarts,
  state <- TimerState, elapsed <- sinceTrip, delay <- rt.out
KeepsProtection == Promise!Spec

\* A restart in automatic mode begins from full attenuation, whatever the
\* regulation and the commands did since the trip, unless an operator has
\* chosen another code meanwhile.
Restarting == pc = "restart" /\ pc' # pc /\ ~gate /\ gate'
SoftStart == [][Restarting /\ mode = "auto" /\ ~operatorCode => resRear' = 0]_hvars

\* The amplifier runs too hot only if an operator has switched it on since
\* the last trip, or Main_Process has after a trip of the supply alone, whose
\* restart does not look at the temperature (Power_Control_App.c:879): no
\* other restart brings it back hot, and no trigger slips by while the gate
\* is off.
OverTempOff ==
  pc = "idle" /\ gate /\ temp.status = "over" => operatorOn \/ supplyStart

-----------------------------------------------------------------------------
(* What a comment says, and the code does not do.                          *)

\* RS485.c:1551 "off": an amplifier an operator has switched off stays off
\* until an operator switches it on.
OffStaysOff == operatorOff => ~gate
=============================================================================
