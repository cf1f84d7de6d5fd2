---------------------------- MODULE PowerControl ----------------------------
(***************************************************************************)
(* The power amplifier's protection and power control:                     *)
(* Private/Power_Control_App.c (AP_Startup, AP_Shutdown,                   *)
(* Temp_CheckProcess, Main_Process), the task that runs it every 70 ms     *)
(* (USER/main.c, TaskPAON), the task that counts its timers (App_TaskStart)*)
(* and the operator's commands (RS485.c CMD_SetProcess for the UART, UDP   *)
(* and web masters; lcd_menu.c for the front panel).                       *)
(*                                                                         *)
(* TaskPAON has priority 14.  The tasks that carry commands (10, 12, 13)   *)
(* preempt it, so Main_Process is cut at its stages by "pc" and a command  *)
(* may come between any two of them.  App_TaskStart has the lowest         *)
(* priority (15), so a timer tick comes only between two passes.           *)
(*                                                                         *)
(* Analog quantities are abstracted to the comparisons the code makes; the *)
(* attenuator code, the offsets and the timers keep their numbers.         *)
(***************************************************************************)
EXTENDS Integers, PaChannels

CONSTANTS
  ICheckDelay,     \* I_CHECK_DELAY: passes over a current, supply or RF limit
  TempCheckDelay,  \* TEMP_CHECK_DELAY: temperature checks over a limit
  TempPeriod,      \* passes per temperature check (21 in TaskPAON)
  StartupDelay,    \* STARTUPDELAYCONTER, seconds before power is regulated
  PowerDownDelay,  \* initial Out_Count of CHECKPOWERDOWNTIMER (30)
  AttMax,          \* largest attenuator code, i.e. least attenuation (62)
  CurRstNum, CurRstDelay, TempInterval,  \* the settings of the same name
  CurLevels, TempLevels, VccLevels, RfLevels,  \* readings the sensors give
  PowerErrors,     \* comparisons of the forward power with its target
  Commands,        \* operator commands that may arrive
  AttCodes,        \* attenuator codes an operator asks for
  Frequencies,     \* carrier frequencies
  Modes            \* P_AutoContrl at power-up

TptLevels == {"cool", "warm", "high", "over"}
PowerErrorClasses ==
  {"vlow", "low12", "low", "edge", "band", "upper", "high", "vhigh"}
CommandNames ==
  {"on", "off", "auto", "power", "lcdPower", "att", "freq", "lcdFreq"}
Causes == {"PAVCCERR", "OVERLOAD", "OVERTEMP", "RFHEIGHT"}
ModeNames == {"auto", "manual"}

ASSUME ConstantsAssumption ==
  /\ ICheckDelay \in Nat \ {0} /\ TempCheckDelay \in Nat \ {0}
  /\ TempPeriod \in Nat \ {0}
  /\ StartupDelay \in Nat /\ PowerDownDelay \in Nat
  /\ AttMax \in 1..62
  /\ CurRstNum \in 0..255 /\ CurRstDelay \in Nat /\ TempInterval \in Nat
  /\ CurLevels \subseteq Levels /\ TempLevels \subseteq TptLevels
  /\ VccLevels \subseteq VccReadings /\ RfLevels \subseteq RfReadings
  /\ PowerErrors \subseteq PowerErrorClasses
  /\ Commands \subseteq CommandNames /\ AttCodes \subseteq 0..AttMax
  /\ Modes \subseteq ModeNames

VARIABLES
  pc,             \* where TaskPAON is in its pass
  tmpdelay,       \* passes since the last temperature check
  tpt,            \* PA_TPT, the last good temperature reading
  cur, temp, vcc, rf,   \* the four debounced channels
  gate,           \* gate voltage on (SetGateCtrl, read by GateVolCheck)
  cause,          \* Protect_Shutdown_Cause, a set of bits
  rt,             \* OVERLOADRESTARTTIMER
  restartCount,   \* I_OverLoadRestartCount
  mode,           \* P_AutoContrl
  offset,         \* P_DownOffset (W): power taken off the target, auto mode
  resFront,       \* RES_Front: code taken off the target, manual mode
  dt,             \* CHECKPOWERDOWNTIMER
  proDown,        \* power-down bits of ProState (the alarms shown)
  resRear,        \* RES_Rear, the attenuator code in force
  target,         \* P_Res_Front_Target
  at,             \* POWERAUTOTIMER (10 ms ticks; only enable and timeout)
  manualChanging, powerChanging,
  startup,        \* StartupCtrlDelay
  fmFrq           \* P_FmFrq

senseVars   == <<tmpdelay, tpt, cur, temp, vcc, rf>>
protectVars == <<gate, cause, rt, restartCount>>
reduceVars  == <<offset, resFront, dt, proDown>>
loopVars    == <<resRear, target, at, manualChanging, powerChanging>>
configVars  == <<mode, fmFrq>>
vars == <<pc, senseVars, protectVars, reduceVars, loopVars, configVars, startup>>

Timer == [en : BOOLEAN, to : BOOLEAN, count : Nat, out : Nat]
Off == [en |-> FALSE, to |-> FALSE]
Running == [en |-> TRUE, to |-> FALSE]
\* Mistake: the enable flag is forgotten.
ArmedWithoutEnable(delay) == [en |-> FALSE, to |-> FALSE, count |-> 0, out |-> delay]
Armed(delay) == [en |-> TRUE, to |-> FALSE, count |-> 0, out |-> delay]
Disarmed(delay) == [Armed(delay) EXCEPT !.en = FALSE]

-----------------------------------------------------------------------------
(* Helpers of the code that several handlers call.  A definition commented *)
(* "Mistake" is a variant of the one after it that a slip in the code      *)
(* would give; no specification uses it.                                   *)

\* Mistake: the clamp to the maximum is left out.
AttSendUnclamped(code) == code % 256

\* ATT_Senddata takes a byte: a negative code wraps, and whatever is above
\* the maximum becomes the maximum.
AttSend(code) == LET byte == code % 256 IN IF byte >= AttMax THEN AttMax ELSE byte

\* Mistake: only the timer is stopped.
AP_ShutdownTimerOnly == UNCHANGED gate /\ at' = Off

AP_Shutdown == gate' = FALSE /\ at' = Off

AP_Startup ==
  /\ gate' = TRUE
  /\ at' = Running
  /\ manualChanging' = IF mode = "manual" THEN FALSE ELSE manualChanging

\* Mistake: the timer stops without leaving a timeout.
TickedSilently(t) ==
  IF ~t.en THEN t
  ELSE IF t.count + 1 >= t.out
       THEN [t EXCEPT !.en = FALSE, !.count = 0]
       ELSE [t EXCEPT !.count = @ + 1]

\* One second of a timer: it stops itself and leaves a timeout behind.
Ticked(t) ==
  IF ~t.en THEN t
  ELSE IF t.count + 1 >= t.out
       THEN [t EXCEPT !.en = FALSE, !.to = TRUE, !.count = 0]
       ELSE [t EXCEPT !.count = @ + 1]

-----------------------------------------------------------------------------
(* TaskPAON: one pass.                                                     *)

Goto(from, to) == pc = from /\ pc' = to

\* Readings are taken, and every TempPeriod passes the temperature is read
\* (a failed reading keeps the old value) and checked.
Sample ==
  /\ Goto("idle", "sense")
  /\ IF tmpdelay + 1 < TempPeriod
     THEN /\ tmpdelay' = tmpdelay + 1
          /\ UNCHANGED <<tpt, temp>>
     ELSE /\ tmpdelay' = 0
          /\ tpt' \in TempLevels \union {tpt}
          /\ temp' = CheckLimits(temp,
                                 IF tpt' \in {"high", "over"} THEN tpt' ELSE "normal",
                                 TempCheckDelay)
  /\ UNCHANGED <<cur, vcc, rf, protectVars, reduceVars, loopVars, configVars, startup>>

\* Head of Main_Process: the other channels, and the restart of a timer that
\* has expired with no protection cause left.
Sense ==
  /\ Goto("sense", "gate")
  /\ \E i \in CurLevels, v \in VccLevels, r \in RfLevels :
       /\ cur' = CheckLimits(cur, i, ICheckDelay)
       /\ vcc' = CheckVcc(vcc, v, ICheckDelay)
       /\ rf' = CheckReflected(rf, r, ICheckDelay)
  /\ IF cause = {} /\ rt.to
     THEN /\ rt' = [rt EXCEPT !.to = FALSE]
          /\ resRear' = AttSend(0)
          /\ AP_Startup
     ELSE UNCHANGED <<rt, resRear, gate, at, manualChanging>>
  /\ UNCHANGED <<tmpdelay, tpt, temp, cause, restartCount, target, powerChanging,
                 reduceVars, configVars, startup>>

\* The protections and the power reduction are for an amplifier that is on;
\* the gate is read once for both.
CheckGate ==
  /\ pc = "gate"
  /\ pc' = IF gate THEN "protect" ELSE "regulate"
  /\ UNCHANGED <<senseVars, protectVars, reduceVars, loopVars, configVars, startup>>

\* The protections whose condition has just been met.
Trips ==
  {c \in Causes :
     \/ c = "PAVCCERR" /\ Triggers(vcc, "high")
     \/ c = "OVERLOAD" /\ Triggers(cur, "over")
     \/ c = "OVERTEMP" /\ Triggers(temp, "over")
     \/ c = "RFHEIGHT" /\ Triggers(rf, "over")}

RestartDelay(trips) ==
  IF "OVERTEMP" \in trips /\ "RFHEIGHT" \notin trips THEN TempInterval ELSE CurRstDelay

\* Mistake: the attenuator is left where it is.
ShutDownForUnmuted(trips) ==
  /\ AP_Shutdown
  /\ cause' = cause \union trips
  /\ rt' = Armed(RestartDelay(trips))
  /\ UNCHANGED resRear

\* Mistake: a trip while another is latched leaves the timer as it runs.
ShutDownForFirst(trips) ==
  /\ resRear' = AttSend(0)
  /\ cause' = cause \union trips
  /\ AP_Shutdown
  /\ rt' = IF cause = {} THEN Armed(RestartDelay(trips)) ELSE rt

\* Each protection that trips shuts down and arms the restart timer; the
\* last one in the code's order gives the delay.
ShutDownFor(trips) ==
  /\ resRear' = AttSend(0)
  /\ cause' = cause \union trips
  /\ AP_Shutdown
  /\ rt' = Armed(RestartDelay(trips))

Protect ==
  /\ Goto("protect", "temp")
  /\ IF Trips = {} THEN UNCHANGED <<gate, cause, rt, resRear, at>> ELSE ShutDownFor(Trips)
  /\ UNCHANGED restartCount
  /\ UNCHANGED <<senseVars, reduceVars, target, manualChanging, powerChanging,
                 configVars, startup>>

\* One step of power reduction, in the quantity the mode works with.
StepDown ==
  IF mode = "auto"
  THEN /\ offset' = IF offset > -15 THEN offset - 5 ELSE offset
       /\ UNCHANGED <<resFront, resRear>>
  ELSE /\ resFront' = IF resFront > -10 THEN resFront - 2 ELSE resFront
       /\ resRear' = IF target >= target + resFront' THEN AttSend(target + resFront')
                     ELSE resRear
       /\ UNCHANGED offset

\* A channel has just gone into its reduction band.
ReduceOnTrigger(delay) ==
  /\ StepDown
  /\ manualChanging' = IF mode = "manual" /\ target >= target + resFront' THEN TRUE
                       ELSE manualChanging
  /\ dt' = Armed(delay)

\* A channel has just left its reduction band: one step back up.  The two
\* modes restart the interval with different settings.
RestoreOnRelease(delay) ==
  \/ /\ mode = "auto"
     /\ offset' = IF offset < 0 THEN offset + 5 ELSE 0
     /\ dt' = IF offset' # 0 THEN Armed(delay) ELSE Disarmed(delay)
     /\ UNCHANGED <<resFront, resRear, manualChanging>>
  \/ /\ mode = "manual" /\ resFront < 0
     /\ resFront' = resFront + 2
     /\ IF target >= target + resFront'
        THEN resRear' = AttSend(target + resFront') /\ manualChanging' = TRUE
        ELSE UNCHANGED <<resRear, manualChanging>>
     /\ dt' = IF resFront' # 0 THEN Armed(CurRstDelay) ELSE dt
     /\ UNCHANGED offset
  \/ /\ mode = "manual" /\ resFront >= 0
     /\ offset' = 0
     /\ dt' = Disarmed(CurRstDelay)
     /\ manualChanging' = FALSE
     /\ UNCHANGED <<resFront, resRear>>

\* One channel's reduction or recovery in this pass.
Reduce(ch, bit, delay) ==
  \/ /\ Triggers(ch, "high")
     /\ proDown' = proDown \union {bit}
     /\ ReduceOnTrigger(delay)
  \/ /\ Releases(ch, "high")
     /\ RestoreOnRelease(delay)
     /\ UNCHANGED proDown
  \/ /\ ~Triggers(ch, "high") /\ ~Releases(ch, "high")
     /\ UNCHANGED <<reduceVars, resRear, manualChanging>>

ReduceTemp ==
  /\ Goto("temp", "current")
  /\ Reduce(temp, "TEMP_POWERDOWN", TempInterval)
  /\ UNCHANGED <<senseVars, protectVars, target, at, powerChanging, configVars, startup>>

ReduceCurrent ==
  /\ Goto("current", "interval")
  /\ Reduce(cur, "I_POWERDOWN", CurRstDelay)
  /\ UNCHANGED <<senseVars, protectVars, target, at, powerChanging, configVars, startup>>

\* The reduction interval: while a channel stays in its band one more step
\* down per timeout, and once none does one step back up per timeout.
InBand == cur.status = "high" \/ temp.status = "high"

\* Mistake: the timer is not started again after a step up.
StepUpOnce ==
  /\ offset' = IF mode = "auto" /\ offset < 0 THEN offset + 5 ELSE offset
  /\ resFront' = IF mode = "manual" /\ resFront < 0 THEN resFront + 2 ELSE resFront
  /\ dt' = [dt EXCEPT !.en = FALSE, !.to = FALSE, !.count = 0]
  /\ UNCHANGED <<resRear, manualChanging>>

StepUp ==
  \/ /\ mode = "auto"
     /\ offset' = IF offset < 0 THEN offset + 5 ELSE 0
     /\ dt' = [dt EXCEPT !.en = (offset < 0), !.to = FALSE, !.count = 0]
     /\ UNCHANGED <<resFront, resRear, manualChanging>>
  \/ /\ mode = "manual" /\ resFront < 0
     /\ resFront' = resFront + 2
     /\ dt' = [dt EXCEPT !.en = TRUE, !.to = FALSE, !.count = 0]
     /\ IF target >= target + resFront'
        THEN resRear' = AttSend(target + resFront') /\ manualChanging' = TRUE
        ELSE UNCHANGED <<resRear, manualChanging>>
     /\ UNCHANGED offset
  \/ /\ mode = "manual" /\ resFront >= 0
     /\ resFront' = 0
     /\ dt' = [dt EXCEPT !.en = FALSE, !.to = FALSE, !.count = 0]
     /\ manualChanging' = FALSE
     /\ UNCHANGED <<offset, resRear>>

ReduceInterval ==
  /\ Goto("interval", "regulate")
  /\ \/ /\ dt.to /\ InBand
        /\ StepDown
        /\ dt' = [dt EXCEPT !.en = TRUE, !.to = FALSE, !.count = 0]
        /\ UNCHANGED manualChanging
     \/ /\ dt.to /\ ~InBand
        /\ StepUp
     \/ /\ ~dt.to
        /\ dt' = [dt EXCEPT !.en = @ \/ InBand]
        /\ UNCHANGED <<offset, resFront, resRear, manualChanging>>
  /\ UNCHANGED <<senseVars, protectVars, proDown, target, at, powerChanging,
                 configVars, startup>>

\* The attenuator code after one regulation step in each mode.
ManualCode(err) ==
  CASE err \in {"high", "vhigh"} -> AttSend(resRear - 1)
    [] err \in {"low12", "low"}  -> AttSend(resRear + 1)
    [] err = "vlow"              -> AttSend(resRear + 3)
    [] OTHER                     -> resRear
AutoCode(err) ==
  CASE err = "vlow"              -> AttSend(resRear + 2)
    [] err \in {"low12", "low"}  -> AttSend(resRear + 1)
    [] err = "high"              -> AttSend(resRear - 1)
    [] err = "vhigh"             -> AttSend(resRear - 2)
    [] OTHER                     -> resRear

Started == startup >= StartupDelay
InManual == mode = "manual" /\ ~manualChanging /\ Started
InAuto == mode = "auto" /\ gate /\ Started

\* Manual mode: the power has come into its band below the target code; the
\* code reached becomes the target and regulation ends.
ManualSettle(err) ==
  /\ InManual /\ at.to /\ gate /\ target >= resRear /\ err = "band"
  /\ at' = Off
  /\ target' = IF powerChanging THEN resRear ELSE target
  /\ powerChanging' = FALSE
  /\ manualChanging' = TRUE
  /\ UNCHANGED resRear

\* Mistake: a code above the target is not brought back.
ManualStepUnchecked(err) ==
  /\ InManual
  /\ ~(at.to /\ gate /\ target >= resRear /\ err = "band")
  /\ resRear' = IF at.to /\ gate THEN ManualCode(err) ELSE resRear
  /\ manualChanging' = FALSE
  /\ powerChanging' = (target # resRear')
  /\ at' = IF target # resRear' THEN Running ELSE Off
  /\ UNCHANGED target

\* Mistake: regulation is never ended.
ManualStepEndless(err) ==
  /\ InManual
  /\ ~(at.to /\ gate /\ target >= resRear /\ err = "band")
  /\ resRear' = IF at.to /\ target >= resRear /\ gate THEN ManualCode(err)
                ELSE IF at.to /\ target < resRear THEN AttSend(target)
                ELSE resRear
  /\ powerChanging' = (target # resRear')
  /\ at' = Running
  /\ UNCHANGED <<target, manualChanging>>

\* Manual mode otherwise: step towards the target code on a timeout, and
\* keep the timer running until it is reached.
ManualStep(err) ==
  /\ InManual
  /\ ~(at.to /\ gate /\ target >= resRear /\ err = "band")
  /\ resRear' = IF at.to /\ target >= resRear /\ gate THEN ManualCode(err)
                ELSE IF at.to /\ target < resRear THEN AttSend(target)
                ELSE resRear
  /\ manualChanging' = (at.to /\ target < resRear)
  /\ powerChanging' = (target # resRear')
  /\ at' = IF target # resRear' THEN Running ELSE Off
  /\ UNCHANGED target

AutoStep(err) ==
  /\ InAuto
  /\ resRear' = IF at.to THEN AutoCode(err) ELSE resRear
  /\ LET changing == \/ powerChanging
                     \/ err \in {"vlow", "low12", "high", "vhigh"}
                     \/ at.to /\ err = "low"
     IN /\ powerChanging' = (changing /\ err # "band")
        /\ target' = IF changing /\ err = "band" THEN resRear' ELSE target
        /\ at' = IF err = "band" THEN Off ELSE IF changing THEN Running ELSE at
  /\ UNCHANGED manualChanging

Regulate ==
  /\ Goto("regulate", "restart")
  /\ \/ \E err \in PowerErrors : ManualSettle(err) \/ ManualStep(err) \/ AutoStep(err)
     \/ ~InManual /\ ~InAuto /\ UNCHANGED loopVars
  /\ UNCHANGED <<senseVars, protectVars, reduceVars, configVars, startup>>

\* Mistake: neither the temperature nor the supply is looked at.
MayRestartBlindly ==
  rt.to /\ restartCount < CurRstNum /\ cause # {}

\* The amplifier may be switched on again after a protection: the timer has
\* expired, restarts are left, and the condition that matters is gone.
MayRestart ==
  /\ rt.to
  /\ restartCount < CurRstNum
  /\ IF cause \intersect {"OVERLOAD", "OVERTEMP", "RFHEIGHT"} # {}
     THEN tpt = "cool"
     ELSE "PAVCCERR" \in cause /\ vcc.status = "normal"

\* End of Main_Process: the restart, and the alarms of this pass.
Restart ==
  /\ Goto("restart", "idle")
  /\ IF MayRestart
     THEN /\ rt' = [rt EXCEPT !.to = FALSE]
          /\ AP_Startup
          /\ restartCount' = restartCount + 1
          /\ cause' = {}
     ELSE UNCHANGED <<protectVars, at, manualChanging>>
  /\ proDown' = IF offset = 0 THEN {} ELSE proDown
  /\ UNCHANGED <<senseVars, offset, resFront, dt, resRear, target, powerChanging,
                 configVars, startup>>

Pass == \/ Sample \/ Sense \/ CheckGate \/ Protect \/ ReduceTemp \/ ReduceCurrent
        \/ ReduceInterval \/ Regulate \/ Restart

-----------------------------------------------------------------------------
(* App_TaskStart: the timers.                                              *)

SecondTick ==
  /\ pc = "idle"
  /\ rt' = Ticked(rt)
  /\ dt' = Ticked(dt)
  /\ startup' = CountUp(startup, StartupDelay)
  /\ UNCHANGED <<pc, senseVars, gate, cause, restartCount, offset, resFront, proDown,
                 loopVars, configVars>>

\* The 300, 500 or 600 ms of POWERAUTOTIMER have passed.
PowerTick ==
  /\ pc = "idle" /\ at.en
  /\ at' = [en |-> FALSE, to |-> TRUE]
  /\ UNCHANGED <<pc, senseVars, protectVars, reduceVars, resRear, target,
                 manualChanging, powerChanging, configVars, startup>>

-----------------------------------------------------------------------------
(* Operator commands; each one is a whole handler.                         *)

\* INFO_MACH_SETON, and "RF Switch: ON" of the menu.
SetOn ==
  /\ "on" \in Commands
  /\ AP_Startup
  /\ offset' = 0
  /\ restartCount' = 0
  /\ UNCHANGED <<pc, senseVars, cause, rt, resFront, dt, proDown, resRear, target,
                 powerChanging, configVars, startup>>

\* INFO_MACH_SETOFF, and "RF Switch: OFF" of the menu.
SetOff ==
  /\ "off" \in Commands
  /\ AP_Shutdown
  /\ resRear' = AttSend(0)
  /\ offset' = 0
  /\ UNCHANGED <<pc, senseVars, cause, rt, restartCount, resFront, dt, proDown, target,
                 manualChanging, powerChanging, configVars, startup>>

\* INFO_MACH_CTR with bit 0: automatic power control.
SetAuto ==
  /\ "auto" \in Commands
  /\ offset' = 0
  /\ AP_Startup
  /\ mode' = "auto"
  /\ resFront' = 0
  /\ restartCount' = 0
  /\ UNCHANGED <<pc, senseVars, cause, rt, dt, proDown, resRear, target, powerChanging,
                 fmFrq, startup>>

\* Mistake: the manual reduction is left behind.
SetPowerKeepingReduction(cmd) ==
  /\ cmd \in Commands
  /\ resRear' = AttSend(0)
  /\ AP_Startup
  /\ mode' = "auto"
  /\ restartCount' = IF cmd = "power" THEN 0 ELSE restartCount
  /\ UNCHANGED <<pc, senseVars, cause, rt, resFront, offset, dt, proDown, target,
                 powerChanging, fmFrq, startup>>

\* INFO_AllPWR_Int and the menu's power setting, which leaves the restart
\* count alone.
SetPower(cmd) ==
  /\ cmd \in Commands
  /\ resRear' = AttSend(0)
  /\ AP_Startup
  /\ mode' = "auto"
  /\ resFront' = 0
  /\ restartCount' = IF cmd = "power" THEN 0 ELSE restartCount
  /\ UNCHANGED <<pc, senseVars, cause, rt, offset, dt, proDown, target, powerChanging,
                 fmFrq, startup>>

\* INFO_MACH_ATT1 and the menu's gain setting.
SetAtt(code) ==
  /\ "att" \in Commands
  /\ target' = code
  /\ resRear' = AttSend(code)
  /\ mode' = "manual"
  /\ UNCHANGED <<pc, senseVars, protectVars, reduceVars, at, manualChanging,
                 powerChanging, fmFrq, startup>>

\* A new carrier frequency from a master, or from the menu.
SetFrequency(cmd, f) ==
  /\ cmd \in Commands
  /\ fmFrq' = f
  /\ resRear' = IF cmd = "lcdFreq" THEN AttSend(0) ELSE resRear
  /\ UNCHANGED <<pc, senseVars, protectVars, reduceVars, target, at, manualChanging,
                 powerChanging, mode, startup>>

Command ==
  \/ SetOn \/ SetOff \/ SetAuto
  \/ \E cmd \in {"power", "lcdPower"} : SetPower(cmd)
  \/ \E code \in AttCodes : SetAtt(code)
  \/ \E cmd \in {"freq", "lcdFreq"}, f \in Frequencies : SetFrequency(cmd, f)

-----------------------------------------------------------------------------
Init ==
  /\ pc = "idle"
  /\ tmpdelay = 0 /\ tpt = "cool"
  /\ cur = InitLimitChannel /\ temp = InitLimitChannel
  /\ vcc = InitCountChannel /\ rf = InitCountChannel
  /\ gate = TRUE
  /\ cause = {}
  /\ rt = Disarmed(CurRstDelay)
  /\ restartCount = 0
  /\ offset = 0 /\ resFront = 0
  /\ dt = Disarmed(PowerDownDelay)
  /\ proDown = {}
  /\ resRear = 0
  /\ target \in AttCodes
  /\ at = Running
  /\ manualChanging = FALSE /\ powerChanging = FALSE
  /\ startup = 0
  /\ mode \in Modes
  /\ fmFrq \in Frequencies

Next == Pass \/ SecondTick \/ PowerTick \/ Command

\* TaskPAON wakes every 70 ms and its pass never blocks; App_TaskStart runs
\* whenever the other tasks sleep, which they do in every pass.
Fairness == WF_vars(Pass) /\ SF_vars(SecondTick) /\ SF_vars(PowerTick)

Spec == Init /\ [][Next]_vars
FairSpec == Spec /\ Fairness

-----------------------------------------------------------------------------
(* Properties.                                                             *)

PcValues == {"idle", "sense", "gate", "protect", "temp", "current", "interval",
             "regulate", "restart"}

SenseTypeOK ==
  /\ tmpdelay \in 0..(TempPeriod - 1) /\ tpt \in TptLevels
  /\ cur \in LimitChannel(ICheckDelay) /\ temp \in LimitChannel(TempCheckDelay)
  /\ vcc \in CountChannel(ICheckDelay, "high")
  /\ rf \in CountChannel(ICheckDelay + 1, "over")
ProtectTypeOK ==
  /\ gate \in BOOLEAN /\ cause \in SUBSET Causes
  /\ rt \in Timer
  /\ restartCount \in 0..CurRstNum
ReduceTypeOK ==
  /\ offset \in {-15, -10, -5, 0}
  /\ resFront \in {-10, -8, -6, -4, -2, 0}
  /\ dt \in Timer
  /\ proDown \in SUBSET {"TEMP_POWERDOWN", "I_POWERDOWN"}
LoopTypeOK ==
  /\ resRear \in 0..AttMax /\ target \in 0..AttMax
  /\ at \in [en : BOOLEAN, to : BOOLEAN]
  /\ manualChanging \in BOOLEAN /\ powerChanging \in BOOLEAN
ConfigTypeOK == mode \in ModeNames /\ fmFrq \in Frequencies

\* Every variable keeps its type; in particular the attenuator code never
\* leaves 0..AttMax, the offsets stay on the steps the code uses, and the
\* restart count never passes its setting.
TypeOK ==
  /\ pc \in PcValues /\ startup \in 0..StartupDelay
  /\ SenseTypeOK /\ ProtectTypeOK /\ ReduceTypeOK /\ LoopTypeOK /\ ConfigTypeOK

\* A protection that is latched always has its restart timer either running
\* or expired, never both; and the timer does neither without a cause.  An
\* expired timer without a cause would switch the amplifier on again without
\* counting the restart and without looking at the temperature (the head of
\* Main_Process); a cause without a timer would keep it off for ever.
CauseHasTimer ==
  /\ cause # {} <=> rt.en \/ rt.to
  /\ ~(rt.en /\ rt.to)

\* In manual mode, with nothing taken off, no sequence of commands and
\* regulation steps drives the attenuator more than one coarse step (3) past
\* the code the operator asked for, but from code 0: there one step down
\* wraps (HighPowerStepsDown).
AboveCeiling == mode = "manual" /\ resFront = 0 /\ resRear > target + 3
ManualCeiling == [][AboveCeiling' => AboveCeiling \/ resRear = 0]_vars

\* The manual mode's reduction does not survive a change to automatic mode:
\* it would be applied again, from a stale value, on the way back.
ReductionLeftBehind == mode = "auto" => resFront = 0

\* Power taken off has its timer running or expired, else nothing would give
\* it back.  P_DownOffset only while no command changes to manual mode, which
\* leaves it in place and stops the timer with its own reduction.
ReductionHasTimer ==
  /\ resFront # 0 => dt.en \/ dt.to
  /\ "att" \notin Commands /\ offset # 0 => dt.en \/ dt.to

\* A protection shutdown is answered in the end: while restarts are left, the
\* amplifier stays cool, its supply right, and operators leave it alone, the
\* latch is cleared.
RestartComes ==
  <>[](tpt = "cool" /\ vcc.status = "normal")
    => (cause # {} /\ restartCount < CurRstNum ~> cause = {})

\* Power taken off for temperature or current comes back in the end: once
\* both channels stay normal, the amplifier stays on and its mode is left
\* alone, nothing is taken off any more.
PowerComesBack ==
  \A m \in ModeNames :
    <>[](temp.status = "normal" /\ cur.status = "normal" /\ gate /\ mode = m)
      => <>[](IF m = "auto" THEN offset = 0 ELSE resFront = 0)

\* With the amplifier on and cool and the power never too high, the manual
\* mode's attenuator comes to rest; it does not hunt around the operator's
\* code.
ManualComesToRest ==
  <>[](mode = "manual" /\ gate /\ temp.status = "normal" /\ cur.status = "normal")
    => <>[][resRear' = resRear]_vars
-----------------------------------------------------------------------------
(* What a comment says, and the code does not do.                          *)

\* Power_Control_App.c:323 "power reduction for over-temperature, power
\* reduction for over-current", 665 "automatic power control": while power is
\* taken off and there is still too much of it, regulation never turns the
\* power up.
HighPowerStepsDown ==
  [][pc = "regulate" /\ offset < 0 /\ (\E err \in {"high", "vhigh"} : AutoStep(err))
       => resRear' <= resRear]_vars
=============================================================================
