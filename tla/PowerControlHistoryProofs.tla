--------------------- MODULE PowerControlHistoryProofs ---------------------
(***************************************************************************)
(* Theorems about PowerControlHistory, for every value of its constants:   *)
(* how often, when, how hot and at which attenuation Main_Process switches *)
(* the amplifier on.                                                       *)
(***************************************************************************)
EXTENDS PowerControlHistory, PowerControlProofs

USE DEF Goto

-----------------------------------------------------------------------------
(* The history never restricts a step.                                     *)

LEMMA HStepIsStep == [HNext]_hvars => [Next]_vars
<1>1. HPass => Next
  BY DEF HPass, Next
<1>2. HTick \/ HPowerTick => Next
  BY DEF HTick, HPowerTick, Next
<1>3. HStart \/ HOff \/ HCode \/ HFrequency => Command
  BY DEF HStart, HOff, HCode, HFrequency, Command
<1> QED
  BY <1>1, <1>2, <1>3 DEF HNext, hvars, Next

LEMMA HistorySpec == HSpec => Spec
<1>1. HInit => Init
  BY DEF HInit
<1> QED
  BY <1>1, HStepIsStep, PTL DEF HSpec, Spec

\* What is known of PowerControl alone.
Base == TypeOK /\ CauseHasTimer

LEMMA BaseHolds == HSpec => []Base
<1>1. TypeOK /\ CauseHasTimer => Base
  BY DEF Base
<1> QED
  BY <1>1, HistorySpec, TypeCorrect, LatchTimer, PTL

-----------------------------------------------------------------------------
(* When the gate is switched on.                                           *)

\* A pass switches the gate on, or counts a restart, only in the restart at
\* its end: the one at the head of Main_Process never runs.
LEMMA OnlyRestartStarts ==
  ASSUME Base, Pass
  PROVE  \/ Restart /\ MayRestart
         \/ /\ restartCount' = restartCount /\ ~AutoStart
            /\ gate' = gate \/ (Tripping /\ gate' = FALSE)
<1>1. CASE Sense
  <2>1. ~(cause = {} /\ rt.to)
    BY DEF Base, CauseHasTimer
  <2> QED
    BY <1>1, <2>1 DEF Sense, AutoStart
<1>2. CASE Protect
  BY <1>2 DEF Protect, ShutDownFor, AP_Shutdown, AutoStart, Tripping
<1>3. CASE Restart
  BY <1>3 DEF Restart, protectVars, AutoStart
<1>4. CASE \/ Sample \/ CheckGate \/ ReduceTemp \/ ReduceCurrent \/ ReduceInterval \/ Regulate
  BY <1>4 DEF Sample, CheckGate, ReduceTemp, ReduceCurrent, ReduceInterval, Regulate,
     protectVars, AutoStart
<1> QED
  BY <1>1, <1>2, <1>3, <1>4 DEF Pass

\* At "protect" a pass does nothing but Protect.
LEMMA AtProtect == ASSUME Pass, pc = "protect" PROVE Protect
  BY DEF Pass, Sample, Sense, CheckGate, ReduceTemp, ReduceCurrent, ReduceInterval,
     Regulate, Restart

-----------------------------------------------------------------------------
(* The restart budget.                                                     *)

\* Each start is counted, and who gives a fresh budget resets the count.
Counted == autoStarts \in Nat /\ autoStarts <= restartCount

LEMMA CountedStep ==
  ASSUME Base, Counted, [HNext]_hvars PROVE Counted'
<1> USE DEF Counted
<1>0. restartCount \in Nat
  BY ConstantsAssumption DEF Base, TypeOK, ProtectTypeOK
<1>1. CASE HPass
  <2>1. autoStarts' = (IF AutoStart THEN autoStarts + 1 ELSE autoStarts)
    BY <1>1 DEF HPass
  <2>2. CASE Restart /\ MayRestart
    <3>1. restartCount' = restartCount + 1
      BY <2>2 DEF Restart
    <3> QED
      BY <1>0, <2>1, <3>1
  <2>3. CASE restartCount' = restartCount /\ ~AutoStart
    BY <1>0, <2>1, <2>3
  <2> QED
    BY <1>1, <2>2, <2>3, OnlyRestartStarts DEF HPass
<1>2. CASE HStart
  <2>1. restartCount' = 0 \/ restartCount' = restartCount
    BY <1>2 DEF HStart, SetOn, SetAuto, SetPower
  <2>2. autoStarts' = (IF restartCount' = 0 THEN 0 ELSE autoStarts)
    BY <1>2 DEF HStart
  <2> QED
    BY <1>0, <2>1, <2>2
<1>3. CASE HTick \/ HPowerTick \/ HOff \/ HCode \/ HFrequency \/ UNCHANGED hvars
  <2>1. UNCHANGED <<autoStarts, restartCount>>
    BY <1>3 DEF HTick, HPowerTick, HOff, HCode, HFrequency, SecondTick, PowerTick, SetOff,
       SetAtt, SetFrequency, protectVars, history, hvars, vars
  <2> QED
    BY <2>1
<1> QED
  BY <1>1, <1>2, <1>3 DEF HNext

\* Between two starts by an operator that give a fresh budget, Main_Process
\* switches the amplifier on at most CurRstNum times, for every setting.
THEOREM RestartsWithinBudget == HSpec => []RestartBudget
<1>1. HInit => Counted
  BY DEF HInit, Init, Counted
<1>2. Base /\ Counted /\ [HNext]_hvars => Counted'
  BY CountedStep
<1>3. Base /\ Counted => RestartBudget
  BY ConstantsAssumption DEF Base, TypeOK, ProtectTypeOK, Counted, RestartBudget
<1> QED
  BY <1>1, <1>2, <1>3, BaseHolds, PTL DEF HSpec

-----------------------------------------------------------------------------
(* The latch.                                                              *)

LEMMA LatchedStep ==
  ASSUME Base, LatchedMeansOff, [HNext]_hvars PROVE LatchedMeansOff'
<1> USE DEF LatchedMeansOff
<1>1. CASE HPass
  <2>1. Pass /\ operatorOn' = (operatorOn /\ ~Tripping)
    BY <1>1 DEF HPass
  <2>2. CASE Restart /\ MayRestart
    BY <2>2 DEF Restart
  <2>3. CASE Tripping
    <3>1. gate' = FALSE
      BY <2>1, <2>3, AtProtect DEF Tripping, Protect, ShutDownFor, AP_Shutdown
    <3> QED
      BY <3>1
  <2>4. CASE ~Tripping /\ ~(Restart /\ MayRestart)
    <3>1. gate' = gate /\ (operatorOn => operatorOn')
      BY <2>1, <2>4, OnlyRestartStarts DEF LatchedMeansOff
    <3>2. cause' = cause
      BY <2>1, <2>4 DEF Pass, Sample, Sense, CheckGate, Protect, ReduceTemp, ReduceCurrent,
         ReduceInterval, Regulate, Restart, protectVars, Tripping
    <3> QED
      BY <3>1, <3>2
  <2> QED
    BY <2>2, <2>3, <2>4
<1>2. CASE HStart
  BY <1>2 DEF HStart
<1>3. CASE HOff
  BY <1>3 DEF HOff, SetOff, AP_Shutdown
<1>4. CASE HTick \/ HPowerTick \/ HCode \/ HFrequency \/ UNCHANGED hvars
  <2>1. UNCHANGED <<gate, cause, operatorOn>>
    BY <1>4 DEF HTick, HPowerTick, HCode, HFrequency, SecondTick, PowerTick,
       SetAtt, SetFrequency, protectVars, history, hvars, vars
  <2> QED
    BY <2>1
<1> QED
  BY <1>1, <1>2, <1>3, <1>4 DEF HNext

\* A latched protection means no gate voltage, unless an operator has
\* switched the amplifier on after the trip, whatever comes between the
\* stages of a pass.
THEOREM LatchKeepsOff == HSpec => []LatchedMeansOff
<1>1. HInit => LatchedMeansOff
  BY DEF HInit, Init, LatchedMeansOff
<1>2. Base /\ LatchedMeansOff /\ [HNext]_hvars => LatchedMeansOff'
  BY LatchedStep
<1> QED
  BY <1>1, <1>2, BaseHolds, PTL DEF HSpec
-----------------------------------------------------------------------------
(* The cool-down.                                                          *)

\* The restart timer has counted no more seconds than have passed since the
\* last trip.
Cooling ==
  /\ sinceTrip \in Nat
  /\ rt.en => rt.count <= sinceTrip
  /\ rt.to => rt.out <= sinceTrip

LEMMA CoolingStep ==
  ASSUME Base, Cooling, [HNext]_hvars PROVE Cooling'
<1> USE DEF Cooling
<1>0. rt \in Timer
  BY DEF Base, TypeOK, ProtectTypeOK
<1>1. CASE HPass
  <2>1. Pass /\ sinceTrip' = (IF Tripping THEN 0 ELSE sinceTrip)
    BY <1>1 DEF HPass
  <2>2. CASE Tripping
    <3>1. rt' = Armed(RestartDelay(Trips))
      BY <2>1, <2>2, AtProtect DEF Tripping, Protect, ShutDownFor
    <3> QED
      BY <2>1, <2>2, <3>1 DEF Armed
  <2>3. CASE ~Tripping
    <3>1. rt' = rt \/ rt' = [rt EXCEPT !.to = FALSE]
      BY <2>1, <2>3 DEF Pass, Sample, Sense, CheckGate, Protect, ReduceTemp, ReduceCurrent,
         ReduceInterval, Regulate, Restart, protectVars, Tripping
    <3> QED
      BY <1>0, <2>1, <2>3, <3>1 DEF Timer
  <2> QED
    BY <2>2, <2>3
<1>2. CASE HTick
  <2>1. rt' = Ticked(rt) /\ sinceTrip' = CountUp(sinceTrip, rt.out)
    BY <1>2 DEF HTick, SecondTick
  <2> DEFINE t == Ticked(rt)
             s == CountUp(sinceTrip, rt.out)
  <2>2. /\ s \in Nat
        /\ t.en => t.count <= s
        /\ t.to => t.out <= s
    BY <1>0 DEF Ticked, CountUp, Timer
  <2> QED
    BY <2>1, <2>2
<1>3. CASE HPowerTick \/ HStart \/ HOff \/ HCode \/ HFrequency \/ UNCHANGED hvars
  <2>1. UNCHANGED <<rt, sinceTrip>>
    BY <1>3 DEF HPowerTick, HStart, HOff, HCode, HFrequency, PowerTick, SetOn, SetOff,
       SetAuto, SetPower, SetAtt, SetFrequency, protectVars, history, hvars, vars
  <2> QED
    BY <2>1
<1> QED
  BY <1>1, <1>2, <1>3 DEF HNext

\* For all delays, Main_Process never switches the amplifier on before the
\* delay of the last trip has passed.
THEOREM CoolDownPasses == HSpec => CoolDown
<1>1. HInit => Cooling
  BY DEF HInit, Init, Cooling, Disarmed, Armed
<1>2. Base /\ Cooling /\ [HNext]_hvars => Cooling'
  BY CoolingStep
<1>3. Base /\ Cooling /\ [HNext]_hvars
        => [pc # "idle" /\ pc' # pc /\ ~gate /\ gate' => sinceTrip >= rt.out]_hvars
  <2> SUFFICES ASSUME Base, Cooling, [HNext]_hvars, pc' # pc, ~gate, gate'
               PROVE  sinceTrip >= rt.out
    OBVIOUS
  <2>1. Pass
    BY DEF HNext, HPass, HTick, HPowerTick, HStart, HOff, HCode, HFrequency, SecondTick,
       PowerTick, SetOn, SetOff, SetAuto, SetPower, SetAtt, SetFrequency, hvars, vars
  <2>2. MayRestart
    BY <2>1, OnlyRestartStarts DEF AutoStart
  <2>3. rt.out \in Nat /\ sinceTrip \in Nat /\ rt.out <= sinceTrip
    BY <2>2 DEF MayRestart, Cooling, Base, TypeOK, ProtectTypeOK, Timer
  <2> QED
    BY <2>3
<1> QED
  BY <1>1, <1>2, <1>3, BaseHolds, PTL DEF HSpec, CoolDown

-----------------------------------------------------------------------------
(* The soft start.                                                         *)

\* With the gate off in automatic mode the attenuator is at its most, unless
\* an operator has chosen a code.
Muted == ~gate /\ mode = "auto" /\ ~operatorCode => resRear = 0

LEMMA MutedStep ==
  ASSUME Base, Muted, [HNext]_hvars PROVE Muted'
<1> USE DEF Muted
<1>0. AttSend(0) = 0
  BY ConstantsAssumption DEF AttSend
<1>1. CASE HPass
  <2>1. Pass /\ operatorCode' = (operatorCode /\ ~Tripping)
    BY <1>1 DEF HPass
  <2>2. mode' = mode
    BY <2>1 DEF Pass, Sample, Sense, CheckGate, Protect, ReduceTemp, ReduceCurrent,
       ReduceInterval, Regulate, Restart, configVars
  <2>3. CASE Tripping
    <3>1. resRear' = 0
      BY <1>0, <2>1, <2>3, AtProtect DEF Tripping, Protect, ShutDownFor
    <3> QED
      BY <3>1
  <2>4. CASE Restart /\ MayRestart
    BY <2>4 DEF Restart, AP_Startup
  <2>5. CASE ~Tripping /\ ~(Restart /\ MayRestart)
    <3>1. gate' = gate /\ (operatorCode => operatorCode')
      BY <2>1, <2>5, OnlyRestartStarts
    <3>2. ASSUME ~gate, mode = "auto"
          PROVE  resRear' = resRear \/ resRear' = 0
      <4>1. ASSUME NEW ch, NEW bit, NEW delay, Reduce(ch, bit, delay)
            PROVE  resRear' = resRear
        BY <3>2, <4>1 DEF Reduce, ReduceOnTrigger, StepDown, RestoreOnRelease
      <4>2. CASE ReduceTemp \/ ReduceCurrent
        BY <4>1, <4>2 DEF ReduceTemp, ReduceCurrent
      <4>3. CASE ReduceInterval
        BY <3>2, <4>3 DEF ReduceInterval, StepDown, StepUp
      <4>4. CASE Regulate
        BY <3>2, <4>4 DEF Regulate, ManualSettle, ManualStep, AutoStep, InManual, InAuto, loopVars
      <4>5. CASE Sample \/ Sense \/ CheckGate \/ Protect \/ Restart
        BY <1>0, <4>5 DEF Sample, Sense, CheckGate, Protect, ShutDownFor, Restart, loopVars
      <4> QED
        BY <2>1, <4>2, <4>3, <4>4, <4>5 DEF Pass
    <3> QED
      BY <2>2, <3>1, <3>2
  <2> QED
    BY <2>3, <2>4, <2>5
<1>2. CASE HStart
  BY <1>2 DEF HStart, SetOn, SetAuto, SetPower, AP_Startup
<1>3. CASE HOff
  BY <1>0, <1>3 DEF HOff, SetOff
<1>4. CASE HCode
  BY <1>4 DEF HCode
<1>5. CASE HFrequency
  <2>1. /\ UNCHANGED <<gate, mode, operatorCode>>
        /\ resRear' = resRear \/ resRear' = 0
    BY <1>0, <1>5 DEF HFrequency, SetFrequency, protectVars, history
  <2> QED
    BY <2>1
<1>6. CASE HTick \/ HPowerTick \/ UNCHANGED hvars
  <2>1. UNCHANGED <<gate, mode, operatorCode, resRear>>
    BY <1>6 DEF HTick, HPowerTick, SecondTick, PowerTick, protectVars, loopVars, configVars,
       history, hvars, vars
  <2> QED
    BY <2>1
<1> QED
  BY <1>1, <1>2, <1>3, <1>4, <1>5, <1>6 DEF HNext

\* A restart in automatic mode begins from full attenuation, unless an
\* operator has chosen a code since the trip, for all settings and readings.
THEOREM RestartIsSoft == HSpec => SoftStart
<1>1. HInit => Muted
  BY DEF HInit, Init, Muted
<1>2. Base /\ Muted /\ [HNext]_hvars => Muted'
  BY MutedStep
<1>3. Base /\ Muted /\ [HNext]_hvars
        => [Restarting /\ mode = "auto" /\ ~operatorCode => resRear' = 0]_hvars
  <2> SUFFICES ASSUME Muted, [HNext]_hvars, Restarting, mode = "auto", ~operatorCode
               PROVE  resRear' = 0
    OBVIOUS
  <2>1. Pass
    BY DEF Restarting, HNext, HPass, HTick, HPowerTick, HStart, HOff, HCode, HFrequency,
       SecondTick, PowerTick, SetOn, SetOff, SetAuto, SetPower, SetAtt, SetFrequency, hvars, vars
  <2>2. Restart
    BY <2>1 DEF Restarting, Pass, Sample, Sense, CheckGate, Protect, ReduceTemp, ReduceCurrent,
       ReduceInterval, Regulate
  <2>3. resRear' = resRear /\ resRear = 0
    BY <2>2 DEF Restart, Restarting, Muted
  <2> QED
    BY <2>3
<1> QED
  BY <1>1, <1>2, <1>3, BaseHolds, PTL DEF HSpec, SoftStart

-----------------------------------------------------------------------------
(* The temperature.                                                        *)

\* Who starts the amplifier knows its heat by the last reading; and a hot
\* amplifier that runs is on its way to the protection.
Watched ==
  /\ temp.status = "over" => tpt # "cool"
  /\ temp.status = "over" /\ gate /\ ~operatorOn /\ ~supplyStart
       => pc \in {"sense", "gate", "protect"} /\ temp.prev # "over"

\* One cool reading ends the over-temperature.
LEMMA CoolIsNormal ==
  ASSUME NEW ch PROVE CheckLimits(ch, "normal", TempCheckDelay).status = "normal"
  BY ConstantsAssumption DEF CheckLimits

LEMMA WatchedPass ==
  ASSUME Base, Watched, HPass PROVE Watched'
<1> USE DEF Watched
<1>0. Pass /\ operatorOn' = (operatorOn /\ ~Tripping)
      /\ supplyStart' = (IF AutoStart THEN cause = {"PAVCCERR"} ELSE supplyStart)
  BY DEF HPass
<1>1. CASE Sample
  <2>1. gate' = gate /\ ~AutoStart /\ ~Tripping /\ pc = "idle" /\ pc' = "sense"
    BY <1>1 DEF Sample, protectVars, AutoStart, Tripping
  <2>2. temp.status = "over" /\ gate => operatorOn \/ supplyStart
    BY <2>1
  <2>3. CASE UNCHANGED <<tpt, temp>>
    BY <1>0, <2>1, <2>2, <2>3
  <2>4. CASE temp' = CheckLimits(temp, IF tpt' \in {"high", "over"} THEN tpt' ELSE "normal",
                                 TempCheckDelay)
    <3>1. temp'.prev = temp.status
      BY <2>4 DEF CheckLimits
    <3>2. tpt' = "cool" => temp'.status = "normal"
      BY <2>4, CoolIsNormal
    <3> QED
      BY <1>0, <2>1, <2>2, <3>1, <3>2
  <2> QED
    BY <1>1, <2>3, <2>4 DEF Sample
<1>2. CASE Sense
  <2>1. ~(cause = {} /\ rt.to)
    BY DEF Base, CauseHasTimer
  <2>2. gate' = gate /\ UNCHANGED <<temp, tpt>> /\ pc = "sense" /\ pc' = "gate"
    BY <1>2, <2>1 DEF Sense
  <2> QED
    BY <1>0, <2>2 DEF AutoStart, Tripping
<1>3. CASE CheckGate
  <2>1. gate' = gate /\ UNCHANGED <<temp, tpt>> /\ pc = "gate" /\ (gate => pc' = "protect")
    BY <1>3 DEF CheckGate, protectVars, senseVars
  <2> QED
    BY <1>0, <2>1 DEF AutoStart, Tripping
<1>4. CASE Protect
  <2>1. UNCHANGED <<temp, tpt>> /\ pc = "protect"
    BY <1>4 DEF Protect, senseVars
  <2>2. CASE Trips = {}
    <3>1. gate' = gate /\ ~AutoStart /\ ~Tripping
      BY <1>4, <2>2 DEF Protect, AutoStart, Tripping
    <3>2. ~Triggers(temp, "over")
      BY <2>2 DEF Trips, Causes
    <3>3. temp.status # "over" \/ temp.prev = "over"
      BY <3>2 DEF Triggers
    <3> QED
      BY <1>0, <2>1, <3>1, <3>3
  <2>3. CASE Trips # {}
    <3>1. gate' = FALSE
      BY <1>4, <2>3 DEF Protect, ShutDownFor, AP_Shutdown
    <3> QED
      BY <2>1, <3>1
  <2> QED
    BY <2>2, <2>3
<1>5. CASE ReduceTemp \/ ReduceCurrent \/ ReduceInterval \/ Regulate
  <2>1. /\ gate' = gate /\ UNCHANGED <<temp, tpt>>
        /\ pc \in {"temp", "current", "interval", "regulate"}
    BY <1>5 DEF ReduceTemp, ReduceCurrent, ReduceInterval, Regulate, protectVars, senseVars
  <2> QED
    BY <1>0, <2>1 DEF AutoStart, Tripping
<1>6. CASE Restart
  <2>1. UNCHANGED <<temp, tpt>> /\ pc = "restart" /\ ~Tripping
    BY <1>6 DEF Restart, senseVars, Tripping
  <2>2. CASE AutoStart
    <3>1. MayRestart
      BY <1>6, <2>2 DEF Restart, AutoStart, protectVars
    <3>2. CASE cause \intersect {"OVERLOAD", "OVERTEMP", "RFHEIGHT"} # {}
      <4>1. tpt = "cool"
        BY <3>1, <3>2 DEF MayRestart
      <4> QED
        BY <2>1, <4>1
    <3>3. CASE cause \intersect {"OVERLOAD", "OVERTEMP", "RFHEIGHT"} = {}
      <4>1. cause = {"PAVCCERR"}
        BY <3>1, <3>3 DEF MayRestart, Base, TypeOK, ProtectTypeOK, Causes
      <4> QED
        BY <1>0, <2>1, <2>2, <4>1
    <3> QED
      BY <3>2, <3>3
  <2>3. CASE ~AutoStart
    <3>1. gate' => gate
      BY <2>3 DEF AutoStart
    <3> QED
      BY <1>0, <2>1, <2>3, <3>1
  <2> QED
    BY <2>2, <2>3
<1> QED
  BY <1>0, <1>1, <1>2, <1>3, <1>4, <1>5, <1>6 DEF Pass

LEMMA WatchedStep ==
  ASSUME Base, Watched, [HNext]_hvars PROVE Watched'
<1> USE DEF Watched
<1>1. CASE HStart
  <2>1. UNCHANGED <<temp, tpt>> /\ operatorOn' = TRUE
    BY <1>1 DEF HStart, SetOn, SetAuto, SetPower, senseVars
  <2> QED
    BY <2>1
<1>2. CASE HOff
  <2>1. UNCHANGED <<temp, tpt>> /\ gate' = FALSE
    BY <1>2 DEF HOff, SetOff, AP_Shutdown, senseVars
  <2> QED
    BY <2>1
<1>3. CASE HTick \/ HPowerTick \/ HCode \/ HFrequency \/ UNCHANGED hvars
  <2>1. UNCHANGED <<temp, tpt, gate, pc, operatorOn, supplyStart>>
    BY <1>3 DEF HTick, HPowerTick, HCode, HFrequency, SecondTick, PowerTick, SetAtt,
       SetFrequency, senseVars, protectVars, history, hvars, vars
  <2> QED
    BY <2>1
<1> QED
  BY <1>1, <1>2, <1>3, WatchedPass DEF HNext

\* An amplifier that is too hot at the end of a pass runs only because an
\* operator, or the restart after a trip of the supply alone, has switched
\* it on: every other restart looks at the temperature, and no trigger
\* passes by while the gate is off.
THEOREM HotMeansAskedFor == HSpec => []OverTempOff
<1>1. HInit => Watched
  BY DEF HInit, Init, Watched, InitLimitChannel
<1>2. Base /\ Watched /\ [HNext]_hvars => Watched'
  BY WatchedStep
<1>3. Watched => OverTempOff
  BY DEF Watched, OverTempOff
<1> QED
  BY <1>1, <1>2, <1>3, BaseHolds, PTL DEF HSpec

-----------------------------------------------------------------------------
(* The promise of the protection.                                          *)

\* The delay of the last trip is one of the settings, and the time since is
\* counted up to it.
Delayed ==
  /\ rt.out \in {CurRstDelay, TempInterval}
  /\ sinceTrip <= rt.out
  /\ operatorOn \in BOOLEAN

PromiseInv == Base /\ Counted /\ Cooling /\ Delayed

PromiseVars == <<gate, cause # {}, operatorOn, autoStarts, TimerState, sinceTrip, rt.out>>

\* What a pass does to the timer and the latch when it neither trips nor
\* restarts: nothing.
LEMMA QuietPass ==
  ASSUME PromiseInv, HPass, ~Tripping, ~(Restart /\ MayRestart)
  PROVE  UNCHANGED <<gate, cause, operatorOn, autoStarts, rt, sinceTrip>>
<1>1. /\ Pass /\ sinceTrip' = sinceTrip
      /\ autoStarts' = (IF AutoStart THEN autoStarts + 1 ELSE autoStarts)
      /\ operatorOn' = (operatorOn /\ ~Tripping)
  BY DEF HPass
<1>2. Base /\ operatorOn \in BOOLEAN
  BY DEF PromiseInv, Delayed
<1>3. gate' = gate /\ ~AutoStart /\ operatorOn' = operatorOn
  BY <1>1, <1>2, OnlyRestartStarts
<1>4. UNCHANGED <<cause, rt>>
  <2>1. ~(cause = {} /\ rt.to)
    BY <1>2 DEF Base, CauseHasTimer
  <2> QED
    BY <1>1, <2>1 DEF Pass, Sample, Sense, CheckGate, Protect, ReduceTemp, ReduceCurrent,
       ReduceInterval, Regulate, Restart, protectVars, Tripping
<1> QED
  BY <1>1, <1>3, <1>4

LEMMA TripKeeps ==
  ASSUME PromiseInv, HPass, Tripping PROVE Delayed' /\ Promise!Trip
<1>1. Protect /\ Trips # {}
  BY AtProtect DEF HPass, Tripping
<1>2. /\ rt' = Armed(RestartDelay(Trips)) /\ gate' = FALSE /\ cause' = cause \union Trips
      /\ sinceTrip' = 0 /\ operatorOn' = FALSE /\ autoStarts' = autoStarts
  BY <1>1 DEF Protect, ShutDownFor, AP_Shutdown, HPass, AutoStart
<1>3. RestartDelay(Trips) \in {CurRstDelay, TempInterval} /\ RestartDelay(Trips) \in Nat
  BY ConstantsAssumption DEF RestartDelay
<1>4. rt'.en /\ rt'.out = RestartDelay(Trips)
  BY <1>2 DEF Armed
<1>5. (cause' # {}) = TRUE /\ TimerState' = "running"
  BY <1>1, <1>2, <1>4 DEF TimerState
<1>6. Delayed'
  <2>1. PICK d \in Nat : d = RestartDelay(Trips)
    BY <1>3
  <2>2. rt'.out = d /\ d \in {CurRstDelay, TempInterval} /\ 0 <= d
    BY <1>3, <1>4, <2>1
  <2> QED
    BY <1>2, <2>2 DEF Delayed
<1>7. Promise!Timer!Arm
  BY <1>2, <1>3, <1>4, <1>5 DEF Promise!Timer!Arm, Promise!Timer!Load
<1> QED
  BY <1>2, <1>5, <1>6, <1>7 DEF Promise!Trip

LEMMA RestartKeeps ==
  ASSUME PromiseInv, HPass, Restart, MayRestart PROVE Delayed' /\ Promise!Restart
<1>0. /\ rt \in Timer /\ gate \in BOOLEAN /\ restartCount \in Nat /\ CurRstNum \in Nat
      /\ autoStarts \in Nat /\ autoStarts <= restartCount /\ operatorOn \in BOOLEAN
  BY ConstantsAssumption DEF PromiseInv, Base, TypeOK, ProtectTypeOK, Counted, Delayed
<1>1. /\ rt' = [rt EXCEPT !.to = FALSE] /\ gate' = TRUE /\ cause' = {} /\ pc = "restart"
      /\ rt.to /\ restartCount < CurRstNum
  BY DEF Restart, MayRestart, AP_Startup
<1>2. /\ sinceTrip' = sinceTrip /\ operatorOn' = operatorOn
      /\ autoStarts' = (IF gate THEN autoStarts ELSE autoStarts + 1)
  BY <1>0, <1>1 DEF HPass, Tripping, AutoStart
<1>3. ~rt.en /\ cause # {}
  BY <1>1 DEF PromiseInv, Base, CauseHasTimer
<1>4. ~rt'.en /\ ~rt'.to /\ rt'.out = rt.out
  BY <1>0, <1>1, <1>3 DEF Timer
<1>5. TimerState = "expired" /\ TimerState' = "off"
  BY <1>1, <1>3, <1>4 DEF TimerState
<1>6. autoStarts' <= CurRstNum
  BY <1>0, <1>1, <1>2
<1>7. Delayed'
  BY <1>2, <1>4 DEF PromiseInv, Delayed
<1>8. Promise!Timer!Take
  BY <1>2, <1>4, <1>5 DEF Promise!Timer!Take
<1> QED
  BY <1>1, <1>2, <1>3, <1>6, <1>7, <1>8 DEF Promise!Restart

LEMMA TickKeeps ==
  ASSUME PromiseInv, HTick PROVE Delayed' /\ (Promise!Wait \/ UNCHANGED PromiseVars)
<1>1. /\ rt' = Ticked(rt) /\ sinceTrip' = CountUp(sinceTrip, rt.out)
      /\ UNCHANGED <<gate, cause, autoStarts, operatorOn>>
  BY DEF HTick, SecondTick
<1>2. /\ rt \in Timer /\ sinceTrip \in Nat /\ ~(rt.en /\ rt.to)
      /\ sinceTrip <= rt.out /\ (rt.en => rt.count <= sinceTrip)
  BY DEF PromiseInv, Base, TypeOK, ProtectTypeOK, CauseHasTimer, Cooling, Delayed
<1>3. rt.out \in Nat /\ rt.count \in Nat
  BY <1>2 DEF Timer
<1>4. /\ rt'.out = rt.out
      /\ ~rt.en => rt' = rt
      /\ rt.en /\ rt.count + 1 >= rt.out => ~rt'.en /\ rt'.to
      /\ rt.en /\ ~(rt.count + 1 >= rt.out) => rt'.en
  <2> DEFINE t == Ticked(rt)
  <2>1. /\ t.out = rt.out
        /\ ~rt.en => t = rt
        /\ rt.en /\ rt.count + 1 >= rt.out => ~t.en /\ t.to
        /\ rt.en /\ ~(rt.count + 1 >= rt.out) => t.en
    BY <1>2 DEF Ticked, Timer
  <2> QED
    BY <1>1, <2>1
<1>5. /\ sinceTrip < rt.out => sinceTrip' = sinceTrip + 1
      /\ sinceTrip = rt.out => sinceTrip' = sinceTrip
  BY <1>1, <1>2, <1>3 DEF CountUp
<1>6. Delayed'
  BY <1>1, <1>2, <1>3, <1>4, <1>5 DEF PromiseInv, Delayed
<1>7. TimerState' = TimerState \/ (TimerState = "running" /\ TimerState' = "expired" /\ sinceTrip' = rt.out)
  BY <1>2, <1>3, <1>4, <1>5 DEF TimerState
<1>8. CASE sinceTrip < rt.out
  BY <1>1, <1>4, <1>5, <1>6, <1>7, <1>8 DEF Promise!Wait, Promise!Timer!Second
<1>9. CASE sinceTrip = rt.out
  BY <1>1, <1>4, <1>5, <1>6, <1>7, <1>9 DEF Promise!Wait, Promise!Timer!Expire, PromiseVars
<1> QED
  BY <1>2, <1>3, <1>6, <1>8, <1>9

LEMMA PromiseStep ==
  ASSUME PromiseInv, [HNext]_hvars PROVE Delayed' /\ [Promise!Next]_(Promise!vars)
<1>0. PromiseVars = PromiseVars /\ Promise!vars = <<gate, cause # {}, operatorOn, autoStarts,
                                                   <<TimerState, sinceTrip, rt.out>> >>
  BY DEF Promise!vars, Promise!timer
<1>1. ASSUME UNCHANGED <<gate, cause, operatorOn, autoStarts, rt, sinceTrip>>
      PROVE  Delayed' /\ [Promise!Next]_(Promise!vars)
  BY <1>1 DEF PromiseInv, Delayed, TimerState, Promise!vars, Promise!timer
<1>2. CASE HPass
  BY <1>1, <1>2, QuietPass, TripKeeps, RestartKeeps DEF Promise!Next, PromiseInv
<1>3. CASE HTick
  BY <1>3, TickKeeps DEF Promise!Next, Promise!vars, Promise!timer, PromiseVars
<1>4. CASE HStart
  <2>1. /\ gate' = TRUE /\ operatorOn' = TRUE
        /\ UNCHANGED <<cause, rt, sinceTrip>>
        /\ autoStarts' \in {0, autoStarts}
    BY <1>4 DEF HStart, SetOn, SetAuto, SetPower, AP_Startup
  <2>2. Delayed' /\ UNCHANGED <<TimerState, rt.out>>
    BY <2>1 DEF PromiseInv, Delayed, TimerState
  <2> QED
    BY <2>1, <2>2 DEF Promise!Next, Promise!SwitchOn, Promise!timer
<1>5. CASE HOff
  <2>1. gate' = FALSE /\ UNCHANGED <<cause, rt, sinceTrip, operatorOn, autoStarts>>
    BY <1>5 DEF HOff, SetOff, AP_Shutdown
  <2>2. Delayed' /\ UNCHANGED <<TimerState, rt.out>>
    BY <2>1 DEF PromiseInv, Delayed, TimerState
  <2> QED
    BY <2>1, <2>2 DEF Promise!Next, Promise!SwitchOff, Promise!timer
<1>6. CASE HPowerTick \/ HCode \/ HFrequency \/ UNCHANGED hvars
  <2>1. UNCHANGED <<gate, cause, operatorOn, autoStarts, rt, sinceTrip>>
    BY <1>6 DEF HPowerTick, HCode, HFrequency, PowerTick, SetAtt, SetFrequency, protectVars,
       history, hvars, vars
  <2> QED
    BY <1>1, <2>1
<1> QED
  BY <1>2, <1>3, <1>4, <1>5, <1>6 DEF HNext

\* The protection, its restart timer and the commands that come between the
\* stages of a pass implement Protection: for all settings, readings and
\* commands the amplifier comes back from a trip only as it promises.
THEOREM ProtectionRefines == HSpec => KeepsProtection
<1>1. HInit => Counted /\ Cooling /\ Delayed /\ Promise!Init
  <2> SUFFICES ASSUME HInit PROVE Counted /\ Cooling /\ Delayed /\ Promise!Init
    OBVIOUS
  <2>1. /\ gate = TRUE /\ cause = {} /\ operatorOn = TRUE /\ autoStarts = 0 /\ sinceTrip = 0
        /\ restartCount = 0 /\ rt = Disarmed(CurRstDelay)
    BY DEF HInit, Init
  <2>2. ~rt.en /\ ~rt.to /\ rt.out = CurRstDelay /\ CurRstDelay \in Nat
    BY <2>1, ConstantsAssumption DEF Disarmed, Armed
  <2>3. TimerState = "off"
    BY <2>2 DEF TimerState
  <2> QED
    BY <2>1, <2>2, <2>3 DEF Counted, Cooling, Delayed, Promise!Init, Promise!Timer!Init
<1>2. PromiseInv /\ [HNext]_hvars
        => Counted' /\ Cooling' /\ Delayed' /\ [Promise!Next]_(Promise!vars)
  BY CountedStep, CoolingStep, PromiseStep DEF PromiseInv
<1>3. Base /\ Counted /\ Cooling /\ Delayed => PromiseInv
  BY DEF PromiseInv
<1> QED
  BY <1>1, <1>2, <1>3, BaseHolds, PTL DEF HSpec, KeepsProtection, Promise!Spec
=============================================================================
