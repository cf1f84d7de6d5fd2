------------------------ MODULE PowerControlProofs ------------------------
(***************************************************************************)
(* Theorems about PowerControl, for every value of its constants: the type *)
(* invariant, the latch and its timer, and the manual mode's reduction and *)
(* ceiling.                                                                *)
(***************************************************************************)
EXTENDS PowerControl, TLAPS

USE DEF Goto

-----------------------------------------------------------------------------
(* What the helpers return.                                                *)

\* The code sent to the attenuator is in range whatever integer it is
\* computed from: ATT_Senddata (Digital_ATT.c:23).
LEMMA AttSendType == ASSUME NEW code \in Int PROVE AttSend(code) \in 0..AttMax
  BY ConstantsAssumption DEF AttSend

\* A counter that counts up to a cap stays under it.
LEMMA CountUpType ==
  ASSUME NEW cap \in Nat, NEW n \in 0..cap PROVE CountUp(n, cap) \in 0..cap
  BY DEF CountUp

\* One debouncing step of a channel with two limits keeps its type.
LEMMA CheckLimitsType ==
  ASSUME NEW K \in Nat \ {0}, NEW ch \in LimitChannel(K), NEW level
  PROVE  CheckLimits(ch, level, K) \in LimitChannel(K)
<1> DEFINE over == IF level = "over" THEN CountUp(ch.over, K) ELSE 0
           high == IF level = "high" THEN CountUp(ch.high, K) ELSE 0
<1>1. over \in 0..K /\ high \in 0..K
  BY CountUpType DEF LimitChannel
<1>2. (CASE over >= K              -> "over"
         [] high >= K              -> "high"
         [] over = 0 /\ high = 0   -> "normal"
         [] OTHER                  -> ch.status) \in StatusValues
  BY DEF LimitChannel, StatusValues
<1> QED
  BY <1>1, <1>2 DEF CheckLimits, LimitChannel

LEMMA CheckVccType ==
  ASSUME NEW K \in Nat \ {0}, NEW ch \in CountChannel(K, "high"), NEW reading \in VccReadings
  PROVE  CheckVcc(ch, reading, K) \in CountChannel(K, "high")
  BY CountUpType DEF CheckVcc, CountChannel, VccReadings

LEMMA CheckReflectedType ==
  ASSUME NEW K \in Nat \ {0}, NEW ch \in CountChannel(K + 1, "over"), NEW reading
  PROVE  CheckReflected(ch, reading, K) \in CountChannel(K + 1, "over")
  BY CountUpType DEF CheckReflected, CountChannel

\* A second of a timer keeps its type.
LEMMA TickedType == ASSUME NEW t \in Timer PROVE Ticked(t) \in Timer
<1>1. t.count + 1 \in Nat
  BY DEF Timer
<1>2. [t EXCEPT !.en = FALSE, !.to = TRUE, !.count = 0] \in Timer
  BY DEF Timer
<1>3. [t EXCEPT !.count = @ + 1] \in Timer
  BY <1>1 DEF Timer
<1> QED
  BY <1>2, <1>3 DEF Ticked

-----------------------------------------------------------------------------
(* What the helpers that are actions do to the parts of TypeOK.            *)

\* The start-up helper leaves the gate, the loop timer and the manual flag
\* well typed.
LEMMA StartupType ==
  ASSUME TypeOK, AP_Startup
  PROVE  /\ gate' = TRUE /\ at' \in [en : BOOLEAN, to : BOOLEAN]
         /\ manualChanging' \in BOOLEAN
  BY DEF AP_Startup, Running, TypeOK, LoopTypeOK

\* A reduction step keeps the offsets on their steps and the code in range.
LEMMA StepDownType ==
  ASSUME TypeOK, StepDown
  PROVE  /\ offset' \in {-15, -10, -5, 0}
         /\ resFront' \in {-10, -8, -6, -4, -2, 0}
         /\ resRear' \in 0..AttMax
<1>1. offset \in {-15, -10, -5, 0} /\ resFront \in {-10, -8, -6, -4, -2, 0}
      /\ target \in Int /\ resRear \in 0..AttMax
  BY ConstantsAssumption DEF TypeOK, ReduceTypeOK, LoopTypeOK
<1>2. CASE mode = "auto"
  BY <1>1, <1>2 DEF StepDown
<1>3. CASE mode # "auto"
  <2>1. offset' = offset /\ resFront' = IF resFront > -10 THEN resFront - 2 ELSE resFront
    BY <1>3 DEF StepDown
  <2>2. resFront' \in {-10, -8, -6, -4, -2, 0}
    BY <1>1, <2>1
  <2>3. AttSend(target + resFront') \in 0..AttMax
    BY <1>1, <2>2, AttSendType
  <2>4. resRear' \in 0..AttMax
    BY <1>1, <1>3, <2>3 DEF StepDown
  <2> QED
    BY <1>1, <2>1, <2>2, <2>4
<1> QED
  BY <1>2, <1>3

\* Arming and disarming give timers.
LEMMA ArmedType == ASSUME NEW d \in Nat PROVE Armed(d) \in Timer /\ Disarmed(d) \in Timer
  BY DEF Armed, Disarmed, Timer

\* A reduction or recovery keeps ReduceTypeOK and the loop's variables typed.
LEMMA ReduceType ==
  ASSUME TypeOK, NEW ch, NEW bit \in {"TEMP_POWERDOWN", "I_POWERDOWN"},
         NEW delay \in Nat, Reduce(ch, bit, delay)
  PROVE  ReduceTypeOK' /\ resRear' \in 0..AttMax /\ manualChanging' \in BOOLEAN
<1> USE DEF TypeOK, ReduceTypeOK, LoopTypeOK
<1>0. Armed(delay) \in Timer /\ Disarmed(delay) \in Timer
      /\ Armed(CurRstDelay) \in Timer /\ Disarmed(CurRstDelay) \in Timer
  BY ArmedType, ConstantsAssumption
<1>1. CASE Triggers(ch, "high") /\ proDown' = proDown \union {bit} /\ ReduceOnTrigger(delay)
  <2>1. StepDown /\ dt' = Armed(delay) /\ manualChanging' \in BOOLEAN
    BY <1>1 DEF ReduceOnTrigger
  <2> QED
    BY <1>0, <1>1, <2>1, StepDownType
<1>2. CASE Releases(ch, "high") /\ RestoreOnRelease(delay) /\ UNCHANGED proDown
  <2>1. CASE mode = "auto" /\ offset' = (IF offset < 0 THEN offset + 5 ELSE 0)
             /\ dt' = (IF offset' # 0 THEN Armed(delay) ELSE Disarmed(delay))
             /\ UNCHANGED <<resFront, resRear, manualChanging>>
    BY <1>0, <1>2, <2>1
  <2>2. CASE /\ resFront < 0 /\ resFront' = resFront + 2
             /\ IF target >= target + resFront'
                THEN resRear' = AttSend(target + resFront') /\ manualChanging' = TRUE
                ELSE UNCHANGED <<resRear, manualChanging>>
             /\ dt' = (IF resFront' # 0 THEN Armed(CurRstDelay) ELSE dt)
             /\ UNCHANGED offset
    <3>1. resFront' \in {-10, -8, -6, -4, -2, 0}
      BY <2>2
    <3>2. AttSend(target + resFront') \in 0..AttMax
      BY <3>1, AttSendType, ConstantsAssumption
    <3> QED
      BY <1>0, <1>2, <2>2, <3>1, <3>2
  <2>3. CASE /\ offset' = 0 /\ dt' = Disarmed(CurRstDelay) /\ manualChanging' = FALSE
             /\ UNCHANGED <<resFront, resRear>>
    BY <1>0, <1>2, <2>3
  <2> QED
    BY <1>2, <2>1, <2>2, <2>3 DEF RestoreOnRelease
<1>3. CASE UNCHANGED <<reduceVars, resRear, manualChanging>>
  BY <1>3 DEF reduceVars
<1> QED
  BY <1>1, <1>2, <1>3 DEF Reduce

-----------------------------------------------------------------------------
(* Type correctness, one lemma per action of a pass.                       *)

LEMMA InitType == Init => TypeOK
<1> SUFFICES ASSUME Init PROVE TypeOK
  OBVIOUS
<1> USE ConstantsAssumption DEF Init
<1>1. SenseTypeOK
  BY DEF SenseTypeOK, InitLimitChannel, InitCountChannel, LimitChannel, CountChannel,
         StatusValues, TptLevels
<1>2. rt \in Timer /\ dt \in Timer
  BY ArmedType
<1>3. ProtectTypeOK /\ ReduceTypeOK
  BY <1>2 DEF ProtectTypeOK, ReduceTypeOK
<1>4. target \in 0..AttMax /\ 0 \in 0..AttMax /\ mode \in ModeNames
  OBVIOUS
<1>5. at \in [en : BOOLEAN, to : BOOLEAN]
  BY DEF Running
<1>6. LoopTypeOK /\ ConfigTypeOK
  BY <1>4, <1>5 DEF LoopTypeOK, ConfigTypeOK
<1>7. pc \in PcValues /\ startup \in 0..StartupDelay
  BY DEF PcValues
<1> QED
  BY <1>1, <1>3, <1>6, <1>7 DEF TypeOK

LEMMA SampleType == ASSUME TypeOK, Sample PROVE TypeOK'
<1> USE ConstantsAssumption
<1>1. tmpdelay' \in 0..(TempPeriod - 1) /\ tpt' \in TptLevels
  BY DEF Sample, TypeOK, SenseTypeOK
<1>2. temp' \in LimitChannel(TempCheckDelay)
  BY CheckLimitsType DEF Sample, TypeOK, SenseTypeOK
<1>3. SenseTypeOK'
  BY <1>1, <1>2 DEF Sample, TypeOK, SenseTypeOK
<1> QED
  BY <1>3 DEF Sample, TypeOK, ProtectTypeOK, ReduceTypeOK, LoopTypeOK, ConfigTypeOK, PcValues,
     protectVars, reduceVars, loopVars, configVars

LEMMA SenseType == ASSUME TypeOK, Sense PROVE TypeOK'
<1> USE ConstantsAssumption
<1>1. cur' \in LimitChannel(ICheckDelay)
  BY CheckLimitsType DEF Sense, TypeOK, SenseTypeOK
<1>2. vcc' \in CountChannel(ICheckDelay, "high")
  BY CheckVccType DEF Sense, TypeOK, SenseTypeOK
<1>3. rf' \in CountChannel(ICheckDelay + 1, "over")
  BY CheckReflectedType DEF Sense, TypeOK, SenseTypeOK
<1>4. SenseTypeOK'
  BY <1>1, <1>2, <1>3 DEF Sense, TypeOK, SenseTypeOK
<1>5. ProtectTypeOK' /\ LoopTypeOK'
  <2>1. CASE cause = {} /\ rt.to
    <3>1. AP_Startup /\ rt' = [rt EXCEPT !.to = FALSE] /\ resRear' = AttSend(0)
      BY <2>1 DEF Sense
    <3>2. resRear' \in 0..AttMax
      BY <3>1, AttSendType
    <3>3. rt' \in Timer
      BY <3>1 DEF TypeOK, ProtectTypeOK, Timer
    <3> QED
      BY <3>1, <3>2, <3>3, StartupType DEF Sense, TypeOK, ProtectTypeOK, LoopTypeOK
  <2>2. CASE ~(cause = {} /\ rt.to)
    BY <2>2 DEF Sense, TypeOK, ProtectTypeOK, LoopTypeOK
  <2> QED
    BY <2>1, <2>2
<1> QED
  BY <1>4, <1>5 DEF Sense, TypeOK, ReduceTypeOK, ConfigTypeOK, PcValues, reduceVars, configVars

LEMMA CheckGateType == ASSUME TypeOK, CheckGate PROVE TypeOK'
  BY DEF CheckGate, TypeOK, SenseTypeOK, ProtectTypeOK, ReduceTypeOK, LoopTypeOK, ConfigTypeOK,
     PcValues, senseVars, protectVars, reduceVars, loopVars, configVars

LEMMA ProtectType == ASSUME TypeOK, Protect PROVE TypeOK'
<1> USE ConstantsAssumption
<1>1. ProtectTypeOK' /\ LoopTypeOK'
  <2>1. CASE Trips = {}
    BY <2>1 DEF Protect, TypeOK, ProtectTypeOK, LoopTypeOK
  <2>2. CASE Trips # {}
    <3>1. ShutDownFor(Trips)
      BY <2>2 DEF Protect
    <3>2. rt' \in Timer
      BY <3>1, ArmedType DEF ShutDownFor, RestartDelay
    <3>3. resRear' \in 0..AttMax
      BY <3>1, AttSendType DEF ShutDownFor
    <3>4. cause' \in SUBSET Causes
      BY <3>1 DEF ShutDownFor, Trips, TypeOK, ProtectTypeOK
    <3> QED
      BY <3>1, <3>2, <3>3, <3>4
      DEF ShutDownFor, AP_Shutdown, Off, Protect, TypeOK, ProtectTypeOK, LoopTypeOK
  <2> QED
    BY <2>1, <2>2
<1> QED
  BY <1>1 DEF Protect, TypeOK, SenseTypeOK, ReduceTypeOK, ConfigTypeOK, PcValues,
     senseVars, reduceVars, configVars

LEMMA ReduceTempType == ASSUME TypeOK, ReduceTemp PROVE TypeOK'
<1>1. ReduceTypeOK' /\ resRear' \in 0..AttMax /\ manualChanging' \in BOOLEAN
  BY ReduceType, ConstantsAssumption DEF ReduceTemp
<1> QED
  BY <1>1 DEF ReduceTemp, TypeOK, SenseTypeOK, ProtectTypeOK, LoopTypeOK, ConfigTypeOK,
     PcValues, senseVars, protectVars, configVars

LEMMA ReduceCurrentType == ASSUME TypeOK, ReduceCurrent PROVE TypeOK'
<1>1. ReduceTypeOK' /\ resRear' \in 0..AttMax /\ manualChanging' \in BOOLEAN
  BY ReduceType, ConstantsAssumption DEF ReduceCurrent
<1> QED
  BY <1>1 DEF ReduceCurrent, TypeOK, SenseTypeOK, ProtectTypeOK, LoopTypeOK, ConfigTypeOK,
     PcValues, senseVars, protectVars, configVars

\* A step of the reduction interval: down, up, or waiting.
LEMMA ReduceIntervalType == ASSUME TypeOK, ReduceInterval PROVE TypeOK'
<1>0. /\ offset \in {-15, -10, -5, 0} /\ resFront \in {-10, -8, -6, -4, -2, 0}
      /\ target \in Int /\ resRear \in 0..AttMax /\ manualChanging \in BOOLEAN
      /\ dt \in Timer
  BY ConstantsAssumption DEF TypeOK, ReduceTypeOK, LoopTypeOK
<1>1. \A e \in BOOLEAN : [dt EXCEPT !.en = e, !.to = FALSE, !.count = 0] \in Timer
  BY <1>0 DEF Timer
<1>2. /\ offset' \in {-15, -10, -5, 0} /\ resFront' \in {-10, -8, -6, -4, -2, 0}
      /\ resRear' \in 0..AttMax /\ manualChanging' \in BOOLEAN /\ dt' \in Timer
  <2>1. CASE /\ dt.to /\ InBand /\ StepDown /\ UNCHANGED manualChanging
             /\ dt' = [dt EXCEPT !.en = TRUE, !.to = FALSE, !.count = 0]
    BY <1>0, <1>1, <2>1, StepDownType
  <2>2. CASE StepUp
    <3>1. CASE /\ offset' = IF offset < 0 THEN offset + 5 ELSE 0
               /\ dt' = [dt EXCEPT !.en = (offset < 0), !.to = FALSE, !.count = 0]
               /\ UNCHANGED <<resFront, resRear, manualChanging>>
      <4>1. (offset < 0) \in BOOLEAN
        OBVIOUS
      <4>2. dt' \in Timer
        BY <1>1, <3>1, <4>1
      <4> QED
        BY <1>0, <3>1, <4>2
    <3>2. CASE /\ resFront < 0 /\ resFront' = resFront + 2
               /\ dt' = [dt EXCEPT !.en = TRUE, !.to = FALSE, !.count = 0]
               /\ IF target >= target + resFront'
                  THEN resRear' = AttSend(target + resFront') /\ manualChanging' = TRUE
                  ELSE UNCHANGED <<resRear, manualChanging>>
               /\ UNCHANGED offset
      <4>1. resFront' \in {-10, -8, -6, -4, -2, 0}
        BY <1>0, <3>2
      <4>2. AttSend(target + resFront') \in 0..AttMax
        BY <1>0, <4>1, AttSendType
      <4> QED
        BY <1>0, <1>1, <3>2, <4>1, <4>2
    <3>3. CASE /\ resFront' = 0
               /\ dt' = [dt EXCEPT !.en = FALSE, !.to = FALSE, !.count = 0]
               /\ manualChanging' = FALSE
               /\ UNCHANGED <<offset, resRear>>
      BY <1>0, <1>1, <3>3
    <3> QED
      BY <2>2, <3>1, <3>2, <3>3 DEF StepUp
  <2>3. CASE /\ dt' = [dt EXCEPT !.en = @ \/ InBand]
             /\ UNCHANGED <<offset, resFront, resRear, manualChanging>>
    BY <1>0, <2>3 DEF Timer, InBand
  <2> QED
    BY <2>1, <2>2, <2>3 DEF ReduceInterval
<1> QED
  BY <1>2 DEF ReduceInterval, TypeOK, SenseTypeOK, ProtectTypeOK, ReduceTypeOK, LoopTypeOK, ConfigTypeOK,
     PcValues, senseVars, protectVars, configVars

\* Whatever the regulation computes from the code in force is in range.
LEMMA CodesType ==
  ASSUME TypeOK, NEW err
  PROVE  /\ ManualCode(err) \in 0..AttMax /\ AutoCode(err) \in 0..AttMax
         /\ AttSend(target) \in 0..AttMax
<1>1. resRear \in 0..AttMax /\ target \in Int /\ \A n \in -2..3 : resRear + n \in Int
  BY ConstantsAssumption DEF TypeOK, LoopTypeOK
<1>2. /\ AttSend(resRear - 1) \in 0..AttMax /\ AttSend(resRear - 2) \in 0..AttMax
      /\ AttSend(resRear + 1) \in 0..AttMax /\ AttSend(resRear + 2) \in 0..AttMax
      /\ AttSend(resRear + 3) \in 0..AttMax /\ AttSend(target) \in 0..AttMax
  BY <1>1, AttSendType, ConstantsAssumption
<1>3. ManualCode(err) \in 0..AttMax
  BY <1>1, <1>2 DEF ManualCode
<1>4. AutoCode(err) \in 0..AttMax
  BY <1>1, <1>2 DEF AutoCode
<1> QED
  BY <1>2, <1>3, <1>4

LEMMA RegulateType == ASSUME TypeOK, Regulate PROVE TypeOK'
<1>0. LoopTypeOK
  BY DEF TypeOK
<1>1. LoopTypeOK'
  <2>1. ASSUME NEW err \in PowerErrors, ManualSettle(err) PROVE LoopTypeOK'
    BY <1>0, <2>1 DEF ManualSettle, LoopTypeOK, Off
  <2>2. ASSUME NEW err \in PowerErrors, ManualStep(err) PROVE LoopTypeOK'
    <3>1. resRear' \in 0..AttMax
      BY <1>0, <2>2, CodesType DEF ManualStep, LoopTypeOK
    <3>2. at' \in [en : BOOLEAN, to : BOOLEAN]
      BY <2>2 DEF ManualStep, Running, Off
    <3>3. manualChanging' \in BOOLEAN /\ powerChanging' \in BOOLEAN
      <4>1. at.to \in BOOLEAN
        BY <1>0 DEF LoopTypeOK
      <4>2. (at.to /\ target < resRear) \in BOOLEAN /\ (target # resRear') \in BOOLEAN
        BY <4>1
      <4> QED
        BY <2>2, <4>2 DEF ManualStep
    <3> QED
      BY <1>0, <2>2, <3>1, <3>2, <3>3 DEF ManualStep, LoopTypeOK
  <2>3. ASSUME NEW err \in PowerErrors, AutoStep(err) PROVE LoopTypeOK'
    <3>1. resRear' \in 0..AttMax
      BY <1>0, <2>3, CodesType DEF AutoStep, LoopTypeOK
    <3>2. /\ at' \in [en : BOOLEAN, to : BOOLEAN]
          /\ target' \in 0..AttMax /\ powerChanging' \in BOOLEAN
      BY <1>0, <2>3, <3>1 DEF AutoStep, LoopTypeOK, Running, Off
    <3> QED
      BY <1>0, <2>3, <3>1, <3>2 DEF AutoStep, LoopTypeOK
  <2>4. CASE UNCHANGED loopVars
    BY <1>0, <2>4 DEF LoopTypeOK, loopVars
  <2> QED
    BY <2>1, <2>2, <2>3, <2>4 DEF Regulate
<1> QED
  BY <1>1 DEF Regulate, TypeOK, SenseTypeOK, ProtectTypeOK, ReduceTypeOK, ConfigTypeOK,
     PcValues, senseVars, protectVars, reduceVars, configVars

LEMMA RestartType == ASSUME TypeOK, Restart PROVE TypeOK'
<1>1. /\ ProtectTypeOK' /\ at' \in [en : BOOLEAN, to : BOOLEAN]
      /\ manualChanging' \in BOOLEAN
  <2>1. CASE MayRestart
    <3>1. /\ rt' = [rt EXCEPT !.to = FALSE] /\ AP_Startup
          /\ restartCount' = restartCount + 1 /\ cause' = {}
      BY <2>1 DEF Restart
    <3>2. rt' \in Timer
      BY <3>1 DEF TypeOK, ProtectTypeOK, Timer
    <3>3. restartCount' \in 0..CurRstNum
      BY <2>1, <3>1, ConstantsAssumption DEF MayRestart, TypeOK, ProtectTypeOK
    <3> QED
      BY <3>1, <3>2, <3>3, StartupType DEF ProtectTypeOK
  <2>2. CASE ~MayRestart
    BY <2>2 DEF Restart, TypeOK, ProtectTypeOK, LoopTypeOK, protectVars
  <2> QED
    BY <2>1, <2>2
<1> QED
  BY <1>1 DEF Restart, TypeOK, SenseTypeOK, ReduceTypeOK, LoopTypeOK, ConfigTypeOK,
     PcValues, senseVars, configVars

-----------------------------------------------------------------------------
(* Type correctness of the ticks and the commands.                         *)

LEMMA TickType == ASSUME TypeOK, SecondTick \/ PowerTick PROVE TypeOK'
<1>1. CASE SecondTick
  <2>1. rt' \in Timer /\ dt' \in Timer
    BY <1>1, TickedType DEF SecondTick, TypeOK, ProtectTypeOK, ReduceTypeOK
  <2>2. startup' \in 0..StartupDelay
    BY <1>1, CountUpType, ConstantsAssumption DEF SecondTick, TypeOK
  <2> QED
    BY <1>1, <2>1, <2>2 DEF SecondTick, TypeOK, SenseTypeOK, ProtectTypeOK, ReduceTypeOK,
       LoopTypeOK, ConfigTypeOK, PcValues, senseVars, loopVars, configVars
<1>2. CASE PowerTick
  BY <1>2 DEF PowerTick, TypeOK, SenseTypeOK, ProtectTypeOK, ReduceTypeOK,
     LoopTypeOK, ConfigTypeOK, PcValues, senseVars, protectVars, reduceVars, configVars
<1> QED
  BY <1>1, <1>2

LEMMA CommandType == ASSUME TypeOK, Command PROVE TypeOK'
<1> USE DEF TypeOK, SenseTypeOK, ProtectTypeOK, ReduceTypeOK, LoopTypeOK, ConfigTypeOK,
            senseVars, protectVars, reduceVars, loopVars, configVars
<1>0. /\ AttSend(0) \in 0..AttMax /\ 0 \in 0..CurRstNum
      /\ \A code \in AttCodes : code \in 0..AttMax /\ AttSend(code) \in 0..AttMax
  BY AttSendType, ConstantsAssumption
<1>1. CASE SetOn
  BY <1>0, <1>1, StartupType DEF SetOn
<1>2. CASE SetOff
  BY <1>0, <1>2 DEF SetOff, AP_Shutdown, Off
<1>3. CASE SetAuto
  BY <1>0, <1>3, StartupType DEF SetAuto, ModeNames
<1>4. ASSUME NEW cmd \in {"power", "lcdPower"}, SetPower(cmd) PROVE TypeOK'
  BY <1>0, <1>4, StartupType DEF SetPower, ModeNames
<1>5. ASSUME NEW code \in AttCodes, SetAtt(code) PROVE TypeOK'
  BY <1>0, <1>5 DEF SetAtt, ModeNames
<1>6. ASSUME NEW cmd, NEW f \in Frequencies, SetFrequency(cmd, f) PROVE TypeOK'
  BY <1>0, <1>6 DEF SetFrequency
<1> QED
  BY <1>1, <1>2, <1>3, <1>4, <1>5, <1>6 DEF Command

\* Every reachable state is well typed: the attenuator code stays within its
\* six bits' range under every command and every step of the loop, although
\* the code computes it with bytes that wrap; the reduction offsets stay on
\* their steps; and the restarts counted never exceed the setting.
THEOREM TypeCorrect == Spec => []TypeOK
<1>1. ASSUME TypeOK, [Next]_vars PROVE TypeOK'
  <2>1. CASE Pass
    BY <1>1, <2>1, SampleType, SenseType, CheckGateType, ProtectType, ReduceTempType,
       ReduceCurrentType, ReduceIntervalType, RegulateType, RestartType DEF Pass
  <2>2. CASE SecondTick \/ PowerTick
    BY <1>1, <2>2, TickType
  <2>3. CASE Command
    BY <1>1, <2>3, CommandType
  <2>4. CASE UNCHANGED vars
    BY <1>1, <2>4 DEF TypeOK, SenseTypeOK, ProtectTypeOK, ReduceTypeOK, LoopTypeOK,
       ConfigTypeOK, vars, senseVars, protectVars, reduceVars, loopVars, configVars
  <2> QED
    BY <1>1, <2>1, <2>2, <2>3, <2>4 DEF Next
<1> QED
  BY <1>1, InitType, PTL DEF Spec

-----------------------------------------------------------------------------
(* The latch and its timer.                                                *)

\* The steps that can disturb CauseHasTimer: a trip, which sets both sides;
\* the two restarts, which clear both; and the second tick, which moves the
\* timer from running to expired.
LEMMA CauseHasTimerStep ==
  ASSUME TypeOK, CauseHasTimer, [Next]_vars PROVE CauseHasTimer'
<1> USE DEF CauseHasTimer
<1>0. rt \in Timer
  BY DEF TypeOK, ProtectTypeOK
<1>1. CASE Sense
  <2>1. CASE cause = {} /\ rt.to
    BY <1>0, <1>1, <2>1
  <2>2. CASE ~(cause = {} /\ rt.to)
    BY <1>1, <2>2 DEF Sense
  <2> QED
    BY <2>1, <2>2
<1>2. CASE Protect
  <2>1. CASE Trips = {}
    BY <1>2, <2>1 DEF Protect
  <2>2. CASE Trips # {}
    <3>1. cause' = cause \union Trips /\ rt' = Armed(RestartDelay(Trips))
      BY <1>2, <2>2 DEF Protect, ShutDownFor
    <3> QED
      BY <2>2, <3>1 DEF Armed
  <2> QED
    BY <2>1, <2>2
<1>3. CASE Restart
  <2>1. CASE MayRestart
    <3>1. rt' = [rt EXCEPT !.to = FALSE] /\ cause' = {} /\ rt.to
      BY <1>3, <2>1 DEF Restart, MayRestart
    <3> QED
      BY <1>0, <3>1 DEF Timer
  <2>2. CASE ~MayRestart
    BY <1>3, <2>2 DEF Restart, protectVars
  <2> QED
    BY <2>1, <2>2
<1>4. CASE SecondTick
  <2>1. rt' = Ticked(rt) /\ cause' = cause
    BY <1>4 DEF SecondTick
  <2> QED
    BY <1>0, <2>1 DEF Ticked, Timer
<1>5. CASE \/ Sample \/ CheckGate \/ ReduceTemp \/ ReduceCurrent \/ ReduceInterval
           \/ Regulate \/ PowerTick \/ Command \/ UNCHANGED vars
  <2>1. UNCHANGED <<cause, rt>>
    BY <1>5 DEF Sample, CheckGate, ReduceTemp, ReduceCurrent, ReduceInterval, Regulate,
       PowerTick, Command, SetOn, SetOff, SetAuto, SetPower, SetAtt, SetFrequency,
       vars, protectVars
  <2> QED
    BY <2>1
<1> QED
  BY <1>1, <1>2, <1>3, <1>4, <1>5 DEF Next, Pass

\* In every reachable state a latched protection has its restart timer
\* running or expired, and the timer does neither without a latch; so the
\* restart at the head of Main_Process, which counts nothing and looks at no
\* temperature, is dead code as long as the latch and the timer are written
\* only where they are.
THEOREM LatchTimer == Spec => []CauseHasTimer
<1>1. Init => CauseHasTimer
  BY DEF Init, CauseHasTimer, Disarmed, Armed
<1>2. TypeOK /\ CauseHasTimer /\ [Next]_vars => CauseHasTimer'
  BY CauseHasTimerStep
<1> QED
  BY <1>1, <1>2, TypeCorrect, PTL DEF Spec
-----------------------------------------------------------------------------
(* The manual mode.                                                        *)

\* Only the manual mode takes steps of its reduction, and whatever ends it
\* gives the reduction back.
LEMMA ReductionStep ==
  ASSUME ReductionLeftBehind, [Next]_vars PROVE ReductionLeftBehind'
<1> USE DEF ReductionLeftBehind
<1>1. ASSUME NEW ch, NEW bit, NEW delay, Reduce(ch, bit, delay), mode = "auto"
      PROVE  resFront' = resFront
  BY <1>1 DEF Reduce, ReduceOnTrigger, StepDown, RestoreOnRelease, reduceVars
<1>2. CASE ReduceTemp \/ ReduceCurrent
  BY <1>1, <1>2 DEF ReduceTemp, ReduceCurrent, configVars
<1>3. CASE ReduceInterval
  <2>1. mode = "auto" => resFront' = resFront
    BY <1>3 DEF ReduceInterval, StepDown, StepUp
  <2> QED
    BY <1>3, <2>1 DEF ReduceInterval, configVars
<1>4. CASE SetAuto \/ (\E cmd \in {"power", "lcdPower"} : SetPower(cmd))
  BY <1>4 DEF SetAuto, SetPower
<1>5. CASE \E code \in AttCodes : SetAtt(code)
  BY <1>5 DEF SetAtt
<1>6. CASE \/ Sample \/ Sense \/ CheckGate \/ Protect \/ Regulate \/ Restart \/ SecondTick
           \/ PowerTick \/ SetOn \/ SetOff
           \/ (\E cmd \in {"freq", "lcdFreq"}, f \in Frequencies : SetFrequency(cmd, f))
           \/ UNCHANGED vars
  <2>1. UNCHANGED <<mode, resFront>>
    BY <1>6 DEF Sample, Sense, CheckGate, Protect, Regulate, Restart, SecondTick, PowerTick,
       SetOn, SetOff, SetFrequency, vars, reduceVars, configVars
  <2> QED
    BY <2>1
<1> QED
  BY <1>2, <1>3, <1>4, <1>5, <1>6 DEF Next, Pass, Command

\* In every reachable state of automatic mode nothing is left of the manual
\* mode's reduction (RES_Front), whichever command changed the mode.
THEOREM NoReductionLeftBehind == Spec => []ReductionLeftBehind
<1>1. Init => ReductionLeftBehind
  BY DEF Init, ReductionLeftBehind
<1>2. ReductionLeftBehind /\ [Next]_vars => ReductionLeftBehind'
  BY ReductionStep
<1> QED
  BY <1>1, <1>2, PTL DEF Spec

-----------------------------------------------------------------------------
(* What is taken off has its timer.                                        *)

DtOn == dt.en \/ dt.to

\* Without a command that changes to manual mode nothing is ever taken off by
\* P_DownOffset there.
ManualOffset == "att" \notin Commands /\ mode = "manual" => offset = 0

TimedInv == TypeOK /\ ReductionLeftBehind /\ ReductionHasTimer /\ ManualOffset

\* A second leaves a timer that is on running or expired.
LEMMA TickedOn ==
  ASSUME NEW t \in Timer, t.en \/ t.to PROVE Ticked(t).en \/ Ticked(t).to
  BY DEF Ticked, Timer

\* Each branch of a channel's reduction and recovery that leaves something
\* taken off arms the timer or leaves it as it was.
LEMMA ReduceTimed ==
  ASSUME TimedInv, NEW ch, NEW bit, NEW delay, Reduce(ch, bit, delay), mode' = mode
  PROVE  ReductionHasTimer' /\ ManualOffset'
<1>0. /\ resFront \in Int /\ resFront <= 0 /\ mode \in {"auto", "manual"}
      /\ mode = "auto" => resFront = 0
      /\ "att" \notin Commands /\ mode = "manual" => offset = 0
      /\ resFront # 0 => DtOn
      /\ "att" \notin Commands /\ offset # 0 => DtOn
  BY DEF TimedInv, TypeOK, ReduceTypeOK, ConfigTypeOK, ModeNames, ReductionLeftBehind,
     ReductionHasTimer, ManualOffset, DtOn
<1>1. \A d : Armed(d).en
  BY DEF Armed
<1>2. CASE Triggers(ch, "high")
  <2>1. dt' = Armed(delay) /\ (mode = "manual" => offset' = offset)
    BY <1>2, <1>0 DEF Reduce, Releases, Triggers, ReduceOnTrigger, StepDown
  <2> QED
    BY <1>0, <1>1, <2>1 DEF ReductionHasTimer, ManualOffset
<1>3. CASE Releases(ch, "high") /\ mode = "auto"
  <2>1. /\ resFront' = resFront /\ (offset' # 0 => dt' = Armed(delay))
    BY <1>0, <1>3 DEF Reduce, Triggers, Releases, RestoreOnRelease
  <2> QED
    BY <1>0, <1>1, <1>3, <2>1 DEF ReductionHasTimer, ManualOffset
<1>4. CASE Releases(ch, "high") /\ mode = "manual" /\ resFront < 0
  <2>1. /\ offset' = offset /\ dt' \in {Armed(CurRstDelay), dt}
        /\ resFront' # 0 => dt' = Armed(CurRstDelay)
    BY <1>0, <1>4 DEF Reduce, Triggers, Releases, RestoreOnRelease
  <2> QED
    BY <1>0, <1>1, <1>4, <2>1 DEF ReductionHasTimer, ManualOffset
<1>5. CASE Releases(ch, "high") /\ mode = "manual" /\ ~(resFront < 0)
  <2>1. offset' = 0 /\ resFront' = resFront
    BY <1>0, <1>5 DEF Reduce, Triggers, Releases, RestoreOnRelease
  <2> QED
    BY <1>0, <1>5, <2>1 DEF ReductionHasTimer, ManualOffset
<1>6. CASE ~Triggers(ch, "high") /\ ~Releases(ch, "high")
  BY <1>0, <1>6 DEF Reduce, reduceVars, ReductionHasTimer, ManualOffset, DtOn
<1> QED
  BY <1>0, <1>2, <1>3, <1>4, <1>5, <1>6

LEMMA IntervalTimed ==
  ASSUME TimedInv, ReduceInterval PROVE ReductionHasTimer' /\ ManualOffset'
<1>0. /\ resFront \in Int /\ resFront <= 0 /\ offset \in Int /\ offset <= 0 /\ dt \in Timer
      /\ mode \in {"auto", "manual"} /\ mode' = mode
      /\ mode = "auto" => resFront = 0
      /\ "att" \notin Commands /\ mode = "manual" => offset = 0
      /\ resFront # 0 => DtOn
      /\ "att" \notin Commands /\ offset # 0 => DtOn
  BY DEF TimedInv, TypeOK, ReduceTypeOK, ConfigTypeOK, ModeNames, ReductionLeftBehind,
     ReductionHasTimer, ManualOffset, DtOn, ReduceInterval, configVars
<1>1. \A e \in BOOLEAN : [dt EXCEPT !.en = e, !.to = FALSE, !.count = 0].en = e
  BY <1>0 DEF Timer
<1>2. CASE dt.to /\ InBand
  <2>1. /\ dt' = [dt EXCEPT !.en = TRUE, !.to = FALSE, !.count = 0]
        /\ mode = "manual" => offset' = offset
    BY <1>0, <1>2 DEF ReduceInterval, StepDown
  <2> QED
    BY <1>0, <1>1, <2>1 DEF ReductionHasTimer, ManualOffset
<1>3. CASE dt.to /\ ~InBand
  <2>1. StepUp
    BY <1>3 DEF ReduceInterval
  <2>2. CASE mode = "auto"
    <3>1. /\ resFront' = resFront /\ offset' = (IF offset < 0 THEN offset + 5 ELSE 0)
          /\ dt' = [dt EXCEPT !.en = (offset < 0), !.to = FALSE, !.count = 0]
      BY <2>1, <2>2 DEF StepUp
    <3>2. offset' # 0 => dt'.en
      BY <1>0, <1>1, <3>1
    <3> QED
      BY <1>0, <2>2, <3>1, <3>2 DEF ReductionHasTimer, ManualOffset
  <2>3. CASE mode = "manual" /\ resFront < 0
    <3>1. offset' = offset /\ dt' = [dt EXCEPT !.en = TRUE, !.to = FALSE, !.count = 0]
      BY <1>0, <2>1, <2>3 DEF StepUp
    <3> QED
      BY <1>0, <1>1, <2>3, <3>1 DEF ReductionHasTimer, ManualOffset
  <2>4. CASE mode = "manual" /\ resFront >= 0
    <3>1. offset' = offset /\ resFront' = 0
      BY <1>0, <2>1, <2>4 DEF StepUp
    <3> QED
      BY <1>0, <2>4, <3>1 DEF ReductionHasTimer, ManualOffset
  <2> QED
    BY <1>0, <2>2, <2>3, <2>4
<1>4. CASE ~dt.to
  <2>1. dt' = [dt EXCEPT !.en = @ \/ InBand] /\ UNCHANGED <<offset, resFront>>
    BY <1>4 DEF ReduceInterval
  <2>2. dt.en => dt'.en
    BY <1>0, <2>1 DEF Timer
  <2> QED
    BY <1>0, <1>4, <2>1, <2>2 DEF ReductionHasTimer, ManualOffset, DtOn
<1> QED
  BY <1>2, <1>3, <1>4

LEMMA TimedStep ==
  ASSUME TimedInv, [Next]_vars PROVE ReductionHasTimer' /\ ManualOffset'
<1>1. CASE ReduceTemp \/ ReduceCurrent
  <2>1. mode' = mode
    BY <1>1 DEF ReduceTemp, ReduceCurrent, configVars
  <2> QED
    BY <1>1, <2>1, ReduceTimed DEF ReduceTemp, ReduceCurrent
<1>2. CASE ReduceInterval
  BY <1>2, IntervalTimed
<1>3. CASE SecondTick
  <2>1. UNCHANGED <<offset, resFront, mode>> /\ dt' = Ticked(dt) /\ dt \in Timer
    BY <1>3 DEF SecondTick, configVars, TimedInv, TypeOK, ReduceTypeOK
  <2>2. DtOn => DtOn'
    BY <2>1, TickedOn DEF DtOn
  <2> QED
    BY <2>1, <2>2 DEF TimedInv, ReductionHasTimer, ManualOffset, DtOn
<1>4. CASE SetOn \/ SetOff \/ SetAuto
  <2>1. offset' = 0 /\ dt' = dt /\ resFront' \in {0, resFront}
    BY <1>4 DEF SetOn, SetOff, SetAuto
  <2> QED
    BY <2>1 DEF TimedInv, ReductionHasTimer, ManualOffset
<1>5. CASE \E cmd \in {"power", "lcdPower"} : SetPower(cmd)
  <2>1. resFront' = 0 /\ mode' = "auto" /\ UNCHANGED <<offset, dt>>
    BY <1>5 DEF SetPower
  <2> QED
    BY <2>1 DEF TimedInv, ReductionHasTimer, ManualOffset
<1>6. CASE \E code \in AttCodes : SetAtt(code)
  <2>1. "att" \in Commands /\ UNCHANGED <<offset, resFront, dt>>
    BY <1>6 DEF SetAtt, reduceVars
  <2> QED
    BY <2>1 DEF TimedInv, ReductionHasTimer, ManualOffset
<1>7. CASE \/ Sample \/ Sense \/ CheckGate \/ Protect \/ Regulate \/ Restart \/ PowerTick
           \/ (\E cmd \in {"freq", "lcdFreq"}, f \in Frequencies : SetFrequency(cmd, f))
           \/ UNCHANGED vars
  <2>1. UNCHANGED <<mode, offset, resFront, dt>>
    BY <1>7 DEF Sample, Sense, CheckGate, Protect, Regulate, Restart, PowerTick,
       SetFrequency, vars, reduceVars, configVars
  <2> QED
    BY <2>1 DEF TimedInv, ReductionHasTimer, ManualOffset
<1> QED
  BY <1>1, <1>2, <1>3, <1>4, <1>5, <1>6, <1>7 DEF Next, Pass, Command

\* Whatever the interleaving of passes, seconds and commands, power that is
\* taken off has CHECKPOWERDOWNTIMER running, or its timeout not yet taken:
\* the safety half of its coming back.
THEOREM TakenOffIsTimed == Spec => []ReductionHasTimer
<1>1. Init => ReductionHasTimer /\ ManualOffset
  BY DEF Init, ReductionHasTimer, ManualOffset
<1>2. TypeOK /\ ReductionLeftBehind /\ ReductionHasTimer /\ ManualOffset /\ [Next]_vars
        => ReductionHasTimer' /\ ManualOffset'
  BY TimedStep DEF TimedInv
<1> QED
  BY <1>1, <1>2, TypeCorrect, NoReductionLeftBehind, PTL DEF Spec

-----------------------------------------------------------------------------
(* The manual mode's ceiling.                                              *)

\* The attenuator takes no more than it is sent, but for a byte that wraps.
LEMMA AttSendAtMost ==
  ASSUME NEW code \in 0..255 PROVE AttSend(code) \in Nat /\ AttSend(code) <= code
  BY ConstantsAssumption DEF AttSend

\* A reduction or recovery that leaves nothing taken off ends at the target.
LEMMA ReduceToTarget ==
  ASSUME TypeOK, NEW ch, NEW bit, NEW delay, Reduce(ch, bit, delay),
         mode = "manual", resFront' = 0
  PROVE  resRear' <= target \/ UNCHANGED <<resFront, resRear>>
<1>0. /\ resFront \in {-10, -8, -6, -4, -2, 0} /\ target \in 0..62
  BY ConstantsAssumption DEF TypeOK, ReduceTypeOK, LoopTypeOK
<1>1. CASE ReduceOnTrigger(delay)
  BY <1>0, <1>1 DEF ReduceOnTrigger, StepDown
<1>2. CASE RestoreOnRelease(delay)
  <2>1. CASE resFront < 0
    <3>1. resRear' = AttSend(target + resFront') /\ target + resFront' = target
      BY <1>0, <1>2, <2>1 DEF RestoreOnRelease
    <3> QED
      BY <1>0, <3>1, AttSendAtMost
  <2>2. CASE resFront >= 0
    BY <1>0, <1>2, <2>2 DEF RestoreOnRelease
  <2> QED
    BY <1>0, <2>1, <2>2
<1> QED
  BY <1>1, <1>2 DEF Reduce, reduceVars

\* The same for the reduction interval.
LEMMA IntervalToTarget ==
  ASSUME TypeOK, ReduceInterval, mode = "manual", resFront' = 0
  PROVE  resRear' <= target \/ UNCHANGED <<resFront, resRear>>
<1>0. /\ resFront \in {-10, -8, -6, -4, -2, 0} /\ target \in 0..62
  BY ConstantsAssumption DEF TypeOK, ReduceTypeOK, LoopTypeOK
<1>1. CASE StepDown
  BY <1>0, <1>1 DEF StepDown
<1>2. CASE StepUp
  <2>1. CASE resFront < 0
    <3>1. resRear' = AttSend(target + resFront') /\ target + resFront' = target
      BY <1>0, <1>2, <2>1 DEF StepUp
    <3> QED
      BY <1>0, <3>1, AttSendAtMost
  <2>2. CASE resFront >= 0
    BY <1>0, <1>2, <2>2 DEF StepUp
  <2> QED
    BY <1>0, <2>1, <2>2
<1> QED
  BY <1>1, <1>2 DEF ReduceInterval

\* A step of the manual regulation ends at most 3 above the target, or where
\* it began.
LEMMA RegulateUnderCeiling ==
  ASSUME TypeOK, Regulate, mode = "manual", resRear # 0
  PROVE  resRear' <= target' + 3 \/ UNCHANGED <<resRear, target>>
<1>0. resRear \in 0..62 /\ target \in 0..62
  BY ConstantsAssumption DEF TypeOK, LoopTypeOK
<1>1. ASSUME NEW err, ManualSettle(err)
      PROVE  resRear' <= target' + 3 \/ UNCHANGED <<resRear, target>>
  BY <1>0, <1>1 DEF ManualSettle
<1>2. ASSUME NEW err, ManualStep(err)
      PROVE  resRear' <= target' + 3 \/ UNCHANGED <<resRear, target>>
  <2>1. AttSend(target) <= target /\ AttSend(target) \in Nat
    BY <1>0, AttSendAtMost
  <2>2. ManualCode(err) <= resRear + 3
    <3>1. resRear - 1 \in 0..255 /\ resRear + 1 \in 0..255 /\ resRear + 3 \in 0..255
      BY <1>0
    <3>2. /\ AttSend(resRear - 1) \in Nat /\ AttSend(resRear - 1) <= resRear - 1
          /\ AttSend(resRear + 1) \in Nat /\ AttSend(resRear + 1) <= resRear + 1
          /\ AttSend(resRear + 3) \in Nat /\ AttSend(resRear + 3) <= resRear + 3
      BY <3>1, AttSendAtMost
    <3> QED
      BY <1>0, <3>2 DEF ManualCode
  <2>3. target' = target
    BY <1>2 DEF ManualStep
  <2>4. CASE at.to /\ target >= resRear /\ gate
    <3>1. resRear' = ManualCode(err)
      BY <1>2, <2>4 DEF ManualStep
    <3>2. ManualCode(err) \in Int
      BY <1>0, AttSendType DEF ManualCode
    <3> QED
      BY <1>0, <2>2, <2>3, <2>4, <3>1, <3>2
  <2>5. CASE at.to /\ target < resRear
    <3>1. resRear' = AttSend(target)
      BY <1>0, <1>2, <2>5 DEF ManualStep
    <3> QED
      BY <1>0, <2>1, <2>3, <3>1
  <2>6. CASE ~(at.to /\ target >= resRear /\ gate) /\ ~(at.to /\ target < resRear)
    BY <1>2, <2>3, <2>6 DEF ManualStep
  <2> QED
    BY <2>4, <2>5, <2>6
<1>3. ASSUME NEW err PROVE ~AutoStep(err)
  BY DEF AutoStep, InAuto
<1> QED
  BY <1>1, <1>2, <1>3 DEF Regulate, loopVars

\* Above the ceiling is not under it (used for primed values).
LEMMA NotBoth == \A a, b \in Int : a > b + 3 => ~(a <= b + 3)
  OBVIOUS

\* The steps that can take the code above the ceiling begin at code 0.
LEMMA CeilingStep ==
  ASSUME TypeOK, TypeOK', [Next]_vars, AboveCeiling', resRear # 0 PROVE AboveCeiling
<1> USE DEF AboveCeiling
<1>0. /\ resRear \in 0..62 /\ target \in 0..62 /\ resRear' \in 0..62 /\ target' \in 0..62
      /\ AttSend(0) = 0
  BY ConstantsAssumption DEF TypeOK, LoopTypeOK, AttSend
<1>1. CASE Sense \/ Protect
  <2>1. UNCHANGED <<mode, resFront, target>> /\ (resRear' = 0 \/ resRear' = resRear)
    BY <1>0, <1>1 DEF Sense, Protect, ShutDownFor, reduceVars, configVars
  <2> QED
    BY <1>0, <2>1
<1>2. CASE ReduceTemp \/ ReduceCurrent
  <2>1. UNCHANGED <<mode, target>>
    BY <1>2 DEF ReduceTemp, ReduceCurrent, configVars
  <2>2. resRear' <= target \/ UNCHANGED <<resFront, resRear>>
    BY <1>2, <2>1, ReduceToTarget DEF ReduceTemp, ReduceCurrent
  <2> QED
    BY <1>0, <2>1, <2>2
<1>3. CASE ReduceInterval
  <2>1. UNCHANGED <<mode, target>>
    BY <1>3 DEF ReduceInterval, configVars
  <2>2. resRear' <= target \/ UNCHANGED <<resFront, resRear>>
    BY <1>3, <2>1, IntervalToTarget
  <2> QED
    BY <1>0, <2>1, <2>2
<1>4. CASE Regulate
  <2>1. UNCHANGED <<mode, resFront>>
    BY <1>4 DEF Regulate, reduceVars, configVars
  <2>2. resRear' <= target' + 3 \/ UNCHANGED <<resRear, target>>
    BY <1>4, <2>1, RegulateUnderCeiling
  <2>3. resRear' \in Int /\ target' \in Int
    BY <1>0
  <2>4. ~(resRear' <= target' + 3)
    BY <2>3, NotBoth
  <2>5. resRear' = resRear /\ target' = target
    BY <2>2, <2>4
  <2> QED
    BY <2>1, <2>5
<1>5. CASE SetAuto \/ (\E cmd \in {"power", "lcdPower"} : SetPower(cmd))
  BY <1>5 DEF SetAuto, SetPower
<1>6. ASSUME NEW code \in AttCodes, SetAtt(code) PROVE FALSE
  <2>1. target' = code /\ resRear' = AttSend(code) /\ code \in 0..62
    BY <1>6, ConstantsAssumption DEF SetAtt
  <2> QED
    BY <1>0, <2>1, AttSendAtMost
<1>7. CASE SetOff \/ (\E cmd \in {"freq", "lcdFreq"}, f \in Frequencies : SetFrequency(cmd, f))
  <2>1. UNCHANGED <<mode, resFront, target>> /\ (resRear' = 0 \/ resRear' = resRear)
    BY <1>0, <1>7 DEF SetOff, SetFrequency, reduceVars, configVars
  <2> QED
    BY <1>0, <2>1
<1>8. CASE \/ Sample \/ CheckGate \/ Restart \/ SecondTick \/ PowerTick \/ SetOn
           \/ UNCHANGED vars
  <2>1. UNCHANGED <<mode, resFront, target, resRear>>
    BY <1>8 DEF Sample, CheckGate, Restart, SecondTick, PowerTick, SetOn, vars, reduceVars,
       loopVars, configVars
  <2> QED
    BY <2>1
<1> QED
  BY <1>1, <1>2, <1>3, <1>4, <1>5, <1>6, <1>7, <1>8 DEF Next, Pass, Command

\* In manual mode, with nothing taken off, no step of the regulation, a
\* reduction's end or a command takes the attenuator more than 3 above the
\* operator's code, except from code 0, where the byte wraps.
THEOREM ManualUnderCeiling == Spec => ManualCeiling
<1>1. TypeOK /\ TypeOK' /\ [Next]_vars
        => [AboveCeiling' => AboveCeiling \/ resRear = 0]_vars
  BY CeilingStep
<1> QED
  BY <1>1, TypeCorrect, PTL DEF Spec, ManualCeiling
=============================================================================
