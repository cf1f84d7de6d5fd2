----------------------------- MODULE PaChannels -----------------------------
(***************************************************************************)
(* The four monitored quantities of the power amplifier and the debouncing *)
(* that turns their readings into a status (Private/Power_Control_App.c,   *)
(* Temp_CheckProcess and the head of Main_Process).                        *)
(*                                                                         *)
(* The code keeps, per quantity, a status byte and three masks derived     *)
(* from it and from the status of the pass before:                         *)
(*   Trig    = Status & ~Cont   (a bit that has just been set)             *)
(*   Release = Cont & ~Status   (a bit that has just been cleared)         *)
(*   Cont    = Status           (kept for the next pass)                   *)
(* A channel here is its counters, its status and "prev", the status the   *)
(* masks were computed against; Triggers and Releases read the two masks.  *)
(***************************************************************************)
EXTENDS Naturals

\* Status values: bit I_HEIGHT is "high", bit I_PROTECT_HTIGHT is "over".
StatusValues == {"normal", "high", "over"}

\* Readings of a quantity with a power-reduction and a shutdown limit.
Levels == {"normal", "high", "over"}
\* Readings of the supply: in (45,51), above 51, or in the band that is
\* neither (45 V and below, and exactly 51 V).
VccReadings == {"ok", "dead", "over"}
RfReadings == {"ok", "high"}

CountUp(n, cap) == IF n < cap THEN n + 1 ELSE n

\* A bit of the status that is set now and was not at the previous check.
Triggers(ch, bit) == ch.status = bit /\ ch.prev # bit
\* A bit of the status that was set at the previous check and is not now.
Releases(ch, bit) == ch.prev = bit /\ ch.status # bit

LimitChannel(K) == [over : 0..K, high : 0..K, status : StatusValues, prev : StatusValues]
InitLimitChannel == [over |-> 0, high |-> 0, status |-> "normal", prev |-> "normal"]

\* Current and temperature: K consecutive readings over a limit set its bit,
\* one reading below both limits clears the status, and a shorter excursion
\* leaves the status as it was.
CheckLimits(ch, level, K) ==
  LET over == IF level = "over" THEN CountUp(ch.over, K) ELSE 0
      high == IF level = "high" THEN CountUp(ch.high, K) ELSE 0
  IN [over   |-> over,
      high   |-> high,
      status |-> CASE over >= K              -> "over"
                   [] high >= K              -> "high"
                   [] over = 0 /\ high = 0   -> "normal"
                   [] OTHER                  -> ch.status,
      prev   |-> ch.status]

CountChannel(top, bit) == [n : 0..top, status : {"normal", bit}, prev : {"normal", bit}]
InitCountChannel == [n |-> 0, status |-> "normal", prev |-> "normal"]

\* Supply voltage: a reading in the dead band leaves the counter alone.
CheckVcc(ch, reading, K) ==
  LET n == CASE reading = "over" -> CountUp(ch.n, K)
             [] reading = "ok"   -> 0
             [] reading = "dead" -> ch.n
  IN [n      |-> n,
      status |-> CASE n >= K -> "high"
                   [] n = 0  -> "normal"
                   [] OTHER  -> ch.status,
      prev   |-> ch.status]

\* Reflected power: the status follows once the counter has passed K.
CheckReflected(ch, reading, K) ==
  [n      |-> IF reading = "high" THEN CountUp(ch.n, K + 1) ELSE 0,
   status |-> CASE reading = "ok"                -> "normal"
                [] reading = "high" /\ ch.n > K  -> "over"
                [] OTHER                         -> ch.status,
   prev   |-> ch.status]
=============================================================================
