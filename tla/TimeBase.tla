------------------------------ MODULE TimeBase ------------------------------
(***************************************************************************)
(* The time base: SysTick_Handler (SYSTEM/delay/delay.c) raises the flags  *)
(* of the 10 ms and of the second in Sys_Flag, and App_TaskStart           *)
(* (USER/main.c) takes them and counts User_Timer, which Main_Process in   *)
(* TaskPAON (Power_Control_App.c) arms, stops and reads.                   *)
(*                                                                         *)
(* Sys_Flag is one word of bit-fields.  To set or clear a bit a task loads *)
(* the word and stores it changed; the interrupt, and every task of a      *)
(* higher priority, may come between the two, and the store undoes what    *)
(* they did.  App_TaskStart has the lowest priority (15), so the fields of *)
(* a timer may change under its hands as well.                             *)
(***************************************************************************)
EXTENDS Naturals

CONSTANTS
  MsPerSec, \* ms_cnt at which SysTick_Handler raises fSec (100)
  Timers,   \* of User_Timer: "auto", "down", "restart"
  Delays,   \* Out_Counts of the restart timer (the settings)
  Interval, \* Out_Count of the other timers
  Writers   \* other tasks that write Sys_Flag: "paon", "pc"

ASSUME TimeAssumption ==
  /\ MsPerSec \in Nat \ {0}
  /\ Timers \subseteq {"auto", "down", "restart"} /\ Delays \subseteq Nat \ {0}
  /\ \E d \in Delays : \A e \in Delays : e <= d \* a setting has a width
  /\ Interval \in Nat \ {0}
  /\ Writers \subseteq {"paon", "pc"}

VARIABLES
  ms_cnt,       \* ticks since the last second
  Sys_Flag,     \* the bits that are set
  User_Timer,
  app,          \* App_TaskStart: at, the timer it counts, its registers
  between,      \* writers that have loaded the word and not stored it
  loaded,       \* the word they loaded
  fresh,        \* tick flags raised since App_TaskStart last took them
  whole,        \* the restart timer was armed out of App_TaskStart's way
  waited        \* seconds it has counted since

writers == <<between, loaded>>
vars == <<ms_cnt, Sys_Flag, User_Timer, app, writers, fresh, whole, waited>>

\* The bits of Sys_Flag the interrupt sets; the bits of the tasks are left out.
TickBits == {"fMS", "fSec"}

Timer == [Timer_Enable : BOOLEAN, Timer_Timeout : BOOLEAN, Timer_Count : Nat, Timer_Out_Count : Nat]

\* No other task is between load and store: such a task keeps App_TaskStart
\* and the writers of a timer from running.
Apart == between = {}

-----------------------------------------------------------------------------
(* The interrupt.                                                          *)

SysTick ==
  /\ IF ms_cnt >= MsPerSec
     THEN /\ ms_cnt' = 0
          /\ Sys_Flag' = Sys_Flag \union {"fMS", "fSec"}
          /\ fresh' = fresh \union {"fMS", "fSec"}
     ELSE /\ ms_cnt' = ms_cnt + 1
          /\ Sys_Flag' = Sys_Flag \union {"fMS"}
          /\ fresh' = fresh \union {"fMS"}
  /\ UNCHANGED <<User_Timer, app, writers, whole, waited>>

-----------------------------------------------------------------------------
(* The other tasks.                                                        *)

\* TaskPC (12) preempts TaskPAON (14).
MayRun(t) == t = "paon" => "pc" \notin between

Load(t) ==
  /\ t \notin between /\ MayRun(t)
  /\ between' = between \union {t}
  /\ loaded' = [loaded EXCEPT ![t] = Sys_Flag]
  /\ UNCHANGED <<ms_cnt, Sys_Flag, User_Timer, app, fresh, whole, waited>>

\* The store of a bit of its own: of the tick bits, those it had loaded.
Store(t) ==
  /\ t \in between /\ MayRun(t)
  /\ Sys_Flag' = loaded[t]
  /\ between' = between \ {t}
  /\ loaded' = [loaded EXCEPT ![t] = {}]
  /\ UNCHANGED <<ms_cnt, User_Timer, app, fresh, whole, waited>>

\* Main_Process writes the fields of a timer; App_TaskStart does not run
\* meanwhile.
Put(i, r) ==
  /\ Apart
  /\ User_Timer' = [User_Timer EXCEPT ![i] = r]
  /\ UNCHANGED <<ms_cnt, Sys_Flag, app, writers, fresh>>

\* Mistake: the count of the last time stays.
ArmKeepsCount(tm, delay) ==
  [tm EXCEPT !.Timer_Enable = TRUE, !.Timer_Timeout = FALSE, !.Timer_Out_Count = delay]

Arm(tm, delay) ==
  [Timer_Enable |-> TRUE, Timer_Timeout |-> FALSE, Timer_Count |-> 0, Timer_Out_Count |-> delay]

\* OVERLOADRESTARTTIMER: armed by a protection, its timeout taken by a restart.
\* (Counted: where App_TaskStart goes on with a count it took before.)
Counted == {"store", "compare", "stop", "reset", "timeout"}
Protect ==
  /\ "restart" \in Timers
  /\ \E d \in Delays : Put("restart", Arm(User_Timer["restart"], d))
  /\ whole' = ~(app.timer = "restart" /\ app.at \in Counted)
  /\ waited' = 0

Restart ==
  /\ "restart" \in Timers /\ User_Timer["restart"].Timer_Timeout
  /\ Put("restart", [User_Timer["restart"] EXCEPT !.Timer_Timeout = FALSE])
  /\ UNCHANGED <<whole, waited>>

\* CHECKPOWERDOWNTIMER: armed or stopped by a reduction and a recovery, its
\* timeout taken by a step that may start it again, switched on while a
\* channel stays in its band.
Reduce ==
  /\ "down" \in Timers
  /\ LET tm == User_Timer["down"] IN
       \/ \E on \in BOOLEAN : Put("down", [Arm(tm, Interval) EXCEPT !.Timer_Enable = on])
       \/ /\ tm.Timer_Timeout
          /\ \E on \in BOOLEAN :
               Put("down", [tm EXCEPT !.Timer_Timeout = FALSE, !.Timer_Count = 0, !.Timer_Enable = on])
       \/ ~tm.Timer_Enable /\ Put("down", [tm EXCEPT !.Timer_Enable = TRUE])
  /\ UNCHANGED <<whole, waited>>

\* POWERAUTOTIMER: started or stopped by AP_Startup, AP_Shutdown and the
\* regulation; nobody but App_TaskStart resets its count.
Regulate ==
  /\ "auto" \in Timers
  /\ \E on \in BOOLEAN :
       Put("auto", [User_Timer["auto"] EXCEPT !.Timer_Enable = on, !.Timer_Timeout = FALSE])
  /\ UNCHANGED <<whole, waited>>

Others == (\E t \in Writers : Load(t) \/ Store(t)) \/ Protect \/ Restart \/ Reduce \/ Regulate

-----------------------------------------------------------------------------
(* App_TaskStart.                                                          *)

\* Mistake: App_TaskStart has a priority above the other tasks'.
RunsFirst(at) == app.at = at

\* Its next action is at "at"; no other task wants to run.
Runs(at) == app.at = at /\ Apart
\* It goes on; what its registers hold is of no more use.
Goto(at) == app' = [app EXCEPT !.at = at, !.word = {}, !.count = 0, !.bit = "fMS"]

Wake ==
  /\ Runs("rest") /\ Goto("fMS")
  /\ UNCHANGED <<ms_cnt, Sys_Flag, User_Timer, writers, fresh, whole, waited>>

\* Count timer i, if it is one of those modelled, or go on.
Count(i, next) ==
  IF i \in Timers THEN app' = [app EXCEPT !.at = "enabled", !.timer = i, !.word = {}, !.bit = "fMS"]
  ELSE Goto(next)

\* The test of a flag, and the load of the word to clear it.
Test(bit, next) ==
  /\ Runs(bit)
  /\ app' = IF bit \in Sys_Flag THEN [app EXCEPT !.at = "clear", !.bit = bit, !.word = Sys_Flag]
            ELSE [app EXCEPT !.at = next]
  /\ UNCHANGED <<ms_cnt, Sys_Flag, User_Timer, writers, fresh, whole, waited>>

\* Mistake: the whole word is cleared.
ClearWord ==
  /\ Runs("clear")
  /\ Sys_Flag' = {}
  /\ fresh' = fresh \ {app.bit}
  /\ IF app.bit = "fMS" THEN Count("auto", "fSec") ELSE Goto("event")
  /\ UNCHANGED <<ms_cnt, User_Timer, writers, whole, waited>>

\* The store that clears it.
Clear ==
  /\ Runs("clear")
  /\ Sys_Flag' = app.word \ {app.bit}
  /\ fresh' = fresh \ {app.bit}
  /\ IF app.bit = "fMS" THEN Count("auto", "fSec") ELSE Goto("event")
  /\ UNCHANGED <<ms_cnt, User_Timer, writers, whole, waited>>

\* fSenEvent is set for the other tasks, as other flags are in DoSecEvent.
LoadEvent ==
  /\ Runs("event")
  /\ app' = [app EXCEPT !.at = "setEvent", !.word = Sys_Flag]
  /\ UNCHANGED <<ms_cnt, Sys_Flag, User_Timer, writers, fresh, whole, waited>>

StoreEvent ==
  /\ Runs("setEvent")
  /\ Sys_Flag' = app.word
  /\ IF "down" \in Timers THEN Count("down", "rest") ELSE Count("restart", "rest")
  /\ UNCHANGED <<ms_cnt, User_Timer, writers, fresh, whole, waited>>

\* What follows the timer in hand.
Following == IF app.timer = "auto" THEN Goto("fSec")
             ELSE IF app.timer = "down" THEN Count("restart", "rest")
             ELSE Goto("rest")

Tm == User_Timer[app.timer]

\* if( Timer_Enable ),
TestEnable ==
  /\ Runs("enabled")
  /\ IF Tm.Timer_Enable THEN Goto("increment") ELSE Following
  /\ UNCHANGED <<ms_cnt, Sys_Flag, User_Timer, writers, fresh, whole, waited>>

\* Timer_Count++: a load,
LoadCount ==
  /\ Runs("increment")
  /\ app' = [app EXCEPT !.at = "store", !.count = Tm.Timer_Count]
  /\ UNCHANGED <<ms_cnt, Sys_Flag, User_Timer, writers, fresh, whole, waited>>

\* and a store.
StoreCount ==
  /\ Runs("store")
  /\ User_Timer' = [User_Timer EXCEPT ![app.timer].Timer_Count = app.count + 1]
  /\ waited' = IF app.timer = "restart" /\ whole THEN waited + 1 ELSE waited
  /\ app' = [app EXCEPT !.at = "compare"]
  /\ UNCHANGED <<ms_cnt, Sys_Flag, writers, fresh, whole>>

\* Mistake: the timer runs until its count is above the delay.
CompareAbove ==
  /\ Runs("compare")
  /\ IF Tm.Timer_Count > Tm.Timer_Out_Count THEN Goto("stop") ELSE Following
  /\ UNCHANGED <<ms_cnt, Sys_Flag, User_Timer, writers, fresh, whole, waited>>

\* The count compared is the one in memory or still in a register.
Compare ==
  /\ Runs("compare")
  /\ \E count \in {app.count + 1, Tm.Timer_Count} :
       IF count >= Tm.Timer_Out_Count THEN Goto("stop") ELSE Following
  /\ UNCHANGED <<ms_cnt, Sys_Flag, User_Timer, writers, fresh, whole, waited>>

\* Timer_Enable = 0, Timer_Count = 0, Timer_Timeout = 1, one after another.
Stop ==
  /\ Runs("stop") /\ Goto("reset")
  /\ User_Timer' = [User_Timer EXCEPT ![app.timer].Timer_Enable = FALSE]
  /\ UNCHANGED <<ms_cnt, Sys_Flag, writers, fresh, whole, waited>>

Reset ==
  /\ Runs("reset") /\ Goto("timeout")
  /\ User_Timer' = [User_Timer EXCEPT ![app.timer].Timer_Count = 0]
  /\ UNCHANGED <<ms_cnt, Sys_Flag, writers, fresh, whole, waited>>

TimeOut ==
  /\ Runs("timeout")
  /\ User_Timer' = [User_Timer EXCEPT ![app.timer].Timer_Timeout = TRUE]
  /\ Following
  /\ UNCHANGED <<ms_cnt, Sys_Flag, writers, fresh, whole, waited>>

App_TaskStart ==
  \/ Wake \/ Test("fMS", "fSec") \/ Test("fSec", "rest") \/ Clear \/ LoadEvent \/ StoreEvent
  \/ TestEnable \/ LoadCount \/ StoreCount \/ Compare \/ Stop \/ Reset \/ TimeOut

-----------------------------------------------------------------------------
Init ==
  /\ ms_cnt = 0 /\ Sys_Flag = {}
  /\ \E d \in Delays :
       User_Timer = [i \in {"auto", "down", "restart"} |->
                       [Timer_Enable |-> (i = "auto"), Timer_Timeout |-> FALSE,
                        Timer_Count |-> 0, Timer_Out_Count |-> IF i = "restart" THEN d ELSE Interval]]
  /\ app = [at |-> "rest", timer |-> "auto", bit |-> "fMS", word |-> {}, count |-> 0]
  /\ between = {} /\ loaded = [t \in Writers |-> {}]
  /\ fresh = {} /\ whole = TRUE /\ waited = 0

Next == SysTick \/ Others \/ App_TaskStart

\* A tick that falls between no load and its store, and raises fSec.
Quiet == Apart /\ app.at \notin {"clear", "setEvent"} /\ ms_cnt >= MsPerSec

\* The interrupt does not stop, the other tasks sleep again and again, and a
\* load and its store are a few instructions in 15 ms: not every second is
\* raised just between the two.
Fairness ==
  /\ []<><<Quiet /\ SysTick>>_vars
  /\ \A t \in Writers : SF_vars(Store(t))
  /\ SF_vars(App_TaskStart)

Spec == Init /\ [][Next]_vars /\ Fairness

-----------------------------------------------------------------------------
(* Properties.                                                             *)

LongestDelay == CHOOSE d \in Delays \union {Interval} : \A e \in Delays \union {Interval} : e <= d

TypeOK ==
  /\ ms_cnt \in 0..MsPerSec /\ Sys_Flag \subseteq TickBits /\ fresh \subseteq TickBits
  /\ User_Timer \in [{"auto", "down", "restart"} -> Timer]
  /\ \A i \in Timers : User_Timer[i].Timer_Count <= LongestDelay
  /\ app.word \subseteq TickBits /\ app.timer \in {"auto", "down", "restart"}
  /\ between \subseteq Writers /\ loaded \in [Writers -> SUBSET TickBits]
  /\ whole \in BOOLEAN /\ waited \in 0..LongestDelay

\* No store of a stale word makes App_TaskStart take a tick flag for a
\* second time (delay.c:100, main.c:218): a flag that is set has been raised
\* since it was last taken.
TakenOnce == Sys_Flag \cap TickBits \subseteq fresh

\* The restart timer (main.c:228) runs its whole delay and no more, unless a
\* protection arms it while App_TaskStart is counting it.
FullDelay ==
  app.at = "timeout" /\ app.timer = "restart" /\ whole => waited = Tm.Timer_Out_Count

\* The restart timer is the countdown Main_Process takes it for, although
\* App_TaskStart counts it with a lower priority and in several steps
\* (main.c:228-242).
TimerState ==
  LET tm == User_Timer["restart"] IN
  IF ~whole THEN "spoilt"
  ELSE IF tm.Timer_Timeout THEN "expired"
  ELSE IF tm.Timer_Enable \/ (app.timer = "restart" /\ app.at \in {"reset", "timeout"}) THEN "running"
  ELSE "off"
Promise == INSTANCE Countdown WITH
  state <- TimerState, elapsed <- waited, delay <- User_Timer["restart"].Timer_Out_Count
TimerIsCountdown == Promise!Spec

\* A restart timer that is armed, and not armed again for ever, leaves its
\* timeout, although seconds may be lost in Sys_Flag (main.c:228-242).
TimerExpires ==
  []<><<Protect>>_vars \/ (User_Timer["restart"].Timer_Enable ~> User_Timer["restart"].Timer_Timeout)
=============================================================================
