---------------------------- MODULE TimeBaseProofs ----------------------------
(***************************************************************************)
(* Theorems about TimeBase, for every rate of the interrupt, every delay   *)
(* and every set of tasks that write Sys_Flag: no tick is taken twice, and *)
(* a restart timer runs its whole delay.                                   *)
(***************************************************************************)
EXTENDS TimeBase, TLAPS

Labels == {"rest", "fMS", "fSec", "clear", "event", "setEvent", "enabled", "increment"} \union Counted
Indices == {"auto", "down", "restart"}
Places == [at : Labels, timer : Indices, bit : TickBits, word : SUBSET TickBits, count : Nat]

\* The types the proofs need.
Typed ==
  /\ Sys_Flag \subseteq TickBits /\ fresh \subseteq TickBits
  /\ loaded \in [Writers -> SUBSET TickBits] /\ between \subseteq Writers
  /\ app \in Places
  /\ User_Timer \in [Indices -> Timer] /\ waited \in Nat /\ whole \in BOOLEAN

\* Every copy of the word holds only ticks that are fresh.
CopiesFresh ==
  /\ Sys_Flag \subseteq fresh
  /\ \A t \in between : loaded[t] \subseteq fresh
  /\ app.at \in {"clear", "setEvent"} => app.word \subseteq fresh

\* The seconds the restart timer has waited are its count, or the count in a
\* register of App_TaskStart.
Waiting ==
  LET tm == User_Timer["restart"] IN
  whole =>
    /\ tm.Timer_Enable /\ (app.timer = "restart" => app.at \notin Counted)
         => waited = tm.Timer_Count /\ waited < tm.Timer_Out_Count
    /\ app.timer = "restart" /\ app.at \in {"increment", "store", "compare"} => tm.Timer_Enable
    /\ app.timer = "restart" /\ app.at = "store"
         => waited = tm.Timer_Count /\ waited = app.count /\ waited < tm.Timer_Out_Count
    /\ app.timer = "restart" /\ app.at = "compare"
         => waited = tm.Timer_Count /\ waited = app.count + 1 /\ waited <= tm.Timer_Out_Count
    /\ app.timer = "restart" /\ app.at \in {"stop", "reset", "timeout"}
         => waited = tm.Timer_Out_Count
    /\ app.timer = "restart" /\ app.at \in {"reset", "timeout"} => ~tm.Timer_Enable

-----------------------------------------------------------------------------
(* The flags.                                                              *)

\* App_TaskStart goes on to another place, without the word it had.
LEMMA GotoFacts ==
  ASSUME Typed, NEW at \in Labels, Goto(at)
  PROVE  app' \in Places /\ app'.at = at /\ app'.timer = app.timer
<1>1. app \in Places /\ app' = [app EXCEPT !.at = at, !.word = {}, !.count = 0, !.bit = "fMS"]
  BY DEF Typed, Goto
<1>2. "fMS" \in TickBits /\ {} \in SUBSET TickBits /\ 0 \in Nat
  BY DEF TickBits
<1> QED
  BY <1>1, <1>2 DEF Places

LEMMA LabelFacts ==
  /\ {"rest", "fMS", "fSec", "clear", "event", "setEvent", "enabled", "increment", "store",
      "compare", "stop", "reset", "timeout"} = Labels
  /\ {"fMS", "fSec"} = TickBits /\ {"auto", "down", "restart"} = Indices
  BY DEF Labels, Counted, TickBits, Indices

LEMMA CountFacts ==
  ASSUME Typed, NEW i \in Indices, NEW at \in Labels, Count(i, at)
  PROVE  /\ app' \in Places
         /\ \/ i \in Timers /\ app'.at = "enabled" /\ app'.timer = i
            \/ i \notin Timers /\ app'.at = at /\ app'.timer = app.timer
<1>1. CASE i \in Timers
  <2>1. app \in Places /\ app' = [app EXCEPT !.at = "enabled", !.timer = i, !.word = {}, !.bit = "fMS"]
    BY <1>1 DEF Count, Typed
  <2>2. "enabled" \in Labels /\ "fMS" \in TickBits /\ {} \in SUBSET TickBits
    BY LabelFacts
  <2> QED
    BY <1>1, <2>1, <2>2 DEF Places
<1>2. CASE i \notin Timers
  BY <1>2, GotoFacts DEF Count
<1> QED
  BY <1>1, <1>2

LEMMA FollowingFacts ==
  ASSUME Typed, Following
  PROVE  /\ app' \in Places
         /\ \/ app'.at \in {"rest", "fSec"} /\ app'.timer = app.timer
            \/ app'.at = "enabled" /\ app'.timer = "restart" /\ app.timer = "down"
<1>1. "fSec" \in Labels /\ "rest" \in Labels /\ "restart" \in Indices
  BY LabelFacts
<1>2. CASE app.timer = "auto"
  BY <1>1, <1>2, GotoFacts DEF Following
<1>3. CASE app.timer = "down"
  BY <1>1, <1>3, CountFacts DEF Following
<1>4. CASE app.timer \notin {"auto", "down"}
  BY <1>1, <1>4, GotoFacts DEF Following
<1> QED
  BY <1>2, <1>3, <1>4

LEMMA FlagsInit == Init => Typed /\ CopiesFresh
<1> SUFFICES ASSUME Init PROVE Typed /\ CopiesFresh
  OBVIOUS
<1>1. app \in Places
  BY LabelFacts DEF Init, Places
<1>2. User_Timer \in [Indices -> Timer]
  <2>1. PICK d \in Delays :
          User_Timer = [i \in {"auto", "down", "restart"} |->
                          [Timer_Enable |-> (i = "auto"), Timer_Timeout |-> FALSE,
                           Timer_Count |-> 0,
                           Timer_Out_Count |-> IF i = "restart" THEN d ELSE Interval]]
    BY DEF Init
  <2>2. d \in Nat /\ Interval \in Nat
    BY TimeAssumption
  <2> QED
    BY <2>1, <2>2, LabelFacts DEF Timer
<1>3. loaded \in [Writers -> SUBSET TickBits] /\ between \subseteq Writers /\ Sys_Flag = {} /\ fresh = {}
      /\ waited \in Nat /\ whole \in BOOLEAN
  BY DEF Init
<1> QED
  BY <1>1, <1>2, <1>3 DEF Init, Typed, CopiesFresh

\* The steps of App_TaskStart keep its place.
LEMMA AppKept == Typed /\ App_TaskStart => app' \in Places
<1> SUFFICES ASSUME Typed, App_TaskStart PROVE app' \in Places
  OBVIOUS
<1>0. app \in Places /\ Tm \in Timer
  BY DEF Typed, Places, Tm
<1>1. ASSUME NEW at \in Labels, Goto(at) PROVE app' \in Places
  BY <1>1, GotoFacts
<1>2. ASSUME NEW i \in Indices, NEW at \in Labels, Count(i, at) PROVE app' \in Places
  BY <1>2, CountFacts
<1>3. ASSUME Following PROVE app' \in Places
  BY <1>3, FollowingFacts
<1>4. CASE Wake \/ Stop \/ Reset
  BY <1>1, <1>4, LabelFacts DEF Wake, Stop, Reset
<1>5. CASE TestEnable \/ Compare \/ TimeOut
  BY <1>1, <1>3, <1>5, LabelFacts DEF TestEnable, Compare, TimeOut
<1>6. CASE Clear
  BY <1>1, <1>2, <1>6, LabelFacts DEF Clear
<1>7. CASE StoreEvent
  BY <1>2, <1>7, LabelFacts DEF StoreEvent
<1>8. ASSUME NEW bit \in TickBits, NEW next \in {"fSec", "rest"}, Test(bit, next)
      PROVE  app' \in Places
  <2>1. \/ app' = [app EXCEPT !.at = "clear", !.bit = bit, !.word = Sys_Flag]
        \/ app' = [app EXCEPT !.at = next]
    BY <1>8 DEF Test
  <2>2. "clear" \in Labels /\ next \in Labels /\ Sys_Flag \in SUBSET TickBits
    BY LabelFacts DEF Typed
  <2> QED
    BY <1>0, <2>1, <2>2 DEF Places
<1>9. CASE LoadEvent
  <2>1. app' = [app EXCEPT !.at = "setEvent", !.word = Sys_Flag]
    BY <1>9 DEF LoadEvent
  <2>2. "setEvent" \in Labels /\ Sys_Flag \in SUBSET TickBits
    BY LabelFacts DEF Typed
  <2> QED
    BY <1>0, <2>1, <2>2 DEF Places
<1>10. CASE LoadCount
  <2>1. app' = [app EXCEPT !.at = "store", !.count = Tm.Timer_Count]
    BY <1>10 DEF LoadCount
  <2>2. "store" \in Labels /\ Tm.Timer_Count \in Nat
    BY <1>0, LabelFacts DEF Timer
  <2> QED
    BY <1>0, <2>1, <2>2 DEF Places
<1>11. CASE StoreCount
  <2>1. app' = [app EXCEPT !.at = "compare"] /\ "compare" \in Labels
    BY <1>11, LabelFacts DEF StoreCount
  <2> QED
    BY <1>0, <2>1 DEF Places
<1>12. {"fMS", "fSec"} = TickBits
  BY LabelFacts
<1> QED
  BY <1>4, <1>5, <1>6, <1>7, <1>8, <1>9, <1>10, <1>11, <1>12 DEF App_TaskStart

\* A timer Main_Process writes is a timer.
LEMMA ArmIsTimer ==
  ASSUME NEW tm \in Timer, NEW delay \in Nat PROVE Arm(tm, delay) \in Timer
  BY DEF Arm, Timer

LEMMA PutKeeps ==
  ASSUME Typed, NEW i \in Indices, NEW r \in Timer, Put(i, r)
  PROVE  /\ User_Timer' \in [Indices -> Timer] /\ User_Timer'[i] = r
         /\ \A j \in Indices \ {i} : User_Timer'[j] = User_Timer[j]
  BY DEF Put, Typed

LEMMA OthersKeep ==
  Typed /\ (Protect \/ Restart \/ Reduce \/ Regulate)
    => User_Timer' \in [Indices -> Timer] /\ waited' \in Nat /\ whole' \in BOOLEAN
<1> SUFFICES ASSUME Typed, Protect \/ Restart \/ Reduce \/ Regulate
             PROVE  User_Timer' \in [Indices -> Timer] /\ waited' \in Nat /\ whole' \in BOOLEAN
  OBVIOUS
<1>0. /\ "restart" \in Indices /\ "down" \in Indices /\ "auto" \in Indices
      /\ \A i \in Indices : User_Timer[i] \in Timer
  BY LabelFacts DEF Typed
<1>1. CASE Protect
  <2>1. PICK d \in Delays : Put("restart", Arm(User_Timer["restart"], d))
    BY <1>1 DEF Protect
  <2>2. Arm(User_Timer["restart"], d) \in Timer
    BY <1>0, ArmIsTimer, TimeAssumption
  <2>3. waited' = 0 /\ whole' \in BOOLEAN
    BY <1>1 DEF Protect
  <2> QED
    BY <1>0, <2>1, <2>2, <2>3, PutKeeps
<1>2. CASE Restart
  <2>1. [User_Timer["restart"] EXCEPT !.Timer_Timeout = FALSE] \in Timer
    BY <1>0 DEF Timer
  <2> QED
    BY <1>0, <1>2, <2>1, PutKeeps DEF Restart, Typed
<1>3. CASE Reduce
  <2> DEFINE tm == User_Timer["down"]
  <2>1. ASSUME NEW on \in BOOLEAN
        PROVE  /\ [Arm(tm, Interval) EXCEPT !.Timer_Enable = on] \in Timer
               /\ [tm EXCEPT !.Timer_Timeout = FALSE, !.Timer_Count = 0, !.Timer_Enable = on] \in Timer
               /\ [tm EXCEPT !.Timer_Enable = TRUE] \in Timer
    <3>1. Arm(tm, Interval) \in Timer /\ tm \in Timer
      BY <1>0, ArmIsTimer, TimeAssumption
    <3> HIDE DEF tm
    <3> QED
      BY <3>1 DEF Timer
  <2>2. \/ \E on \in BOOLEAN : Put("down", [Arm(tm, Interval) EXCEPT !.Timer_Enable = on])
        \/ \E on \in BOOLEAN :
             Put("down", [tm EXCEPT !.Timer_Timeout = FALSE, !.Timer_Count = 0, !.Timer_Enable = on])
        \/ Put("down", [tm EXCEPT !.Timer_Enable = TRUE])
    BY <1>3 DEF Reduce
  <2>3. \E r \in Timer : Put("down", r)
    <3> HIDE DEF tm
    <3> QED
      BY <2>1, <2>2
  <2> QED
    BY <1>0, <1>3, <2>3, PutKeeps DEF Reduce, Typed
<1>4. CASE Regulate
  <2>1. PICK on \in BOOLEAN :
          Put("auto", [User_Timer["auto"] EXCEPT !.Timer_Enable = on, !.Timer_Timeout = FALSE])
    BY <1>4 DEF Regulate
  <2>2. [User_Timer["auto"] EXCEPT !.Timer_Enable = on, !.Timer_Timeout = FALSE] \in Timer
    BY <1>0 DEF Timer
  <2> QED
    BY <1>0, <1>4, <2>1, <2>2, PutKeeps DEF Regulate, Typed
<1> QED
  BY <1>1, <1>2, <1>3, <1>4

LEMMA TypedStep == Typed /\ [Next]_vars => Typed'
<1> SUFFICES ASSUME Typed, [Next]_vars PROVE Typed'
  OBVIOUS
<1>1. CASE SysTick
  BY <1>1, LabelFacts DEF SysTick, Typed, writers
<1>2. ASSUME NEW t \in Writers, Load(t) \/ Store(t) PROVE Typed'
  BY <1>2 DEF Load, Store, Typed
<1>3. CASE Protect \/ Restart \/ Reduce \/ Regulate
  <2>1. UNCHANGED <<Sys_Flag, app, writers, fresh>>
    BY <1>3 DEF Protect, Restart, Reduce, Regulate, Put
  <2> QED
    BY <1>3, <2>1, OthersKeep DEF Typed, writers
<1>4. CASE App_TaskStart
  <2>1. app' \in Places /\ UNCHANGED writers
    BY <1>4, AppKept
       DEF App_TaskStart, Wake, Test, Clear, LoadEvent, StoreEvent, TestEnable, LoadCount, StoreCount,
           Compare, Stop, Reset, TimeOut
  <2>2. Sys_Flag' \subseteq TickBits /\ fresh' \subseteq TickBits
    <3>1. app.word \in SUBSET TickBits
      BY DEF Typed, Places
    <3> QED
      BY <1>4, <3>1
         DEF Typed, App_TaskStart, Wake, Test, Clear, LoadEvent, StoreEvent, TestEnable, LoadCount,
             StoreCount, Compare, Stop, Reset, TimeOut
  <2>3. User_Timer' \in [Indices -> Timer] /\ waited' \in Nat /\ whole' \in BOOLEAN
    <3>1. app.timer \in Indices /\ app.count + 1 \in Nat /\ waited + 1 \in Nat
          /\ User_Timer \in [Indices -> Timer] /\ waited \in Nat /\ whole \in BOOLEAN
      BY DEF Typed, Places
    <3>2. CASE UNCHANGED <<User_Timer, waited, whole>>
      BY <3>1, <3>2
    <3>3. CASE StoreCount
      BY <3>1, <3>3 DEF StoreCount, Timer
    <3>4. CASE Stop
      BY <3>1, <3>4 DEF Stop, Timer
    <3>5. CASE Reset
      BY <3>1, <3>5 DEF Reset, Timer
    <3>6. CASE TimeOut
      BY <3>1, <3>6 DEF TimeOut, Timer
    <3> QED
      BY <1>4, <3>2, <3>3, <3>4, <3>5, <3>6
         DEF App_TaskStart, Wake, Test, Clear, LoadEvent, StoreEvent, TestEnable, LoadCount, Compare
  <2> QED
    BY <2>1, <2>2, <2>3 DEF Typed, writers
<1>5. CASE UNCHANGED vars
  BY <1>5 DEF vars, writers, Typed
<1> QED
  BY <1>1, <1>2, <1>3, <1>4, <1>5 DEF Next, Others

\* The word a task stores holds fresh ticks, also where the interrupt or a
\* task of a higher priority came since it was loaded.
LEMMA FreshStep == Typed /\ CopiesFresh /\ [Next]_vars => CopiesFresh'
<1> SUFFICES ASSUME Typed, CopiesFresh, [Next]_vars PROVE CopiesFresh'
  OBVIOUS
<1>1. CASE SysTick
  BY <1>1 DEF SysTick, CopiesFresh, writers
<1>2. ASSUME NEW t \in Writers, Load(t) \/ Store(t) PROVE CopiesFresh'
  BY <1>2 DEF Load, Store, CopiesFresh, Typed
<1>3. CASE Protect \/ Restart \/ Reduce \/ Regulate
  BY <1>3 DEF Protect, Restart, Reduce, Regulate, Put, CopiesFresh, writers
<1>4. CASE Clear \/ StoreEvent
  <2>1. between' = {} /\ app.at \in {"clear", "setEvent"}
    BY <1>4 DEF Clear, StoreEvent, Runs, Apart, writers
  <2>2. Sys_Flag' \subseteq fresh'
    BY <1>4, <2>1 DEF Clear, StoreEvent, CopiesFresh
  <2>3. app'.at \notin {"clear", "setEvent"}
    BY <1>4, GotoFacts, CountFacts, LabelFacts DEF Clear, StoreEvent
  <2> QED
    BY <2>1, <2>2, <2>3 DEF CopiesFresh
<1>5. CASE Wake \/ TestEnable \/ Compare \/ Stop \/ Reset \/ TimeOut
  <2>1. app'.at \notin {"clear", "setEvent"}
    BY <1>5, GotoFacts, FollowingFacts, LabelFacts DEF Wake, TestEnable, Compare, Stop, Reset, TimeOut
  <2> QED
    BY <1>5, <2>1 DEF Wake, TestEnable, Compare, Stop, Reset, TimeOut, CopiesFresh, writers
<1>6. CASE Test("fMS", "fSec") \/ Test("fSec", "rest") \/ LoadEvent \/ LoadCount \/ StoreCount
  <2>1. app'.at \in {"clear", "setEvent"} => app'.word = Sys_Flag
    BY <1>6 DEF Test, LoadEvent, LoadCount, StoreCount, Typed, Places
  <2> QED
    BY <1>6, <2>1 DEF Test, LoadEvent, LoadCount, StoreCount, CopiesFresh, writers
<1>7. CASE UNCHANGED vars
  BY <1>7 DEF vars, writers, CopiesFresh
<1> QED
  BY <1>1, <1>2, <1>3, <1>4, <1>5, <1>6, <1>7 DEF Next, Others, App_TaskStart

\* A tick flag that is set has been raised since it was last taken: no stale
\* word a task stores brings a taken tick back.
THEOREM NoTickTakenTwice == Spec => []TakenOnce
<1>1. Typed /\ CopiesFresh => TakenOnce
  BY DEF CopiesFresh, TakenOnce
<1>2. Typed /\ CopiesFresh /\ [Next]_vars => Typed' /\ CopiesFresh'
  BY TypedStep, FreshStep
<1> QED
  BY <1>1, <1>2, FlagsInit, PTL DEF Spec

-----------------------------------------------------------------------------
(* The delay.                                                              *)

Rt == User_Timer["restart"]

\* While the restart timer and what it has waited stay, and App_TaskStart is
\* not at it, the equation stays.
LEMMA AwayFromIt ==
  ASSUME Waiting, UNCHANGED <<waited, whole>>, Rt' = Rt,
         app.timer = "restart" => app.at \notin Counted,
         app'.timer = "restart" => app'.at \notin Counted \union {"increment"}
  PROVE  Waiting'
  BY DEF Waiting, Counted, Rt

\* So it does while App_TaskStart counts another timer.
LEMMA AnotherTimer ==
  ASSUME Waiting, UNCHANGED <<waited, whole>>, Rt' = Rt, app.timer # "restart",
         app'.timer = "restart" => app'.at = "enabled"
  PROVE  Waiting'
  BY DEF Waiting, Counted, Rt

LEMMA WaitingInit == Init => Waiting
<1> SUFFICES ASSUME Init PROVE Waiting
  OBVIOUS
<1>1. ~User_Timer["restart"].Timer_Enable
  <2>1. PICK d \in Delays :
          User_Timer = [i \in {"auto", "down", "restart"} |->
                          [Timer_Enable |-> (i = "auto"), Timer_Timeout |-> FALSE,
                           Timer_Count |-> 0,
                           Timer_Out_Count |-> IF i = "restart" THEN d ELSE Interval]]
    BY DEF Init
  <2> QED
    BY <2>1
<1>2. app.at = "rest"
  BY DEF Init
<1> QED
  BY <1>1, <1>2 DEF Waiting, Counted

LEMMA OthersWait == Typed /\ Waiting /\ (SysTick \/ Others \/ UNCHANGED vars) => Waiting'
<1> SUFFICES ASSUME Typed, Waiting, SysTick \/ Others \/ UNCHANGED vars PROVE Waiting'
  OBVIOUS
<1>0. User_Timer \in [Indices -> Timer] /\ Rt \in Timer
  BY LabelFacts DEF Typed, Rt
<1>1. CASE UNCHANGED <<User_Timer, app, waited, whole>>
  BY <1>1 DEF Waiting
<1>2. CASE Protect
  <2>1. PICK d \in Delays : Put("restart", Arm(User_Timer["restart"], d))
    BY <1>2 DEF Protect
  <2>2. Rt' = Arm(Rt, d) /\ app' = app /\ d \in Nat /\ 0 < d
    BY <1>0, <2>1, LabelFacts, TimeAssumption DEF Put, Rt
  <2>3. Rt'.Timer_Enable /\ Rt'.Timer_Count = 0 /\ Rt'.Timer_Out_Count = d
    BY <2>2 DEF Arm
  <2>4. waited' = 0 /\ whole' = ~(app.timer = "restart" /\ app.at \in Counted)
    BY <1>2 DEF Protect
  <2> QED
    BY <2>2, <2>3, <2>4 DEF Waiting, Counted, Rt
<1>3. CASE Restart
  <2>1. Rt' = [Rt EXCEPT !.Timer_Timeout = FALSE] /\ UNCHANGED <<app, waited, whole>>
    BY <1>0, <1>3, LabelFacts DEF Restart, Put, Rt
  <2>2. /\ Rt'.Timer_Enable = Rt.Timer_Enable /\ Rt'.Timer_Count = Rt.Timer_Count
        /\ Rt'.Timer_Out_Count = Rt.Timer_Out_Count
    BY <1>0, <2>1 DEF Timer
  <2> QED
    BY <2>1, <2>2 DEF Waiting, Rt
<1>4. CASE Reduce \/ Regulate
  <2>1. Rt' = Rt /\ UNCHANGED <<app, waited, whole>>
    BY <1>0, <1>4, LabelFacts DEF Reduce, Regulate, Put, Rt
  <2> QED
    BY <2>1 DEF Waiting, Rt
<1> QED
  BY <1>1, <1>2, <1>3, <1>4 DEF SysTick, Others, Load, Store, vars

LEMMA AppWaits == Typed /\ Waiting /\ App_TaskStart => Waiting'
<1> SUFFICES ASSUME Typed, Waiting, App_TaskStart PROVE Waiting'
  OBVIOUS
<1>0. /\ User_Timer \in [Indices -> Timer] /\ Rt \in Timer /\ app \in Places /\ waited \in Nat
      /\ "restart" \in Indices /\ app.timer \in Indices /\ app.count \in Nat
  BY LabelFacts DEF Typed, Rt, Places
<1>1. CASE Wake \/ Clear \/ StoreEvent
  <2>1. app'.at \in {"fMS", "fSec", "event", "enabled", "rest"} /\ app.at \notin Counted
    BY <1>1, GotoFacts, CountFacts, LabelFacts DEF Wake, Clear, StoreEvent, Runs, Counted
  <2>2. UNCHANGED <<waited, whole>> /\ Rt' = Rt
    BY <1>1 DEF Wake, Clear, StoreEvent, Rt
  <2> QED
    BY <2>1, <2>2, AwayFromIt DEF Counted
<1>2. CASE Test("fMS", "fSec") \/ Test("fSec", "rest") \/ LoadEvent
  <2>1. app'.at \in {"clear", "fSec", "rest", "setEvent"} /\ app.at \notin Counted
    BY <1>0, <1>2 DEF Test, LoadEvent, Runs, Counted, Places
  <2>2. UNCHANGED <<waited, whole>> /\ Rt' = Rt
    BY <1>2 DEF Test, LoadEvent, Rt
  <2> QED
    BY <2>1, <2>2, AwayFromIt DEF Counted
<1>3. CASE TestEnable
  <2>1. UNCHANGED <<waited, whole>> /\ Rt' = Rt /\ app.at = "enabled"
    BY <1>3 DEF TestEnable, Runs, Rt
  <2>2. CASE Tm.Timer_Enable
    <3>1. app'.at = "increment" /\ app'.timer = app.timer
      BY <1>3, <2>2, GotoFacts, LabelFacts DEF TestEnable
    <3> QED
      BY <2>1, <2>2, <3>1 DEF Waiting, Counted, Rt, Tm
  <2>3. CASE Following
    BY <2>1, <2>3, FollowingFacts, AwayFromIt DEF Counted
  <2> QED
    BY <1>3, <2>2, <2>3 DEF TestEnable
<1>4. CASE LoadCount
  <2>1. /\ app.at = "increment" /\ UNCHANGED <<User_Timer, waited, whole>>
        /\ app' = [app EXCEPT !.at = "store", !.count = Tm.Timer_Count]
    BY <1>4 DEF LoadCount, Runs
  <2>2. app'.at = "store" /\ app'.timer = app.timer /\ app'.count = Tm.Timer_Count
    BY <1>0, <2>1 DEF Places
  <2> QED
    BY <2>1, <2>2 DEF Waiting, Counted, Tm
<1>5. CASE StoreCount
  <2>1. /\ app.at = "store" /\ whole' = whole
        /\ app'.at = "compare" /\ app'.timer = app.timer /\ app'.count = app.count
        /\ User_Timer' = [User_Timer EXCEPT ![app.timer].Timer_Count = app.count + 1]
        /\ waited' = IF app.timer = "restart" /\ whole THEN waited + 1 ELSE waited
    BY <1>0, <1>5 DEF StoreCount, Runs, Places
  <2>2. CASE app.timer = "restart"
    <3>1. /\ Rt'.Timer_Count = app.count + 1 /\ Rt'.Timer_Enable = Rt.Timer_Enable
          /\ Rt'.Timer_Out_Count = Rt.Timer_Out_Count
      BY <1>0, <2>1, <2>2 DEF Rt, Timer
    <3>2. Rt.Timer_Out_Count \in Nat
      BY <1>0 DEF Timer
    <3> QED
      BY <1>0, <2>1, <2>2, <3>1, <3>2 DEF Waiting, Counted, Rt
  <2>3. CASE app.timer # "restart"
    <3>1. Rt' = Rt /\ waited' = waited
      BY <1>0, <2>1, <2>3 DEF Rt
    <3> QED
      BY <2>1, <2>3, <3>1, AnotherTimer
  <2> QED
    BY <2>2, <2>3
<1>6. CASE Compare
  <2>1. PICK count \in {app.count + 1, Tm.Timer_Count} :
          IF count >= Tm.Timer_Out_Count THEN Goto("stop") ELSE Following
    BY <1>6 DEF Compare
  <2>2. UNCHANGED <<waited, whole>> /\ Rt' = Rt /\ app.at = "compare" /\ User_Timer' = User_Timer
    BY <1>6 DEF Compare, Runs, Rt
  <2>3. CASE app.timer = "restart"
    <3>1. Rt.Timer_Out_Count \in Nat /\ Rt.Timer_Count \in Nat /\ Tm = Rt
      BY <1>0, <2>3 DEF Timer, Tm, Rt
    <3>2. CASE count >= Rt.Timer_Out_Count
      <4>1. app'.at = "stop" /\ app'.timer = "restart"
        BY <2>1, <2>3, <3>1, <3>2, GotoFacts, LabelFacts
      <4> QED
        BY <1>0, <2>1, <2>2, <2>3, <3>1, <3>2, <4>1 DEF Waiting, Counted, Rt
    <3>3. CASE ~(count >= Rt.Timer_Out_Count)
      <4>1. app'.at \in {"rest", "fSec"}
        BY <2>1, <2>3, <3>1, <3>3, FollowingFacts
      <4> QED
        BY <1>0, <2>1, <2>2, <2>3, <3>1, <3>3, <4>1 DEF Waiting, Counted, Rt
    <3> QED
      BY <3>2, <3>3
  <2>4. CASE app.timer # "restart"
    <3>1. app'.timer = "restart" => app'.at = "enabled"
      BY <2>1, <2>4, GotoFacts, FollowingFacts, LabelFacts
    <3> QED
      BY <2>2, <2>4, <3>1, AnotherTimer
  <2> QED
    BY <2>3, <2>4
<1>7. CASE Stop \/ Reset
  <2>1. /\ UNCHANGED <<waited, whole>> /\ app'.timer = app.timer
        /\ \/ /\ app.at = "stop" /\ app'.at = "reset"
              /\ User_Timer' = [User_Timer EXCEPT ![app.timer].Timer_Enable = FALSE]
           \/ /\ app.at = "reset" /\ app'.at = "timeout"
              /\ User_Timer' = [User_Timer EXCEPT ![app.timer].Timer_Count = 0]
    BY <1>7, GotoFacts, LabelFacts DEF Stop, Reset, Runs
  <2>2. CASE app.timer = "restart"
    <3>1. /\ Rt'.Timer_Out_Count = Rt.Timer_Out_Count
          /\ app.at = "stop" => ~Rt'.Timer_Enable
          /\ app.at = "reset" => Rt'.Timer_Enable = Rt.Timer_Enable
      BY <1>0, <2>1, <2>2 DEF Rt, Timer
    <3> QED
      BY <2>1, <2>2, <3>1 DEF Waiting, Counted, Rt
  <2>3. CASE app.timer # "restart"
    <3>1. Rt' = Rt
      BY <1>0, <2>1, <2>3 DEF Rt
    <3> QED
      BY <2>1, <2>3, <3>1, AnotherTimer
  <2> QED
    BY <2>2, <2>3
<1>8. CASE TimeOut
  <2>1. /\ UNCHANGED <<waited, whole>> /\ app.at = "timeout" /\ Following
        /\ User_Timer' = [User_Timer EXCEPT ![app.timer].Timer_Timeout = TRUE]
    BY <1>8 DEF TimeOut, Runs
  <2>2. CASE app.timer = "restart"
    <3>1. Rt'.Timer_Enable = Rt.Timer_Enable
      BY <1>0, <2>1, <2>2 DEF Rt, Timer
    <3>2. app'.at \in {"rest", "fSec"}
      BY <2>1, <2>2, FollowingFacts
    <3> QED
      BY <2>1, <2>2, <3>1, <3>2 DEF Waiting, Counted, Rt
  <2>3. CASE app.timer # "restart"
    <3>1. Rt' = Rt
      BY <1>0, <2>1, <2>3 DEF Rt
    <3>2. app'.timer = "restart" => app'.at = "enabled"
      BY <2>1, <2>3, FollowingFacts
    <3> QED
      BY <2>1, <2>3, <3>1, <3>2, AnotherTimer
  <2> QED
    BY <2>2, <2>3
<1> QED
  BY <1>1, <1>2, <1>3, <1>4, <1>5, <1>6, <1>7, <1>8 DEF App_TaskStart

\* A restart timer that leaves its timeout has waited the delay it was armed
\* with, no second more or less, unless a protection arms it again in the few
\* instructions in which App_TaskStart counts it.
THEOREM DelayIsFull == Spec => []FullDelay
<1>1. Waiting => FullDelay
  BY DEF Waiting, FullDelay, Tm
<1>2. Typed /\ Waiting /\ [Next]_vars => Typed' /\ Waiting'
  BY TypedStep, OthersWait, AppWaits DEF Next
<1> QED
  BY <1>1, <1>2, FlagsInit, WaitingInit, PTL DEF Spec

-----------------------------------------------------------------------------
(* The types.                                                              *)

LEMMA LongestFacts ==
  /\ LongestDelay \in Nat /\ Interval \in 1..LongestDelay
  /\ \A d \in Delays : d \in 1..LongestDelay
<1> DEFINE All == Delays \union {Interval}
<1>1. All \subseteq Nat \ {0}
  BY TimeAssumption
<1>2. \E d \in All : \A e \in All : e <= d
  <2>1. PICK d \in Delays : \A e \in Delays : e <= d
    BY TimeAssumption
  <2>2. d \in Nat /\ Interval \in Nat
    BY TimeAssumption
  <2>3. CASE Interval <= d
    BY <2>1, <2>3
  <2>4. CASE ~(Interval <= d)
    <3>1. \A e \in Delays : e \in Nat /\ e <= d
      BY <2>1, TimeAssumption
    <3>2. \A e \in All : e <= Interval
      BY <2>2, <2>4, <3>1
    <3> QED
      BY <3>2
  <2> QED
    BY <2>3, <2>4
<1>3. LongestDelay \in All /\ \A e \in All : e <= LongestDelay
  BY <1>2 DEF LongestDelay
<1> QED
  BY <1>1, <1>3

\* What keeps a timer in its bounds.  Between two rounds of App_TaskStart its
\* count is below its delay, which Main_Process never changes without
\* resetting the count; the count is over it only from the store until the
\* comparison has been acted upon.  The count in a register was loaded below
\* the delay the timer had then.
InBounds(i) ==
  LET tm == User_Timer[i] IN
  /\ tm.Timer_Out_Count \in 1..LongestDelay
  /\ (app.timer = i => app.at \notin {"compare", "stop", "reset"}) => tm.Timer_Count < tm.Timer_Out_Count
  /\ app.timer = i /\ app.at \in {"store", "compare"} => app.count + 1 <= LongestDelay
  /\ app.timer = i /\ app.at = "compare" => tm.Timer_Count \in {0, app.count + 1}
  /\ tm.Timer_Count <= LongestDelay

Bounded ==
  /\ ms_cnt \in 0..MsPerSec
  /\ \A i \in Indices : InBounds(i)
  /\ waited <= User_Timer["restart"].Timer_Out_Count

LEMMA BoundedInit == Init => Bounded
<1> SUFFICES ASSUME Init PROVE Bounded
  OBVIOUS
<1>1. PICK d \in Delays :
        User_Timer = [i \in {"auto", "down", "restart"} |->
                        [Timer_Enable |-> (i = "auto"), Timer_Timeout |-> FALSE, Timer_Count |-> 0,
                         Timer_Out_Count |-> IF i = "restart" THEN d ELSE Interval]]
  BY DEF Init
<1>2. d \in 1..LongestDelay /\ Interval \in 1..LongestDelay /\ LongestDelay \in Nat
  BY LongestFacts
<1>3. ASSUME NEW i \in Indices PROVE InBounds(i)
  <2>1. User_Timer[i].Timer_Count = 0 /\ User_Timer[i].Timer_Out_Count \in {d, Interval}
    BY <1>1 DEF Indices
  <2>2. app.at = "rest"
    BY DEF Init
  <2> QED
    BY <1>2, <2>1, <2>2 DEF InBounds
<1>4. User_Timer["restart"].Timer_Out_Count = d
  BY <1>1
<1> QED
  BY <1>2, <1>3, <1>4, TimeAssumption DEF Init, Bounded

\* Where App_TaskStart has no count of timer i in hand: its bounds stay while
\* the timer does.
InHand(i) == app.timer = i /\ app.at \in {"store", "compare", "stop", "reset"}

LEMMA NotInHand ==
  ASSUME NEW i \in Indices, InBounds(i), User_Timer'[i] = User_Timer[i], ~InHand(i), ~InHand(i)'
  PROVE  InBounds(i)'
  BY DEF InBounds, InHand

\* Main_Process writes a timer whose count is below its delay: reset, or as
\* it was.
LEMMA WrittenInBounds ==
  ASSUME NEW i \in Indices, InBounds(i), User_Timer[i] \in Timer, User_Timer'[i] \in Timer, app' = app,
         LET old == User_Timer[i]
             new == User_Timer'[i] IN
           \/ new.Timer_Count = 0 /\ new.Timer_Out_Count \in 1..LongestDelay
           \/ new.Timer_Count = old.Timer_Count /\ new.Timer_Out_Count = old.Timer_Out_Count
  PROVE  InBounds(i)'
<1>1. LongestDelay \in Nat /\ LongestDelay' = LongestDelay
  BY LongestFacts
<1> QED
  BY <1>1 DEF InBounds, Timer

\* The written record r, and the other timers as they were.
LEMMA PutInBounds ==
  ASSUME Typed, Bounded, NEW j \in Indices, NEW r \in Timer, Put(j, r),
         \/ r.Timer_Count = 0 /\ r.Timer_Out_Count \in 1..LongestDelay
         \/ /\ r.Timer_Count = User_Timer[j].Timer_Count
            /\ r.Timer_Out_Count = User_Timer[j].Timer_Out_Count
  PROVE  \A i \in Indices : InBounds(i)'
<1> SUFFICES ASSUME NEW i \in Indices PROVE InBounds(i)'
  OBVIOUS
<1>1. /\ InBounds(i) /\ User_Timer[i] \in Timer /\ app' = app /\ User_Timer'[i] \in Timer
      /\ i # j => User_Timer'[i] = User_Timer[i]
      /\ User_Timer'[j] = r
  BY PutKeeps DEF Typed, Bounded, Put
<1> QED
  BY <1>1, WrittenInBounds

LEMMA OthersBounded ==
  Typed /\ Bounded /\ (SysTick \/ Others \/ UNCHANGED vars) => Bounded'
<1> SUFFICES ASSUME Typed, Bounded, SysTick \/ Others \/ UNCHANGED vars PROVE Bounded'
  OBVIOUS
<1>0. /\ "restart" \in Indices /\ "down" \in Indices /\ "auto" \in Indices
      /\ \A i \in Indices : User_Timer[i] \in Timer /\ InBounds(i)
  BY LabelFacts DEF Typed, Bounded
<1>1. CASE UNCHANGED <<User_Timer, app, waited>> /\ ms_cnt' \in 0..MsPerSec
  BY <1>1 DEF Bounded, InBounds
<1>2. CASE SysTick
  BY <1>1, <1>2, TimeAssumption DEF SysTick, Bounded
<1>3. CASE UNCHANGED vars \/ \E t \in Writers : Load(t) \/ Store(t)
  BY <1>1, <1>3 DEF vars, Load, Store, Bounded
<1>4. CASE Protect
  <2>1. PICK d \in Delays : Put("restart", Arm(User_Timer["restart"], d))
    BY <1>4 DEF Protect
  <2>2. d \in 1..LongestDelay /\ d \in Nat /\ 0 <= d
    BY LongestFacts, TimeAssumption
  <2> DEFINE r == Arm(User_Timer["restart"], d)
  <2>3. r \in Timer /\ r.Timer_Count = 0 /\ r.Timer_Out_Count = d
    BY <1>0, <2>2, ArmIsTimer DEF Arm
  <2>4. Put("restart", r)
    BY <2>1
  <2> HIDE DEF r
  <2>5. User_Timer'["restart"] = r /\ \A i \in Indices : InBounds(i)'
    BY <1>0, <2>2, <2>3, <2>4, PutKeeps, PutInBounds
  <2>6. waited' = 0 /\ ms_cnt' = ms_cnt
    BY <1>4, <2>4 DEF Protect, Put
  <2> QED
    BY <2>2, <2>3, <2>5, <2>6 DEF Bounded
<1>5. CASE Restart
  <2> DEFINE r == [User_Timer["restart"] EXCEPT !.Timer_Timeout = FALSE]
  <2>1. /\ r \in Timer /\ r.Timer_Count = User_Timer["restart"].Timer_Count
        /\ r.Timer_Out_Count = User_Timer["restart"].Timer_Out_Count
    BY <1>0 DEF Timer
  <2>2. Put("restart", r) /\ waited' = waited
    BY <1>5 DEF Restart
  <2> HIDE DEF r
  <2>3. User_Timer'["restart"] = r /\ (\A i \in Indices : InBounds(i)') /\ ms_cnt' = ms_cnt
    BY <1>0, <2>1, <2>2, PutKeeps, PutInBounds DEF Put
  <2> QED
    BY <2>1, <2>2, <2>3 DEF Bounded
<1>6. CASE Reduce
  <2> DEFINE tm == User_Timer["down"]
  <2>1. \/ \E on \in BOOLEAN : Put("down", [Arm(tm, Interval) EXCEPT !.Timer_Enable = on])
        \/ \E on \in BOOLEAN :
             Put("down", [tm EXCEPT !.Timer_Timeout = FALSE, !.Timer_Count = 0, !.Timer_Enable = on])
        \/ Put("down", [tm EXCEPT !.Timer_Enable = TRUE])
    BY <1>6 DEF Reduce
  <2>2. /\ tm \in Timer /\ tm.Timer_Out_Count \in 1..LongestDelay
        /\ Interval \in 1..LongestDelay /\ Interval \in Nat
    BY <1>0, LongestFacts, TimeAssumption DEF InBounds
  <2>3. \E r \in Timer :
          /\ Put("down", r)
          /\ \/ r.Timer_Count = 0 /\ r.Timer_Out_Count \in 1..LongestDelay
             \/ r.Timer_Count = tm.Timer_Count /\ r.Timer_Out_Count = tm.Timer_Out_Count
    <3>1. ASSUME NEW on \in BOOLEAN
          PROVE  LET r == [Arm(tm, Interval) EXCEPT !.Timer_Enable = on] IN
                   r \in Timer /\ r.Timer_Count = 0 /\ r.Timer_Out_Count = Interval
      BY <2>2 DEF Arm, Timer
    <3>2. ASSUME NEW on \in BOOLEAN
          PROVE  LET r == [tm EXCEPT !.Timer_Timeout = FALSE, !.Timer_Count = 0, !.Timer_Enable = on] IN
                   r \in Timer /\ r.Timer_Count = 0 /\ r.Timer_Out_Count = tm.Timer_Out_Count
      BY <2>2 DEF Timer
    <3>3. LET r == [tm EXCEPT !.Timer_Enable = TRUE] IN
            r \in Timer /\ r.Timer_Count = tm.Timer_Count /\ r.Timer_Out_Count = tm.Timer_Out_Count
      BY <2>2 DEF Timer
    <3> HIDE DEF tm
    <3> QED
      BY <2>1, <2>2, <3>1, <3>2, <3>3
  <2>4. (\A i \in Indices : InBounds(i)') /\ User_Timer'["restart"] = User_Timer["restart"]
    BY <1>0, <2>3, PutInBounds, PutKeeps
  <2>5. UNCHANGED <<waited, ms_cnt>>
    BY <1>6, <2>3 DEF Reduce, Put
  <2> QED
    BY <2>4, <2>5 DEF Bounded
<1>7. CASE Regulate
  <2>1. PICK on \in BOOLEAN :
          Put("auto", [User_Timer["auto"] EXCEPT !.Timer_Enable = on, !.Timer_Timeout = FALSE])
    BY <1>7 DEF Regulate
  <2> DEFINE r == [User_Timer["auto"] EXCEPT !.Timer_Enable = on, !.Timer_Timeout = FALSE]
  <2>2. /\ r \in Timer /\ r.Timer_Count = User_Timer["auto"].Timer_Count
        /\ r.Timer_Out_Count = User_Timer["auto"].Timer_Out_Count
    BY <1>0 DEF Timer
  <2>3. Put("auto", r) /\ waited' = waited
    BY <1>7, <2>1 DEF Regulate
  <2> HIDE DEF r
  <2>4. /\ \A i \in Indices : InBounds(i)'
        /\ User_Timer'["restart"] = User_Timer["restart"] /\ ms_cnt' = ms_cnt
    BY <1>0, <2>2, <2>3, PutKeeps, PutInBounds DEF Put
  <2> QED
    BY <2>3, <2>4 DEF Bounded
<1> QED
  BY <1>2, <1>3, <1>4, <1>5, <1>6, <1>7 DEF Others

\* App_TaskStart, on its way to another timer or done with this one.
LEMMA FollowingInBounds ==
  ASSUME Typed, Bounded, Following, NEW i \in Indices, User_Timer'[i] = User_Timer[i],
         app.timer = i => User_Timer[i].Timer_Count < User_Timer[i].Timer_Out_Count
  PROVE  InBounds(i)'
<1>1. ~InHand(i)'
  BY FollowingFacts DEF InHand
<1> QED
  BY <1>1 DEF InBounds, InHand, Bounded

LEMMA AppBounded == Typed /\ Waiting /\ Bounded /\ App_TaskStart => Bounded'
<1> SUFFICES ASSUME Typed, Waiting, Bounded, App_TaskStart PROVE Bounded'
  OBVIOUS
<1>j. PICK j \in Indices : app.timer = j
  BY DEF Typed, Places
<1>0. /\ User_Timer \in [Indices -> Timer] /\ app \in Places /\ waited \in Nat
      /\ "restart" \in Indices /\ j \in Indices /\ app.timer = j /\ app.count \in Nat
      /\ LongestDelay \in Nat /\ LongestDelay' = LongestDelay
      /\ \A i \in Indices : InBounds(i) /\ User_Timer[i] \in Timer
  BY <1>j, LabelFacts, LongestFacts DEF Typed, Places, Bounded
<1>1. ms_cnt' = ms_cnt
  BY DEF App_TaskStart, Wake, Test, Clear, LoadEvent, StoreEvent, TestEnable, LoadCount, StoreCount,
         Compare, Stop, Reset, TimeOut
<1>2. ASSUME UNCHANGED <<User_Timer, waited>>, \A i \in Indices : InBounds(i)' PROVE Bounded'
  BY <1>1, <1>2 DEF Bounded
<1>3. ASSUME waited' = waited, \A i \in Indices : InBounds(i)',
             \A i \in Indices : User_Timer'[i].Timer_Out_Count = User_Timer[i].Timer_Out_Count
      PROVE  Bounded'
  BY <1>0, <1>1, <1>3 DEF Bounded
<1>4. CASE Wake \/ Clear \/ StoreEvent \/ Test("fMS", "fSec") \/ Test("fSec", "rest") \/ LoadEvent
  <2>1. \A i \in Indices : ~InHand(i) /\ ~InHand(i)'
    <3>1. app.at \notin Counted
      BY <1>4 DEF Wake, Clear, StoreEvent, Test, LoadEvent, Runs, Counted
    <3>2. app'.at \notin Counted
      <4>1. CASE Wake \/ Clear \/ StoreEvent
        BY <4>1, GotoFacts, CountFacts, LabelFacts DEF Wake, Clear, StoreEvent, Counted
      <4>2. CASE Test("fMS", "fSec") \/ Test("fSec", "rest") \/ LoadEvent
        BY <1>0, <4>2 DEF Test, LoadEvent, Counted, Places
      <4> QED
        BY <1>4, <4>1, <4>2
    <3> QED
      BY <3>1, <3>2 DEF InHand, Counted
  <2>2. UNCHANGED <<User_Timer, waited>>
    BY <1>4 DEF Wake, Clear, StoreEvent, Test, LoadEvent
  <2> QED
    BY <1>0, <1>2, <2>1, <2>2, NotInHand
<1>5. CASE TestEnable
  <2>1. app.at = "enabled" /\ UNCHANGED <<User_Timer, waited>>
    BY <1>5 DEF TestEnable, Runs
  <2>2. app'.at \notin {"store", "compare", "stop", "reset"}
    BY <1>5, GotoFacts, FollowingFacts, LabelFacts DEF TestEnable
  <2> QED
    BY <1>0, <1>2, <2>1, <2>2, NotInHand DEF InHand
<1>6. CASE LoadCount
  <2>1. app.at = "increment" /\ UNCHANGED <<User_Timer, waited>>
    BY <1>6 DEF LoadCount, Runs
  <2>2. app'.at = "store" /\ app'.timer = j /\ app'.count = User_Timer[j].Timer_Count
    <3>1. app' = [app EXCEPT !.at = "store", !.count = User_Timer[j].Timer_Count]
      BY <1>0, <1>6 DEF LoadCount, Tm
    <3> QED
      BY <1>0, <3>1 DEF Places
  <2>3. InBounds(j)'
    BY <1>0, <2>1, <2>2 DEF InBounds, Timer
  <2>4. ASSUME NEW i \in Indices, i # j PROVE InBounds(i)'
    BY <1>0, <2>1, <2>2, <2>4, NotInHand DEF InHand
  <2> QED
    BY <1>2, <2>1, <2>3, <2>4
<1>7. CASE StoreCount
  <2>1. /\ app.at = "store" /\ app'.at = "compare" /\ app'.timer = j /\ app'.count = app.count
        /\ User_Timer' = [User_Timer EXCEPT ![j].Timer_Count = app.count + 1]
        /\ waited' = IF j = "restart" /\ whole THEN waited + 1 ELSE waited
    BY <1>0, <1>7 DEF StoreCount, Runs, Places
  <2>2. /\ User_Timer'[j].Timer_Count = app.count + 1
        /\ User_Timer'[j].Timer_Out_Count = User_Timer[j].Timer_Out_Count
        /\ \A i \in Indices \ {j} : User_Timer'[i] = User_Timer[i]
    BY <1>0, <2>1 DEF Timer
  <2>3. InBounds(j)'
    BY <1>0, <2>1, <2>2 DEF InBounds
  <2>4. ASSUME NEW i \in Indices, i # j PROVE InBounds(i)'
    BY <1>0, <2>1, <2>2, <2>4, NotInHand DEF InHand
  <2>5. waited' <= User_Timer'["restart"].Timer_Out_Count
    <3>1. j = "restart" /\ whole => waited < User_Timer["restart"].Timer_Out_Count
      BY <1>0, <2>1 DEF Waiting
    <3>2. User_Timer["restart"].Timer_Out_Count \in Nat /\ waited <= User_Timer["restart"].Timer_Out_Count
          /\ User_Timer'["restart"].Timer_Out_Count = User_Timer["restart"].Timer_Out_Count
      BY <1>0, <2>2 DEF Timer, Bounded
    <3> QED
      BY <1>0, <2>1, <3>1, <3>2
  <2> QED
    BY <1>1, <2>3, <2>4, <2>5 DEF Bounded
<1>8. CASE Compare
  <2>1. PICK count \in {app.count + 1, User_Timer[j].Timer_Count} :
          IF count >= User_Timer[j].Timer_Out_Count THEN Goto("stop") ELSE Following
    BY <1>0, <1>8 DEF Compare, Tm
  <2>2. app.at = "compare" /\ UNCHANGED <<User_Timer, waited>>
    BY <1>8 DEF Compare, Runs
  <2>3. /\ User_Timer[j].Timer_Count \in {0, app.count + 1}
        /\ User_Timer[j].Timer_Out_Count \in Nat /\ User_Timer[j].Timer_Out_Count >= 1
    BY <1>0, <2>2 DEF InBounds
  <2>4. CASE count >= User_Timer[j].Timer_Out_Count
    <3>1. app'.at = "stop" /\ app'.timer = j
      BY <1>0, <2>1, <2>4, GotoFacts, LabelFacts
    <3>2. InBounds(j)'
      BY <1>0, <2>2, <3>1 DEF InBounds
    <3>3. ASSUME NEW i \in Indices, i # j PROVE InBounds(i)'
      BY <1>0, <2>2, <3>1, <3>3, NotInHand DEF InHand
    <3> QED
      BY <1>2, <2>2, <3>2, <3>3
  <2>5. CASE ~(count >= User_Timer[j].Timer_Out_Count)
    <3>1. User_Timer[j].Timer_Count < User_Timer[j].Timer_Out_Count
      BY <1>0, <2>1, <2>3, <2>5
    <3>2. Following /\ \A i \in Indices : app.timer = i => i = j
      BY <1>0, <2>1, <2>5
    <3>3. \A i \in Indices : InBounds(i)'
      BY <2>2, <3>1, <3>2, FollowingInBounds
    <3> QED
      BY <1>2, <2>2, <3>3
  <2> QED
    BY <2>4, <2>5
<1>9. CASE Stop \/ Reset
  <2>1. /\ app'.timer = j /\ waited' = waited
        /\ \/ /\ app.at = "stop" /\ app'.at = "reset"
              /\ User_Timer' = [User_Timer EXCEPT ![j].Timer_Enable = FALSE]
           \/ /\ app.at = "reset" /\ app'.at = "timeout"
              /\ User_Timer' = [User_Timer EXCEPT ![j].Timer_Count = 0]
    BY <1>0, <1>9, GotoFacts, LabelFacts DEF Stop, Reset, Runs
  <2>2. /\ app.at = "stop" => User_Timer'[j].Timer_Count = User_Timer[j].Timer_Count
        /\ app.at = "reset" => User_Timer'[j].Timer_Count = 0
        /\ \A i \in Indices : User_Timer'[i].Timer_Out_Count = User_Timer[i].Timer_Out_Count
        /\ \A i \in Indices \ {j} : User_Timer'[i] = User_Timer[i]
    BY <1>0, <2>1 DEF Timer
  <2>3. InBounds(j)'
    BY <1>0, <2>1, <2>2 DEF InBounds
  <2>4. ASSUME NEW i \in Indices, i # j PROVE InBounds(i)'
    BY <1>0, <2>1, <2>2, <2>4, NotInHand DEF InHand
  <2> QED
    BY <1>3, <2>1, <2>2, <2>3, <2>4
<1>10. CASE TimeOut
  <2>1. /\ app.at = "timeout" /\ waited' = waited /\ Following
        /\ User_Timer' = [User_Timer EXCEPT ![j].Timer_Timeout = TRUE]
    BY <1>0, <1>10 DEF TimeOut, Runs
  <2>2. /\ User_Timer'[j].Timer_Count = User_Timer[j].Timer_Count
        /\ \A i \in Indices : User_Timer'[i].Timer_Out_Count = User_Timer[i].Timer_Out_Count
        /\ \A i \in Indices \ {j} : User_Timer'[i] = User_Timer[i]
    BY <1>0, <2>1 DEF Timer
  <2>3. app'.at \notin {"store", "compare", "stop", "reset"}
    BY <2>1, FollowingFacts
  <2>4. InBounds(j)'
    BY <1>0, <2>1, <2>2, <2>3 DEF InBounds
  <2>5. ASSUME NEW i \in Indices, i # j PROVE InBounds(i)'
    BY <1>0, <2>1, <2>2, <2>3, <2>5, NotInHand DEF InHand
  <2> QED
    BY <1>3, <2>1, <2>2, <2>4, <2>5
<1> QED
  BY <1>4, <1>5, <1>6, <1>7, <1>8, <1>9, <1>10 DEF App_TaskStart

\* The counters stay in their types: no timer counts past the longest delay,
\* whatever the order in which Main_Process writes it and App_TaskStart
\* counts it, and what it has waited is never more than its delay.
THEOREM TimesInRange == Spec => []TypeOK
<1> DEFINE IInv == Typed /\ Waiting /\ Bounded
<1>1. IInv => TypeOK
  <2> SUFFICES ASSUME IInv PROVE TypeOK
    OBVIOUS
  <2>1. \A i \in Timers : i \in Indices /\ User_Timer[i].Timer_Count <= LongestDelay
    BY TimeAssumption DEF Bounded, InBounds, Indices
  <2>2. waited \in 0..LongestDelay
    <3>1. "restart" \in Indices /\ LongestDelay \in Nat
      BY LabelFacts, LongestFacts
    <3> QED
      BY <3>1 DEF Bounded, InBounds, Typed
  <2> QED
    BY <2>1, <2>2 DEF TypeOK, Typed, Bounded, Places, Indices
<1>2. Init => IInv
  BY FlagsInit, WaitingInit, BoundedInit
<1>3. IInv /\ [Next]_vars => IInv'
  BY TypedStep, OthersWait, AppWaits, OthersBounded, AppBounded DEF Next
<1> QED
  BY <1>1, <1>2, <1>3, PTL DEF Spec

-----------------------------------------------------------------------------
(* The countdown.                                                          *)

\* The restart timer does not leave its timeout while it is counted, and
\* App_TaskStart stops it only while it runs.
Settled ==
  LET tm == User_Timer["restart"] IN
  whole =>
    /\ app.timer = "restart" /\ app.at = "stop" => tm.Timer_Enable
    /\ tm.Timer_Timeout
         => ~tm.Timer_Enable /\ (app.timer = "restart" => app.at \notin {"stop", "reset", "timeout"})

\* App_TaskStart is past the comparison for the restart timer.
Ending == app.timer = "restart" /\ app.at \in {"stop", "reset", "timeout"}

CountdownVars == <<TimerState, waited, User_Timer["restart"].Timer_Out_Count>>

\* Nothing of the countdown changes where the timer stays, and App_TaskStart
\* neither was nor is at the end of its count.
LEMMA Elsewhere ==
  ASSUME Settled, UNCHANGED <<waited, whole>>, Rt' = Rt, ~Ending, ~Ending'
  PROVE  Settled' /\ UNCHANGED CountdownVars
  BY DEF Settled, Ending, CountdownVars, TimerState, Rt

LEMMA CountdownInit == Init => Settled /\ Promise!Init
<1> SUFFICES ASSUME Init PROVE Settled /\ Promise!Init
  OBVIOUS
<1>1. PICK d \in Delays :
        User_Timer = [i \in {"auto", "down", "restart"} |->
                        [Timer_Enable |-> (i = "auto"), Timer_Timeout |-> FALSE, Timer_Count |-> 0,
                         Timer_Out_Count |-> IF i = "restart" THEN d ELSE Interval]]
  BY DEF Init
<1>2. /\ ~User_Timer["restart"].Timer_Enable /\ ~User_Timer["restart"].Timer_Timeout
      /\ User_Timer["restart"].Timer_Out_Count \in Delays
  BY <1>1
<1>3. app.at = "rest" /\ whole /\ waited = 0
  BY DEF Init
<1> QED
  BY <1>2, <1>3 DEF Settled, TimerState, Promise!Init

LEMMA OthersCountdown ==
  ASSUME Typed, Waiting, Settled, SysTick \/ Others \/ UNCHANGED vars
  PROVE  Settled' /\ [Promise!Next]_(Promise!vars)
<1>0. User_Timer \in [Indices -> Timer] /\ Rt \in Timer
  BY LabelFacts DEF Typed, Rt
<1>1. ASSUME UNCHANGED <<app, waited, whole>>, Rt' = Rt
      PROVE  Settled' /\ [Promise!Next]_(Promise!vars)
  BY <1>1 DEF Settled, TimerState, Rt, Promise!vars
<1>2. CASE Protect
  <2>1. PICK d \in Delays : Put("restart", Arm(User_Timer["restart"], d))
    BY <1>2 DEF Protect
  <2>2. Rt' = Arm(Rt, d) /\ app' = app
    BY <1>0, <2>1, LabelFacts DEF Put, Rt
  <2>3. Rt'.Timer_Enable /\ ~Rt'.Timer_Timeout /\ Rt'.Timer_Out_Count = d
    BY <2>2 DEF Arm
  <2>4. waited' = 0 /\ whole' = ~(app.timer = "restart" /\ app.at \in Counted)
    BY <1>2 DEF Protect
  <2>5. Settled'
    BY <2>2, <2>3, <2>4 DEF Settled, Rt, Counted
  <2>6. CASE whole'
    <3>1. TimerState' = "running"
      BY <2>3, <2>6 DEF TimerState, Rt
    <3> QED
      BY <2>3, <2>4, <2>5, <3>1 DEF Rt, Promise!Next, Promise!Arm, Promise!Load
  <2>7. CASE ~whole'
    <3>1. TimerState' = "spoilt"
      BY <2>7 DEF TimerState
    <3> QED
      BY <2>3, <2>4, <2>5, <3>1 DEF Rt, Promise!Next, Promise!Spoil, Promise!Load
  <2> QED
    BY <2>6, <2>7
<1>3. CASE Restart
  <2>1. Rt.Timer_Timeout /\ Rt' = [Rt EXCEPT !.Timer_Timeout = FALSE] /\ UNCHANGED <<app, waited, whole>>
    BY <1>0, <1>3, LabelFacts DEF Restart, Put, Rt
  <2>2. /\ Rt'.Timer_Enable = Rt.Timer_Enable /\ ~Rt'.Timer_Timeout
        /\ Rt'.Timer_Out_Count = Rt.Timer_Out_Count
    BY <1>0, <2>1 DEF Timer
  <2>3. Settled'
    BY <2>1, <2>2 DEF Settled, Rt
  <2>4. CASE whole
    <3>1. TimerState = "expired" /\ TimerState' = "off"
      BY <2>1, <2>2, <2>4 DEF Settled, TimerState, Rt
    <3> QED
      BY <2>1, <2>2, <2>3, <3>1 DEF Rt, Promise!Next, Promise!Take
  <2>5. CASE ~whole
    <3>1. TimerState' = TimerState
      BY <2>1, <2>5 DEF TimerState
    <3> QED
      BY <2>1, <2>2, <2>3, <3>1 DEF Rt, Promise!vars
  <2> QED
    BY <2>4, <2>5
<1>4. CASE Reduce \/ Regulate
  <2>1. Rt' = Rt /\ UNCHANGED <<app, waited, whole>>
    BY <1>0, <1>4, LabelFacts DEF Reduce, Regulate, Put, Rt
  <2> QED
    BY <1>1, <2>1
<1>5. CASE SysTick \/ (\E t \in Writers : Load(t) \/ Store(t)) \/ UNCHANGED vars
  <2>1. Rt' = Rt /\ UNCHANGED <<app, waited, whole>>
    BY <1>5 DEF SysTick, Load, Store, vars, Rt
  <2> QED
    BY <1>1, <2>1
<1> QED
  BY <1>2, <1>3, <1>4, <1>5 DEF Others

LEMMA AppCountdown ==
  ASSUME Typed, Waiting, Settled, App_TaskStart
  PROVE  Settled' /\ [Promise!Next]_(Promise!vars)
<1>0. /\ User_Timer \in [Indices -> Timer] /\ Rt \in Timer /\ app \in Places /\ waited \in Nat
      /\ "restart" \in Indices /\ app.timer \in Indices
  BY LabelFacts DEF Typed, Rt, Places
<1>1. ASSUME UNCHANGED <<waited, whole>>, Rt' = Rt, ~Ending, ~Ending'
      PROVE  Settled' /\ [Promise!Next]_(Promise!vars)
  BY <1>1, Elsewhere DEF CountdownVars, Promise!vars
<1>2. CASE Wake \/ Clear \/ StoreEvent
  <2>1. app'.at \in {"fMS", "fSec", "event", "enabled", "rest"} /\ ~Ending
    BY <1>2, GotoFacts, CountFacts, LabelFacts DEF Wake, Clear, StoreEvent, Runs, Ending
  <2>2. UNCHANGED <<waited, whole>> /\ Rt' = Rt
    BY <1>2 DEF Wake, Clear, StoreEvent, Rt
  <2> QED
    BY <1>1, <2>1, <2>2 DEF Ending
<1>3. CASE Test("fMS", "fSec") \/ Test("fSec", "rest") \/ LoadEvent \/ LoadCount
  <2>1. app'.at \in {"clear", "fSec", "rest", "setEvent", "store"} /\ ~Ending
    BY <1>0, <1>3 DEF Test, LoadEvent, LoadCount, Runs, Ending, Places
  <2>2. UNCHANGED <<waited, whole>> /\ Rt' = Rt
    BY <1>3 DEF Test, LoadEvent, LoadCount, Rt
  <2> QED
    BY <1>1, <2>1, <2>2 DEF Ending
<1>4. CASE TestEnable
  <2>1. UNCHANGED <<waited, whole>> /\ Rt' = Rt /\ ~Ending
    BY <1>4 DEF TestEnable, Runs, Rt, Ending
  <2>2. ~Ending'
    BY <1>4, GotoFacts, FollowingFacts, LabelFacts DEF TestEnable, Ending
  <2> QED
    BY <1>1, <2>1, <2>2
<1>5. CASE StoreCount
  <2>1. /\ app.at = "store" /\ whole' = whole /\ app'.at = "compare" /\ app'.timer = app.timer
        /\ User_Timer' = [User_Timer EXCEPT ![app.timer].Timer_Count = app.count + 1]
        /\ waited' = IF app.timer = "restart" /\ whole THEN waited + 1 ELSE waited
    BY <1>0, <1>5 DEF StoreCount, Runs, Places
  <2>2. /\ Rt'.Timer_Enable = Rt.Timer_Enable /\ Rt'.Timer_Timeout = Rt.Timer_Timeout
        /\ Rt'.Timer_Out_Count = Rt.Timer_Out_Count
    BY <1>0, <2>1 DEF Rt, Timer
  <2>3. Settled' /\ TimerState' = TimerState
    BY <2>1, <2>2 DEF Settled, TimerState, Rt
  <2>4. CASE app.timer = "restart" /\ whole
    <3>1. waited' = waited + 1 /\ waited < Rt.Timer_Out_Count
      BY <2>1, <2>4 DEF Waiting, Rt
    <3> QED
      BY <2>2, <2>3, <3>1 DEF Rt, Promise!Next, Promise!Second
  <2>5. CASE ~(app.timer = "restart" /\ whole)
    BY <2>1, <2>2, <2>3, <2>5 DEF Rt, Promise!vars
  <2> QED
    BY <2>4, <2>5
<1>6. CASE Compare
  <2>1. UNCHANGED <<waited, whole>> /\ Rt' = Rt /\ app.at = "compare"
    BY <1>6 DEF Compare, Runs, Rt
  <2>2. Goto("stop") \/ Following
    BY <1>6 DEF Compare
  <2>3. CASE Goto("stop")
    <3>1. app'.at = "stop" /\ app'.timer = app.timer
      BY <2>3, GotoFacts, LabelFacts
    <3>2. Settled' /\ TimerState' = TimerState
      BY <2>1, <3>1 DEF Settled, TimerState, Rt, Waiting
    <3> QED
      BY <2>1, <3>2 DEF Rt, Promise!vars
  <2>4. CASE Following
    <3>1. ~Ending /\ ~Ending'
      BY <2>1, <2>4, FollowingFacts DEF Ending
    <3> QED
      BY <1>1, <2>1, <3>1
  <2> QED
    BY <2>2, <2>3, <2>4
<1>7. CASE Stop \/ Reset
  <2>1. /\ UNCHANGED <<waited, whole>> /\ app'.timer = app.timer
        /\ \/ /\ app.at = "stop" /\ app'.at = "reset"
              /\ User_Timer' = [User_Timer EXCEPT ![app.timer].Timer_Enable = FALSE]
           \/ /\ app.at = "reset" /\ app'.at = "timeout"
              /\ User_Timer' = [User_Timer EXCEPT ![app.timer].Timer_Count = 0]
    BY <1>7, GotoFacts, LabelFacts DEF Stop, Reset, Runs
  <2>2. CASE app.timer = "restart"
    <3>1. /\ Rt'.Timer_Out_Count = Rt.Timer_Out_Count /\ Rt'.Timer_Timeout = Rt.Timer_Timeout
          /\ app.at = "reset" => Rt'.Timer_Enable = Rt.Timer_Enable
      BY <1>0, <2>1, <2>2 DEF Rt, Timer
    <3>2. Settled' /\ TimerState' = TimerState
      BY <2>1, <2>2, <3>1 DEF Settled, TimerState, Rt
    <3> QED
      BY <2>1, <3>1, <3>2 DEF Rt, Promise!vars
  <2>3. CASE app.timer # "restart"
    <3>1. Rt' = Rt /\ ~Ending /\ ~Ending'
      BY <1>0, <2>1, <2>3 DEF Rt, Ending
    <3> QED
      BY <1>1, <2>1, <3>1
  <2> QED
    BY <2>2, <2>3
<1>8. CASE TimeOut
  <2>1. /\ UNCHANGED <<waited, whole>> /\ app.at = "timeout" /\ Following
        /\ User_Timer' = [User_Timer EXCEPT ![app.timer].Timer_Timeout = TRUE]
    BY <1>8 DEF TimeOut, Runs
  <2>2. CASE app.timer = "restart"
    <3>1. /\ Rt'.Timer_Timeout /\ Rt'.Timer_Enable = Rt.Timer_Enable
          /\ Rt'.Timer_Out_Count = Rt.Timer_Out_Count
      BY <1>0, <2>1, <2>2 DEF Rt, Timer
    <3>2. app'.at \in {"rest", "fSec"}
      BY <2>1, <2>2, FollowingFacts
    <3>3. Settled'
      BY <2>1, <2>2, <3>1, <3>2 DEF Settled, Waiting, Rt
    <3>4. CASE whole
      <4>1. TimerState = "running" /\ TimerState' = "expired" /\ waited = Rt.Timer_Out_Count
        BY <2>1, <2>2, <3>1, <3>4 DEF Settled, TimerState, Waiting, Rt
      <4> QED
        BY <2>1, <3>1, <3>3, <4>1 DEF Rt, Promise!Next, Promise!Expire
    <3>5. CASE ~whole
      <4>1. TimerState' = TimerState
        BY <2>1, <3>5 DEF TimerState
      <4> QED
        BY <2>1, <3>1, <3>3, <4>1 DEF Rt, Promise!vars
    <3> QED
      BY <3>4, <3>5
  <2>3. CASE app.timer # "restart"
    <3>1. Rt' = Rt /\ ~Ending /\ ~Ending'
      BY <1>0, <2>1, <2>3, FollowingFacts DEF Rt, Ending
    <3> QED
      BY <1>1, <2>1, <3>1
  <2> QED
    BY <2>2, <2>3
<1> QED
  BY <1>2, <1>3, <1>4, <1>5, <1>6, <1>7, <1>8 DEF App_TaskStart

\* The restart timer, counted in several steps by a task that everything
\* interrupts, implements the countdown Main_Process takes it for: it expires
\* after its delay and not before, and a timeout is there to be taken until
\* it is taken or the timer armed again.
THEOREM TimerRefines == Spec => TimerIsCountdown
<1>1. Init => Typed /\ Waiting /\ Settled /\ Promise!Init
  BY FlagsInit, WaitingInit, CountdownInit
<1>2. Typed /\ Waiting /\ Settled /\ [Next]_vars
        => Typed' /\ Waiting' /\ Settled' /\ [Promise!Next]_(Promise!vars)
  BY TypedStep, OthersWait, AppWaits, OthersCountdown, AppCountdown DEF Next
<1> QED
  BY <1>1, <1>2, PTL DEF Spec, TimerIsCountdown, Promise!Spec
=============================================================================
