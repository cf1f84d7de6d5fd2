-------------------------- MODULE ExciterBusProofs --------------------------
(***************************************************************************)
(* Theorems about ExciterBus, for every set of masters and panels and every*)
(* value of the bounds: the port has one user, the semaphore keeps its     *)
(* promise (the refinement of ExclusivePort), the flag fEitRTU does not    *)
(* stay behind, the link is lost only after two polls, every variable      *)
(* keeps its type, and nobody keeps the port.                              *)
(***************************************************************************)
EXTENDS ExciterBus, Integers, TLAPS

\* Where the tasks are, as far as the proofs need it.
Places == [at : Labels, tries : Int, left : Int, req : Requests, ok : BOOLEAN]
StOK == st \in [Tasks -> Places]

\* The semaphore counts 1 while nobody has the port, and only tasks that
\* sleep in OSSemPend are on its wait list.
SemOK ==
  /\ OSEventCnt \in {0, 1}
  /\ OSEventTbl \subseteq {t \in Tasks : st[t].at = "blocked"}
  /\ OSEventTbl # {} => OSEventCnt = 0
  /\ OSEventCnt = 0 <=> \E t \in Tasks : Holds(t)

IInv == StOK /\ SemOK /\ OnePortUser

HoldLabels == {"send", "wait", "sleep", "post"}

-----------------------------------------------------------------------------
(* Helpers.                                                                *)

LEMMA TasksFacts == "rtu" \in Tasks /\ Users \subseteq Tasks /\ None \notin Tasks
  BY ExciterAssumption DEF Tasks, Users, None

\* The wait list has a highest-priority task (OS_EventTaskRdy).
LEMMA HighestIsMember ==
  ASSUME NEW S, S \subseteq Tasks, S # {} PROVE Port!HighestOf(S) \in S
<1>1. Tasks \subseteq {"udp", "rtu", "pc", "oled"}
  BY ExciterAssumption DEF Tasks
<1>2. /\ \A t \in Tasks : Priority[t] \in {10, 11, 12, 13}
      /\ \A t \in Tasks : /\ t = "udp" => Priority[t] = 10
                          /\ t = "rtu" => Priority[t] = 11
                          /\ t = "pc" => Priority[t] = 12
                          /\ t = "oled" => Priority[t] = 13
  BY <1>1 DEF Priority
<1>3. \E t \in S : \A u \in S : Priority[t] <= Priority[u]
  <2>1. CASE "udp" \in S
    BY <2>1, <1>1, <1>2
  <2>2. CASE "udp" \notin S /\ "rtu" \in S
    BY <2>2, <1>1, <1>2
  <2>3. CASE "udp" \notin S /\ "rtu" \notin S /\ "pc" \in S
    BY <2>3, <1>1, <1>2
  <2>4. CASE "udp" \notin S /\ "rtu" \notin S /\ "pc" \notin S
    <3>1. S = {"oled"}
      BY <2>4, <1>1
    <3> QED
      BY <3>1, <1>2
  <2> QED
    BY <2>1, <2>2, <2>3, <2>4
<1> QED
  BY <1>3 DEF Port!HighestOf

\* Who the owner is.
LEMMA OwnerIs ==
  ASSUME OnePortUser
  PROVE  /\ \A t \in Tasks : Holds(t) => Owner = t
         /\ (\A t \in Tasks : ~Holds(t)) => Owner = None
  BY DEF OnePortUser, Owner

\* A task that moves without touching the semaphore, and is not in
\* OSSemPend afterwards, changes nothing if it has the port afterwards
\* exactly when it had it before.
LEMMA MoveKeeps ==
  ASSUME IInv, NEW t \in Tasks, NEW r \in Places, st' = [st EXCEPT ![t] = r],
         UNCHANGED sem, r.at # "blocked", r.at \in HoldLabels <=> Holds(t),
         t \notin OSEventTbl
  PROVE  IInv' /\ Owner' = Owner
<1> USE DEF HoldLabels, sem
<1>1. StOK'
  BY DEF IInv, StOK
<1>2. /\ st'[t] = r
      /\ \A u \in Tasks \ {t} : st'[u] = st[u]
  BY DEF IInv, StOK
<1>3. \A u \in Tasks : Holds(u)' <=> Holds(u)
  <2>1. \A u \in Tasks \ {t} : Holds(u)' <=> Holds(u)
    BY <1>2 DEF Holds, Port!Granted
  <2>2. Holds(t)' <=> Holds(t)
    BY <1>2 DEF Holds, Port!Granted
  <2> QED
    BY <2>1, <2>2
<1>4. OnePortUser'
  BY <1>3 DEF IInv, OnePortUser
<1>5. SemOK'
  <2>1. OSEventTbl' \subseteq {u \in Tasks : st'[u].at = "blocked"}
    BY <1>2 DEF IInv, SemOK
  <2> QED
    BY <1>3, <2>1 DEF IInv, SemOK
<1>6. Owner' = Owner
  <2>1. CASE \E u \in Tasks : Holds(u)
    <3>1. PICK u \in Tasks : Holds(u)
      BY <2>1
    <3>2. Owner = u
      BY <3>1, OwnerIs DEF IInv
    <3>3. Owner' = u
      BY <3>1, <1>3, <1>4 DEF OnePortUser, Owner
    <3> QED
      BY <3>2, <3>3
  <2>2. CASE \A u \in Tasks : ~Holds(u)
    BY <2>2, <1>3, <1>4, OwnerIs DEF IInv, Owner
  <2> QED
    BY <2>1, <2>2
<1> QED
  BY <1>1, <1>4, <1>5, <1>6 DEF IInv

\* A step that leaves tasks and semaphore alone changes nothing.
LEMMA StillKeeps ==
  ASSUME IInv, UNCHANGED <<st, sem>> PROVE IInv' /\ Owner' = Owner
  BY DEF IInv, StOK, SemOK, OnePortUser, Holds, Owner, sem, Port!Granted

\* A task with the port or outside OSSemPend is not on the wait list.
LEMMA NotWaiting ==
  ASSUME IInv, NEW t \in Tasks, st[t].at # "blocked" \/ Holds(t)
  PROVE  t \notin OSEventTbl
  BY DEF IInv, SemOK, Holds, Port!Granted

-----------------------------------------------------------------------------
(* The steps of one task that leave the semaphore alone.                   *)

LEMMA AwayType ==
  ASSUME NEW at \in Labels PROVE Away(at) \in Places /\ Away(at).at = at
  BY DEF Away, Places, Request, Requests, Kinds, None

LEMMA AskingType ==
  ASSUME NEW k \in Kinds, NEW f \in Freqs \union {None}, NEW n \in Int
  PROVE  Asking(k, f, n) \in Places /\ Asking(k, f, n).at = "pend"
  BY DEF Asking, Places, Labels, Request, Requests

\* The next place of a task that goes to another label.
LEMMA GoPlace ==
  ASSUME IInv, NEW t \in Tasks, NEW at \in Labels
  PROVE  /\ [st[t] EXCEPT !.at = at] \in Places
         /\ [st[t] EXCEPT !.at = at].at = at
         /\ [st EXCEPT ![t].at = at] = [st EXCEPT ![t] = [st[t] EXCEPT !.at = at]]
  BY DEF IInv, StOK, Places

\* Commands, the panel and the poll begin.
LEMMA CommandKeeps ==
  ASSUME IInv, NEW t \in Tasks, Command(t) \/ Confirm(t) PROVE IInv' /\ Owner' = Owner
<1>1. CASE \E f \in Freqs \ {FirstFreq} : StartCommand(t, f) /\ Runs(t, "idle") /\ UNCHANGED sem
  <2>1. PICK f \in Freqs \ {FirstFreq} : StartCommand(t, f)
    BY <1>1
  <2> DEFINE r == Asking("set", f, 0)
  <2>2. r \in Places /\ r.at = "pend"
    BY AskingType DEF Kinds
  <2>3. st' = [st EXCEPT ![t] = r]
    BY <2>1 DEF StartCommand
  <2>4. st[t].at = "idle" /\ ~Holds(t) /\ t \notin OSEventTbl
    BY <1>1, NotWaiting DEF Runs, Holds
  <2> QED
    BY <1>1, <2>2, <2>3, <2>4, MoveKeeps DEF HoldLabels
<1>2. CASE UNCHANGED <<st, sem>>
  BY <1>2, StillKeeps
<1> QED
  BY <1>1, <1>2 DEF Command, Confirm

LEMMA PollDueKeeps == ASSUME IInv, PollDue PROVE IInv' /\ Owner' = Owner
<1> DEFINE r == Polling(Tries - 1)
<1>1. r \in Places /\ r.at = "pend"
  BY AskingType, ExciterAssumption DEF Polling, Kinds
<1>2. st' = [st EXCEPT !["rtu"] = r] /\ UNCHANGED sem
  BY DEF PollDue
<1>3. "rtu" \in Tasks /\ ~Holds("rtu") /\ "rtu" \notin OSEventTbl
  BY TasksFacts, NotWaiting DEF PollDue, Runs, Holds
<1> QED
  BY <1>1, <1>2, <1>3, MoveKeeps DEF HoldLabels

\* The end of a poll, the way to PADevPoll, the end of a command.
LEMMA MarkKeeps == ASSUME IInv, Mark PROVE IInv' /\ Owner' = Owner
<1>1. Away("pause") \in Places /\ Away("pause").at = "pause"
  BY AwayType DEF Labels
<1>2. st' = [st EXCEPT !["rtu"] = Away("pause")] /\ UNCHANGED sem
  BY DEF Mark
<1>3. "rtu" \in Tasks /\ ~Holds("rtu") /\ "rtu" \notin OSEventTbl
  BY TasksFacts, NotWaiting DEF Mark, Runs, Holds
<1> QED
  BY <1>1, <1>2, <1>3, MoveKeeps DEF HoldLabels

LEMMA PauseOverKeeps == ASSUME IInv, PauseOver PROVE IInv' /\ Owner' = Owner
<1> DEFINE r == Asking("status", None, 0)
<1>1. r \in Places /\ r.at = "pend"
  BY AskingType DEF Kinds
<1>2. st' = [st EXCEPT !["rtu"] = r] /\ UNCHANGED sem
  BY DEF PauseOver
<1>3. "rtu" \in Tasks /\ ~Holds("rtu") /\ "rtu" \notin OSEventTbl
  BY TasksFacts, NotWaiting DEF PauseOver, Runs, Holds
<1> QED
  BY <1>1, <1>2, <1>3, MoveKeeps DEF HoldLabels

LEMMA EndCommandKeeps ==
  ASSUME IInv, NEW t \in Tasks, EndCommand(t) PROVE IInv' /\ Owner' = Owner
<1>1. st' = [st EXCEPT ![t] = [st[t] EXCEPT !.at = "idle"]] /\ UNCHANGED sem
  BY GoPlace DEF EndCommand, Go, Labels
<1>2. ~Holds(t) /\ t \notin OSEventTbl
  BY NotWaiting DEF EndCommand, Runs, Holds
<1> QED
  BY <1>1, <1>2, GoPlace, MoveKeeps DEF HoldLabels, Labels

\* The steps of the task that has the port.
LEMMA UseKeeps ==
  ASSUME IInv, NEW t \in Tasks,
         PendReturns(t) \/ Send(t) \/ Accept(t) \/ LookAgain(t) \/ GiveUp(t) \/ Wake(t)
  PROVE  IInv' /\ Owner' = Owner
<1>1. UNCHANGED sem
  BY DEF PendReturns, Send, Accept, LookAgain, GiveUp, Wake
<1>2. Holds(t)
  BY DEF PendReturns, Send, Accept, LookAgain, GiveUp, Wake, Runs, Holds
<1>3. PICK r \in Places : st' = [st EXCEPT ![t] = r] /\ r.at \in HoldLabels
  <2>0. st[t] \in Places
    BY DEF IInv, StOK
  <2> DEFINE To(r) == st' = [st EXCEPT ![t] = r] /\ r \in Places /\ r.at \in HoldLabels
  <2>1. CASE PendReturns(t)
    <3>1. To([st[t] EXCEPT !.at = "send"])
      BY <2>1, GoPlace DEF PendReturns, Go, Labels, HoldLabels
    <3> QED
      BY <3>1
  <2>2. CASE Send(t)
    <3> DEFINE n == IF st[t].req.kind = "status" THEN 1 ELSE Looks
    <3>1. n \in Int /\ st' = [st EXCEPT ![t] = [@ EXCEPT !.at = "wait", !.left = n]]
      BY <2>2, ExciterAssumption DEF Send
    <3> DEFINE r == [st[t] EXCEPT !.at = "wait", !.left = n]
    <3>2. r \in Places
      BY <2>0, <3>1 DEF Labels, Places
    <3>3. r.at \in HoldLabels
      BY <2>0 DEF HoldLabels, Places
    <3>4. st' = [st EXCEPT ![t] = r]
      BY <3>1
    <3> QED
      BY <3>2, <3>3, <3>4
  <2>3. CASE Accept(t)
    <3>1. PICK ok \in BOOLEAN : st' = [st EXCEPT ![t] = [@ EXCEPT !.at = "post", !.left = 0, !.ok = ok]]
      BY <2>3 DEF Accept
    <3> DEFINE n == 0
               r == [st[t] EXCEPT !.at = "post", !.left = n, !.ok = ok]
    <3>2. r \in Places
      <4>1. n \in Int
        OBVIOUS
      <4> HIDE DEF n
      <4>2. [st[t] EXCEPT !.at = "post", !.left = n] \in Places
        BY <2>0, <4>1 DEF Labels, Places
      <4> QED
        BY <4>2 DEF Places
    <3>3. r.at \in HoldLabels
      BY <2>0 DEF HoldLabels, Places
    <3>4. st' = [st EXCEPT ![t] = r]
      BY <3>1
    <3> QED
      BY <3>2, <3>3, <3>4
  <2>4. CASE LookAgain(t)
    <3> DEFINE r == [st[t] EXCEPT !.at = "sleep", !.left = st[t].left - 1]
    <3>2. r \in Places
      <4>1. st[t].left - 1 \in Int
        BY <2>0 DEF Places
      <4> QED
        BY <2>0, <4>1 DEF Labels, Places
    <3>3. r.at \in HoldLabels
      BY <2>0 DEF HoldLabels, Places
    <3>4. st' = [st EXCEPT ![t] = r]
      BY <2>4 DEF LookAgain
    <3> QED
      BY <3>2, <3>3, <3>4
  <2>5. CASE GiveUp(t)
    <3>1. To([st[t] EXCEPT !.at = "post", !.ok = FALSE])
      BY <2>0, <2>5 DEF GiveUp, Labels, HoldLabels, Places, IInv, StOK
    <3> QED
      BY <3>1
  <2>6. CASE Wake(t)
    <3>1. To([st[t] EXCEPT !.at = "wait"])
      BY <2>6, GoPlace DEF Wake, Go, Labels, HoldLabels
    <3> QED
      BY <3>1
  <2> QED
    BY <2>1, <2>2, <2>3, <2>4, <2>5, <2>6
<1>4. t \notin OSEventTbl
  BY <1>2, NotWaiting
<1> QED
  BY <1>1, <1>2, <1>3, <1>4, MoveKeeps DEF HoldLabels

-----------------------------------------------------------------------------
(* The steps that use the semaphore: they are the steps of ExclusivePort.  *)

LEMMA PendTakesKeeps ==
  ASSUME IInv, NEW t \in Tasks, Runs(t, "pend"), Port!PendTakes, Go(t, "send")
  PROVE  IInv' /\ Lock!Take(t)
<1>1. /\ st' = [st EXCEPT ![t] = [st[t] EXCEPT !.at = "send"]]
      /\ [st[t] EXCEPT !.at = "send"] \in Places
      /\ [st[t] EXCEPT !.at = "send"].at = "send"
  BY GoPlace DEF Go, Labels
<1>2. StOK'
  BY <1>1 DEF IInv, StOK
<1>3. st'[t].at = "send" /\ \A u \in Tasks \ {t} : st'[u] = st[u]
  BY <1>1 DEF IInv, StOK
<1>4. OSEventCnt = 1 /\ OSEventCnt' = 0 /\ OSEventTbl = {} /\ OSEventTbl' = {}
  BY DEF Port!PendTakes, IInv, SemOK
<1>5. \A u \in Tasks : ~Holds(u)
  BY <1>4 DEF IInv, SemOK
<1>6. \A u \in Tasks : Holds(u)' <=> u = t
  <2>1. Holds(t)'
    BY <1>3 DEF Holds
  <2>2. \A u \in Tasks \ {t} : ~Holds(u)'
    BY <1>3, <1>4, <1>5 DEF Holds, Port!Granted
  <2> QED
    BY <2>1, <2>2
<1>7. OnePortUser' /\ SemOK'
  BY <1>4, <1>6 DEF OnePortUser, SemOK
<1>8. Owner = None /\ Owner' = t
  BY <1>5, <1>6 DEF Owner
<1> QED
  BY <1>2, <1>4, <1>7, <1>8 DEF IInv, Lock!Take

LEMMA PendWaitsKeeps ==
  ASSUME IInv, NEW t \in Tasks, Runs(t, "pend"), Port!PendWaits(t), Go(t, "blocked")
  PROVE  IInv' /\ Lock!Wait(t)
<1>1. /\ st' = [st EXCEPT ![t] = [st[t] EXCEPT !.at = "blocked"]]
      /\ [st[t] EXCEPT !.at = "blocked"] \in Places
      /\ [st[t] EXCEPT !.at = "blocked"].at = "blocked"
  BY GoPlace DEF Go, Labels
<1>2. StOK'
  BY <1>1 DEF IInv, StOK
<1>3. st'[t].at = "blocked" /\ \A u \in Tasks \ {t} : st'[u] = st[u]
  BY <1>1 DEF IInv, StOK
<1>4. OSEventCnt = 0 /\ OSEventCnt' = 0 /\ OSEventTbl' = OSEventTbl \union {t}
  BY DEF Port!PendWaits
<1>5. st[t].at = "pend" /\ ~Holds(t) /\ t \notin OSEventTbl
  BY NotWaiting DEF Runs, Holds
<1>6. \A u \in Tasks : Holds(u)' <=> Holds(u)
  <2>1. ~Holds(t)'
    BY <1>3, <1>4 DEF Holds, Port!Granted
  <2>2. \A u \in Tasks \ {t} : Holds(u)' <=> Holds(u)
    BY <1>3, <1>4 DEF Holds, Port!Granted
  <2> QED
    BY <1>5, <2>1, <2>2
<1>7. PICK h \in Tasks : Holds(h)
  BY <1>4 DEF IInv, SemOK
<1>8. OnePortUser'
  BY <1>6 DEF IInv, OnePortUser
<1>9. SemOK'
  <2>1. OSEventTbl' \subseteq {u \in Tasks : st'[u].at = "blocked"}
    BY <1>3, <1>4 DEF IInv, SemOK
  <2> QED
    BY <1>4, <1>6, <1>7, <2>1 DEF SemOK
<1>10. Owner = h /\ Owner' = h
  BY <1>6, <1>7, <1>8 DEF IInv, OnePortUser, Owner
<1>11. h # t /\ h # None
  BY <1>5, <1>7, TasksFacts
<1> QED
  BY <1>2, <1>4, <1>5, <1>8, <1>9, <1>10, <1>11 DEF IInv, Lock!Wait

\* What a task does after OSSemPost does not use the port.
LEMMA AfterPostPlace ==
  ASSUME IInv, NEW t \in Tasks
  PROVE  AfterPost(t) \in Places /\ AfterPost(t).at \in {"clear", "rest", "mark", "pend"}
<1>1. st[t] \in Places
  BY DEF IInv, StOK
<1>2. Away("clear") \in Places /\ Away("clear").at = "clear"
  BY AwayType DEF Labels
<1>3. Away("rest") \in Places /\ Away("rest").at = "rest"
  BY AwayType DEF Labels
<1>4. [st[t] EXCEPT !.at = "mark"] \in Places /\ [st[t] EXCEPT !.at = "mark"].at = "mark"
  BY GoPlace DEF Labels
<1>5. Polling(st[t].tries - 1) \in Places /\ Polling(st[t].tries - 1).at = "pend"
  <2>1. st[t].tries - 1 \in Int
    BY <1>1 DEF Places
  <2> QED
    BY <2>1, AskingType DEF Polling, Kinds
<1> QED
  BY <1>2, <1>3, <1>4, <1>5 DEF AfterPost

LEMMA PostKeeps ==
  ASSUME IInv, NEW t \in Tasks, Post(t)
  PROVE  IInv' /\ Lock!Leave(t)
<1>1. st' = [st EXCEPT ![t] = AfterPost(t)] /\ AfterPost(t) \in Places
  BY AfterPostPlace DEF Post
<1>2. StOK'
  BY <1>1 DEF IInv, StOK
<1>3. st'[t] = AfterPost(t) /\ \A u \in Tasks \ {t} : st'[u] = st[u]
  BY <1>1 DEF IInv, StOK
<1>4. st[t].at = "post" /\ Holds(t) /\ t \notin OSEventTbl /\ Owner = t
  BY NotWaiting, OwnerIs DEF Post, Runs, Holds, IInv
<1>5. OSEventCnt = 0 /\ \A u \in Tasks \ {t} : ~Holds(u)
  BY <1>4 DEF IInv, SemOK, OnePortUser
<1>6. ~Holds(t)'
  BY <1>3, AfterPostPlace DEF Holds
<1>7. CASE OSEventTbl # {}
  <2>0. PICK h : h = Port!HighestOf(OSEventTbl)
    OBVIOUS
  <2>1. h \in OSEventTbl /\ h \in Tasks /\ h # t /\ st[h].at = "blocked"
    BY <1>4, <1>7, <2>0, HighestIsMember DEF IInv, SemOK
  <2>2. OSEventTbl' = OSEventTbl \ {h} /\ OSEventCnt' = 0
    BY <1>5, <1>7, <2>0 DEF Post, Port!OSSemPost
  <2>3. \A u \in Tasks : Holds(u)' <=> u = h
    <3>1. Holds(h)'
      BY <1>3, <2>1, <2>2 DEF Holds, Port!Granted
    <3>2. \A u \in Tasks \ {t, h} : ~Holds(u)'
      BY <1>3, <1>5, <2>2 DEF Holds, Port!Granted
    <3> QED
      BY <1>6, <2>1, <3>1, <3>2
  <2>4. OnePortUser' /\ SemOK'
    <3>1. OSEventTbl' \subseteq {u \in Tasks : st'[u].at = "blocked"}
      BY <1>3, <1>4, <2>2 DEF IInv, SemOK
    <3> QED
      BY <2>1, <2>2, <2>3, <3>1 DEF OnePortUser, SemOK
  <2>5. Owner' = h
    BY <2>1, <2>3 DEF Owner
  <2>6. h = Lock!First(OSEventTbl)
    BY <2>0 DEF Port!HighestOf, Lock!First
  <2> QED
    BY <1>2, <1>4, <1>7, <2>2, <2>4, <2>5, <2>6 DEF IInv, Lock!Leave
<1>8. CASE OSEventTbl = {}
  <2>1. OSEventTbl' = {} /\ OSEventCnt' = 1
    BY <1>5, <1>8 DEF Post, Port!OSSemPost, Port!CntMax
  <2>2. \A u \in Tasks : ~Holds(u)'
    BY <1>3, <1>5, <1>6, <1>8, <2>1 DEF Holds, Port!Granted
  <2>3. OnePortUser' /\ SemOK'
    BY <2>1, <2>2 DEF OnePortUser, SemOK
  <2>4. Owner' = None
    BY <2>2 DEF Owner
  <2> QED
    BY <1>2, <1>4, <1>8, <2>1, <2>3, <2>4 DEF IInv, Lock!Leave
<1> QED
  BY <1>7, <1>8

-----------------------------------------------------------------------------
(* The port has one user, and the semaphore keeps its promise.             *)

LEMMA InitKeeps == Init => IInv /\ Lock!Init
<1> SUFFICES ASSUME Init PROVE IInv /\ Lock!Init
  OBVIOUS
<1>1. \A t \in Tasks : /\ Away(IF t = "rtu" THEN "rest" ELSE "idle") \in Places
                       /\ Away(IF t = "rtu" THEN "rest" ELSE "idle").at \in {"rest", "idle"}
  BY AwayType DEF Labels
<1>2. StOK
  BY <1>1 DEF Init, StOK
<1>3. \A t \in Tasks : ~Holds(t)
  BY <1>1 DEF Init, Holds
<1>4. OSEventCnt = 1 /\ OSEventTbl = {}
  BY DEF Init, Port!OSSemCreate
<1> QED
  BY <1>2, <1>3, <1>4 DEF IInv, SemOK, OnePortUser, Lock!Init, Owner

\* Every step of the tasks, the interrupts and the exciter is a step of the
\* lock or leaves it alone.
LEMMA NextKeeps ==
  ASSUME IInv, [Next]_vars PROVE IInv' /\ [Lock!Next]_Lock!vars
<1>1. CASE \E t \in Tasks : Pend(t)
  BY <1>1, PendTakesKeeps, PendWaitsKeeps DEF Pend, Lock!Next
<1>2. CASE \E t \in Tasks : Post(t)
  BY <1>2, PostKeeps DEF Lock!Next
<1>3. CASE Owner' = Owner /\ OSEventTbl' = OSEventTbl /\ IInv'
  BY <1>3 DEF Lock!vars
<1>4. CASE \E t \in Tasks : Command(t) \/ Confirm(t)
  <2>1. UNCHANGED sem
    BY <1>4 DEF Command, Confirm
  <2> QED
    BY <1>3, <1>4, <2>1, CommandKeeps DEF sem
<1>5. CASE \E t \in Tasks : \/ PendReturns(t) \/ Send(t) \/ Accept(t)
                            \/ LookAgain(t) \/ GiveUp(t) \/ Wake(t)
  <2>1. UNCHANGED sem
    BY <1>5 DEF PendReturns, Send, Accept, LookAgain, GiveUp, Wake
  <2> QED
    BY <1>3, <1>5, <2>1, UseKeeps DEF sem
<1>6. CASE \E t \in Tasks : EndCommand(t)
  <2>1. UNCHANGED sem
    BY <1>6 DEF EndCommand
  <2> QED
    BY <1>3, <1>6, <2>1, EndCommandKeeps DEF sem
<1>7. CASE RtuStep
  <2>1. UNCHANGED sem
    BY <1>7 DEF RtuStep, PollDue, Mark, PauseOver
  <2> QED
    BY <1>3, <1>7, <2>1, PollDueKeeps, MarkKeeps, PauseOverKeeps DEF sem, RtuStep
<1>8. CASE FrameTimeOut \/ Exciter \/ UNCHANGED vars
  <2>1. UNCHANGED <<st, sem>>
    BY <1>8 DEF FrameTimeOut, Exciter, Ignore, StartReply, EndReply, Exchange, Die,
                TroubleEnds, vars
  <2> QED
    BY <1>3, <2>1, StillKeeps DEF sem
<1> QED
  BY <1>1, <1>2, <1>4, <1>5, <1>6, <1>7, <1>8 DEF Next, TaskStep

\* Whatever tasks share the port and however they interleave, one of them
\* at a time is between OSSemPend and OSSemPost.
THEOREM PortHasOneUser == Spec => []OnePortUser
<1>1. Init => IInv
  BY InitKeeps
<1>2. IInv /\ [Next]_vars => IInv'
  BY NextKeeps
<1>3. IInv => OnePortUser
  BY DEF IInv
<1> QED
  BY <1>1, <1>2, <1>3, PTL DEF Spec

\* The tasks, the semaphore and their use of it implement ExclusivePort:
\* the port goes to one owner at a time, and on to the most urgent waiter.
THEOREM PortRefines == Spec => PortIsExclusive
<1>1. Init => IInv /\ Lock!Init
  BY InitKeeps
<1>2. IInv /\ [Next]_vars => IInv' /\ [Lock!Next]_Lock!vars
  BY NextKeeps
<1> QED
  BY <1>1, <1>2, PTL DEF Spec, PortIsExclusive, Lock!Spec

-----------------------------------------------------------------------------
(* The flag fEitRTU.                                                       *)

\* Only the end of a command brings a task back to idle.
LEMMA BusyStaysBusy ==
  ASSUME IInv, Next, NEW u \in Users, st[u].at # "idle", st'[u].at = "idle"
  PROVE  \E t \in Tasks : EndCommand(t)
<1>1. u \in Tasks /\ u # "rtu" /\ st \in [Tasks -> Places]
  BY TasksFacts DEF Users, IInv, StOK
<1> DEFINE Change(t, r) == st' = [st EXCEPT ![t] = r] /\ r.at # "idle"
<1>2. ASSUME NEW t \in Tasks, NEW r, Change(t, r) PROVE FALSE
  BY <1>1, <1>2
<1>3. CASE \E t \in Tasks : Command(t) \/ Confirm(t)
  <2>1. \A f : Asking("set", f, 0).at # "idle"
    BY DEF Asking
  <2>2. CASE \E t \in Tasks, f \in Freqs : StartCommand(t, f)
    BY <2>1, <2>2, <1>2 DEF StartCommand
  <2>3. CASE UNCHANGED st
    BY <2>3
  <2> QED
    BY <1>3, <2>2, <2>3 DEF Command, Confirm
<1>4. CASE \E t \in Tasks : Pend(t) \/ PendReturns(t) \/ Wake(t)
  <2>1. PICK t \in Tasks, at \in {"send", "blocked", "wait"} : Go(t, at)
    BY <1>4 DEF Pend, PendReturns, Wake
  <2>2. Change(t, [st[t] EXCEPT !.at = at])
    BY <2>1, GoPlace DEF Go, Labels
  <2> QED
    BY <2>2, <1>2
<1>5. CASE \E t \in Tasks : Post(t)
  <2>1. PICK t \in Tasks : st' = [st EXCEPT ![t] = AfterPost(t)]
    BY <1>5 DEF Post
  <2>2. Change(t, AfterPost(t))
    BY <2>1, AfterPostPlace
  <2> QED
    BY <2>2, <1>2
<1>6. CASE \E t \in Tasks : Send(t) \/ Accept(t) \/ LookAgain(t) \/ GiveUp(t)
  <2>1. PICK t \in Tasks : Send(t) \/ Accept(t) \/ LookAgain(t) \/ GiveUp(t)
    BY <1>6
  <2>2. CASE u # t
    BY <1>1, <2>1, <2>2 DEF Send, Accept, LookAgain, GiveUp
  <2>3. CASE u = t
    <3>1. st[u] \in Places
      BY <1>1
    <3>2. Send(t) => st'[u].at = "wait"
      BY <1>1, <2>3, <3>1 DEF Send, Places
    <3>3. Accept(t) => st'[u].at = "post"
      BY <1>1, <2>3, <3>1 DEF Accept, Places
    <3>4. LookAgain(t) => st'[u].at = "sleep"
      BY <1>1, <2>3, <3>1 DEF LookAgain, Places
    <3>5. GiveUp(t) => st'[u].at = "post"
      BY <1>1, <2>3, <3>1 DEF GiveUp, Places
    <3> QED
      BY <2>1, <3>2, <3>3, <3>4, <3>5
  <2> QED
    BY <2>2, <2>3
<1>7. CASE RtuStep
  BY <1>1, <1>7 DEF RtuStep, PollDue, Mark, PauseOver
<1>8. CASE FrameTimeOut \/ Exciter
  BY <1>8 DEF FrameTimeOut, Exciter, Ignore, StartReply, EndReply, Exchange, Die, TroubleEnds
<1> QED
  BY <1>3, <1>4, <1>5, <1>6, <1>7, <1>8 DEF Next, TaskStep

\* The flag is set by a task that leaves idle, and only then.
LEMMA FlagIsSet ==
  ASSUME IInv, Next, fEitRTU', ~fEitRTU PROVE \E t \in Users : st'[t].at # "idle"
<1>1. PICK t \in Tasks, f \in Freqs : (Command(t) \/ Confirm(t)) /\ StartCommand(t, f)
  BY DEF Next, TaskStep, RtuStep, Command, Confirm, Pend, PendReturns, Send, Accept,
         LookAgain, GiveUp, Wake, Post, EndCommand, PollDue, Mark, PauseOver, FrameTimeOut,
         Exciter, Ignore, StartReply, EndReply, Exchange, Die, TroubleEnds
<1>2. t \in Users
  BY <1>1, ExciterAssumption DEF Command, Confirm, Users
<1>3. st'[t] = Asking("set", f, 0)
  BY <1>1 DEF StartCommand, IInv, StOK
<1> QED
  BY <1>2, <1>3 DEF Asking

\* The flag that keeps TaskRTU away is never left behind.
THEOREM FlagNotLeftBehind == Spec => []FlagHasUser
<1>1. Init => IInv /\ FlagHasUser
  BY InitKeeps DEF Init, FlagHasUser
<1>2. IInv /\ FlagHasUser /\ [Next]_vars => IInv' /\ FlagHasUser'
  <2> SUFFICES ASSUME IInv, FlagHasUser, [Next]_vars PROVE FlagHasUser'
    BY NextKeeps
  <2>1. CASE UNCHANGED vars
    BY <2>1 DEF FlagHasUser, vars
  <2>2. CASE Next /\ \E t \in Tasks : EndCommand(t)
    BY <2>2 DEF EndCommand, FlagHasUser
  <2>3. CASE Next /\ ~\E t \in Tasks : EndCommand(t)
    <3>1. CASE fEitRTU
      <4>1. PICK u \in Users : st[u].at # "idle"
        BY <3>1 DEF FlagHasUser
      <4>2. st'[u].at # "idle"
        BY <2>3, <4>1, BusyStaysBusy
      <4> QED
        BY <4>2 DEF FlagHasUser
    <3>2. CASE ~fEitRTU
      BY <2>3, <3>2, FlagIsSet DEF FlagHasUser
    <3> QED
      BY <3>1, <3>2
  <2> QED
    BY <2>1, <2>2, <2>3
<1> QED
  BY <1>1, <1>2, PTL DEF Spec

-----------------------------------------------------------------------------
(* The loss of the link.                                                   *)

\* The count of failed polls, cap or no cap, is the number of polls in a row
\* that heard nothing, as far as the link depends on it.
MissesOK ==
  /\ ExCnt \in Nat
  /\ misses = IF ExCnt < 2 THEN ExCnt ELSE 2
  /\ DOMAIN g_TMTLink = 0..1 /\ g_TMTLink[1] \in {0, 1}

LEMMA MarkCounts ==
  ASSUME MissesOK, Mark
  PROVE  /\ MissesOK'
         /\ g_TMTLink[1] = 1 /\ g_TMTLink'[1] = 0 => misses >= 1 /\ misses' = 2
<1>1. CASE st["rtu"].ok
  <2>1. ExCnt' = 0 /\ misses' = 0 /\ g_TMTLink' = [g_TMTLink EXCEPT ![1] = 1]
    BY <1>1 DEF Mark, MarkLink
  <2> QED
    BY <2>1 DEF MissesOK
<1>2. CASE ~st["rtu"].ok
  <2>1. /\ ExCnt' = IF ExCnt < ExCntCap THEN ExCnt + 1 ELSE ExCnt
        /\ misses' = IF misses < 2 THEN misses + 1 ELSE misses
        /\ g_TMTLink' = [g_TMTLink EXCEPT ![1] = IF ExCnt' >= 2 THEN 0 ELSE g_TMTLink[1]]
    BY <1>2 DEF Mark, MarkLink
  <2>2. ExCnt' \in Nat /\ misses' = IF ExCnt' < 2 THEN ExCnt' ELSE 2
    BY <2>1, ExciterAssumption DEF MissesOK
  <2>3. DOMAIN g_TMTLink' = 0..1 /\ g_TMTLink'[1] = IF ExCnt' >= 2 THEN 0 ELSE g_TMTLink[1]
    BY <2>1 DEF MissesOK
  <2>4. g_TMTLink[1] = 1 /\ g_TMTLink'[1] = 0 => misses >= 1 /\ misses' = 2
    BY <2>1, <2>2, <2>3 DEF MissesOK
  <2> QED
    BY <2>2, <2>3, <2>4 DEF MissesOK
<1> QED
  BY <1>1, <1>2

\* Every other step leaves the state of the link alone.
LEMMA OthersLeaveLink == ASSUME [Next]_vars, ~Mark PROVE UNCHANGED link
  BY DEF Next, TaskStep, RtuStep, Command, Confirm, Pend, PendReturns, Send, Accept,
         LookAgain, GiveUp, Wake, Post, EndCommand, PollDue, PauseOver, FrameTimeOut,
         Exciter, Ignore, StartReply, EndReply, Exchange, Die, TroubleEnds, vars

\* The link is not reported lost for a single poll that failed.
THEOREM LossIsNoAccident == Spec => LossNeedsTwoPolls
<1>1. Init => MissesOK
  BY DEF Init, MissesOK
<1>2. MissesOK /\ [Next]_vars
      => /\ MissesOK'
         /\ [g_TMTLink[1] = 1 /\ g_TMTLink'[1] = 0 => misses >= 1 /\ misses' = 2]_vars
  <2> SUFFICES ASSUME MissesOK, [Next]_vars
               PROVE  /\ MissesOK'
                      /\ g_TMTLink[1] = 1 /\ g_TMTLink'[1] = 0 => misses >= 1 /\ misses' = 2
    OBVIOUS
  <2>1. CASE Mark
    BY <2>1, MarkCounts
  <2>2. CASE ~Mark
    <3>1. UNCHANGED <<ExCnt, g_TMTLink, misses>>
      BY <2>2, OthersLeaveLink DEF link
    <3> QED
      BY <3>1 DEF MissesOK
  <2> QED
    BY <2>1, <2>2
<1> QED
  BY <1>1, <1>2, PTL DEF Spec, LossNeedsTwoPolls

-----------------------------------------------------------------------------
(* Types.  The buffer has room while it takes bytes, and a setting has a   *)
(* frequency.                                                              *)

Halves == [reply : Replies, half : {1, 2}]
Proper == {r \in Requests : r.kind = "set" => r.freq \in Freqs}
Exact == [at : Labels, tries : 0..Tries - 1, left : 0..Looks, req : Proper, ok : BOOLEAN]

TasksOK == st \in [Tasks -> Exact]
BufferOK ==
  /\ rx \in [got : Seq(Halves), fEnd : BOOLEAN, timing : BOOLEAN]
  /\ Len(rx.got) <= Room
  /\ ~rx.fEnd => Len(rx.got) < Room
AddressOK == fExcitCheck \in BOOLEAN /\ IPHead \in Heads /\ ExcitErrNum \in 0..2
LinkOK == ExCnt \in 0..ExCntCap /\ g_TMTLink \in [0..1 -> {0, 1}] /\ misses \in 0..2
OutsideOK ==
  /\ exciter \in [on : BOOLEAN, head : Heads, freq : Freqs]
  /\ asked \in Seq(Requests) /\ asked \in Seq(Proper) /\ Len(asked) <= Backlog
  /\ sending \in Seq(Replies) /\ Len(sending) <= 1
FlagsOK ==
  /\ fEitRTU \in BOOLEAN /\ FMFRQ \in Freqs \union {None}
  /\ trouble \in BOOLEAN /\ issued \in 0..MaxCommands

TInv ==
  /\ IInv /\ TasksOK /\ BufferOK /\ AddressOK /\ LinkOK /\ OutsideOK /\ FlagsOK

LEMMA ExactPlaces ==
  /\ \A at \in Labels : Away(at) \in Exact
  /\ \A k \in Kinds, f \in Freqs \union {None}, n \in 0..Tries - 1 :
       (k = "set" => f \in Freqs) => Asking(k, f, n) \in Exact
<1>1. 0 \in 0..Tries - 1 /\ 0 \in 0..Looks
  BY ExciterAssumption
<1>2. "pend" \in Labels /\ "id" \in Kinds
  BY DEF Labels, Kinds
<1> QED
  BY <1>1, <1>2 DEF Away, Asking, Exact, Request, Requests, Proper

LEMMA TasksStep == TInv /\ [Next]_vars => TasksOK'
<1> SUFFICES ASSUME TInv, [Next]_vars PROVE TasksOK'
  OBVIOUS
<1>0. st \in [Tasks -> Exact] /\ "rtu" \in Tasks
  BY TasksFacts DEF TInv, TasksOK
<1>1. ASSUME NEW t \in Tasks, NEW r \in Exact, st' = [st EXCEPT ![t] = r] PROVE TasksOK'
  BY <1>0, <1>1 DEF TasksOK
<1>2. ASSUME NEW n \in 0..Tries - 1 PROVE Polling(n) \in Exact
  BY <1>2, ExactPlaces DEF Polling, Kinds
<1>3. ASSUME NEW t \in Tasks, NEW at \in Labels, Go(t, at) PROVE TasksOK'
  <2>1. [st[t] EXCEPT !.at = at] \in Exact
    BY <1>0 DEF Exact
  <2> QED
    BY <1>0, <1>1, <1>3, <2>1 DEF Go
<1>4. ASSUME NEW t \in Tasks, Command(t) \/ Confirm(t) PROVE TasksOK'
  <2>1. CASE UNCHANGED st
    BY <1>0, <2>1 DEF TasksOK
  <2>2. CASE \E f \in Freqs : StartCommand(t, f)
    <3>1. 0 \in 0..Tries - 1
      BY ExciterAssumption
    <3>2. \A f \in Freqs : Asking("set", f, 0) \in Exact
      BY <3>1, ExactPlaces DEF Kinds
    <3> QED
      BY <1>1, <2>2, <3>2 DEF StartCommand
  <2> QED
    BY <1>4, <2>1, <2>2 DEF Command, Confirm
<1>5. ASSUME NEW t \in Tasks, Pend(t) \/ PendReturns(t) \/ Wake(t) \/ EndCommand(t) PROVE TasksOK'
  BY <1>3, <1>5 DEF Pend, PendReturns, Wake, EndCommand, Labels
<1>6. ASSUME NEW t \in Tasks, Send(t) PROVE TasksOK'
  <2> DEFINE n == IF st[t].req.kind = "status" THEN 1 ELSE Looks
  <2>0. n \in 0..Looks
    BY ExciterAssumption
  <2>1. st' = [st EXCEPT ![t] = [st[t] EXCEPT !.at = "wait", !.left = n]]
    BY <1>6 DEF Send
  <2> HIDE DEF n
  <2>2. [st[t] EXCEPT !.at = "wait", !.left = n] \in Exact
    BY <1>0, <2>0 DEF Exact, Labels
  <2> QED
    BY <1>1, <2>1, <2>2
<1>7. ASSUME NEW t \in Tasks, Accept(t) \/ GiveUp(t) PROVE TasksOK'
  <2>1. CASE Accept(t)
    <3>1. PICK ok \in BOOLEAN :
            st' = [st EXCEPT ![t] = [@ EXCEPT !.at = "post", !.left = 0, !.ok = ok]]
      BY <2>1 DEF Accept
    <3>2. 0 \in 0..Looks
      BY ExciterAssumption
    <3>3. [st[t] EXCEPT !.at = "post", !.left = 0, !.ok = ok] \in Exact
      BY <1>0, <3>2 DEF Exact, Labels
    <3> QED
      BY <1>1, <3>1, <3>3
  <2>2. CASE GiveUp(t)
    <3>1. [st[t] EXCEPT !.at = "post", !.ok = FALSE] \in Exact
      BY <1>0 DEF Exact, Labels
    <3> QED
      BY <1>1, <2>2, <3>1 DEF GiveUp
  <2> QED
    BY <1>7, <2>1, <2>2
<1>8. ASSUME NEW t \in Tasks, LookAgain(t) PROVE TasksOK'
  <2>1. st[t].left - 1 \in 0..Looks
    BY <1>0, <1>8, ExciterAssumption DEF LookAgain, Exact
  <2>2. [st[t] EXCEPT !.at = "sleep", !.left = st[t].left - 1] \in Exact
    BY <1>0, <2>1 DEF Exact, Labels
  <2> QED
    BY <1>1, <1>8, <2>2 DEF LookAgain
<1>9. ASSUME NEW t \in Tasks, Post(t) PROVE TasksOK'
  <2>1. Away("clear") \in Exact /\ Away("rest") \in Exact
    BY ExactPlaces DEF Labels
  <2>2. [st[t] EXCEPT !.at = "mark"] \in Exact
    BY <1>0 DEF Exact, Labels
  <2>3. st[t].tries # 0 => st[t].tries - 1 \in 0..Tries - 1
    <3>1. st[t].tries \in 0..Tries - 1 /\ Tries \in Nat
      BY <1>0, ExciterAssumption DEF Exact
    <3> QED
      BY <3>1
  <2>4. AfterPost(t) \in Exact
    BY <1>2, <2>1, <2>2, <2>3 DEF AfterPost
  <2> QED
    BY <1>1, <1>9, <2>4 DEF Post
<1>10. CASE RtuStep
  <2>1. Tries - 1 \in 0..Tries - 1 /\ 0 \in 0..Tries - 1
    BY ExciterAssumption
  <2>2. /\ Polling(Tries - 1) \in Exact /\ Away("pause") \in Exact
        /\ Asking("status", None, 0) \in Exact
    BY <1>2, <2>1, ExactPlaces DEF Labels, Kinds
  <2> QED
    BY <1>0, <1>1, <1>10, <2>2 DEF RtuStep, PollDue, Mark, PauseOver
<1>11. CASE UNCHANGED st
  BY <1>0, <1>11 DEF TasksOK
<1> QED
  BY <1>4, <1>5, <1>6, <1>7, <1>8, <1>9, <1>10, <1>11
  DEF Next, TaskStep, FrameTimeOut, Exciter, Ignore, StartReply, EndReply, Exchange, Die,
      TroubleEnds, vars

LEMMA ReceivedOK ==
  ASSUME BufferOK, NEW r \in Replies, NEW half \in {1, 2}, Received(r, half) PROVE BufferOK'
<1>1. CASE rx.fEnd
  BY <1>1 DEF Received, BufferOK
<1>2. CASE ~rx.fEnd
  <2> DEFINE got == Append(rx.got, [reply |-> r, half |-> half])
  <2>1. rx' = [got |-> got, fEnd |-> Len(got) >= Room, timing |-> TRUE]
    BY <1>2 DEF Received
  <2>2. [reply |-> r, half |-> half] \in Halves /\ rx.got \in Seq(Halves)
    BY DEF Halves, BufferOK
  <2>3. got \in Seq(Halves) /\ Len(got) = Len(rx.got) + 1
    BY <2>2
  <2>4. Len(rx.got) \in Nat /\ Len(rx.got) < Room /\ Room \in Nat
    BY <1>2, <2>2, ExciterAssumption DEF BufferOK
  <2> HIDE DEF got
  <2>5. rx'.got = got /\ rx'.fEnd = (Len(got) >= Room)
    BY <2>1
  <2>6. rx' \in [got : Seq(Halves), fEnd : BOOLEAN, timing : BOOLEAN]
    BY <2>1, <2>3
  <2> QED
    BY <2>3, <2>4, <2>5, <2>6 DEF BufferOK
<1> QED
  BY <1>1, <1>2

LEMMA BufferStep == TInv /\ [Next]_vars => BufferOK'
<1> SUFFICES ASSUME TInv, [Next]_vars PROVE BufferOK'
  OBVIOUS
<1>0. BufferOK /\ OutsideOK
  BY DEF TInv
<1>1. ASSUME NEW t \in Tasks, ResetBuffer(t) PROVE BufferOK'
  <2>0. rx \in [got : Seq(Halves), fEnd : BOOLEAN, timing : BOOLEAN]
    BY <1>0 DEF BufferOK
  <2>1. rx' = [got |-> <<>>, fEnd |-> FALSE, timing |-> rx.timing]
    BY <1>1, <2>0 DEF ResetBuffer
  <2>2. rx'.got = <<>> /\ rx'.fEnd = FALSE /\ rx.timing \in BOOLEAN
    BY <2>0, <2>1
  <2>3. <<>> \in Seq(Halves) /\ Len(rx'.got) = 0 /\ 0 < Room
    BY <2>2, ExciterAssumption
  <2>4. rx' \in [got : Seq(Halves), fEnd : BOOLEAN, timing : BOOLEAN]
    BY <2>1, <2>2, <2>3
  <2> QED
    BY <2>2, <2>3, <2>4, ExciterAssumption DEF BufferOK
<1>2. CASE FrameTimeOut
  BY <1>0, <1>2 DEF FrameTimeOut, BufferOK
<1>3. CASE StartReply
  <2> DEFINE req == Head(asked)
             freq == IF req.kind = "set" THEN req.freq ELSE exciter.freq
             r == [kind |-> req.kind, head |-> exciter.head,
                   freq |-> IF req.kind = "data" THEN freq ELSE None]
  <2>1. req \in Requests
    BY <1>0, <1>3 DEF StartReply, OutsideOK
  <2>2. exciter.head \in Heads /\ exciter.freq \in Freqs
    BY <1>0 DEF OutsideOK
  <2>3. r \in Replies
    BY <2>1, <2>2 DEF Requests, Replies
  <2>4. Received(r, 1)
    BY <1>3 DEF StartReply
  <2> HIDE DEF r
  <2> QED
    BY <1>0, <2>3, <2>4, ReceivedOK
<1>4. CASE EndReply
  <2>1. sending[1] \in Replies
    BY <1>0, <1>4 DEF EndReply, OutsideOK
  <2> QED
    BY <1>0, <1>4, <2>1, ReceivedOK DEF EndReply
<1>5. CASE UNCHANGED rx
  BY <1>0, <1>5 DEF BufferOK
<1> QED
  BY <1>1, <1>2, <1>3, <1>4, <1>5
  DEF Next, TaskStep, RtuStep, Command, Confirm, Pend, PendReturns, Send, Accept, LookAgain,
      GiveUp, Wake, Post, EndCommand, PollDue, Mark, PauseOver, Exciter, Ignore, Exchange, Die,
      TroubleEnds, vars

LEMMA AddressStep == TInv /\ [Next]_vars => AddressOK' /\ FMFRQ' \in Freqs \union {None}
<1> SUFFICES ASSUME TInv, [Next]_vars PROVE AddressOK' /\ FMFRQ' \in Freqs \union {None}
  OBVIOUS
<1>0. AddressOK /\ BufferOK /\ FMFRQ \in Freqs \union {None}
  BY DEF TInv, FlagsOK
<1>1. CASE UNCHANGED <<address, FMFRQ>>
  BY <1>0, <1>1 DEF address, AddressOK
<1>2. ASSUME NEW ok \in BOOLEAN, Process(ok) PROVE AddressOK' /\ FMFRQ' \in Freqs \union {None}
  <2>1. CASE Intact
    <3>1. rx.got[1] \in Halves
      BY <1>0, <2>1 DEF Intact, BufferOK
    <3>2. Heard.head \in Heads /\ Heard.freq \in Freqs \union {None}
      BY <3>1 DEF Heard, Halves, Replies
    <3> QED
      BY <1>0, <1>2, <2>1, <3>2 DEF Process, address, AddressOK
  <2>2. CASE ~Intact
    BY <1>1, <1>2, <2>2 DEF Process
  <2> QED
    BY <2>1, <2>2
<1>3. CASE Mark
  BY <1>0, <1>3 DEF Mark, address, AddressOK
<1>4. CASE \E t \in Tasks : Command(t)
  BY <1>0, <1>4 DEF Command, address, AddressOK
<1>5. CASE \E t \in Tasks : Accept(t)
  <2>1. PICK t \in Tasks : Accept(t)
    BY <1>5
  <2>2. UNCHANGED <<address, FMFRQ>> \/ \E ok \in BOOLEAN : Process(ok)
    BY <2>1 DEF Accept
  <2> QED
    BY <1>1, <1>2, <2>2
<1> QED
  BY <1>1, <1>3, <1>4, <1>5
  DEF Next, TaskStep, RtuStep, Confirm, Pend, PendReturns, Send, LookAgain, GiveUp, Wake, Post,
      EndCommand, PollDue, PauseOver, FrameTimeOut, Exciter, Ignore, StartReply, EndReply,
      Exchange, Die, TroubleEnds, vars

LEMMA LinkStep == TInv /\ [Next]_vars => LinkOK'
<1> SUFFICES ASSUME TInv, [Next]_vars PROVE LinkOK'
  OBVIOUS
<1>0. LinkOK
  BY DEF TInv
<1>1. CASE Mark
  <2>1. ExCnt' \in 0..ExCntCap /\ misses' \in 0..2
    BY <1>0, <1>1, ExciterAssumption DEF Mark, MarkLink, LinkOK
  <2>2. \E n \in {0, 1} : g_TMTLink' = [g_TMTLink EXCEPT ![1] = n]
    <3>1. g_TMTLink[1] \in {0, 1}
      BY <1>0 DEF LinkOK
    <3> QED
      BY <1>1, <3>1 DEF Mark, MarkLink
  <2>3. g_TMTLink' \in [0..1 -> {0, 1}]
    BY <1>0, <2>2 DEF LinkOK
  <2> QED
    BY <2>1, <2>3 DEF LinkOK
<1>2. CASE ~Mark
  BY <1>0, <1>2, OthersLeaveLink DEF link, LinkOK
<1> QED
  BY <1>1, <1>2

LEMMA OutsideStep == TInv /\ [Next]_vars => OutsideOK'
<1> SUFFICES ASSUME TInv, [Next]_vars PROVE OutsideOK'
  OBVIOUS
<1>0. OutsideOK /\ TasksOK
  BY DEF TInv
<1>1. CASE UNCHANGED outside
  BY <1>0, <1>1 DEF outside, OutsideOK
<1>2. ASSUME NEW t \in Tasks, Send(t) PROVE OutsideOK'
  <2>1. st[t].req \in Proper /\ st[t].req \in Requests
    BY <1>0 DEF TasksOK, Exact, Proper
  <2>2. asked' \in Seq(Requests) /\ asked' \in Seq(Proper) /\ Len(asked') <= Backlog
    <3>1. CASE Len(asked) < Backlog
      <4>1. asked' = Append(asked, st[t].req) /\ asked \in Seq(Requests) /\ asked \in Seq(Proper)
            /\ Len(asked) \in Nat
        BY <1>0, <1>2, <3>1 DEF Send, OutsideOK
      <4>2. asked' \in Seq(Requests) /\ asked' \in Seq(Proper) /\ Len(asked') = Len(asked) + 1
        BY <2>1, <4>1
      <4> QED
        BY <3>1, <4>1, <4>2, ExciterAssumption
    <3>2. CASE ~(Len(asked) < Backlog)
      BY <1>0, <1>2, <3>2 DEF Send, OutsideOK
    <3> QED
      BY <3>1, <3>2
  <2> QED
    BY <1>0, <1>2, <2>2 DEF Send, OutsideOK
<1>3. asked # <<>> => /\ Head(asked) \in Proper
                      /\ Tail(asked) \in Seq(Requests) /\ Tail(asked) \in Seq(Proper)
                      /\ Len(Tail(asked)) <= Backlog
  <2>1. asked \in Seq(Requests) /\ asked \in Seq(Proper) /\ Len(asked) <= Backlog /\ Backlog \in Nat
    BY <1>0, ExciterAssumption DEF OutsideOK
  <2>2. asked # <<>> => /\ Head(asked) \in Proper
                        /\ Tail(asked) \in Seq(Requests) /\ Tail(asked) \in Seq(Proper)
                        /\ Len(asked) \in Nat /\ Len(Tail(asked)) = Len(asked) - 1
    BY <2>1
  <2> QED
    BY <2>1, <2>2
<1>4. CASE Ignore
  BY <1>0, <1>3, <1>4 DEF Ignore, OutsideOK
<1>5. CASE StartReply
  <2> DEFINE req == Head(asked)
             freq == IF req.kind = "set" THEN req.freq ELSE exciter.freq
             r == [kind |-> req.kind, head |-> exciter.head,
                   freq |-> IF req.kind = "data" THEN freq ELSE None]
  <2>1. /\ req \in Requests /\ (req.kind = "set" => req.freq \in Freqs)
        /\ exciter.head \in Heads /\ exciter.freq \in Freqs
    BY <1>0, <1>3, <1>5 DEF StartReply, OutsideOK, Proper
  <2>2. r \in Replies
    BY <2>1 DEF Requests, Replies
  <2>3. sending' = <<r>> /\ exciter' = [exciter EXCEPT !.freq = freq] /\ asked' = Tail(asked)
        /\ asked # <<>>
    BY <1>5 DEF StartReply
  <2>4. freq \in Freqs
    BY <2>1 DEF Requests
  <2> HIDE DEF r, freq
  <2>5. sending' \in Seq(Replies) /\ Len(sending') <= 1
    BY <2>2, <2>3
  <2>6. exciter' \in [on : BOOLEAN, head : Heads, freq : Freqs]
    BY <1>0, <2>3, <2>4 DEF OutsideOK
  <2> QED
    BY <1>3, <2>3, <2>5, <2>6 DEF OutsideOK
<1>6. CASE EndReply
  <2>1. <<>> \in Seq(Replies) /\ Len(<<>>) <= 1
    OBVIOUS
  <2> QED
    BY <1>0, <1>6, <2>1 DEF EndReply, OutsideOK
<1>7. CASE Exchange \/ Die
  BY <1>0, <1>7 DEF Exchange, Die, OutsideOK
<1> QED
  BY <1>1, <1>2, <1>4, <1>5, <1>6, <1>7
  DEF Next, TaskStep, RtuStep, Command, Confirm, Pend, PendReturns, Accept, LookAgain, GiveUp,
      Wake, Post, EndCommand, PollDue, Mark, PauseOver, FrameTimeOut, Exciter, TroubleEnds, vars

LEMMA FlagsStep == TInv /\ [Next]_vars => FlagsOK'
<1> SUFFICES ASSUME TInv, [Next]_vars PROVE FlagsOK'
  OBVIOUS
<1>0. FlagsOK
  BY DEF TInv
<1>1. FMFRQ' \in Freqs \union {None}
  BY AddressStep
<1>2. issued' \in 0..MaxCommands
  <2>1. CASE issued' = issued + 1 /\ issued < MaxCommands
    BY <1>0, <2>1, ExciterAssumption DEF FlagsOK
  <2>2. CASE issued' \in {issued, MaxCommands}
    BY <1>0, <2>2, ExciterAssumption DEF FlagsOK
  <2> QED
    BY <2>1, <2>2
    DEF Next, TaskStep, RtuStep, Command, Confirm, Pend, PendReturns, Send, Accept, LookAgain,
        GiveUp, Wake, Post, EndCommand, PollDue, Mark, PauseOver, FrameTimeOut, Exciter, Ignore,
        StartReply, EndReply, Exchange, Die, TroubleEnds, vars
<1>3. fEitRTU' \in {fEitRTU, TRUE, FALSE} /\ trouble' \in {trouble, FALSE}
  BY DEF Next, TaskStep, RtuStep, Command, Confirm, StartCommand, Pend, PendReturns, Send, Accept,
         LookAgain, GiveUp, Wake, Post, EndCommand, PollDue, Mark, PauseOver, FrameTimeOut,
         Exciter, Ignore, StartReply, EndReply, Exchange, Die, TroubleEnds, vars
<1> QED
  BY <1>0, <1>1, <1>2, <1>3 DEF FlagsOK

LEMMA TInvIsTyped == TInv => TypeOK
<1> SUFFICES ASSUME TInv PROVE TypeOK
  OBVIOUS
<1>1. st \in [Tasks -> [at : Labels, tries : 0..Tries - 1, left : 0..Looks, req : Requests,
                        ok : BOOLEAN]]
  <2>1. Exact \subseteq [at : Labels, tries : 0..Tries - 1, left : 0..Looks, req : Requests,
                         ok : BOOLEAN]
    BY DEF Exact, Proper
  <2> QED
    BY <2>1 DEF TInv, TasksOK
<1>2. OSEventCnt \in Nat /\ OSEventTbl \subseteq Tasks
  BY DEF TInv, IInv, SemOK
<1> QED
  BY <1>1, <1>2 DEF TInv, BufferOK, Halves, AddressOK, LinkOK, OutsideOK, FlagsOK, TypeOK

\* The invariant of the types.
LEMMA AlwaysTInv == Spec => []TInv
<1>1. Init => TInv
  <2> SUFFICES ASSUME Init PROVE TInv
    OBVIOUS
  <2>1. IInv
    BY InitKeeps
  <2>2. TasksOK
    BY ExactPlaces DEF Init, TasksOK, Labels
  <2>3. BufferOK
    <3>1. <<>> \in Seq(Halves) /\ Len(<<>>) = 0 /\ 0 < Room
      BY ExciterAssumption
    <3>2. rx.got = <<>> /\ rx \in [got : Seq(Halves), fEnd : BOOLEAN, timing : BOOLEAN]
      BY <3>1 DEF Init
    <3>3. Len(rx.got) = 0
      BY <3>2
    <3> QED
      BY <3>1, <3>2, <3>3, ExciterAssumption DEF BufferOK
  <2>4. AddressOK /\ LinkOK /\ FlagsOK
    <3>1. /\ fExcitCheck = FALSE /\ IPHead \in Heads /\ ExcitErrNum = 0
          /\ fEitRTU = FALSE /\ FMFRQ = None /\ trouble = TRUE /\ issued = 0
      BY DEF Init
    <3>2. ExCnt \in 0..ExCntCap /\ misses \in 0..2
      BY ExciterAssumption DEF Init
    <3>3. g_TMTLink \in [0..1 -> {0, 1}]
      BY DEF Init
    <3>4. 0 \in 0..2 /\ 0 \in 0..MaxCommands
      BY ExciterAssumption
    <3>5. AddressOK
      BY <3>1, <3>4 DEF AddressOK
    <3>6. FlagsOK
      BY <3>1, <3>4 DEF FlagsOK
    <3> QED
      BY <3>2, <3>3, <3>5, <3>6 DEF LinkOK
  <2>5. OutsideOK
    BY ExciterAssumption DEF Init, OutsideOK
  <2> QED
    BY <2>1, <2>2, <2>3, <2>4, <2>5 DEF TInv
<1>2. TInv /\ [Next]_vars => TInv'
  BY NextKeeps, TasksStep, BufferStep, AddressStep, LinkStep, OutsideStep, FlagsStep DEF TInv
<1> QED
  BY <1>1, <1>2, PTL DEF Spec

\* Every variable keeps its type, for any tasks and any bounds: the buffer is
\* not overrun, whatever cuts or joins the frames, and no count leaves its
\* range.
THEOREM BusTypes == Spec => []TypeOK
  BY AlwaysTInv, TInvIsTyped, PTL

-----------------------------------------------------------------------------
(* The port is given up.                                                   *)

\* The steps the owner of the port can still take with it, at most.
Remaining(t) ==
  CASE st[t].at = "blocked" -> 2 * Looks + 4
    [] st[t].at = "send" -> 2 * Looks + 3
    [] st[t].at = "sleep" -> 2 * st[t].left + 3
    [] st[t].at = "wait" -> 2 * st[t].left + 2
    [] OTHER -> 1

\* Nobody keeps the port (Excit_RS232_Send between OSSemPend and OSSemPost,
\* RS485.c:2594): each step of its owner either gives it up or leaves fewer
\* steps to take, and no step of another task or of the exciter gives the
\* owner more to do.  No late, cut or missing reply makes a request endless.
PortIsGivenUp ==
  [][\A t \in Tasks : Holds(t) /\ Holds(t)' =>
       st'[t] = st[t] \/ Remaining(t)' < Remaining(t)]_vars

\* A task that does not have the port when its step is over.
LEMMA LeavesPort ==
  ASSUME NEW t \in Tasks, st'[t].at \in Labels \ (HoldLabels \union {"blocked"})
  PROVE  ~Holds(t)'
  BY DEF Holds, HoldLabels

\* Each step of a task that has the port and keeps it.
LEMMA OwnerProceeds ==
  ASSUME TInv, NEW t \in Tasks, TaskStep(t), Holds(t), Holds(t)'
  PROVE  Remaining(t)' < Remaining(t)
<1>0. /\ st \in [Tasks -> Exact] /\ st[t] \in Exact /\ st[t].left \in 0..Looks
      /\ Looks \in Nat \ {0, 1}
  BY ExciterAssumption DEF TInv, TasksOK, Exact
<1>1. CASE Pend(t)
  BY <1>1 DEF Pend, Runs, Holds
<1>2. CASE PendReturns(t)
  <2>1. st[t].at = "blocked" /\ st'[t].at = "send"
    BY <1>0, <1>2 DEF PendReturns, Runs, Go, Exact
  <2> QED
    BY <1>0, <2>1 DEF Remaining
<1>3. CASE Send(t)
  <2>1. st[t].at = "send" /\ st'[t].at = "wait" /\ st'[t].left \in {1, Looks}
    BY <1>0, <1>3 DEF Send, Runs, Exact
  <2> QED
    BY <1>0, <2>1 DEF Remaining
<1>4. CASE Accept(t)
  <2>1. st[t].at = "wait" /\ st'[t].at = "post"
    BY <1>0, <1>4 DEF Accept, Runs, Exact
  <2> QED
    BY <1>0, <2>1 DEF Remaining
<1>5. CASE LookAgain(t)
  <2>1. /\ st[t].at = "wait" /\ st[t].left > 0
        /\ st'[t].at = "sleep" /\ st'[t].left = st[t].left - 1
    BY <1>0, <1>5 DEF LookAgain, Runs, Exact
  <2> QED
    BY <1>0, <2>1 DEF Remaining
<1>6. CASE GiveUp(t)
  <2>1. st[t].at = "wait" /\ st'[t].at = "post"
    BY <1>0, <1>6 DEF GiveUp, Runs, Exact
  <2> QED
    BY <1>0, <2>1 DEF Remaining
<1>7. CASE Wake(t)
  <2>1. st[t].at = "sleep" /\ st'[t].at = "wait" /\ st'[t].left = st[t].left
    BY <1>0, <1>7 DEF Wake, Runs, Go, Exact
  <2> QED
    BY <1>0, <2>1 DEF Remaining
<1>8. CASE Post(t)
  <2>1. st'[t] = AfterPost(t)
    BY <1>0, <1>8 DEF Post
  <2>2. st'[t].at \in {"clear", "rest", "mark", "pend"}
    BY <1>0, <2>1 DEF AfterPost, Away, Polling, Asking, Exact
  <2> QED
    BY <2>2, LeavesPort DEF Labels, HoldLabels
<1>9. CASE EndCommand(t)
  BY <1>9 DEF EndCommand, Runs, Holds
<1> QED
  BY <1>1, <1>2, <1>3, <1>4, <1>5, <1>6, <1>7, <1>8, <1>9 DEF TaskStep

\* Whoever has the port is in TaskStep; every other step leaves it alone.
LEMMA OthersLeaveOwner ==
  ASSUME TInv, [Next]_vars, NEW t \in Tasks, Holds(t), ~TaskStep(t)
  PROVE  st'[t] = st[t]
<1>0. st \in [Tasks -> Exact] /\ "rtu" \in Tasks
  BY TasksFacts DEF TInv, TasksOK
<1>1. st[t].at \in HoldLabels \union {"blocked"}
  BY DEF Holds, HoldLabels
<1>2. ASSUME NEW u \in Tasks, u # t, Command(u) \/ Confirm(u) \/ TaskStep(u)
      PROVE  st'[t] = st[t]
  BY <1>0, <1>2
  DEF Command, Confirm, StartCommand, TaskStep, Pend, PendReturns, Send, Accept, LookAgain,
      GiveUp, Wake, Post, EndCommand, Go
<1>3. ~Command(t) /\ ~Confirm(t)
  BY <1>1 DEF Command, Confirm, Runs, HoldLabels
<1>4. CASE RtuStep
  BY <1>0, <1>1, <1>4 DEF RtuStep, PollDue, Mark, PauseOver, Runs, HoldLabels
<1>5. CASE UNCHANGED st
  BY <1>5
<1> QED
  BY <1>2, <1>3, <1>4, <1>5
  DEF Next, FrameTimeOut, Exciter, Ignore, StartReply, EndReply, Exchange, Die, TroubleEnds, vars

\* For any time-out, any tasks and any faults the owner of the exciter's port
\* takes at most 2 * TIMEOUT + 4 steps with it.
THEOREM PortNotKept == Spec => PortIsGivenUp
<1>1. ASSUME TInv, [Next]_vars, NEW t \in Tasks, Holds(t), Holds(t)'
      PROVE  st'[t] = st[t] \/ Remaining(t)' < Remaining(t)
  BY <1>1, OwnerProceeds, OthersLeaveOwner
<1>2. TInv /\ [Next]_vars =>
        [\A t \in Tasks : Holds(t) /\ Holds(t)' =>
           st'[t] = st[t] \/ Remaining(t)' < Remaining(t)]_vars
  BY <1>1
<1> QED
  BY <1>2, AlwaysTInv, PTL DEF Spec, PortIsGivenUp
=============================================================================
