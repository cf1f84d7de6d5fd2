----------------------------- MODULE ExciterBus -----------------------------
(***************************************************************************)
(* The exciter's serial port and the tasks that share it: TaskRTU polls    *)
(* the exciter and sends it the amplifier's status (TaskRTU.c), the        *)
(* protocol masters and the panel set it (CMD_SetProcess in RS485.c,       *)
(* lcd_menu.c).  They take turns with the semaphore JLQRS232SEM (OsSem);   *)
(* the reception of UART3 (USART3_IRQHandler, SysTick_Handler) fills one   *)
(* buffer for all of them, and a reply carries nothing that tells whose    *)
(* request it answers.                                                     *)
(*                                                                         *)
(* Tasks preempt each other by priority and give way where they sleep.  A  *)
(* reply is received as two halves, so that a reset of the buffer may cut  *)
(* it.  While "trouble" lasts the exciter may be slow, silent or exchanged *)
(* for another; once it is over each request is answered before the task   *)
(* that sent it looks again, 30 ms later.                                  *)
(***************************************************************************)
EXTENDS Naturals, Sequences

CONSTANTS
  Masters,      \* tasks that execute commands: "udp", "pc"
  Panels,       \* tasks that set the exciter for a local user: "oled"
  Freqs,        \* frequencies (as a sample of the settings)
  FirstFreq,    \* the one the exciter has when it is switched on
  Tries,        \* requests of a poll (trynum, 3)
  Heads,        \* addresses exciters may have; the first one's is 1
  Looks,        \* looks at the buffer before a request times out (TIMEOUT)
  ExCntCap,     \* cap of the count of failed polls (200)
  Room,         \* half replies the buffer holds (MAX_UART_BUF_LEN)
  Backlog,      \* requests the exciter keeps
  MaxCommands,  \* commands given in a behaviour
  Faults,       \* "lose", "exchange", "die"
  Apart         \* an exchange and commands are not in one behaviour

Tasks == Masters \union Panels \union {"rtu"}
Priority == [t \in Tasks |-> CASE t = "udp" -> 10 [] t = "rtu" -> 11 [] t = "pc" -> 12 [] t = "oled" -> 13]
Users == Tasks \ {"rtu"}

ASSUME ExciterAssumption ==
  /\ Masters \subseteq {"udp", "pc"} /\ Panels \subseteq {"oled"}
  /\ Heads \subseteq Nat /\ 1 \in Heads /\ FirstFreq \in Freqs /\ Tries \in Nat \ {0}
  /\ Looks \in Nat \ {0, 1} /\ ExCntCap \in Nat /\ ExCntCap >= 2
  /\ Room \in Nat \ {0, 1} /\ Backlog \in Nat \ {0} /\ MaxCommands \in Nat
  /\ Faults \subseteq {"lose", "exchange", "die"} /\ Apart \in BOOLEAN

VARIABLES
  st,           \* where each task is in its work
  OSEventCnt, OSEventTbl,  \* the semaphore JLQRS232SEM
  fEitRTU,      \* keeps the poll away while somebody sets the exciter
  rx,           \* UART3_RBuf: got (Buff, Len), fEnd, timing (TimeOut > 0)
  fExcitCheck, IPHead, ExcitErrNum,   \* the exciter's address and the checks of it
  ExCnt, g_TMTLink,        \* failed polls; [0] amplifier, [1] exciter
  FMFRQ,        \* g_DI.Excitdata.FMFRQ, the frequency displays and masters see
  exciter,      \* its state: on, head, freq
  asked,        \* requests the exciter has not answered yet
  sending,      \* the reply the exciter is in the middle of
  trouble,
  issued,       \* commands given so far
  misses        \* polls in a row that heard nothing of use

sem == <<OSEventCnt, OSEventTbl>>
address == <<fExcitCheck, IPHead, ExcitErrNum>>
link == <<ExCnt, g_TMTLink, misses>>
outside == <<exciter, asked, sending>>
vars == <<st, sem, fEitRTU, rx, address, link, FMFRQ, outside, trouble, issued>>

Port == INSTANCE OsSem

Kinds == {"id", "data", "set", "status"}
None == "none"
Request(kind, freq) == [kind |-> kind, freq |-> freq]
Requests == [kind : Kinds, freq : Freqs \union {None}]
Replies == [kind : Kinds, head : Heads, freq : Freqs \union {None}]

Labels == {"idle", "rest", "pend", "blocked", "send", "wait", "sleep", "post", "mark", "pause", "clear"}

-----------------------------------------------------------------------------
(* The reception.                                                          *)

\* USART3_IRQHandler: a byte is stored unless a frame waits to be processed.
Received(r, half) ==
  rx' = IF rx.fEnd THEN rx
        ELSE LET got == Append(rx.got, [reply |-> r, half |-> half])
             IN [got |-> got, fEnd |-> Len(got) >= Room, timing |-> TRUE]

\* SysTick_Handler: no byte for some ticks ends the frame.  The time-out is
\* not stopped by a task that resets the buffer.
FrameTimeOut ==
  /\ rx.timing /\ sending = <<>>
  /\ rx' = [rx EXCEPT !.timing = FALSE, !.fEnd = TRUE]
  /\ UNCHANGED <<st, sem, fEitRTU, address, link, FMFRQ, outside, trouble, issued>>

\* Mistake: PADevPoll leaves what it has received in the buffer.
ResetForRequests(t) ==
  rx' = IF st[t].req.kind = "status" THEN rx ELSE [rx EXCEPT !.got = <<>>, !.fEnd = FALSE]

\* Len = 0, fEnd = FALSE at the end of every exchange with the exciter.
ResetBuffer(t) == rx' = [rx EXCEPT !.got = <<>>, !.fEnd = FALSE]

\* EXCIT_Wait_RxEnd: at least 9 bytes and fEnd.  Half an acknowledgement is
\* shorter than that.
Long(got) == got # <<>> /\ ~(Len(got) = 1 /\ got[1].reply.kind = "set")
RxEnd == Long(rx.got) /\ rx.fEnd

\* The frame in the buffer passes the CRC: one reply, whole.
Intact ==
  /\ Len(rx.got) = 2
  /\ rx.got[1].half = 1 /\ rx.got[2].half = 2
  /\ rx.got[1].reply = rx.got[2].reply

-----------------------------------------------------------------------------
(* The exciter and the line (not part of the program).                     *)

\* It answers every kind of request but the status report.
Silent(req) == req.kind = "status"

Ignore ==
  /\ asked # <<>> /\ sending = <<>>
  /\ \/ Silent(Head(asked)) \/ ~exciter.on \/ (trouble /\ "lose" \in Faults)
  /\ asked' = Tail(asked)
  /\ UNCHANGED <<st, sem, fEitRTU, rx, address, link, FMFRQ, exciter, sending, trouble, issued>>

StartReply ==
  /\ asked # <<>> /\ sending = <<>> /\ exciter.on /\ ~Silent(Head(asked))
  /\ LET req == Head(asked)
         freq == IF req.kind = "set" THEN req.freq ELSE exciter.freq
         r == [kind |-> req.kind, head |-> exciter.head,
               freq |-> IF req.kind = "data" THEN freq ELSE None]
     IN exciter' = [exciter EXCEPT !.freq = freq] /\ sending' = <<r>> /\ Received(r, 1)
  /\ asked' = Tail(asked)
  /\ UNCHANGED <<st, sem, fEitRTU, address, link, FMFRQ, trouble, issued>>

EndReply ==
  /\ sending # <<>>
  /\ Received(sending[1], 2) /\ sending' = <<>>
  /\ UNCHANGED <<st, sem, fEitRTU, address, link, FMFRQ, exciter, asked, trouble, issued>>

\* Another exciter takes its place (heads come in order: a bound),
Exchange ==
  /\ trouble /\ "exchange" \in Faults /\ asked = <<>> /\ sending = <<>>
  /\ Apart => issued = 0
  /\ \E h \in Heads : h > exciter.head /\ exciter' = [exciter EXCEPT !.head = h]
  /\ issued' = IF Apart THEN MaxCommands ELSE issued
  /\ UNCHANGED <<st, sem, fEitRTU, rx, address, link, FMFRQ, asked, sending, trouble>>

\* or it goes silent for good.
Die ==
  /\ trouble /\ "die" \in Faults /\ exciter.on /\ sending = <<>>
  /\ exciter' = [exciter EXCEPT !.on = FALSE]
  /\ UNCHANGED <<st, sem, fEitRTU, rx, address, link, FMFRQ, asked, sending, trouble, issued>>

TroubleEnds ==
  /\ trouble /\ exciter.on /\ trouble' = FALSE
  /\ UNCHANGED <<st, sem, fEitRTU, rx, address, link, FMFRQ, outside, issued>>

Exciter == Ignore \/ StartReply \/ EndReply \/ Exchange \/ Die \/ TroubleEnds

-----------------------------------------------------------------------------
(* The tasks.                                                              *)

Asleep(t) == st[t].at \in {"idle", "rest", "sleep", "pause"} \/ (st[t].at = "blocked" /\ ~Port!Granted(t))

\* t is at label "at" and no task of a higher priority wants to run.
Runs(t, at) ==
  /\ st[t].at = at
  /\ \A u \in Tasks : Priority[u] < Priority[t] => Asleep(u)

\* A task that sleeps 30 ms finds the line at rest when all is well.
Settled == asked = <<>> /\ sending = <<>> /\ ~rx.timing
SleepOver == trouble \/ Settled

Go(t, at) == st' = [st EXCEPT ![t].at = at]
\* A task that does nothing with the exciter.
Away(at) == [at |-> at, tries |-> 0, left |-> 0, req |-> Request("id", None), ok |-> FALSE]
\* A task about to ask for the port, with "tries" more to come.
Asking(kind, freq, tries) ==
  [at |-> "pend", tries |-> tries, left |-> 0, req |-> Request(kind, freq), ok |-> FALSE]

\* A setting: the value is noted at once, then the port is asked for.
StartCommand(t, f) ==
  /\ fEitRTU' = TRUE
  /\ st' = [st EXCEPT ![t] = Asking("set", f, 0)]

Command(t) ==
  /\ t \in Masters /\ Runs(t, "idle") /\ issued < MaxCommands
  /\ \E f \in Freqs \ {FirstFreq} : StartCommand(t, f) /\ FMFRQ' = f
  /\ issued' = issued + 1
  /\ UNCHANGED <<sem, rx, address, link, outside, trouble>>

\* The user confirms a setting on the panel; it is sent if g_TMTLink[0] is set.
Confirm(t) ==
  /\ t \in Panels /\ Runs(t, "idle") /\ issued < MaxCommands
  /\ IF g_TMTLink[0] = 1 THEN \E f \in Freqs \ {FirstFreq} : StartCommand(t, f)
     ELSE UNCHANGED <<st, fEitRTU>>
  /\ issued' = issued + 1
  /\ UNCHANGED <<sem, rx, address, link, FMFRQ, outside, trouble>>

\* The request ExciterPack_Collect_RS makes.
Polling(tries) == Asking(IF fExcitCheck THEN "data" ELSE "id", None, tries)

\* TaskRTU, every 25th round; ExciterDevPoll makes its first request.
PollDue ==
  /\ Runs("rtu", "rest") /\ ~fEitRTU
  /\ st' = [st EXCEPT !["rtu"] = Polling(Tries - 1)]
  /\ UNCHANGED <<sem, fEitRTU, rx, address, link, FMFRQ, outside, trouble, issued>>

\* Mistake: PADevPoll uses the port without asking for it.
PendForRequests(t) ==
  /\ Runs(t, "pend")
  /\ \/ Port!PendTakes /\ Go(t, "send")
     \/ st[t].req.kind # "status" /\ Port!PendWaits(t) /\ Go(t, "blocked")
     \/ st[t].req.kind = "status" /\ Go(t, "send") /\ UNCHANGED sem
  /\ UNCHANGED <<fEitRTU, rx, address, link, FMFRQ, outside, trouble, issued>>

Pend(t) ==
  /\ Runs(t, "pend")
  /\ \/ Port!PendTakes /\ Go(t, "send")
     \/ Port!PendWaits(t) /\ Go(t, "blocked")
  /\ UNCHANGED <<fEitRTU, rx, address, link, FMFRQ, outside, trouble, issued>>

PendReturns(t) ==
  /\ Runs(t, "blocked") /\ Port!Granted(t)
  /\ Go(t, "send")
  /\ UNCHANGED <<sem, fEitRTU, rx, address, link, FMFRQ, outside, trouble, issued>>

\* UART3Write.  The exciter keeps a few requests and misses the others.
Send(t) ==
  /\ Runs(t, "send")
  /\ asked' = IF Len(asked) < Backlog THEN Append(asked, st[t].req) ELSE asked
  /\ st' = [st EXCEPT ![t] = [@ EXCEPT !.at = "wait", !.left = IF st[t].req.kind = "status" THEN 1 ELSE Looks]]
  /\ UNCHANGED <<sem, fEitRTU, rx, address, link, FMFRQ, exciter, sending, trouble, issued>>

Heard == rx.got[1].reply

\* Mistake: the exciter's address is never looked for again.
ProcessKeepsAddress(ok) ==
  IF ~Intact THEN ~ok /\ UNCHANGED <<address, FMFRQ>>
  ELSE IF ~fExcitCheck THEN
    /\ ok = (Heard.kind = "id")
    /\ fExcitCheck' = ok
    /\ IPHead' = IF ok THEN Heard.head ELSE IPHead
    /\ UNCHANGED <<ExcitErrNum, FMFRQ>>
  ELSE
    /\ ok = (Heard.head = IPHead)
    /\ FMFRQ' = IF ok /\ Heard.kind = "data" THEN Heard.freq ELSE FMFRQ
    /\ UNCHANGED address

\* ExcitData_Process.
Process(ok) ==
  IF ~Intact THEN ~ok /\ UNCHANGED <<address, FMFRQ>>
  ELSE IF ~fExcitCheck THEN
    /\ ok = (Heard.kind = "id")
    /\ fExcitCheck' = ok
    /\ IPHead' = IF ok THEN Heard.head ELSE IPHead
    /\ UNCHANGED <<ExcitErrNum, FMFRQ>>
  ELSE IF Heard.head # IPHead THEN
    /\ ~ok
    /\ ExcitErrNum' = IF ExcitErrNum >= 2 THEN 0 ELSE ExcitErrNum + 1
    /\ fExcitCheck' = (ExcitErrNum < 2)
    /\ UNCHANGED <<IPHead, FMFRQ>>
  ELSE
    /\ ok
    /\ FMFRQ' = IF Heard.kind = "data" THEN Heard.freq ELSE FMFRQ
    /\ UNCHANGED address

\* A look at the buffer that finds a frame; PADevPoll makes no use of it.
Accept(t) ==
  /\ Runs(t, "wait") /\ st[t].left > 0 /\ RxEnd
  /\ \E ok \in BOOLEAN :
       /\ IF st[t].req.kind = "status" THEN ~ok /\ UNCHANGED <<address, FMFRQ>> ELSE Process(ok)
       /\ st' = [st EXCEPT ![t] = [@ EXCEPT !.at = "post", !.left = 0, !.ok = ok]]
  /\ ResetBuffer(t)
  /\ UNCHANGED <<sem, fEitRTU, link, outside, trouble, issued>>

LookAgain(t) ==
  /\ Runs(t, "wait") /\ st[t].left > 0 /\ ~RxEnd
  /\ st' = [st EXCEPT ![t] = [@ EXCEPT !.at = "sleep", !.left = st[t].left - 1]]
  /\ UNCHANGED <<sem, fEitRTU, rx, address, link, FMFRQ, outside, trouble, issued>>

\* Mistake: a request that times out returns without OSSemPost.
GiveUpKeepsPort(t) ==
  /\ Runs(t, "wait") /\ st[t].left = 0
  /\ ResetBuffer(t)
  /\ st' = [st EXCEPT ![t] = IF t = "rtu" THEN Away("rest") ELSE Away("clear")]
  /\ UNCHANGED <<sem, fEitRTU, address, link, FMFRQ, outside, trouble, issued>>

GiveUp(t) ==
  /\ Runs(t, "wait") /\ st[t].left = 0
  /\ ResetBuffer(t)
  /\ st' = [st EXCEPT ![t] = [@ EXCEPT !.at = "post", !.ok = FALSE]]
  /\ UNCHANGED <<sem, fEitRTU, address, link, FMFRQ, outside, trouble, issued>>

Wake(t) ==
  /\ Runs(t, "sleep") /\ SleepOver
  /\ Go(t, "wait")
  /\ UNCHANGED <<sem, fEitRTU, rx, address, link, FMFRQ, outside, trouble, issued>>

\* What follows OSSemPost: another try of the poll or its end, the rest of
\* TaskRTU's round, the end of a command.
AfterPost(t) ==
  IF t # "rtu" THEN Away("clear")
  ELSE IF st[t].req.kind = "status" THEN Away("rest")
  ELSE IF st[t].ok \/ st[t].tries = 0 THEN [st[t] EXCEPT !.at = "mark"]
  ELSE Polling(st[t].tries - 1)

Post(t) ==
  /\ Runs(t, "post")
  /\ Port!OSSemPost
  /\ st' = [st EXCEPT ![t] = AfterPost(t)]
  /\ UNCHANGED <<fEitRTU, rx, address, link, FMFRQ, outside, trouble, issued>>

\* Mistake: an answered poll does not forget the failed ones before it.
MarkKeepsCount ==
  IF st["rtu"].ok THEN ExCnt' = ExCnt /\ g_TMTLink' = [g_TMTLink EXCEPT ![1] = 1]
  ELSE /\ ExCnt' = IF ExCnt < ExCntCap THEN ExCnt + 1 ELSE ExCnt
       /\ g_TMTLink' = [g_TMTLink EXCEPT ![1] = IF ExCnt' >= 2 THEN 0 ELSE @]

\* Mistake: the count of failed polls has no cap.
MarkUncapped ==
  IF st["rtu"].ok THEN ExCnt' = 0 /\ g_TMTLink' = [g_TMTLink EXCEPT ![1] = 1]
  ELSE /\ ExCnt' = ExCnt + 1
       /\ g_TMTLink' = [g_TMTLink EXCEPT ![1] = IF ExCnt' >= 2 THEN 0 ELSE @]

\* Mistake: ExCnt is not static and starts anew in each poll.
MarkForgets ==
  /\ ExCnt' = IF st["rtu"].ok THEN 0 ELSE 1
  /\ g_TMTLink' = IF st["rtu"].ok THEN [g_TMTLink EXCEPT ![1] = 1] ELSE g_TMTLink

\* The end of ExciterDevPoll: the state of the link.
MarkLink ==
  IF st["rtu"].ok THEN ExCnt' = 0 /\ g_TMTLink' = [g_TMTLink EXCEPT ![1] = 1]
  ELSE /\ ExCnt' = IF ExCnt < ExCntCap THEN ExCnt + 1 ELSE ExCnt
       /\ g_TMTLink' = [g_TMTLink EXCEPT ![1] = IF ExCnt' >= 2 THEN 0 ELSE @]

Mark ==
  /\ Runs("rtu", "mark")
  /\ MarkLink
  /\ misses' = IF st["rtu"].ok THEN 0 ELSE IF misses < 2 THEN misses + 1 ELSE misses
  /\ FMFRQ' = IF g_TMTLink'[1] = 0 /\ ~st["rtu"].ok THEN None ELSE FMFRQ
  /\ st' = [st EXCEPT !["rtu"] = Away("pause")]
  /\ UNCHANGED <<sem, fEitRTU, rx, address, outside, trouble, issued>>

\* TaskRTU goes on to PADevPoll.
PauseOver ==
  /\ Runs("rtu", "pause") /\ SleepOver
  /\ st' = [st EXCEPT !["rtu"] = Asking("status", None, 0)]
  /\ UNCHANGED <<sem, fEitRTU, rx, address, link, FMFRQ, outside, trouble, issued>>

\* Mistake: a command ends without clearing the flag, as by an early return.
EndCommandEarly(t) ==
  /\ Runs(t, "clear")
  /\ fEitRTU' = fEitRTU
  /\ Go(t, "idle")
  /\ UNCHANGED <<sem, rx, address, link, FMFRQ, outside, trouble, issued>>

EndCommand(t) ==
  /\ Runs(t, "clear")
  /\ fEitRTU' = FALSE
  /\ Go(t, "idle")
  /\ UNCHANGED <<sem, rx, address, link, FMFRQ, outside, trouble, issued>>

-----------------------------------------------------------------------------
Init ==
  /\ st = [t \in Tasks |-> Away(IF t = "rtu" THEN "rest" ELSE "idle")]
  /\ Port!OSSemCreate(1)
  /\ fEitRTU = FALSE
  /\ rx = [got |-> <<>>, fEnd |-> FALSE, timing |-> FALSE]
  /\ fExcitCheck = FALSE /\ IPHead \in Heads /\ ExcitErrNum = 0
  /\ ExCnt = 0 /\ g_TMTLink = [i \in 0..1 |-> 0] /\ misses = 0
  /\ FMFRQ = None
  /\ exciter = [on |-> TRUE, head |-> 1, freq |-> FirstFreq]
  /\ asked = <<>> /\ sending = <<>> /\ trouble = TRUE /\ issued = 0

TaskStep(t) ==
  \/ Pend(t) \/ PendReturns(t) \/ Send(t) \/ Accept(t) \/ LookAgain(t)
  \/ GiveUp(t) \/ Wake(t) \/ Post(t) \/ EndCommand(t)

RtuStep == PollDue \/ Mark \/ PauseOver

Next ==
  \/ \E t \in Tasks : Command(t) \/ Confirm(t) \/ TaskStep(t)
  \/ RtuStep \/ FrameTimeOut \/ Exciter

\* Every task gets the processor again and again (each sleeps far longer
\* than it runs), the tick does not stop, a reply goes on once begun and an
\* exciter that is well answers.
Fairness ==
  /\ \A t \in Users : SF_vars(TaskStep(t))
  /\ SF_vars(TaskStep("rtu") \/ RtuStep)
  /\ WF_vars(FrameTimeOut)
  /\ WF_vars(StartReply \/ EndReply \/ Ignore)

Spec == Init /\ [][Next]_vars /\ Fairness

-----------------------------------------------------------------------------
(* Properties.                                                             *)

TypeOK ==
  /\ st \in [Tasks -> [at : Labels, tries : 0..Tries - 1, left : 0..Looks, req : Requests, ok : BOOLEAN]]
  /\ OSEventCnt \in Nat /\ OSEventTbl \subseteq Tasks
  /\ fEitRTU \in BOOLEAN
  /\ rx \in [got : Seq([reply : Replies, half : {1, 2}]), fEnd : BOOLEAN, timing : BOOLEAN]
  /\ Len(rx.got) <= Room
  /\ fExcitCheck \in BOOLEAN /\ IPHead \in Heads /\ ExcitErrNum \in 0..2
  /\ ExCnt \in 0..ExCntCap /\ g_TMTLink \in [0..1 -> {0, 1}] /\ misses \in 0..2
  /\ FMFRQ \in Freqs \union {None}
  /\ exciter \in [on : BOOLEAN, head : Heads, freq : Freqs]
  /\ asked \in Seq(Requests) /\ Len(asked) <= Backlog /\ sending \in Seq(Replies) /\ Len(sending) <= 1
  /\ trouble \in BOOLEAN /\ issued \in 0..MaxCommands

\* t has the semaphore.
Holds(t) ==
  \/ st[t].at \in {"send", "wait", "sleep", "post"}
  \/ st[t].at = "blocked" /\ Port!Granted(t)

\* At most one task is between OSSemPend and OSSemPost: nobody resets the
\* buffer or takes a reply while another waits for one (RS485.c:2594).
OnePortUser == \A t, u \in Tasks : Holds(t) /\ Holds(u) => t = u

\* fEitRTU keeps TaskRTU from polling only while somebody is setting the
\* exciter (TaskRTU.c:83): it never stays behind.
FlagHasUser == fEitRTU => \E t \in Users : st[t].at # "idle"

\* The port, by its owner and the tasks that wait, is used as its semaphore
\* promises (ExclusivePort).
Owner == IF \E t \in Tasks : Holds(t) THEN CHOOSE t \in Tasks : Holds(t) ELSE None
Lock == INSTANCE ExclusivePort WITH NoOne <- None, owner <- Owner, queue <- OSEventTbl
PortIsExclusive == Lock!Spec

\* The link is reported lost only after two polls in a row, of three
\* requests each, heard nothing of use (TaskRTU.c:203-216).
LossNeedsTwoPolls == [][g_TMTLink[1] = 1 /\ g_TMTLink'[1] = 0 => misses >= 1 /\ misses' = 2]_vars

\* When the trouble is over, each request goes out on a line at rest and
\* into an empty buffer, so that the reply taken for it is its own: PADevPoll
\* throws away what is left over in each round (TaskRTU.c:158-172).
AtRest == asked = <<>> /\ sending = <<>> /\ rx.got = <<>> /\ ~rx.fEnd
Resync == <>[]trouble \/ <>[][\A t \in Tasks : Send(t) => AtRest]_vars

\* When the trouble is over, the exciter is found again, its address
\* included, and what is shown of it is what it is set to (TaskRTU.c:180).
Recovers == <>[]trouble \/ <>[](g_TMTLink[1] = 1 /\ IPHead = exciter.head /\ FMFRQ = exciter.freq)

\* An exciter that is gone is reported gone (TaskRTU.c:203-216).
SilenceNoticed == ~exciter.on ~> g_TMTLink[1] = 0

\* A task that sets the exciter gets done with it, however many wait for
\* the port and whatever becomes of the reply (RS485.c:1804-1819).
CommandEnds == \A t \in Masters : st[t].at # "idle" ~> st[t].at = "idle"
=============================================================================
