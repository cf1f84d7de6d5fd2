----------------------------- MODULE MasterPorts -----------------------------
(***************************************************************************)
(* The masters' ports: TaskPC (APP/TaskPC.c) answers the requests that the *)
(* interrupts of USART1 and USART2 (USER/stm32f10x_it.c) and the time-out  *)
(* of SysTick_Handler collect, and the UDP task (udp_demo.c) answers those *)
(* of the network.  All replies are built in the one g_UART_TBuf.          *)
(*                                                                         *)
(* The interrupts come between any two accesses of TaskPC, the UDP task    *)
(* (priority 10) between any two steps of TaskPC (12); TaskPC runs while   *)
(* the UDP task sleeps in a command.  A request has two parts, so that it  *)
(* can be cut.  g_UART_TBuf keeps whose reply it holds: one that the UDP   *)
(* task writes into is lost, be it while TaskPC copies it or sends it.     *)
(***************************************************************************)
EXTENDS Integers

CONSTANTS
  MAX_UART_BUF_LEN,  \* parts a port's buffer has room for (255 bytes)
  MAX_UART_TimeOut,  \* ticks of silence that end a request (3)
  MaxHurried         \* bound: requests sent while the port is not free

\* Shorter than a time-out are only the gaps inside a request.
ASSUME PortsAssumption ==
  /\ MAX_UART_BUF_LEN \in Nat /\ MAX_UART_BUF_LEN >= 2
  /\ MAX_UART_TimeOut \in Nat /\ MAX_UART_TimeOut >= 2
  /\ MaxHurried \in Nat

VARIABLES
  rbuf,      \* UART1_RBuf and UART2_RBuf
  g_UART_TBuf,
  pc,        \* TaskPC: where it is, the port, the request and where in Buff it begins
  udp,       \* the UDP task: "idle", "asleep" in a command, "copy"
  line,      \* of each port: the transmission, its part on the way, a tick since
  waits,     \* ports whose master waits for its reply
  hurried,
  fresh      \* ports with a request stored and not carried out

vars == <<rbuf, g_UART_TBuf, pc, udp, line, waits, hurried, fresh>>

Ports == {"uart1", "uart2"}
None == "none"
NoRequest == 2

\* Transmissions are told apart by 0 and 1; part 1 holds the device's
\* address, part 2 the command, its parameters and the CRC.
Part(n, i) == [n |-> n, i |-> i]
Parts == [n : {0, 1}, i : {1, 2}]

\* The structure has one byte of padding behind Buff.
Places == 1..MAX_UART_BUF_LEN + 1

-----------------------------------------------------------------------------
(* Reception.                                                              *)

Becomes(p, buff, len, timeout, fEnd) ==
  rbuf' = [rbuf EXCEPT ![p] = [Buff |-> buff, Len |-> len, TimeOut |-> timeout, fEnd |-> fEnd]]

TakeOver(n) ==
  LET rx == rbuf["uart1"]
  IN  /\ Becomes("uart1", [rx.Buff EXCEPT ![1] = Part(n, 1), ![2] = Part(n, 2)], 2, rx.TimeOut, TRUE)
      /\ fresh' = fresh \union {"uart1"}

\* The idle line ends a request on USART1: the DMA's buffer is taken over,
\* or dropped while the last request is still at work.
\* Mistake: the last request is not looked after.
IdleLineTakes(n) == TakeOver(n)

IdleLine(n) ==
  \/ ~rbuf["uart1"].fEnd /\ TakeOver(n)
  \/ rbuf["uart1"].fEnd /\ UNCHANGED <<rbuf, fresh>>

\* A byte on USART2: dropped while the last request is still at work.
Store(b, full) ==
  LET rx == rbuf["uart2"]
  IN  /\ ~rx.fEnd
      /\ Becomes("uart2", [rx.Buff EXCEPT ![rx.Len + 1] = b], rx.Len + 1, MAX_UART_TimeOut, full)
      /\ fresh' = IF b.i = 2 THEN fresh \union {"uart2"} ELSE fresh

\* Mistake: the buffer counts as full one byte late.
ByteInLate(b) ==
  \/ Store(b, rbuf["uart2"].Len + 1 > MAX_UART_BUF_LEN)
  \/ rbuf["uart2"].fEnd /\ UNCHANGED <<rbuf, fresh>>

ByteIn(b) ==
  \/ Store(b, rbuf["uart2"].Len + 1 >= MAX_UART_BUF_LEN)
  \/ rbuf["uart2"].fEnd /\ UNCHANGED <<rbuf, fresh>>

\* The port waits for a request, and TaskPC is not between Clear and ResetLen.
Free(p) == ~rbuf[p].fEnd /\ rbuf[p].TimeOut = 0 /\ ~(pc.at = "reset" /\ pc.port = p)

\* A master sends a request, or sends it again, when it has left the device
\* its time, but for a few that come at any moment.
Timely(p) ==
  \/ Free(p) /\ UNCHANGED hurried
  \/ ~Free(p) /\ hurried < MaxHurried /\ hurried' = hurried + 1

Transmit1 ==
  LET n == 1 - line["uart1"].n
  IN  /\ Timely("uart1") /\ IdleLine(n)
      /\ line' = [line EXCEPT !["uart1"].n = n]
      /\ waits' = waits \union {"uart1"}
      /\ UNCHANGED <<g_UART_TBuf, pc, udp>>

Transmit2 ==
  LET n == 1 - line["uart2"].n
  IN  /\ ~line["uart2"].open
      /\ Timely("uart2") /\ ByteIn(Part(n, 1))
      /\ line' = [line EXCEPT !["uart2"] = [n |-> n, open |-> TRUE, ticked |-> FALSE]]
      /\ waits' = waits \union {"uart2"}
      /\ UNCHANGED <<g_UART_TBuf, pc, udp>>

SecondPart ==
  /\ line["uart2"].open
  /\ ByteIn(Part(line["uart2"].n, 2))
  /\ line' = [line EXCEPT !["uart2"].open = FALSE]
  /\ UNCHANGED <<g_UART_TBuf, pc, udp, waits, hurried>>

\* The time-out of USART2.  A byte takes less than a tick.
SysTick ==
  LET rx == rbuf["uart2"]
  IN  /\ rx.TimeOut > 0
      /\ ~(line["uart2"].open /\ line["uart2"].ticked)
      /\ Becomes("uart2", rx.Buff, rx.Len, rx.TimeOut - 1, rx.fEnd \/ rx.TimeOut = 1)
      /\ line' = [line EXCEPT !["uart2"].ticked = TRUE]
      /\ UNCHANGED <<g_UART_TBuf, pc, udp, waits, hurried, fresh>>

-----------------------------------------------------------------------------
(* TaskPC.                                                                 *)

\* It runs while the UDP task waits.
\* Mistake: it comes before the UDP task.
PcRunsFirst == TRUE

PcRuns == udp \in {"idle", "asleep"}

\* PC_Protocol looks for the address with a command behind it, at most one
\* byte behind the request's end, and takes the rest for one request, which
\* must have the right CRC.
Header(p, i) == rbuf[p].Buff[i].i = 1 /\ rbuf[p].Buff[i + 1].i = 2
Request(p) ==
  LET b == rbuf[p].Buff
      last == rbuf[p].Len - 1
  IN  IF /\ last >= 1 /\ Header(p, last) /\ b[last].n = b[last + 1].n
         /\ \A i \in 1..last - 1 : ~Header(p, i)
      THEN b[last].n ELSE NoRequest

At(at, p) == [at |-> at, port |-> p, request |-> NoRequest, from |-> 0]
NextPort == IF pc.port = "uart1" THEN At("test", "uart2") ELSE At("rest", "uart1")

\* Mistake: only what is answered is cleared away.
TestAndIgnore ==
  /\ pc.at = "test"
  /\ pc' = IF rbuf[pc.port].fEnd /\ Request(pc.port) # NoRequest
           THEN [pc EXCEPT !.at = "command", !.request = Request(pc.port), !.from = rbuf[pc.port].Len - 1]
           ELSE NextPort
  /\ UNCHANGED <<rbuf, g_UART_TBuf, fresh, waits>>

Test ==
  /\ pc.at = "test"
  /\ pc' = IF rbuf[pc.port].fEnd
           THEN IF Request(pc.port) = NoRequest
                THEN At("clear", pc.port)
                ELSE [pc EXCEPT !.at = "command", !.request = Request(pc.port), !.from = rbuf[pc.port].Len - 1]
           ELSE NextPort
  /\ UNCHANGED <<rbuf, g_UART_TBuf, fresh, waits>>

\* The command reads its parameters, perhaps sleeps in between, and builds
\* its reply apart; DataCopy takes it to g_UART_TBuf.
Carry ==
  /\ pc.at = "command" /\ pc' = At("write", pc.port)
  /\ g_UART_TBuf' = pc.port
  /\ fresh' = fresh \ {pc.port}
  /\ UNCHANGED <<rbuf, waits>>

\* UART1Write and UART2Write, which sleep inside a long reply.  The master
\* takes a reply of its own only.
Write ==
  /\ pc.at = "write" /\ pc' = At("clear", pc.port)
  /\ waits' = IF g_UART_TBuf = pc.port THEN waits \ {pc.port} ELSE waits
  /\ UNCHANGED <<rbuf, g_UART_TBuf, fresh>>

Clear ==
  /\ pc.at = "clear" /\ pc' = At("reset", pc.port)
  /\ LET rx == rbuf[pc.port] IN Becomes(pc.port, rx.Buff, rx.Len, rx.TimeOut, FALSE)
  /\ UNCHANGED <<g_UART_TBuf, fresh, waits>>

ResetLen ==
  /\ pc.at = "reset" /\ pc' = NextPort
  /\ LET rx == rbuf[pc.port] IN Becomes(pc.port, rx.Buff, 0, rx.TimeOut, rx.fEnd)
  /\ UNCHANGED <<g_UART_TBuf, fresh, waits>>

\* 50 ms, and the saves and the network in between (ConfigSave, UdpServer).
Rest ==
  /\ pc.at = "rest" /\ pc' = At("test", pc.port)
  /\ UNCHANGED <<rbuf, g_UART_TBuf, fresh, waits>>

TaskPC ==
  /\ PcRuns
  /\ Test \/ Carry \/ Write \/ Clear \/ ResetLen \/ Rest
  /\ UNCHANGED <<udp, line, hurried>>

-----------------------------------------------------------------------------
(* The UDP task: a request, whose command may sleep, the reply built in    *)
(* g_UART_TBuf, and taken from there into the packet.                      *)

UdpTake ==
  /\ udp = "idle" /\ udp' = "asleep"
  /\ UNCHANGED <<rbuf, g_UART_TBuf, pc, line, waits, hurried, fresh>>

UdpBuild ==
  /\ udp = "asleep" /\ udp' = "copy"
  /\ g_UART_TBuf' = "udp"
  /\ UNCHANGED <<rbuf, pc, line, waits, hurried, fresh>>

UdpSend ==
  /\ udp = "copy" /\ udp' = "idle"
  /\ UNCHANGED <<rbuf, g_UART_TBuf, pc, line, waits, hurried, fresh>>

UDP_RemoteRec == UdpTake \/ UdpBuild \/ UdpSend

-----------------------------------------------------------------------------
Empty == [Buff |-> [i \in Places |-> Part(0, 2)], Len |-> 0, TimeOut |-> 0, fEnd |-> FALSE]

Init ==
  /\ rbuf = [p \in Ports |-> Empty]
  /\ g_UART_TBuf = None
  /\ pc = At("test", "uart1")
  /\ udp = "idle"
  /\ line = [p \in Ports |-> [n |-> 0, open |-> FALSE, ticked |-> FALSE]]
  /\ waits = {} /\ hurried = 0 /\ fresh = {}

Next == Transmit1 \/ Transmit2 \/ SecondPart \/ SysTick \/ TaskPC \/ UDP_RemoteRec

\* The tasks and the interrupts come round, TaskPC whenever the UDP task
\* waits, and a master that gets no reply sends again.
Fairness ==
  /\ SF_vars(TaskPC) /\ WF_vars(UdpBuild \/ UdpSend)
  /\ WF_vars(SecondPart) /\ WF_vars(SysTick)
  /\ SF_vars(Transmit1 /\ "uart1" \in waits) /\ SF_vars(Transmit2 /\ "uart2" \in waits)

Spec == Init /\ [][Next]_vars /\ Fairness

-----------------------------------------------------------------------------
(* Properties.                                                             *)

\* Types.  In particular, no byte comes to lie behind Buff and its padding
\* (stm32f10x_it.c:845), although one may be stored before Len is reset.
TypeOK ==
  /\ rbuf \in [Ports -> [Buff : [Places -> Parts], Len : 0..MAX_UART_BUF_LEN + 1,
                         TimeOut : 0..MAX_UART_TimeOut, fEnd : BOOLEAN]]
  /\ g_UART_TBuf \in Ports \union {"udp", None}
  /\ pc \in [at : {"test", "command", "write", "clear", "reset", "rest"},
             port : Ports, request : {0, 1, NoRequest}, from : 0..MAX_UART_BUF_LEN]
  /\ udp \in {"idle", "asleep", "copy"}
  /\ line \in [Ports -> [n : {0, 1}, open : BOOLEAN, ticked : BOOLEAN]]
  /\ waits \subseteq Ports /\ hurried \in 0..MaxHurried /\ fresh \subseteq Ports

\* A request is carried out once for each time it is sent, and the one whose
\* parameters a command reads after it slept is the one it began with
\* (TaskPC.c:218): the next one does not come into the buffer meanwhile.
CarriedOnce ==
  [][Carry => /\ pc.port \in fresh
              /\ \A i \in {1, 2} : rbuf[pc.port].Buff[pc.from + i - 1] = Part(pc.request, i)]_vars

\* What the UDP task takes from g_UART_TBuf is the reply it built there
\* (udp_demo.c:298), whatever TaskPC builds there meanwhile.
UdpReplyIsItsOwn == [][UdpSend => g_UART_TBuf = "udp"]_vars

\* A serial master that sends its request again until it is answered, and
\* leaves the device its time in the end, is answered (TaskPC.c:221): no
\* request that is cut, or lost between Clear and ResetLen, stops the port,
\* unless the UDP task replaces its replies in g_UART_TBuf for ever.
Spoilt(p) == UdpBuild /\ pc.port = p /\ pc.at = "write"
Answered == \A p \in Ports : []<><<Spoilt(p)>>_vars \/ (p \in waits ~> p \notin waits)
=============================================================================
