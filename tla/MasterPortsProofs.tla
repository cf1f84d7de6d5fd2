-------------------------- MODULE MasterPortsProofs --------------------------
(***************************************************************************)
(* Theorems about MasterPorts, for every length of the buffers and of the  *)
(* time-out and however many requests come at a bad moment: nothing is     *)
(* stored behind a buffer, requests are carried out as they came and once, *)
(* and a reply over UDP is its own.                                        *)
(***************************************************************************)
EXTENDS MasterPorts, TLAPS

\* A full buffer takes a byte only between Clear and ResetLen, and then no
\* other before Len is reset.
Gap(p) == pc.at = "reset" /\ pc.port = p
Bounded ==
  \A p \in Ports : /\ rbuf[p].Len >= MAX_UART_BUF_LEN => rbuf[p].fEnd \/ Gap(p)
                   /\ rbuf[p].Len > MAX_UART_BUF_LEN => p = "uart2" /\ rbuf[p].fEnd /\ Gap(p)

\* The request TaskPC carries out stays where it found it.
Held ==
  pc.at = "command" =>
    /\ rbuf[pc.port].fEnd /\ pc.port \in fresh
    /\ pc.request \in {0, 1} /\ pc.from \in 1..MAX_UART_BUF_LEN - 1
    /\ rbuf[pc.port].Buff[pc.from] = Part(pc.request, 1)
    /\ rbuf[pc.port].Buff[pc.from + 1] = Part(pc.request, 2)

\* A request in the buffer has not been carried out, except while TaskPC is
\* about to take it away.
Ending(p) == pc.port = p /\ pc.at \in {"write", "clear", "reset"}
NotStale ==
  \A p \in Ports : rbuf[p].Len = 0 \/ rbuf[p].Buff[rbuf[p].Len].i = 1 \/ p \in fresh \/ Ending(p)

IInv == TypeOK /\ Bounded /\ Held /\ NotStale

-----------------------------------------------------------------------------
(* Helpers.                                                                *)

\* A port's state after a store.
RxType == [Buff : [Places -> Parts], Len : 0..MAX_UART_BUF_LEN + 1, TimeOut : 0..MAX_UART_TimeOut, fEnd : BOOLEAN]

LEMMA PlacesFacts ==
  /\ Places \subseteq Nat /\ 1 \in Places /\ 2 \in Places /\ 3 \in Places
  /\ \A i \in Nat : i \in Places <=> i >= 1 /\ i <= MAX_UART_BUF_LEN + 1
  BY PortsAssumption DEF Places

\* What the idle line of USART1 does to the buffers.
LEMMA IdleLineKeeps ==
  ASSUME IInv, NEW n \in {0, 1}, IdleLine(n), UNCHANGED pc
  PROVE  /\ rbuf' \in [Ports -> RxType] /\ fresh' \subseteq Ports
         /\ Bounded' /\ Held' /\ NotStale'
<1> USE PortsAssumption, PlacesFacts
<1>1. CASE rbuf["uart1"].fEnd
  BY <1>1 DEF IdleLine, IInv, TypeOK, RxType, Gap, Bounded, Held, NotStale, Ending
<1>2. CASE ~rbuf["uart1"].fEnd
  <2> DEFINE b == [rbuf["uart1"].Buff EXCEPT ![1] = Part(n, 1), ![2] = Part(n, 2)]
  <2>1. rbuf["uart1"] \in RxType /\ rbuf["uart2"] \in RxType /\ "uart1" \in Ports
    BY DEF IInv, TypeOK, RxType, Ports
  <2>2. Part(n, 1) \in Parts /\ Part(n, 2) \in Parts /\ Part(n, 2).i = 2
    BY DEF Part, Parts
  <2>3. b \in [Places -> Parts]
    BY <2>1, <2>2 DEF RxType
  <2>4. /\ rbuf' = [rbuf EXCEPT !["uart1"] = [Buff |-> b, Len |-> 2, TimeOut |-> rbuf["uart1"].TimeOut, fEnd |-> TRUE]]
        /\ fresh' = fresh \union {"uart1"}
    BY <1>2 DEF IdleLine, TakeOver, Becomes
  <2>5. /\ rbuf'["uart1"] \in RxType /\ rbuf'["uart1"].Len = 2 /\ rbuf'["uart1"].fEnd
        /\ rbuf'["uart2"] = rbuf["uart2"]
    BY <2>1, <2>3, <2>4 DEF RxType, IInv, TypeOK, Ports
  <2>6. rbuf' \in [Ports -> RxType] /\ fresh' \subseteq Ports
    BY <2>1, <2>4, <2>5 DEF IInv, TypeOK, Ports, RxType
  <2>7. Bounded'
    BY <2>5 DEF IInv, Gap, Bounded, Ports
  <2>8. Held'
    BY <1>2, <2>4, <2>5 DEF IInv, Held, TypeOK, Ports
  <2>9. NotStale'
    BY <2>4, <2>5 DEF IInv, NotStale, Ending, Ports
  <2> QED
    BY <2>6, <2>7, <2>8, <2>9
<1> QED
  BY <1>1, <1>2

\* What a byte on USART2 does to the buffers.
LEMMA ByteInKeeps ==
  ASSUME IInv, NEW b \in Parts, ByteIn(b), UNCHANGED pc
  PROVE  /\ rbuf' \in [Ports -> RxType] /\ fresh' \subseteq Ports
         /\ Bounded' /\ Held' /\ NotStale'
<1> USE PortsAssumption, PlacesFacts
<1>1. CASE rbuf["uart2"].fEnd
  BY <1>1 DEF ByteIn, Store, IInv, TypeOK, RxType, Gap, Bounded, Held, NotStale, Ending
<1>2. CASE ~rbuf["uart2"].fEnd
  <2> DEFINE len == rbuf["uart2"].Len + 1
             full == len >= MAX_UART_BUF_LEN
             buff == [rbuf["uart2"].Buff EXCEPT ![len] = b]
  <2>1. rbuf["uart1"] \in RxType /\ rbuf["uart2"] \in RxType /\ "uart2" \in Ports
    BY DEF IInv, TypeOK, RxType, Ports
  <2>2. len \in Places /\ len \in 1..MAX_UART_BUF_LEN + 1
    BY <1>2, <2>1 DEF IInv, Bounded, RxType, Ports
  <2>3. buff \in [Places -> Parts] /\ buff[len] = b
    BY <2>1, <2>2 DEF RxType
  <2>4. /\ rbuf' = [rbuf EXCEPT !["uart2"] =
                     [Buff |-> buff, Len |-> len, TimeOut |-> MAX_UART_TimeOut, fEnd |-> full]]
        /\ fresh' = IF b.i = 2 THEN fresh \union {"uart2"} ELSE fresh
    BY <1>2 DEF ByteIn, Store, Becomes
  <2>5. /\ rbuf'["uart2"] \in RxType /\ rbuf'["uart2"].Len = len /\ rbuf'["uart2"].fEnd = full
        /\ rbuf'["uart2"].Buff[len] = b /\ rbuf'["uart1"] = rbuf["uart1"]
    BY <2>1, <2>2, <2>3, <2>4 DEF RxType, IInv, TypeOK, Ports
  <2>6. rbuf' \in [Ports -> RxType] /\ fresh' \subseteq Ports
    BY <2>1, <2>4, <2>5 DEF IInv, TypeOK, Ports, RxType
  <2>7. Bounded'
    <3>1. rbuf["uart2"].Len <= MAX_UART_BUF_LEN /\ rbuf["uart2"].Len \in Nat
      BY <1>2, <2>1 DEF IInv, Bounded, Ports, RxType
    <3>2. len > MAX_UART_BUF_LEN => Gap("uart2") /\ full
      BY <1>2, <3>1 DEF IInv, Bounded, Ports
    <3>3. len >= MAX_UART_BUF_LEN => full
      OBVIOUS
    <3> QED
      BY <2>5, <3>2, <3>3 DEF IInv, Gap, Bounded, Ports
  <2>8. Held'
    BY <1>2, <2>4, <2>5 DEF IInv, Held, TypeOK, Ports
  <2>9. NotStale'
    BY <2>4, <2>5 DEF IInv, NotStale, Ending, Ports, Parts
  <2> QED
    BY <2>6, <2>7, <2>8, <2>9
<1> QED
  BY <1>1, <1>2

\* The empty buffers of Ini_SysRam.
LEMMA InitIInv == Init => IInv
<1> SUFFICES ASSUME Init PROVE IInv
  OBVIOUS
<1> USE PortsAssumption, PlacesFacts
<1>1. Part(0, 2) \in Parts
  BY DEF Part, Parts
<1>2. Empty \in RxType
  BY <1>1 DEF Empty, RxType
<1>3. TypeOK
  <2>1. rbuf \in [Ports -> RxType]
    BY <1>2 DEF Init
  <2>2. pc = [at |-> "test", port |-> "uart1", request |-> NoRequest, from |-> 0]
    BY DEF Init, At
  <2>3. line \in [Ports -> [n : {0, 1}, open : BOOLEAN, ticked : BOOLEAN]]
    BY DEF Init
  <2> QED
    BY <2>1, <2>2, <2>3 DEF Init, TypeOK, RxType, Ports, NoRequest
<1>4. Bounded /\ Held /\ NotStale
  BY DEF Init, Empty, Bounded, Held, NotStale, At
<1> QED
  BY <1>3, <1>4 DEF IInv

-----------------------------------------------------------------------------
(* The steps.                                                              *)

\* A request that begins, or arrives, on either port.
LEMMA LinesKeep ==
  ASSUME IInv, Transmit1 \/ Transmit2 \/ SecondPart PROVE IInv'
<1> USE PortsAssumption
<1>1. CASE Transmit1
  <2> DEFINE n == 1 - line["uart1"].n
  <2>1. n \in {0, 1}
    BY DEF IInv, TypeOK, Ports
  <2>2. IdleLine(n) /\ UNCHANGED pc
    BY <1>1 DEF Transmit1
  <2>3. rbuf' \in [Ports -> RxType] /\ fresh' \subseteq Ports /\ Bounded' /\ Held' /\ NotStale'
    BY <2>1, <2>2, IdleLineKeeps
  <2>4. hurried' \in 0..MaxHurried
    BY <1>1 DEF Transmit1, Timely, IInv, TypeOK
  <2>5. line' \in [Ports -> [n : {0, 1}, open : BOOLEAN, ticked : BOOLEAN]]
    BY <1>1, <2>1 DEF Transmit1, IInv, TypeOK, Ports
  <2>6. TypeOK'
    BY <1>1, <2>3, <2>4, <2>5 DEF Transmit1, IInv, TypeOK, RxType, Ports
  <2> QED
    BY <2>3, <2>6 DEF IInv
<1>2. CASE Transmit2
  <2> DEFINE n == 1 - line["uart2"].n
  <2>1. n \in {0, 1}
    BY DEF IInv, TypeOK, Ports
  <2>2. ByteIn(Part(n, 1)) /\ UNCHANGED pc
    BY <1>2 DEF Transmit2
  <2>3. Part(n, 1) \in Parts
    BY <2>1 DEF Part, Parts
  <2>4. rbuf' \in [Ports -> RxType] /\ fresh' \subseteq Ports /\ Bounded' /\ Held' /\ NotStale'
    BY <2>2, <2>3, ByteInKeeps
  <2>5. hurried' \in 0..MaxHurried
    BY <1>2 DEF Transmit2, Timely, IInv, TypeOK
  <2>6. line' \in [Ports -> [n : {0, 1}, open : BOOLEAN, ticked : BOOLEAN]]
    BY <1>2, <2>1 DEF Transmit2, IInv, TypeOK, Ports
  <2>7. TypeOK'
    BY <1>2, <2>4, <2>5, <2>6 DEF Transmit2, IInv, TypeOK, RxType, Ports
  <2> QED
    BY <2>4, <2>7 DEF IInv
<1>3. CASE SecondPart
  <2> DEFINE n == line["uart2"].n
  <2>1. ByteIn(Part(n, 2)) /\ UNCHANGED pc
    BY <1>3 DEF SecondPart
  <2>2. Part(n, 2) \in Parts
    BY DEF Part, Parts, IInv, TypeOK, Ports
  <2>3. rbuf' \in [Ports -> RxType] /\ fresh' \subseteq Ports /\ Bounded' /\ Held' /\ NotStale'
    BY <2>1, <2>2, ByteInKeeps
  <2>4. line' \in [Ports -> [n : {0, 1}, open : BOOLEAN, ticked : BOOLEAN]]
    BY <1>3 DEF SecondPart, IInv, TypeOK, Ports
  <2>5. TypeOK'
    BY <1>3, <2>3, <2>4 DEF SecondPart, IInv, TypeOK, RxType, Ports
  <2> QED
    BY <2>3, <2>5 DEF IInv
<1> QED
  BY <1>1, <1>2, <1>3

\* The time-out of USART2 only ends a request.
LEMMA SysTickKeeps ==
  ASSUME IInv, SysTick PROVE IInv'
<1> USE PortsAssumption
<1> DEFINE rx == rbuf["uart2"]
<1>1. rx \in RxType /\ rbuf["uart1"] \in RxType
  BY DEF IInv, TypeOK, RxType, Ports
<1>2. /\ rbuf' = [rbuf EXCEPT !["uart2"] = [Buff |-> rx.Buff, Len |-> rx.Len, TimeOut |-> rx.TimeOut - 1,
                                            fEnd |-> rx.fEnd \/ rx.TimeOut = 1]]
      /\ rx.TimeOut > 0
  BY DEF SysTick, Becomes
<1>3. /\ rbuf'["uart2"] \in RxType /\ rbuf'["uart2"].Buff = rx.Buff /\ rbuf'["uart2"].Len = rx.Len
      /\ (rx.fEnd => rbuf'["uart2"].fEnd) /\ rbuf'["uart1"] = rbuf["uart1"]
  BY <1>1, <1>2 DEF RxType, IInv, TypeOK, Ports
<1>4. rbuf' \in [Ports -> RxType]
  BY <1>1, <1>2, <1>3 DEF IInv, TypeOK, RxType, Ports
<1>5. line' \in [Ports -> [n : {0, 1}, open : BOOLEAN, ticked : BOOLEAN]]
  BY DEF SysTick, IInv, TypeOK, Ports
<1>6. TypeOK'
  BY <1>4, <1>5 DEF SysTick, IInv, TypeOK, RxType, Ports
<1>7. Bounded'
  BY <1>3 DEF SysTick, IInv, Bounded, Gap, Ports
<1>8. Held'
  BY <1>3 DEF SysTick, IInv, Held, TypeOK, Ports
<1>9. NotStale'
  BY <1>3 DEF SysTick, IInv, NotStale, Ending, Ports
<1> QED
  BY <1>6, <1>7, <1>8, <1>9 DEF IInv

\* What a request PC_Protocol accepts looks like.
LEMMA RequestFound ==
  ASSUME IInv, NEW p \in Ports, Request(p) # NoRequest, rbuf[p].Len <= MAX_UART_BUF_LEN
  PROVE  LET b == rbuf[p].Buff  l == rbuf[p].Len
         IN  /\ l - 1 \in 1..MAX_UART_BUF_LEN - 1 /\ Request(p) \in {0, 1}
             /\ b[l - 1] = Part(Request(p), 1) /\ b[l] = Part(Request(p), 2) /\ b[l].i = 2
<1> USE PortsAssumption, PlacesFacts
<1> DEFINE b == rbuf[p].Buff
           l == rbuf[p].Len
<1>1. b \in [Places -> Parts] /\ l \in Nat
  BY DEF IInv, TypeOK
<1>2. l - 1 >= 1 /\ Header(p, l - 1) /\ b[l - 1].n = b[l - 1 + 1].n /\ Request(p) = b[l - 1].n
  BY DEF Request
<1>3. l - 1 \in 1..MAX_UART_BUF_LEN - 1 /\ l - 1 + 1 = l
  BY <1>1, <1>2
<1>4. b[l - 1] \in Parts /\ b[l] \in Parts
  BY <1>1, <1>3
<1>5. b[l - 1].i = 1 /\ b[l].i = 2
  BY <1>2, <1>3 DEF Header
<1> QED
  BY <1>2, <1>3, <1>4, <1>5 DEF Parts, Part

\* A new state of the buffer TaskPC works on.
LEMMA BecomesKeeps ==
  ASSUME IInv, NEW p \in Ports, NEW len \in 0..MAX_UART_BUF_LEN + 1, NEW end \in BOOLEAN,
         Becomes(p, rbuf[p].Buff, len, rbuf[p].TimeOut, end)
  PROVE  /\ rbuf' \in [Ports -> RxType]
         /\ rbuf'[p].Buff = rbuf[p].Buff /\ rbuf'[p].Len = len /\ rbuf'[p].fEnd = end
         /\ \A q \in Ports \ {p} : rbuf'[q] = rbuf[q]
<1>1. rbuf \in [Ports -> RxType]
  BY DEF IInv, TypeOK, RxType
<1>2. [Buff |-> rbuf[p].Buff, Len |-> len, TimeOut |-> rbuf[p].TimeOut, fEnd |-> end] \in RxType
  BY <1>1 DEF RxType
<1> QED
  BY <1>1, <1>2 DEF Becomes

PcType == [at : {"test", "command", "write", "clear", "reset", "rest"}, port : Ports,
           request : {0, 1, NoRequest}, from : 0..MAX_UART_BUF_LEN]

LEMMA AtType ==
  ASSUME NEW at \in {"test", "command", "write", "clear", "reset", "rest"}, NEW p \in Ports
  PROVE  At(at, p) \in PcType /\ At(at, p).at = at /\ At(at, p).port = p
  BY PortsAssumption DEF At, PcType

LEMMA NextPortType ==
  ASSUME IInv PROVE NextPort \in PcType /\ NextPort.at \in {"test", "rest"}
  BY AtType DEF NextPort, IInv, TypeOK, Ports

\* The steps of TaskPC.
LEMMA TaskPCKeeps ==
  ASSUME IInv, TaskPC PROVE IInv'
<1> USE PortsAssumption
<1> DEFINE p == pc.port
           rx == rbuf[pc.port]
<1>1. p \in Ports /\ rx \in RxType /\ pc \in PcType /\ rbuf \in [Ports -> RxType]
  BY DEF IInv, TypeOK, RxType, PcType
<1>2. CASE Test
  <2>1. pc.at = "test" /\ UNCHANGED <<rbuf, g_UART_TBuf, fresh, waits, udp, line, hurried>>
    BY <1>2 DEF Test, TaskPC
  <2>2. CASE ~rx.fEnd
    <3>1. pc' = NextPort
      BY <1>2, <2>2 DEF Test
    <3>2. pc' \in PcType /\ pc'.at \in {"test", "rest"}
      BY <3>1, NextPortType
    <3>3. TypeOK'
      BY <2>1, <3>2 DEF IInv, TypeOK, PcType
    <3> QED
      BY <2>1, <3>2, <3>3 DEF IInv, Bounded, Gap, Held, NotStale, Ending
  <2>3. CASE rx.fEnd /\ Request(p) = NoRequest
    <3>1. pc' \in PcType /\ pc'.at = "clear" /\ pc'.port = p
      BY <1>1, <1>2, <2>3, AtType DEF Test
    <3>2. TypeOK'
      BY <2>1, <3>1 DEF IInv, TypeOK, PcType
    <3> QED
      BY <2>1, <3>1, <3>2 DEF IInv, Bounded, Gap, Held, NotStale, Ending
  <2>4. CASE rx.fEnd /\ Request(p) # NoRequest
    <3>1. pc' = [pc EXCEPT !.at = "command", !.request = Request(p), !.from = rx.Len - 1]
      BY <1>2, <2>4 DEF Test
    <3>2. rx.Len <= MAX_UART_BUF_LEN
      BY <1>1, <2>1 DEF IInv, Bounded, Gap, RxType
    <3>3. /\ rx.Len - 1 \in 1..MAX_UART_BUF_LEN - 1 /\ Request(p) \in {0, 1}
          /\ rx.Buff[rx.Len - 1] = Part(Request(p), 1) /\ rx.Buff[rx.Len] = Part(Request(p), 2)
          /\ rx.Buff[rx.Len].i = 2
      BY <1>1, <2>4, <3>2, RequestFound
    <3>4. /\ pc' \in PcType /\ pc'.at = "command" /\ pc'.port = p
          /\ pc'.request = Request(p) /\ pc'.from = rx.Len - 1
      <4> DEFINE from == rx.Len - 1
                 req == Request(p)
      <4>1. from \in 0..MAX_UART_BUF_LEN /\ req \in {0, 1, NoRequest}
        BY <1>1, <3>3 DEF RxType
      <4>2. pc' = [pc EXCEPT !.at = "command", !.request = req, !.from = from]
        BY <3>1
      <4> HIDE DEF from, req
      <4>3. /\ pc' \in PcType /\ pc'.at = "command" /\ pc'.port = p
            /\ pc'.request = req /\ pc'.from = from
        BY <1>1, <4>1, <4>2 DEF PcType
      <4> QED
        BY <4>3 DEF from, req
    <3>5. TypeOK'
      BY <2>1, <3>4 DEF IInv, TypeOK, PcType
    <3>6. p \in fresh
      BY <1>1, <2>1, <3>3 DEF IInv, NotStale, Ending, RxType
    <3>7. Held'
      <4>1. pc'.from + 1 = rx.Len
        BY <1>1, <3>4 DEF RxType
      <4> QED
        BY <2>1, <2>4, <3>3, <3>4, <3>6, <4>1 DEF Held
    <3> QED
      BY <2>1, <3>4, <3>5, <3>7 DEF IInv, Bounded, Gap, NotStale, Ending
  <2> QED
    BY <2>2, <2>3, <2>4
<1>3. CASE Carry
  <2>1. /\ pc.at = "command" /\ pc' = At("write", p) /\ g_UART_TBuf' = p /\ fresh' = fresh \ {p}
        /\ UNCHANGED <<rbuf, waits, udp, line, hurried>>
    BY <1>3 DEF Carry, TaskPC
  <2>2. pc' \in PcType /\ pc'.at = "write" /\ pc'.port = p
    BY <1>1, <2>1, AtType
  <2>3. TypeOK'
    BY <1>1, <2>1, <2>2 DEF IInv, TypeOK, PcType
  <2> QED
    BY <2>1, <2>2, <2>3 DEF IInv, Bounded, Gap, Held, NotStale, Ending
<1>4. CASE Write
  <2>1. /\ pc.at = "write" /\ pc' = At("clear", p) /\ waits' \subseteq waits
        /\ UNCHANGED <<rbuf, g_UART_TBuf, fresh, udp, line, hurried>>
    BY <1>4 DEF Write, TaskPC
  <2>2. pc' \in PcType /\ pc'.at = "clear" /\ pc'.port = p
    BY <1>1, <2>1, AtType
  <2>3. TypeOK'
    BY <1>1, <2>1, <2>2 DEF IInv, TypeOK, PcType
  <2> QED
    BY <2>1, <2>2, <2>3 DEF IInv, Bounded, Gap, Held, NotStale, Ending
<1>5. CASE Clear
  <2>1. /\ pc.at = "clear" /\ pc' = At("reset", p) /\ Becomes(p, rx.Buff, rx.Len, rx.TimeOut, FALSE)
        /\ UNCHANGED <<g_UART_TBuf, fresh, waits, udp, line, hurried>>
    BY <1>5 DEF Clear, TaskPC
  <2>2. pc' \in PcType /\ pc'.at = "reset" /\ pc'.port = p
    BY <1>1, <2>1, AtType
  <2>3. /\ rbuf' \in [Ports -> RxType]
        /\ rbuf'[p].Buff = rx.Buff /\ rbuf'[p].Len = rx.Len
        /\ \A q \in Ports \ {p} : rbuf'[q] = rbuf[q]
    BY <1>1, <2>1, BecomesKeeps DEF RxType
  <2>4. TypeOK'
    BY <1>1, <2>1, <2>2, <2>3 DEF IInv, TypeOK, PcType, RxType
  <2>5. Bounded'
    BY <1>1, <2>1, <2>2, <2>3 DEF IInv, Bounded, Gap
  <2>6. Held' /\ NotStale'
    BY <1>1, <2>1, <2>2, <2>3 DEF IInv, Held, NotStale, Ending
  <2> QED
    BY <2>4, <2>5, <2>6 DEF IInv
<1>6. CASE ResetLen
  <2>1. /\ pc.at = "reset" /\ pc' = NextPort /\ Becomes(p, rx.Buff, 0, rx.TimeOut, rx.fEnd)
        /\ UNCHANGED <<g_UART_TBuf, fresh, waits, udp, line, hurried>>
    BY <1>6 DEF ResetLen, TaskPC
  <2>2. pc' \in PcType /\ pc'.at \in {"test", "rest"}
    BY <2>1, NextPortType
  <2>3. /\ rbuf' \in [Ports -> RxType] /\ rbuf'[p].Len = 0
        /\ \A q \in Ports \ {p} : rbuf'[q] = rbuf[q]
    BY <1>1, <2>1, BecomesKeeps DEF RxType
  <2>4. TypeOK'
    BY <1>1, <2>1, <2>2, <2>3 DEF IInv, TypeOK, PcType, RxType
  <2>5. Bounded'
    BY <1>1, <2>1, <2>2, <2>3 DEF IInv, Bounded, Gap
  <2>6. Held' /\ NotStale'
    BY <1>1, <2>1, <2>2, <2>3 DEF IInv, Held, NotStale, Ending
  <2> QED
    BY <2>4, <2>5, <2>6 DEF IInv
<1>7. CASE Rest
  <2>1. /\ pc.at = "rest" /\ pc' = At("test", p)
        /\ UNCHANGED <<rbuf, g_UART_TBuf, fresh, waits, udp, line, hurried>>
    BY <1>7 DEF Rest, TaskPC
  <2>2. pc' \in PcType /\ pc'.at = "test" /\ pc'.port = p
    BY <1>1, <2>1, AtType
  <2>3. TypeOK'
    BY <1>1, <2>1, <2>2 DEF IInv, TypeOK, PcType
  <2> QED
    BY <2>1, <2>2, <2>3 DEF IInv, Bounded, Gap, Held, NotStale, Ending
<1> QED
  BY <1>2, <1>3, <1>4, <1>5, <1>6, <1>7 DEF TaskPC

LEMMA StepIInv == IInv /\ [Next]_vars => IInv'
<1> SUFFICES ASSUME IInv, [Next]_vars PROVE IInv'
  OBVIOUS
<1>1. CASE UDP_RemoteRec
  BY <1>1 DEF UDP_RemoteRec, UdpTake, UdpBuild, UdpSend, IInv, TypeOK, Bounded, Gap, Held, NotStale, Ending
<1>2. CASE UNCHANGED vars
  BY <1>2 DEF vars, IInv, TypeOK, Bounded, Gap, Held, NotStale, Ending
<1> QED
  BY <1>1, <1>2, LinesKeep, SysTickKeeps, TaskPCKeeps DEF Next

LEMMA Inductive == Spec => []IInv
<1>1. Init => IInv
  BY InitIInv
<1>2. IInv /\ [Next]_vars => IInv'
  BY StepIInv
<1> QED
  BY <1>1, <1>2, PTL DEF Spec

-----------------------------------------------------------------------------
(* Theorems.                                                               *)

\* The types; no byte is stored behind a buffer of any length and its padding.
THEOREM PortTypes == Spec => []TypeOK
<1>1. IInv => TypeOK
  BY DEF IInv
<1> QED
  BY <1>1, Inductive, PTL

\* A request is carried out as it came, and once for each time it is sent.
THEOREM RequestsCarriedOnce == Spec => CarriedOnce
<1>1. ASSUME IInv, Carry
      PROVE  /\ pc.port \in fresh
             /\ \A i \in {1, 2} : rbuf[pc.port].Buff[pc.from + i - 1] = Part(pc.request, i)
  <2>1. pc.from \in Nat
    BY <1>1, PortsAssumption DEF IInv, TypeOK
  <2>2. pc.from + 1 - 1 = pc.from /\ pc.from + 2 - 1 = pc.from + 1
    BY <2>1
  <2> QED
    BY <1>1, <2>2 DEF IInv, Held, Carry
<1> QED
  BY <1>1, Inductive, PTL DEF CarriedOnce

\* The reply the UDP task sends is its own: TaskPC does not run between the
\* two copies.
THEOREM UdpRepliesAreOwn == Spec => UdpReplyIsItsOwn
<1> DEFINE Own == udp = "copy" => g_UART_TBuf = "udp"
<1>1. Init => Own
  BY DEF Init
<1>2. Own /\ [Next]_vars => Own'
  BY DEF Next, vars, Transmit1, Transmit2, SecondPart, SysTick, TaskPC, PcRuns,
         UDP_RemoteRec, UdpTake, UdpBuild, UdpSend
<1>3. Own /\ UdpSend => g_UART_TBuf = "udp"
  BY DEF UdpSend
<1> QED
  BY <1>1, <1>2, <1>3, PTL DEF Spec, UdpReplyIsItsOwn
=============================================================================
