------------------------------ MODULE UdpServer ------------------------------
(***************************************************************************)
(* The UDP server (LWIP/lwip_app/udp_demo/udp_demo.c): the task            *)
(* thread_udp_broadcast_server keeps two sockets of lwIP open, the         *)
(* server's and the broadcast's, and closes and opens them again when      *)
(* TaskPC has given the network interface a new address.  A master sets    *)
(* the address over UDP, a serial line or the web pages.                   *)
(*                                                                         *)
(* A call of a socket function waits for lwIP's thread, so the other tasks *)
(* run between any two of them.                                            *)
(***************************************************************************)
EXTENDS Integers, FiniteSets

CONSTANTS
  NUM_SOCKETS,  \* sockets of lwIP (MEMP_NUM_NETCONN, 4)
  Addresses,    \* IP addresses a master sets
  Failures      \* bound: calls of socket() and bind() that fail for lack of memory

\* One socket is lost at the start, two are wanted; each failure loses one.
ASSUME SocketsAssumption ==
  /\ NUM_SOCKETS \in Nat /\ Failures \in Nat /\ Failures + 3 <= NUM_SOCKETS
  /\ Addresses # {}

VARIABLES
  sockets,            \* what each socket of lwIP is: "free", "unbound" or its port
  failed,             \* calls that failed so far
  udpsockfd, udpsockfdBC,
  udp_connected, udp_broadcast_con,
  eth,                \* where thread_udp_broadcast_server is
  pc,                 \* where TaskPC is
  fNetRecom, fUdpRecom,
  IP_Addr,            \* the address in the configuration
  lwip_netif          \* the address of the interface

stack == <<sockets, failed>>
server == <<udpsockfd, udp_connected>>
broadcast == <<udpsockfdBC, udp_broadcast_con>>
net == <<fNetRecom, IP_Addr, lwip_netif>>
vars == <<stack, server, broadcast, eth, pc, fUdpRecom, net>>

Fds == 0..NUM_SOCKETS - 1

-----------------------------------------------------------------------------
(* lwIP.                                                                   *)

\* socket(): the first free index, or -1 where there is none or no memory.
Free == {s \in Fds : sockets[s] = "free"}
Socket(fd) ==
  \/ /\ Free # {} /\ fd \in Free /\ \A s \in Free : fd <= s
     /\ sockets' = [sockets EXCEPT ![fd] = "unbound"]
     /\ UNCHANGED failed
  \/ /\ fd = -1 /\ (Free = {} \/ failed < Failures)
     /\ failed' = IF Free = {} THEN failed ELSE failed + 1
     /\ UNCHANGED sockets

\* bind(): refused where another socket has the port.
Bind(fd, port, ok) ==
  \/ /\ ok /\ \A s \in Fds : sockets[s] # port
     /\ sockets' = [sockets EXCEPT ![fd] = port]
     /\ UNCHANGED failed
  \/ /\ ~ok /\ \E s \in Fds : sockets[s] = port
     /\ UNCHANGED stack
  \/ /\ ~ok /\ failed < Failures
     /\ failed' = failed + 1
     /\ UNCHANGED sockets

\* close(): an index that is not open is refused.
Close(fd) ==
  /\ sockets' = [s \in Fds |-> IF s = fd THEN "free" ELSE sockets[s]]
  /\ UNCHANGED failed

-----------------------------------------------------------------------------
(* thread_udp_broadcast_server.                                            *)

\* Mistake: a server that is open is opened again.
OpenAnyServer ==
  /\ eth = "server"
  /\ \E fd \in Fds \union {-1} :
       /\ Socket(fd) /\ udpsockfd' = fd
       /\ eth' = IF fd > 0 THEN "bindServer" ELSE "broadcast"
  /\ UNCHANGED <<udp_connected, broadcast, pc, fUdpRecom, net>>

\* init_udp_com_server: an open server stays; index 0 is taken for an error,
OpenServer ==
  /\ eth = "server"
  /\ IF udp_connected
     THEN eth' = "broadcast" /\ UNCHANGED <<stack, udpsockfd>>
     ELSE \E fd \in Fds \union {-1} :
            /\ Socket(fd) /\ udpsockfd' = fd
            /\ eth' = IF fd > 0 THEN "bindServer" ELSE "broadcast"
  /\ UNCHANGED <<udp_connected, broadcast, pc, fUdpRecom, net>>

\* and a socket that cannot be bound is not closed.
BindServer ==
  /\ eth = "bindServer" /\ eth' = "broadcast"
  /\ \E ok \in BOOLEAN : Bind(udpsockfd, "SERPORT", ok) /\ udp_connected' = ok
  /\ UNCHANGED <<udpsockfd, broadcast, pc, fUdpRecom, net>>

\* Mistake: what socket() returns is not looked at.
OpenUnchecked ==
  /\ eth = "broadcast"
  /\ IF udp_broadcast_con
     THEN eth' = "serve" /\ UNCHANGED <<stack, udpsockfdBC>>
     ELSE \E fd \in Fds \union {-1} :
            Socket(fd) /\ udpsockfdBC' = fd /\ eth' = "bindBroadcast"
  /\ UNCHANGED <<udp_broadcast_con, server, pc, fUdpRecom, net>>

\* init_udp_broadcast, in the same way.
OpenBroadcast ==
  /\ eth = "broadcast"
  /\ IF udp_broadcast_con
     THEN eth' = "serve" /\ UNCHANGED <<stack, udpsockfdBC>>
     ELSE \E fd \in Fds \union {-1} :
            /\ Socket(fd) /\ udpsockfdBC' = fd
            /\ eth' = IF fd > 0 THEN "bindBroadcast" ELSE "serve"
  /\ UNCHANGED <<udp_broadcast_con, server, pc, fUdpRecom, net>>

BindBroadcast ==
  /\ eth = "bindBroadcast" /\ eth' = "serve"
  /\ \E ok \in BOOLEAN : Bind(udpsockfdBC, "BCPORT", ok) /\ udp_broadcast_con' = ok
  /\ UNCHANGED <<udpsockfdBC, server, pc, fUdpRecom, net>>

\* INFO_IP_ADDR: the address is stored and TaskPC asked to apply it.
SetAddress(a) ==
  /\ IP_Addr' = a /\ fNetRecom' = TRUE
  /\ UNCHANGED lwip_netif

\* The two loops: no request, one that does not change the address, or one
\* that does.
Serve ==
  /\ eth = "serve" /\ eth' = "recom"
  /\ \/ UNCHANGED net
     \/ udp_connected /\ \E a \in Addresses : SetAddress(a)
  /\ UNCHANGED <<stack, server, broadcast, pc, fUdpRecom>>

\* TaskPC has a lower priority: the test and the reset are one step.
Recom ==
  /\ eth = "recom"
  /\ eth' = IF fUdpRecom THEN "closeServer" ELSE "server"
  /\ fUdpRecom' = FALSE
  /\ UNCHANGED <<stack, server, broadcast, pc, net>>

\* deinit_udp_com_server.
CloseServer ==
  /\ eth = "closeServer" /\ eth' = "closeBroadcast"
  /\ Close(udpsockfd)
  /\ UNCHANGED <<server, broadcast, pc, fUdpRecom, net>>

\* Mistake: the broadcast socket is left open.
LeaveBroadcast ==
  /\ eth = "closeBroadcast" /\ eth' = "forget"
  /\ UNCHANGED <<stack, server, broadcast, pc, fUdpRecom, net>>

CloseBroadcast ==
  /\ eth = "closeBroadcast" /\ eth' = "forget"
  /\ Close(udpsockfdBC)
  /\ UNCHANGED <<server, broadcast, pc, fUdpRecom, net>>

\* Mistake: the broadcast still counts as open.
ForgetServer ==
  /\ eth = "forget" /\ eth' = "server"
  /\ udpsockfd' = 0 /\ udpsockfdBC' = 0
  /\ udp_connected' = FALSE
  /\ UNCHANGED <<stack, udp_broadcast_con, pc, fUdpRecom, net>>

Forget ==
  /\ eth = "forget" /\ eth' = "server"
  /\ udpsockfd' = 0 /\ udpsockfdBC' = 0
  /\ udp_connected' = FALSE /\ udp_broadcast_con' = FALSE
  /\ UNCHANGED <<stack, pc, fUdpRecom, net>>

thread_udp_broadcast_server ==
  \/ OpenServer \/ BindServer \/ OpenBroadcast \/ BindBroadcast \/ Serve \/ Recom
  \/ CloseServer \/ CloseBroadcast \/ Forget

-----------------------------------------------------------------------------
(* TaskPC and the other masters.                                           *)

\* fNetRecom is cleared first,
TakeNetRecom ==
  /\ pc = "poll" /\ fNetRecom
  /\ fNetRecom' = FALSE /\ pc' = "reset"
  /\ UNCHANGED <<stack, server, broadcast, eth, fUdpRecom, IP_Addr, lwip_netif>>

\* then InitNet (the MAC, which does not change) and, with interrupts off,
\* the address,
Reset_lwipnetif ==
  /\ pc = "reset" /\ pc' = "ask"
  /\ lwip_netif' = IP_Addr
  /\ UNCHANGED <<stack, server, broadcast, eth, fUdpRecom, fNetRecom, IP_Addr>>

\* Mistake: fNetRecom is cleared when all is done.
AskAndClear ==
  /\ pc = "ask" /\ pc' = "poll"
  /\ fUdpRecom' = TRUE /\ fNetRecom' = FALSE
  /\ UNCHANGED <<stack, server, broadcast, eth, IP_Addr, lwip_netif>>

\* and the server is asked to open its sockets again.
AskUdpRecom ==
  /\ pc = "ask" /\ pc' = "poll"
  /\ fUdpRecom' = TRUE
  /\ UNCHANGED <<stack, server, broadcast, eth, net>>

TaskPC == TakeNetRecom \/ Reset_lwipnetif \/ AskUdpRecom

\* A serial master, whose request TaskPC itself handles.
SerialMaster ==
  /\ pc = "poll" /\ \E a \in Addresses : SetAddress(a)
  /\ UNCHANGED <<stack, server, broadcast, eth, pc, fUdpRecom>>

\* The web pages, in lwIP's thread, of a higher priority than both tasks.
WebPage ==
  /\ \E a \in Addresses : SetAddress(a)
  /\ UNCHANGED <<stack, server, broadcast, eth, pc, fUdpRecom>>

-----------------------------------------------------------------------------
Init ==
  /\ sockets = [s \in Fds |-> "free"] /\ failed = 0
  /\ udpsockfd = 0 /\ udpsockfdBC = 0
  /\ udp_connected = FALSE /\ udp_broadcast_con = FALSE
  /\ eth = "server" /\ pc = "poll"
  /\ fNetRecom = FALSE /\ fUdpRecom = FALSE
  /\ IP_Addr \in Addresses /\ lwip_netif = IP_Addr

Next == thread_udp_broadcast_server \/ TaskPC \/ SerialMaster \/ WebPage

\* Both tasks sleep 50 ms in each turn of their loops, so each gets its turn.
Spec ==
  /\ Init /\ [][Next]_vars
  /\ WF_vars(thread_udp_broadcast_server) /\ WF_vars(TaskPC)

-----------------------------------------------------------------------------
(* Properties.                                                             *)

TypeOK ==
  /\ sockets \in [Fds -> {"free", "unbound", "SERPORT", "BCPORT"}]
  /\ failed \in 0..Failures
  /\ udpsockfd \in Fds \union {-1} /\ udpsockfdBC \in Fds \union {-1}
  /\ udp_connected \in BOOLEAN /\ udp_broadcast_con \in BOOLEAN
  /\ (eth = "bindServer" => udpsockfd > 0) /\ (eth = "bindBroadcast" => udpsockfdBC > 0)
  /\ eth \in {"server", "bindServer", "broadcast", "bindBroadcast", "serve", "recom",
              "closeServer", "closeBroadcast", "forget"}
  /\ pc \in {"poll", "reset", "ask"}
  /\ fNetRecom \in BOOLEAN /\ fUdpRecom \in BOOLEAN
  /\ IP_Addr \in Addresses /\ lwip_netif \in Addresses

\* Whatever the indices lwIP hands out and takes back, a server that counts
\* as open has its own socket and port (udp_demo.c:124, 170), except while
\* the two are being closed.
PortHolder ==
  /\ udp_connected /\ eth \notin {"closeBroadcast", "forget"} => sockets[udpsockfd] = "SERPORT"
  /\ udp_broadcast_con /\ eth # "forget" => sockets[udpsockfdBC] = "BCPORT"

\* Of lwIP's sockets, those lost to the server are no more than the first one
\* and one for each failed call, however often it opens again (udp_demo.c:41-62),
\* and whenever it opens one (41, 70) there is one left for it.
SocketsAccounted ==
  /\ Cardinality({s \in Fds : sockets[s] # "free"} \ {udpsockfd, udpsockfdBC}) <= 1 + failed
  /\ eth = "server" /\ ~udp_connected => Free # {}
  /\ eth = "broadcast" /\ ~udp_broadcast_con => Free # {}

\* An address a master sets is not lost: unless TaskPC is, or will be, at it,
\* the interface has the address of the configuration (TaskPC.c:276-284).
AddressApplied == pc # "reset" /\ ~fNetRecom => lwip_netif = IP_Addr

\* Once the masters leave the address alone, both servers open and stay open
\* (udp_demo.c:200-216).  While each turn of the loop closes them, the server
\* may never open: closing frees index 0, which is taken for an error again.
Served == <>[]~fNetRecom => <>[](udp_connected /\ udp_broadcast_con)
=============================================================================
