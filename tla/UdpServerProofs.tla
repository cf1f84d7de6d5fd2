--------------------------- MODULE UdpServerProofs ---------------------------
(***************************************************************************)
(* Theorems about UdpServer, for every number of sockets, set of addresses *)
(* and number of failures: the types, the server's hold on its ports, the  *)
(* bound on the sockets it loses, that one is left when it opens, and that *)
(* no address is lost.                                                     *)
(***************************************************************************)
EXTENDS UdpServer, FiniteSetTheorems, TLAPS

\* A port is bound by the socket of the server that owns it, and by no other.
PortsOwned ==
  \A s \in Fds : /\ sockets[s] = "SERPORT" => udp_connected /\ s = udpsockfd
                 /\ sockets[s] = "BCPORT" => udp_broadcast_con /\ s = udpsockfdBC

\* What the task knows of its descriptors where it is.
Descriptors ==
  /\ udp_connected => udpsockfd \in Fds
  /\ udp_broadcast_con => udpsockfdBC \in Fds
  /\ eth = "bindServer" => /\ udpsockfd \in Fds /\ sockets[udpsockfd] = "unbound"
                           /\ ~udp_connected
  /\ eth = "bindBroadcast" => /\ udpsockfdBC \in Fds /\ sockets[udpsockfdBC] = "unbound"
                              /\ ~udp_broadcast_con /\ udpsockfdBC # udpsockfd
  /\ eth \in {"broadcast", "bindBroadcast", "serve", "recom", "closeServer"} /\ udpsockfd \in Fds
       => sockets[udpsockfd] \in {"unbound", "SERPORT"}
  /\ eth \in {"closeBroadcast", "forget"} => \A s \in Fds : sockets[s] # "SERPORT"
  /\ eth = "forget" => \A s \in Fds : sockets[s] # "BCPORT"

\* Sockets nobody will bind; index 0, which is taken for an error, apart.
Astray == {s \in Fds : /\ s # 0 /\ sockets[s] = "unbound"
                       /\ ~(eth = "bindServer" /\ s = udpsockfd)
                       /\ ~(eth = "bindBroadcast" /\ s = udpsockfdBC)}
AstrayBounded == Cardinality(Astray) <= failed

IInv == TypeOK /\ PortHolder /\ PortsOwned /\ Descriptors /\ AstrayBounded

-----------------------------------------------------------------------------
(* Helpers.                                                                *)

LEMMA FdsFacts == IsFiniteSet(Fds) /\ Fds \subseteq Nat /\ -1 \notin Fds
<1>1. NUM_SOCKETS - 1 \in Int
  BY SocketsAssumption
<1>2. IsFiniteSet(Fds)
  BY <1>1, FS_Interval DEF Fds
<1> QED
  BY <1>1, <1>2 DEF Fds

\* A subset of the sockets is finite and its size a number.
LEMMA SomeSockets ==
  ASSUME NEW S, S \subseteq Fds PROVE IsFiniteSet(S) /\ Cardinality(S) \in Nat
  BY FdsFacts, FS_Subset, FS_CardinalityType

\* A smaller set of lost sockets keeps the bound, as long as no failure is
\* taken back.
LEMMA AstrayShrinks ==
  ASSUME TypeOK, TypeOK', AstrayBounded, Astray' \subseteq Astray, failed <= failed'
  PROVE  AstrayBounded'
<1>1. Astray \subseteq Fds
  BY DEF Astray
<1>2. IsFiniteSet(Astray) /\ Cardinality(Astray) \in Nat
  BY <1>1, SomeSockets
<1>3. Cardinality(Astray') <= Cardinality(Astray) /\ Cardinality(Astray') \in Nat
  BY <1>2, FS_Subset, FS_CardinalityType
<1> QED
  BY <1>2, <1>3, SocketsAssumption DEF AstrayBounded, TypeOK

\* One more lost socket is paid for by one more failure.
LEMMA AstrayGrows ==
  ASSUME TypeOK, TypeOK', AstrayBounded, NEW s \in Fds, Astray' \subseteq Astray \union {s},
         failed' = failed + 1
  PROVE  AstrayBounded'
<1>1. Astray \subseteq Fds
  BY DEF Astray
<1>2. IsFiniteSet(Astray) /\ Cardinality(Astray) \in Nat
  BY <1>1, SomeSockets
<1>3. /\ IsFiniteSet(Astray \union {s})
      /\ Cardinality(Astray \union {s}) <= Cardinality(Astray) + 1
  <2>1. /\ IsFiniteSet(Astray \union {s})
        /\ Cardinality(Astray \union {s}) = IF s \in Astray THEN Cardinality(Astray)
                                           ELSE Cardinality(Astray) + 1
    BY <1>2, FS_AddElement
  <2> QED
    BY <1>2, <2>1
<1>4. /\ Cardinality(Astray') <= Cardinality(Astray \union {s}) /\ Cardinality(Astray') \in Nat
      /\ Cardinality(Astray \union {s}) \in Nat
  BY <1>3, FS_Subset, FS_CardinalityType
<1> QED
  BY <1>2, <1>3, <1>4, SocketsAssumption DEF AstrayBounded, TypeOK

-----------------------------------------------------------------------------
LEMMA InitIInv == Init => IInv
<1> SUFFICES ASSUME Init PROVE IInv
  OBVIOUS
<1>1. TypeOK
  <2>1. 0 \in Fds
    BY SocketsAssumption DEF Fds
  <2>2. sockets \in [Fds -> {"free", "unbound", "SERPORT", "BCPORT"}]
    BY DEF Init
  <2>3. failed \in 0..Failures
    BY SocketsAssumption DEF Init
  <2>4. udp_connected \in BOOLEAN /\ udp_broadcast_con \in BOOLEAN /\ fNetRecom \in BOOLEAN
        /\ fUdpRecom \in BOOLEAN
    BY DEF Init
  <2> QED
    BY <2>1, <2>2, <2>3, <2>4 DEF Init, TypeOK
<1>2. PortHolder /\ PortsOwned /\ Descriptors
  BY DEF Init, PortHolder, PortsOwned, Descriptors
<1>3. AstrayBounded
  <2>1. Astray = {}
    BY DEF Init, Astray
  <2> QED
    BY <2>1, FS_EmptySet DEF AstrayBounded, Init
<1> QED
  BY <1>1, <1>2, <1>3 DEF IInv

\* Types after a step: each action by itself.
LEMMA TypesKept == TypeOK /\ Descriptors /\ [Next]_vars => TypeOK'
<1> SUFFICES ASSUME TypeOK, Descriptors, [Next]_vars PROVE TypeOK'
  OBVIOUS
<1> USE FdsFacts, SocketsAssumption DEF TypeOK, stack, server, broadcast, net
<1>0. failed < Failures => failed + 1 \in 0..Failures
  OBVIOUS
<1>1. ASSUME NEW fd \in Fds \union {-1}, Socket(fd)
      PROVE  /\ sockets' \in [Fds -> {"free", "unbound", "SERPORT", "BCPORT"}]
             /\ failed' \in 0..Failures
  BY <1>0, <1>1 DEF Socket, Free
<1>2. ASSUME NEW fd \in Fds, NEW port \in {"SERPORT", "BCPORT"}, NEW ok \in BOOLEAN,
             Bind(fd, port, ok)
      PROVE  /\ sockets' \in [Fds -> {"free", "unbound", "SERPORT", "BCPORT"}]
             /\ failed' \in 0..Failures
  BY <1>0, <1>2 DEF Bind
<1>3. CASE OpenServer
  <2>1. CASE udp_connected
    BY <1>3, <2>1 DEF OpenServer
  <2>2. CASE ~udp_connected
    <3>1. PICK fd \in Fds \union {-1} :
            /\ Socket(fd) /\ udpsockfd' = fd
            /\ eth' = IF fd > 0 THEN "bindServer" ELSE "broadcast"
      BY <1>3, <2>2 DEF OpenServer
    <3> QED
      BY <1>1, <1>3, <3>1 DEF OpenServer
  <2> QED
    BY <2>1, <2>2
<1>4. CASE BindServer
  <2>1. udpsockfd \in Fds
    BY <1>4 DEF BindServer, Descriptors
  <2> QED
    BY <1>2, <1>4, <2>1 DEF BindServer
<1>5. CASE OpenBroadcast
  <2>1. CASE udp_broadcast_con
    BY <1>5, <2>1 DEF OpenBroadcast
  <2>2. CASE ~udp_broadcast_con
    <3>1. PICK fd \in Fds \union {-1} :
            /\ Socket(fd) /\ udpsockfdBC' = fd
            /\ eth' = IF fd > 0 THEN "bindBroadcast" ELSE "serve"
      BY <1>5, <2>2 DEF OpenBroadcast
    <3> QED
      BY <1>1, <1>5, <3>1 DEF OpenBroadcast
  <2> QED
    BY <2>1, <2>2
<1>6. CASE BindBroadcast
  <2>1. udpsockfdBC \in Fds
    BY <1>6 DEF BindBroadcast, Descriptors
  <2> QED
    BY <1>2, <1>6, <2>1 DEF BindBroadcast
<1>7. CASE Serve \/ Recom
  BY <1>7 DEF Serve, Recom, SetAddress
<1>8. CASE CloseServer \/ CloseBroadcast
  BY <1>8 DEF CloseServer, CloseBroadcast, Close
<1>9. CASE Forget
  <2>1. 0 \in Fds
    BY DEF Fds
  <2> QED
    BY <1>9, <2>1 DEF Forget
<1>10. CASE TaskPC
  BY <1>10 DEF TaskPC, TakeNetRecom, Reset_lwipnetif, AskUdpRecom
<1>11. CASE SerialMaster \/ WebPage
  BY <1>11 DEF SerialMaster, WebPage, SetAddress
<1>12. CASE UNCHANGED vars
  BY <1>12 DEF vars
<1> QED
  BY <1>3, <1>4, <1>5, <1>6, <1>7, <1>8, <1>9, <1>10, <1>11, <1>12
     DEF Next, thread_udp_broadcast_server

\* The server's hold on its ports, its descriptors and the lost sockets after
\* a step of the server.
LEMMA OpenServerKeeps == IInv /\ TypeOK' /\ OpenServer => IInv'
<1> SUFFICES ASSUME IInv, TypeOK', OpenServer PROVE IInv'
  OBVIOUS
<1> USE FdsFacts DEF IInv
<1>1. CASE udp_connected
  <2>1. Astray' = Astray
    BY <1>1 DEF OpenServer, Astray, stack, broadcast
  <2> QED
    BY <1>1, <2>1, AstrayShrinks, SocketsAssumption
       DEF OpenServer, PortHolder, PortsOwned, Descriptors, TypeOK, AstrayBounded, stack, broadcast, net
<1>2. CASE ~udp_connected
  <2>1. PICK fd \in Fds \union {-1} :
          /\ Socket(fd) /\ udpsockfd' = fd
          /\ eth' = IF fd > 0 THEN "bindServer" ELSE "broadcast"
    BY <1>2 DEF OpenServer
  <2>2. eth = "server" /\ ~udp_connected' /\ UNCHANGED broadcast
    BY <1>2 DEF OpenServer
  <2>3. CASE fd \in Fds /\ sockets[fd] = "free" /\ sockets' = [sockets EXCEPT ![fd] = "unbound"]
             /\ failed' = failed
    <3>0. \A s \in Fds : sockets'[s] = IF s = fd THEN "unbound" ELSE sockets[s]
      BY <2>3 DEF TypeOK
    <3>1. PortHolder' /\ PortsOwned'
      <4>1. PortHolder'
        BY <2>1, <2>2, <2>3, <3>0 DEF PortHolder, Descriptors, broadcast
      <4>2. PortsOwned'
        BY <1>2, <2>1, <2>2, <2>3, <3>0 DEF PortsOwned, broadcast
      <4> QED
        BY <4>1, <4>2
    <3>2. Descriptors'
      BY <2>1, <2>2, <2>3 DEF Descriptors, TypeOK, broadcast
    <3>3. Astray' \subseteq Astray
      BY <2>1, <2>2, <2>3 DEF Astray, TypeOK, broadcast
    <3>4. failed <= failed'
      BY <2>3, SocketsAssumption DEF TypeOK
    <3> QED
      BY <3>1, <3>2, <3>3, <3>4, AstrayShrinks
  <2>4. CASE fd = -1 /\ sockets' = sockets /\ failed <= failed'
    <3>1. Astray' = Astray
      BY <2>1, <2>2, <2>4 DEF Astray, TypeOK
    <3>2. PortHolder' /\ PortsOwned' /\ Descriptors'
      <4>1. PortHolder'
        BY <2>1, <2>2, <2>4 DEF PortHolder, broadcast
      <4>2. PortsOwned'
        BY <1>2, <2>1, <2>2, <2>4 DEF PortsOwned, broadcast
      <4>3. Descriptors'
        BY <2>1, <2>2, <2>4 DEF Descriptors, broadcast
      <4> QED
        BY <4>1, <4>2, <4>3
    <3> QED
      BY <2>4, <3>1, <3>2, AstrayShrinks
  <2>5. failed \in Nat /\ failed <= failed + 1 /\ failed <= failed
    BY SocketsAssumption DEF TypeOK
  <2> QED
    BY <2>1, <2>3, <2>4, <2>5 DEF Socket, Free
<1> QED
  BY <1>1, <1>2

LEMMA BindServerKeeps == IInv /\ TypeOK' /\ BindServer => IInv'
<1> SUFFICES ASSUME IInv, TypeOK', BindServer PROVE IInv'
  OBVIOUS
<1> USE FdsFacts DEF IInv
<1>1. PICK ok \in BOOLEAN : Bind(udpsockfd, "SERPORT", ok) /\ udp_connected' = ok
  BY DEF BindServer
<1>2. /\ eth = "bindServer" /\ eth' = "broadcast" /\ udpsockfd' = udpsockfd
      /\ UNCHANGED broadcast /\ udpsockfd \in Fds /\ sockets[udpsockfd] = "unbound"
      /\ ~udp_connected
  BY DEF BindServer, Descriptors
<1>3. CASE ok /\ sockets' = [sockets EXCEPT ![udpsockfd] = "SERPORT"] /\ failed' = failed
  <2>1. PortHolder' /\ PortsOwned' /\ Descriptors'
    BY <1>1, <1>2, <1>3 DEF PortHolder, PortsOwned, Descriptors, TypeOK, broadcast
  <2>2. Astray' \subseteq Astray
    BY <1>2, <1>3 DEF Astray, TypeOK, broadcast
  <2> QED
    BY <1>3, <2>1, <2>2, AstrayShrinks, SocketsAssumption DEF TypeOK
<1>4. CASE ~ok /\ sockets' = sockets /\ failed' = failed + 1
  <2>1. PortHolder' /\ PortsOwned' /\ Descriptors'
    BY <1>1, <1>2, <1>4 DEF PortHolder, PortsOwned, Descriptors, TypeOK, broadcast
  <2>2. Astray' \subseteq Astray \union {udpsockfd}
    BY <1>2, <1>4 DEF Astray, TypeOK, broadcast
  <2> QED
    BY <1>2, <1>4, <2>1, <2>2, AstrayGrows
<1>5. ~ \E s \in Fds : sockets[s] = "SERPORT"
  BY <1>2 DEF PortsOwned
<1> QED
  BY <1>1, <1>3, <1>4, <1>5 DEF Bind

LEMMA OpenBroadcastKeeps == IInv /\ TypeOK' /\ OpenBroadcast => IInv'
<1> SUFFICES ASSUME IInv, TypeOK', OpenBroadcast PROVE IInv'
  OBVIOUS
<1> USE FdsFacts DEF IInv
<1>1. CASE udp_broadcast_con
  <2>1. Astray' = Astray
    BY <1>1 DEF OpenBroadcast, Astray, stack, server
  <2> QED
    BY <1>1, <2>1, AstrayShrinks, SocketsAssumption
       DEF OpenBroadcast, PortHolder, PortsOwned, Descriptors, TypeOK, AstrayBounded, stack, server, net
<1>2. CASE ~udp_broadcast_con
  <2>1. PICK fd \in Fds \union {-1} :
          /\ Socket(fd) /\ udpsockfdBC' = fd
          /\ eth' = IF fd > 0 THEN "bindBroadcast" ELSE "serve"
    BY <1>2 DEF OpenBroadcast
  <2>2. eth = "broadcast" /\ ~udp_broadcast_con' /\ UNCHANGED server
    BY <1>2 DEF OpenBroadcast
  <2>3. CASE fd \in Fds /\ sockets[fd] = "free" /\ sockets' = [sockets EXCEPT ![fd] = "unbound"]
             /\ failed' = failed
    <3>0. \A s \in Fds : sockets'[s] = IF s = fd THEN "unbound" ELSE sockets[s]
      BY <2>3 DEF TypeOK
    <3>1. PortHolder' /\ PortsOwned'
      <4>1. PortHolder'
        BY <2>1, <2>2, <2>3, <3>0 DEF PortHolder, Descriptors, server
      <4>2. PortsOwned'
        BY <1>2, <2>1, <2>2, <2>3, <3>0 DEF PortsOwned, server
      <4> QED
        BY <4>1, <4>2
    <3>2. Descriptors'
      BY <2>1, <2>2, <2>3 DEF Descriptors, TypeOK, server
    <3>3. Astray' \subseteq Astray
      BY <2>1, <2>2, <2>3 DEF Astray, TypeOK, server
    <3>4. failed <= failed'
      BY <2>3, SocketsAssumption DEF TypeOK
    <3> QED
      BY <3>1, <3>2, <3>3, <3>4, AstrayShrinks
  <2>4. CASE fd = -1 /\ sockets' = sockets /\ failed <= failed'
    <3>1. Astray' = Astray
      BY <2>1, <2>2, <2>4 DEF Astray, TypeOK, server
    <3>2. PortHolder' /\ PortsOwned' /\ Descriptors'
      <4>1. PortHolder'
        BY <2>1, <2>2, <2>4 DEF PortHolder, server
      <4>2. PortsOwned'
        BY <1>2, <2>1, <2>2, <2>4 DEF PortsOwned, server
      <4>3. Descriptors'
        BY <2>1, <2>2, <2>4 DEF Descriptors, server
      <4> QED
        BY <4>1, <4>2, <4>3
    <3> QED
      BY <2>4, <3>1, <3>2, AstrayShrinks
  <2>5. failed \in Nat /\ failed <= failed + 1 /\ failed <= failed
    BY SocketsAssumption DEF TypeOK
  <2> QED
    BY <2>1, <2>3, <2>4, <2>5 DEF Socket, Free
<1> QED
  BY <1>1, <1>2

LEMMA BindBroadcastKeeps == IInv /\ TypeOK' /\ BindBroadcast => IInv'
<1> SUFFICES ASSUME IInv, TypeOK', BindBroadcast PROVE IInv'
  OBVIOUS
<1> USE FdsFacts DEF IInv
<1>1. PICK ok \in BOOLEAN : Bind(udpsockfdBC, "BCPORT", ok) /\ udp_broadcast_con' = ok
  BY DEF BindBroadcast
<1>2. /\ eth = "bindBroadcast" /\ eth' = "serve" /\ udpsockfdBC' = udpsockfdBC
      /\ UNCHANGED server /\ udpsockfdBC \in Fds /\ sockets[udpsockfdBC] = "unbound"
      /\ ~udp_broadcast_con /\ udpsockfdBC # udpsockfd
  BY DEF BindBroadcast, Descriptors
<1>3. CASE ok /\ sockets' = [sockets EXCEPT ![udpsockfdBC] = "BCPORT"] /\ failed' = failed
  <2>1. PortHolder' /\ PortsOwned' /\ Descriptors'
    BY <1>1, <1>2, <1>3 DEF PortHolder, PortsOwned, Descriptors, TypeOK, server
  <2>2. Astray' \subseteq Astray
    BY <1>2, <1>3 DEF Astray, TypeOK, server
  <2> QED
    BY <1>3, <2>1, <2>2, AstrayShrinks, SocketsAssumption DEF TypeOK
<1>4. CASE ~ok /\ sockets' = sockets /\ failed' = failed + 1
  <2>1. PortHolder' /\ PortsOwned' /\ Descriptors'
    BY <1>1, <1>2, <1>4 DEF PortHolder, PortsOwned, Descriptors, TypeOK, server
  <2>2. Astray' \subseteq Astray \union {udpsockfdBC}
    BY <1>2, <1>4 DEF Astray, TypeOK, server
  <2> QED
    BY <1>2, <1>4, <2>1, <2>2, AstrayGrows
<1>5. ~ \E s \in Fds : sockets[s] = "BCPORT"
  BY <1>2 DEF PortsOwned
<1> QED
  BY <1>1, <1>3, <1>4, <1>5 DEF Bind

\* A socket closed was the server's own or a lost one.
LEMMA CloseKeeps == IInv /\ TypeOK' /\ (CloseServer \/ CloseBroadcast) => IInv'
<1> SUFFICES ASSUME IInv, TypeOK', CloseServer \/ CloseBroadcast PROVE IInv'
  OBVIOUS
<1> USE FdsFacts DEF IInv
<1>1. failed' = failed /\ failed <= failed
  BY SocketsAssumption DEF CloseServer, CloseBroadcast, Close, TypeOK
<1>2. CASE CloseServer
  <2>1. /\ eth = "closeServer" /\ eth' = "closeBroadcast" /\ UNCHANGED <<server, broadcast>>
        /\ \A s \in Fds : sockets'[s] = IF s = udpsockfd THEN "free" ELSE sockets[s]
    BY <1>2 DEF CloseServer, Close
  <2>2. PortHolder'
    BY <2>1 DEF PortHolder, Descriptors, server, broadcast
  <2>3. PortsOwned'
    BY <2>1 DEF PortsOwned, server, broadcast
  <2>4. \A s \in Fds : sockets'[s] # "SERPORT"
    BY <2>1 DEF PortsOwned
  <2>5. Descriptors'
    BY <2>1, <2>4 DEF Descriptors, server, broadcast
  <2>6. Astray' \subseteq Astray
    BY <2>1 DEF Astray, server, broadcast
  <2> QED
    BY <1>1, <2>2, <2>3, <2>5, <2>6, AstrayShrinks
<1>3. CASE CloseBroadcast
  <2>1. /\ eth = "closeBroadcast" /\ eth' = "forget" /\ UNCHANGED <<server, broadcast>>
        /\ \A s \in Fds : sockets'[s] = IF s = udpsockfdBC THEN "free" ELSE sockets[s]
    BY <1>3 DEF CloseBroadcast, Close
  <2>2. PortHolder'
    BY <2>1 DEF PortHolder
  <2>3. PortsOwned'
    BY <2>1 DEF PortsOwned, server, broadcast
  <2>4. \A s \in Fds : sockets'[s] # "SERPORT" /\ sockets'[s] # "BCPORT"
    BY <2>1 DEF PortsOwned, Descriptors
  <2>5. Descriptors'
    BY <2>1, <2>4 DEF Descriptors, server, broadcast
  <2>6. Astray' \subseteq Astray
    BY <2>1 DEF Astray, server, broadcast
  <2> QED
    BY <1>1, <2>2, <2>3, <2>5, <2>6, AstrayShrinks
<1> QED
  BY <1>2, <1>3

\* Steps that leave the sockets as they are.
LEMMA OtherSteps ==
  IInv /\ TypeOK' /\ (Serve \/ Recom \/ Forget \/ TaskPC \/ SerialMaster \/ WebPage \/ UNCHANGED vars)
    => IInv'
<1> SUFFICES ASSUME IInv, TypeOK',
                    Serve \/ Recom \/ Forget \/ TaskPC \/ SerialMaster \/ WebPage \/ UNCHANGED vars
             PROVE  IInv'
  OBVIOUS
<1> USE FdsFacts DEF IInv
<1>1. sockets' = sockets /\ failed' = failed /\ failed <= failed
  BY SocketsAssumption
     DEF Serve, Recom, Forget, TaskPC, TakeNetRecom, Reset_lwipnetif, AskUdpRecom, SerialMaster,
         WebPage, vars, stack, TypeOK
<1>2. CASE Forget
  <2>1. /\ eth = "forget" /\ eth' = "server" /\ ~udp_connected' /\ ~udp_broadcast_con'
    BY <1>2 DEF Forget
  <2>2. PortHolder' /\ PortsOwned' /\ Descriptors'
    BY <1>1, <2>1 DEF PortHolder, PortsOwned, Descriptors
  <2>3. Astray' \subseteq Astray
    BY <1>1, <2>1 DEF Astray
  <2> QED
    BY <1>1, <2>2, <2>3, AstrayShrinks
<1>3. CASE UNCHANGED <<server, broadcast>> /\ eth = "serve" /\ eth' = "recom"
  BY <1>1, <1>3, AstrayShrinks
     DEF PortHolder, PortsOwned, Descriptors, Astray, server, broadcast
<1>4. CASE UNCHANGED <<server, broadcast>> /\ eth = "recom" /\ eth' \in {"closeServer", "server"}
  <2>1. PortHolder' /\ PortsOwned'
    BY <1>1, <1>4 DEF PortHolder, PortsOwned, server, broadcast
  <2>2. Descriptors'
    BY <1>1, <1>4 DEF Descriptors, server, broadcast
  <2>3. Astray' \subseteq Astray
    BY <1>1, <1>4 DEF Astray, server, broadcast
  <2> QED
    BY <1>1, <2>1, <2>2, <2>3, AstrayShrinks
<1>5. CASE UNCHANGED <<server, broadcast, eth>>
  <2>1. PortHolder' /\ PortsOwned' /\ Descriptors' /\ Astray' = Astray
    BY <1>1, <1>5 DEF PortHolder, PortsOwned, Descriptors, Astray, server, broadcast
  <2> QED
    BY <1>1, <2>1, AstrayShrinks
<1> QED
  BY <1>2, <1>3, <1>4, <1>5
     DEF Serve, Recom, TaskPC, TakeNetRecom, Reset_lwipnetif, AskUdpRecom, SerialMaster, WebPage, vars

LEMMA StepIInv == IInv /\ [Next]_vars => IInv'
<1> SUFFICES ASSUME IInv, [Next]_vars PROVE IInv'
  OBVIOUS
<1>1. TypeOK'
  BY TypesKept DEF IInv
<1> QED
  BY <1>1, OpenServerKeeps, BindServerKeeps, OpenBroadcastKeeps, BindBroadcastKeeps, CloseKeeps,
     OtherSteps DEF Next, thread_udp_broadcast_server

LEMMA Inductive == Spec => []IInv
<1>1. Init => IInv
  BY InitIInv
<1>2. IInv /\ [Next]_vars => IInv'
  BY StepIInv
<1> QED
  BY <1>1, <1>2, PTL DEF Spec

\* The types of the variables; no descriptor is bound that was not opened.
THEOREM UdpTypes == Spec => []TypeOK
<1>1. IInv => TypeOK
  BY DEF IInv
<1> QED
  BY <1>1, Inductive, PTL

\* An open server has its own socket, bound to its own port, whatever indices
\* lwIP hands out (deinit_udp_com_server closes no other's socket).
THEOREM ServersHoldTheirPorts == Spec => []PortHolder
<1>1. IInv => PortHolder
  BY DEF IInv
<1> QED
  BY <1>1, Inductive, PTL

\* While at most one of the two sockets is in use, another is free: the lost
\* ones, index 0 and the one in use are fewer than there are.
LEMMA OneIsLeft ==
  ASSUME IInv, NEW fd,
         \A s \in Fds : sockets[s] # "free" => s \in Astray \/ s = 0 \/ s = fd
  PROVE  Free # {}
<1> SUFFICES ASSUME Free = {} PROVE FALSE
  OBVIOUS
<1>1. Astray \subseteq Fds
  BY DEF Astray
<1>2. IsFiniteSet(Astray) /\ Cardinality(Astray) \in Nat /\ Cardinality(Astray) <= failed
  BY <1>1, SomeSockets DEF IInv, AstrayBounded
<1>3. failed \in Nat /\ failed + 3 <= NUM_SOCKETS /\ NUM_SOCKETS \in Nat
  BY SocketsAssumption DEF IInv, TypeOK
<1>4. /\ IsFiniteSet(Astray \union {0})
      /\ Cardinality(Astray \union {0}) \in Nat
      /\ Cardinality(Astray \union {0}) <= Cardinality(Astray) + 1
  <2>1. /\ IsFiniteSet(Astray \union {0})
        /\ Cardinality(Astray \union {0}) = IF 0 \in Astray THEN Cardinality(Astray)
                                            ELSE Cardinality(Astray) + 1
    BY <1>2, FS_AddElement
  <2> QED
    BY <1>2, <2>1
<1>5. /\ IsFiniteSet((Astray \union {0}) \union {fd})
      /\ Cardinality((Astray \union {0}) \union {fd}) \in Nat
      /\ Cardinality((Astray \union {0}) \union {fd}) <= Cardinality(Astray \union {0}) + 1
  BY <1>4, FS_AddElement
<1>6. Fds \subseteq (Astray \union {0}) \union {fd}
  BY DEF Free
<1>7. Cardinality(Fds) = NUM_SOCKETS
  <2>1. 0 \in Int /\ NUM_SOCKETS - 1 \in Int
    BY <1>3
  <2>2. Cardinality(0..NUM_SOCKETS - 1) = IF 0 > NUM_SOCKETS - 1 THEN 0 ELSE NUM_SOCKETS - 1 - 0 + 1
    BY <2>1, FS_Interval
  <2> QED
    BY <1>3, <2>2 DEF Fds
<1>8. Cardinality(Fds) <= Cardinality((Astray \union {0}) \union {fd})
  BY <1>5, <1>6, FS_Subset
<1> QED
  BY <1>2, <1>3, <1>4, <1>5, <1>7, <1>8

\* However often the server opens its sockets again, it loses no more of
\* lwIP's than the first one and one for each call that failed, and lwIP has
\* one left whenever it opens.
THEOREM SocketsBounded == Spec => []SocketsAccounted
<1>1. IInv => SocketsAccounted
  <2> SUFFICES ASSUME IInv PROVE SocketsAccounted
    OBVIOUS
  <2> DEFINE L == {s \in Fds : sockets[s] # "free"} \ {udpsockfd, udpsockfdBC}
  <2>1. Astray \subseteq Fds
    BY DEF Astray
  <2>2. IsFiniteSet(Astray) /\ Cardinality(Astray) \in Nat /\ Cardinality(Astray) <= failed
    BY <2>1, SomeSockets DEF IInv, AstrayBounded
  <2>3. L \subseteq Astray \union {0}
    BY DEF IInv, TypeOK, PortsOwned, Astray
  <2>4. /\ IsFiniteSet(Astray \union {0})
        /\ Cardinality(Astray \union {0}) = IF 0 \in Astray THEN Cardinality(Astray)
                                            ELSE Cardinality(Astray) + 1
    BY <2>2, FS_AddElement
  <2>5. /\ Cardinality(L) <= Cardinality(Astray \union {0}) /\ Cardinality(L) \in Nat
    BY <2>3, <2>4, FS_Subset, FS_CardinalityType
  <2>6. failed \in Nat
    BY SocketsAssumption DEF IInv, TypeOK
  <2>7. eth = "server" /\ ~udp_connected => Free # {}
    <3> SUFFICES ASSUME eth = "server", ~udp_connected PROVE Free # {}
      OBVIOUS
    <3>1. \A s \in Fds : sockets[s] # "free" => s \in Astray \/ s = 0 \/ s = udpsockfdBC
      BY DEF IInv, TypeOK, PortsOwned, Astray
    <3> QED
      BY <3>1, OneIsLeft
  <2>8. eth = "broadcast" /\ ~udp_broadcast_con => Free # {}
    <3> SUFFICES ASSUME eth = "broadcast", ~udp_broadcast_con PROVE Free # {}
      OBVIOUS
    <3>1. \A s \in Fds : sockets[s] # "free" => s \in Astray \/ s = 0 \/ s = udpsockfd
      BY DEF IInv, TypeOK, PortsOwned, Astray
    <3> QED
      BY <3>1, OneIsLeft
  <2>9. Cardinality(L) <= 1 + failed
    BY <2>2, <2>4, <2>5, <2>6
  <2> QED
    BY <2>7, <2>8, <2>9 DEF SocketsAccounted
<1> QED
  BY <1>1, Inductive, PTL

\* An address a master sets is not lost, at whatever moment it is set.
THEOREM NoAddressLost == Spec => []AddressApplied
<1>1. Init => AddressApplied
  BY DEF Init, AddressApplied
<1>2. AddressApplied /\ [Next]_vars => AddressApplied'
  <2> SUFFICES ASSUME AddressApplied, [Next]_vars PROVE AddressApplied'
    OBVIOUS
  <2>1. CASE thread_udp_broadcast_server
    BY <2>1 DEF thread_udp_broadcast_server, OpenServer, BindServer, OpenBroadcast, BindBroadcast,
         Serve, Recom, CloseServer, CloseBroadcast, Forget, SetAddress, AddressApplied, net
  <2>2. CASE TaskPC
    BY <2>2 DEF TaskPC, TakeNetRecom, Reset_lwipnetif, AskUdpRecom, AddressApplied, net
  <2>3. CASE SerialMaster \/ WebPage
    BY <2>3 DEF SerialMaster, WebPage, SetAddress, AddressApplied
  <2>4. CASE UNCHANGED vars
    BY <2>4 DEF vars, net, AddressApplied
  <2> QED
    BY <2>1, <2>2, <2>3, <2>4 DEF Next
<1> QED
  BY <1>1, <1>2, PTL DEF Spec
=============================================================================
