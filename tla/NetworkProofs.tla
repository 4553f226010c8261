--------------------------- MODULE NetworkProofs ---------------------------
(***************************************************************************)
(* Theorems about the sockets of the program, for any number of            *)
(* connections, numbers and requests: the types, that a number given out   *)
(* between the two closes of a connection is all that disturbs a socket    *)
(* and keeps the server from serving each connection as if it were alone,  *)
(* and that no search is dropped, whatever calls the system fails.         *)
(***************************************************************************)
EXTENDS Network, TLAPS

(***************************************************************************)
(* What a number stands for tells its owner.                               *)
(***************************************************************************)
LEMMA Owners ==
  /\ \A c \in Conn : ConnFile(c) # Free /\ ConnFile(c) # TcpFile /\ ConnFile(c) # UdpFile
  /\ \A u \in User : TempFile(u) # Free /\ TempFile(u) # TcpFile /\ TempFile(u) # UdpFile
  /\ \A c \in Conn, u \in User : ConnFile(c) # TempFile(u)
  /\ \A c, d \in Conn : ConnFile(c) = ConnFile(d) => c = d
  /\ \A u, v \in User : TempFile(u) = TempFile(v) => u = v
  /\ UdpFile # Free /\ UdpFile # TcpFile /\ TcpFile # Free
BY DEF ConnFile, TempFile, Free, TcpFile, UdpFile

\* The socket of each thread is its own as long as no number was reused.
HoldsOwn(c) ==
  /\ rpc[c] \in {"call", "recv", "lookup", "reply", "shutdown", "close"}
       => fd[sock[c]] = ConnFile(c)
  /\ rpc[c] \in {"shutdown2", "close2"} => fd[sock[c]] = Free
  /\ rpc[c] \in {"shutdown", "close"} => link[c] # "open"

Undisturbed == /\ \A c \in Conn : link[c] # "shut"
               /\ \A c \in Conn : rpc[c] # "lost" /\ at[c] \in {c, "nothing"}
               /\ astray = {}

UsersHoldOwn == \A u \in User : temp[u] # NoFd => fd[temp[u]] = TempFile(u)

UdpHoldsOwn == udpSock # NoFd => fd[udpSock] = UdpFile

Owned ==
  ~reused => /\ \A c \in Conn : HoldsOwn(c)
             /\ UsersHoldOwn
             /\ UdpHoldsOwn
             /\ Undisturbed

\* A search comes once the UDP server has its socket, and while it lives.
SearchOrder ==
  /\ joined => main \notin {"start", "bind", "udp", "callback", "join"}
  /\ joined \/ main \in {"callback", "join"} => upc # "none" \/ main = "down"
  /\ main = "down" => udpSock = NoFd
  /\ upc = "answer" => search = "taken"
  /\ search # "idle" => joined /\ main # "down"

-----------------------------------------------------------------------------
LEMMA TypeInit == Init => TypeOK
<1> SUFFICES ASSUME Init PROVE TypeOK
  OBVIOUS
<1> USE NetworkAssumption DEF Init
<1>1. PeersTypeOK
  BY DEF PeersTypeOK
<1>2. ThreadsTypeOK
  BY DEF ThreadsTypeOK, ReceiveControl
<1>3. LookingTypeOK
  BY DEF LookingTypeOK, NoFd
<1>4. ServerTypeOK
  <2>1. main \in MainControl /\ enabled \in BOOLEAN /\ bound \in BOOLEAN
    BY DEF MainControl
  <2>2. /\ enables \in 0 .. MaxEnables /\ listens \in 0 .. enables
        /\ accepters \in Nat /\ errors \in Nat /\ accepters + errors <= listens
        /\ main = "start" /\ enables = 0
    OBVIOUS
  <2>3. QED
    BY <2>1, <2>2 DEF ServerTypeOK
<1>5. UdpTypeOK
  BY DEF UdpTypeOK
<1>6. fd \in [Fd -> File] /\ reused \in BOOLEAN
  BY DEF File
<1>7. QED
  BY <1>1, <1>2, <1>3, <1>4, <1>5, <1>6 DEF TypeOK

LEMMA CloseKeepsTypes ==
  ASSUME TypeOK, NEW n, CloseNumber(n)
  PROVE  /\ fd' \in [Fd -> File] /\ reused' \in BOOLEAN
         /\ link' \in [Conn -> {"away", "open", "left", "shut"}]
<1>1. fd' \in [Fd -> File] /\ reused' \in BOOLEAN
  BY DEF CloseNumber, TypeOK, File
<1>2. link' \in [Conn -> {"away", "open", "left", "shut"}]
  BY DEF CloseNumber, TypeOK, PeersTypeOK
<1>3. QED
  BY <1>1, <1>2

LEMMA DieKeepsTypes ==
  ASSUME TypeOK, Die
  PROVE  TypeOK'
<1> USE NetworkAssumption DEF Die, TypeOK
<1>1. PeersTypeOK'
  BY DEF PeersTypeOK
<1>2. ThreadsTypeOK'
  BY DEF ThreadsTypeOK, ReceiveControl
<1>3. LookingTypeOK'
  BY DEF LookingTypeOK, NoFd
<1>4. ServerTypeOK'
  <2>1. main' \in MainControl /\ main' \notin {"start", "bind", "listen"}
    BY DEF MainControl
  <2>2. enabled' \in BOOLEAN /\ bound' \in BOOLEAN
    BY DEF ServerTypeOK
  <2>3. /\ enables' \in 0 .. MaxEnables /\ listens' \in 0 .. enables'
        /\ accepters' \in Nat /\ errors' \in Nat
        /\ accepters' + errors' <= listens'
    BY DEF ServerTypeOK
  <2>4. QED
    BY <2>1, <2>2, <2>3 DEF ServerTypeOK
<1>5. UdpTypeOK'
  BY DEF UdpTypeOK
<1>6. fd' \in [Fd -> File] /\ reused' \in BOOLEAN
  BY DEF File
<1>7. QED
  BY <1>1, <1>2, <1>3, <1>4, <1>5, <1>6

LEMMA TypeLookUp ==
  ASSUME TypeOK, NEW u \in User, LookUp(u)
  PROVE  TypeOK'
<1> USE NetworkAssumption
    DEF PeersTypeOK, ThreadsTypeOK, ServerTypeOK, UdpTypeOK, peers, threads,
        server, counts, udp
<1>1. CASE OpenTemp(u)
  <2>1. LookingTypeOK'
    BY <1>1 DEF OpenTemp, LookingTypeOK, TypeOK, NoFd
  <2>2. fd' \in [Fd -> File] /\ reused' \in BOOLEAN
    <3>1. CASE UNCHANGED table
      BY <3>1 DEF table, TypeOK
    <3>2. ASSUME NEW n \in Fd, OpenNumber(n, TempFile(u))
          PROVE  fd' \in [Fd -> File] /\ reused' \in BOOLEAN
      BY <3>2 DEF OpenNumber, TypeOK, File
    <3>3. QED
      BY <1>1, <3>1, <3>2 DEF OpenTemp
  <2>3. QED
    BY <1>1, <2>1, <2>2 DEF OpenTemp, TypeOK
<1>2. CASE CloseTemp(u)
  <2>1. LookingTypeOK'
    BY <1>2 DEF CloseTemp, LookingTypeOK, TypeOK, NoFd
  <2>2. /\ fd' \in [Fd -> File] /\ reused' \in BOOLEAN
        /\ link' \in [Conn -> {"away", "open", "left", "shut"}]
    BY <1>2, CloseKeepsTypes DEF CloseTemp
  <2>3. QED
    BY <1>2, <2>1, <2>2 DEF CloseTemp, TypeOK
<1>3. QED
  BY <1>1, <1>2 DEF LookUp

LEMMA TypeMain == TypeOK /\ Main => TypeOK'
<1> SUFFICES ASSUME TypeOK, Main PROVE TypeOK'
  OBVIOUS
<1> USE NetworkAssumption
    DEF TypeOK, PeersTypeOK, ThreadsTypeOK, LookingTypeOK, ServerTypeOK,
        UdpTypeOK, File, MainControl, table, peers, threads, looking, server, counts, udp,
        MainGoto, OpenNumber, User
<1>1. CASE OpenServer
  BY <1>1 DEF OpenServer
<1>2. CASE BindServer
  BY <1>2 DEF BindServer
<1>3. CASE Listen
  BY <1>3 DEF Listen
<1>4. CASE OpenUdp
  BY <1>4 DEF OpenUdp
<1>5. CASE SetCallback
  BY <1>5 DEF SetCallback
<1>6. CASE JoinGroup
  <2>1. LookingTypeOK'
    BY <1>6 DEF JoinGroup
  <2>2. UdpTypeOK'
    BY <1>6 DEF JoinGroup
  <2>3. QED
    BY <1>6, <2>1, <2>2 DEF JoinGroup
<1>7. CASE AddDevice
  BY <1>7 DEF AddDevice
<1>8. CASE Disable
  BY <1>8 DEF Disable
<1>9. CASE EnableAgain
  BY <1>9 DEF EnableAgain
<1>10. CASE LookUp("main")
  BY <1>10, TypeLookUp
<1> HIDE DEF TypeOK
<1>11. QED
  BY Zenon, <1>1, <1>2, <1>3, <1>4, <1>5, <1>6, <1>7, <1>8, <1>9, <1>10 DEF Main

LEMMA TypePeer ==
  ASSUME TypeOK, NEW c \in Conn, Connect(c) \/ Ask(c) \/ Leave(c) \/ Accept(c) \/ GiveUp(c)
  PROVE  TypeOK'
<1> USE NetworkAssumption
    DEF TypeOK, PeersTypeOK, ThreadsTypeOK, LookingTypeOK, ServerTypeOK,
        UdpTypeOK, File, ReceiveControl, MainControl, table, peers, threads,
        looking, server, counts, udp, Goto, OpenNumber, User
<1>1. CASE Connect(c)
  BY <1>1 DEF Connect
<1>2. CASE Ask(c)
  BY <1>2 DEF Ask
<1>3. CASE Leave(c)
  BY <1>3 DEF Leave
<1>4. CASE Accept(c)
  BY <1>4 DEF Accept
<1>5. CASE GiveUp(c)
  BY <1>5 DEF GiveUp, AcceptThreadEnds
<1> HIDE DEF TypeOK
<1>6. QED
  BY Zenon, <1>1, <1>2, <1>3, <1>4, <1>5

LEMMA TypeAcceptFails == TypeOK /\ AcceptFails => TypeOK'
BY DEF AcceptFails, AcceptThreadEnds, TypeOK, PeersTypeOK, ThreadsTypeOK,
       LookingTypeOK, ServerTypeOK, UdpTypeOK, table, peers, looking, udp

LEMMA TypeThread ==
  ASSUME TypeOK, NEW c \in Conn, Thread(c)
  PROVE  TypeOK'
<1> USE NetworkAssumption
    DEF TypeOK, PeersTypeOK, ThreadsTypeOK, LookingTypeOK, ServerTypeOK,
        UdpTypeOK, File, ReceiveControl, MainControl, table, peers, threads,
        looking, server, counts, udp, Goto, OpenNumber, User
<1>1. CASE CallRecv(c)
  <2>1. ThreadsTypeOK'
    <3>1. \/ \E d \in Conn : at' = [at EXCEPT ![c] = d] /\ rpc' = [rpc EXCEPT ![c] = "recv"]
          \/ at' = at /\ \E l \in {"lost", "shutdown"} : rpc' = [rpc EXCEPT ![c] = l]
      BY <1>1 DEF CallRecv
    <3>2. rpc[c] = "call" /\ sock' = sock
      BY <1>1 DEF CallRecv
    <3>3. QED
      BY <3>1, <3>2
  <2>2. QED
    BY <1>1, <2>1 DEF CallRecv
<1>2. CASE Receive(c)
  <2>1. PeersTypeOK'
    BY <1>2 DEF Receive
  <2>2. ThreadsTypeOK'
    BY <1>2 DEF Receive, HandlingOf, Kinds
  <2>3. LookingTypeOK'
    BY <1>2 DEF Receive
  <2>4. QED
    BY <1>2, <2>1, <2>2, <2>3 DEF Receive
<1>3. CASE LookUp(c)
  BY <1>3, TypeLookUp
<1>4. CASE LookedUp(c)
  BY <1>4 DEF LookedUp
<1>5. CASE Send(c)
  BY <1>5 DEF Send
<1>6. CASE SendKills(c)
  BY <1>6, DieKeepsTypes DEF SendKills
<1>7. CASE RecvEnds(c)
  BY <1>7 DEF RecvEnds
<1>8. CASE Shutdown(c)
  BY <1>8 DEF Shutdown, ShutdownNumber
<1>9. CASE Close(c)
  <2>1. /\ fd' \in [Fd -> File] /\ reused' \in BOOLEAN
        /\ link' \in [Conn -> {"away", "open", "left", "shut"}]
    BY <1>9, CloseKeepsTypes DEF Close
  <2>2. ThreadsTypeOK'
    BY <1>9 DEF Close, NoFd
  <2>3. QED
    BY <1>9, <2>1, <2>2 DEF Close
<1> HIDE DEF TypeOK
<1>10. QED
  BY Zenon, <1>1, <1>2, <1>3, <1>4, <1>5, <1>6, <1>7, <1>8, <1>9 DEF Thread

LEMMA TypeUdp == TypeOK /\ (Udp \/ Search) => TypeOK'
<1> SUFFICES ASSUME TypeOK, Udp \/ Search PROVE TypeOK'
  OBVIOUS
<1> USE NetworkAssumption
    DEF TypeOK, PeersTypeOK, ThreadsTypeOK, LookingTypeOK, ServerTypeOK,
        UdpTypeOK, File, table, peers, threads, looking, server, counts, udp, UdpGoto,
        OpenNumber, User
<1>1. CASE TakeSearch
  BY <1>1 DEF TakeSearch
<1>2. CASE LookUp("udp")
  BY <1>2, TypeLookUp
<1>3. CASE AnswerSearch
  BY <1>3 DEF AnswerSearch
<1>4. CASE SendToFails
  BY <1>4 DEF SendToFails
<1>5. CASE RecvFromFails
  BY <1>5 DEF RecvFromFails
<1>6. CASE Search
  BY <1>6 DEF Search
<1> HIDE DEF TypeOK
<1>7. QED
  BY Zenon, <1>1, <1>2, <1>3, <1>4, <1>5, <1>6 DEF Udp, Answering

LEMMA TypeStep == TypeOK /\ [Next]_vars => TypeOK'
<1> SUFFICES ASSUME TypeOK, [Next]_vars PROVE TypeOK'
  OBVIOUS
<1>1. CASE Main
  BY <1>1, TypeMain
<1>2. ASSUME NEW c \in Conn,
             Connect(c) \/ Ask(c) \/ Leave(c) \/ Accept(c) \/ GiveUp(c)
      PROVE  TypeOK'
  BY <1>2, TypePeer
<1>3. ASSUME NEW c \in Conn, Thread(c) PROVE TypeOK'
  BY <1>3, TypeThread
<1>4. CASE Udp \/ Search
  BY <1>4, TypeUdp
<1>5. CASE UNCHANGED vars
  BY <1>5
     DEF vars, table, peers, threads, looking, server, counts, udp, TypeOK, PeersTypeOK,
         ThreadsTypeOK, LookingTypeOK, ServerTypeOK, UdpTypeOK
<1>6. CASE AcceptFails
  BY <1>6, TypeAcceptFails
<1>7. QED
  BY Zenon, <1>1, <1>2, <1>3, <1>4, <1>5, <1>6 DEF Next

(***************************************************************************)
(* Type correctness: among others, a receive thread that is under way has  *)
(* a number, and there are never more accept threads than calls of Listen  *)
(* that did not fail, less the calls of accept that did                    *)
(* (tcpserver.hpp:48-86, tcpsocket.hpp:97-118).                            *)
(***************************************************************************)
THEOREM TypeCorrect == Spec => []TypeOK
BY TypeInit, TypeStep, PTL DEF Spec

-----------------------------------------------------------------------------
(***************************************************************************)
(* How opening and closing a number leaves what others hold.               *)
(***************************************************************************)
LEMMA OpenSpares ==
  ASSUME TypeOK, Owned, NEW n \in Fd, NEW file, OpenNumber(n, file), ~reused'
  PROVE  /\ ~reused /\ fd[n] = Free /\ fd'[n] = file
         /\ \A m \in Fd : m # n => fd'[m] = fd[m]
         /\ \A c \in Conn : rpc[c] \notin {"none", "deleted"} => sock[c] # n
         /\ \A u \in User : temp[u] # NoFd => temp[u] # n
         /\ udpSock # NoFd => udpSock # n
<1>1. /\ ~reused /\ ~SecondCloseDue(n) /\ fd[n] = Free
      /\ fd' = [fd EXCEPT ![n] = file]
  BY DEF OpenNumber, LowestFree
<1>2. fd'[n] = file /\ \A m \in Fd : m # n => fd'[m] = fd[m]
  BY <1>1 DEF TypeOK
<1>3. ASSUME NEW c \in Conn, rpc[c] \notin {"none", "deleted"}, sock[c] = n
      PROVE  FALSE
  <2>1. rpc[c] \in ReceiveControl /\ rpc[c] # "lost"
    BY <1>1 DEF TypeOK, ThreadsTypeOK, Owned, Undisturbed
  <2>2. rpc[c] \notin {"shutdown2", "close2"}
    BY <1>1, <1>3 DEF SecondCloseDue
  <2>3. fd[sock[c]] = ConnFile(c)
    BY <1>1, <1>3, <2>1, <2>2 DEF Owned, HoldsOwn, ReceiveControl
  <2>4. QED
    BY <1>1, <1>3, <2>3, Owners
<1>4. ASSUME NEW u \in User, temp[u] # NoFd, temp[u] = n PROVE FALSE
  BY <1>1, <1>4, Owners DEF Owned, UsersHoldOwn
<1>5. udpSock # NoFd => udpSock # n
  BY <1>1, Owners DEF Owned, UdpHoldsOwn
<1>6. QED
  BY <1>1, <1>2, <1>3, <1>4, <1>5

LEMMA CloseSpares ==
  ASSUME TypeOK, NEW n \in Fd, CloseNumber(n)
  PROVE  /\ fd'[n] = Free
         /\ \A m \in Fd : m # n => fd'[m] = fd[m]
         /\ reused' = reused
         /\ \A c \in Conn : fd[n] # ConnFile(c) \/ link[c] # "open" => link'[c] = link[c]
<1>1. fd'[n] = Free /\ reused' = reused /\ \A m \in Fd : m # n => fd'[m] = fd[m]
  BY DEF CloseNumber
<1>2. ASSUME NEW c \in Conn, fd[n] # ConnFile(c) \/ link[c] # "open"
      PROVE  link'[c] = link[c]
  <2>1. c \notin Open(n)
    BY <1>2 DEF Open
  <2>2. QED
    BY <2>1 DEF CloseNumber
<1>3. QED
  BY <1>1, <1>2

\* A step that leaves numbers, threads and connections alone.
LEMMA OwnedStays ==
  ASSUME TypeOK, Owned, UNCHANGED << fd, reused, rpc, sock, at, temp, udpSock >>,
         astray' = astray,
         \A c \in Conn : link'[c] = link[c] \/ link'[c] = "left"
  PROVE  Owned'
BY DEF Owned, HoldsOwn, UsersHoldOwn, UdpHoldsOwn, Undisturbed

LEMMA OwnedOpen ==
  ASSUME TypeOK, Owned, NEW n \in Fd, NEW file, OpenNumber(n, file), ~reused',
         UNCHANGED << rpc, sock, at, link, astray >>
  PROVE  (\A c \in Conn : HoldsOwn(c)') /\ Undisturbed'
<1>1. ~reused
  BY OpenSpares
<1>2. ASSUME NEW c \in Conn PROVE HoldsOwn(c)'
  <2>1. rpc[c] \notin {"none", "deleted"} => fd'[sock[c]] = fd[sock[c]]
    BY OpenSpares DEF TypeOK, ThreadsTypeOK
  <2>2. QED
    BY <1>1, <2>1 DEF Owned, HoldsOwn
<1>3. QED
  BY <1>1, <1>2 DEF Owned, Undisturbed

LEMMA OwnedLookUp ==
  ASSUME TypeOK, Owned, NEW u \in User, LookUp(u)
  PROVE  Owned'
<1> SUFFICES ASSUME ~reused' PROVE Owned'
  BY DEF Owned
<1> USE DEF table, peers, threads, looking, server, counts, udp
<1>1. CASE OpenTemp(u)
  <2>1. CASE UNCHANGED << table, temp >>
    BY <1>1, <2>1, OwnedStays DEF OpenTemp
  <2>2. ASSUME NEW n \in Fd, OpenNumber(n, TempFile(u)), temp' = [temp EXCEPT ![u] = n]
        PROVE  Owned'
    <3>1. (\A c \in Conn : HoldsOwn(c)') /\ Undisturbed'
      BY <1>1, <2>2, OwnedOpen DEF OpenTemp
    <3>2. UsersHoldOwn'
      BY <2>2, OpenSpares DEF Owned, UsersHoldOwn, TypeOK, LookingTypeOK
    <3>3. UdpHoldsOwn'
      BY <1>1, <2>2, OpenSpares DEF OpenTemp, Owned, UdpHoldsOwn, TypeOK, UdpTypeOK
    <3>4. QED
      BY <3>1, <3>2, <3>3 DEF Owned
  <2>3. QED
    BY <1>1, <2>1, <2>2 DEF OpenTemp
<1>2. CASE CloseTemp(u)
  <2>1. /\ temp[u] \in Fd /\ CloseNumber(temp[u]) /\ temp' = [temp EXCEPT ![u] = NoFd]
        /\ UNCHANGED << astray, rpc, sock, at, udpSock >>
    BY <1>2 DEF CloseTemp, TypeOK, LookingTypeOK
  <2>2. ~reused /\ fd[temp[u]] = TempFile(u)
    BY <1>2, <2>1, CloseSpares DEF CloseTemp, Owned, UsersHoldOwn
  <2>3. \A c \in Conn : link'[c] = link[c]
    BY <2>1, <2>2, CloseSpares, Owners
  <2>4. ASSUME NEW c \in Conn PROVE HoldsOwn(c)'
    <3>1. HoldsOwn(c) /\ rpc[c] # "lost" /\ rpc[c] \in ReceiveControl
      BY <2>2 DEF Owned, Undisturbed, TypeOK, ThreadsTypeOK
    <3>2. CASE rpc[c] \in {"none", "deleted"}
      BY <2>1, <3>2 DEF HoldsOwn
    <3>3. CASE rpc[c] \notin {"none", "deleted"}
      <4>1. sock[c] \in Fd /\ sock[c] # temp[u]
        BY <2>2, <3>1, <3>3, Owners
           DEF HoldsOwn, ReceiveControl, TypeOK, ThreadsTypeOK
      <4>2. fd'[sock[c]] = fd[sock[c]]
        BY <2>1, <4>1, CloseSpares
      <4>3. QED
        BY <2>1, <2>3, <3>1, <4>2 DEF HoldsOwn
    <3>4. QED
      BY <3>2, <3>3
  <2>5. UsersHoldOwn'
    <3> SUFFICES ASSUME NEW v \in User, temp'[v] # NoFd
                 PROVE  fd'[temp'[v]] = TempFile(v)
      BY DEF UsersHoldOwn
    <3>1. v # u /\ temp'[v] = temp[v] /\ temp[v] \in Fd
      BY <2>1 DEF TypeOK, LookingTypeOK
    <3>2. fd[temp[v]] = TempFile(v)
      BY <2>2, <3>1 DEF Owned, UsersHoldOwn
    <3>3. temp[v] # temp[u]
      BY <2>2, <3>1, <3>2, Owners
    <3>4. QED
      BY <2>1, <3>1, <3>2, <3>3, CloseSpares
  <2>6. UdpHoldsOwn'
    <3> SUFFICES ASSUME udpSock # NoFd PROVE fd'[udpSock] = UdpFile
      BY <2>1 DEF UdpHoldsOwn
    <3>1. udpSock \in Fd /\ fd[udpSock] = UdpFile
      BY <2>2 DEF Owned, UdpHoldsOwn, TypeOK, UdpTypeOK
    <3>2. udpSock # temp[u]
      BY <2>2, <3>1, Owners
    <3>3. QED
      BY <2>1, <3>1, <3>2, CloseSpares
  <2>7. Undisturbed'
    BY <2>1, <2>2, <2>3 DEF Owned, Undisturbed
  <2>8. QED
    BY <2>4, <2>5, <2>6, <2>7 DEF Owned
<1>3. QED
  BY <1>1, <1>2 DEF LookUp

LEMMA OwnedMain == TypeOK /\ Owned /\ Main => Owned'
<1> SUFFICES ASSUME TypeOK, Owned, Main PROVE Owned'
  OBVIOUS
<1> USE DEF table, peers, threads, looking, server, counts, udp
<1>1. CASE OpenServer
  <2> SUFFICES ASSUME ~reused' PROVE Owned'
    BY DEF Owned
  <2> PICK n \in Fd : OpenNumber(n, TcpFile)
    BY <1>1 DEF OpenServer
  <2>1. (\A c \in Conn : HoldsOwn(c)') /\ Undisturbed'
    BY <1>1, OwnedOpen DEF OpenServer
  <2>2. UsersHoldOwn'
    BY <1>1, OpenSpares
       DEF OpenServer, Owned, UsersHoldOwn, TypeOK, LookingTypeOK
  <2>3. UdpHoldsOwn'
    BY <1>1, OpenSpares DEF OpenServer, Owned, UdpHoldsOwn, TypeOK, UdpTypeOK
  <2>4. QED
    BY <2>1, <2>2, <2>3 DEF Owned
<1>2. CASE BindServer \/ Listen \/ SetCallback \/ AddDevice \/ Disable \/ EnableAgain
  BY <1>2, OwnedStays
     DEF BindServer, Listen, SetCallback, AddDevice, Disable, EnableAgain
<1>3. CASE JoinGroup
  BY <1>3, OwnedStays DEF JoinGroup
<1>4. CASE OpenUdp
  <2>1. CASE UNCHANGED << table, udpSock >>
    BY <1>4, <2>1, OwnedStays DEF OpenUdp
  <2>2. ASSUME NEW n \in Fd, OpenNumber(n, UdpFile), udpSock' = n, ~reused'
        PROVE  Owned'
    <3>1. (\A c \in Conn : HoldsOwn(c)') /\ Undisturbed'
      BY <1>4, <2>2, OwnedOpen DEF OpenUdp
    <3>2. UsersHoldOwn'
      BY <1>4, <2>2, OpenSpares
         DEF OpenUdp, Owned, UsersHoldOwn, TypeOK, LookingTypeOK
    <3>3. UdpHoldsOwn'
      BY <2>2, OpenSpares DEF UdpHoldsOwn
    <3>4. QED
      BY <3>1, <3>2, <3>3 DEF Owned
  <2>3. QED
    BY <1>4, <2>1, <2>2 DEF OpenUdp, Owned
<1>5. CASE LookUp("main")
  BY <1>5, OwnedLookUp DEF User
<1>6. QED
  BY Zenon, <1>1, <1>2, <1>3, <1>4, <1>5 DEF Main

LEMMA OwnedPeer ==
  ASSUME TypeOK, Owned, NEW c \in Conn,
         Connect(c) \/ Ask(c) \/ Leave(c) \/ Accept(c) \/ GiveUp(c)
  PROVE  Owned'
<1> USE DEF table, peers, threads, looking, server, counts, udp
<1>1. CASE Connect(c)
  <2> SUFFICES ASSUME ~reused' PROVE Owned'
    BY DEF Owned
  <2>1. /\ ~reused
        /\ UNCHANGED << fd, astray, sock, at, temp, udpSock >>
        /\ rpc' = [rpc EXCEPT ![c] = "none"] /\ link' = [link EXCEPT ![c] = "open"]
    BY <1>1 DEF Connect
  <2>2. ASSUME NEW d \in Conn PROVE HoldsOwn(d)'
    BY <2>1 DEF Owned, HoldsOwn, TypeOK, ThreadsTypeOK, PeersTypeOK
  <2>3. Undisturbed'
    BY <2>1 DEF Owned, Undisturbed, TypeOK, ThreadsTypeOK, PeersTypeOK
  <2>4. QED
    BY <2>1, <2>2, <2>3 DEF Owned, UsersHoldOwn, UdpHoldsOwn
<1>2. CASE Ask(c)
  BY <1>2, OwnedStays DEF Ask
<1>3. CASE Leave(c)
  BY <1>3, OwnedStays DEF Leave, TypeOK, PeersTypeOK
<1>4. CASE Accept(c)
  <2> SUFFICES ASSUME ~reused' PROVE Owned'
    BY DEF Owned
  <2> PICK n \in Fd : OpenNumber(n, ConnFile(c)) /\ sock' = [sock EXCEPT ![c] = n]
    BY <1>4 DEF Accept
  <2>1. /\ ~reused
        /\ rpc' = [rpc EXCEPT ![c] = "call"]
        /\ UNCHANGED << link, astray, at, temp, udpSock >>
    BY <1>4, OpenSpares DEF Accept
  <2>2. ASSUME NEW d \in Conn PROVE HoldsOwn(d)'
    <3>1. CASE d = c
      <4>1. rpc'[c] = "call" /\ sock'[c] = n
        BY <2>1 DEF TypeOK, ThreadsTypeOK
      <4>2. fd'[n] = ConnFile(c)
        BY OpenSpares
      <4>3. QED
        BY <3>1, <4>1, <4>2 DEF HoldsOwn
    <3>2. CASE d # c
      <4>1. rpc'[d] = rpc[d] /\ sock'[d] = sock[d] /\ HoldsOwn(d)
        BY <2>1, <3>2 DEF TypeOK, ThreadsTypeOK, Owned
      <4>2. rpc[d] \notin {"none", "deleted"} => fd'[sock[d]] = fd[sock[d]]
        BY OpenSpares DEF TypeOK, ThreadsTypeOK
      <4>3. QED
        BY <2>1, <4>1, <4>2 DEF HoldsOwn
    <3>3. QED
      BY <3>1, <3>2
  <2>3. UsersHoldOwn'
    BY <2>1, OpenSpares DEF Owned, UsersHoldOwn, TypeOK, LookingTypeOK
  <2>4. UdpHoldsOwn'
    BY <2>1, OpenSpares DEF Owned, UdpHoldsOwn, TypeOK, UdpTypeOK
  <2>5. Undisturbed'
    BY <2>1 DEF Owned, Undisturbed, TypeOK, ThreadsTypeOK
  <2>6. QED
    BY <2>2, <2>3, <2>4, <2>5 DEF Owned
<1>5. CASE GiveUp(c)
  <2> SUFFICES ASSUME ~reused' PROVE Owned'
    BY DEF Owned
  <2>1. /\ ~reused
        /\ UNCHANGED << fd, link, astray, sock, at, temp, udpSock >>
        /\ rpc' = [rpc EXCEPT ![c] = "deleted"]
    BY <1>5 DEF GiveUp, AcceptThreadEnds
  <2>2. ASSUME NEW d \in Conn PROVE HoldsOwn(d)'
    BY <2>1 DEF Owned, HoldsOwn, TypeOK, ThreadsTypeOK
  <2>3. Undisturbed'
    BY <2>1 DEF Owned, Undisturbed, TypeOK, ThreadsTypeOK
  <2>4. QED
    BY <2>1, <2>2, <2>3 DEF Owned, UsersHoldOwn, UdpHoldsOwn
<1>6. QED
  BY <1>1, <1>2, <1>3, <1>4, <1>5

LEMMA OwnedDie == TypeOK /\ Owned /\ Die => Owned'
<1> SUFFICES ASSUME TypeOK, Owned, Die, ~reused' PROVE Owned'
  BY DEF Owned
<1>1. \A c \in Conn : HoldsOwn(c)'
  BY DEF Die, HoldsOwn
<1>2. UsersHoldOwn' /\ UdpHoldsOwn'
  BY DEF Die, UsersHoldOwn, UdpHoldsOwn
<1>3. Undisturbed'
  BY DEF Die, Undisturbed, Owned
<1>4. QED
  BY <1>1, <1>2, <1>3 DEF Owned

\* A step of a thread that leaves numbers and connections alone.
LEMMA OwnedGoto ==
  ASSUME TypeOK, Owned, NEW c \in Conn, NEW label,
         rpc' = [rpc EXCEPT ![c] = label],
         UNCHANGED << fd, reused, sock, temp, udpSock, link, astray >>,
         at' = at \/ at' = [at EXCEPT ![c] = "nothing"] \/ at' = [at EXCEPT ![c] = c],
         rpc[c] \in {"call", "recv", "lookup", "reply", "shutdown", "close"},
         label \in {"call", "recv", "lookup", "reply", "shutdown", "close"},
         label \in {"shutdown", "close"} => link[c] # "open"
  PROVE  Owned'
<1> SUFFICES ASSUME ~reused PROVE Owned'
  BY DEF Owned
<1>1. ASSUME NEW d \in Conn PROVE HoldsOwn(d)'
  <2>1. HoldsOwn(d)
    BY DEF Owned
  <2>2. CASE d = c
    BY <2>1, <2>2 DEF HoldsOwn, TypeOK, ThreadsTypeOK
  <2>3. CASE d # c
    BY <2>1, <2>3 DEF HoldsOwn, TypeOK, ThreadsTypeOK
  <2>4. QED
    BY <2>2, <2>3
<1>2. Undisturbed'
  BY DEF Owned, Undisturbed, TypeOK, ThreadsTypeOK
<1>3. QED
  BY <1>1, <1>2 DEF Owned, UsersHoldOwn, UdpHoldsOwn

\* Once its peer has left, closing the number of a thread changes no connection.
LEMMA ClosedAlready ==
  ASSUME TypeOK, Owned, NEW c \in Conn, Close(c), ~reused
  PROVE  link' = link
<1>1. sock[c] \in Fd /\ CloseNumber(sock[c]) /\ HoldsOwn(c) /\ rpc[c] \in {"close", "close2"}
  BY DEF Close, TypeOK, ThreadsTypeOK, Owned
<1>2. \/ fd[sock[c]] = ConnFile(c) /\ link[c] # "open"
      \/ fd[sock[c]] = Free
  BY <1>1 DEF HoldsOwn
<1>3. \A d \in Conn : link'[d] = link[d]
  BY <1>1, <1>2, CloseSpares, Owners
<1>4. QED
  BY <1>1, <1>3, CloseKeepsTypes DEF TypeOK, PeersTypeOK

LEMMA OwnedClose ==
  ASSUME TypeOK, Owned, NEW c \in Conn, Close(c), ~reused
  PROVE  Owned'
<1> USE DEF table, peers, threads, looking, server, counts, udp, Goto
<1>1. /\ sock[c] \in Fd /\ CloseNumber(sock[c]) /\ HoldsOwn(c)
      /\ UNCHANGED << astray, at, temp, udpSock >>
      /\ rpc[c] \in {"close", "close2"}
  BY DEF Close, TypeOK, ThreadsTypeOK, Owned
<1>2. \/ fd[sock[c]] = ConnFile(c) /\ link[c] # "open" /\ rpc[c] = "close"
      \/ fd[sock[c]] = Free /\ rpc[c] = "close2"
  <2>1. CASE rpc[c] = "close"
    BY <1>1, <2>1 DEF HoldsOwn
  <2>2. CASE rpc[c] = "close2"
    BY <1>1, <2>2 DEF HoldsOwn
  <2>3. QED
    BY <1>1, <2>1, <2>2
<1>3. \/ rpc' = [rpc EXCEPT ![c] = "shutdown2"] /\ sock' = sock
      \/ rpc' = [rpc EXCEPT ![c] = "deleted"] /\ sock' = [sock EXCEPT ![c] = NoFd]
  BY DEF Close
<1>4. fd'[sock[c]] = Free
  BY <1>1, CloseSpares
<1>5. \A n \in Fd : fd[n] # ConnFile(c) => fd'[n] = fd[n]
  BY <1>1, <1>2, <1>4, CloseSpares
<1>6. link' = link
  BY ClosedAlready
<1>7. ASSUME NEW d \in Conn PROVE HoldsOwn(d)'
  <2>1. CASE d = c
    BY <1>3, <1>4, <2>1 DEF HoldsOwn, TypeOK, ThreadsTypeOK
  <2>2. CASE d # c
    <3>1. rpc'[d] = rpc[d] /\ sock'[d] = sock[d] /\ HoldsOwn(d) /\ rpc[d] # "lost"
      BY <1>3, <2>2 DEF TypeOK, ThreadsTypeOK, Owned, Undisturbed
    <3>2. rpc[d] \in ReceiveControl
          /\ (rpc[d] \notin {"none", "deleted"} => sock[d] \in Fd)
      BY DEF TypeOK, ThreadsTypeOK
    <3>3. rpc[d] \notin {"none", "deleted"} =>
            fd[sock[d]] = ConnFile(d) \/ fd[sock[d]] = Free
      BY <3>1, <3>2 DEF HoldsOwn, ReceiveControl
    <3>4. rpc[d] \notin {"none", "deleted"} => fd'[sock[d]] = fd[sock[d]]
      BY <1>5, <2>2, <3>2, <3>3, Owners
    <3>5. QED
      BY <1>6, <3>1, <3>4 DEF HoldsOwn
  <2>3. QED
    BY <2>1, <2>2
<1>8. UsersHoldOwn'
  BY <1>1, <1>5, Owners DEF Owned, UsersHoldOwn, TypeOK, LookingTypeOK
<1>9. UdpHoldsOwn'
  BY <1>1, <1>5, Owners DEF Owned, UdpHoldsOwn, TypeOK, UdpTypeOK
<1>10. Undisturbed'
  BY <1>1, <1>3, <1>6 DEF Owned, Undisturbed, TypeOK, ThreadsTypeOK
<1>11. QED
  BY <1>7, <1>8, <1>9, <1>10 DEF Owned

LEMMA OwnedThread ==
  ASSUME TypeOK, Owned, NEW c \in Conn, Thread(c)
  PROVE  Owned'
<1> SUFFICES ASSUME ~reused PROVE Owned'
  <2>1. CASE reused
    <3>1. reused'
      BY <2>1 DEF Thread, CallRecv, Receive, LookUp, OpenTemp, CloseTemp, LookedUp,
                  Send, SendKills, RecvEnds, Shutdown, Close, OpenNumber,
                  CloseNumber, Die, table
    <3>2. QED
      BY <3>1 DEF Owned
  <2>2. QED
    BY <2>1
<1> USE DEF table, peers, threads, looking, server, counts, udp, Goto
<1>0. HoldsOwn(c) /\ at[c] \in {c, "nothing"} /\ link[c] # "shut"
  BY DEF Owned, Undisturbed
<1>1. CASE CallRecv(c)
  <2>1. fd[sock[c]] = ConnFile(c)
    BY <1>0, <1>1 DEF CallRecv, HoldsOwn
  <2>2. rpc' = [rpc EXCEPT ![c] = "recv"] /\ at' = [at EXCEPT ![c] = c]
    BY <1>1, <2>1, Owners DEF CallRecv, User
  <2>3. rpc[c] = "call" /\ UNCHANGED << fd, reused, sock, temp, udpSock, link, astray >>
    BY <1>1 DEF CallRecv
  <2>4. QED
    BY <2>2, <2>3, OwnedGoto
<1>2. CASE Receive(c)
  <2>1. rpc[c] = "recv" /\ at[c] = c
    BY <1>0, <1>2 DEF Receive, TypeOK, ThreadsTypeOK
  <2>2. fd[sock[c]] = ConnFile(c) /\ sock[c] \in Fd
    BY <1>0, <2>1 DEF HoldsOwn, TypeOK, ThreadsTypeOK
  <2>3. link' = link
    BY <1>2, <2>1, <2>2 DEF Receive, TypeOK, PeersTypeOK
  <2>4. PICK label \in {"reply", "lookup", "call"} : rpc' = [rpc EXCEPT ![c] = label]
    <3>1. /\ text[c] \in Kinds
          /\ rpc' = [rpc EXCEPT ![c] = IF enabled THEN HandlingOf(text[c]) ELSE "call"]
      BY <1>2, <2>1, NetworkAssumption DEF Receive
    <3>2. HandlingOf(text[c]) \in {"reply", "lookup", "call"}
      BY <3>1 DEF HandlingOf, Kinds
    <3>3. QED
      BY <3>1, <3>2
  <2>5. /\ UNCHANGED << fd, reused, sock, temp, udpSock, astray >>
        /\ at' = [at EXCEPT ![c] = "nothing"]
    BY <1>2 DEF Receive
  <2>6. QED
    BY <2>1, <2>3, <2>4, <2>5, OwnedGoto
<1>3. CASE LookUp(c)
  BY <1>3, OwnedLookUp DEF User
<1>4. CASE LookedUp(c)
  BY <1>4, OwnedGoto DEF LookedUp
<1>5. CASE Send(c)
  <2>1. fd[sock[c]] = ConnFile(c)
    BY <1>0, <1>5 DEF Send, HoldsOwn
  <2>2. Open(sock[c]) \subseteq {c}
    BY <2>1, Owners DEF Open
  <2>3. astray' = astray
    BY <1>5, <2>2 DEF Send
  <2>4. QED
    BY <1>5, <2>3, OwnedGoto DEF Send
<1>6. CASE SendKills(c)
  BY <1>6, OwnedDie DEF SendKills
<1>7. CASE RecvEnds(c)
  <2>1. at[c] = c /\ link[c] # "open"
    BY <1>0, <1>7 DEF RecvEnds, TypeOK, ThreadsTypeOK
  <2>2. QED
    BY <1>7, <2>1, OwnedGoto DEF RecvEnds
<1>8. CASE Shutdown(c)
  <2>1. Open(sock[c]) = {}
    <3>1. CASE rpc[c] = "shutdown"
      BY <1>0, <3>1, Owners DEF HoldsOwn, Open
    <3>2. CASE rpc[c] = "shutdown2"
      BY <1>0, <3>2, Owners DEF HoldsOwn, Open
    <3>3. QED
      BY <1>8, <3>1, <3>2 DEF Shutdown
  <2>2. link' = link
    BY <1>8, <2>1 DEF Shutdown, ShutdownNumber, TypeOK, PeersTypeOK
  <2>3. CASE rpc[c] = "shutdown"
    BY <1>0, <1>8, <2>2, <2>3, OwnedGoto DEF Shutdown, HoldsOwn
  <2>4. CASE rpc[c] = "shutdown2"
    <3>1. rpc' = [rpc EXCEPT ![c] = "close2"] /\ fd[sock[c]] = Free
          /\ UNCHANGED << fd, sock, at, temp, udpSock, link, astray >>
      BY <1>0, <1>8, <2>2, <2>4 DEF Shutdown, HoldsOwn
    <3>2. ASSUME NEW d \in Conn PROVE HoldsOwn(d)'
      <4>1. HoldsOwn(d)
        BY DEF Owned
      <4>2. CASE d = c
        BY <3>1, <4>2 DEF HoldsOwn, TypeOK, ThreadsTypeOK
      <4>3. CASE d # c
        BY <3>1, <4>1, <4>3 DEF HoldsOwn, TypeOK, ThreadsTypeOK
      <4>4. QED
        BY <4>2, <4>3
    <3>3. Undisturbed'
      BY <3>1 DEF Owned, Undisturbed, TypeOK, ThreadsTypeOK
    <3>4. QED
      BY <3>1, <3>2, <3>3 DEF Owned, UsersHoldOwn, UdpHoldsOwn
  <2>5. QED
    BY <1>8, <2>3, <2>4 DEF Shutdown
<1>9. CASE Close(c)
  BY <1>9, OwnedClose
<1>10. QED
  BY Zenon, <1>1, <1>2, <1>3, <1>4, <1>5, <1>6, <1>7, <1>8, <1>9 DEF Thread

LEMMA OwnedUdp == TypeOK /\ Owned /\ (Udp \/ Search) => Owned'
<1> SUFFICES ASSUME TypeOK, Owned, Udp \/ Search PROVE Owned'
  OBVIOUS
<1> USE DEF table, peers, threads, looking, server, counts, udp
<1>1. CASE TakeSearch \/ AnswerSearch \/ SendToFails \/ RecvFromFails \/ Search
  BY <1>1, OwnedStays
     DEF TakeSearch, AnswerSearch, SendToFails, RecvFromFails, Search
<1>2. CASE LookUp("udp")
  BY <1>2, OwnedLookUp DEF User
<1>3. QED
  BY Zenon, <1>1, <1>2 DEF Udp, Answering

LEMMA OwnedStep == TypeOK /\ Owned /\ [Next]_vars => Owned'
<1> SUFFICES ASSUME TypeOK, Owned, [Next]_vars PROVE Owned'
  OBVIOUS
<1>1. CASE Main
  BY <1>1, OwnedMain
<1>2. ASSUME NEW c \in Conn,
             Connect(c) \/ Ask(c) \/ Leave(c) \/ Accept(c) \/ GiveUp(c)
      PROVE  Owned'
  BY <1>2, OwnedPeer
<1>3. ASSUME NEW c \in Conn, Thread(c) PROVE Owned'
  BY <1>3, OwnedThread
<1>4. CASE Udp \/ Search
  BY <1>4, OwnedUdp
<1>5. CASE UNCHANGED vars
  BY <1>5, OwnedStays DEF vars, table, peers, threads, looking, server, counts, udp
<1>6. CASE AcceptFails
  BY <1>6, OwnedStays DEF AcceptFails, AcceptThreadEnds, table, peers, looking, udp
<1>7. QED
  BY Zenon, <1>1, <1>2, <1>3, <1>4, <1>5, <1>6 DEF Next

LEMMA OwnedInit == Init => Owned
BY DEF Init, Owned, HoldsOwn, UsersHoldOwn, UdpHoldsOwn, Undisturbed

LEMMA OwnedUndisturbed == TypeOK /\ Owned => OnlyReuseDisturbs
BY DEF Owned, Undisturbed, UdpHoldsOwn, OnlyReuseDisturbs, SocketsUndisturbed,
       UdpSocketOpen, TypeOK, UdpTypeOK

(***************************************************************************)
(* The second close of a connection is the only danger to sockets: as long *)
(* as no number is given out between the two closes, no connection is cut, *)
(* no reply goes astray, no thread waits on a socket that is not its own   *)
(* and the UDP server keeps its socket, for any number of connections that *)
(* come and go in any order (tcpsocket.hpp:112, fauxmoLINUX.cpp:649).      *)
(***************************************************************************)
THEOREM OnlyReuseIsDangerous == Spec => []OnlyReuseDisturbs
<1>1. TypeOK /\ Owned => OnlyReuseDisturbs
  BY OwnedUndisturbed
<1>2. QED
  BY <1>1, TypeCorrect, OwnedInit, OwnedStep, PTL DEF Spec

-----------------------------------------------------------------------------
LEMMA SearchOrderMain == TypeOK /\ SearchOrder /\ Main => SearchOrder'
<1> SUFFICES ASSUME TypeOK, SearchOrder, Main PROVE SearchOrder'
  OBVIOUS
<1> USE DEF SearchOrder, MainGoto, udp
<1>1. CASE OpenServer
  BY <1>1 DEF OpenServer
<1>2. CASE BindServer
  BY <1>2 DEF BindServer
<1>3. CASE Listen
  BY <1>3 DEF Listen, TypeOK, ServerTypeOK
<1>4. CASE OpenUdp \/ SetCallback
  BY <1>4 DEF OpenUdp, SetCallback
<1>5. CASE JoinGroup
  <2>1. search = "idle" /\ upc # "none"
    BY <1>5 DEF JoinGroup
  <2>2. UNCHANGED << upc, search >> /\ main' = "add"
    BY <1>5 DEF JoinGroup
  <2>3. upc # "answer"
    BY <2>1
  <2>4. QED
    BY <2>1, <2>2, <2>3
<1>6. CASE AddDevice
  BY <1>6 DEF AddDevice
<1>7. CASE Disable \/ EnableAgain
  BY <1>7 DEF Disable, EnableAgain
<1>8. CASE LookUp("main")
  BY <1>8 DEF LookUp, OpenTemp, CloseTemp, server
<1> HIDE DEF SearchOrder
<1>9. QED
  BY Zenon, <1>1, <1>2, <1>3, <1>4, <1>5, <1>6, <1>7, <1>8 DEF Main

LEMMA SearchOrderStep == TypeOK /\ SearchOrder /\ [Next]_vars => SearchOrder'
<1> SUFFICES ASSUME TypeOK, SearchOrder, [Next]_vars PROVE SearchOrder'
  OBVIOUS
<1>1. CASE Main
  BY <1>1, SearchOrderMain
<1> USE DEF SearchOrder, server, udp
<1>2. ASSUME NEW c \in Conn,
             Connect(c) \/ Ask(c) \/ Leave(c) \/ Accept(c) \/ GiveUp(c)
      PROVE  SearchOrder'
  BY <1>2 DEF Connect, Ask, Leave, Accept, GiveUp, AcceptThreadEnds
<1>3. ASSUME NEW c \in Conn, Thread(c) PROVE SearchOrder'
  <2>1. CASE SendKills(c)
    BY <2>1 DEF SendKills, Die
  <2>2. CASE LookUp(c)
    BY <2>2 DEF LookUp, OpenTemp, CloseTemp
  <2>3. CASE CallRecv(c) \/ Receive(c) \/ LookedUp(c) \/ Send(c) \/ RecvEnds(c)
    BY <2>3 DEF CallRecv, Receive, LookedUp, Send, RecvEnds
  <2>4. CASE Shutdown(c) \/ Close(c)
    BY <2>4 DEF Shutdown, Close
  <2> HIDE DEF SearchOrder
  <2>5. QED
    BY Zenon, <1>3, <2>1, <2>2, <2>3, <2>4 DEF Thread
<1>4. CASE Search
  <2>1. joined /\ main # "down" /\ upc # "answer"
    BY <1>4, NetworkAssumption DEF Search, UdpSocketOpen, NoFd
  <2>2. QED
    BY <1>4, <2>1 DEF Search
<1>5. CASE LookUp("udp")
  BY <1>5 DEF LookUp, OpenTemp, CloseTemp
<1>6. CASE TakeSearch
  <2>1. CASE callback
    BY <1>6, <2>1 DEF TakeSearch, UdpGoto
  <2>2. CASE ~callback
    BY <1>6, <2>2 DEF TakeSearch
  <2>3. QED
    BY <2>1, <2>2
<1>7. CASE AnswerSearch
  BY <1>7 DEF AnswerSearch, UdpGoto
<1>8. CASE SendToFails
  BY <1>8 DEF SendToFails, UdpGoto
<1>9. CASE RecvFromFails
  BY <1>9 DEF RecvFromFails, UdpGoto
<1>10. CASE AcceptFails
  BY <1>10 DEF AcceptFails, AcceptThreadEnds
<1>11. CASE UNCHANGED vars
  BY <1>11 DEF vars
<1> HIDE DEF SearchOrder
<1>12. QED
  BY Zenon, <1>1, <1>2, <1>3, <1>4, <1>5, <1>6, <1>7, <1>8, <1>9, <1>10, <1>11
     DEF Next, Udp, Answering

LEMMA SearchOrderInit == Init => SearchOrder
BY DEF Init, SearchOrder

-----------------------------------------------------------------------------
(***************************************************************************)
(* What a search needs: its thread has a callback before the server joins  *)
(* its group, and the server keeps its number.                             *)
(***************************************************************************)
SearchReady ==
  /\ joined \/ main = "join" => callback
  /\ joined /\ main # "down" => udpSock # NoFd

Drops == search \in {"sent", "taken"} /\ search' = "idle"

LEMMA SearchReadyInit == Init => SearchReady
BY DEF Init, SearchReady

LEMMA SearchReadyMain == TypeOK /\ SearchOrder /\ SearchReady /\ Main => SearchReady'
<1> SUFFICES ASSUME TypeOK, SearchOrder, SearchReady, Main PROVE SearchReady'
  OBVIOUS
<1> USE DEF SearchReady, MainGoto, udp
<1>1. CASE OpenUdp
  <2>1. ~joined /\ joined' = joined /\ main' # "join"
    BY <1>1 DEF OpenUdp, SearchOrder
  <2>2. QED
    BY <2>1
<1>2. CASE SetCallback
  BY <1>2 DEF SetCallback
<1>3. CASE JoinGroup
  <2>1. callback /\ callback' = callback /\ udpSock' = udpSock
    BY <1>3 DEF JoinGroup
  <2>2. joined' => UdpSocketOpen
    BY <1>3 DEF JoinGroup
  <2>3. UdpSocketOpen => udpSock # NoFd
    BY NetworkAssumption DEF UdpSocketOpen, NoFd
  <2>4. QED
    BY <2>1, <2>2, <2>3
<1>4. CASE OpenServer \/ BindServer \/ Listen
  <2>1. main' \notin {"join", "down"} /\ main # "down"
    BY <1>4 DEF OpenServer, BindServer, Listen
  <2>2. UNCHANGED << joined, callback, udpSock >>
    BY <1>4 DEF OpenServer, BindServer, Listen
  <2>3. QED
    BY <2>1, <2>2
<1>5. CASE AddDevice \/ Disable \/ EnableAgain
  BY <1>5 DEF AddDevice, Disable, EnableAgain
<1>6. CASE LookUp("main")
  BY <1>6 DEF LookUp, OpenTemp, CloseTemp, server
<1> HIDE DEF SearchReady
<1>7. QED
  BY Zenon, <1>1, <1>2, <1>3, <1>4, <1>5, <1>6 DEF Main

\* Neither main nor a peer drops a search, nor does a thread that goes on.
LEMMA OthersKeepSearches ==
  ASSUME \/ Main
         \/ \E c \in Conn : \/ Connect(c) \/ Ask(c) \/ Leave(c)
                            \/ Accept(c) \/ GiveUp(c)
         \/ AcceptFails
         \/ \E c \in Conn : Thread(c)
         \/ \E u \in User : LookUp(u)
  PROVE  search' = search \/ main' = "down"
<1>1. CASE Main
  <2>1. OpenServer \/ BindServer \/ Listen \/ OpenUdp \/ SetCallback => search' = search
    BY DEF OpenServer, BindServer, Listen, OpenUdp, SetCallback, udp
  <2>2. JoinGroup \/ AddDevice \/ Disable \/ EnableAgain => search' = search
    BY DEF JoinGroup, AddDevice, Disable, EnableAgain, udp
  <2>3. LookUp("main") => search' = search
    BY DEF LookUp, OpenTemp, CloseTemp, udp
  <2>4. QED
    BY <1>1, <2>1, <2>2, <2>3 DEF Main
<1>2. ASSUME NEW c \in Conn,
             Connect(c) \/ Ask(c) \/ Leave(c) \/ Accept(c) \/ GiveUp(c)
      PROVE  search' = search
  BY <1>2 DEF Connect, Ask, Leave, Accept, GiveUp, AcceptThreadEnds, udp
<1>3. ASSUME NEW u \in User, LookUp(u) PROVE search' = search
  BY <1>3 DEF LookUp, OpenTemp, CloseTemp, udp
<1>4. ASSUME NEW c \in Conn, Thread(c) PROVE search' = search \/ main' = "down"
  <2>1. CASE SendKills(c)
    BY <2>1 DEF SendKills, Die
  <2>2. CASE LookUp(c)
    BY <2>2, <1>3 DEF User
  <2>3. CASE CallRecv(c) \/ Receive(c) \/ LookedUp(c) \/ Send(c) \/ RecvEnds(c)
    BY <2>3 DEF CallRecv, Receive, LookedUp, Send, RecvEnds, udp
  <2>4. CASE Shutdown(c) \/ Close(c)
    BY <2>4 DEF Shutdown, Close, udp
  <2>5. QED
    BY <1>4, <2>1, <2>2, <2>3, <2>4 DEF Thread
<1>5. AcceptFails => search' = search
  BY DEF AcceptFails, AcceptThreadEnds, udp
<1>6. QED
  BY Zenon, <1>1, <1>2, <1>3, <1>4, <1>5

LEMMA SearchReadyStep ==
  TypeOK /\ SearchOrder /\ SearchReady /\ [Next]_vars => SearchReady'
<1> SUFFICES ASSUME TypeOK, SearchOrder, SearchReady, [Next]_vars PROVE SearchReady'
  OBVIOUS
<1>1. CASE Main
  BY <1>1, SearchReadyMain
<1> USE DEF SearchReady, server, udp
<1>2. ASSUME NEW c \in Conn,
             Connect(c) \/ Ask(c) \/ Leave(c) \/ Accept(c) \/ GiveUp(c)
      PROVE  SearchReady'
  BY <1>2 DEF Connect, Ask, Leave, Accept, GiveUp, AcceptThreadEnds
<1>3. ASSUME NEW c \in Conn, Thread(c) PROVE SearchReady'
  <2>1. CASE SendKills(c)
    BY <2>1 DEF SendKills, Die
  <2>2. CASE LookUp(c)
    BY <2>2 DEF LookUp, OpenTemp, CloseTemp
  <2>3. CASE CallRecv(c) \/ Receive(c) \/ LookedUp(c) \/ Send(c) \/ RecvEnds(c)
    BY <2>3 DEF CallRecv, Receive, LookedUp, Send, RecvEnds
  <2>4. CASE Shutdown(c) \/ Close(c)
    BY <2>4 DEF Shutdown, Close
  <2> HIDE DEF SearchReady
  <2>5. QED
    BY Zenon, <1>3, <2>1, <2>2, <2>3, <2>4 DEF Thread
<1>4. CASE Search
  BY <1>4 DEF Search
<1>5. CASE Udp
  BY <1>5 DEF Udp, Answering, TakeSearch, LookUp, OpenTemp, CloseTemp, AnswerSearch,
              SendToFails, RecvFromFails
<1>6. CASE AcceptFails
  BY <1>6 DEF AcceptFails, AcceptThreadEnds
<1>7. CASE UNCHANGED vars
  BY <1>7 DEF vars
<1> HIDE DEF SearchReady
<1>8. QED
  BY Zenon, <1>1, <1>2, <1>3, <1>4, <1>5, <1>6, <1>7 DEF Next

\* The UDP server's socket is still its own while it has a search.
LEMMA SearchedSocket ==
  ASSUME TypeOK, Owned, SearchOrder, SearchReady, search # "idle", ~reused
  PROVE  callback /\ UdpSocketOpen
BY DEF SearchOrder, SearchReady, Owned, UdpHoldsOwn, UdpSocketOpen, TypeOK, UdpTypeOK

LEMMA NoStepDrops ==
  TypeOK /\ Owned /\ SearchOrder /\ SearchReady /\ [Next]_vars
    => (Drops => reused \/ main' = "down")
<1> SUFFICES ASSUME TypeOK, Owned, SearchOrder, SearchReady, [Next]_vars,
                    Drops, ~reused, main' # "down"
             PROVE  FALSE
  OBVIOUS
<1>1. search # "idle" /\ search' # search
  BY DEF Drops
<1>2. callback /\ UdpSocketOpen
  BY <1>1, SearchedSocket
<1>3. CASE TakeSearch
  BY <1>2, <1>3 DEF TakeSearch, Drops
<1>4. CASE AnswerSearch \/ SendToFails
  BY <1>4 DEF AnswerSearch, SendToFails, Drops
<1>5. CASE RecvFromFails \/ UNCHANGED vars
  BY <1>1, <1>5 DEF RecvFromFails, vars, udp
<1>6. CASE Search
  BY <1>6 DEF Search, Drops
<1>7. CASE LookUp("udp")
  BY <1>1, <1>7, OthersKeepSearches DEF User
<1>8. QED
  BY <1>1, <1>3, <1>4, <1>5, <1>6, <1>7, OthersKeepSearches DEF Next, Udp, Answering

(***************************************************************************)
(* No search that has reached the UDP server is dropped but with the end   *)
(* of the process, as long as no number is given out between the two       *)
(* closes of a connection: the thread that is started by the constructor   *)
(* has its callback by the time the group is joined, and where sending the *)
(* answer fails, it fails on the server's own socket, which is open        *)
(* (udpsocket.hpp:23-32, 39-63, fauxmoLINUX.cpp:33, 664-669).              *)
(***************************************************************************)
THEOREM NoSearchDropped == Spec => SearchesNotDropped
<1>1. Init => TypeOK /\ Owned /\ SearchOrder /\ SearchReady
  BY TypeInit, OwnedInit, SearchOrderInit, SearchReadyInit
<1>2. TypeOK /\ Owned /\ SearchOrder /\ SearchReady /\ [Next]_vars
        => (TypeOK /\ Owned /\ SearchOrder /\ SearchReady)'
  BY TypeStep, OwnedStep, SearchOrderStep, SearchReadyStep
<1>3. TypeOK /\ Owned /\ SearchOrder /\ SearchReady /\ [Next]_vars
        => (/\ search \in {"sent", "taken"} /\ search' = "idle"
                 => reused \/ main' = "down"
            /\ search = "taken" /\ search' = "failed"
                 => reused \/ UdpSocketOpen)
  BY NoStepDrops, SearchedSocket DEF Drops
<1>4. QED
  BY <1>1, <1>2, <1>3, PTL DEF Spec, SearchesNotDropped

-----------------------------------------------------------------------------
(***************************************************************************)
(* The steps of Sessions.  Whatever does not move a thread to another      *)
(* stage and leaves the connections alone is a stutter.                    *)
(***************************************************************************)
Served == [Session!Next]_(Session!vars)

LEMMA BrokenServed == reused' => Served
BY DEF Served, Session!Next

LEMMA StageMoves ==
  ASSUME TypeOK, NEW c \in Conn, NEW label, rpc' = [rpc EXCEPT ![c] = label]
  PROVE  Stages' = [Stages EXCEPT ![c] = Stage(label)]
<1>1. \A d \in Conn : rpc'[d] = IF d = c THEN label ELSE rpc[d]
  BY DEF TypeOK, ThreadsTypeOK
<1>2. Stages' = [d \in Conn |-> Stage(rpc'[d])]
  BY DEF Stages
<1>3. Stage(rpc'[c]) = Stage(label)
  BY <1>1
<1>4. \A d \in Conn \ {c} : Stage(rpc'[d]) = Stage(rpc[d])
  BY <1>1
<1>5. QED
  BY <1>2, <1>3, <1>4 DEF Stages

LEMMA SameStage ==
  ASSUME TypeOK, NEW c \in Conn, NEW label, rpc' = [rpc EXCEPT ![c] = label],
         Stage(label) = Stage(rpc[c])
  PROVE  Stages' = Stages
<1>1. Stages' = [Stages EXCEPT ![c] = Stages[c]]
  BY StageMoves DEF Stages
<1>2. QED
  BY <1>1 DEF Stages

LEMMA StagesStay ==
  ASSUME UNCHANGED << link, text, astray, reused >>, Stages' = Stages
  PROVE  Served
BY DEF Served, Session!vars, Session!sessions

LEMMA ThreadsStay ==
  ASSUME UNCHANGED << link, text, astray, reused, rpc >>
  PROVE  Served
<1>1. Stages' = Stages
  BY DEF Stages
<1>2. QED
  BY <1>1, StagesStay

LEMMA ServedBy ==
  ASSUME ~reused', NEW c \in Conn, Session!Serve(c)
  PROVE  Served
BY DEF Served, Session!Next

LEMMA ServedLookUp ==
  ASSUME TypeOK, Owned, NEW u \in User, LookUp(u)
  PROVE  Served
<1> SUFFICES ASSUME ~reused' PROVE Served
  BY BrokenServed
<1> USE DEF table, peers, threads
<1>1. CASE OpenTemp(u)
  <2>1. reused' = reused
    BY <1>1 DEF OpenTemp, OpenNumber, TypeOK
  <2>2. QED
    BY <1>1, <2>1, ThreadsStay DEF OpenTemp
<1>2. CASE CloseTemp(u)
  <2>1. temp[u] \in Fd /\ CloseNumber(temp[u]) /\ UNCHANGED << text, astray, rpc >>
    BY <1>2 DEF CloseTemp, TypeOK, LookingTypeOK
  <2>2. reused' = reused /\ ~reused
    BY <2>1, CloseSpares
  <2>3. fd[temp[u]] = TempFile(u)
    BY <1>2, <2>2 DEF CloseTemp, Owned, UsersHoldOwn
  <2>4. \A c \in Conn : link'[c] = link[c]
    BY <2>1, <2>3, CloseSpares, Owners
  <2>5. link' = link
    BY <2>1, <2>4, CloseKeepsTypes DEF TypeOK, PeersTypeOK
  <2>6. QED
    BY <2>1, <2>2, <2>5, ThreadsStay
<1>3. QED
  BY <1>1, <1>2 DEF LookUp

LEMMA ServedMain == TypeOK /\ Owned /\ Main => Served
<1> SUFFICES ASSUME TypeOK, Owned, Main, ~reused' PROVE Served
  BY BrokenServed
<1> USE DEF table, peers, threads
<1>1. CASE OpenServer \/ OpenUdp
  <2>1. reused' = reused
    BY <1>1 DEF OpenServer, OpenUdp, OpenNumber, TypeOK
  <2>2. QED
    BY <1>1, <2>1, ThreadsStay DEF OpenServer, OpenUdp
<1>2. CASE BindServer \/ Listen \/ SetCallback \/ JoinGroup
  BY <1>2, ThreadsStay DEF BindServer, Listen, SetCallback, JoinGroup
<1>3. CASE AddDevice \/ Disable \/ EnableAgain
  BY <1>3, ThreadsStay DEF AddDevice, Disable, EnableAgain
<1>4. CASE LookUp("main")
  BY <1>4, ServedLookUp DEF User
<1>5. QED
  BY Zenon, <1>1, <1>2, <1>3, <1>4 DEF Main

LEMMA ServedUdp == TypeOK /\ Owned /\ (Udp \/ Search) => Served
<1> SUFFICES ASSUME TypeOK, Owned, Udp \/ Search PROVE Served
  OBVIOUS
<1> USE DEF table, peers, threads
<1>1. CASE TakeSearch \/ AnswerSearch \/ SendToFails \/ RecvFromFails \/ Search
  BY <1>1, ThreadsStay
     DEF TakeSearch, AnswerSearch, SendToFails, RecvFromFails, Search
<1>2. CASE LookUp("udp")
  BY <1>2, ServedLookUp DEF User
<1>3. QED
  BY Zenon, <1>1, <1>2 DEF Udp, Answering

LEMMA ServedPeer ==
  ASSUME TypeOK, Owned, NEW c \in Conn,
         Connect(c) \/ Ask(c) \/ Leave(c) \/ Accept(c) \/ GiveUp(c)
  PROVE  Served
<1> SUFFICES ASSUME ~reused' PROVE Served
  BY BrokenServed
<1> USE DEF table, peers, threads, Session!Enter
<1>0. /\ Stages[c] = Stage(rpc[c]) /\ rpc[c] \in ReceiveControl
      /\ link[c] \in {"away", "open", "left", "shut"}
  BY DEF Stages, TypeOK, ThreadsTypeOK, PeersTypeOK
<1>1. CASE Connect(c)
  <2>1. Stages' = [Stages EXCEPT ![c] = "queued"]
    BY <1>1, StageMoves DEF Connect, Stage
  <2>2. reused' = reused /\ link[c] # "shut"
    BY <1>1 DEF Connect, Owned, Undisturbed
  <2>3. link[c] = "away" \/ (Stages[c] = "over" /\ link[c] = "left")
    BY <1>0, <1>1, <2>2 DEF Connect, Stage
  <2>4. Session!Connect(c)
    BY <1>1, <2>1, <2>3 DEF Connect, Session!Connect
  <2>5. QED
    BY <2>4, ServedBy DEF Session!Serve
<1>2. CASE Ask(c)
  <2>1. Stages' = Stages
    BY <1>2 DEF Ask, Stages
  <2>2. Stages[c] # "answering"
    BY <1>0, <1>2 DEF Ask, Stage, ReceiveControl
  <2>3. Session!Ask(c)
    BY <1>2, <2>1, <2>2 DEF Ask, Session!Ask
  <2>4. QED
    BY <2>3, ServedBy DEF Session!Serve
<1>3. CASE Leave(c)
  <2>1. Stages' = Stages
    BY <1>3 DEF Leave, Stages
  <2>2. Session!Leave(c)
    BY <1>3, <2>1 DEF Leave, Session!Leave
  <2>3. QED
    BY <2>2, ServedBy DEF Session!Serve
<1>4. CASE Accept(c)
  <2>1. Stages' = [Stages EXCEPT ![c] = "reading"]
    BY <1>4, StageMoves DEF Accept, Stage
  <2>2. Stages[c] = "queued"
    BY <1>0, <1>4 DEF Accept, Queued, Stage
  <2>3. Session!Accept(c)
    BY <1>4, <2>1, <2>2 DEF Accept, Queued, Session!Accept
  <2>4. QED
    BY <2>3, ServedBy DEF Session!Serve
<1>5. CASE GiveUp(c)
  <2>1. Stages' = [Stages EXCEPT ![c] = "over"]
    BY <1>5, StageMoves DEF GiveUp, Stage
  <2>2. Stages[c] = "queued"
    BY <1>0, <1>5 DEF GiveUp, Queued, Stage
  <2>3. Session!GiveUp(c)
    BY <1>5, <2>1, <2>2 DEF GiveUp, AcceptThreadEnds, Session!GiveUp
  <2>4. QED
    BY <2>3, ServedBy DEF Session!Serve
<1>6. QED
  BY <1>1, <1>2, <1>3, <1>4, <1>5

LEMMA ServedThread ==
  ASSUME TypeOK, Owned, NEW c \in Conn, Thread(c)
  PROVE  Served
<1> SUFFICES ASSUME ~reused', ~reused PROVE Served
  <2>1. reused => reused'
    BY DEF Thread, CallRecv, Receive, LookUp, OpenTemp, CloseTemp, LookedUp,
           Send, SendKills, RecvEnds, Shutdown, Close, OpenNumber,
           CloseNumber, Die, table
  <2>2. QED
    BY <2>1, BrokenServed
<1> USE DEF table, peers, threads, Goto, Session!Enter
<1>0. /\ HoldsOwn(c) /\ at[c] \in {c, "nothing"} /\ link[c] # "shut"
      /\ Stages[c] = Stage(rpc[c]) /\ rpc[c] \in ReceiveControl
      /\ link[c] \in {"away", "open", "left", "shut"}
      /\ rpc[c] = "recv" => at[c] = c
  BY DEF Owned, Undisturbed, Stages, TypeOK, ThreadsTypeOK, PeersTypeOK
<1>1. CASE CallRecv(c)
  <2>1. rpc[c] = "call" /\ fd[sock[c]] = ConnFile(c)
    BY <1>0, <1>1 DEF CallRecv, HoldsOwn
  <2>2. rpc' = [rpc EXCEPT ![c] = "recv"]
    BY <1>1, <2>1, Owners DEF CallRecv, User
  <2>3. Stages' = Stages
    <3>1. Stage("recv") = Stage(rpc[c])
      BY <2>1 DEF Stage
    <3>2. QED
      BY <2>2, <3>1, SameStage
  <2>4. QED
    BY <1>1, <2>3, StagesStay DEF CallRecv
<1>2. CASE Receive(c)
  <2>1. rpc[c] = "recv" /\ at[c] = c
    BY <1>0, <1>2 DEF Receive
  <2>2. fd[sock[c]] = ConnFile(c) /\ sock[c] \in Fd
    BY <1>0, <2>1 DEF HoldsOwn, TypeOK, ThreadsTypeOK
  <2>3. link' = link
    BY <1>2, <2>1, <2>2 DEF Receive, TypeOK, PeersTypeOK
  <2>4. /\ text[c] \in Requests /\ text' = [text EXCEPT ![c] = "none"]
        /\ rpc' = [rpc EXCEPT ![c] = IF enabled THEN HandlingOf(text[c]) ELSE "call"]
        /\ UNCHANGED << astray, reused >>
    BY <1>2, <2>1 DEF Receive
  <2>5. \/ Stages' = [Stages EXCEPT ![c] = "reading"]
        \/ text[c] # "ignored" /\ Stages' = [Stages EXCEPT ![c] = "answering"]
    <3>1. PICK label \in {"call", "lookup", "reply"} :
            /\ rpc' = [rpc EXCEPT ![c] = label]
            /\ label # "call" => text[c] # "ignored"
      BY <2>4, NetworkAssumption DEF HandlingOf, Kinds
    <3>2. CASE label = "call"
      BY <3>1, <3>2, StageMoves DEF Stage
    <3>3. CASE label # "call"
      BY <3>1, <3>3, StageMoves DEF Stage
    <3>4. QED
      BY <3>2, <3>3
  <2>6. Stages[c] = "reading"
    BY <1>0, <2>1 DEF Stage
  <2>7. Session!Take(c)
    BY <2>3, <2>4, <2>5, <2>6 DEF Session!Take
  <2>8. QED
    BY <2>7, ServedBy DEF Session!Serve
<1>3. CASE LookUp(c)
  BY <1>3, ServedLookUp DEF User
<1>4. CASE LookedUp(c)
  <2>1. Stages' = Stages
    <3>1. Stage("reply") = Stage(rpc[c])
      BY <1>4 DEF LookedUp, Stage
    <3>2. QED
      BY <1>4, <3>1, SameStage DEF LookedUp
  <2>2. QED
    BY <1>4, <2>1, StagesStay DEF LookedUp
<1>5. CASE Send(c)
  <2>1. fd[sock[c]] = ConnFile(c)
    BY <1>0, <1>5 DEF Send, HoldsOwn
  <2>2. Open(sock[c]) \subseteq {c}
    BY <2>1, Owners DEF Open
  <2>3. astray' = astray
    BY <1>5, <2>2 DEF Send
  <2>4. Stages' = [Stages EXCEPT ![c] = "reading"] /\ Stages[c] = "answering"
    BY <1>0, <1>5, StageMoves DEF Send, Stage
  <2>5. Session!Answer(c)
    BY <1>5, <2>3, <2>4 DEF Send, Session!Answer
  <2>6. QED
    BY <2>5, ServedBy DEF Session!Serve
<1>6. CASE SendKills(c)
  <2>1. Stages[c] = "answering" /\ link[c] # "open"
    <3>1. rpc[c] = "reply" /\ fd[sock[c]] = ConnFile(c)
      BY <1>0, <1>6 DEF SendKills, HoldsOwn
    <3>2. link[c] # "open"
      BY <1>6, <3>1, Owners DEF SendKills
    <3>3. QED
      BY <1>0, <3>1, <3>2 DEF Stage
  <2>2. Stages' = [d \in Conn |-> "queued"]
    BY <1>6 DEF SendKills, Die, Stages, Stage
  <2>3. Session!Die
    BY <1>6, <2>1, <2>2 DEF SendKills, Die, Session!Die
  <2>4. QED
    BY <2>3 DEF Served, Session!Next
<1>7. CASE RecvEnds(c)
  <2>1. rpc[c] = "recv" /\ at[c] = c /\ link[c] = "left"
    BY <1>0, <1>7 DEF RecvEnds
  <2>2. Stages' = [Stages EXCEPT ![c] = "ending"] /\ Stages[c] = "reading"
    BY <1>0, <1>7, <2>1, StageMoves DEF RecvEnds, Stage
  <2>3. Session!End(c)
    BY <1>7, <2>1, <2>2 DEF RecvEnds, Session!End
  <2>4. QED
    BY <2>3, ServedBy DEF Session!Serve
<1>8. CASE Shutdown(c)
  <2>1. Open(sock[c]) = {}
    <3>1. CASE rpc[c] = "shutdown"
      BY <1>0, <3>1, Owners DEF HoldsOwn, Open
    <3>2. CASE rpc[c] = "shutdown2"
      BY <1>0, <3>2, Owners DEF HoldsOwn, Open
    <3>3. QED
      BY <1>8, <3>1, <3>2 DEF Shutdown
  <2>2. link' = link
    BY <1>8, <2>1 DEF Shutdown, ShutdownNumber, TypeOK, PeersTypeOK
  <2>3. Stages' = Stages
    <3>1. PICK label \in {"close", "close2"} : rpc' = [rpc EXCEPT ![c] = label]
      BY <1>8 DEF Shutdown
    <3>2. Stage(label) = Stage(rpc[c])
      BY <1>8, <3>1 DEF Shutdown, Stage
    <3>3. QED
      BY <3>1, <3>2, SameStage
  <2>4. QED
    BY <1>8, <2>2, <2>3, StagesStay DEF Shutdown
<1>9. CASE Close(c)
  <2>1. link' = link
    BY <1>9, ClosedAlready
  <2>2. UNCHANGED << text, astray, reused >>
    BY <1>9 DEF Close, CloseNumber
  <2>3. CASE rpc[c] = "close"
    <3>1. Stage("shutdown2") = Stage(rpc[c])
      BY <2>3 DEF Stage
    <3>2. Stages' = Stages
      BY <1>9, <2>3, <3>1, SameStage DEF Close
    <3>3. QED
      BY <2>1, <2>2, <3>2, StagesStay
  <2>4. CASE rpc[c] = "close2"
    <3>1. Stages' = [Stages EXCEPT ![c] = "over"] /\ Stages[c] = "ending"
      BY <1>0, <1>9, <2>4, StageMoves DEF Close, Stage
    <3>2. Session!Finish(c)
      BY <2>1, <2>2, <3>1 DEF Session!Finish
    <3>3. QED
      BY <3>2, ServedBy DEF Session!Serve
  <2>5. QED
    BY <1>9, <2>3, <2>4 DEF Close
<1>10. QED
  BY Zenon, <1>1, <1>2, <1>3, <1>4, <1>5, <1>6, <1>7, <1>8, <1>9 DEF Thread

LEMMA ServedStep == TypeOK /\ Owned /\ [Next]_vars => Served
<1> SUFFICES ASSUME TypeOK, Owned, [Next]_vars PROVE Served
  OBVIOUS
<1>1. CASE Main
  BY <1>1, ServedMain
<1>2. ASSUME NEW c \in Conn,
             Connect(c) \/ Ask(c) \/ Leave(c) \/ Accept(c) \/ GiveUp(c)
      PROVE  Served
  BY <1>2, ServedPeer
<1>3. ASSUME NEW c \in Conn, Thread(c) PROVE Served
  BY <1>3, ServedThread
<1>4. CASE Udp \/ Search
  BY <1>4, ServedUdp
<1>5. CASE UNCHANGED vars
  BY <1>5, ThreadsStay DEF vars, table, peers, threads
<1>6. CASE AcceptFails
  BY <1>6, ThreadsStay DEF AcceptFails, AcceptThreadEnds, table, peers
<1>7. QED
  BY Zenon, <1>1, <1>2, <1>3, <1>4, <1>5, <1>6 DEF Next

LEMMA ServedInit == Init => Session!Init
BY DEF Init, Session!Init, Stages, Stage

(***************************************************************************)
(* As long as no number is given out between the two closes of a           *)
(* connection, the server with its descriptors is one without: each        *)
(* connection is served as Sessions says, whatever the others, the UDP     *)
(* server and the look-ups do meanwhile (tcpserver.hpp:61-86,              *)
(* tcpsocket.hpp:97-118, fauxmoLINUX.cpp:629-650).                         *)
(***************************************************************************)
THEOREM ServerServesSessions == Spec => ServesSessions
<1>1. TypeOK /\ Owned /\ [Next]_vars => [Session!Next]_(Session!vars)
  BY ServedStep DEF Served
<1>2. QED
  BY <1>1, ServedInit, TypeCorrect, OwnedInit, OwnedStep, PTL
     DEF Spec, ServesSessions, Session!Spec
=============================================================================
