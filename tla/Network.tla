------------------------------ MODULE Network ------------------------------
(***************************************************************************)
(* The sockets of the program: the TCP server with a receive thread for    *)
(* each connection, the UDP server that answers searches, and main, which  *)
(* enables them.  All of them share the table of descriptors.  POSIX       *)
(* hands out the lowest number that is free, and a thread that uses a      *)
(* number reaches whatever the number stands for at that moment.           *)
(*                                                                         *)
(* A receive thread closes its descriptor when recv returns 0 or less, and *)
(* the handler of onSocketClosed closes the same number once more.  The    *)
(* address of the network interface is looked up with a socket opened and  *)
(* closed for the purpose.                                                 *)
(*                                                                         *)
(* Requests are abstracted to the sockets they make the program use: an    *)
(* "api" request is replied to, a "description" is replied to after two    *)
(* look-ups, and an "ignored" one gets no reply.                           *)
(***************************************************************************)
EXTENDS Naturals, FiniteSets

CONSTANTS
  Conn,         \* the connections peers make
  Fd,           \* the numbers left for sockets
  MaxConnects,  \* how often a peer connects
  Requests,     \* the requests peers send, one at a time on a connection
  MaxEnables,   \* how often the program enables the lights
  Failing       \* the calls the system may fail, whatever the program does

Calls == {"bind", "listen", "accept", "recvfrom", "sendto"}
Kinds == {"api", "description", "ignored"}

ASSUME NetworkAssumption ==
  /\ Fd \subseteq Nat \ {0} /\ IsFiniteSet(Fd) /\ Fd # {}
  /\ Requests \subseteq Kinds
  /\ MaxConnects \in Nat
  /\ MaxEnables \in Nat \ {0}
  /\ Failing \subseteq Calls
  /\ {"main", "udp", "nothing"} \cap Conn = {}

VARIABLES
  fd,         \* what each number stands for
  link,       \* each connection, seen from its peer
  text,       \* the request sent on it and not yet read
  connects,   \* the number of connections made so far
  astray,     \* the connections whose replies another peer got
  rpc,        \* where the receive thread of each connection is
  sock,       \* the number it uses
  at,         \* the connection its recv waits on
  lookups,    \* how many look-ups each thread has yet to make
  temp,       \* the socket it looks up with
  main,       \* where main is in enable, "down" if the process has ended
  enabled,    \* _enabled
  bound,      \* has the server got its port?
  enables,    \* the number of calls of enable(true)
  listens,    \* the number of calls of Listen that did not fail
  accepters,  \* the number of accept threads
  errors,     \* the number of calls of accept that failed
  upc,        \* where the thread of the UDP server is
  udpSock,    \* the number it uses
  callback,   \* has onRawMessageReceived been assigned?
  joined,     \* is the UDP server at its port and in its group?
  search,     \* the last search that a controller sent
  reused      \* was a number given out between the two closes of a connection?

peers    == << link, text, connects, astray >>
threads  == << rpc, sock, at >>
looking  == << lookups, temp >>
counts   == << enables, listens, accepters, errors >>
server   == << main, enabled, bound, counts >>
udp      == << upc, udpSock, callback, joined, search >>
table    == << fd, reused >>
vars     == << table, peers, threads, looking, server, udp >>

NoFd == 0
User == Conn \cup {"main", "udp"}

\* What a number can stand for.
Free        == << "free", "main" >>
TcpFile     == << "tcp", "main" >>
UdpFile     == << "udp", "main" >>
ConnFile(c) == << "conn", c >>
TempFile(u) == << "temp", u >>
File == {Free, TcpFile, UdpFile}
          \cup {ConnFile(c) : c \in Conn} \cup {TempFile(u) : u \in User}

ReceiveControl == {"none", "call", "recv", "lost", "lookup", "reply",
                   "shutdown", "close", "shutdown2", "close2", "deleted"}
MainControl == {"start", "bind", "listen", "udp", "callback", "join", "add",
                "on", "off", "down"}

Init ==
  /\ fd = [n \in Fd |-> Free]
  /\ reused = FALSE
  /\ link = [c \in Conn |-> "away"]
  /\ text = [c \in Conn |-> "none"]
  /\ connects = 0
  /\ astray = {}
  /\ rpc = [c \in Conn |-> "none"]
  /\ sock = [c \in Conn |-> NoFd]
  /\ at = [c \in Conn |-> "nothing"]
  /\ lookups = [u \in User |-> 0]
  /\ temp = [u \in User |-> NoFd]
  /\ main = "start"
  /\ enabled = FALSE
  /\ bound = FALSE
  /\ enables = 0 /\ listens = 0 /\ accepters = 0 /\ errors = 0
  /\ upc = "none"
  /\ udpSock = NoFd
  /\ callback = FALSE
  /\ joined = FALSE
  /\ search = "idle"

-----------------------------------------------------------------------------
(***************************************************************************)
(* Descriptors.                                                            *)
(***************************************************************************)
LowestFree(n) == /\ n \in Fd /\ fd[n] = Free
                 /\ \A m \in Fd : fd[m] = Free => n <= m

SecondCloseDue(n) ==
  \E c \in Conn : rpc[c] \in {"shutdown2", "close2"} /\ sock[c] = n

OpenNumber(n, file) ==
  /\ LowestFree(n)
  /\ fd' = [fd EXCEPT ![n] = file]
  /\ reused' = (reused \/ SecondCloseDue(n))

Full == \A n \in Fd : fd[n] # Free

\* The connection a number stands for, if its peer has not left it.
Open(n) == {d \in Conn : n \in Fd /\ fd[n] = ConnFile(d) /\ link[d] = "open"}

Waiting(d) == {c \in Conn : at[c] = d}

\* shutdown ends a connection, whoever is reading from it.
ShutdownNumber(n) ==
  link' = [d \in Conn |-> IF d \in Open(n) THEN "shut" ELSE link[d]]

\* close frees the number; a recv under way keeps the connection.
CloseNumber(n) ==
  /\ fd' = [m \in Fd |-> IF m = n THEN Free ELSE fd[m]]
  /\ link' = [d \in Conn |-> IF d \in Open(n) /\ Waiting(d) = {}
                             THEN "shut" ELSE link[d]]
  /\ UNCHANGED reused

\* The process ends, its threads with it, and the kernel closes its sockets.
Die ==
  /\ main' = "down" /\ bound' = FALSE /\ accepters' = 0
  /\ fd' = [n \in Fd |-> Free]
  /\ link' = [c \in Conn |-> "away"]
  /\ rpc' = [c \in Conn |-> "none"] /\ at' = [c \in Conn |-> "nothing"]
  /\ lookups' = [u \in User |-> 0] /\ temp' = [u \in User |-> NoFd]
  /\ upc' = "none" /\ udpSock' = NoFd /\ search' = "idle"
  /\ UNCHANGED << reused, text, connects, astray, sock, enabled, enables,
                  listens, errors, callback, joined >>

-----------------------------------------------------------------------------
(***************************************************************************)
(* get_ip_addr and get_mac_addr: open a socket, ask it, close it.          *)
(***************************************************************************)
OpenTemp(u) ==
  /\ lookups[u] > 0 /\ temp[u] = NoFd
  /\ \/ \E n \in Fd : /\ OpenNumber(n, TempFile(u))
                      /\ temp' = [temp EXCEPT ![u] = n]
                      /\ UNCHANGED lookups
     \/ /\ Full
        /\ lookups' = [lookups EXCEPT ![u] = @ - 1]
        /\ UNCHANGED << table, temp >>
  /\ UNCHANGED << peers, threads, server, udp >>

CloseTemp(u) ==
  /\ temp[u] # NoFd
  /\ CloseNumber(temp[u])
  /\ temp' = [temp EXCEPT ![u] = NoFd]
  /\ lookups' = [lookups EXCEPT ![u] = @ - 1]
  /\ UNCHANGED << text, connects, astray, threads, server, udp >>

LookUp(u) == OpenTemp(u) \/ CloseTemp(u)

-----------------------------------------------------------------------------
(***************************************************************************)
(* main: enable, addDevice, and enable again.                              *)
(***************************************************************************)
MainGoto(label) == main' = label

OpenServer ==
  /\ main = "start"
  /\ enabled' = TRUE
  /\ \E n \in Fd : OpenNumber(n, TcpFile)
  /\ enables' = 1
  /\ MainGoto("bind")
  /\ UNCHANGED << peers, threads, looking, bound, listens, accepters, errors,
                  udp >>

\* Nobody is told of a failure, and _server is set: Bind is not tried again.
BindServer ==
  /\ main = "bind"
  /\ bound' \in {TRUE, "bind" \notin Failing}
  /\ MainGoto("listen")
  /\ UNCHANGED << table, peers, threads, looking, enabled, counts, udp >>

\* Mutant: Listen starts two threads.
ListenTwice ==
  /\ main = "listen"
  /\ listens' = listens + 1 /\ accepters' = accepters + 2
  /\ MainGoto(IF upc = "none" THEN "udp" ELSE "on")
  /\ UNCHANGED << table, peers, threads, looking, enabled, bound, enables,
                  errors, udp >>

\* Each call adds an accept thread, unless listen fails, which is forgotten.
Listen ==
  /\ main = "listen"
  /\ \/ listens' = listens + 1 /\ accepters' = accepters + 1
     \/ "listen" \in Failing /\ UNCHANGED << listens, accepters >>
  /\ MainGoto(IF upc = "none" THEN "udp" ELSE "on")
  /\ UNCHANGED << table, peers, threads, looking, enabled, bound, enables,
                  errors, udp >>

\* Mutant: the constructor joins the group, before there is a callback.
OpenUdpJoined ==
  /\ main = "udp"
  /\ upc' = "recv"
  /\ \/ \E n \in Fd : OpenNumber(n, UdpFile) /\ udpSock' = n /\ joined' = TRUE
     \/ Full /\ UNCHANGED << table, udpSock, joined >>
  /\ MainGoto("callback")
  /\ UNCHANGED << peers, threads, looking, enabled, bound, counts, callback, search >>

\* The constructor starts the thread, which calls recvfrom right away.
OpenUdp ==
  /\ main = "udp"
  /\ upc' = "recv"
  /\ \/ \E n \in Fd : /\ OpenNumber(n, UdpFile)
                      /\ udpSock' = n
     \/ Full /\ UNCHANGED << table, udpSock >>
  /\ MainGoto("callback")
  /\ UNCHANGED << peers, threads, looking, enabled, bound, counts, callback, joined, search >>

SetCallback ==
  /\ main = "callback"
  /\ callback' = TRUE
  /\ MainGoto("join")
  /\ UNCHANGED << table, peers, threads, looking, enabled, bound, counts, upc, udpSock, joined, search >>

UdpSocketOpen == udpSock \in Fd /\ fd[udpSock] = UdpFile

\* Bind joins the multicast group and takes its port, or does not and tells
\* nobody.  main goes on to addDevice, which looks up the mac address.
JoinGroup ==
  /\ main = "join"
  /\ \/ UdpSocketOpen /\ joined' = TRUE
     \/ ("bind" \in Failing \/ ~UdpSocketOpen) /\ joined' = FALSE
  /\ lookups' = [lookups EXCEPT !["main"] = 1]
  /\ MainGoto("add")
  /\ UNCHANGED << table, peers, threads, temp, enabled, bound, counts, upc, udpSock, callback, search >>

AddDevice ==
  /\ main = "add" /\ lookups["main"] = 0
  /\ MainGoto("on")
  /\ UNCHANGED << table, peers, threads, looking, enabled, bound, counts, udp >>

Disable ==
  /\ main = "on"
  /\ enabled' = FALSE
  /\ MainGoto("off")
  /\ UNCHANGED << table, peers, threads, looking, bound, counts, udp >>

EnableAgain ==
  /\ main = "off" /\ enables < MaxEnables
  /\ enabled' = TRUE
  /\ enables' = enables + 1
  /\ MainGoto("listen")
  /\ UNCHANGED << table, peers, threads, looking, bound, listens, accepters,
                  errors, udp >>

Main == \/ OpenServer \/ BindServer \/ Listen \/ OpenUdp \/ SetCallback
        \/ JoinGroup \/ AddDevice \/ LookUp("main") \/ Disable \/ EnableAgain

-----------------------------------------------------------------------------
(***************************************************************************)
(* The peers.  A connection is queued by the kernel until it is accepted.  *)
(***************************************************************************)
\* A connection that is over makes room for the peer's next one.
Connect(c) ==
  /\ link[c] = "away" \/ (rpc[c] = "deleted" /\ link[c] # "open")
  /\ bound /\ listens > 0 /\ connects < MaxConnects
  /\ link' = [link EXCEPT ![c] = "open"]
  /\ text' = [text EXCEPT ![c] = "none"]
  /\ rpc' = [rpc EXCEPT ![c] = "none"]
  /\ connects' = connects + 1
  /\ UNCHANGED << table, astray, sock, at, looking, server, udp >>

\* A peer waits for the reply to its last request.
Ask(c) ==
  /\ link[c] = "open" /\ text[c] = "none"
  /\ rpc[c] \notin {"lookup", "reply"}
  /\ \E r \in Requests : text' = [text EXCEPT ![c] = r]
  /\ UNCHANGED << table, link, connects, astray, threads, looking, server,
                  udp >>

Leave(c) ==
  /\ link[c] = "open"
  /\ link' = [link EXCEPT ![c] = "left"]
  /\ UNCHANGED << table, text, connects, astray, threads, looking, server,
                  udp >>

\* A controller searches for lights, once the last search is over.
Search ==
  /\ joined /\ UdpSocketOpen
  /\ search \in {"idle", "answered", "failed"}
  /\ search' = "sent"
  /\ UNCHANGED << table, peers, threads, looking, server, upc, udpSock,
                  callback,
                  joined >>

-----------------------------------------------------------------------------
(***************************************************************************)
(* The accept threads.  Any error of accept ends the thread, be it a lack   *)
(* of numbers, a connection given up in the queue, or any other.           *)
(***************************************************************************)
Queued(c) == link[c] \in {"open", "left"} /\ rpc[c] = "none"

\* Mutant: the accept thread takes one connection and ends.
AcceptOnce(c) ==
  /\ accepters > 0
  /\ Queued(c)
  /\ \E n \in Fd : /\ OpenNumber(n, ConnFile(c))
                  /\ sock' = [sock EXCEPT ![c] = n]
  /\ rpc' = [rpc EXCEPT ![c] = "call"]
  /\ accepters' = accepters - 1
  /\ UNCHANGED << peers, at, looking, main, enabled, bound, enables, listens,
                  errors, udp >>

Accept(c) ==
  /\ accepters > 0
  /\ Queued(c)
  /\ \E n \in Fd : /\ OpenNumber(n, ConnFile(c))
                  /\ sock' = [sock EXCEPT ![c] = n]
  /\ rpc' = [rpc EXCEPT ![c] = "call"]
  /\ UNCHANGED << peers, at, looking, server, udp >>

AcceptThreadEnds ==
  /\ accepters > 0
  /\ accepters' = accepters - 1
  /\ errors' = errors + 1
  /\ UNCHANGED << table, peers, sock, at, looking, main, enabled, bound, enables,
                  listens, udp >>

AcceptFails ==
  /\ "accept" \in Failing \/ (Full /\ \E c \in Conn : Queued(c))
  /\ AcceptThreadEnds
  /\ UNCHANGED rpc

GiveUp(c) ==
  /\ Queued(c) /\ link[c] = "left"
  /\ AcceptThreadEnds
  /\ rpc' = [rpc EXCEPT ![c] = "deleted"]

\* accept returns once a connection is queued, with it or with an error.
AcceptReturns(c) == Queued(c) /\ (Accept(c) \/ GiveUp(c) \/ AcceptFails)

-----------------------------------------------------------------------------
(***************************************************************************)
(* The receive thread of a connection.                                     *)
(***************************************************************************)
Goto(c, label) == rpc' = [rpc EXCEPT ![c] = label]

\* recv on a socket with no peer waits for good, on no socket it fails.
CallRecv(c) ==
  /\ rpc[c] = "call"
  /\ \/ \E d \in Conn : /\ fd[sock[c]] = ConnFile(d)
                        /\ at' = [at EXCEPT ![c] = d]
                        /\ Goto(c, "recv")
     \/ /\ fd[sock[c]] \in {UdpFile} \cup {TempFile(u) : u \in User}
        /\ Goto(c, "lost")
        /\ UNCHANGED at
     \/ /\ fd[sock[c]] \in {Free, TcpFile}
        /\ Goto(c, "shutdown")
        /\ UNCHANGED at
  /\ UNCHANGED << table, peers, sock, looking, server, udp >>

HandlingOf(request) ==
  CASE request = "api"         -> "reply"
    [] request = "description" -> "lookup"
    [] request = "ignored"     -> "call"

\* A connection that is closed while read from lasts until recv returns.
Receive(c) ==
  /\ rpc[c] = "recv"
  /\ LET d == at[c] IN
       /\ text[d] \in Requests
       /\ text' = [text EXCEPT ![d] = "none"]
       /\ link' = [link EXCEPT ![d] =
                     IF @ = "open" /\ \A n \in Fd : fd[n] # ConnFile(d)
                     THEN "shut" ELSE @]
       /\ lookups' = [lookups EXCEPT ![c] =
                        IF enabled /\ text[d] = "description" THEN 2 ELSE @]
       /\ Goto(c, IF enabled THEN HandlingOf(text[d]) ELSE "call")
  /\ at' = [at EXCEPT ![c] = "nothing"]
  /\ UNCHANGED << table, connects, astray, sock, temp, server, udp >>

LookedUp(c) ==
  /\ rpc[c] = "lookup" /\ lookups[c] = 0
  /\ Goto(c, "reply")
  /\ UNCHANGED << table, peers, sock, at, looking, server, udp >>

\* Mutant: the connection is closed after the reply.
SendAndClose(c) ==
  /\ rpc[c] = "reply"
  /\ \A d \in Conn : fd[sock[c]] = ConnFile(d) => link[d] # "shut"
  /\ astray' = astray \cup (IF Open(sock[c]) \subseteq {c} THEN {} ELSE {c})
  /\ Goto(c, "shutdown")
  /\ UNCHANGED << table, link, text, connects, sock, at, looking, server, udp >>

\* Two sends in a row.  A peer that has left is noticed at the first, at the
\* second, or later.  On a number that is no connection send just fails.
Send(c) ==
  /\ rpc[c] = "reply"
  /\ \A d \in Conn : fd[sock[c]] = ConnFile(d) => link[d] # "shut"
  /\ astray' = astray \cup (IF Open(sock[c]) \subseteq {c} THEN {} ELSE {c})
  /\ Goto(c, "call")
  /\ UNCHANGED << table, link, text, connects, sock, at, looking, server, udp >>

\* On a socket that was shut down, or once the peer is known to have left, send
\* raises SIGPIPE, which nothing handles.
SendKills(c) ==
  /\ rpc[c] = "reply"
  /\ \E d \in Conn : fd[sock[c]] = ConnFile(d) /\ link[d] # "open"
  /\ Die

\* Mutant: 0 is not taken for the end.
RecvGoesOn(c) ==
  /\ rpc[c] = "recv"
  /\ link[at[c]] \in {"left", "shut"}
  /\ text' = [text EXCEPT ![at[c]] = "none"]
  /\ at' = [at EXCEPT ![c] = "nothing"]
  /\ Goto(c, "call")
  /\ UNCHANGED << table, link, connects, astray, sock, looking, server, udp >>

RecvEnds(c) ==
  /\ rpc[c] = "recv"
  /\ link[at[c]] \in {"left", "shut"}
  /\ text' = [text EXCEPT ![at[c]] = "none"]
  /\ at' = [at EXCEPT ![c] = "nothing"]
  /\ Goto(c, "shutdown")
  /\ UNCHANGED << table, link, connects, astray, sock, looking, server, udp >>

\* Mutant: close first, shutdown after.
ShutdownClosed(c) ==
  /\ rpc[c] \in {"shutdown", "shutdown2"}
  /\ CloseNumber(sock[c])
  /\ Goto(c, IF rpc[c] = "shutdown" THEN "close" ELSE "close2")
  /\ UNCHANGED << text, connects, astray, sock, at, looking, server, udp >>

\* Receive calls Close, and so does the handler of onSocketClosed.
Shutdown(c) ==
  /\ rpc[c] \in {"shutdown", "shutdown2"}
  /\ ShutdownNumber(sock[c])
  /\ Goto(c, IF rpc[c] = "shutdown" THEN "close" ELSE "close2")
  /\ UNCHANGED << table, text, connects, astray, sock, at, looking, server,
                  udp >>

Close(c) ==
  /\ rpc[c] \in {"close", "close2"}
  /\ CloseNumber(sock[c])
  /\ \/ rpc[c] = "close" /\ Goto(c, "shutdown2") /\ UNCHANGED sock
     \/ /\ rpc[c] = "close2" /\ Goto(c, "deleted")
        /\ sock' = [sock EXCEPT ![c] = NoFd]
  /\ UNCHANGED << text, connects, astray, at, looking, server, udp >>

Thread(c) == \/ CallRecv(c) \/ Receive(c) \/ LookUp(c) \/ LookedUp(c) \/ Send(c)
             \/ SendKills(c) \/ RecvEnds(c) \/ Shutdown(c) \/ Close(c)

-----------------------------------------------------------------------------
(***************************************************************************)
(* The thread of the UDP server.  It answers whether the lights are        *)
(* enabled or not.                                                         *)
(***************************************************************************)
UdpGoto(label) == upc' = label

TakeSearch ==
  /\ upc = "recv"
  /\ search = "sent" /\ UdpSocketOpen
  /\ IF callback
     THEN /\ search' = "taken"
          /\ lookups' = [lookups EXCEPT !["udp"] = 2]
          /\ UdpGoto("answer")
     ELSE /\ search' = "idle"
          /\ UNCHANGED << lookups, upc >>
  /\ UNCHANGED << table, peers, threads, temp, server, udpSock, callback,
                  joined >>

AnswerSearch ==
  /\ upc = "answer" /\ lookups["udp"] = 0
  /\ UdpSocketOpen
  /\ search' = "answered"
  /\ UdpGoto("recv")
  /\ UNCHANGED << table, peers, threads, looking, server, udpSock, callback,
                  joined >>

\* SendTo reads the address or sends in vain; nobody looks at what it returns.
SendToFails ==
  /\ upc = "answer" /\ lookups["udp"] = 0
  /\ "sendto" \in Failing \/ ~UdpSocketOpen
  /\ search' = "failed"
  /\ UdpGoto("recv")
  /\ UNCHANGED << table, peers, threads, looking, server, udpSock, callback,
                  joined >>

\* Any error of recvfrom ends the thread, and nothing starts another.
RecvFromFails ==
  /\ upc = "recv"
  /\ "recvfrom" \in Failing \/ ~UdpSocketOpen
  /\ UdpGoto("ended")
  /\ UNCHANGED << table, peers, threads, looking, server, udpSock, callback,
                  joined, search >>

\* What the thread does of itself, unless it fails.
Answering == TakeSearch \/ LookUp("udp") \/ AnswerSearch \/ SendToFails

Udp == Answering \/ RecvFromFails

-----------------------------------------------------------------------------
Next ==
  \/ Main
  \/ \E c \in Conn : \/ Connect(c) \/ Ask(c) \/ Leave(c)
                     \/ Accept(c) \/ GiveUp(c) \/ Thread(c)
  \/ AcceptFails
  \/ Search
  \/ Udp

Spec == Init /\ [][Next]_vars

\* Nothing holds a runnable thread back for good.
FairSpec ==
  /\ Spec
  /\ \A c \in Conn : WF_vars(Thread(c)) /\ WF_vars(AcceptReturns(c))
  /\ WF_vars(Answering)

-----------------------------------------------------------------------------
(***************************************************************************)
(* Properties.                                                             *)
(***************************************************************************)
PeersTypeOK ==
  /\ link \in [Conn -> {"away", "open", "left", "shut"}]
  /\ text \in [Conn -> Requests \cup {"none"}]
  /\ connects \in 0 .. MaxConnects
  /\ astray \subseteq Conn

ThreadsTypeOK ==
  /\ rpc \in [Conn -> ReceiveControl]
  /\ sock \in [Conn -> Fd \cup {NoFd}]
  /\ at \in [Conn -> Conn \cup {"nothing"}]
  /\ \A c \in Conn : /\ rpc[c] \notin {"none", "deleted"} => sock[c] \in Fd
                     /\ rpc[c] = "recv" => at[c] # "nothing"

LookingTypeOK ==
  /\ lookups \in [User -> 0 .. 2]
  /\ temp \in [User -> Fd \cup {NoFd}]
  /\ \A u \in User : temp[u] # NoFd => lookups[u] > 0

ServerTypeOK ==
  /\ main \in MainControl
  /\ enabled \in BOOLEAN /\ bound \in BOOLEAN
  /\ enables \in 0 .. MaxEnables /\ listens \in 0 .. enables
  /\ main = "start" => enables = 0
  /\ main \in {"bind", "listen"} => listens < enables
  /\ accepters \in Nat /\ errors \in Nat /\ accepters + errors <= listens

UdpTypeOK ==
  /\ upc \in {"none", "recv", "answer", "ended"}
  /\ udpSock \in Fd \cup {NoFd}
  /\ callback \in BOOLEAN /\ joined \in BOOLEAN
  /\ search \in {"idle", "sent", "taken", "answered", "failed"}

\* Every variable keeps its type; a thread under way has a number and a look-up
\* under way is one still due; there are no more accept threads than calls of
\* Listen that did not fail and calls of accept that did.
TypeOK ==
  /\ fd \in [Fd -> File] /\ reused \in BOOLEAN
  /\ PeersTypeOK
  /\ ThreadsTypeOK
  /\ LookingTypeOK
  /\ ServerTypeOK
  /\ UdpTypeOK

\* A connection ends when its peer leaves and not before, its peer gets the
\* replies to its own requests only, no thread reads from a stranger's socket,
\* and the UDP server keeps the socket it has opened.
SocketsUndisturbed ==
  /\ \A c \in Conn : /\ link[c] # "shut"
                     /\ rpc[c] # "lost" /\ at[c] \in {c, "nothing"}
  /\ astray = {}
  /\ udpSock # NoFd => UdpSocketOpen

\* The second close is the only danger: until a number is given out between
\* the two closes of a connection, sockets are undisturbed
\* (tcpsocket.hpp:112, fauxmoLINUX.cpp:649).
OnlyReuseDisturbs == SocketsUndisturbed \/ reused

\* "Creates a thread for every connection" (async-sockets-cpp/README.md:3):
\* a connection is ended by its own thread only, so never before its peer has
\* left, which is when its own thread ends it.
ConnectionsKept == \A c \in Conn : link[c] # "shut"

\* Sockets undisturbed, the receive thread of a connection ends and deletes its
\* socket once the peer has left, wherever in a request it is
\* (tcpsocket.hpp:97).
ThreadsEnd ==
  \A c \in Conn : (rpc[c] # "none" /\ link[c] # "open")
                   ~> (rpc[c] = "deleted" \/ main = "down" \/ reused)

\* A peer that has connected is accepted, until accept has failed as often as
\* Listen has not, whatever it failed of: each call of Listen makes up for one
\* error, and nothing else does (tcpserver.hpp:56, 70-76).
OnlyErrorsStopAccepting ==
  \A c \in Conn : (link[c] = "open" /\ rpc[c] = "none")
                   ~> (rpc[c] # "none" \/ main = "down" \/ errors >= listens)

\* Sockets undisturbed, each search that reaches the UDP server is answered, or
\* sending the answer failed, as long as recvfrom has not: its thread runs before
\* it has a callback and a port, but no search comes before the callback
\* (udpsocket.hpp:23, 39-63, 160, fauxmoLINUX.cpp:664-669).
SearchesAnswered ==
  search = "sent" ~> \/ search \in {"answered", "failed"}
                     \/ upc = "ended" \/ main = "down" \/ reused

\* Sockets undisturbed, no step but the end of the process drops a search that
\* has reached the UDP server: none finds the thread without its callback, and
\* sending the answer fails on the server's own socket only, of which it may
\* have an error but which is not gone (udpsocket.hpp:23-32, 59-64,
\* fauxmoLINUX.cpp:664-669).
SearchesNotDropped ==
  [][/\ search \in {"sent", "taken"} /\ search' = "idle"
          => reused \/ main' = "down"
     /\ search = "taken" /\ search' = "failed"
          => reused \/ UdpSocketOpen]_vars

\* "Disabling it will prevent the devices from being discovered"
\* (fauxmoLINUX.cpp:718): no search is taken up while the lights are disabled.
DisabledNotDiscovered ==
  [][search = "sent" /\ search' = "taken" => enabled]_vars

(***************************************************************************)
(* As long as no number is given out between the two closes of a           *)
(* connection, each connection is served as if it had the program to       *)
(* itself: read, answered and ended by Sessions, in which there are no     *)
(* numbers (tcpserver.hpp:61-86, tcpsocket.hpp:97-118,                     *)
(* fauxmoLINUX.cpp:629-650).                                               *)
(***************************************************************************)
Stage(control) ==
  CASE control = "none"                                            -> "queued"
    [] control \in {"call", "recv", "lost"}                        -> "reading"
    [] control \in {"lookup", "reply"}                             -> "answering"
    [] control \in {"shutdown", "close", "shutdown2", "close2"}    -> "ending"
    [] control = "deleted"                                         -> "over"

Stages == [c \in Conn |-> Stage(rpc[c])]

Session == INSTANCE Sessions WITH stage <- Stages, broken <- reused

ServesSessions == Session!Spec
=============================================================================
