--------------------------- MODULE SocketChannels ---------------------------
(***************************************************************************)
(* The channels over sockets, used without their thread: the calls open,   *)
(* close, read, write, sendReceive, setSendLimit, clearSendLimit and the   *)
(* `timeout' setter of TCPClient, SSLClient, UDPClient and of the server   *)
(* of the same family (Simulator/AbstractChannel.py, Simulator/Channels).  *)
(* Several clients share one server; one thread calls each channel.        *)
(* What a TLS server does is taken from TCPServer.                         *)
(*                                                                         *)
(* The kernel is the environment: a stream delivers in order, cut at any   *)
(* byte, and ends with a FIN or a reset; a datagram may be lost, repeated  *)
(* or overtaken.  A byte is its position in what its writer wrote.         *)
(***************************************************************************)
EXTENDS Naturals, FiniteSets, SequencesExt

CONSTANTS
  Families,      \* the families of channels considered: "tcp", "ssl", "udp"
  Clients,       \* the client channels
  Bound,         \* the clients with a localIP and a localPort: UDP address kept
  Server,        \* the server channel
  Tuned,         \* the <<family, channel>> whose limit and timeout are changed
  Limits,        \* the limits given to setSendLimit
  PacketSize,    \* the bytes of a packet
  MaxCalls,      \* bound, per family: the calls made on all the channels, UDP's open apart
  MaxPackets,    \* bound, per family: the packets a channel puts on the network
  MaxSockets     \* bound: the sockets a client opens

ASSUME SocketAssumption ==
  /\ Families \subseteq {"tcp", "ssl", "udp"}
  /\ Bound \subseteq Clients
  /\ Server \notin Clients
  /\ Tuned \subseteq Families \X (Clients \cup {Server})
  /\ PacketSize \in Nat \ {0} /\ MaxSockets \in Nat
  /\ \A m \in Limits : m \in Nat \ {0}

Ends == Clients \cup {Server}

\* _writeCounterMax is -1 when no limit is set (DEFAULT_WRITE_COUNTER_MAX)
NoLimit == 0
NoClient == "none"
NoAddress == <<NoClient, 0>>

\* A connection, or the address of a UDP client: the client and its socket
Connections == Clients \X (0..MaxSockets)

\* listen(1): the connections the kernel queues before they are accepted
Backlog == 2

VARIABLES
  family,        \* the family of all the channels
  isOpen,        \* AbstractChannel._isOpened
  socket,        \* _socket: "none", "listening", "pending" after a connect that timed out,
                 \* "connected", "unusable" after a bind or a connect that failed, "closed"
  halfOpen,      \* history: open() failed and left a socket that may work, not closed since
  timeout,       \* whether AbstractChannel._timeout is a number (FALSE: None)
  timed,         \* whether the socket that is read has a timeout
  counter,       \* __writeCounter
  limit,         \* __writeCounterMax
  reading,       \* whether the channel's caller is in read(); the server's also in accept()
  got,           \* the local `data' of TCPClient.read, TCPServer.read, SSLClient.read
  link,          \* of a connection: "none", "queued" by the listening socket, "served"
  stream,        \* of a connection: its two directions, "up" to the server and "down"
  datagrams,     \* the UDP datagrams on the network
  address,       \* of a client: the number of its socket
  remoteAddr,    \* UDPServer.__remoteAddr
  packets,       \* of a channel: the packets it put on the network
  quota,         \* history: of a channel, the writes sent since its limit was set, and the
                 \* most that setSendLimit promises
  calls

channelVars == <<isOpen, socket, halfOpen, timeout, timed, counter, limit, reading, got>>
streamVars == <<link, stream>>
udpVars == <<datagrams, address, remoteAddr>>
vars == <<family, channelVars, streamVars, udpVars, packets, quota, calls>>

Upto(n) == [i \in 1..n |-> i]

NoStream == [sent |-> 0, wire |-> <<>>, back |-> <<>>, state |-> "open"]
NoStreams == [way \in {"up", "down"} |-> NoStream]

Init ==
  /\ family \in Families
  /\ isOpen = [e \in Ends |-> FALSE]
  /\ socket = [e \in Ends |-> "none"]
  /\ halfOpen = [e \in Ends |-> FALSE]
  /\ timeout \in {[e \in Ends |-> t] : t \in BOOLEAN}
  /\ timed = [e \in Ends |-> FALSE]
  /\ counter = [e \in Ends |-> 0]
  /\ limit = [e \in Ends |-> NoLimit]
  /\ reading = [e \in Ends |-> FALSE]
  /\ got = [e \in Ends |-> <<>>]
  /\ link = [k \in Connections |-> "none"]
  /\ stream = [k \in Connections |-> NoStreams]
  /\ datagrams = {}
  /\ address = [c \in Clients |-> 0]
  /\ remoteAddr = NoAddress
  /\ packets = [e \in Ends |-> 0]
  /\ quota = [e \in Ends |-> [made |-> 0, most |-> 0]]
  /\ calls = 0

Streaming == family \in {"tcp", "ssl"}

(* A call made by the one thread of channel e, which is in no other call.  *)
Call(e) ==
  /\ ~reading[e]
  /\ calls < MaxCalls[family]
  /\ calls' = calls + 1
  /\ UNCHANGED family

(* The connection of __clientSocket, and those not accepted yet.           *)
Served == {k \in Connections : link[k] = "served"}
Queued == {k \in Connections : link[k] = "queued"}

(* The streams that an end of a connection reads and writes.               *)
In(e) == IF e = Server THEN "up" ELSE "down"
Out(e) == IF e = Server THEN "down" ELSE "up"

Current(c) == <<c, address[c]>>

(* The connection a channel's calls use: none once its sockets are closed. *)
Lines(e) ==
  CASE e = Server -> Served
    [] e # Server /\ socket[e] = "connected" -> {Current(e)}
    [] OTHER -> {}

(***************************************************************************)
(* The kernel: end e of a connection with the streams s is closed.  The other  *)
(* end gets a FIN, or a reset when bytes were left unread here.            *)
(***************************************************************************)
Hangup(e, s) ==
  [s EXCEPT ![Out(e)].state = IF s[In(e)].wire = <<>> /\ @ = "open" THEN "ended" ELSE "reset",
            ![In(e)].wire = <<>>, ![In(e)].state = "reset"]

(* The socket of channel e closes, or is dropped for a new one.            *)
Dropped(e) ==
  stream' = [k \in Connections |->
               IF Streaming /\ k \in Lines(e) THEN Hangup(e, stream[k]) ELSE stream[k]]

(* The server's sockets close: what it accepted or queued ends.            *)
HangupAll ==
  /\ stream' = [k \in Connections |->
                 CASE link[k] = "served" -> Hangup(Server, stream[k])
                   [] link[k] = "queued" -> [stream[k] EXCEPT !["down"].state = "reset",
                                               !["up"].wire = <<>>, !["up"].state = "reset"]
                   [] OTHER -> stream[k]]
  /\ link' = [k \in Connections |-> "none"]

(***************************************************************************)
(* open.  A client's socket takes `timeout or self.timeout' and keeps it   *)
(* for its reads; the connection is established when the server listens,   *)
(* accepted or not yet.  An open that fails has replaced the socket of the *)
(* one before, and leaves the new one in the attribute, not closed; isOpen *)
(* stays False.  After a timeout the kernel goes on connecting.            *)
(***************************************************************************)
OpenClient(c) ==
  \E t \in BOOLEAN :
    /\ Call(c) /\ Streaming /\ ~isOpen[c] /\ address[c] < MaxSockets
    /\ Dropped(c)
    /\ timed' = [timed EXCEPT ![c] = t \/ timeout[c]]
    /\ address' = [address EXCEPT ![c] = @ + 1]
    /\ \/ /\ socket[Server] = "listening" /\ Cardinality(Queued) < Backlog
          /\ link' = [link EXCEPT ![<<c, address'[c]>>] = "queued"]
          /\ isOpen' = [isOpen EXCEPT ![c] = TRUE]
          /\ socket' = [socket EXCEPT ![c] = "connected"]
          /\ halfOpen' = [halfOpen EXCEPT ![c] = FALSE]
       \/ /\ socket[Server] # "listening" \/ c \in Bound
          /\ socket' = [socket EXCEPT ![c] = "unusable"]
          /\ halfOpen' = [halfOpen EXCEPT ![c] = FALSE]
          /\ UNCHANGED <<isOpen, link>>
       \/ /\ timed'[c]
          /\ socket' = [socket EXCEPT ![c] = "pending"]
          /\ halfOpen' = [halfOpen EXCEPT ![c] = TRUE]
          /\ UNCHANGED <<isOpen, link>>
    /\ UNCHANGED <<timeout, counter, limit, reading, got, datagrams, remoteAddr, packets, quota>>

(* The kernel ends a connect that open has given up: the channel is then   *)
(* connected, and not open.  (Over TLS the handshake is missing, and what  *)
(* is written goes out as it is.)                                          *)
Connects(c) ==
  /\ socket[c] = "pending" /\ socket[Server] = "listening" /\ Cardinality(Queued) < Backlog
  /\ link' = [link EXCEPT ![Current(c)] = "queued"]
  /\ socket' = [socket EXCEPT ![c] = "connected"]
  /\ UNCHANGED <<family, isOpen, halfOpen, timeout, timed, counter, limit, reading, got, stream,
                 udpVars, packets, quota, calls>>

Refuses(c) ==
  /\ socket[c] = "pending" /\ socket[Server] # "listening"
  /\ socket' = [socket EXCEPT ![c] = "unusable"]
  /\ reading' = [reading EXCEPT ![c] = FALSE]
  /\ UNCHANGED <<family, isOpen, halfOpen, timeout, timed, counter, limit, got, streamVars, udpVars,
                 packets, quota, calls>>

(* TCPServer.open: bind and listen, which may fail, then wait in accept.   *)
(* The socket of an open that failed goes with the clients it had queued.  *)
OpenServer ==
  \E t, binds \in BOOLEAN :
    /\ Call(Server) /\ Streaming /\ ~isOpen[Server]
    /\ HangupAll
    /\ socket' = [socket EXCEPT ![Server] = IF binds THEN "listening" ELSE "unusable"]
    /\ timed' = [timed EXCEPT ![Server] = t \/ timeout[Server]]
    /\ reading' = [reading EXCEPT ![Server] = binds]
    /\ UNCHANGED <<isOpen, halfOpen, timeout, counter, limit, got, udpVars, packets, quota>>

Accepting == reading[Server] /\ Streaming /\ ~isOpen[Server]

(* An accepted socket has no timeout, whatever the listening one has.      *)
Accept(k) ==
  /\ Accepting /\ link[k] = "queued"
  /\ link' = [link EXCEPT ![k] = "served"]
  /\ isOpen' = [isOpen EXCEPT ![Server] = TRUE]
  /\ timed' = [timed EXCEPT ![Server] = FALSE]
  /\ reading' = [reading EXCEPT ![Server] = FALSE]
  /\ UNCHANGED <<family, socket, halfOpen, timeout, counter, limit, got, stream, udpVars, packets, quota, calls>>

(* accept raises socket.timeout: the socket keeps listening.               *)
AcceptTimeout ==
  /\ Accepting /\ timed[Server]
  /\ reading' = [reading EXCEPT ![Server] = FALSE]
  /\ UNCHANGED <<family, isOpen, socket, halfOpen, timeout, timed, counter, limit, got, streamVars, udpVars,
                 packets, quota, calls>>

(* UDPClient.open and UDPServer.open, which does not look at its argument. *)
(* A bind that fails leaves a socket which sends from another address.     *)
OpenUdp(e) ==
  \E t, binds \in BOOLEAN :
    /\ ~reading[e] /\ family = "udp" /\ ~isOpen[e]
    /\ binds \/ e \in Bound \cup {Server}
    /\ isOpen' = [isOpen EXCEPT ![e] = binds]
    /\ halfOpen' = [halfOpen EXCEPT ![e] = ~binds]
    /\ socket' = [socket EXCEPT ![e] = "connected"]
    /\ timed' = [timed EXCEPT ![e] = timeout[e] \/ (t /\ e # Server)]
    /\ IF e \in Clients /\ (e \notin Bound \/ ~binds)
         THEN /\ address[e] < MaxSockets
              /\ address' = [address EXCEPT ![e] = @ + 1]
         ELSE UNCHANGED address
    /\ UNCHANGED <<family, timeout, counter, limit, reading, got, streamVars, datagrams, remoteAddr,
                   packets, quota, calls>>

\* Mutant: a server that closes its listening socket only
MutantKeepsClient(e) ==
  /\ Call(e) /\ socket[e] # "none"
  /\ isOpen' = [isOpen EXCEPT ![e] = FALSE]
  /\ halfOpen' = [halfOpen EXCEPT ![e] = FALSE]
  /\ socket' = [socket EXCEPT ![e] = "closed"]
  /\ IF e = Server THEN UNCHANGED stream ELSE Dropped(e)
  /\ UNCHANGED <<timeout, timed, counter, limit, reading, got, link, udpVars, packets, quota>>

(* close: the attributes keep the closed sockets, and __remoteAddr.        *)
Close(e) ==
  /\ Call(e) /\ socket[e] # "none"
  /\ isOpen' = [isOpen EXCEPT ![e] = FALSE]
  /\ halfOpen' = [halfOpen EXCEPT ![e] = FALSE]
  /\ socket' = [socket EXCEPT ![e] = "closed"]
  /\ IF e = Server THEN HangupAll ELSE Dropped(e) /\ UNCHANGED link
  /\ UNCHANGED <<timeout, timed, counter, limit, reading, got, udpVars, packets, quota>>

(* The `timeout' setter: _timeout, then settimeout on _socket, which is    *)
(* not the one the TCP server reads, and which raises once it is closed or *)
(* wrapped by a TLS socket: that one keeps its timeout.                    *)
SetTimeout(e) ==
  \E t \in BOOLEAN :
    /\ Call(e) /\ t # timeout[e]
    /\ timeout' = [timeout EXCEPT ![e] = t]
    /\ timed' = IF family # "ssl" /\ socket[e] \in {"pending", "connected"}
                  THEN [timed EXCEPT ![e] = t] ELSE timed
    /\ UNCHANGED <<isOpen, socket, halfOpen, counter, limit, reading, got, streamVars, udpVars,
                   packets, quota>>

(* The writes that the limit m leaves when n were made.                    *)
Remaining(m, n) == IF n > m THEN 0 ELSE m - n

SetSendLimit(e) ==
  \E m \in Limits :
    /\ Call(e)
    /\ limit' = [limit EXCEPT ![e] = m]
    /\ quota' = [quota EXCEPT ![e] = [made |-> 0, most |-> Remaining(m, counter[e])]]
    /\ UNCHANGED <<isOpen, socket, halfOpen, timeout, timed, counter, reading, got, streamVars, udpVars, packets>>

ClearSendLimit(e) ==
  /\ Call(e)
  /\ counter' = [counter EXCEPT ![e] = 0]
  /\ limit' = [limit EXCEPT ![e] = NoLimit]
  /\ UNCHANGED <<isOpen, socket, halfOpen, timeout, timed, reading, got, streamVars, udpVars, packets, quota>>

(***************************************************************************)
(* writePacket, n times.  A stream takes the bytes while the other end     *)
(* reads; once that end is closed they are lost and a reset comes back.    *)
(* It raises on a closed socket, on a stream that was reset and on a UDP   *)
(* server that has read nothing yet, and while the connection is pending:  *)
(* nothing changes.                                                        *)
(***************************************************************************)
Target(e) == IF e = Server THEN remoteAddr ELSE <<Server, 0>>

(* Nobody knows the address of a server that could not bind; a client with *)
(* an address of its own has another one then.                             *)
Source(e) ==
  CASE e = Server -> IF isOpen[e] THEN <<Server, 0>> ELSE <<Server, 1>>
    [] e \in Bound -> IF isOpen[e] THEN <<e, 0>> ELSE Current(e)
    [] OTHER -> Current(e)

CanPut(e) ==
  IF Streaming THEN \E k \in Lines(e) : stream[k][In(e)].state \notin {"reset", "dead"}
  ELSE socket[e] = "connected" /\ Target(e) # NoAddress

Longer(s, m) == [s EXCEPT !.sent = @ + m, !.wire = @ \o [i \in 1..m |-> s.sent + i]]

PutOnStream(e, n) ==
  \E k \in Lines(e) :
    IF stream[k][Out(e)].state = "open"
      THEN stream' = [stream EXCEPT ![k][Out(e)] = Longer(@, n * PacketSize)]
      ELSE stream' = [stream EXCEPT ![k][In(e)].state = "reset"]

PutDatagrams(e, n) ==
  datagrams' = datagrams \cup
    {[from |-> Source(e), to |-> Target(e), nb |-> packets[e] + i] : i \in 1..n}

Put(e, n) ==
  /\ packets' = [packets EXCEPT ![e] = @ + n]
  /\ IF Streaming THEN PutOnStream(e, n) /\ UNCHANGED datagrams
                  ELSE PutDatagrams(e, n) /\ UNCHANGED stream

WithinLimit(e) == limit[e] = NoLimit \/ counter[e] <= limit[e]

(***************************************************************************)
(* write: one packet, or several with a duration, counted once and before  *)
(* they are sent.  sendReceive, of TCPClient only, goes on with read.      *)
(***************************************************************************)
Write(e) ==
  \E n \in 1..2, receive \in BOOLEAN :
    /\ Call(e) /\ WithinLimit(e)
    /\ receive => family = "tcp" /\ e # Server /\ n = 1
    /\ packets[e] + n <= MaxPackets[family]
    /\ counter' = [counter EXCEPT ![e] = @ + 1]
    /\ IF CanPut(e)
         THEN /\ Put(e, n)
              /\ reading' = [reading EXCEPT ![e] = receive]
              /\ quota' = [quota EXCEPT ![e].made = @ + 1]
         ELSE UNCHANGED <<reading, stream, datagrams, packets, quota>>
    /\ UNCHANGED <<isOpen, socket, halfOpen, timeout, timed, limit, got, link, address, remoteAddr>>

(***************************************************************************)
(* read.  TCPClient, TCPServer and SSLClient take what recv returns until  *)
(* it returns nothing: the end of the stream, or a timeout, which may find *)
(* bytes still under way.  Each recv has the whole timeout before it.      *)
(***************************************************************************)
Read(e) ==
  /\ Call(e)
  /\ IF Streaming THEN Lines(e) # {} \/ socket[e] = "pending" ELSE socket[e] = "connected"
  /\ reading' = [reading EXCEPT ![e] = TRUE]
  /\ UNCHANGED <<isOpen, socket, halfOpen, timeout, timed, counter, limit, got, streamVars, udpVars, packets, quota>>

Receiving(e) == reading[e] /\ Streaming

\* Mutant: read keeps the last segment only
MutantKeepsLast(e) ==
  \E k \in Lines(e) :
    LET in == stream[k][In(e)] IN
    \E n \in {1, Len(in.wire)} :
      /\ Receiving(e) /\ in.wire # <<>>
      /\ got' = [got EXCEPT ![e] = SubSeq(in.wire, 1, n)]
      /\ stream' = [stream EXCEPT ![k][In(e)].wire = SubSeq(@, n + 1, Len(@))]
      /\ UNCHANGED <<family, isOpen, socket, halfOpen, timeout, timed, counter, limit, reading, link, udpVars,
                     packets, quota, calls>>

Recv(e) ==
  \E k \in Lines(e) :
    LET in == stream[k][In(e)] IN
    \E n \in {1, Len(in.wire)} :
      /\ Receiving(e) /\ in.wire # <<>>
      /\ got' = [got EXCEPT ![e] = @ \o SubSeq(in.wire, 1, n)]
      /\ stream' = [stream EXCEPT ![k][In(e)].wire = SubSeq(@, n + 1, Len(@))]
      /\ UNCHANGED <<family, isOpen, socket, halfOpen, timeout, timed, counter, limit, reading, link, udpVars,
                     packets, quota, calls>>

\* Mutant: the loop goes on after a timeout
MutantGoesOn(e, in) ==
  \/ in.wire = <<>> /\ in.state \in {"ended", "dead"}
  \/ in.wire = <<>> /\ in.state = "reset" /\ family = "ssl" /\ e # Server

\* Mutant: the loop goes on when recv returns no byte
MutantIgnoresEnd(e, in) ==
  \/ timed[e]
  \/ in.wire = <<>> /\ in.state = "reset" /\ family = "ssl" /\ e # Server

\* SSLClient.read takes every exception for the end of the data
EndsRead(e, in) ==
  \/ timed[e]
  \/ in.wire = <<>> /\ in.state \in {"ended", "dead"}
  \/ in.wire = <<>> /\ in.state = "reset" /\ family = "ssl" /\ e # Server

ReadReturns(e) ==
  \E k \in Lines(e) :
    /\ Receiving(e) /\ EndsRead(e, stream[k][In(e)])
    /\ stream' = [stream EXCEPT ![k][In(e)].back = @ \o got[e]]
    /\ got' = [got EXCEPT ![e] = <<>>]
    /\ reading' = [reading EXCEPT ![e] = FALSE]
    /\ UNCHANGED <<family, isOpen, socket, halfOpen, timeout, timed, counter, limit, link, udpVars, packets, quota, calls>>

\* ConnectionResetError, once: what this read received before is lost
ReadRaises(e) ==
  \E k \in Lines(e) :
    /\ Receiving(e)
    /\ stream[k][In(e)].wire = <<>> /\ stream[k][In(e)].state = "reset"
    /\ family = "tcp" \/ e = Server
    /\ stream' = [stream EXCEPT ![k][In(e)].state = "dead"]
    /\ got' = [got EXCEPT ![e] = <<>>]
    /\ reading' = [reading EXCEPT ![e] = FALSE]
    /\ UNCHANGED <<family, isOpen, socket, halfOpen, timeout, timed, counter, limit, link, udpVars, packets, quota, calls>>

(* read over UDP returns one datagram; the server remembers its sender.    *)
ReceiveDatagram(e) ==
  \E d \in datagrams, repeated \in BOOLEAN :
    /\ reading[e] /\ family = "udp" /\ d.to = Source(e)
    /\ datagrams' = IF repeated THEN datagrams ELSE datagrams \ {d}
    /\ reading' = [reading EXCEPT ![e] = FALSE]
    /\ IF e = Server
         THEN remoteAddr' = d.from
         ELSE UNCHANGED remoteAddr
    /\ UNCHANGED <<family, isOpen, socket, halfOpen, timeout, timed, counter, limit, got, address, streamVars,
                   packets, quota, calls>>

\* socket.timeout goes to the caller, where a stream's read returns nothing
GivesUp(e) ==
  /\ reading[e] /\ timed[e] /\ (family = "udp" \/ socket[e] = "pending")
  /\ reading' = [reading EXCEPT ![e] = FALSE]
  /\ UNCHANGED <<family, isOpen, socket, halfOpen, timeout, timed, counter, limit, got, udpVars, streamVars,
                 packets, quota, calls>>

Lose(d) ==
  /\ datagrams' = datagrams \ {d}
  /\ UNCHANGED <<family, channelVars, streamVars, address, remoteAddr, packets, quota, calls>>

-----------------------------------------------------------------------------
ReadStep(e) == Recv(e) \/ ReadReturns(e) \/ ReadRaises(e) \/ ReceiveDatagram(e) \/ GivesUp(e)

Calls(e) == OpenUdp(e) \/ Close(e) \/ Write(e) \/ Read(e)

Tune(e) == SetTimeout(e) \/ SetSendLimit(e) \/ ClearSendLimit(e)

Next ==
  \/ \E e \in Ends : Calls(e) \/ ReadStep(e)
  \/ \E e \in Ends : <<family, e>> \in Tuned /\ Tune(e)
  \/ \E c \in Clients : OpenClient(c) \/ Connects(c) \/ Refuses(c)
  \/ OpenServer \/ AcceptTimeout
  \/ \E k \in Connections : Accept(k)
  \/ \E d \in datagrams : Lose(d)

(* The thread in read runs, a timeout expires, what was sent arrives.      *)
Fairness == WF_vars(AcceptTimeout) /\ \A e \in Ends : WF_vars(ReadStep(e))

Spec == Init /\ [][Next]_vars /\ Fairness

-----------------------------------------------------------------------------
Stream(s) ==
  /\ s.sent \in Nat /\ s.wire \in Seq(Nat) /\ s.back \in Seq(Nat)
  /\ s.state \in {"open", "ended", "reset", "dead"}

(* The types of the channels' attributes, one served connection and a      *)
(* bounded backlog.                                                        *)
TypeOK ==
  /\ family \in Families
  /\ isOpen \in [Ends -> BOOLEAN] /\ timeout \in [Ends -> BOOLEAN] /\ timed \in [Ends -> BOOLEAN]
  /\ socket \in [Ends -> {"none", "listening", "pending", "connected", "unusable", "closed"}]
  /\ halfOpen \in [Ends -> BOOLEAN]
  /\ counter \in [Ends -> Nat] /\ limit \in [Ends -> Limits \cup {NoLimit}]
  /\ reading \in [Ends -> BOOLEAN] /\ \A e \in Ends : got[e] \in Seq(Nat)
  /\ link \in [Connections -> {"none", "queued", "served"}]
  /\ Cardinality(Served) <= 1 /\ Cardinality(Queued) <= Backlog
  /\ \A k \in Connections : \A way \in {"up", "down"} : Stream(stream[k][way])
  /\ remoteAddr \in Connections \cup {NoAddress}

(* What the reads of one end of a connection returned, the call under way  *)
(* included, is a prefix of what the other end wrote: TCPClient.read,      *)
(* TCPServer.read and SSLClient.read split and merge messages but do not   *)
(* lose, repeat or swap a byte, whatever timeouts and closes come between. *)
(* While nothing is reset, the rest is still under way.                    *)
StreamIntact ==
  \A k \in Connections : \A e \in {k[1], Server} :
    LET s == stream[k][In(e)]
        taken == s.back \o (IF k \in Lines(e) THEN got[e] ELSE <<>>)
    IN  /\ IsPrefix(taken, Upto(s.sent))
        /\ s.state \in {"open", "ended"} => taken \o s.wire = Upto(s.sent)

(* "When it is reached, no more packets can be sent until clearSendLimit   *)
(* is called" (AbstractChannel.setSendLimit): the writes sent since a      *)
(* limit was set are no more than those it left then.  The test of         *)
(* write_map is `counter > max', which lets one more through.              *)
SendLimitHolds ==
  \A e \in Ends : limit[e] # NoLimit => quota[e].made <= quota[e].most

(* A channel that close() closed, that was never opened, that could not    *)
(* bind or was refused, or whose accept timed out, puts nothing on the     *)
(* network.  One that is not open does so only after an open that failed   *)
(* and left its socket working: a connect that timed out and is completed  *)
(* later (TCPClient.open, SSLClient.open), or a bind over UDP.             *)
ClosedChannelsAreSilent ==
  [][\A e \in Ends : ~isOpen[e] /\ ~halfOpen[e] => packets'[e] = packets[e]]_vars

(* A read or an accept of a socket with a timeout returns, as long as the  *)
(* other end sends finitely often (MaxPackets): each recv of a stream      *)
(* waits for the whole timeout again, so that a peer that goes on sending  *)
(* holds TCPClient.read for ever.                                          *)
TimedCallsReturn ==
  \A e \in Ends : reading[e] /\ timed[e] ~> ~reading[e]

(* A read of TCPServer, which has no timeout whatever the channel's, ends  *)
(* once the client has closed the connection.                              *)
ServerReadEndsWithItsClient ==
  (\E k \in Served : reading[Server] /\ stream[k]["up"].state # "open") ~> ~reading[Server]
=============================================================================
