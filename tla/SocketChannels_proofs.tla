----------------------- MODULE SocketChannels_proofs ------------------------
(***************************************************************************)
(* Theorems about the channels over sockets, for any set of clients, of    *)
(* families and of limits, any size of packet and any number of calls and  *)
(* of sockets.                                                             *)
(***************************************************************************)
EXTENDS SocketChannels, SequenceTheorems, FiniteSetTheorems, TLAPS

-----------------------------------------------------------------------------
(* What keeps a closed channel silent: a socket works only while the       *)
(* channel is open or after an open that failed, and a server serves a     *)
(* connection only while open.                                             *)

OpenInvariant ==
  /\ isOpen \in [Ends -> BOOLEAN]
  /\ halfOpen \in [Ends -> BOOLEAN]
  /\ socket \in [Ends -> {"none", "listening", "pending", "connected", "unusable", "closed"}]
  /\ link \in [Connections -> {"none", "queued", "served"}]
  /\ packets \in [Ends -> Nat]
  /\ \A e \in Ends : socket[e] = "connected" => isOpen[e] \/ halfOpen[e]
  /\ \A e \in Ends : socket[e] = "pending" => halfOpen[e] /\ e # Server
  /\ \A k \in Connections : link[k] = "served" => isOpen[Server]

LEMMA ServerIsNoClient == Server \in Ends /\ Server \notin Clients /\ Clients \subseteq Ends
BY SocketAssumption DEF Ends

LEMMA OnlyOpenChannelsPut ==
  ASSUME OpenInvariant, NEW e \in Ends, CanPut(e)
  PROVE  isOpen[e] \/ halfOpen[e]
<1>1. CASE Streaming /\ e = Server
  BY <1>1, ServerIsNoClient DEF OpenInvariant, CanPut, Lines, Served
<1>2. CASE Streaming /\ e # Server
  BY <1>2 DEF OpenInvariant, CanPut, Lines
<1>3. CASE ~Streaming
  BY <1>3 DEF OpenInvariant, CanPut
<1> QED
  BY <1>1, <1>2, <1>3

LEMMA OpenInvariantInit == Init => OpenInvariant
BY DEF Init, OpenInvariant

\* The steps that change neither a socket nor a connection nor a packet.
OpenQuiet == UNCHANGED <<isOpen, socket, halfOpen, link, packets>>

LEMMA ReadStepIsQuiet ==
  ASSUME NEW e \in Ends, ReadStep(e) \/ Read(e) \/ Tune(e)
  PROVE  OpenQuiet
BY DEF ReadStep, Recv, ReadReturns, ReadRaises, ReceiveDatagram, GivesUp, Read, Tune, SetTimeout,
       SetSendLimit, ClearSendLimit, OpenQuiet, streamVars

LEMMA OpenInvariantStep ==
  ASSUME OpenInvariant, [Next]_vars
  PROVE  /\ OpenInvariant'
         /\ \A e \in Ends : ~isOpen[e] /\ ~halfOpen[e] => packets'[e] = packets[e]
<1> USE ServerIsNoClient
<1>1. CASE OpenQuiet
  BY <1>1 DEF OpenInvariant, OpenQuiet
<1>2. ASSUME NEW e \in Ends, OpenUdp(e)
      PROVE  OpenInvariant' /\ UNCHANGED packets
  <2>1. PICK binds \in BOOLEAN :
          /\ isOpen' = [isOpen EXCEPT ![e] = binds] /\ ~isOpen[e]
          /\ halfOpen' = [halfOpen EXCEPT ![e] = ~binds]
          /\ socket' = [socket EXCEPT ![e] = "connected"]
          /\ UNCHANGED <<link, packets>>
    BY <1>2 DEF OpenUdp, streamVars
  <2>2. /\ isOpen' \in [Ends -> BOOLEAN] /\ isOpen'[e] = binds
        /\ halfOpen' \in [Ends -> BOOLEAN] /\ halfOpen'[e] = ~binds
        /\ socket' \in [Ends -> {"none", "listening", "pending", "connected", "unusable", "closed"}]
        /\ socket'[e] = "connected"
        /\ \A f \in Ends : f # e => isOpen'[f] = isOpen[f] /\ halfOpen'[f] = halfOpen[f] /\ socket'[f] = socket[f]
    BY <2>1 DEF OpenInvariant
  <2>3. \A f \in Ends : isOpen[f] => isOpen'[f]
    BY <2>1, <2>2
  <2> QED
    BY <2>1, <2>2, <2>3 DEF OpenInvariant
<1>3. ASSUME NEW e \in Ends, Close(e)
      PROVE  OpenInvariant' /\ UNCHANGED packets
  <2>1. CASE e = Server
    BY <1>3, <2>1 DEF Close, HangupAll, OpenInvariant
  <2>2. CASE e # Server
    BY <1>3, <2>2 DEF Close, OpenInvariant
  <2> QED
    BY <2>1, <2>2
<1>4. ASSUME NEW e \in Ends, Write(e)
      PROVE  OpenInvariant' /\ \A f \in Ends : ~isOpen[f] /\ ~halfOpen[f] => packets'[f] = packets[f]
  <2>1. UNCHANGED <<isOpen, socket, halfOpen, link>>
    BY <1>4 DEF Write
  <2>2. CASE CanPut(e)
    <3>1. PICK n \in 1..2 : packets' = [packets EXCEPT ![e] = @ + n]
      BY <1>4, <2>2 DEF Write, Put
    <3>2. isOpen[e] \/ halfOpen[e]
      BY <2>2, OnlyOpenChannelsPut
    <3> QED
      BY <2>1, <3>1, <3>2 DEF OpenInvariant
  <2>3. CASE ~CanPut(e)
    BY <1>4, <2>1, <2>3, <1>1 DEF Write, OpenInvariant
  <2> QED
    BY <2>2, <2>3
<1>5. ASSUME NEW c \in Clients, OpenClient(c)
      PROVE  OpenInvariant' /\ UNCHANGED packets
  <2>1. PICK open \in BOOLEAN, half \in BOOLEAN, state \in {"pending", "connected", "unusable"} :
          /\ isOpen' = [isOpen EXCEPT ![c] = open] \/ (isOpen' = isOpen /\ ~open /\ ~isOpen[c])
          /\ halfOpen' = [halfOpen EXCEPT ![c] = half]
          /\ socket' = [socket EXCEPT ![c] = state]
          /\ (state = "connected" /\ open) \/ (state = "unusable" /\ ~open) \/ (state = "pending" /\ half /\ ~open)
    BY <1>5 DEF OpenClient, OpenInvariant
  <2>2. link' = link \/ link' = [link EXCEPT ![<<c, address'[c]>>] = "queued"]
    BY <1>5 DEF OpenClient
  <2>3. link' \in [Connections -> {"none", "queued", "served"}]
        /\ \A k \in Connections : link'[k] = "served" => link[k] = "served"
    BY <2>2 DEF OpenInvariant
  <2>4. /\ c \in Ends /\ c # Server /\ isOpen'[Server] = isOpen[Server]
        /\ isOpen' \in [Ends -> BOOLEAN] /\ isOpen'[c] = open
        /\ halfOpen' \in [Ends -> BOOLEAN] /\ halfOpen'[c] = half
        /\ socket' \in [Ends -> {"none", "listening", "pending", "connected", "unusable", "closed"}]
        /\ socket'[c] = state
        /\ \A e \in Ends : e # c => isOpen'[e] = isOpen[e] /\ halfOpen'[e] = halfOpen[e] /\ socket'[e] = socket[e]
    BY <2>1 DEF OpenInvariant
  <2>5. packets' = packets
    BY <1>5 DEF OpenClient
  <2> QED
    BY <2>1, <2>3, <2>4, <2>5 DEF OpenInvariant
<1>6. CASE OpenServer
  <2>1. PICK state \in {"listening", "unusable"} :
          /\ socket' = [socket EXCEPT ![Server] = state]
          /\ link' = [k \in Connections |-> "none"]
          /\ UNCHANGED <<isOpen, halfOpen, packets>>
    BY <1>6 DEF OpenServer, HangupAll
  <2> QED
    BY <2>1 DEF OpenInvariant
<1>7. ASSUME NEW k \in Connections, Accept(k)
      PROVE  OpenInvariant' /\ UNCHANGED packets
  BY <1>7 DEF Accept, OpenInvariant
<1>8. AcceptTimeout \/ (\E d \in datagrams : Lose(d)) \/ UNCHANGED vars => OpenQuiet
  BY DEF AcceptTimeout, Lose, OpenQuiet, vars, channelVars, streamVars
<1>12. ASSUME NEW c \in Clients, Connects(c) \/ Refuses(c)
       PROVE  OpenInvariant' /\ UNCHANGED packets
  BY <1>12 DEF Connects, Refuses, OpenInvariant, streamVars
<1>9. CASE \E e \in Ends : Calls(e) \/ ReadStep(e)
  BY <1>9, <1>1, <1>2, <1>3, <1>4, ReadStepIsQuiet DEF Calls
<1>10. CASE \E e \in Ends : <<family, e>> \in Tuned /\ Tune(e)
  BY <1>10, <1>1, ReadStepIsQuiet
<1>11. CASE OpenServer \/ AcceptTimeout
  BY <1>11, <1>1, <1>6, <1>8 DEF OpenServer
<1> QED
  BY <1>1, <1>5, <1>7, <1>8, <1>9, <1>10, <1>11, <1>12 DEF Next

(* A channel that was closed, never opened, refused or not accepted puts   *)
(* nothing on the network, for any interleaving of the calls and of the    *)
(* connects that the kernel ends late (ClosedChannelsAreSilent): only an   *)
(* open that failed and left a working socket lets a channel send.         *)
THEOREM ClosedStaySilent == Spec => ClosedChannelsAreSilent
<1>1. Init => OpenInvariant
  BY OpenInvariantInit
<1>2. OpenInvariant /\ [Next]_vars => OpenInvariant'
  BY OpenInvariantStep
<1>3. OpenInvariant /\ [Next]_vars => [\A e \in Ends : ~isOpen[e] /\ ~halfOpen[e] => packets'[e] = packets[e]]_vars
  BY OpenInvariantStep
<1> QED
  BY <1>1, <1>2, <1>3, PTL DEF Spec, ClosedChannelsAreSilent

-----------------------------------------------------------------------------
(* What is left of a limit.  The documentation promises that nothing more  *)
(* is sent once the limit is reached; the test of write_map lets one more  *)
(* write through, and never two.                                           *)

OneBeyondTheLimit ==
  \A e \in Ends : limit[e] # NoLimit => quota[e].made <= quota[e].most + 1

QuotaInvariant ==
  /\ counter \in [Ends -> Nat] /\ limit \in [Ends -> Nat]
  /\ quota \in [Ends -> [made : Nat, most : Nat]]
  /\ \A e \in Ends : limit[e] # NoLimit =>
       /\ quota[e].made <= quota[e].most + 1
       /\ counter[e] <= limit[e] => quota[e].made + limit[e] <= quota[e].most + counter[e]

QuotaQuiet == UNCHANGED <<counter, limit, quota>>

LEMMA OthersAreQuotaQuiet ==
  ASSUME NEW e \in Ends,
         OpenUdp(e) \/ Close(e) \/ Read(e) \/ ReadStep(e) \/ SetTimeout(e)
  PROVE  QuotaQuiet
BY DEF OpenUdp, Close, Read, ReadStep, Recv, ReadReturns, ReadRaises, ReceiveDatagram, GivesUp,
       SetTimeout, QuotaQuiet

LEMMA QuotaInvariantStep ==
  ASSUME QuotaInvariant, [Next]_vars
  PROVE  QuotaInvariant'
<1>1. CASE QuotaQuiet
  BY <1>1 DEF QuotaInvariant, QuotaQuiet
<1>2. ASSUME NEW e \in Ends, Write(e)
      PROVE  QuotaInvariant'
  <2>1. /\ counter' = [counter EXCEPT ![e] = @ + 1]
        /\ quota' = quota \/ quota' = [quota EXCEPT ![e].made = @ + 1]
        /\ limit' = limit
        /\ limit[e] = NoLimit \/ counter[e] <= limit[e]
    BY <1>2 DEF Write, WithinLimit
  <2>2. quota' \in [Ends -> [made : Nat, most : Nat]]
    BY <2>1 DEF QuotaInvariant
  <2>3. /\ quota'[e].made \in {quota[e].made, quota[e].made + 1} /\ quota'[e].most = quota[e].most
        /\ \A f \in Ends : f # e => quota'[f] = quota[f]
    BY <2>1 DEF QuotaInvariant
  <2>4. counter' \in [Ends -> Nat] /\ counter'[e] = counter[e] + 1
        /\ \A f \in Ends : f # e => counter'[f] = counter[f]
    BY <2>1 DEF QuotaInvariant
  <2>5. quota[e].made \in Nat /\ quota[e].most \in Nat /\ counter[e] \in Nat /\ limit[e] \in Nat
    BY DEF QuotaInvariant
  <2>6. limit'[e] # NoLimit =>
          /\ quota'[e].made <= quota'[e].most + 1
          /\ counter'[e] <= limit'[e] => quota'[e].made + limit'[e] <= quota'[e].most + counter'[e]
    <3> SUFFICES ASSUME limit[e] # NoLimit
                 PROVE  /\ quota'[e].made <= quota'[e].most + 1
                        /\ counter'[e] <= limit[e] => quota'[e].made + limit[e] <= quota'[e].most + counter'[e]
      BY <2>1
    <3>1. quota[e].made + limit[e] <= quota[e].most + counter[e] /\ counter[e] <= limit[e]
      BY <2>1 DEF QuotaInvariant
    <3> QED
      BY <2>3, <2>4, <2>5, <3>1
  <2>7. \A f \in Ends : f # e => quota'[f] = quota[f] /\ counter'[f] = counter[f] /\ limit'[f] = limit[f]
    BY <2>1, <2>3, <2>4
  <2> QED
    BY <2>1, <2>2, <2>4, <2>6, <2>7 DEF QuotaInvariant
<1>3. ASSUME NEW e \in Ends, SetSendLimit(e)
      PROVE  QuotaInvariant'
  <2>1. PICK m \in Limits :
          /\ limit' = [limit EXCEPT ![e] = m]
          /\ quota' = [quota EXCEPT ![e] = [made |-> 0, most |-> Remaining(m, counter[e])]]
          /\ counter' = counter
    BY <1>3 DEF SetSendLimit
  <2>2. m \in Nat /\ Remaining(m, counter[e]) \in Nat
        /\ (counter[e] <= m => m <= Remaining(m, counter[e]) + counter[e])
    BY SocketAssumption DEF QuotaInvariant, Remaining
  <2> QED
    BY <2>1, <2>2 DEF QuotaInvariant
<1>4. ASSUME NEW e \in Ends, ClearSendLimit(e)
      PROVE  QuotaInvariant'
  BY <1>4 DEF ClearSendLimit, QuotaInvariant, NoLimit
<1>5. (\E c \in Clients : OpenClient(c) \/ Connects(c) \/ Refuses(c)) \/ OpenServer \/ AcceptTimeout
        \/ (\E k \in Connections : Accept(k)) \/ (\E d \in datagrams : Lose(d)) \/ UNCHANGED vars
      => QuotaQuiet
  BY DEF OpenClient, Connects, Refuses, OpenServer, AcceptTimeout, Accept, Lose, QuotaQuiet, vars, channelVars
<1>6. CASE \E e \in Ends : Calls(e) \/ ReadStep(e)
  BY <1>6, <1>1, <1>2, OthersAreQuotaQuiet DEF Calls
<1>7. CASE \E e \in Ends : <<family, e>> \in Tuned /\ Tune(e)
  BY <1>7, <1>1, <1>3, <1>4, OthersAreQuotaQuiet DEF Tune
<1> QED
  BY <1>1, <1>5, <1>6, <1>7 DEF Next

(* Whatever limits are set, moved and cleared, and however many writes     *)
(* fail, at most one write more is sent than a limit left when it was set  *)
(* (setSendLimit and write_map).                                           *)
THEOREM LimitIsPassedOnce == Spec => []OneBeyondTheLimit
<1>1. Init => QuotaInvariant
  BY DEF Init, QuotaInvariant, NoLimit
<1>2. QuotaInvariant /\ [Next]_vars => QuotaInvariant'
  BY QuotaInvariantStep
<1>3. QuotaInvariant => OneBeyondTheLimit
  BY DEF QuotaInvariant, OneBeyondTheLimit
<1> QED
  BY <1>1, <1>2, <1>3, PTL DEF Spec

-----------------------------------------------------------------------------
(* One direction of a connection.  The bytes the reads returned, those the *)
(* read under way holds and those on the wire follow each other, and while *)
(* nothing is reset there are no others.                                   *)

Streams == [sent : Nat, wire : Seq(Nat), back : Seq(Nat), state : {"open", "ended", "reset", "dead"}]

\* The bytes of s are those after the first n.
After(n, s) == \A i \in 1..Len(s) : s[i] = n + i

\* Of sent bytes, some are lost unless the stream is whole.
Follow(back, held, wire, sent, whole) ==
  /\ After(0, back) /\ After(Len(back), held) /\ After(Len(back) + Len(held), wire)
  /\ Len(back) + Len(held) + Len(wire) <= sent
  /\ whole => Len(back) + Len(held) + Len(wire) = sent

Intact(s, held) == Follow(s.back, held, s.wire, s.sent, s.state \in {"open", "ended"})

LEMMA StreamFields ==
  ASSUME NEW s \in Streams
  PROVE  /\ s.wire \in Seq(Nat) /\ s.back \in Seq(Nat) /\ s.sent \in Nat
         /\ Len(s.wire) \in Nat /\ Len(s.back) \in Nat /\ Len(<<>>) = 0
BY LenProperties DEF Streams

LEMMA AfterNothing == \A n : After(n, <<>>)
BY DEF After

LEMMA AfterConcat ==
  ASSUME NEW n \in Nat, NEW s \in Seq(Nat), NEW t \in Seq(Nat), After(n, s), After(n + Len(s), t)
  PROVE  s \o t \in Seq(Nat) /\ Len(s \o t) = Len(s) + Len(t) /\ After(n, s \o t)
<1> DEFINE all == s \o t
<1>1. Len(s) \in Nat /\ Len(t) \in Nat
  BY LenProperties
<1>2. /\ all \in Seq(Nat) /\ Len(all) = Len(s) + Len(t)
      /\ \A i \in 1..(Len(s) + Len(t)) : all[i] = IF i <= Len(s) THEN s[i] ELSE t[i - Len(s)]
  BY ConcatProperties
<1> HIDE DEF all
<1>3. ASSUME NEW i \in 1..Len(all)
      PROVE  all[i] = n + i
  <2>1. CASE i <= Len(s)
    <3>1. i \in 1..Len(s)
      BY <1>1, <1>2, <2>1
    <3> QED
      BY <1>1, <1>2, <2>1, <3>1 DEF After
  <2>2. CASE ~(i <= Len(s))
    <3>1. i - Len(s) \in 1..Len(t) /\ i \in 1..(Len(s) + Len(t))
      BY <1>1, <1>2, <2>2
    <3>2. all[i] = t[i - Len(s)]
      BY <1>2, <2>2, <3>1
    <3>3. t[i - Len(s)] = (n + Len(s)) + (i - Len(s))
      BY <3>1 DEF After
    <3> QED
      BY <1>1, <3>1, <3>2, <3>3
  <2> QED
    BY <2>1, <2>2
<1> QED
  BY <1>2, <1>3 DEF After, all

LEMMA AfterSplit ==
  ASSUME NEW n \in Nat, NEW s \in Seq(Nat), After(n, s), NEW m \in 0..Len(s)
  PROVE  LET head == SubSeq(s, 1, m)
             rest == SubSeq(s, m + 1, Len(s))
         IN  /\ head \in Seq(Nat) /\ Len(head) = m /\ After(n, head)
             /\ rest \in Seq(Nat) /\ Len(rest) = Len(s) - m /\ After(n + m, rest)
<1> DEFINE head == SubSeq(s, 1, m)
           rest == SubSeq(s, m + 1, Len(s))
<1>1. Len(s) \in Nat /\ m \in Nat
  BY LenProperties
<1>2. \A i \in 1..Len(s) : s[i] \in Nat
  BY ElementOfSeq
<1>3. /\ head \in Seq(Nat) /\ Len(head) = m
      /\ \A i \in 1..m : head[i] = s[i]
  <2>1. \A i \in 1..m : s[i] \in Nat
    BY <1>1, <1>2
  <2> QED
    BY <1>1, <2>1, SubSeqProperties
<1>4. /\ rest \in Seq(Nat) /\ Len(rest) = Len(s) - m
      /\ \A i \in 1..(Len(s) - m) : rest[i] = s[m + i]
  <2>1. \A i \in (m + 1)..Len(s) : s[i] \in Nat
    BY <1>1, <1>2
  <2>2. m + 1 \in Int /\ Len(s) \in Int
    BY <1>1
  <2>3. /\ rest \in Seq(Nat)
        /\ Len(rest) = IF m + 1 <= Len(s) THEN Len(s) - (m + 1) + 1 ELSE 0
        /\ \A i \in 1..(Len(s) - (m + 1) + 1) : rest[i] = s[(m + 1) + i - 1]
    BY <2>1, <2>2, SubSeqProperties, SMTT(20)
  <2> HIDE DEF rest
  <2>4. /\ (IF m + 1 <= Len(s) THEN Len(s) - (m + 1) + 1 ELSE 0) = Len(s) - m
        /\ \A i \in 1..(Len(s) - m) : i \in 1..(Len(s) - (m + 1) + 1) /\ (m + 1) + i - 1 = m + i
    BY <1>1
  <2> QED
    BY <2>3, <2>4
<1> HIDE DEF head, rest
<1>5. ASSUME NEW i \in 1..Len(head)
      PROVE  head[i] = n + i
  <2>1. i \in 1..Len(s) /\ i \in 1..m
    BY <1>1, <1>3
  <2> QED
    BY <1>3, <2>1 DEF After
<1>6. ASSUME NEW i \in 1..Len(rest)
      PROVE  rest[i] = (n + m) + i
  <2>1. m + i \in 1..Len(s) /\ i \in 1..(Len(s) - m)
    BY <1>1, <1>4
  <2>2. rest[i] = s[m + i] /\ s[m + i] = n + (m + i)
    BY <1>4, <2>1 DEF After
  <2> QED
    BY <1>1, <2>1, <2>2
<1> QED
  BY <1>3, <1>4, <1>5, <1>6 DEF After, head, rest

LEMMA FollowSegment ==
  ASSUME NEW back \in Seq(Nat), NEW held \in Seq(Nat), NEW wire \in Seq(Nat), NEW sent \in Nat,
         NEW whole, Follow(back, held, wire, sent, whole), NEW n \in 0..Len(wire)
  PROVE  LET more == held \o SubSeq(wire, 1, n)
             rest == SubSeq(wire, n + 1, Len(wire))
         IN  more \in Seq(Nat) /\ rest \in Seq(Nat) /\ Follow(back, more, rest, sent, whole)
<1> DEFINE head == SubSeq(wire, 1, n)
           rest == SubSeq(wire, n + 1, Len(wire))
           more == held \o head
<1>1. Len(wire) \in Nat /\ Len(back) \in Nat /\ Len(held) \in Nat /\ n \in Nat
  BY LenProperties
<1>2. Len(back) + Len(held) \in Nat
  BY <1>1
<1>3. /\ head \in Seq(Nat) /\ Len(head) = n /\ After(Len(back) + Len(held), head)
      /\ rest \in Seq(Nat) /\ Len(rest) = Len(wire) - n /\ After((Len(back) + Len(held)) + n, rest)
  <2>1. After(Len(back) + Len(held), wire)
    BY DEF Follow
  <2> QED
    BY <1>2, <2>1, AfterSplit
<1> HIDE DEF head, rest
<1>4. more \in Seq(Nat) /\ Len(more) = Len(held) + n /\ After(Len(back), more)
  <2>1. After(Len(back), held) /\ After(Len(back) + Len(held), head) /\ head \in Seq(Nat)
    BY <1>3 DEF Follow
  <2>2. more \in Seq(Nat) /\ Len(more) = Len(held) + Len(head) /\ After(Len(back), more)
    BY <1>1, <2>1, AfterConcat
  <2> QED
    BY <1>3, <2>2
<1> HIDE DEF more
<1>5. /\ (Len(back) + Len(held)) + n = Len(back) + Len(more)
      /\ Len(back) + Len(more) + Len(rest) = Len(back) + Len(held) + Len(wire)
  BY <1>1, <1>3, <1>4
<1>6. Follow(back, more, rest, sent, whole)
  BY <1>3, <1>4, <1>5 DEF Follow
<1> QED
  BY <1>3, <1>4, <1>6 DEF head, rest, more

LEMMA FollowReturn ==
  ASSUME NEW back \in Seq(Nat), NEW held \in Seq(Nat), NEW wire \in Seq(Nat), NEW sent \in Nat,
         NEW whole, Follow(back, held, wire, sent, whole)
  PROVE  /\ back \o held \in Seq(Nat) /\ Len(back \o held) = Len(back) + Len(held)
         /\ Follow(back \o held, <<>>, wire, sent, whole)
<1> DEFINE all == back \o held
<1>1. /\ Len(back) \in Nat /\ Len(held) \in Nat /\ Len(wire) \in Nat
      /\ Len(<<>>) = 0 /\ 0 + Len(back) = Len(back)
  BY LenProperties
<1>2. all \in Seq(Nat) /\ Len(all) = Len(back) + Len(held) /\ After(0, all)
  BY <1>1, AfterConcat DEF Follow
<1> HIDE DEF all
<1>3. Len(all) + Len(<<>>) = Len(back) + Len(held)
  BY <1>1, <1>2
<1>4. Follow(all, <<>>, wire, sent, whole)
  BY <1>2, <1>3, AfterNothing DEF Follow
<1> QED
  BY <1>2, <1>4 DEF all

\* What was held is lost, at the end of a stream.
LEMMA FollowRaise ==
  ASSUME NEW back \in Seq(Nat), NEW held \in Seq(Nat), NEW sent \in Nat,
         NEW whole, Follow(back, held, <<>>, sent, whole)
  PROVE  Follow(back, <<>>, <<>>, sent, FALSE)
<1>1. Len(back) \in Nat /\ Len(held) \in Nat /\ Len(<<>>) = 0
  BY LenProperties
<1>2. Len(back) + Len(<<>>) + Len(<<>>) <= sent
  BY <1>1 DEF Follow
<1> QED
  BY <1>2, AfterNothing DEF Follow

LEMMA FollowDrop ==
  ASSUME NEW back \in Seq(Nat), NEW held \in Seq(Nat), NEW wire \in Seq(Nat), NEW sent \in Nat,
         NEW whole, Follow(back, held, wire, sent, whole)
  PROVE  Follow(back, held, <<>>, sent, FALSE)
<1>1. Len(back) \in Nat /\ Len(held) \in Nat /\ Len(wire) \in Nat /\ Len(<<>>) = 0
  BY LenProperties
<1>2. Len(back) + Len(held) + Len(<<>>) <= sent
  BY <1>1 DEF Follow
<1> QED
  BY <1>2, AfterNothing DEF Follow

LEMMA FollowWrite ==
  ASSUME NEW back \in Seq(Nat), NEW held \in Seq(Nat), NEW wire \in Seq(Nat), NEW sent \in Nat,
         Follow(back, held, wire, sent, TRUE), NEW m \in Nat
  PROVE  LET all == wire \o [i \in 1..m |-> sent + i]
         IN  all \in Seq(Nat) /\ sent + m \in Nat /\ Follow(back, held, all, sent + m, TRUE)
<1> DEFINE new == [i \in 1..m |-> sent + i]
           all == wire \o new
<1>1. Len(wire) \in Nat /\ Len(back) \in Nat /\ Len(held) \in Nat
  BY LenProperties
<1>2. new \in Seq(Nat) /\ Len(new) = m /\ After(sent, new)
  BY DEF After
<1> HIDE DEF new
<1>3. Len(back) + Len(held) \in Nat /\ sent = (Len(back) + Len(held)) + Len(wire)
  BY <1>1 DEF Follow
<1>4. all \in Seq(Nat) /\ Len(all) = Len(wire) + m /\ After(Len(back) + Len(held), all)
  BY <1>2, <1>3, AfterConcat DEF Follow
<1> HIDE DEF all
<1>5. Len(back) + Len(held) + Len(all) = sent + m /\ sent + m \in Nat
  BY <1>1, <1>3, <1>4
<1>6. Follow(back, held, all, sent + m, TRUE)
  BY <1>4, <1>5 DEF Follow
<1> QED
  BY <1>4, <1>5, <1>6 DEF all, new

\* What StreamIntact says of one direction follows from its positions.
LEMMA FollowIsPrefix ==
  ASSUME NEW back \in Seq(Nat), NEW held \in Seq(Nat), NEW wire \in Seq(Nat), NEW sent \in Nat,
         NEW whole \in BOOLEAN, Follow(back, held, wire, sent, whole)
  PROVE  /\ IsPrefix(back \o held, Upto(sent))
         /\ whole => (back \o held) \o wire = Upto(sent)
<1> DEFINE taken == back \o held
           all == taken \o wire
           written == Upto(sent)
           start == SubSeq(written, 1, Len(taken))
<1>1. Len(held) \in Nat /\ Len(back) \in Nat /\ Len(wire) \in Nat /\ Len(<<>>) = 0
  BY LenProperties
<1>2. taken \in Seq(Nat) /\ Len(taken) = Len(back) + Len(held) /\ Follow(taken, <<>>, wire, sent, whole)
  BY FollowReturn
<1>3. written \in Seq(Nat) /\ Len(written) = sent /\ After(0, written)
  BY DEF Upto, After
<1> HIDE DEF taken, written
<1>4. Len(taken) \in 0..Len(written) /\ 0 + Len(taken) = Len(taken) + Len(<<>>) /\ Len(taken) \in Nat
  BY <1>1, <1>2, <1>3 DEF Follow
<1>5. all \in Seq(Nat) /\ Len(all) = Len(taken) + Len(wire) /\ After(0, all)
  BY <1>2, <1>4, AfterConcat DEF Follow
<1>6. start \in Seq(Nat) /\ Len(start) = Len(taken) /\ After(0, start)
  BY <1>3, <1>4, AfterSplit
<1> HIDE DEF all, start
<1>7. \A t \in Seq(Nat), u \in Seq(Nat) : Len(t) = Len(u) /\ After(0, t) /\ After(0, u) => t = u
  <2> SUFFICES ASSUME NEW t \in Seq(Nat), NEW u \in Seq(Nat), Len(t) = Len(u), After(0, t), After(0, u)
               PROVE  t = u
    OBVIOUS
  <2>1. \A i \in 1..Len(t) : t[i] = u[i]
    BY DEF After
  <2> QED
    BY <2>1, SeqEqual
<1>8. SubSeq(taken, 1, Len(taken)) = start
  <2>1. After(0, taken)
    BY <1>2 DEF Follow
  <2>2. start = taken
    BY <1>2, <1>6, <1>7, <2>1
  <2> QED
    BY <1>2, <2>2, SubSeqFull
<1>9. ASSUME whole
      PROVE  all = written
  <2>1. Len(all) = Len(written)
    BY <1>1, <1>2, <1>3, <1>4, <1>5, <1>9 DEF Follow
  <2> QED
    BY <1>3, <1>5, <1>7, <2>1
<1>10. Len(taken) <= Len(written)
  BY <1>1, <1>3, <1>4
<1> QED
  BY <1>8, <1>9, <1>10 DEF IsPrefix, taken, all, written, start

-----------------------------------------------------------------------------
(* The same of the record of a stream, for each of the ways it changes.    *)

LEMMA IntactSegment ==
  ASSUME NEW s \in Streams, NEW held \in Seq(Nat), Intact(s, held), NEW n \in 0..Len(s.wire)
  PROVE  LET t == [s EXCEPT !.wire = SubSeq(@, n + 1, Len(@))]
             more == held \o SubSeq(s.wire, 1, n)
         IN  t \in Streams /\ more \in Seq(Nat) /\ Intact(t, more)
<1> DEFINE rest == SubSeq(s.wire, n + 1, Len(s.wire))
           more == held \o SubSeq(s.wire, 1, n)
           t == [s EXCEPT !.wire = rest]
<1>1. /\ more \in Seq(Nat) /\ rest \in Seq(Nat)
      /\ Follow(s.back, more, rest, s.sent, s.state \in {"open", "ended"})
  BY StreamFields, FollowSegment DEF Intact
<1> HIDE DEF rest, more
<1>2. t \in Streams /\ t.wire = rest /\ t.back = s.back /\ t.sent = s.sent /\ t.state = s.state
  BY <1>1 DEF Streams
<1> QED
  BY <1>1, <1>2 DEF Intact, rest, more

LEMMA IntactReturn ==
  ASSUME NEW s \in Streams, NEW held \in Seq(Nat), Intact(s, held)
  PROVE  LET t == [s EXCEPT !.back = @ \o held] IN t \in Streams /\ Intact(t, <<>>)
<1> DEFINE back == s.back \o held
           t == [s EXCEPT !.back = back]
<1>1. back \in Seq(Nat) /\ Follow(back, <<>>, s.wire, s.sent, s.state \in {"open", "ended"})
  BY StreamFields, FollowReturn DEF Intact
<1> HIDE DEF back
<1>2. t \in Streams /\ t.wire = s.wire /\ t.back = back /\ t.sent = s.sent /\ t.state = s.state
  BY <1>1 DEF Streams
<1> QED
  BY <1>1, <1>2 DEF Intact, back

LEMMA IntactRaise ==
  ASSUME NEW s \in Streams, NEW held \in Seq(Nat), Intact(s, held), s.wire = <<>>
  PROVE  LET t == [s EXCEPT !.state = "dead"] IN t \in Streams /\ Intact(t, <<>>)
<1> DEFINE t == [s EXCEPT !.state = "dead"]
<1>1. t \in Streams /\ t.wire = <<>> /\ t.back = s.back /\ t.sent = s.sent /\ t.state = "dead"
  BY DEF Streams
<1> HIDE DEF t
<1>2. Follow(s.back, <<>>, <<>>, s.sent, FALSE)
  BY StreamFields, FollowRaise DEF Intact
<1> QED
  BY <1>1, <1>2 DEF Intact, Follow, t

LEMMA IntactWrite ==
  ASSUME NEW s \in Streams, NEW held \in Seq(Nat), Intact(s, held), s.state = "open", NEW m \in Nat
  PROVE  Longer(s, m) \in Streams /\ Intact(Longer(s, m), held)
<1> DEFINE wire == s.wire \o [i \in 1..m |-> s.sent + i]
           sent == s.sent + m
           t == [s EXCEPT !.sent = sent, !.wire = wire]
<1>1. Follow(s.back, held, s.wire, s.sent, TRUE)
  BY DEF Intact, Follow
<1>2. wire \in Seq(Nat) /\ sent \in Nat /\ Follow(s.back, held, wire, sent, TRUE)
  BY <1>1, StreamFields, FollowWrite
<1> HIDE DEF wire, sent
<1>3. t \in Streams /\ t.wire = wire /\ t.back = s.back /\ t.sent = sent /\ t.state = s.state
  BY <1>2 DEF Streams
<1> QED
  BY <1>2, <1>3 DEF Intact, Follow, wire, sent, Longer

LEMMA IntactState ==
  ASSUME NEW s \in Streams, NEW held \in Seq(Nat), Intact(s, held), NEW state,
         state = "reset" \/ (state = "ended" /\ s.state = "open")
  PROVE  LET t == [s EXCEPT !.state = state] IN t \in Streams /\ Intact(t, held)
<1> DEFINE t == [s EXCEPT !.state = state]
<1>1. t \in Streams /\ t.wire = s.wire /\ t.back = s.back /\ t.sent = s.sent /\ t.state = state
  BY DEF Streams
<1> HIDE DEF t
<1>2. Intact(t, held)
  BY <1>1 DEF Intact, Follow
<1> QED
  BY <1>1, <1>2 DEF t

LEMMA IntactDrop ==
  ASSUME NEW s \in Streams, NEW held \in Seq(Nat), Intact(s, held)
  PROVE  LET t == [s EXCEPT !.wire = <<>>, !.state = "reset"] IN t \in Streams /\ Intact(t, held)
<1> DEFINE t == [s EXCEPT !.wire = <<>>, !.state = "reset"]
<1>1. t \in Streams /\ t.wire = <<>> /\ t.back = s.back /\ t.sent = s.sent /\ t.state = "reset"
  BY EmptySeq DEF Streams
<1> HIDE DEF t
<1>2. Follow(s.back, held, <<>>, s.sent, FALSE)
  BY StreamFields, FollowDrop DEF Intact
<1> QED
  BY <1>1, <1>2 DEF Intact, Follow, t

-----------------------------------------------------------------------------
(* Both directions of every connection.  What a read holds belongs to the  *)
(* one connection that the channel uses: nothing is held outside of read,  *)
(* a server serves one client at a time, and a client's sockets are new.   *)

Ways == {"up", "down"}
Reader(k, way) == IF way = "up" THEN Server ELSE k[1]
Held(e, k) == IF k \in Lines(e) THEN got[e] ELSE <<>>

AllIntact == \A k \in Connections, way \in Ways : Intact(stream[k][way], Held(Reader(k, way), k))

LineInvariant ==
  /\ OpenInvariant
  /\ address \in [Clients -> 0..MaxSockets]
  /\ reading \in [Ends -> BOOLEAN] /\ got \in [Ends -> Seq(Nat)]
  /\ \A e \in Ends : got[e] # <<>> => reading[e] /\ Streaming /\ (e = Server => isOpen[Server])
  /\ \A c \in Clients : got[c] # <<>> => socket[c] = "connected"
  /\ \A c \in Clients : socket[c] = "pending" => link[Current(c)] = "none"
  /\ \A k \in Connections : link[k] # "none" => k[2] <= address[k[1]]
  /\ \A k, l \in Connections : link[k] = "served" /\ link[l] = "served" => k = l

StreamInvariant ==
  LineInvariant /\ stream \in [Connections -> [Ways -> Streams]] /\ AllIntact

LEMMA ReadersAreEnds ==
  ASSUME NEW k \in Connections, NEW way \in Ways
  PROVE  Reader(k, way) \in Ends /\ k[1] \in Clients /\ k[1] # Server
BY ServerIsNoClient DEF Reader, Connections, Ways

LEMMA OneLine ==
  ASSUME LineInvariant, NEW e \in Ends, NEW k \in Lines(e)
  PROVE  /\ k \in Connections /\ In(e) \in Ways /\ Out(e) \in Ways /\ In(e) # Out(e)
         /\ Reader(k, In(e)) = e
         /\ \A l \in Lines(e) : l = k
<1>1. CASE e = Server
  BY <1>1 DEF LineInvariant, Lines, Served, In, Out, Ways, Reader
<1>2. CASE e # Server
  <2>1. e \in Clients /\ Lines(e) \subseteq {<<e, address[e]>>}
    BY <1>2 DEF Ends, Lines, Current
  <2>2. k = <<e, address[e]>> /\ address[e] \in 0..MaxSockets
    BY <2>1 DEF LineInvariant
  <2> QED
    BY <1>2, <2>1, <2>2 DEF Connections, In, Out, Ways, Reader
<1> QED
  BY <1>1, <1>2

\* A channel that is in read goes on with what it held and on the same
\* connection: what every reader holds is then what it held.
Steady == \A e \in Ends : got'[e] = got[e] /\ (got[e] = <<>> \/ Lines(e)' = Lines(e))

LEMMA HeldIsKept ==
  ASSUME Steady, NEW e \in Ends, NEW k
  PROVE  Held(e, k)' = Held(e, k)
<1>1. CASE got[e] = <<>>
  BY <1>1 DEF Steady, Held
<1>2. CASE got[e] # <<>>
  BY <1>2 DEF Steady, Held
<1> QED
  BY <1>1, <1>2

LEMMA SteadyKeepsIntact ==
  ASSUME AllIntact, Steady, stream' = stream
  PROVE  AllIntact'
BY HeldIsKept, ReadersAreEnds DEF AllIntact

-----------------------------------------------------------------------------
(* The lines, for the actions that leave what is held alone.               *)

LEMMA LineInit == Init => LineInvariant
<1> SUFFICES ASSUME Init PROVE LineInvariant
  OBVIOUS
<1>1. \A e \in Ends : got[e] = <<>> /\ socket[e] = "none"
  BY DEF Init
<1>2. got \in [Ends -> Seq(Nat)]
  BY EmptySeq DEF Init
<1>3. address \in [Clients -> 0..MaxSockets] /\ reading \in [Ends -> BOOLEAN]
  BY SocketAssumption DEF Init
<1>4. \A k \in Connections : link[k] = "none"
  BY DEF Init
<1> QED
  BY <1>1, <1>2, <1>3, <1>4, OpenInvariantInit, ServerIsNoClient DEF LineInvariant

LEMMA LineOpenUdp ==
  ASSUME LineInvariant, OpenInvariant', NEW e \in Ends, OpenUdp(e)
  PROVE  LineInvariant' /\ Steady
<1>1. \A f \in Ends : got[f] = <<>>
  BY DEF OpenUdp, LineInvariant, Streaming
<1>2. address' \in [Clients -> 0..MaxSockets] /\ \A c \in Clients : address[c] <= address'[c]
  <2>1. CASE UNCHANGED address
    BY <2>1, SocketAssumption DEF LineInvariant
  <2>2. CASE e \in Clients /\ address[e] < MaxSockets /\ address' = [address EXCEPT ![e] = @ + 1]
    BY <2>2, SocketAssumption DEF LineInvariant
  <2> QED
    BY <2>1, <2>2 DEF OpenUdp
<1>3. UNCHANGED <<link, got, reading, family>>
  BY DEF OpenUdp, streamVars
<1>4. \A k \in Connections : link'[k] # "none" => k[2] <= address'[k[1]]
  BY <1>2, <1>3, SocketAssumption DEF LineInvariant, Connections
<1>5. ASSUME NEW c \in Clients, socket'[c] = "pending"
      PROVE  link'[Current(c)'] = "none"
  <2>1. socket'[e] = "connected" /\ \A f \in Ends : f # e => socket'[f] = socket[f]
    BY DEF OpenUdp, LineInvariant, OpenInvariant
  <2>2. c # e /\ socket[c] = "pending"
    BY <1>5, <2>1, ServerIsNoClient
  <2>3. address'[c] = address[c]
    BY <2>2 DEF OpenUdp, LineInvariant
  <2> QED
    BY <1>3, <2>2, <2>3 DEF LineInvariant, Current
<1>6. Steady
  BY <1>1, <1>3 DEF Steady
<1>7. \A f \in Ends : got'[f] = <<>>
  BY <1>1, <1>3
<1> QED
  BY <1>2, <1>3, <1>4, <1>5, <1>6, <1>7, ServerIsNoClient DEF LineInvariant

LEMMA LineOpenClient ==
  ASSUME LineInvariant, OpenInvariant', NEW c \in Clients, OpenClient(c)
  PROVE  LineInvariant' /\ Steady
<1> DEFINE k0 == <<c, address'[c]>>
<1>1. c \in Ends /\ c # Server /\ Server \in Ends
  BY ServerIsNoClient
<1>2. /\ address' = [address EXCEPT ![c] = @ + 1] /\ address[c] < MaxSockets
      /\ ~reading[c] /\ UNCHANGED <<got, reading, family>>
  BY DEF OpenClient, Call
<1>3. /\ address' \in [Clients -> 0..MaxSockets] /\ k0 \in Connections
      /\ \A d \in Clients : address[d] <= address'[d]
      /\ ~(address'[c] <= address[c])
  BY <1>2, SocketAssumption DEF LineInvariant, Connections
<1>4. link[k0] = "none"
  BY <1>3 DEF LineInvariant
<1>5. \A k \in Connections : link'[k] = link[k] \/ (k = k0 /\ link'[k] = "queued")
  <2>1. link' = [link EXCEPT ![k0] = "queued"] \/ link' = link
    BY DEF OpenClient
  <2> QED
    BY <1>3, <2>1 DEF LineInvariant, OpenInvariant
<1>6. \A k \in Connections : link'[k] # "none" => k[2] <= address'[k[1]]
  <2> SUFFICES ASSUME NEW k \in Connections, link'[k] # "none"
               PROVE  k[2] <= address'[k[1]]
    OBVIOUS
  <2>1. CASE k = k0
    BY <1>3, <2>1 DEF LineInvariant
  <2>2. CASE k # k0
    <3>1. k[1] \in Clients /\ k[2] \in Nat /\ k[2] <= address[k[1]]
      BY <1>5, <2>2, SocketAssumption DEF LineInvariant, Connections
    <3> QED
      BY <1>3, <3>1 DEF LineInvariant
  <2> QED
    BY <2>1, <2>2
<1>7. \A k \in Connections : link'[k] = "served" <=> link[k] = "served"
  BY <1>4, <1>5
<1>8. UNCHANGED isOpen[Server] /\ \A e \in Ends : e # c => socket'[e] = socket[e]
  BY <1>1 DEF OpenClient, LineInvariant, OpenInvariant
<1>9. Lines(Server)' = Lines(Server)
  BY <1>7 DEF Lines, Served
<1>10. ASSUME NEW e \in Ends, e # c, e # Server
       PROVE  Lines(e)' = Lines(e)
  <2>1. address'[e] = address[e]
    BY <1>2, <1>10 DEF Ends, LineInvariant
  <2> QED
    BY <1>8, <1>10, <2>1 DEF Lines, Current
<1>11. got[c] = <<>>
  BY <1>1, <1>2 DEF LineInvariant
<1>12. Steady
  BY <1>2, <1>9, <1>10, <1>11 DEF Steady
<1>13. ASSUME NEW d \in Clients, socket'[d] = "pending"
       PROVE  link'[Current(d)'] = "none"
  <2>1. CASE d = c
    <3>1. UNCHANGED link
      BY <1>13, <2>1, ServerIsNoClient DEF OpenClient, LineInvariant, OpenInvariant
    <3> QED
      BY <1>4, <2>1, <3>1 DEF Current
  <2>2. CASE d # c
    <3>1. socket[d] = "pending" /\ address'[d] = address[d]
      BY <1>2, <1>8, <1>13, <2>2, ServerIsNoClient DEF LineInvariant
    <3>2. Current(d) \in Connections /\ Current(d) # k0 /\ Current(d)' = Current(d)
      BY <2>2, <3>1 DEF LineInvariant, Current, Connections
    <3> QED
      BY <1>5, <3>1, <3>2 DEF LineInvariant
  <2> QED
    BY <2>1, <2>2
<1>14. \A d \in Clients : got'[d] # <<>> => socket'[d] = "connected"
  BY <1>2, <1>8, <1>11, ServerIsNoClient DEF LineInvariant
<1> QED
  BY <1>2, <1>3, <1>6, <1>7, <1>8, <1>12, <1>13, <1>14 DEF LineInvariant, Streaming

LEMMA LineConnects ==
  ASSUME LineInvariant, OpenInvariant', NEW c \in Clients, Connects(c) \/ Refuses(c)
  PROVE  LineInvariant' /\ Steady
<1>1. /\ c \in Ends /\ c # Server /\ socket[c] = "pending"
      /\ UNCHANGED <<isOpen, address, got, family>>
  BY ServerIsNoClient DEF Connects, Refuses, udpVars
<1>2. got[c] = <<>> /\ link[Current(c)] = "none" /\ Current(c) \in Connections
  BY <1>1 DEF LineInvariant, Current, Connections
<1>3. \A e \in Ends : e # c => socket'[e] = socket[e] /\ reading'[e] = reading[e]
  BY DEF Connects, Refuses, LineInvariant, OpenInvariant
<1>4. reading' \in [Ends -> BOOLEAN]
  BY DEF Connects, Refuses, LineInvariant
<1>5. \A k \in Connections : link'[k] = link[k] \/ (k = Current(c) /\ link'[k] = "queued")
  <2>1. link' = [link EXCEPT ![Current(c)] = "queued"] \/ link' = link
    BY DEF Connects, Refuses, streamVars
  <2> QED
    BY <1>2, <2>1 DEF LineInvariant, OpenInvariant
<1>6. \A k \in Connections : link'[k] # "none" => k[2] <= address'[k[1]]
  <2>1. Current(c)[2] <= address[Current(c)[1]]
    <3>1. Current(c)[2] = address[c] /\ Current(c)[1] = c
      BY DEF Current
    <3>2. address[c] \in 0..MaxSockets
      BY DEF LineInvariant
    <3> QED
      BY <3>1, <3>2, SocketAssumption
  <2> QED
    BY <1>1, <1>5, <2>1 DEF LineInvariant
<1>7. \A k \in Connections : link'[k] = "served" <=> link[k] = "served"
  BY <1>2, <1>5
<1>8. Lines(Server)' = Lines(Server)
  BY <1>7 DEF Lines, Served
<1>9. \A e \in Ends : e # c /\ e # Server => Lines(e)' = Lines(e)
  BY <1>1, <1>3 DEF Lines, Current
<1>10. Steady
  BY <1>1, <1>2, <1>8, <1>9 DEF Steady
<1>11. ASSUME NEW d \in Clients, socket'[d] = "pending"
       PROVE  link'[Current(d)'] = "none"
  <2>1. d # c
    BY <1>11, <1>1 DEF Connects, Refuses, LineInvariant, OpenInvariant
  <2>2. socket[d] = "pending" /\ Current(d)' = Current(d)
    BY <1>1, <1>3, <1>11, <2>1, ServerIsNoClient DEF Current
  <2>3. Current(d) \in Connections /\ Current(d) # Current(c)
    BY <2>1 DEF LineInvariant, Current, Connections
  <2> QED
    BY <1>5, <2>2, <2>3 DEF LineInvariant
<1>12. \A d \in Clients : got'[d] # <<>> => socket'[d] = "connected"
  BY <1>1, <1>2, <1>3, ServerIsNoClient DEF LineInvariant
<1>13. \A e \in Ends : got'[e] # <<>> => reading'[e] /\ Streaming' /\ (e = Server => isOpen'[Server])
  BY <1>1, <1>2, <1>3 DEF LineInvariant, Streaming
<1> QED
  BY <1>1, <1>4, <1>6, <1>7, <1>10, <1>11, <1>12, <1>13 DEF LineInvariant

LEMMA LineAccept ==
  ASSUME LineInvariant, OpenInvariant', NEW k \in Connections, Accept(k)
  PROVE  LineInvariant' /\ Steady
<1>1. /\ link' = [link EXCEPT ![k] = "served"] /\ link[k] = "queued" /\ ~isOpen[Server]
      /\ reading' = [reading EXCEPT ![Server] = FALSE]
      /\ UNCHANGED <<got, address, socket, family>>
  BY DEF Accept, Accepting, udpVars
<1>2. Server \in Ends /\ got[Server] = <<>>
  BY <1>1, ServerIsNoClient DEF LineInvariant
<1>3. \A l \in Connections : link'[l] = "served" => l = k
  BY <1>1 DEF LineInvariant, OpenInvariant
<1>4. \A l \in Connections : link'[l] # "none" => l[2] <= address'[l[1]]
  BY <1>1 DEF LineInvariant, OpenInvariant
<1>5. \A e \in Ends : e # Server => Lines(e)' = Lines(e) /\ reading'[e] = reading[e]
  BY <1>1 DEF Lines, Current, LineInvariant
<1>6. Steady
  BY <1>1, <1>2, <1>5 DEF Steady
<1>7. reading' \in [Ends -> BOOLEAN]
  BY <1>1 DEF LineInvariant
<1>8. ASSUME NEW c \in Clients, socket'[c] = "pending"
      PROVE  link'[Current(c)'] = "none"
  <2>1. link[Current(c)] = "none" /\ Current(c)' = Current(c) /\ Current(c) \in Connections
    BY <1>1, <1>8 DEF LineInvariant, Current, Connections
  <2> QED
    BY <1>1, <2>1 DEF LineInvariant, OpenInvariant
<1> QED
  BY <1>1, <1>2, <1>3, <1>4, <1>5, <1>6, <1>7, <1>8 DEF LineInvariant, Streaming

\* The steps of the caller of e that touch neither sockets nor connections.
LEMMA LineQuiet ==
  ASSUME LineInvariant, OpenInvariant', NEW e \in Ends, got[e] = <<>>,
         reading' \in [Ends -> BOOLEAN], \A f \in Ends : f # e => reading'[f] = reading[f],
         UNCHANGED <<isOpen, socket, link, address, got, family>>
  PROVE  LineInvariant' /\ Steady
<1>1. \A f \in Ends : Lines(f)' = Lines(f)
  BY DEF Lines, Served, Current
<1> QED
  BY <1>1 DEF LineInvariant, Steady, Streaming, Current

-----------------------------------------------------------------------------
(* The hangups. *)

LEMMA HangupKeeps ==
  ASSUME NEW e \in Ends, NEW s \in [Ways -> Streams], NEW held \in [Ways -> Seq(Nat)],
         \A way \in Ways : Intact(s[way], held[way])
  PROVE  /\ Hangup(e, s) \in [Ways -> Streams]
         /\ \A way \in Ways : Intact(Hangup(e, s)[way], held[way])
<1> DEFINE t == Hangup(e, s)
           state == IF s[In(e)].wire = <<>> /\ s[Out(e)].state = "open" THEN "ended" ELSE "reset"
           out == [s[Out(e)] EXCEPT !.state = state]
           in == [s[In(e)] EXCEPT !.wire = <<>>, !.state = "reset"]
<1>1. In(e) \in Ways /\ Out(e) \in Ways /\ In(e) # Out(e) /\ Ways = {In(e), Out(e)}
  BY DEF In, Out, Ways
<1>2. out \in Streams /\ Intact(out, held[Out(e)])
  BY <1>1, IntactState
<1>3. in \in Streams /\ Intact(in, held[In(e)])
  BY <1>1, IntactDrop
<1>4. t = [s EXCEPT ![Out(e)] = out, ![In(e)] = in]
  BY <1>1 DEF Hangup
<1> HIDE DEF t, in, out
<1>5. t \in [Ways -> Streams] /\ t[Out(e)] = out /\ t[In(e)] = in
  BY <1>1, <1>2, <1>3, <1>4
<1>6. \A way \in Ways : Intact(t[way], held[way])
  BY <1>1, <1>2, <1>3, <1>5
<1> QED
  BY <1>5, <1>6 DEF t

LEMMA HeldOfConnection ==
  ASSUME StreamInvariant, NEW k \in Connections
  PROVE  /\ stream[k] \in [Ways -> Streams]
         /\ [way \in Ways |-> Held(Reader(k, way), k)] \in [Ways -> Seq(Nat)]
         /\ \A way \in Ways : Intact(stream[k][way], Held(Reader(k, way), k))
BY ReadersAreEnds, EmptySeq DEF StreamInvariant, LineInvariant, AllIntact, Held

LEMMA DroppedKeeps ==
  ASSUME StreamInvariant, NEW e \in Ends, Dropped(e)
  PROVE  /\ stream' \in [Connections -> [Ways -> Streams]]
         /\ \A k \in Connections, way \in Ways : Intact(stream'[k][way], Held(Reader(k, way), k))
<1> SUFFICES ASSUME NEW k \in Connections
             PROVE  /\ stream'[k] \in [Ways -> Streams]
                    /\ \A way \in Ways : Intact(stream'[k][way], Held(Reader(k, way), k))
  BY DEF Dropped
<1> DEFINE held == [way \in Ways |-> Held(Reader(k, way), k)]
<1>1. /\ stream[k] \in [Ways -> Streams] /\ held \in [Ways -> Seq(Nat)]
      /\ \A way \in Ways : Intact(stream[k][way], held[way])
  BY HeldOfConnection
<1> HIDE DEF held
<1>2. stream'[k] = Hangup(e, stream[k]) \/ stream'[k] = stream[k]
  BY DEF Dropped
<1>3. stream'[k] \in [Ways -> Streams] /\ \A way \in Ways : Intact(stream'[k][way], held[way])
  BY <1>1, <1>2, HangupKeeps
<1> QED
  BY <1>3 DEF held

LEMMA HangupAllKeeps ==
  ASSUME StreamInvariant, HangupAll
  PROVE  /\ stream' \in [Connections -> [Ways -> Streams]]
         /\ \A k \in Connections, way \in Ways : Intact(stream'[k][way], Held(Reader(k, way), k))
<1> SUFFICES ASSUME NEW k \in Connections
             PROVE  /\ stream'[k] \in [Ways -> Streams]
                    /\ \A way \in Ways : Intact(stream'[k][way], Held(Reader(k, way), k))
  BY DEF HangupAll
<1> DEFINE held == [way \in Ways |-> Held(Reader(k, way), k)]
<1>1. /\ stream[k] \in [Ways -> Streams] /\ held \in [Ways -> Seq(Nat)]
      /\ \A way \in Ways : Intact(stream[k][way], held[way])
  BY HeldOfConnection
<1> HIDE DEF held
<1>2. CASE link[k] = "served"
  <2>1. stream'[k] = Hangup(Server, stream[k])
    BY <1>2 DEF HangupAll
  <2>2. stream'[k] \in [Ways -> Streams] /\ \A way \in Ways : Intact(stream'[k][way], held[way])
    BY <1>1, <2>1, HangupKeeps, ServerIsNoClient
  <2> QED
    BY <2>2 DEF held
<1>3. CASE link[k] = "queued"
  <2> DEFINE down == [stream[k]["down"] EXCEPT !.state = "reset"]
             up == [stream[k]["up"] EXCEPT !.wire = <<>>, !.state = "reset"]
  <2>1. "up" \in Ways /\ "down" \in Ways /\ Ways = {"up", "down"}
    BY DEF Ways
  <2>2. stream'[k] = [stream[k] EXCEPT !["down"] = down, !["up"] = up]
    BY <1>1, <1>3, <2>1 DEF HangupAll
  <2>3. down \in Streams /\ Intact(down, held["down"])
    BY <1>1, <2>1, IntactState
  <2>4. up \in Streams /\ Intact(up, held["up"])
    BY <1>1, <2>1, IntactDrop
  <2> HIDE DEF down, up
  <2>5. stream'[k] \in [Ways -> Streams] /\ stream'[k]["down"] = down /\ stream'[k]["up"] = up
    BY <1>1, <2>1, <2>2, <2>3, <2>4
  <2>6. \A way \in Ways : Intact(stream'[k][way], held[way])
    BY <2>1, <2>3, <2>4, <2>5
  <2> QED
    BY <2>5, <2>6 DEF held
<1>4. CASE link[k] # "served" /\ link[k] # "queued"
  <2>1. stream'[k] = stream[k]
    BY <1>4 DEF HangupAll
  <2> QED
    BY <1>1, <2>1 DEF held
<1> QED
  BY <1>2, <1>3, <1>4

\* A step that steadily reads the same bytes and keeps the streams intact.
LEMMA StreamStep ==
  ASSUME LineInvariant', Steady, stream' \in [Connections -> [Ways -> Streams]],
         \A k \in Connections, way \in Ways : Intact(stream'[k][way], Held(Reader(k, way), k))
  PROVE  StreamInvariant'
<1>1. ASSUME NEW k \in Connections, NEW way \in Ways
      PROVE  Intact(stream'[k][way], Held(Reader(k, way), k)')
  <2>1. PICK e \in Ends : e = IF way = "up" THEN Server ELSE k[1]
    BY ReadersAreEnds DEF Reader
  <2>2. Held(e, k)' = Held(e, k)
    BY HeldIsKept
  <2>3. Held(Reader(k, way), k)' = Held(e, k)' /\ Held(Reader(k, way), k) = Held(e, k)
    BY <2>1 DEF Reader, Held
  <2> QED
    BY <2>2, <2>3
<1>2. AllIntact'
  BY <1>1 DEF AllIntact, Held, Reader
<1> QED
  BY <1>2 DEF StreamInvariant

LEMMA StreamOpenServer ==
  ASSUME StreamInvariant, OpenInvariant', OpenServer
  PROVE  StreamInvariant'
<1>1. /\ link' = [k \in Connections |-> "none"] /\ ~isOpen[Server]
      /\ \E binds \in BOOLEAN : reading' = [reading EXCEPT ![Server] = binds]
      /\ \E state : socket' = [socket EXCEPT ![Server] = state]
      /\ UNCHANGED <<got, address, isOpen, family>> /\ HangupAll
  BY DEF OpenServer, HangupAll, udpVars, Call
<1>2. Server \in Ends /\ got[Server] = <<>>
  BY <1>1, ServerIsNoClient DEF StreamInvariant, LineInvariant
<1>3. \A e \in Ends : e # Server => Lines(e)' = Lines(e) /\ reading'[e] = reading[e]
  BY <1>1 DEF Lines, Current, StreamInvariant, LineInvariant, OpenInvariant
<1>4. Steady
  BY <1>1, <1>2, <1>3 DEF Steady
<1>5. reading' \in [Ends -> BOOLEAN]
  BY <1>1 DEF StreamInvariant, LineInvariant
<1>6. \A c \in Clients : c # Server /\ socket'[c] = socket[c] /\ Current(c) \in Connections
  BY <1>1, ServerIsNoClient DEF StreamInvariant, LineInvariant, OpenInvariant, Current, Connections
<1>7. \A c \in Clients : link'[Current(c)'] = "none"
  BY <1>1, <1>6 DEF Current
<1>8. LineInvariant'
  BY <1>1, <1>2, <1>3, <1>5, <1>6, <1>7 DEF StreamInvariant, LineInvariant, Streaming
<1> QED
  BY <1>1, <1>4, <1>8, HangupAllKeeps, StreamStep

LEMMA StreamClose ==
  ASSUME StreamInvariant, OpenInvariant', NEW e \in Ends, Close(e)
  PROVE  StreamInvariant'
<1>1. /\ isOpen' = [isOpen EXCEPT ![e] = FALSE] /\ socket' = [socket EXCEPT ![e] = "closed"]
      /\ UNCHANGED <<got, address, reading, family>>
  BY DEF Close, Call, udpVars
<1>2. got[e] = <<>>
  BY DEF Close, Call, StreamInvariant, LineInvariant
<1>3. CASE e = Server
  <2>1. HangupAll /\ link' = [k \in Connections |-> "none"]
    BY <1>3 DEF Close, HangupAll
  <2>2. \A f \in Ends : f # Server => Lines(f)' = Lines(f)
    BY <1>1, <1>3 DEF Lines, Current, StreamInvariant, LineInvariant, OpenInvariant
  <2>3. Steady
    BY <1>1, <1>2, <1>3, <2>2 DEF Steady
  <2>5. \A c \in Clients : c # Server /\ socket'[c] = socket[c] /\ Current(c) \in Connections
    BY <1>1, <1>3, ServerIsNoClient DEF StreamInvariant, LineInvariant, OpenInvariant, Current, Connections
  <2>6. \A c \in Clients : link'[Current(c)'] = "none"
    BY <1>1, <2>1, <2>5 DEF Current
  <2>4. LineInvariant'
    BY <1>1, <1>2, <1>3, <2>1, <2>5, <2>6 DEF StreamInvariant, LineInvariant, Streaming
  <2> QED
    BY <2>1, <2>3, <2>4, HangupAllKeeps, StreamStep
<1>4. CASE e # Server
  <2>1. UNCHANGED link
    BY <1>4 DEF Close
  <2>2. \A f \in Ends : f # e => Lines(f)' = Lines(f)
    BY <1>1, <2>1 DEF Lines, Served, Current, StreamInvariant, LineInvariant, OpenInvariant
  <2>3. Steady
    BY <1>1, <1>2, <2>2 DEF Steady
  <2>6. /\ \A c \in Clients : socket'[c] = "pending" => c # e /\ socket[c] = "pending"
        /\ \A c \in Clients : c # e => socket'[c] = socket[c]
    BY <1>1, ServerIsNoClient DEF StreamInvariant, LineInvariant, OpenInvariant
  <2>7. \A c \in Clients : socket'[c] = "pending" => link'[Current(c)'] = "none"
    BY <1>1, <2>1, <2>6 DEF StreamInvariant, LineInvariant, Current
  <2>4. LineInvariant'
    BY <1>1, <1>2, <1>4, <2>1, <2>6, <2>7 DEF StreamInvariant, LineInvariant, OpenInvariant, Streaming
  <2>5. Dropped(e)
    BY <1>4 DEF Close
  <2> QED
    BY <2>3, <2>4, <2>5, DroppedKeeps, StreamStep
<1> QED
  BY <1>3, <1>4

-----------------------------------------------------------------------------
(* Writing and reading. *)

\* One direction of one connection changes.
LEMMA StreamAt ==
  ASSUME StreamInvariant, NEW k \in Connections, NEW way \in Ways, NEW t \in Streams,
         stream' = [stream EXCEPT ![k][way] = t]
  PROVE  /\ stream' \in [Connections -> [Ways -> Streams]] /\ stream'[k][way] = t
         /\ \A l \in Connections, x \in Ways : l # k \/ x # way => stream'[l][x] = stream[l][x]
BY DEF StreamInvariant

LEMMA StreamWrite ==
  ASSUME StreamInvariant, OpenInvariant', NEW e \in Ends, Write(e)
  PROVE  StreamInvariant'
<1>1. UNCHANGED <<isOpen, socket, link, address, got, family>> /\ got[e] = <<>>
  BY DEF Write, Call, StreamInvariant, LineInvariant
<1>2. reading' \in [Ends -> BOOLEAN] /\ \A f \in Ends : f # e => reading'[f] = reading[f]
  BY DEF Write, StreamInvariant, LineInvariant
<1>3. LineInvariant' /\ Steady
  BY <1>1, <1>2, LineQuiet DEF StreamInvariant
<1>4. CASE UNCHANGED stream
  BY <1>3, <1>4, StreamStep DEF StreamInvariant, AllIntact
<1>5. ASSUME NEW n \in 1..2, PutOnStream(e, n)
      PROVE  StreamInvariant'
  <2>1. PICK k \in Lines(e) :
          \/ /\ stream[k][Out(e)].state = "open"
             /\ stream' = [stream EXCEPT ![k][Out(e)] = Longer(stream[k][Out(e)], n * PacketSize)]
          \/ stream' = [stream EXCEPT ![k][In(e)] = [stream[k][In(e)] EXCEPT !.state = "reset"]]
    BY <1>5 DEF PutOnStream
  <2>2. k \in Connections /\ In(e) \in Ways /\ Out(e) \in Ways
    BY OneLine DEF StreamInvariant
  <2>3. \A way \in Ways : /\ stream[k][way] \in Streams
                          /\ Held(Reader(k, way), k) \in Seq(Nat)
                          /\ Intact(stream[k][way], Held(Reader(k, way), k))
    BY <2>2, HeldOfConnection
  <2>4. PICK way \in Ways, t \in Streams :
          /\ Intact(t, Held(Reader(k, way), k))
          /\ stream' = [stream EXCEPT ![k][way] = t]
    <3>1. n * PacketSize \in Nat
      BY SocketAssumption
    <3>2. stream[k][Out(e)].state = "open"
          => /\ Longer(stream[k][Out(e)], n * PacketSize) \in Streams
             /\ Intact(Longer(stream[k][Out(e)], n * PacketSize), Held(Reader(k, Out(e)), k))
      BY <2>2, <2>3, <3>1, IntactWrite
    <3>3. LET t == [stream[k][In(e)] EXCEPT !.state = "reset"]
          IN  t \in Streams /\ Intact(t, Held(Reader(k, In(e)), k))
      BY <2>2, <2>3, IntactState
    <3> QED
      BY <2>1, <2>2, <3>2, <3>3
  <2>5. /\ stream' \in [Connections -> [Ways -> Streams]] /\ stream'[k][way] = t
        /\ \A l \in Connections, x \in Ways : l # k \/ x # way => stream'[l][x] = stream[l][x]
    BY <2>2, <2>4 DEF StreamInvariant
  <2>6. \A l \in Connections, x \in Ways : Intact(stream'[l][x], Held(Reader(l, x), l))
    BY <2>4, <2>5 DEF StreamInvariant, AllIntact
  <2> QED
    BY <1>3, <2>5, <2>6, StreamStep
<1> QED
  BY <1>4, <1>5 DEF Write, Put

\* A step of read on connection k: what e holds is now more, and the direction
\* that e reads is now t; e may leave read when it holds nothing any more.
LEMMA StreamReadStep ==
  ASSUME StreamInvariant, OpenInvariant', NEW e \in Ends, NEW k \in Lines(e),
         NEW more \in Seq(Nat), NEW t \in Streams, Intact(t, more), reading[e], Streaming,
         got' = [got EXCEPT ![e] = more], stream' = [stream EXCEPT ![k][In(e)] = t],
         (reading' = reading) \/ (more = <<>> /\ reading' = [reading EXCEPT ![e] = FALSE]),
         UNCHANGED <<isOpen, socket, link, address, family>>
  PROVE  StreamInvariant'
<1>1. /\ k \in Connections /\ In(e) \in Ways /\ Reader(k, In(e)) = e
      /\ \A l \in Lines(e) : l = k
  BY OneLine DEF StreamInvariant
<1>2. \A f \in Ends : Lines(f)' = Lines(f)
  BY DEF Lines, Served, Current
<1>3. e = Server => isOpen[Server]
  BY <1>1 DEF Lines, Served, StreamInvariant, LineInvariant, OpenInvariant
<1>4. /\ stream' \in [Connections -> [Ways -> Streams]] /\ stream'[k][In(e)] = t
      /\ \A l \in Connections, x \in Ways : l # k \/ x # In(e) => stream'[l][x] = stream[l][x]
  <2>1. PICK way \in Ways : way = In(e)
    BY <1>1
  <2>2. stream' = [stream EXCEPT ![k][way] = t]
    BY <2>1
  <2>3. /\ stream' \in [Connections -> [Ways -> Streams]] /\ stream'[k][way] = t
        /\ \A l \in Connections, x \in Ways : l # k \/ x # way => stream'[l][x] = stream[l][x]
    BY <1>1, <2>2 DEF StreamInvariant
  <2> QED
    BY <2>1, <2>3
<1>5. /\ got' \in [Ends -> Seq(Nat)] /\ got'[e] = more
      /\ \A f \in Ends : f # e => got'[f] = got[f]
  BY DEF StreamInvariant, LineInvariant
<1>6. reading' \in [Ends -> BOOLEAN] /\ \A f \in Ends : f # e => reading'[f] = reading[f]
  BY DEF StreamInvariant, LineInvariant
<1>7. \A f \in Ends : got'[f] # <<>> => reading'[f] /\ Streaming' /\ (f = Server => isOpen'[Server])
  BY <1>3, <1>5, <1>6 DEF StreamInvariant, LineInvariant, Streaming
<1>11. e # Server => socket[e] = "connected"
  BY DEF Lines
<1>12. \A c \in Clients : got'[c] # <<>> => socket'[c] = "connected"
  BY <1>5, <1>11, ServerIsNoClient DEF StreamInvariant, LineInvariant
<1>13. \A c \in Clients : socket'[c] = "pending" => link'[Current(c)'] = "none"
  BY DEF StreamInvariant, LineInvariant, Current
<1>8. LineInvariant'
  BY <1>5, <1>6, <1>7, <1>12, <1>13 DEF StreamInvariant, LineInvariant
<1>9. ASSUME NEW l \in Connections, NEW x \in Ways
      PROVE  Intact(stream'[l][x], Held(Reader(l, x), l)')
  <2>1. CASE l = k /\ x = In(e)
    BY <1>1, <1>2, <1>4, <1>5, <2>1 DEF Held
  <2>2. CASE l = k /\ x # In(e)
    <3>1. Reader(l, x) # e
      BY <1>1, <2>2, ReadersAreEnds DEF Reader, Ways
    <3>2. Held(Reader(l, x), l)' = Held(Reader(l, x), l)
      BY <1>2, <1>5, <3>1, ReadersAreEnds DEF Held, Reader
    <3> QED
      BY <1>4, <2>2, <3>2 DEF StreamInvariant, AllIntact
  <2>3. CASE l # k
    <3>1. Held(Reader(l, x), l)' = Held(Reader(l, x), l)
      <4>1. CASE Reader(l, x) = e
        BY <1>1, <1>2, <2>3, <4>1 DEF Held, Reader
      <4>2. CASE Reader(l, x) # e
        BY <1>2, <1>5, <4>2, ReadersAreEnds DEF Held, Reader
      <4> QED
        BY <4>1, <4>2
    <3> QED
      BY <1>4, <2>3, <3>1 DEF StreamInvariant, AllIntact
  <2> QED
    BY <2>1, <2>2, <2>3
<1>10. AllIntact'
  BY <1>9 DEF AllIntact, Held, Reader
<1> QED
  BY <1>4, <1>8, <1>10 DEF StreamInvariant

LEMMA StreamRecv ==
  ASSUME StreamInvariant, OpenInvariant', NEW e \in Ends, Recv(e)
  PROVE  StreamInvariant'
<1>0. PICK k \in Lines(e) :
        \E n \in {1, Len(stream[k][In(e)].wire)} :
          /\ Receiving(e) /\ stream[k][In(e)].wire # <<>>
          /\ got' = [got EXCEPT ![e] = got[e] \o SubSeq(stream[k][In(e)].wire, 1, n)]
          /\ stream' = [stream EXCEPT ![k][In(e)].wire =
                          SubSeq(stream[k][In(e)].wire, n + 1, Len(stream[k][In(e)].wire))]
          /\ UNCHANGED <<isOpen, socket, link, address, family, reading>>
  BY DEF Recv, udpVars
<1>1. PICK n \in {1, Len(stream[k][In(e)].wire)} :
        /\ Receiving(e) /\ stream[k][In(e)].wire # <<>>
        /\ got' = [got EXCEPT ![e] = got[e] \o SubSeq(stream[k][In(e)].wire, 1, n)]
        /\ stream' = [stream EXCEPT ![k][In(e)].wire =
                        SubSeq(stream[k][In(e)].wire, n + 1, Len(stream[k][In(e)].wire))]
        /\ UNCHANGED <<isOpen, socket, link, address, family, reading>>
  BY <1>0
<1> DEFINE s == stream[k][In(e)]
           more == got[e] \o SubSeq(s.wire, 1, n)
           t == [s EXCEPT !.wire = SubSeq(@, n + 1, Len(@))]
<1>2. s \in Streams /\ got[e] \in Seq(Nat) /\ Intact(s, got[e])
  BY OneLine, HeldOfConnection DEF StreamInvariant, Held
<1>3. n \in 0..Len(s.wire)
  BY <1>1, <1>2, LenProperties, EmptySeq, StreamFields
<1>4. t \in Streams /\ more \in Seq(Nat) /\ Intact(t, more)
  BY <1>2, <1>3, IntactSegment
<1>5. got' = [got EXCEPT ![e] = more] /\ stream' = [stream EXCEPT ![k][In(e)] = t]
  BY <1>1
<1>6. reading[e] /\ Streaming
  BY <1>1 DEF Receiving
<1> HIDE DEF more, t
<1> QED
  BY <1>1, <1>4, <1>5, <1>6, StreamReadStep

LEMMA StreamReadReturns ==
  ASSUME StreamInvariant, OpenInvariant', NEW e \in Ends, ReadReturns(e)
  PROVE  StreamInvariant'
<1>1. PICK k \in Lines(e) :
        /\ reading[e] /\ Streaming
        /\ stream' = [stream EXCEPT ![k][In(e)].back = stream[k][In(e)].back \o got[e]]
        /\ got' = [got EXCEPT ![e] = <<>>]
        /\ reading' = [reading EXCEPT ![e] = FALSE]
        /\ UNCHANGED <<isOpen, socket, link, address, family>>
  BY DEF ReadReturns, Receiving, udpVars
<1> DEFINE s == stream[k][In(e)]
           t == [s EXCEPT !.back = @ \o got[e]]
<1>2. s \in Streams /\ got[e] \in Seq(Nat) /\ Intact(s, got[e])
  BY OneLine, HeldOfConnection DEF StreamInvariant, Held
<1>3. t \in Streams /\ Intact(t, <<>>) /\ <<>> \in Seq(Nat)
  BY <1>2, IntactReturn, EmptySeq
<1>4. stream' = [stream EXCEPT ![k][In(e)] = t]
  BY <1>1
<1> HIDE DEF t
<1> QED
  BY <1>1, <1>3, <1>4, StreamReadStep

LEMMA StreamReadRaises ==
  ASSUME StreamInvariant, OpenInvariant', NEW e \in Ends, ReadRaises(e)
  PROVE  StreamInvariant'
<1>1. PICK k \in Lines(e) :
        /\ reading[e] /\ Streaming /\ stream[k][In(e)].wire = <<>>
        /\ stream' = [stream EXCEPT ![k][In(e)].state = "dead"]
        /\ got' = [got EXCEPT ![e] = <<>>]
        /\ reading' = [reading EXCEPT ![e] = FALSE]
        /\ UNCHANGED <<isOpen, socket, link, address, family>>
  BY DEF ReadRaises, Receiving, udpVars
<1> DEFINE s == stream[k][In(e)]
           t == [s EXCEPT !.state = "dead"]
<1>2. s \in Streams /\ got[e] \in Seq(Nat) /\ Intact(s, got[e])
  BY OneLine, HeldOfConnection DEF StreamInvariant, Held
<1>3. t \in Streams /\ Intact(t, <<>>) /\ <<>> \in Seq(Nat)
  BY <1>1, <1>2, IntactRaise, EmptySeq
<1>4. stream' = [stream EXCEPT ![k][In(e)] = t]
  BY <1>1
<1> HIDE DEF t
<1> QED
  BY <1>1, <1>3, <1>4, StreamReadStep

\* A step that leaves the streams alone.
LEMMA StreamQuiet ==
  ASSUME StreamInvariant, LineInvariant', Steady, UNCHANGED stream
  PROVE  StreamInvariant'
BY SteadyKeepsIntact DEF StreamInvariant

LEMMA NothingHeld ==
  ASSUME LineInvariant, NEW e \in Ends,
         ~reading[e] \/ ~Streaming \/ (e = Server /\ ~isOpen[Server]) \/ socket[e] = "pending"
  PROVE  got[e] = <<>>
BY DEF LineInvariant, OpenInvariant, Ends

LEMMA StreamInvariantStep ==
  ASSUME StreamInvariant, [Next]_vars
  PROVE  StreamInvariant'
<1>1. OpenInvariant'
  BY OpenInvariantStep DEF StreamInvariant, LineInvariant
<1>2. LineInvariant
  BY DEF StreamInvariant
<1>3. ASSUME NEW e \in Ends, Calls(e)
      PROVE  StreamInvariant'
  <2>1. CASE OpenUdp(e)
    BY <1>1, <1>2, <2>1, LineOpenUdp, StreamQuiet DEF OpenUdp, streamVars
  <2>2. CASE Close(e)
    BY <1>1, <2>2, StreamClose
  <2>3. CASE Write(e)
    BY <1>1, <2>3, StreamWrite
  <2>4. CASE Read(e)
    <3>1. /\ ~reading[e] /\ reading' = [reading EXCEPT ![e] = TRUE]
          /\ UNCHANGED <<isOpen, socket, link, address, got, family, stream>>
      BY <2>4 DEF Read, Call, streamVars, udpVars
    <3>2. reading' \in [Ends -> BOOLEAN] /\ \A f \in Ends : f # e => reading'[f] = reading[f]
      BY <1>2, <3>1 DEF LineInvariant
    <3> QED
      BY <1>1, <1>2, <3>1, <3>2, NothingHeld, LineQuiet, StreamQuiet
  <2> QED
    BY <1>3, <2>1, <2>2, <2>3, <2>4 DEF Calls
<1>4. ASSUME NEW e \in Ends, ReadStep(e)
      PROVE  StreamInvariant'
  <2>1. CASE Recv(e) \/ ReadReturns(e) \/ ReadRaises(e)
    BY <1>1, <2>1, StreamRecv, StreamReadReturns, StreamReadRaises
  <2>2. CASE ReceiveDatagram(e) \/ GivesUp(e)
    <3>1. /\ ~Streaming \/ socket[e] = "pending"
          /\ reading' = [reading EXCEPT ![e] = FALSE]
          /\ UNCHANGED <<isOpen, socket, link, address, got, family, stream>>
      BY <2>2 DEF ReceiveDatagram, GivesUp, Streaming, streamVars, udpVars
    <3>2. reading' \in [Ends -> BOOLEAN] /\ \A f \in Ends : f # e => reading'[f] = reading[f]
      BY <1>2, <3>1 DEF LineInvariant
    <3> QED
      BY <1>1, <1>2, <3>1, <3>2, NothingHeld, LineQuiet, StreamQuiet
  <2> QED
    BY <1>4, <2>1, <2>2 DEF ReadStep
<1>5. ASSUME NEW e \in Ends, Tune(e)
      PROVE  StreamInvariant'
  <2>1. /\ ~reading[e]
        /\ UNCHANGED <<isOpen, socket, link, address, got, family, stream, reading>>
    BY <1>5 DEF Tune, SetTimeout, SetSendLimit, ClearSendLimit, Call, streamVars, udpVars
  <2>2. reading' \in [Ends -> BOOLEAN] /\ \A f \in Ends : f # e => reading'[f] = reading[f]
    BY <1>2, <2>1 DEF LineInvariant
  <2> QED
    BY <1>1, <1>2, <2>1, <2>2, NothingHeld, LineQuiet, StreamQuiet
<1>6. ASSUME NEW c \in Clients, OpenClient(c)
      PROVE  StreamInvariant'
  <2>1. Dropped(c) /\ c \in Ends
    BY <1>6, ServerIsNoClient DEF OpenClient
  <2>2. LineInvariant' /\ Steady
    BY <1>1, <1>2, <1>6, LineOpenClient
  <2> QED
    BY <2>1, <2>2, DroppedKeeps, StreamStep
<1>11. ASSUME NEW c \in Clients, Connects(c) \/ Refuses(c)
       PROVE  StreamInvariant'
  BY <1>1, <1>2, <1>11, LineConnects, StreamQuiet DEF Connects, Refuses, streamVars
<1>7. CASE OpenServer
  BY <1>1, <1>7, StreamOpenServer
<1>8. CASE AcceptTimeout
  <2>1. /\ Server \in Ends /\ ~isOpen[Server] /\ reading' = [reading EXCEPT ![Server] = FALSE]
        /\ UNCHANGED <<isOpen, socket, link, address, got, family, stream>>
    BY <1>8, ServerIsNoClient DEF AcceptTimeout, Accepting, streamVars, udpVars
  <2>2. /\ reading' \in [Ends -> BOOLEAN]
        /\ \A f \in Ends : f # Server => reading'[f] = reading[f]
    BY <1>2, <2>1 DEF LineInvariant
  <2> QED
    BY <1>1, <1>2, <2>1, <2>2, NothingHeld, LineQuiet, StreamQuiet
<1>9. ASSUME NEW k \in Connections, Accept(k)
      PROVE  StreamInvariant'
  BY <1>1, <1>2, <1>9, LineAccept, StreamQuiet DEF Accept
<1>10. CASE (\E d \in datagrams : Lose(d)) \/ UNCHANGED vars
  <2>1. UNCHANGED <<isOpen, socket, link, address, got, family, stream, reading>>
    BY <1>10 DEF Lose, vars, channelVars, streamVars, udpVars
  <2>2. Steady
    BY <2>1 DEF Steady, Lines, Served, Current
  <2>3. LineInvariant'
    BY <1>1, <1>2, <2>1 DEF LineInvariant, Streaming, Current
  <2> QED
    BY <2>1, <2>2, <2>3, StreamQuiet
<1> QED
  BY <1>3, <1>4, <1>5, <1>6, <1>7, <1>8, <1>9, <1>10, <1>11 DEF Next

LEMMA StreamInvariantInit == Init => StreamInvariant
<1> SUFFICES ASSUME Init
             PROVE  StreamInvariant
  OBVIOUS
<1>1. LineInvariant
  BY LineInit
<1>2. NoStream \in Streams /\ Intact(NoStream, <<>>)
  BY EmptySeq, AfterNothing DEF NoStream, Streams, Intact, Follow
<1>3. stream \in [Connections -> [Ways -> Streams]]
  BY <1>2 DEF Init, NoStreams, Ways
<1>4. \A k \in Connections, way \in Ways : stream[k][way] = NoStream
  BY DEF Init, NoStreams, Ways
<1>5. \A k \in Connections, way \in Ways : Held(Reader(k, way), k) = <<>>
  BY ReadersAreEnds DEF Init, Held
<1> QED
  BY <1>1, <1>2, <1>3, <1>4, <1>5 DEF StreamInvariant, AllIntact

(* TCPClient.read, TCPServer.read and SSLClient.read return what the other *)
(* end wrote, in order and without a gap or a repetition, however the      *)
(* network cuts it and whatever timeouts, closes and reopenings come       *)
(* between; what was not read is still under way as long as nothing is     *)
(* reset.  It holds for any number of clients, sockets and bytes.          *)
THEOREM StreamsAreIntact == Spec => []StreamIntact
<1>1. Spec => []StreamInvariant
  BY StreamInvariantInit, StreamInvariantStep, PTL DEF Spec
<1>2. StreamInvariant => StreamIntact
  <2> SUFFICES ASSUME StreamInvariant, NEW k \in Connections, NEW e \in {k[1], Server}
               PROVE  LET s == stream[k][In(e)]
                          taken == s.back \o (IF k \in Lines(e) THEN got[e] ELSE <<>>)
                      IN  /\ IsPrefix(taken, Upto(s.sent))
                          /\ s.state \in {"open", "ended"} => taken \o s.wire = Upto(s.sent)
    BY DEF StreamIntact
  <2> DEFINE s == stream[k][In(e)]
             held == IF k \in Lines(e) THEN got[e] ELSE <<>>
  <2>1. In(e) \in Ways /\ Reader(k, In(e)) = e
    BY ReadersAreEnds DEF In, Ways, Reader
  <2>2. s \in Streams /\ held \in Seq(Nat) /\ Intact(s, held)
    BY <2>1, HeldOfConnection DEF Held
  <2> HIDE DEF s, held
  <2>3. /\ IsPrefix(s.back \o held, Upto(s.sent))
        /\ s.state \in {"open", "ended"} => (s.back \o held) \o s.wire = Upto(s.sent)
    <3>1. s.back \in Seq(Nat) /\ s.wire \in Seq(Nat) /\ s.sent \in Nat
      BY <2>2, StreamFields
    <3>2. Follow(s.back, held, s.wire, s.sent, FALSE)
      BY <2>2 DEF Intact, Follow
    <3>3. s.state \in {"open", "ended"} => Follow(s.back, held, s.wire, s.sent, TRUE)
      BY <2>2 DEF Intact, Follow
    <3>4. IsPrefix(s.back \o held, Upto(s.sent))
      BY <2>2, <3>1, <3>2, FollowIsPrefix
    <3>5. s.state \in {"open", "ended"} => (s.back \o held) \o s.wire = Upto(s.sent)
      BY <2>2, <3>1, <3>3, FollowIsPrefix
    <3> QED
      BY <3>4, <3>5
  <2> QED
    BY <2>3 DEF s, held
<1> QED
  BY <1>1, <1>2, PTL

-----------------------------------------------------------------------------
(* The settings of the channels, the last sender and the backlog.          *)

SettingTypes ==
  /\ family \in Families
  /\ timeout \in [Ends -> BOOLEAN] /\ timed \in [Ends -> BOOLEAN]
  /\ limit \in [Ends -> Limits \cup {NoLimit}]

\* Whoever a datagram to the server comes from is a client with a socket, so
\* that the server can only be made to answer such a one.
SenderInvariant ==
  /\ remoteAddr \in Connections \cup {NoAddress}
  /\ \A d \in datagrams : d.to[1] = Server => d.from \in Connections

BacklogInvariant == IsFiniteSet(Queued) /\ Cardinality(Queued) <= Backlog

ChannelInvariant ==
  StreamInvariant /\ QuotaInvariant /\ SettingTypes /\ SenderInvariant /\ BacklogInvariant

LEMMA SettingsStep ==
  ASSUME SettingTypes, [Next]_vars
  PROVE  SettingTypes'
<1>1. ASSUME NEW e \in Ends, Calls(e)
      PROVE  SettingTypes'
  <2>1. CASE OpenUdp(e)
    <3>1. timed' \in [Ends -> BOOLEAN]
      BY <2>1 DEF OpenUdp, SettingTypes
    <3> QED
      BY <2>1, <3>1 DEF OpenUdp, SettingTypes
  <2>2. CASE Close(e) \/ Write(e) \/ Read(e)
    BY <2>2 DEF Close, Write, Read, Call, SettingTypes
  <2> QED
    BY <1>1, <2>1, <2>2 DEF Calls
<1>2. ASSUME NEW e \in Ends, ReadStep(e)
      PROVE  SettingTypes'
  BY <1>2 DEF ReadStep, Recv, ReadReturns, ReadRaises, ReceiveDatagram, GivesUp, SettingTypes
<1>3. ASSUME NEW e \in Ends, Tune(e)
      PROVE  SettingTypes'
  <2>1. CASE SetTimeout(e)
    <3>1. PICK t \in BOOLEAN :
            /\ timeout' = [timeout EXCEPT ![e] = t]
            /\ timed' = [timed EXCEPT ![e] = t] \/ timed' = timed
            /\ UNCHANGED <<limit, family>>
      BY <2>1 DEF SetTimeout, Call
    <3> QED
      BY <3>1 DEF SettingTypes
  <2>2. CASE SetSendLimit(e)
    BY <2>2 DEF SetSendLimit, Call, SettingTypes
  <2>3. CASE ClearSendLimit(e)
    BY <2>3 DEF ClearSendLimit, Call, SettingTypes
  <2> QED
    BY <1>3, <2>1, <2>2, <2>3 DEF Tune
<1>4. ASSUME NEW c \in Clients, OpenClient(c)
      PROVE  SettingTypes'
  <2>1. timed' \in [Ends -> BOOLEAN]
    BY <1>4 DEF OpenClient, SettingTypes
  <2> QED
    BY <1>4, <2>1 DEF OpenClient, Call, SettingTypes
<1>5. CASE OpenServer
  <2>1. timed' \in [Ends -> BOOLEAN]
    BY <1>5 DEF OpenServer, SettingTypes
  <2> QED
    BY <1>5, <2>1 DEF OpenServer, Call, SettingTypes
<1>6. ASSUME NEW k \in Connections, Accept(k)
      PROVE  SettingTypes'
  BY <1>6 DEF Accept, SettingTypes
<1>7. CASE AcceptTimeout \/ (\E d \in datagrams : Lose(d)) \/ UNCHANGED vars
  BY <1>7 DEF AcceptTimeout, Lose, vars, channelVars, SettingTypes
<1>8. ASSUME NEW c \in Clients, Connects(c) \/ Refuses(c)
      PROVE  SettingTypes'
  BY <1>8 DEF Connects, Refuses, SettingTypes
<1> QED
  BY <1>1, <1>2, <1>3, <1>4, <1>5, <1>6, <1>7, <1>8 DEF Next

LEMMA SenderStep ==
  ASSUME LineInvariant, SenderInvariant, [Next]_vars
  PROVE  SenderInvariant'
<1>1. UNCHANGED remoteAddr /\ datagrams' \subseteq datagrams => SenderInvariant'
  BY DEF SenderInvariant
<1>2. ASSUME NEW e \in Ends, Write(e)
      PROVE  SenderInvariant'
  <2>1. remoteAddr' = remoteAddr
    BY <1>2 DEF Write
  <2>2. CASE UNCHANGED datagrams
    BY <1>1, <2>1, <2>2
  <2>3. CASE ~Streaming /\ CanPut(e) /\ \E n \in 1..2 : PutDatagrams(e, n)
    <3>1. ASSUME NEW d \in datagrams', d.to[1] = Server
          PROVE  d.from \in Connections
      <4>1. CASE d \in datagrams
        BY <3>1, <4>1 DEF SenderInvariant
      <4>2. CASE d \notin datagrams
        <5>1. d.from = Source(e) /\ d.to = Target(e)
          BY <2>3, <4>2 DEF PutDatagrams
        <5>2. e # Server
          <6>1. e = Server => remoteAddr \in Connections /\ remoteAddr[1] = Server
            BY <2>3, <3>1, <5>1 DEF Target, CanPut, SenderInvariant
          <6> QED
            BY <6>1, ServerIsNoClient DEF Connections
        <5>3. e \in Clients /\ address[e] \in 0..MaxSockets
          BY <5>2 DEF Ends, LineInvariant
        <5> QED
          BY <5>1, <5>2, <5>3, SocketAssumption DEF Source, Current, Connections
      <4> QED
        BY <4>1, <4>2
    <3> QED
      BY <2>1, <3>1 DEF SenderInvariant
  <2> QED
    BY <1>2, <2>2, <2>3 DEF Write, Put
<1>3. ASSUME NEW e \in Ends, ReceiveDatagram(e)
      PROVE  SenderInvariant'
  <2>1. PICK d \in datagrams :
          /\ d.to = Source(e)
          /\ datagrams' \subseteq datagrams
          /\ remoteAddr' = IF e = Server THEN d.from ELSE remoteAddr
    BY <1>3 DEF ReceiveDatagram
  <2>2. ASSUME e = Server
        PROVE  d.from \in Connections
    <3>1. d.to = <<Server, 0>> \/ d.to = <<Server, 1>>
      <4>1. e \notin Bound
        BY <2>2, SocketAssumption
      <4>2. Source(e) = <<Server, 0>> \/ Source(e) = <<Server, 1>>
        BY <2>2, <4>1 DEF Source
      <4> QED
        BY <2>1, <4>2
    <3>2. d.to[1] = Server
      BY <3>1
    <3> QED
      BY <2>1, <3>2 DEF SenderInvariant
  <2> QED
    BY <2>1, <2>2 DEF SenderInvariant
<1>4. ASSUME NEW e \in Ends, Calls(e) \/ ReadStep(e) \/ Tune(e)
      PROVE  SenderInvariant'
  <2>1. OpenUdp(e) \/ Close(e) \/ Read(e) => UNCHANGED <<remoteAddr, datagrams>>
    BY DEF OpenUdp, Close, Read, udpVars
  <2>2. Recv(e) \/ ReadReturns(e) \/ ReadRaises(e) \/ GivesUp(e)
          => UNCHANGED <<remoteAddr, datagrams>>
    BY DEF Recv, ReadReturns, ReadRaises, GivesUp, udpVars
  <2>3. Tune(e) => UNCHANGED <<remoteAddr, datagrams>>
    BY DEF Tune, SetTimeout, SetSendLimit, ClearSendLimit, udpVars
  <2> QED
    BY <1>1, <1>2, <1>3, <1>4, <2>1, <2>2, <2>3 DEF Calls, ReadStep
<1>5. ASSUME \/ \E c \in Clients : OpenClient(c) \/ Connects(c) \/ Refuses(c)
             \/ OpenServer \/ AcceptTimeout
             \/ \E k \in Connections : Accept(k)
             \/ \E d \in datagrams : Lose(d)
             \/ UNCHANGED vars
      PROVE  UNCHANGED remoteAddr /\ datagrams' \subseteq datagrams
  BY <1>5 DEF OpenClient, Connects, Refuses, OpenServer, AcceptTimeout, Accept, Lose, vars, udpVars
<1>6. \/ \E e \in Ends : Calls(e) \/ ReadStep(e) \/ Tune(e)
      \/ UNCHANGED remoteAddr /\ datagrams' \subseteq datagrams
  BY <1>5 DEF Next
<1> QED
  BY <1>1, <1>4, <1>6

\* listen(1): the kernel refuses a connection that finds the backlog full, and
\* no other step queues one.
LEMMA BacklogStep ==
  ASSUME OpenInvariant, BacklogInvariant, [Next]_vars
  PROVE  BacklogInvariant'
<1>1. ASSUME Queued' \subseteq Queued PROVE BacklogInvariant'
  <2>1. /\ IsFiniteSet(Queued') /\ Cardinality(Queued') <= Cardinality(Queued)
        /\ Cardinality(Queued') \in Nat /\ Cardinality(Queued) \in Nat
    BY <1>1, FS_Subset, FS_CardinalityType DEF BacklogInvariant
  <2> QED
    BY <2>1 DEF BacklogInvariant, Backlog
<1>2. ASSUME NEW k, Cardinality(Queued) < Backlog, link' = [link EXCEPT ![k] = "queued"]
      PROVE  BacklogInvariant'
  <2>1. PICK Q : Q = Queued
    OBVIOUS
  <2>2. Queued' \subseteq Q \cup {k}
    BY <1>2, <2>1 DEF Queued, OpenInvariant
  <2>3. IsFiniteSet(Q) /\ Cardinality(Q) \in Nat /\ Cardinality(Q) + 1 <= Backlog
    BY <1>2, <2>1, FS_CardinalityType DEF BacklogInvariant, Backlog
  <2>4. /\ IsFiniteSet(Q \cup {k})
        /\ Cardinality(Q \cup {k}) <= Cardinality(Q) + 1
    BY <2>3, FS_AddElement
  <2>5. IsFiniteSet(Queued') /\ Cardinality(Queued') <= Cardinality(Q \cup {k})
    BY <2>2, <2>4, FS_Subset
  <2>6. Cardinality(Queued') \in Nat /\ Cardinality(Q \cup {k}) \in Nat
    BY <2>4, <2>5, FS_CardinalityType
  <2> QED
    BY <2>3, <2>4, <2>5, <2>6 DEF BacklogInvariant, Backlog
<1>10. ASSUME NEW c \in Clients, OpenClient(c) \/ Connects(c) \/ Refuses(c)
       PROVE  BacklogInvariant'
  <2>1. \/ UNCHANGED link
        \/ /\ Cardinality(Queued) < Backlog
           /\ \E k : link' = [link EXCEPT ![k] = "queued"]
    BY <1>10 DEF OpenClient, Connects, Refuses, streamVars
  <2> QED
    BY <1>1, <1>2, <2>1 DEF Queued
<1>3. HangupAll => Queued' \subseteq Queued
  BY DEF HangupAll, Queued
<1>4. ASSUME NEW e \in Ends, Calls(e) \/ ReadStep(e) \/ Tune(e)
      PROVE  BacklogInvariant'
  <2>1. UNCHANGED link \/ HangupAll
    BY <1>4 DEF Calls, OpenUdp, Close, Write, Read, ReadStep, Recv, ReadReturns, ReadRaises,
       ReceiveDatagram, GivesUp, Tune, SetTimeout, SetSendLimit, ClearSendLimit, streamVars
  <2> QED
    BY <1>1, <1>3, <2>1 DEF Queued
<1>5. ASSUME NEW k \in Connections, Accept(k)
      PROVE  Queued' \subseteq Queued
  BY <1>5 DEF Accept, Queued, OpenInvariant
<1>6. AcceptTimeout \/ (\E d \in datagrams : Lose(d)) \/ UNCHANGED vars => UNCHANGED link
  BY DEF AcceptTimeout, Lose, vars, streamVars
<1>7. OpenServer => Queued' \subseteq Queued
  BY <1>3 DEF OpenServer
<1>8. UNCHANGED link => Queued' \subseteq Queued
  BY DEF Queued
<1>9. \/ \E e \in Ends : Calls(e) \/ ReadStep(e) \/ Tune(e)
      \/ \E c \in Clients : OpenClient(c) \/ Connects(c) \/ Refuses(c)
      \/ Queued' \subseteq Queued
  BY <1>5, <1>6, <1>7, <1>8 DEF Next
<1> QED
  BY <1>1, <1>10, <1>4, <1>9

LEMMA ChannelInvariantInit == Init => ChannelInvariant
<1> SUFFICES ASSUME Init PROVE ChannelInvariant
  OBVIOUS
<1>1. SettingTypes
  BY DEF Init, SettingTypes
<1>2. SenderInvariant
  BY DEF Init, SenderInvariant
<1>3. Queued = {}
  BY DEF Init, Queued
<1>4. BacklogInvariant
  BY <1>3, FS_EmptySet DEF BacklogInvariant, Backlog
<1>5. QuotaInvariant
  BY DEF Init, QuotaInvariant, NoLimit
<1> QED
  BY <1>1, <1>2, <1>4, <1>5, StreamInvariantInit DEF ChannelInvariant

LEMMA ChannelInvariantTypes == ChannelInvariant => TypeOK
<1> SUFFICES ASSUME ChannelInvariant PROVE TypeOK
  OBVIOUS
<1>1. Cardinality(Served) <= 1
  <2>1. CASE Served = {}
    BY <2>1, FS_EmptySet
  <2>2. CASE Served # {}
    <3>1. \A k, l \in Served : k = l
      BY DEF ChannelInvariant, StreamInvariant, LineInvariant, Served
    <3>2. PICK k : Served = {k}
      BY <2>2, <3>1
    <3>3. Cardinality({k}) = 1
      BY FS_Singleton
    <3> QED
      BY <3>2, <3>3
  <2> QED
    BY <2>1, <2>2
<1>2. \A k \in Connections : \A way \in {"up", "down"} : Stream(stream[k][way])
  BY DEF ChannelInvariant, StreamInvariant, Streams, Stream, Ways
<1>3. \A e \in Ends : got[e] \in Seq(Nat)
  BY DEF ChannelInvariant, StreamInvariant, LineInvariant
<1> QED
  BY <1>1, <1>2, <1>3 DEF ChannelInvariant, StreamInvariant, LineInvariant, OpenInvariant,
     QuotaInvariant, SettingTypes, SenderInvariant, BacklogInvariant, TypeOK

(* The attributes keep their types, and the kernel its bounds: a server    *)
(* serves one connection and has at most two waiting, however clients open *)
(* and close; who it answers is nobody or a client that had a socket.      *)
THEOREM ChannelsTypeCorrect == Spec => []TypeOK
<1>1. Init => ChannelInvariant
  BY ChannelInvariantInit
<1>2. ChannelInvariant /\ [Next]_vars => ChannelInvariant'
  BY StreamInvariantStep, QuotaInvariantStep, SettingsStep, SenderStep, BacklogStep
     DEF ChannelInvariant, StreamInvariant, LineInvariant
<1>3. ChannelInvariant => TypeOK
  BY ChannelInvariantTypes
<1> QED
  BY <1>1, <1>2, <1>3, PTL DEF Spec
=============================================================================
