----------------------- MODULE ThreadedChannel_proofs -----------------------
(***************************************************************************)
(* Theorems about the threaded channel, for any number of layers, writes,  *)
(* packets and registrations, and any socket errors.                       *)
(*                                                                         *)
(* The output path comes first.  OutputInvariant is inductive; its first   *)
(* part, the types, needs the others: the count of unfinished tasks stays  *)
(* a natural number only because it counts the packets that task_done()    *)
(* has not been called for.                                                *)
(*                                                                         *)
(* The input path follows: what process_incoming_data, its iterator over   *)
(* the live list of layers, and the layers that come and go meanwhile      *)
(* leave in the input queues.  InboxInOrder is not inductive: that a layer *)
(* registered once is not served twice rests on where the iterator is when *)
(* a layer leaves the list.  InputInvariant says so.  DispatchReachesAll   *)
(* is inductive.                                                           *)
(*                                                                         *)
(* Last, the output path implements the abstract queue, OutputQueue.       *)
(***************************************************************************)
EXTENDS ThreadedChannel, SequenceTheorems, TLAPS

-----------------------------------------------------------------------------
(* Sequences. *)

\* What Sequences says of the types of its operators.
LEMMA ElementType ==
    ASSUME NEW S, NEW s \in Seq(S)
    PROVE  \A i \in 1..Len(s) : s[i] \in S
    OBVIOUS

LEMMA AppendType ==
    ASSUME NEW S, NEW s \in Seq(S), NEW e \in S
    PROVE  Append(s, e) \in Seq(S)
    OBVIOUS

LEMMA HeadTailType ==
    ASSUME NEW S, NEW s \in Seq(S), s # <<>>
    PROVE  Head(s) \in S /\ Tail(s) \in Seq(S)
    OBVIOUS

LEMMA ConcatAppend ==
    ASSUME NEW S, NEW s \in Seq(S), NEW t \in Seq(S), NEW e \in S
    PROVE  s \o Append(t, e) = Append(s \o t, e)
    OBVIOUS

LEMMA ConcatSplit ==
    ASSUME NEW S, NEW s \in Seq(S), NEW t \in Seq(S), NEW e \in S
    PROVE  s \o (<<e>> \o t) = Append(s, e) \o t
<1>1. <<e>> \in Seq(S)
    OBVIOUS
<1>2. s \o (<<e>> \o t) = (s \o <<e>>) \o t
    BY <1>1, ConcatAssociative
<1>3. s \o <<e>> = Append(s, e)
    OBVIOUS
<1>4. QED BY <1>2, <1>3

LEMMA ConcatHeadTail ==
    ASSUME NEW S, NEW s \in Seq(S), NEW t \in Seq(S), t # <<>>
    PROVE  Append(s, Head(t)) \o Tail(t) = s \o t
<1>1. Head(t) \in S /\ Tail(t) \in Seq(S)
    BY HeadTailType
<1>2. <<Head(t)>> \o Tail(t) = t
    OBVIOUS
<1>3. Append(s, Head(t)) \o Tail(t) = s \o (<<Head(t)>> \o Tail(t))
    BY <1>1, ConcatSplit
<1>4. QED BY <1>2, <1>3

\* A list of layers without its i-th element is a list of layers.
LEMMA RemoveAtType ==
    ASSUME NEW S, NEW s \in Seq(S), NEW i \in 1..Len(s)
    PROVE  RemoveAt(s, i) \in Seq(S)
<1>1. SubSeq(s, 1, i - 1) \in Seq(S)
    OBVIOUS
<1>2. SubSeq(s, i + 1, Len(s)) \in Seq(S)
    OBVIOUS
<1>3. QED BY <1>1, <1>2 DEF RemoveAt

\* The packets of the history.
LEMMA SettledGrows ==
    ASSUME NEW p \in Packet, NEW b \in BOOLEAN, TypeOK,
           settled' = Append(settled, Outcome(p, b))
    PROVE  SettledPackets' = SettledPackets \cup {p}
<1>1. settled \in Seq([packet : Packet, sent : BOOLEAN])
    BY DEF TypeOK
<1>2. Outcome(p, b).packet = p
    BY DEF Outcome
<1>3. /\ Len(settled') = Len(settled) + 1
      /\ \A i \in 1..Len(settled) : settled'[i] = settled[i]
      /\ settled'[Len(settled) + 1] = Outcome(p, b)
    BY <1>1
<1>4. QED BY <1>1, <1>2, <1>3 DEF SettledPackets

\* The lemma on which the promise of write() rests: when the count is zero,
\* the packet of a blocked write() has been handed to the socket.
LEMMA WrittenWhenZero ==
    ASSUME OutputInvariant, unfinished = 0, NEW l \in Layers, task[l] = "joining"
    PROVE  TypeOK /\ Len(Outstanding) = 0 /\ <<l, attempts[l]>> \in SettledPackets
<1>1. Len(Outstanding) = 0
    BY DEF OutputInvariant, UnfinishedExact, CountExact
<1>2. QED BY <1>1 DEF OutputInvariant, JoinedIsKnown

-----------------------------------------------------------------------------
(* Type correctness. *)

\* Leaving the list, by any thread, keeps the types of what it may change.
LEMMA UnregisterType ==
    ASSUME TypeOK, NEW l \in Layers, Unregister(l)
    PROVE  registered' \in Seq(Layers) /\ owed' \subseteq Layers /\ shifted' \in BOOLEAN
<1>1. CASE UNCHANGED <<registered, shifted>>
    BY <1>1 DEF Unregister, TypeOK
<1>2. CASE \E i \in 1..Len(registered) :
              /\ registered' = RemoveAt(registered, i)
              /\ shifted' = (shifted \/ (pc = "deliver" /\ i < idx))
    <2>1. registered' \in Seq(Layers)
        BY <1>2, RemoveAtType DEF TypeOK
    <2>2. shifted' \in BOOLEAN
        BY <1>2
    <2>3. QED BY <2>1, <2>2 DEF Unregister, TypeOK
<1>3. QED BY <1>1, <1>2 DEF Unregister

LEMMA TypeTakeOutgoing == ASSUME OutputInvariant, TakeOutgoing PROVE TypeOK'
<1>1. TypeOK
    BY DEF OutputInvariant
<1>2. CASE queueOutput = <<>>
    BY <1>1, <1>2 DEF TypeOK, TakeOutgoing, threadVars, layerVars, historyVars
<1>3. CASE queueOutput # <<>>
    <2>1. Head(queueOutput) \in Packet /\ Tail(queueOutput) \in Seq(Packet)
        BY <1>1, <1>3 DEF TypeOK
    <2>2. QED
        BY <1>1, <1>3, <2>1 DEF TypeOK, TakeOutgoing, threadVars, layerVars, historyVars
<1>4. QED BY <1>2, <1>3

LEMMA TypeWritePacket == ASSUME OutputInvariant, WritePacket PROVE TypeOK'
<1>1. TypeOK /\ outgoing \in Packet
    BY DEF OutputInvariant, InHand, TypeOK, WritePacket
<1>2. \A s \in BOOLEAN :
         Append(settled, Outcome(outgoing, s)) \in Seq([packet : Packet, sent : BOOLEAN])
    BY <1>1 DEF TypeOK, Outcome
<1>3. /\ settled' \in Seq([packet : Packet, sent : BOOLEAN])
      /\ pc' \in {"taskdone", "dead"}
    BY <1>1, <1>2 DEF TypeOK, WritePacket
<1>4. QED
    BY <1>1, <1>3 DEF TypeOK, WritePacket, queueVars, layerVars

LEMMA TypeTaskDone == ASSUME OutputInvariant, TaskDone PROVE TypeOK'
<1>1. TypeOK /\ outgoing # NoPacket /\ unfinished = Len(Outstanding)
    BY DEF OutputInvariant, UnfinishedExact, CountExact, InHand, TaskDone
<1>2. unfinished - 1 \in Nat
    BY <1>1 DEF TypeOK, Outstanding
<1>3. QED
    BY <1>1, <1>2 DEF TypeOK, TaskDone, layerVars, historyVars

LEMMA TypeCheckIncomingData ==
    ASSUME OutputInvariant, CheckIncomingData PROVE TypeOK'
<1>1. TypeOK
    BY DEF OutputInvariant
<1>2. /\ arrived' \in 0..MaxIn /\ incoming' \in 0..MaxIn /\ idx' \in Nat \ {0}
      /\ pc' \in {"deliver", "loop", "dead"}
    <2>1. MaxIn \in Nat /\ arrived \in 0..MaxIn /\ incoming \in 0..MaxIn /\ idx \in Nat \ {0}
        BY <1>1, ChannelAssumption DEF ChannelAssumption, TypeOK
    <2>2. QED BY <2>1 DEF CheckIncomingData
<1>3. owed' \subseteq Layers /\ shifted' \in BOOLEAN
    <2>1. ToSet(registered) \subseteq Layers
        BY <1>1 DEF TypeOK, ToSet
    <2>2. QED BY <1>1, <2>1 DEF TypeOK, CheckIncomingData
<1>4. QED
    BY <1>1, <1>2, <1>3 DEF TypeOK, CheckIncomingData, queueVars, layerVars

LEMMA TypeDeliver == ASSUME OutputInvariant, Deliver PROVE TypeOK'
<1>1. TypeOK
    BY DEF OutputInvariant
<1>2. CASE idx <= Len(registered)
    <2> DEFINE l == registered[idx]
    <2>1. l \in Layers
        BY <1>1, <1>2 DEF TypeOK
    <2>2. incoming \in Interest[l] => incoming \in 1..MaxIn
        BY <2>1, ChannelAssumption DEF ChannelAssumption
    <2>3. queueInput' \in [Layers -> Seq(1..MaxIn)]
        <3>1. CASE incoming \in Interest[l]
            <4>1. Append(queueInput[l], incoming) \in Seq(1..MaxIn)
                BY <1>1, <2>1, <2>2, <3>1 DEF TypeOK
            <4>2. queueInput' = [queueInput EXCEPT ![l] = Append(@, incoming)]
                BY <1>2, <3>1 DEF Deliver
            <4>3. QED BY <1>1, <4>1, <4>2 DEF TypeOK
        <3>2. CASE incoming \notin Interest[l]
            BY <1>1, <1>2, <3>2 DEF Deliver, TypeOK
        <3>3. QED BY <3>1, <3>2
    <2>4. idx' = idx + 1 /\ owed' = owed \ {l} /\ UNCHANGED <<pc, incoming>>
        BY <1>2 DEF Deliver
    <2>5. UNCHANGED <<threaded, isOpen, stopEvent, queueVars, registered, outgoing,
                      actorStop, task, opens, attempts, ctl, arrived, settled,
                      returned, consumed, shifted>>
        BY DEF Deliver
    <2>6. QED
        BY <1>1, <2>3, <2>4, <2>5 DEF TypeOK, queueVars
<1>3. CASE ~(idx <= Len(registered))
    <2>1. /\ pc' = "loop" /\ incoming' = 0
          /\ UNCHANGED <<threaded, isOpen, stopEvent, queueOutput, unfinished,
                         registered, outgoing, idx, queueInput, actorStop, task, opens,
                         attempts, ctl, arrived, settled, returned, consumed, owed,
                         shifted>>
        BY <1>3 DEF Deliver, queueVars
    <2>2. 0 \in 0..MaxIn
        BY ChannelAssumption DEF ChannelAssumption
    <2>3. QED BY <1>1, <2>1, <2>2 DEF TypeOK
<1>4. QED BY <1>2, <1>3

LEMMA TypeOpenChannel ==
    ASSUME OutputInvariant, NEW l \in Layers, OpenChannel(l) \/ OpenDirect(l)
    PROVE  TypeOK'
<1>1. TypeOK
    BY DEF OutputInvariant
<1>2. Append(registered, l) \in Seq(Layers)
    BY <1>1 DEF TypeOK
<1>3. /\ registered' \in Seq(Layers) /\ isOpen' \in BOOLEAN
      /\ actorStop' \in [Layers -> BOOLEAN]
      /\ task' \in [Layers -> ActorTask]
    <2>1. CASE OpenChannel(l)
        BY <1>1, <1>2, <2>1 DEF TypeOK, OpenChannel, ActorTask
    <2>2. CASE OpenDirect(l)
        BY <1>1, <2>2 DEF TypeOK, OpenDirect, SelfStop, ActorTask
    <2>3. QED BY <2>1, <2>2
<1>4. opens' \in [Layers -> Nat]
    <2>1. opens' = opens \/ opens' = [opens EXCEPT ![l] = @ + 1]
        BY DEF OpenChannel, OpenDirect
    <2>2. opens \in [Layers -> Nat] /\ opens[l] + 1 \in Nat
        BY <1>1 DEF TypeOK
    <2>3. CASE opens' = opens
        BY <2>2, <2>3
    <2>4. CASE opens' = [opens EXCEPT ![l] = @ + 1]
        BY <2>2, <2>4
    <2>5. QED BY <2>1, <2>3, <2>4
<1>5. UNCHANGED <<threaded, stopEvent, queueOutput, unfinished, pc, outgoing,
                  incoming, idx, queueInput, attempts, ctl, arrived, settled,
                  returned, consumed, owed, shifted>>
    BY DEF OpenChannel, OpenDirect, queueVars, threadVars, historyVars
<1>6. QED
    BY <1>1, <1>3, <1>4, <1>5 DEF TypeOK

LEMMA TypeWrite ==
    ASSUME OutputInvariant, NEW l \in Layers, Write(l) PROVE TypeOK'
<1>1. TypeOK
    BY DEF OutputInvariant
<1>2. attempts' \in [Layers -> 0..MaxWrites] /\ task' \in [Layers -> ActorTask]
    BY <1>1, ChannelAssumption
    DEF ChannelAssumption, TypeOK, Write, ActorTask
<1>3. UNCHANGED <<threaded, isOpen, stopEvent, queueOutput, unfinished,
                  registered, pc, outgoing, incoming, idx, queueInput, actorStop,
                  opens, ctl, arrived, settled, returned, consumed, owed, shifted>>
    BY DEF Write, queueVars, threadVars, historyVars
<1>4. QED BY <1>1, <1>2, <1>3 DEF TypeOK

\* The packet of a write() that has tested the mode.
LEMMA BegunType ==
    ASSUME OutputInvariant, NEW l \in Layers, task[l] \in {"putting", "writing"}
    PROVE  TypeOK /\ <<l, attempts[l]>> \in Packet
<1>1. TypeOK /\ attempts[l] \in 0..MaxWrites /\ attempts[l] > 0 /\ MaxWrites \in Nat
    BY ChannelAssumption
    DEF OutputInvariant, BegunIsNumbered, TypeOK, ChannelAssumption
<1>2. QED BY <1>1 DEF Packet

LEMMA TypePut ==
    ASSUME OutputInvariant, NEW l \in Layers, Put(l) PROVE TypeOK'
<1>1. TypeOK /\ <<l, attempts[l]>> \in Packet
    BY BegunType DEF Put
<1>2. queueOutput' \in Seq(Packet)
    <2>1. Append(queueOutput, <<l, attempts[l]>>) \in Seq(Packet)
        BY <1>1, AppendType DEF TypeOK
    <2>2. QED BY <2>1 DEF Put
<1>3. unfinished' \in Nat /\ task' \in [Layers -> ActorTask]
    BY <1>1 DEF TypeOK, Put, ActorTask
<1>4. UNCHANGED <<threaded, isOpen, stopEvent, registered, pc, outgoing, incoming,
                  idx, queueInput, actorStop, opens, attempts, ctl, arrived,
                  settled, returned, consumed, owed, shifted>>
    BY DEF Put, threadVars, historyVars
<1>5. QED BY <1>1, <1>2, <1>3, <1>4 DEF TypeOK

LEMMA TypeWriteDirect ==
    ASSUME OutputInvariant, NEW l \in Layers, WriteDirect(l) PROVE TypeOK'
<1>1. TypeOK /\ <<l, attempts[l]>> \in Packet
    BY BegunType DEF WriteDirect
<1>2. /\ settled' \in Seq([packet : Packet, sent : BOOLEAN])
      /\ returned' \subseteq Packet
    <2>1. Outcome(<<l, attempts[l]>>, TRUE) \in [packet : Packet, sent : BOOLEAN]
        BY <1>1 DEF Outcome
    <2>2. Append(settled, Outcome(<<l, attempts[l]>>, TRUE))
             \in Seq([packet : Packet, sent : BOOLEAN])
        BY <1>1, <2>1, AppendType DEF TypeOK
    <2>3. \/ /\ settled' = Append(settled, Outcome(<<l, attempts[l]>>, TRUE))
             /\ returned' = returned \cup {<<l, attempts[l]>>}
          \/ settled' = settled /\ returned' = returned
        BY DEF WriteDirect
    <2>4. QED BY <1>1, <2>2, <2>3 DEF TypeOK
<1>3. actorStop' \in [Layers -> BOOLEAN] /\ task' \in [Layers -> ActorTask]
    BY <1>1 DEF TypeOK, WriteDirect, SelfStop, ActorTask
<1>4. UNCHANGED <<threaded, isOpen, stopEvent, queueOutput, unfinished,
                  registered, pc, outgoing, incoming, idx, queueInput, opens,
                  attempts, ctl, arrived, consumed, owed, shifted>>
    BY DEF WriteDirect, queueVars, threadVars
<1>5. QED BY <1>1, <1>2, <1>3, <1>4 DEF TypeOK

LEMMA TypeWriteReturn ==
    ASSUME OutputInvariant, NEW l \in Layers, WriteReturn(l) PROVE TypeOK'
<1>1. TypeOK /\ <<l, attempts[l]>> \in SettledPackets
    BY WrittenWhenZero DEF WriteReturn
<1>2. SettledPackets \subseteq Packet
    <2>1. \A i \in 1..Len(settled) : settled[i] \in [packet : Packet, sent : BOOLEAN]
        BY <1>1, ElementType DEF TypeOK
    <2>2. QED BY <2>1 DEF SettledPackets
<1>3. /\ returned' \subseteq Packet
      /\ task' \in [Layers -> ActorTask]
    BY <1>1, <1>2 DEF TypeOK, WriteReturn, ActorTask
<1>4. UNCHANGED <<threaded, isOpen, stopEvent, queueOutput, unfinished,
                  registered, pc, outgoing, incoming, idx, queueInput,
                  actorStop, opens, attempts, ctl, arrived, settled, consumed,
                  owed, shifted>>
    BY DEF WriteReturn, queueVars, threadVars
<1>5. QED
    BY <1>1, <1>3, <1>4 DEF TypeOK

LEMMA TypeReadDirect ==
    ASSUME OutputInvariant, NEW l \in Layers, ReadDirect(l) PROVE TypeOK'
<1>1. TypeOK
    BY DEF OutputInvariant
<1>2. arrived' \in 0..MaxIn
    BY <1>1, ChannelAssumption DEF ChannelAssumption, TypeOK, ReadDirect
<1>3. /\ actorStop' \in [Layers -> BOOLEAN]
      /\ task' \in [Layers -> ActorTask]
    BY <1>1 DEF TypeOK, ReadDirect, SelfStop, ActorTask
<1>4. UNCHANGED <<threaded, isOpen, stopEvent, queueOutput, unfinished,
                  registered, pc, outgoing, incoming, idx, queueInput, opens,
                  attempts, ctl, settled, returned, consumed, owed, shifted>>
    BY DEF ReadDirect, queueVars, threadVars, historyVars
<1>5. QED
    BY <1>1, <1>2, <1>3, <1>4 DEF TypeOK

LEMMA TypeReadPoll ==
    ASSUME OutputInvariant, NEW l \in Layers, ReadPoll(l) PROVE TypeOK'
<1>1. TypeOK
    BY DEF OutputInvariant
<1>2. task' \in [Layers -> ActorTask]
    BY <1>1 DEF TypeOK, ReadPoll, ActorTask
<1>3. /\ queueInput' \in [Layers -> Seq(1..MaxIn)]
      /\ consumed' \in [Layers -> Seq(1..MaxIn)]
    <2>1. CASE UNCHANGED <<queueInput, consumed>>
        BY <1>1, <2>1 DEF TypeOK
    <2>2. CASE /\ queueInput[l] # <<>>
               /\ queueInput' = [queueInput EXCEPT ![l] = Tail(@)]
               /\ consumed' = [consumed EXCEPT ![l] = Append(@, Head(queueInput[l]))]
        <3>1. queueInput[l] \in Seq(1..MaxIn) /\ consumed[l] \in Seq(1..MaxIn)
            BY <1>1 DEF TypeOK
        <3>2. Head(queueInput[l]) \in 1..MaxIn /\ Tail(queueInput[l]) \in Seq(1..MaxIn)
            BY <2>2, <3>1, HeadTailType
        <3>3. Append(consumed[l], Head(queueInput[l])) \in Seq(1..MaxIn)
            BY <3>1, <3>2
        <3>4. QED BY <1>1, <2>2, <3>2, <3>3 DEF TypeOK
    <2>3. QED BY <2>1, <2>2 DEF ReadPoll
<1>4. UNCHANGED <<threaded, isOpen, stopEvent, queueOutput, unfinished,
                  registered, pc, outgoing, incoming, idx, actorStop, opens,
                  attempts, ctl, arrived, settled, returned, owed, shifted>>
    BY DEF ReadPoll, queueVars, threadVars
<1>5. QED
    BY <1>1, <1>2, <1>3, <1>4 DEF TypeOK

\* Every step keeps the types; the steps without a lemma above only assign
\* values that are listed in TypeOK.
LEMMA Typing ==
    ASSUME OutputInvariant, [Next]_vars PROVE TypeOK'
<1>1. TypeOK
    BY DEF OutputInvariant
<1>2. CASE ChannelThread
    <2>1. CASE EnterThreadedMode
        BY <1>1, <2>1 DEF TypeOK, EnterThreadedMode, queueVars, layerVars, historyVars
    <2>2. CASE OpenInThread
        BY <1>1, <2>2 DEF TypeOK, OpenInThread, queueVars, layerVars, historyVars
    <2>3. CASE TestStopEvent
        BY <1>1, <2>3 DEF TypeOK, TestStopEvent, queueVars, layerVars, historyVars
    <2>4. QED
        BY <1>2, <2>1, <2>2, <2>3, TypeTakeOutgoing, TypeWritePacket, TypeTaskDone,
           TypeCheckIncomingData, TypeDeliver DEF ChannelThread
<1>3. CASE Application
    <2>1. CASE Start
        BY <1>1, <2>1 DEF TypeOK, Start, queueVars, layerVars, historyVars
    <2>2. CASE StopClose \/ StopSetEvent
        <3>1. CASE StopClose
            BY <1>1, <3>1 DEF TypeOK, StopClose, queueVars, threadVars, layerVars, historyVars
        <3>2. CASE StopSetEvent
            BY <1>1, <3>2 DEF TypeOK, StopSetEvent, queueVars, threadVars, layerVars, historyVars
        <3>3. QED BY <2>2, <3>1, <3>2
    <2>3. CASE Flush \/ FlushReturn
        BY <1>1, <2>3
        DEF TypeOK, Flush, FlushReturn, queueVars, threadVars, layerVars, historyVars
    <2>4. ASSUME NEW l \in Layers, ActorStop(l) PROVE TypeOK'
        <3>1. actorStop' \in [Layers -> BOOLEAN] /\ ctl' \in {"idle", "stopping", "flushing", "closing"} \cup Layers
            BY <1>1, <2>4 DEF TypeOK, ActorStop
        <3>2. UNCHANGED <<threaded, isOpen, stopEvent, queueOutput, unfinished,
                          registered, pc, outgoing, incoming, idx, queueInput, task,
                          opens, attempts, arrived, settled, returned, consumed, owed,
                          shifted>>
            BY <2>4 DEF ActorStop, queueVars, threadVars, historyVars
        <3>3. QED BY <1>1, <3>1, <3>2 DEF TypeOK
    <2>5. ASSUME NEW l \in Layers, ActorStopClose(l) PROVE TypeOK'
        <3>1. /\ registered' \in Seq(Layers) /\ owed' \subseteq Layers
              /\ shifted' \in BOOLEAN /\ ctl' \in {"idle", "closing"}
            <4>1. CASE Unregister(l) /\ ctl' = "idle"
                BY <1>1, <4>1, UnregisterType
            <4>2. CASE UNCHANGED <<registered, owed, shifted>> /\ ctl' = "closing"
                BY <1>1, <4>2 DEF TypeOK
            <4>3. QED BY <2>5, <4>1, <4>2 DEF ActorStopClose
        <3>2. UNCHANGED <<threaded, isOpen, stopEvent, queueOutput, unfinished, pc,
                          outgoing, incoming, idx, queueInput, actorStop, task, opens,
                          attempts, arrived, settled, returned, consumed>>
            BY <2>5 DEF ActorStopClose, queueVars, threadVars, layerVars
        <3>3. QED BY <1>1, <3>1, <3>2 DEF TypeOK
    <2>6. CASE ActorStopSocket
        BY <1>1, <2>6
        DEF TypeOK, ActorStopSocket, queueVars, threadVars, layerVars, historyVars
    <2>7. QED
        BY <1>3, <2>1, <2>2, <2>3, <2>4, <2>5, <2>6 DEF Application
<1>4. ASSUME NEW l \in Layers, ActorThread(l) PROVE TypeOK'
    <2>1. CASE CloseByActor(l) \/ ActorExitClose(l)
        <3>1. /\ registered' \in Seq(Layers) /\ owed' \subseteq Layers
              /\ shifted' \in BOOLEAN
            <4>1. CASE Unregister(l)
                BY <1>1, <4>1, UnregisterType
            <4>2. CASE UNCHANGED <<registered, owed, shifted>>
                BY <1>1, <4>2 DEF TypeOK
            <4>3. QED BY <2>1, <4>1, <4>2 DEF CloseByActor, ActorExitClose
        <3>2. task' \in [Layers -> ActorTask]
            BY <1>1, <2>1 DEF TypeOK, CloseByActor, ActorExitClose, ActorTask
        <3>3. UNCHANGED <<threaded, isOpen, stopEvent, queueOutput, unfinished, pc,
                          outgoing, incoming, idx, queueInput, actorStop, opens,
                          attempts, ctl, arrived, settled, returned, consumed>>
            BY <2>1 DEF CloseByActor, ActorExitClose, queueVars, threadVars
        <3>4. QED BY <1>1, <3>1, <3>2, <3>3 DEF TypeOK
    <2>2. CASE Read(l) \/ CloseDirect(l) \/ ActorExit(l)
        <3>1. /\ task' \in [Layers -> ActorTask] /\ isOpen' \in BOOLEAN
              /\ actorStop' \in [Layers -> BOOLEAN]
            BY <1>1, <2>2
            DEF TypeOK, Read, CloseDirect, ActorExit, SelfStop, ActorTask
        <3>2. UNCHANGED <<threaded, stopEvent, queueOutput, unfinished, registered,
                          pc, outgoing, incoming, idx, queueInput, opens, attempts,
                          ctl, arrived, settled, returned, consumed, owed, shifted>>
            BY <2>2
            DEF Read, CloseDirect, ActorExit, SelfStop, queueVars, threadVars, historyVars
        <3>3. QED BY <1>1, <3>1, <3>2 DEF TypeOK
    <2>3. QED
        BY <1>4, <2>1, <2>2, TypeOpenChannel, TypeWrite, TypePut, TypeWriteDirect,
           TypeWriteReturn, TypeReadDirect, TypeReadPoll DEF ActorThread
<1>5. CASE UNCHANGED vars
    BY <1>1, <1>5 DEF TypeOK, vars, queueVars, threadVars, layerVars, historyVars
<1>6. QED
    BY <1>2, <1>3, <1>4, <1>5 DEF Next

-----------------------------------------------------------------------------
(* The steps that leave the output path alone. *)

Quiet ==
    /\ UNCHANGED <<queueOutput, unfinished, outgoing, settled, returned, attempts>>
    /\ \A l \in Layers : task'[l] = "joining" <=> task[l] = "joining"
    /\ \A l \in Layers :
          task'[l] \in {"putting", "writing"} => task'[l] = task[l]
    /\ \/ pc' = pc
       \/ /\ pc \notin {"writing", "taskdone", "dead"}
          /\ pc' \notin {"writing", "taskdone"}

\* What the actors wait for is what is outstanding, as long as no actor
\* begins or ends a write.
LEMMA WaitedForStable ==
    ASSUME TypeOK, WaitedFor, Outstanding' = Outstanding,
           \A l \in Layers : task[l] = "joining" =>
               task'[l] = "joining" /\ attempts'[l] = attempts[l]
    PROVE  WaitedFor'
<1>1. Outstanding \in Seq(Packet)
    BY DEF TypeOK, Outstanding
<1>2. \A i \in 1..Len(Outstanding) : Outstanding[i][1] \in Layers
    BY <1>1, ElementType DEF Packet
<1>3. QED BY <1>2 DEF WaitedFor

Kept ==
    /\ UnfinishedExact' /\ ReturnedIsSettled'
    /\ InHand' /\ JoinedIsKnown' /\ BegunIsNumbered'

LEMMA QuietStep ==
    ASSUME OutputInvariant, Quiet
    PROVE  Kept
<1>1. Outstanding' = Outstanding /\ SettledPackets' = SettledPackets
    BY DEF Quiet, Outstanding, SettledPackets
<1>2. CountExact' /\ WaitedFor'
    BY <1>1, WaitedForStable
    DEF OutputInvariant, UnfinishedExact, CountExact, Quiet
<1>3. ReturnedIsSettled' /\ InHand'
    BY <1>1 DEF OutputInvariant, ReturnedIsSettled, InHand, Quiet
<1>4. JoinedIsKnown'
    BY <1>1 DEF OutputInvariant, JoinedIsKnown, Quiet
<1>5. BegunIsNumbered'
    BY DEF OutputInvariant, BegunIsNumbered, Quiet
<1>6. QED BY <1>2, <1>3, <1>4, <1>5 DEF Kept, UnfinishedExact

\* All but seven actions leave the output path alone.
LEMMA QuietThread ==
    ASSUME EnterThreadedMode \/ OpenInThread \/ TestStopEvent
               \/ CheckIncomingData \/ Deliver
    PROVE  Quiet
    BY DEF Quiet, EnterThreadedMode, OpenInThread, TestStopEvent,
           CheckIncomingData, Deliver, queueVars, layerVars, historyVars

LEMMA QuietApplication ==
    ASSUME Application PROVE Quiet
<1>1. UNCHANGED <<task, attempts, queueOutput, unfinished, outgoing, settled, returned>>
    BY DEF Application, Start, StopClose, StopSetEvent, Flush, FlushReturn,
           ActorStop, ActorStopClose, ActorStopSocket,
           queueVars, threadVars, layerVars, historyVars
<1>2. pc' = pc \/ (pc = "new" /\ pc' = "starting")
    BY DEF Application, Start, StopClose, StopSetEvent, Flush, FlushReturn,
           ActorStop, ActorStopClose, ActorStopSocket, threadVars
<1>3. QED BY <1>1, <1>2 DEF Quiet

LEMMA QuietActor ==
    ASSUME TypeOK, NEW l \in Layers,
           \/ OpenChannel(l) \/ OpenDirect(l) \/ CloseByActor(l) \/ CloseDirect(l)
           \/ Read(l) \/ ReadDirect(l) \/ ReadPoll(l)
           \/ ActorExit(l) \/ ActorExitClose(l)
    PROVE  Quiet
<1>1. /\ UNCHANGED <<pc, queueOutput, unfinished, outgoing, settled, returned, attempts>>
      /\ task[l] # "joining"
    BY DEF OpenChannel, OpenDirect, CloseByActor, CloseDirect, Read, ReadDirect,
           ReadPoll, ActorExit, ActorExitClose,
           queueVars, threadVars, layerVars, historyVars
<1>2. \/ task' = task
      \/ \E t \in ActorTask \ {"joining", "putting", "writing"} :
            task' = [task EXCEPT ![l] = t]
    BY DEF OpenChannel, OpenDirect, CloseByActor, CloseDirect, Read, ReadDirect,
           ReadPoll, ActorExit, ActorExitClose, SelfStop, layerVars, ActorTask
<1>3. QED BY <1>1, <1>2 DEF Quiet, TypeOK

-----------------------------------------------------------------------------
(* The seven actions of the output path. *)

LEMMA BegunStable ==
    ASSUME OutputInvariant, UNCHANGED attempts,
           \A l \in Layers :
               task'[l] \in {"putting", "writing"} => task'[l] = task[l]
    PROVE  BegunIsNumbered'
    BY DEF OutputInvariant, BegunIsNumbered

\* Taking a packet moves it from the queue to the hand of the thread.
LEMMA KeptByTakeOutgoing ==
    ASSUME OutputInvariant, TakeOutgoing PROVE Kept
<1>1. TypeOK /\ outgoing = NoPacket
    BY DEF OutputInvariant, InHand, TakeOutgoing
<1>2. SettledPackets' = SettledPackets
    BY DEF TakeOutgoing, historyVars, SettledPackets
<1>3. Outstanding' = Outstanding
    <2>1. CASE queueOutput = <<>>
        BY <2>1 DEF TakeOutgoing, Outstanding
    <2>2. CASE queueOutput # <<>>
        <3>1. Head(queueOutput) \in Packet
            BY <1>1, <2>2, HeadTailType DEF TypeOK
        <3>2. outgoing' # NoPacket
            BY <2>2, <3>1, ChannelAssumption
            DEF TakeOutgoing, ChannelAssumption, Packet
        <3>3. Outstanding' = <<Head(queueOutput)>> \o Tail(queueOutput)
            BY <2>2, <3>2 DEF TakeOutgoing, Outstanding
        <3>4. Outstanding = queueOutput
            BY <1>1 DEF Outstanding, TypeOK
        <3>5. QED BY <1>1, <2>2, <3>3, <3>4 DEF TypeOK
    <2>3. QED BY <2>1, <2>2
<1>4. CountExact' /\ WaitedFor'
    BY <1>1, <1>3, WaitedForStable
    DEF OutputInvariant, UnfinishedExact, CountExact, TakeOutgoing, layerVars
<1>5. ReturnedIsSettled'
    BY <1>2 DEF OutputInvariant, ReturnedIsSettled, TakeOutgoing, historyVars
<1>6. InHand'
    <2>1. CASE queueOutput = <<>>
        BY <1>1, <2>1 DEF TakeOutgoing, InHand
    <2>2. CASE queueOutput # <<>>
        <3>1. Head(queueOutput) \in Packet
            BY <1>1, <2>2, HeadTailType DEF TypeOK
        <3>2. QED
            BY <2>2, <3>1, ChannelAssumption
            DEF TakeOutgoing, InHand, ChannelAssumption, Packet
    <2>3. QED BY <2>1, <2>2
<1>7. JoinedIsKnown'
    BY <1>2, <1>3 DEF OutputInvariant, JoinedIsKnown, TakeOutgoing, layerVars
<1>8. BegunIsNumbered'
    BY BegunStable DEF TakeOutgoing, layerVars
<1>9. QED BY <1>4, <1>5, <1>6, <1>7, <1>8 DEF Kept, UnfinishedExact

\* Whether sent or refused, the packet is settled before task_done().
LEMMA KeptByWritePacket ==
    ASSUME OutputInvariant, WritePacket PROVE Kept
<1>1. TypeOK /\ outgoing \in Packet /\ outgoing # NoPacket
    BY DEF OutputInvariant, InHand, TypeOK, WritePacket
<1>2. /\ SettledPackets \subseteq SettledPackets'
      /\ pc' = "taskdone" => outgoing \in SettledPackets'
      /\ pc' \in {"taskdone", "dead"}
    <2>1. CASE \E s \in BOOLEAN : settled' = Append(settled, Outcome(outgoing, s))
        BY <1>1, <2>1, SettledGrows DEF WritePacket
    <2>2. CASE pc' = "dead" /\ UNCHANGED settled
        BY <2>2 DEF SettledPackets
    <2>3. QED BY <2>1, <2>2 DEF WritePacket
<1>3. UNCHANGED <<outgoing, queueOutput, unfinished, task, attempts, returned>>
    BY DEF WritePacket, queueVars, layerVars
<1>4. Outstanding' = Outstanding
    BY <1>3 DEF Outstanding
<1>5. CountExact' /\ WaitedFor'
    BY <1>1, <1>3, <1>4, WaitedForStable
    DEF OutputInvariant, UnfinishedExact, CountExact
<1>6. ReturnedIsSettled' /\ InHand'
    BY <1>1, <1>2, <1>3 DEF OutputInvariant, ReturnedIsSettled, InHand
<1>7. JoinedIsKnown'
    BY <1>2, <1>3, <1>4 DEF OutputInvariant, JoinedIsKnown
<1>8. BegunIsNumbered'
    BY <1>3, BegunStable
<1>9. QED BY <1>5, <1>6, <1>7, <1>8 DEF Kept, UnfinishedExact

\* task_done() takes the oldest outstanding packet, which is settled, away.
LEMMA KeptByTaskDone ==
    ASSUME OutputInvariant, TaskDone PROVE Kept
<1>1. /\ TypeOK /\ outgoing \in Packet /\ outgoing # NoPacket
      /\ outgoing \in SettledPackets
    BY DEF OutputInvariant, InHand, TypeOK, TaskDone
<1>2. UNCHANGED <<queueOutput, task, attempts, settled, returned>>
    BY DEF TaskDone, layerVars, historyVars
<1>3. Outstanding = <<outgoing>> \o queueOutput /\ Outstanding' = queueOutput
    BY <1>1, <1>2 DEF Outstanding, TaskDone, TypeOK
<1>4. /\ Len(Outstanding) = Len(Outstanding') + 1
      /\ Outstanding[1] = outgoing
      /\ \A i \in 1..Len(Outstanding') : Outstanding'[i] = Outstanding[i + 1]
      /\ Len(Outstanding') \in Nat
    BY <1>1, <1>3 DEF TypeOK
<1>5. CountExact'
    BY <1>4 DEF OutputInvariant, UnfinishedExact, CountExact, TaskDone
<1>6. WaitedFor'
    <2> SUFFICES ASSUME NEW i \in 1..Len(Outstanding')
                 PROVE  /\ task'[Outstanding'[i][1]] = "joining"
                        /\ Outstanding'[i][2] = attempts'[Outstanding'[i][1]]
                        /\ \A j \in 1..(i - 1) : Outstanding'[j][1] # Outstanding'[i][1]
        BY DEF WaitedFor
    <2>1. i + 1 \in 1..Len(Outstanding) /\ Outstanding'[i] = Outstanding[i + 1]
        BY <1>4
    <2>2. /\ task[Outstanding[i + 1][1]] = "joining"
          /\ Outstanding[i + 1][2] = attempts[Outstanding[i + 1][1]]
          /\ \A j \in 1..i : Outstanding[j][1] # Outstanding[i + 1][1]
        BY <2>1 DEF OutputInvariant, UnfinishedExact, WaitedFor
    <2>3. ASSUME NEW j \in 1..(i - 1)
          PROVE  Outstanding'[j][1] # Outstanding'[i][1]
        <3>1. j + 1 \in 1..i /\ Outstanding'[j] = Outstanding[j + 1]
            BY <1>4
        <3>2. QED BY <2>1, <2>2, <3>1
    <2>4. QED BY <1>2, <2>1, <2>2, <2>3
<1>7. SettledPackets' = SettledPackets
    BY <1>2 DEF SettledPackets
<1>8. ReturnedIsSettled' /\ InHand'
    BY <1>2, <1>7 DEF OutputInvariant, ReturnedIsSettled, InHand, TaskDone
<1>9. JoinedIsKnown'
    <2> SUFFICES ASSUME NEW l \in Layers, task[l] = "joining",
                        <<l, attempts[l]>> \notin SettledPackets
                 PROVE  \E i \in 1..Len(Outstanding') :
                            Outstanding'[i] = <<l, attempts[l]>>
        BY <1>2, <1>7 DEF JoinedIsKnown
    <2>1. PICK i \in 1..Len(Outstanding) : Outstanding[i] = <<l, attempts[l]>>
        BY DEF OutputInvariant, JoinedIsKnown
    <2>2. i # 1
        BY <1>1, <1>4, <2>1
    <2>3. i - 1 \in 1..Len(Outstanding') /\ Outstanding'[i - 1] = Outstanding[i]
        BY <1>4, <2>2
    <2>4. QED BY <2>1, <2>3
<1>10. BegunIsNumbered'
    BY <1>2, BegunStable
<1>11. QED BY <1>5, <1>6, <1>8, <1>9, <1>10 DEF Kept, UnfinishedExact

\* write() tests the mode and takes the next number: its actor waits for
\* nothing yet.
LEMMA KeptByWrite ==
    ASSUME OutputInvariant, NEW l \in Layers, Write(l) PROVE Kept
<1>1. /\ TypeOK /\ task[l] = "idle"
      /\ UNCHANGED <<pc, outgoing, queueOutput, unfinished, settled, returned>>
      /\ attempts' = [attempts EXCEPT ![l] = @ + 1]
      /\ task' = [task EXCEPT ![l] = IF threaded THEN "putting" ELSE "writing"]
    BY DEF OutputInvariant, Write, queueVars, threadVars, historyVars
<1>2. /\ task'[l] \in {"putting", "writing"} /\ attempts'[l] > 0
      /\ \A m \in Layers \ {l} : task'[m] = task[m] /\ attempts'[m] = attempts[m]
    BY <1>1, ChannelAssumption DEF TypeOK, ChannelAssumption
<1>3. Outstanding' = Outstanding /\ SettledPackets' = SettledPackets
    BY <1>1 DEF Outstanding, SettledPackets
<1>4. CountExact' /\ WaitedFor'
    BY <1>1, <1>2, <1>3, WaitedForStable
    DEF OutputInvariant, UnfinishedExact, CountExact
<1>5. ReturnedIsSettled' /\ InHand'
    BY <1>1, <1>3 DEF OutputInvariant, ReturnedIsSettled, InHand
<1>6. JoinedIsKnown'
    BY <1>2, <1>3 DEF OutputInvariant, JoinedIsKnown
<1>7. BegunIsNumbered'
    BY <1>2 DEF OutputInvariant, BegunIsNumbered
<1>8. QED BY <1>4, <1>5, <1>6, <1>7 DEF Kept, UnfinishedExact

\* In threaded mode the packet goes to the end of the queue and its actor
\* waits.
LEMMA KeptByPut ==
    ASSUME OutputInvariant, NEW l \in Layers, Put(l) PROVE Kept
<1> DEFINE p == <<l, attempts[l]>>
<1>1. /\ TypeOK /\ task[l] = "putting" /\ UNCHANGED <<pc, outgoing, attempts>>
    BY DEF OutputInvariant, Put, threadVars
<1>2. p \in Packet
    BY BegunType DEF Put
<1>3. /\ Outstanding \in Seq(Packet)
      /\ \A i \in 1..Len(Outstanding) :
            Outstanding[i] \in Packet /\ Outstanding[i][1] \in Layers \ {l}
    <2>1. Outstanding \in Seq(Packet)
        BY <1>1 DEF TypeOK, Outstanding
    <2>2. \A i \in 1..Len(Outstanding) : Outstanding[i] \in Packet
        BY <2>1, ElementType
    <2>3. QED
        BY <1>1, <2>1, <2>2 DEF OutputInvariant, UnfinishedExact, WaitedFor, Packet
<1>4. /\ queueOutput' = Append(queueOutput, p)
      /\ unfinished' = unfinished + 1
      /\ task' = [task EXCEPT ![l] = "joining"]
      /\ UNCHANGED <<settled, returned>>
    BY DEF Put, historyVars
<1>5. Outstanding' = Append(Outstanding, p)
    <2>1. CASE outgoing = NoPacket
        BY <1>1, <1>2, <1>4, <2>1 DEF Outstanding, TypeOK
    <2>2. CASE outgoing # NoPacket
        <3>1. <<outgoing>> \in Seq(Packet) /\ queueOutput \in Seq(Packet)
            BY <1>1, <2>2 DEF TypeOK
        <3>2. <<outgoing>> \o Append(queueOutput, p)
                 = Append(<<outgoing>> \o queueOutput, p)
            BY <1>2, <3>1, ConcatAppend
        <3>3. QED BY <1>1, <1>4, <2>2, <3>2, Zenon DEF Outstanding
    <2>3. QED BY <2>1, <2>2
<1>6. /\ Len(Outstanding') = Len(Outstanding) + 1 /\ Len(Outstanding) \in Nat
      /\ \A i \in 1..Len(Outstanding) : Outstanding'[i] = Outstanding[i]
      /\ Outstanding'[Len(Outstanding) + 1] = p
    BY <1>2, <1>3, <1>5
<1>7. CountExact'
    BY <1>4, <1>6 DEF OutputInvariant, UnfinishedExact, CountExact
<1>8. /\ task'[l] = "joining" /\ p[1] = l /\ p[2] = attempts[l]
      /\ \A m \in Layers \ {l} : task'[m] = task[m]
    BY <1>1, <1>4 DEF TypeOK
<1>9. WaitedFor'
    <2> SUFFICES ASSUME NEW i \in 1..Len(Outstanding')
                 PROVE  /\ task'[Outstanding'[i][1]] = "joining"
                        /\ Outstanding'[i][2] = attempts[Outstanding'[i][1]]
                        /\ \A j \in 1..(i - 1) :
                              Outstanding'[j][1] # Outstanding'[i][1]
        BY <1>1 DEF WaitedFor
    <2> HIDE DEF p
    <2>1. CASE i \in 1..Len(Outstanding)
        <3>1. /\ task[Outstanding[i][1]] = "joining"
              /\ Outstanding[i][2] = attempts[Outstanding[i][1]]
              /\ \A j \in 1..(i - 1) : Outstanding[j][1] # Outstanding[i][1]
            BY <2>1 DEF OutputInvariant, UnfinishedExact, WaitedFor
        <3>2. /\ Outstanding'[i] = Outstanding[i]
              /\ Outstanding[i][1] \in Layers \ {l}
              /\ \A j \in 1..(i - 1) : Outstanding'[j] = Outstanding[j]
            BY <1>3, <1>6, <2>1
        <3>3. QED BY <1>8, <3>1, <3>2
    <2>2. CASE i = Len(Outstanding) + 1
        BY <1>3, <1>6, <1>8, <2>2
    <2>3. QED BY <1>6, <2>1, <2>2
<1>10. SettledPackets' = SettledPackets
    BY <1>4 DEF SettledPackets
<1>11. ReturnedIsSettled' /\ InHand'
    BY <1>1, <1>4, <1>10 DEF OutputInvariant, ReturnedIsSettled, InHand
<1>12. JoinedIsKnown'
    <2> SUFFICES ASSUME NEW m \in Layers, task'[m] = "joining",
                        <<m, attempts[m]>> \notin SettledPackets
                 PROVE  \E i \in 1..Len(Outstanding') :
                            Outstanding'[i] = <<m, attempts[m]>>
        BY <1>1, <1>10 DEF JoinedIsKnown
    <2>1. CASE m = l
        BY <1>6, <2>1
    <2>2. CASE m # l
        <3>1. task[m] = "joining"
            BY <1>8, <2>2
        <3>2. PICK i \in 1..Len(Outstanding) : Outstanding[i] = <<m, attempts[m]>>
            BY <3>1 DEF OutputInvariant, JoinedIsKnown
        <3>3. i \in 1..Len(Outstanding') /\ Outstanding'[i] = Outstanding[i]
            BY <1>6
        <3>4. QED BY <3>1, <3>2, <3>3
    <2>3. QED BY <2>1, <2>2
<1>13. BegunIsNumbered'
    BY <1>1, <1>4, BegunStable DEF TypeOK
<1>14. QED BY <1>7, <1>9, <1>11, <1>12, <1>13 DEF Kept, UnfinishedExact

\* Otherwise the packet is settled before write() returns.
LEMMA KeptByWriteDirect ==
    ASSUME OutputInvariant, NEW l \in Layers, WriteDirect(l) PROVE Kept
<1> DEFINE p == <<l, attempts[l]>>
<1>1. /\ TypeOK /\ task[l] = "writing" /\ p \in Packet
      /\ UNCHANGED <<pc, outgoing, queueOutput, unfinished, attempts>>
    BY BegunType DEF OutputInvariant, WriteDirect, queueVars, threadVars
<1>2. /\ task'[l] \notin {"joining", "putting", "writing"}
      /\ \A m \in Layers \ {l} : task'[m] = task[m]
    BY <1>1 DEF WriteDirect, SelfStop, TypeOK
<1>3. Outstanding' = Outstanding
    BY <1>1 DEF Outstanding
<1>4. /\ SettledPackets \subseteq SettledPackets'
      /\ returned' \subseteq returned \cup SettledPackets'
    <2>1. CASE /\ settled' = Append(settled, Outcome(p, TRUE))
               /\ returned' = returned \cup {p}
        BY <1>1, <2>1, SettledGrows
    <2>2. CASE UNCHANGED <<settled, returned>>
        BY <2>2 DEF SettledPackets
    <2>3. QED BY <2>1, <2>2 DEF WriteDirect
<1> HIDE DEF p
<1>5. CountExact' /\ WaitedFor'
    BY <1>1, <1>2, <1>3, WaitedForStable
    DEF OutputInvariant, UnfinishedExact, CountExact
<1>6. ReturnedIsSettled' /\ InHand'
    BY <1>1, <1>4 DEF OutputInvariant, ReturnedIsSettled, InHand
<1>7. JoinedIsKnown'
    BY <1>1, <1>2, <1>3, <1>4 DEF OutputInvariant, JoinedIsKnown
<1>8. BegunIsNumbered'
    BY <1>1, <1>2, BegunStable
<1>9. QED BY <1>5, <1>6, <1>7, <1>8 DEF Kept, UnfinishedExact

\* write() returns when the count is zero: nothing is outstanding then, so
\* that the packet of the actor is settled.
LEMMA KeptByWriteReturn ==
    ASSUME OutputInvariant, NEW l \in Layers, WriteReturn(l) PROVE Kept
<1>1. /\ TypeOK /\ Len(Outstanding) = 0
      /\ <<l, attempts[l]>> \in SettledPackets
    BY WrittenWhenZero DEF WriteReturn
<1>2. /\ UNCHANGED <<pc, outgoing, queueOutput, unfinished, attempts, settled>>
      /\ task' = [task EXCEPT ![l] = "idle"]
      /\ returned' = returned \cup {<<l, attempts[l]>>}
    BY DEF WriteReturn, queueVars, threadVars
<1>3. Outstanding' = Outstanding /\ SettledPackets' = SettledPackets
    BY <1>2 DEF Outstanding, SettledPackets
<1>4. CountExact' /\ WaitedFor'
    BY <1>1, <1>2, <1>3
    DEF OutputInvariant, UnfinishedExact, CountExact, WaitedFor
<1>5. ReturnedIsSettled' /\ InHand'
    BY <1>1, <1>2, <1>3 DEF OutputInvariant, ReturnedIsSettled, InHand
<1>6. JoinedIsKnown'
    BY <1>1, <1>2, <1>3 DEF OutputInvariant, JoinedIsKnown, TypeOK
<1>7. BegunIsNumbered'
    BY <1>1, <1>2, BegunStable DEF TypeOK
<1>8. QED BY <1>4, <1>5, <1>6, <1>7 DEF Kept, UnfinishedExact

-----------------------------------------------------------------------------
(* The theorems. *)

LEMMA InitiallyOutputInvariant == Init => OutputInvariant
<1> SUFFICES ASSUME Init PROVE OutputInvariant
    OBVIOUS
<1>1. TypeOK
    <2>1. 0 \in 0..MaxIn /\ 0 \in 0..MaxWrites
        BY ChannelAssumption DEF ChannelAssumption
    <2>2. <<>> \in Seq(1..MaxIn) /\ <<>> \in Seq(Packet) /\ <<>> \in Seq(Layers)
          /\ <<>> \in Seq([packet : Packet, sent : BOOLEAN])
        OBVIOUS
    <2>3. /\ queueInput \in [Layers -> Seq(1..MaxIn)]
          /\ consumed \in [Layers -> Seq(1..MaxIn)]
          /\ opens \in [Layers -> Nat] /\ attempts \in [Layers -> 0..MaxWrites]
        BY <2>1, <2>2 DEF Init
    <2>4. /\ actorStop \in [Layers -> BOOLEAN]
          /\ task \in [Layers -> ActorTask]
        BY DEF Init, ActorTask
    <2>5. /\ queueOutput \in Seq(Packet) /\ registered \in Seq(Layers)
          /\ settled \in Seq([packet : Packet, sent : BOOLEAN])
        BY <2>2 DEF Init
    <2>6. /\ threaded = FALSE /\ isOpen = FALSE /\ stopEvent = FALSE /\ shifted = FALSE
          /\ unfinished = 0 /\ outgoing = NoPacket /\ incoming = 0 /\ idx = 1
          /\ arrived = 0 /\ returned = {} /\ owed = {}
        BY DEF Init
    <2>7. pc = "new" /\ ctl = "idle"
        BY DEF Init
    <2>8. /\ returned \subseteq Packet /\ owed \subseteq Layers
          /\ outgoing \in Packet \cup {NoPacket} /\ idx \in Nat \ {0}
        BY <2>6
    <2>9. incoming \in 0..MaxIn /\ arrived \in 0..MaxIn /\ unfinished \in Nat
        BY <2>1, <2>6
    <2>10. /\ threaded \in BOOLEAN /\ isOpen \in BOOLEAN /\ stopEvent \in BOOLEAN
           /\ shifted \in BOOLEAN
        BY <2>6
    <2>11. QED BY <2>3, <2>4, <2>5, <2>7, <2>8, <2>9, <2>10 DEF TypeOK
<1>2. Outstanding = <<>>
    BY DEF Init, Outstanding
<1>3. UnfinishedExact
    BY <1>2 DEF UnfinishedExact, CountExact, WaitedFor, Init
<1>4. ReturnedIsSettled /\ InHand /\ JoinedIsKnown /\ BegunIsNumbered
    BY DEF Init, ReturnedIsSettled, InHand, JoinedIsKnown, BegunIsNumbered
<1>5. QED BY <1>1, <1>3, <1>4 DEF OutputInvariant

LEMMA OutputInvariantStep ==
    ASSUME OutputInvariant, [Next]_vars PROVE OutputInvariant'
<1>1. TypeOK /\ TypeOK'
    BY Typing DEF OutputInvariant
<1>2. CASE ChannelThread
    BY <1>2, QuietThread, QuietStep, KeptByTakeOutgoing, KeptByWritePacket,
       KeptByTaskDone, <1>1 DEF ChannelThread, Kept, OutputInvariant
<1>3. CASE Application
    BY <1>1, <1>3, QuietApplication, QuietStep DEF Kept, OutputInvariant
<1>4. ASSUME NEW l \in Layers, ActorThread(l) PROVE OutputInvariant'
    BY <1>1, <1>4, QuietActor, QuietStep, KeptByWrite, KeptByPut, KeptByWriteDirect,
       KeptByWriteReturn
    DEF ActorThread, Kept, OutputInvariant
<1>5. CASE UNCHANGED vars
    <2>1. Quiet
        BY <1>5 DEF vars, queueVars, threadVars, layerVars, historyVars, Quiet
    <2>2. QED BY <1>1, <2>1, QuietStep DEF Kept, OutputInvariant
<1>6. QED BY <1>2, <1>3, <1>4, <1>5 DEF Next

\* The inductive invariant of the output path (AbstractChannel.write,
\* process_data_to_send), for any number of layers and packets.
THEOREM OutputPathInvariant == Spec => []OutputInvariant
<1>1. QED
    BY InitiallyOutputInvariant, OutputInvariantStep, PTL DEF Spec

\* Type correctness: above all, the count of unfinished tasks of the output
\* queue never goes below zero.
THEOREM TypeCorrect == Spec => []TypeOK
<1>1. OutputInvariant => TypeOK
    BY DEF OutputInvariant
<1>2. QED BY <1>1, OutputPathInvariant, PTL

\* The count that blocks write() and flush() is the number of packets whose
\* task_done() is still to come, each with its own waiting actor.
THEOREM CountIsExact == Spec => []UnfinishedExact
<1>1. OutputInvariant => UnfinishedExact
    BY DEF OutputInvariant
<1>2. QED BY <1>1, OutputPathInvariant, PTL

\* A write() that returned has handed its packet to the socket.
THEOREM NoWriteReturnsEarly == Spec => []ReturnedIsSettled
<1>1. OutputInvariant => ReturnedIsSettled
    BY DEF OutputInvariant
<1>2. QED BY <1>1, OutputPathInvariant, PTL

-----------------------------------------------------------------------------
(* The input path. *)

\* The thread dispatches a packet that has arrived, seldom the last one: an
\* actor that tested the mode before the switch may take one meanwhile.
IncomingArrived == pc = "deliver" => incoming \in 1..arrived

\* No inbox holds a packet newer than the one that is dispatched.
InboxHasArrived ==
    \A l \in Layers : \A j \in 1..Len(Inbox(l)) :
        /\ Inbox(l)[j] <= arrived
        /\ pc = "deliver" => Inbox(l)[j] <= incoming

\* Layers are registered, and given packets, by openChannel() only, and a
\* layer that called it once is registered at most once.
RegisteredByOpen ==
    /\ \A i \in 1..Len(registered) : opens[registered[i]] > 0
    /\ \A l \in Layers : opens[l] = 0 => Inbox(l) = <<>>
    /\ \A i, j \in 1..Len(registered) :
          registered[i] = registered[j] /\ opens[registered[i]] = 1 => i = j

\* A layer registered once that has got the packet is behind the iterator,
\* whichever layers left the list since.
ServedIsBehind ==
    pc = "deliver" =>
        \A l \in Layers : \A j \in 1..Len(Inbox(l)) :
            opens[l] <= 1 /\ Inbox(l)[j] = incoming =>
                \A i \in idx..Len(registered) : registered[i] # l

InputInvariant ==
    /\ IncomingArrived /\ InboxHasArrived /\ RegisteredByOpen
    /\ ServedIsBehind /\ InboxInOrder

-----------------------------------------------------------------------------
(* The list of layers and the inboxes. *)

LEMMA RemoveAtElements ==
    ASSUME NEW S, NEW s \in Seq(S), NEW i \in 1..Len(s)
    PROVE  /\ Len(RemoveAt(s, i)) = Len(s) - 1
           /\ \A k \in 1..(Len(s) - 1) :
                 RemoveAt(s, i)[k] = IF k < i THEN s[k] ELSE s[k + 1]
<1> DEFINE a == SubSeq(s, 1, i - 1)
           b == SubSeq(s, i + 1, Len(s))
<1>1. /\ a \in Seq(S) /\ Len(a) = i - 1
      /\ \A k \in 1..(i - 1) : a[k] = s[k]
    OBVIOUS
<1>2. /\ b \in Seq(S) /\ Len(b) = Len(s) - i
      /\ \A k \in 1..(Len(s) - i) : b[k] = s[k + i]
    OBVIOUS
<1>3. RemoveAt(s, i) = a \o b
    BY DEF RemoveAt
<1> HIDE DEF a, b
<1>4. /\ Len(a \o b) = Len(a) + Len(b)
      /\ \A k \in 1..(Len(a) + Len(b)) :
            (a \o b)[k] = IF k <= Len(a) THEN a[k] ELSE b[k - Len(a)]
    BY <1>1, <1>2, ConcatProperties
<1>5. Len(s) \in Nat /\ i \in Nat
    OBVIOUS
<1>6. Len(a \o b) = Len(s) - 1
    BY <1>1, <1>2, <1>4, <1>5
<1>7. ASSUME NEW k \in 1..(Len(s) - 1)
      PROVE  (a \o b)[k] = IF k < i THEN s[k] ELSE s[k + 1]
    <2>1. k \in 1..(Len(a) + Len(b))
        BY <1>1, <1>2, <1>5
    <2>2. CASE k < i
        <3>1. k \in 1..(i - 1) /\ k <= Len(a)
            BY <1>1, <1>5, <2>2
        <3>2. QED BY <1>1, <1>4, <2>1, <2>2, <3>1
    <2>3. CASE ~(k < i)
        <3>1. /\ k - Len(a) \in 1..(Len(s) - i) /\ ~(k <= Len(a))
              /\ (k - Len(a)) + i = k + 1
            BY <1>1, <1>5, <2>3
        <3>2. b[k - Len(a)] = s[k + 1]
            BY <1>2, <3>1
        <3>3. QED BY <1>4, <2>1, <2>3, <3>1, <3>2
    <2>4. QED BY <2>2, <2>3
<1>8. QED BY <1>3, <1>6, <1>7

\* Where the layers of the list come from after one has left it.
LEMMA AfterRemoval ==
    ASSUME TypeOK, NEW i \in 1..Len(registered),
           registered' = RemoveAt(registered, i)
    PROVE  \A k \in 1..Len(registered') :
              \/ k < i /\ k \in 1..Len(registered) /\ registered'[k] = registered[k]
              \/ /\ k >= i /\ k + 1 \in 1..Len(registered)
                 /\ registered'[k] = registered[k + 1]
<1>1. registered \in Seq(Layers)
    BY DEF TypeOK
<1>2. /\ Len(registered') = Len(registered) - 1
      /\ \A k \in 1..(Len(registered) - 1) :
            registered'[k] = IF k < i THEN registered[k] ELSE registered[k + 1]
    BY <1>1, RemoveAtElements
<1>3. Len(registered) \in Nat
    BY <1>1
<1>4. QED BY <1>2, <1>3

LEMMA InboxType ==
    ASSUME TypeOK, NEW l \in Layers
    PROVE  /\ consumed[l] \in Seq(1..MaxIn) /\ queueInput[l] \in Seq(1..MaxIn)
           /\ Inbox(l) \in Seq(1..MaxIn) /\ Len(Inbox(l)) \in Nat
           /\ \A j \in 1..Len(Inbox(l)) : Inbox(l)[j] \in Nat
<1>1. consumed[l] \in Seq(1..MaxIn) /\ queueInput[l] \in Seq(1..MaxIn)
    BY DEF TypeOK
<1>2. Inbox(l) \in Seq(1..MaxIn)
    BY <1>1 DEF Inbox
<1>3. \A j \in 1..Len(Inbox(l)) : Inbox(l)[j] \in 1..MaxIn
    BY <1>2, ElementType
<1>4. Len(Inbox(l)) \in Nat
    BY <1>2
<1>5. QED BY <1>1, <1>2, <1>3, <1>4

\* Reading a packet takes it from the queue without changing the inbox.
LEMMA InboxKept ==
    ASSUME TypeOK, NEW l \in Layers, ReadPoll(l), NEW m \in Layers
    PROVE  Inbox(m)' = Inbox(m)
<1>1. CASE UNCHANGED <<queueInput, consumed>>
    BY <1>1 DEF Inbox
<1>2. CASE /\ queueInput[l] # <<>>
           /\ queueInput' = [queueInput EXCEPT ![l] = Tail(@)]
           /\ consumed' = [consumed EXCEPT ![l] = Append(@, Head(queueInput[l]))]
    <2>1. CASE m # l
        <3>1. queueInput'[m] = queueInput[m] /\ consumed'[m] = consumed[m]
            BY <1>2, <2>1 DEF TypeOK
        <3>2. QED BY <3>1 DEF Inbox
    <2>2. CASE m = l
        <3>1. /\ queueInput'[l] = Tail(queueInput[l])
              /\ consumed'[l] = Append(consumed[l], Head(queueInput[l]))
            BY <1>2 DEF TypeOK
        <3> DEFINE P == 1..MaxIn
        <3>2. consumed[l] \in Seq(P) /\ queueInput[l] \in Seq(P)
            BY InboxType
        <3> HIDE DEF P
        <3>3. Append(consumed[l], Head(queueInput[l])) \o Tail(queueInput[l])
                 = consumed[l] \o queueInput[l]
            BY <1>2, <3>2, ConcatHeadTail
        <3>4. QED BY <2>2, <3>1, <3>3 DEF Inbox
    <2>3. QED BY <2>1, <2>2
<1>3. QED BY <1>1, <1>2 DEF ReadPoll

\* Delivering a packet adds it to the inbox of one layer, if it accepts it.
LEMMA InboxGrows ==
    ASSUME TypeOK, NEW l \in Layers, NEW e \in 1..MaxIn, UNCHANGED consumed,
           queueInput' = [queueInput EXCEPT ![l] = Append(@, e)]
    PROVE  /\ \A m \in Layers \ {l} : Inbox(m)' = Inbox(m)
           /\ Inbox(l)' = Append(Inbox(l), e)
<1>1. /\ \A m \in Layers \ {l} : queueInput'[m] = queueInput[m]
      /\ queueInput'[l] = Append(queueInput[l], e)
    BY DEF TypeOK
<1>2. consumed[l] \o Append(queueInput[l], e) = Append(consumed[l] \o queueInput[l], e)
    <2> DEFINE P == 1..MaxIn
    <2>1. consumed[l] \in Seq(P) /\ queueInput[l] \in Seq(P) /\ e \in P
        BY InboxType
    <2> HIDE DEF P
    <2>2. \A s, t \in Seq(P), x \in P : s \o Append(t, x) = Append(s \o t, x)
        BY ConcatAppend
    <2>3. QED BY <2>1, <2>2, Zenon
<1>3. QED BY <1>1, <1>2 DEF Inbox

-----------------------------------------------------------------------------
(* What a step does to the input path. *)

Steady ==
    /\ UNCHANGED <<registered, incoming, idx, opens, owed, shifted>>
    /\ \A l \in Layers : Inbox(l)' = Inbox(l)
    /\ pc' = "deliver" <=> pc = "deliver"
    /\ arrived' = arrived \/ arrived' = arrived + 1

Receives ==
    /\ pc = "reading" /\ pc' = "deliver"
    /\ arrived' = arrived + 1 /\ incoming' = arrived + 1 /\ idx' = 1
    /\ owed' = {l \in ToSet(registered) : arrived + 1 \in Interest[l]}
    /\ shifted' = FALSE
    /\ UNCHANGED <<registered, opens, queueInput, consumed>>

Opens(l) ==
    /\ opens' = [opens EXCEPT ![l] = @ + 1]
    /\ registered' = registered \/ registered' = Append(registered, l)
    /\ UNCHANGED <<pc, incoming, idx, arrived, owed, shifted, queueInput, consumed>>

Leaves(l) ==
    /\ Unregister(l)
    /\ UNCHANGED <<pc, incoming, idx, arrived, opens, queueInput, consumed>>

LEMMA SameInboxes ==
    ASSUME UNCHANGED <<queueInput, consumed>>
    PROVE  \A l \in Layers : Inbox(l)' = Inbox(l)
    BY DEF Inbox

LEMMA ThreadInput ==
    ASSUME ChannelThread PROVE Steady \/ Receives \/ Deliver
<1>1. CASE Deliver
    BY <1>1
<1>2. CASE CheckIncomingData
    <2>1. UNCHANGED <<registered, opens, queueInput, consumed>> /\ pc = "reading"
        BY <1>2 DEF CheckIncomingData, layerVars
    <2>2. CASE pc' = "deliver"
        BY <1>2, <2>1, <2>2 DEF CheckIncomingData, Receives
    <2>3. CASE pc' # "deliver"
        BY <1>2, <2>1, <2>3, SameInboxes DEF CheckIncomingData, Steady
    <2>4. QED BY <2>2, <2>3
<1>3. CASE EnterThreadedMode \/ OpenInThread \/ TestStopEvent
               \/ TakeOutgoing \/ WritePacket \/ TaskDone
    <2>1. /\ UNCHANGED <<registered, incoming, idx, opens, owed, shifted, arrived,
                         queueInput, consumed>>
          /\ pc # "deliver" /\ pc' # "deliver"
        BY <1>3 DEF EnterThreadedMode, OpenInThread, TestStopEvent, TakeOutgoing,
           WritePacket, TaskDone, layerVars, historyVars
    <2>2. QED BY <2>1, SameInboxes DEF Steady
<1>4. QED BY <1>1, <1>2, <1>3 DEF ChannelThread

LEMMA ApplicationInput ==
    ASSUME Application PROVE Steady \/ \E l \in Layers : Leaves(l)
<1>1. ASSUME NEW l \in Layers, ActorStopClose(l) PROVE Steady \/ Leaves(l)
    <2>1. CASE Unregister(l)
        BY <1>1, <2>1 DEF ActorStopClose, Leaves, threadVars, layerVars
    <2>2. CASE UNCHANGED <<registered, owed, shifted>>
        BY <1>1, <2>2, SameInboxes
        DEF ActorStopClose, Steady, threadVars, layerVars
    <2>3. QED BY <1>1, <2>1, <2>2 DEF ActorStopClose
<1>2. CASE \/ Start \/ StopClose \/ StopSetEvent \/ Flush \/ FlushReturn
           \/ ActorStopSocket \/ \E l \in Layers : ActorStop(l)
    <2>1. /\ UNCHANGED <<registered, incoming, idx, opens, owed, shifted, arrived,
                         queueInput, consumed>>
          /\ pc' = pc \/ (pc = "new" /\ pc' = "starting")
        BY <1>2 DEF Start, StopClose, StopSetEvent, Flush, FlushReturn, ActorStop,
           ActorStopSocket, threadVars, layerVars, historyVars
    <2>2. QED BY <2>1, SameInboxes DEF Steady
<1>3. QED BY <1>1, <1>2 DEF Application

LEMMA ActorInput ==
    ASSUME TypeOK, NEW l \in Layers, ActorThread(l)
    PROVE  Steady \/ Opens(l) \/ Leaves(l)
<1>1. CASE OpenChannel(l)
    BY <1>1 DEF OpenChannel, Opens, threadVars, historyVars
<1>2. CASE CloseByActor(l) \/ ActorExitClose(l)
    <2>1. CASE Unregister(l)
        BY <1>2, <2>1 DEF CloseByActor, ActorExitClose, Leaves, threadVars
    <2>2. CASE UNCHANGED <<registered, owed, shifted>>
        BY <1>2, <2>2, SameInboxes DEF CloseByActor, ActorExitClose, Steady, threadVars
    <2>3. QED BY <1>2, <2>1, <2>2 DEF CloseByActor, ActorExitClose
<1>3. CASE ReadPoll(l)
    <2>1. UNCHANGED <<registered, incoming, idx, opens, owed, shifted, arrived, pc>>
        BY <1>3 DEF ReadPoll, threadVars
    <2>2. \A m \in Layers : Inbox(m)' = Inbox(m)
        BY <1>3, InboxKept
    <2>3. QED BY <2>1, <2>2 DEF Steady
<1>4. CASE \/ OpenDirect(l) \/ CloseDirect(l) \/ Write(l) \/ Put(l) \/ WriteDirect(l)
           \/ WriteReturn(l) \/ Read(l) \/ ReadDirect(l) \/ ActorExit(l)
    <2>1. /\ UNCHANGED <<registered, incoming, idx, opens, owed, shifted, pc,
                         queueInput, consumed>>
          /\ arrived' = arrived \/ arrived' = arrived + 1
        BY <1>4 DEF OpenDirect, CloseDirect, Write, Put, WriteDirect, WriteReturn,
           Read, ReadDirect, ActorExit, threadVars, historyVars
    <2>2. QED BY <2>1, SameInboxes DEF Steady
<1>5. QED BY <1>1, <1>2, <1>3, <1>4 DEF ActorThread

LEMMA InputSteps ==
    ASSUME TypeOK, [Next]_vars
    PROVE  \/ Steady \/ Receives \/ Deliver
           \/ \E l \in Layers : Opens(l) \/ Leaves(l)
<1>1. CASE UNCHANGED vars
    BY <1>1, SameInboxes DEF vars, threadVars, layerVars, historyVars, Steady
<1>2. QED
    BY <1>1, ThreadInput, ApplicationInput, ActorInput DEF Next

LEMMA IncomingArrivedStep ==
    ASSUME TypeOK, IncomingArrived, [Next]_vars PROVE IncomingArrived'
<1> SUFFICES ASSUME pc' = "deliver" PROVE incoming' \in 1..arrived'
    BY DEF IncomingArrived
<1>1. CASE Steady
    BY <1>1 DEF Steady, IncomingArrived, TypeOK
<1>2. CASE Receives
    BY <1>2 DEF Receives, TypeOK
<1>3. CASE Deliver
    BY <1>3 DEF Deliver, IncomingArrived
<1>4. CASE \E l \in Layers : Opens(l) \/ Leaves(l)
    BY <1>4 DEF Opens, Leaves, IncomingArrived
<1>5. QED BY <1>1, <1>2, <1>3, <1>4, InputSteps

-----------------------------------------------------------------------------
(* The invariant of the inboxes. *)

InboxKeepsOrder ==
    InboxHasArrived' /\ RegisteredByOpen' /\ ServedIsBehind' /\ InboxInOrder'

LEMMA OrderSteady ==
    ASSUME TypeOK, TypeOK', InputInvariant, Steady PROVE InboxKeepsOrder
<1>1. InboxHasArrived'
    <2> SUFFICES ASSUME NEW l \in Layers, NEW j \in 1..Len(Inbox(l))
                 PROVE  /\ Inbox(l)[j] <= arrived'
                        /\ pc = "deliver" => Inbox(l)[j] <= incoming
        BY DEF InboxHasArrived, Steady
    <2>1. /\ Inbox(l)[j] <= arrived /\ Inbox(l)[j] \in Nat
          /\ pc = "deliver" => Inbox(l)[j] <= incoming
        BY InboxType DEF InputInvariant, InboxHasArrived
    <2>2. arrived \in Nat /\ (arrived' = arrived \/ arrived' = arrived + 1)
        BY DEF Steady, TypeOK
    <2>3. QED BY <2>1, <2>2
<1>2. RegisteredByOpen'
    BY DEF InputInvariant, RegisteredByOpen, Steady
<1>3. ServedIsBehind'
    BY DEF InputInvariant, ServedIsBehind, Steady
<1>4. InboxInOrder'
    BY DEF InputInvariant, InboxInOrder, Steady
<1>5. QED BY <1>1, <1>2, <1>3, <1>4 DEF InboxKeepsOrder

\* A packet that has just arrived is in no inbox.
LEMMA OrderReceives ==
    ASSUME TypeOK, InputInvariant, Receives PROVE InboxKeepsOrder
<1>1. \A l \in Layers : Inbox(l)' = Inbox(l)
    BY SameInboxes DEF Receives
<1>2. ASSUME NEW l \in Layers, NEW j \in 1..Len(Inbox(l))
      PROVE  Inbox(l)[j] < arrived'
    <2>1. Inbox(l)[j] <= arrived /\ Inbox(l)[j] \in Nat
        BY InboxType DEF InputInvariant, InboxHasArrived
    <2>2. arrived \in Nat /\ arrived' = arrived + 1
        BY DEF Receives, TypeOK
    <2>3. QED BY <2>1, <2>2
<1>3. arrived' \in Nat /\ incoming' = arrived'
    BY DEF Receives, TypeOK
<1>4. InboxHasArrived' /\ ServedIsBehind'
    <2>1. ASSUME NEW l \in Layers, NEW j \in 1..Len(Inbox(l))
          PROVE  /\ Inbox(l)[j] <= arrived' /\ Inbox(l)[j] <= incoming'
                 /\ Inbox(l)[j] # incoming'
        BY <1>2, <1>3, <2>1, InboxType
    <2>2. QED BY <1>1, <2>1 DEF InboxHasArrived, ServedIsBehind
<1>5. RegisteredByOpen'
    BY <1>1 DEF InputInvariant, RegisteredByOpen, Receives
<1>6. InboxInOrder'
    BY <1>1 DEF InputInvariant, InboxInOrder, Receives
<1>7. QED BY <1>4, <1>5, <1>6 DEF InboxKeepsOrder

\* One turn of the loop over the layers.
LEMMA OrderDeliver ==
    ASSUME TypeOK, InputInvariant, Deliver PROVE InboxKeepsOrder
<1>1. /\ pc = "deliver" /\ incoming \in 1..arrived /\ arrived \in Nat
      /\ UNCHANGED <<registered, opens, arrived>>
    BY DEF Deliver, InputInvariant, IncomingArrived, TypeOK
<1>2. CASE /\ pc' = "loop"
           /\ UNCHANGED <<queueInput, consumed>>
    <2>1. \A l \in Layers : Inbox(l)' = Inbox(l)
        BY <1>2, SameInboxes
    <2>2. InboxHasArrived' /\ RegisteredByOpen' /\ InboxInOrder'
        BY <1>1, <1>2, <2>1
        DEF InputInvariant, InboxHasArrived, RegisteredByOpen, InboxInOrder
    <2>3. ServedIsBehind'
        BY <1>2 DEF ServedIsBehind
    <2>4. QED BY <2>2, <2>3 DEF InboxKeepsOrder
<1>3. CASE /\ idx <= Len(registered) /\ incoming \notin Interest[registered[idx]]
           /\ idx' = idx + 1 /\ UNCHANGED <<pc, incoming, queueInput, consumed>>
    <2>1. \A l \in Layers : Inbox(l)' = Inbox(l)
        BY <1>3, SameInboxes
    <2>2. InboxHasArrived' /\ RegisteredByOpen' /\ InboxInOrder'
        BY <1>1, <1>3, <2>1
        DEF InputInvariant, InboxHasArrived, RegisteredByOpen, InboxInOrder
    <2>3. idx'..Len(registered) \subseteq idx..Len(registered)
        BY <1>3 DEF TypeOK
    <2>4. ServedIsBehind'
        BY <1>1, <1>3, <2>1, <2>3 DEF InputInvariant, ServedIsBehind
    <2>5. QED BY <2>2, <2>4 DEF InboxKeepsOrder
<1>4. CASE /\ idx <= Len(registered) /\ incoming \in Interest[registered[idx]]
           /\ queueInput' = [queueInput EXCEPT ![registered[idx]] = Append(@, incoming)]
           /\ idx' = idx + 1 /\ UNCHANGED <<pc, incoming, consumed>>
    <2>1. PICK l \in Layers : l = registered[idx]
        <3>1. idx \in 1..Len(registered) /\ registered \in Seq(Layers)
            BY <1>4 DEF TypeOK
        <3>2. QED BY <3>1, ElementType
    <2>2. idx \in 1..Len(registered) /\ Len(registered) \in Nat /\ idx \in Nat
        BY <1>4 DEF TypeOK
    <2>3. PICK e \in 1..MaxIn : e = incoming /\ e \in Interest[l]
        BY <1>4, <2>1, ChannelAssumption DEF ChannelAssumption
    <2>4. /\ \A m \in Layers \ {l} : Inbox(m)' = Inbox(m)
          /\ Inbox(l)' = Append(Inbox(l), e)
        BY <1>4, <2>1, <2>3, InboxGrows
    <2>5. opens[l] > 0 /\ opens[l] \in Nat
        BY <2>1, <2>2 DEF InputInvariant, RegisteredByOpen, TypeOK
    <2>6. /\ Len(Inbox(l)') = Len(Inbox(l)) + 1 /\ Len(Inbox(l)) \in Nat
          /\ \A j \in 1..Len(Inbox(l)) :
                Inbox(l)'[j] = Inbox(l)[j] /\ Inbox(l)[j] \in Nat
          /\ Inbox(l)'[Len(Inbox(l)) + 1] = e
        <3> DEFINE P == 1..MaxIn
        <3>1. Inbox(l) \in Seq(P) /\ e \in P
            BY InboxType
        <3>2. \A j \in 1..Len(Inbox(l)) : Inbox(l)[j] \in Nat
            BY InboxType
        <3> HIDE DEF P
        <3>3. QED BY <2>4, <3>1, <3>2
    <2>7. ASSUME NEW j \in 1..Len(Inbox(l))
          PROVE  Inbox(l)[j] < e \/ (Inbox(l)[j] = e /\ opens[l] > 1)
        <3>1. Inbox(l)[j] <= e /\ Inbox(l)[j] \in Nat /\ e \in Nat
            BY <1>1, <2>3, InboxType DEF InputInvariant, InboxHasArrived
        <3>2. ASSUME Inbox(l)[j] = e PROVE opens[l] > 1
            <4>1. idx \in idx..Len(registered)
                BY <2>2
            <4>2. ~(opens[l] <= 1)
                BY <1>1, <2>1, <2>3, <3>2, <4>1 DEF InputInvariant, ServedIsBehind
            <4>3. QED BY <2>5, <4>2
        <3>3. QED BY <3>1, <3>2
    <2>8. InboxHasArrived'
        <3> SUFFICES ASSUME NEW m \in Layers, NEW j \in 1..Len(Inbox(m)')
                     PROVE  Inbox(m)'[j] <= arrived /\ Inbox(m)'[j] <= incoming
            BY <1>1, <1>4 DEF InboxHasArrived
        <3>1. CASE m # l
            BY <1>1, <2>4, <3>1 DEF InputInvariant, InboxHasArrived
        <3>2. CASE m = l /\ j \in 1..Len(Inbox(l))
            BY <1>1, <2>6, <3>2 DEF InputInvariant, InboxHasArrived
        <3>3. CASE m = l /\ j = Len(Inbox(l)) + 1
            BY <1>1, <2>3, <2>6, <3>3 DEF TypeOK
        <3>4. QED BY <2>6, <3>1, <3>2, <3>3
    <2>9. RegisteredByOpen'
        BY <1>1, <2>4, <2>5 DEF InputInvariant, RegisteredByOpen
    <2>10. ServedIsBehind'
        <3> SUFFICES ASSUME NEW m \in Layers, NEW j \in 1..Len(Inbox(m)'),
                            opens[m] <= 1, Inbox(m)'[j] = incoming,
                            NEW i \in (idx + 1)..Len(registered)
                     PROVE  registered[i] # m
            BY <1>1, <1>4 DEF ServedIsBehind
        <3>1. i \in idx..Len(registered) /\ i \in 1..Len(registered) /\ i # idx
            BY <2>2
        <3>2. CASE m # l
            BY <1>1, <2>4, <3>1, <3>2 DEF InputInvariant, ServedIsBehind
        <3>3. CASE m = l
            <4>1. opens[registered[idx]] = 1
                BY <2>1, <2>5, <3>3
            <4>2. QED
                BY <2>1, <2>2, <3>1, <3>3, <4>1 DEF InputInvariant, RegisteredByOpen
        <3>4. QED BY <3>2, <3>3
    <2>11. InboxInOrder'
        <3> SUFFICES ASSUME NEW m \in Layers, NEW j \in 1..Len(Inbox(m)')
                     PROVE  /\ Inbox(m)'[j] \in Interest[m]
                            /\ \A i \in 1..(j - 1) :
                                  \/ Inbox(m)'[i] < Inbox(m)'[j]
                                  \/ opens[m] > 1 /\ Inbox(m)'[i] = Inbox(m)'[j]
            BY <1>1 DEF InboxInOrder
        <3>1. CASE m # l
            BY <2>4, <3>1 DEF InputInvariant, InboxInOrder
        <3>2. CASE m = l /\ j \in 1..Len(Inbox(l))
            <4>1. /\ Inbox(l)'[j] = Inbox(l)[j]
                  /\ \A i \in 1..(j - 1) : Inbox(l)'[i] = Inbox(l)[i]
                BY <2>6, <3>2
            <4>2. QED BY <3>2, <4>1 DEF InputInvariant, InboxInOrder
        <3>3. CASE m = l /\ j = Len(Inbox(l)) + 1
            <4>1. Inbox(l)'[j] = e /\ \A i \in 1..(j - 1) : Inbox(l)'[i] = Inbox(l)[i]
                BY <2>6, <3>3
            <4>2. \A i \in 1..(j - 1) : i \in 1..Len(Inbox(l))
                BY <2>6, <3>3
            <4>3. QED BY <2>3, <2>7, <3>3, <4>1, <4>2
        <3>4. QED BY <2>6, <3>1, <3>2, <3>3
    <2>12. QED BY <2>8, <2>9, <2>10, <2>11 DEF InboxKeepsOrder
<1>5. QED BY <1>1, <1>2, <1>3, <1>4 DEF Deliver

\* A layer that opens the channel is appended to the list; if it had never
\* opened it, its inbox is empty, and if it had, it may be served twice.
LEMMA OrderOpens ==
    ASSUME TypeOK, InputInvariant, NEW l \in Layers, Opens(l) PROVE InboxKeepsOrder
<1>1. /\ \A m \in Layers : Inbox(m)' = Inbox(m)
      /\ UNCHANGED <<pc, incoming, idx, arrived>>
    BY SameInboxes DEF Opens
<1>2. /\ \A m \in Layers \ {l} : opens'[m] = opens[m]
      /\ opens'[l] = opens[l] + 1 /\ opens[l] \in Nat
      /\ \A m \in Layers : opens[m] \in Nat
    BY DEF Opens, TypeOK
<1>3. /\ registered \in Seq(Layers) /\ Len(registered) \in Nat
      /\ \A i \in 1..Len(registered) : registered[i] \in Layers
    <2>1. registered \in Seq(Layers)
        BY DEF TypeOK
    <2>2. QED BY <2>1, ElementType
<1>4. \/ registered' = registered
      \/ /\ Len(registered') = Len(registered) + 1
         /\ \A i \in 1..Len(registered) : registered'[i] = registered[i]
         /\ registered'[Len(registered) + 1] = l
    BY <1>3 DEF Opens
<1>5. \A i \in 1..Len(registered') :
         \/ i \in 1..Len(registered) /\ registered'[i] = registered[i]
         \/ i = Len(registered) + 1 /\ registered'[i] = l
    BY <1>3, <1>4
<1>6. InboxHasArrived' /\ InboxInOrder'
    <2>1. \A m \in Layers : opens[m] > 1 => opens'[m] > 1
        BY <1>2
    <2>2. InboxHasArrived'
        BY <1>1 DEF InputInvariant, InboxHasArrived
    <2>3. QED BY <1>1, <2>1, <2>2 DEF InputInvariant, InboxInOrder
<1>7. RegisteredByOpen'
    <2>1. \A m \in Layers : opens[m] > 0 => opens'[m] > 0
        BY <1>2
    <2>2. \A i \in 1..Len(registered') : opens'[registered'[i]] > 0
        BY <1>2, <1>3, <1>5, <2>1 DEF InputInvariant, RegisteredByOpen
    <2>3. \A m \in Layers : opens'[m] = 0 => Inbox(m)' = <<>>
        BY <1>1, <1>2 DEF InputInvariant, RegisteredByOpen
    <2>4. ASSUME NEW i \in 1..Len(registered'), NEW j \in 1..Len(registered'),
                 registered'[i] = registered'[j], opens'[registered'[i]] = 1
          PROVE  i = j
        <3>1. CASE registered'[i] = l
            <4>1. opens[l] = 0
                BY <1>2, <2>4, <3>1
            <4>2. \A k \in 1..Len(registered) : registered[k] # l
                BY <1>3, <4>1 DEF InputInvariant, RegisteredByOpen
            <4>3. QED BY <1>5, <2>4, <3>1, <4>2
        <3>2. CASE registered'[i] # l
            <4>1. /\ i \in 1..Len(registered) /\ registered'[i] = registered[i]
                  /\ j \in 1..Len(registered) /\ registered'[j] = registered[j]
                BY <1>5, <2>4, <3>2
            <4>2. opens[registered[i]] = 1
                BY <1>2, <1>3, <2>4, <3>2, <4>1
            <4>3. QED BY <2>4, <4>1, <4>2 DEF InputInvariant, RegisteredByOpen
        <3>3. QED BY <3>1, <3>2
    <2>5. QED BY <2>2, <2>3, <2>4 DEF RegisteredByOpen
<1>8. ServedIsBehind'
    <2> SUFFICES ASSUME pc = "deliver", NEW m \in Layers,
                        NEW j \in 1..Len(Inbox(m)), opens'[m] <= 1,
                        Inbox(m)[j] = incoming, NEW i \in idx..Len(registered')
                 PROVE  registered'[i] # m
        BY <1>1 DEF ServedIsBehind
    <2>1. CASE m = l
        <3>1. opens[l] = 0
            BY <1>2, <2>1
        <3>2. Inbox(l) = <<>>
            BY <3>1 DEF InputInvariant, RegisteredByOpen
        <3>3. QED BY <2>1, <3>2
    <2>2. CASE m # l
        <3>1. i \in 1..Len(registered')
            BY <1>3, <1>4 DEF TypeOK
        <3>2. CASE i \in 1..Len(registered) /\ registered'[i] = registered[i]
            <4>1. i \in idx..Len(registered)
                <5>1. idx \in Nat
                    BY DEF TypeOK
                <5>2. QED BY <1>3, <3>2, <5>1
            <4>2. \A k \in idx..Len(registered) : registered[k] # m
                <5>1. opens[m] <= 1
                    BY <1>2, <2>2
                <5>2. QED BY <5>1 DEF InputInvariant, ServedIsBehind
            <4>3. QED BY <3>2, <4>1, <4>2
        <3>3. QED BY <1>5, <2>2, <3>1, <3>2
    <2>3. QED BY <2>1, <2>2
<1>9. QED BY <1>6, <1>7, <1>8 DEF InboxKeepsOrder

\* A layer that leaves moves the ones after it one place towards the front,
\* the iterator not: what was ahead of it may fall behind, never the reverse.
LEMMA OrderLeaves ==
    ASSUME TypeOK, InputInvariant, NEW l \in Layers, Leaves(l) PROVE InboxKeepsOrder
<1>1. /\ \A m \in Layers : Inbox(m)' = Inbox(m)
      /\ UNCHANGED <<pc, incoming, idx, arrived, opens>>
    BY SameInboxes DEF Leaves
<1>2. InboxHasArrived' /\ InboxInOrder'
    BY <1>1 DEF InputInvariant, InboxHasArrived, InboxInOrder
<1>3. CASE registered' = registered
    BY <1>1, <1>2, <1>3
    DEF InputInvariant, RegisteredByOpen, ServedIsBehind, InboxKeepsOrder
<1>4. ASSUME NEW r \in 1..Len(registered), registered' = RemoveAt(registered, r)
      PROVE  InboxKeepsOrder
    <2>1. \A k \in 1..Len(registered') :
             \/ k < r /\ k \in 1..Len(registered) /\ registered'[k] = registered[k]
             \/ /\ k >= r /\ k + 1 \in 1..Len(registered)
                /\ registered'[k] = registered[k + 1]
        BY <1>4, AfterRemoval
    <2>2. RegisteredByOpen'
        <3>1. \A i \in 1..Len(registered') : opens[registered'[i]] > 0
            BY <2>1 DEF InputInvariant, RegisteredByOpen
        <3>2. ASSUME NEW i \in 1..Len(registered'), NEW j \in 1..Len(registered'),
                     registered'[i] = registered'[j], opens[registered'[i]] = 1
              PROVE  i = j
            BY <2>1, <3>2 DEF InputInvariant, RegisteredByOpen
        <3>3. \A m \in Layers : opens[m] = 0 => Inbox(m)' = <<>>
            BY <1>1 DEF InputInvariant, RegisteredByOpen
        <3>4. QED BY <1>1, <3>1, <3>2, <3>3 DEF RegisteredByOpen
    <2>3. ServedIsBehind'
        <3> SUFFICES ASSUME pc = "deliver", NEW m \in Layers,
                            NEW j \in 1..Len(Inbox(m)), opens[m] <= 1,
                            Inbox(m)[j] = incoming, NEW i \in idx..Len(registered')
                     PROVE  registered'[i] # m
            BY <1>1 DEF ServedIsBehind
        <3>1. i \in 1..Len(registered') /\ idx \in Nat
            BY DEF TypeOK
        <3>2. \A k \in idx..Len(registered) : registered[k] # m
            BY DEF InputInvariant, ServedIsBehind
        <3>3. CASE i \in 1..Len(registered) /\ registered'[i] = registered[i]
            BY <3>1, <3>2, <3>3
        <3>4. CASE i + 1 \in 1..Len(registered) /\ registered'[i] = registered[i + 1]
            BY <3>1, <3>2, <3>4
        <3>5. QED BY <2>1, <3>1, <3>3, <3>4
    <2>4. QED BY <1>2, <2>2, <2>3 DEF InboxKeepsOrder
<1>5. QED BY <1>3, <1>4 DEF Leaves, Unregister

-----------------------------------------------------------------------------
(* The delivery of one packet. *)

LEMMA DispatchStep ==
    ASSUME TypeOK, DispatchReachesAll, [Next]_vars
    PROVE  DispatchReachesAll'
<1>1. CASE Steady
    BY <1>1 DEF Steady, DispatchReachesAll
<1>2. CASE Receives
    <2>1. /\ pc' = "deliver" /\ idx' = 1 /\ registered' = registered
          /\ owed' \subseteq ToSet(registered)
        BY <1>2 DEF Receives
    <2>2. DOMAIN registered = 1..Len(registered)
        BY DEF TypeOK
    <2>3. QED BY <2>1, <2>2 DEF DispatchReachesAll, ToSet
<1>3. CASE Deliver
    <2>1. pc = "deliver" /\ UNCHANGED <<registered, shifted>>
        BY <1>3 DEF Deliver
    <2> SUFFICES ASSUME ~shifted
                 PROVE  \/ pc' # "deliver" /\ owed' = {}
                        \/ /\ pc' = "deliver"
                           /\ \A l \in owed' : \E i \in idx'..Len(registered) :
                                 registered[i] = l
        BY <2>1 DEF DispatchReachesAll
    <2>2. /\ \A l \in owed : \E i \in idx..Len(registered) : registered[i] = l
          /\ idx \in Nat /\ Len(registered) \in Nat
        BY <2>1 DEF DispatchReachesAll, TypeOK
    <2>3. CASE idx <= Len(registered)
        <3>1. pc' = "deliver" /\ idx' = idx + 1 /\ owed' = owed \ {registered[idx]}
            BY <1>3, <2>1, <2>3 DEF Deliver
        <3>2. ASSUME NEW l \in owed'
              PROVE  \E i \in idx'..Len(registered) : registered[i] = l
            <4>1. PICK i \in idx..Len(registered) : registered[i] = l
                BY <2>2, <3>1
            <4>2. i # idx
                BY <3>1, <4>1
            <4>3. i \in idx'..Len(registered)
                BY <2>2, <3>1, <4>2
            <4>4. QED BY <4>1, <4>3
        <3>3. QED BY <3>1, <3>2
    <2>4. CASE ~(idx <= Len(registered))
        <3>1. pc' = "loop" /\ owed' = owed
            BY <1>3, <2>4 DEF Deliver
        <3>2. owed = {}
            BY <2>2, <2>4
        <3>3. QED BY <3>1, <3>2
    <2>5. QED BY <2>3, <2>4
<1>4. ASSUME NEW l \in Layers, Opens(l) PROVE DispatchReachesAll'
    <2>1. UNCHANGED <<pc, idx, owed, shifted>>
        BY <1>4 DEF Opens
    <2>2. /\ idx \in Nat \ {0} /\ registered \in Seq(Layers)
          /\ Len(registered) \in Nat
        BY DEF TypeOK
    <2>3. \A i \in idx..Len(registered) :
             i \in idx..Len(registered') /\ registered'[i] = registered[i]
        <3>1. CASE registered' = registered
            BY <3>1
        <3>2. CASE registered' = Append(registered, l)
            BY <2>2, <3>2
        <3>3. QED BY <1>4, <3>1, <3>2 DEF Opens
    <2>4. QED BY <2>1, <2>3 DEF DispatchReachesAll
<1>5. ASSUME NEW l \in Layers, Leaves(l) PROVE DispatchReachesAll'
    <2>1. UNCHANGED <<pc, idx>> /\ Unregister(l)
        BY <1>5 DEF Leaves
    <2>2. CASE UNCHANGED <<registered, shifted>>
        <3>1. owed' \subseteq owed
            BY <2>1 DEF Unregister
        <3>2. QED BY <2>1, <2>2, <3>1 DEF DispatchReachesAll
    <2>3. ASSUME NEW r \in 1..Len(registered), FirstAt(r, l),
                 registered' = RemoveAt(registered, r),
                 shifted' = (shifted \/ (pc = "deliver" /\ r < idx))
          PROVE  DispatchReachesAll'
        <3> SUFFICES ASSUME ~shifted'
                     PROVE  \/ pc # "deliver" /\ owed' = {}
                            \/ /\ pc = "deliver"
                               /\ \A m \in owed' : \E i \in idx..Len(registered') :
                                     registered'[i] = m
            BY <2>1 DEF DispatchReachesAll
        <3>1. ~shifted /\ (pc = "deliver" => ~(r < idx))
            BY <2>3
        <3>2. owed' = IF l \in ToSet(registered') THEN owed ELSE owed \ {l}
            BY <2>1, <2>3 DEF Unregister
        <3>3. CASE pc # "deliver"
            BY <3>1, <3>2, <3>3 DEF DispatchReachesAll
        <3>4. CASE pc = "deliver"
            <4>1. /\ registered \in Seq(Layers) /\ Len(registered) \in Nat
                  /\ idx \in Nat \ {0} /\ r \in Nat /\ r >= idx
                BY <3>1, <3>4 DEF TypeOK
            <4>2. /\ Len(registered') = Len(registered) - 1
                  /\ \A k \in 1..(Len(registered) - 1) :
                        registered'[k] = IF k < r THEN registered[k]
                                                  ELSE registered[k + 1]
                BY <2>3, <4>1, RemoveAtElements
            <4>3. ASSUME NEW m \in owed'
                  PROVE  \E i \in idx..Len(registered') : registered'[i] = m
                <5>1. PICK i \in idx..Len(registered) : registered[i] = m
                    BY <3>1, <3>2, <3>4 DEF DispatchReachesAll
                <5>2. CASE i < r
                    BY <4>1, <4>2, <5>1, <5>2
                <5>3. CASE i > r
                    <6>1. i - 1 \in idx..Len(registered') /\ registered'[i - 1] = m
                        BY <4>1, <4>2, <5>1, <5>3
                    <6>2. QED BY <6>1
                <5>4. CASE i = r
                    <6>1. m = l
                        BY <2>3, <5>1, <5>4 DEF FirstAt
                    <6>2. l \in ToSet(registered')
                        BY <3>2, <6>1
                    <6>3. PICK k \in 1..Len(registered') : registered'[k] = l
                        <7>1. registered' \in Seq(Layers)
                            BY <2>3, <4>1, RemoveAtType
                        <7>2. DOMAIN registered' = 1..Len(registered')
                            BY <7>1
                        <7>3. QED BY <6>2, <7>2 DEF ToSet
                    <6>4. k >= r
                        BY <2>3, <4>1, <4>2, <6>3 DEF FirstAt
                    <6>5. k \in idx..Len(registered')
                        BY <4>1, <4>2, <6>4
                    <6>6. QED BY <6>1, <6>3, <6>5
                <5>5. QED BY <4>1, <5>2, <5>3, <5>4
            <4>4. QED BY <3>4, <4>3
        <3>5. QED BY <3>3, <3>4
    <2>4. QED BY <2>1, <2>2, <2>3 DEF Unregister
<1>6. QED BY <1>1, <1>2, <1>3, <1>4, <1>5, InputSteps

-----------------------------------------------------------------------------
(* The theorems. *)

LEMMA InitiallyInput == Init => InputInvariant /\ DispatchReachesAll
<1> SUFFICES ASSUME Init PROVE InputInvariant /\ DispatchReachesAll
    OBVIOUS
<1>1. \A l \in Layers : Inbox(l) = <<>>
    BY DEF Init, Inbox
<1>2. registered = <<>> /\ pc = "new" /\ owed = {}
    BY DEF Init
<1>3. InboxHasArrived /\ InboxInOrder
    BY <1>1 DEF InboxHasArrived, InboxInOrder
<1>4. RegisteredByOpen /\ ServedIsBehind /\ IncomingArrived
    BY <1>1, <1>2 DEF RegisteredByOpen, ServedIsBehind, IncomingArrived
<1>5. DispatchReachesAll
    BY <1>2 DEF DispatchReachesAll
<1>6. QED BY <1>3, <1>4, <1>5 DEF InputInvariant

LEMMA InputInvariantStep ==
    ASSUME TypeOK, TypeOK', InputInvariant, [Next]_vars PROVE InputInvariant'
<1>1. IncomingArrived'
    BY IncomingArrivedStep DEF InputInvariant
<1>2. InboxKeepsOrder
    BY InputSteps, OrderSteady, OrderReceives, OrderDeliver, OrderOpens, OrderLeaves
    DEF InputInvariant
<1>3. QED BY <1>1, <1>2 DEF InputInvariant, InboxKeepsOrder

\* The inductive invariant of the input path.
THEOREM InputPathInvariant == Spec => []InputInvariant
<1>1. QED
    BY TypeCorrect, InitiallyInput, InputInvariantStep, PTL DEF Spec

\* Every layer gets packets its callback accepts, in the order of arrival,
\* and none twice unless it opened the channel twice (process_incoming_data).
THEOREM InboxesAreInOrder == Spec => []InboxInOrder
<1>1. InputInvariant => InboxInOrder
    BY DEF InputInvariant
<1>2. QED BY <1>1, InputPathInvariant, PTL

\* No registered and interested layer is passed over by the iterator, as long
\* as no layer that was already served leaves the list meanwhile.
THEOREM DispatchIsComplete == Spec => []DispatchReachesAll
<1>1. TypeOK /\ DispatchReachesAll /\ [Next]_vars => DispatchReachesAll'
    BY DispatchStep
<1>2. Init => DispatchReachesAll
    BY InitiallyInput
<1>3. QED
    BY <1>1, <1>2, TypeCorrect, PTL DEF Spec

-----------------------------------------------------------------------------
(***************************************************************************)
(* The output path implements OutputQueue.  The steps of the channel map   *)
(* to the abstract ones as follows:                                        *)
(*     the test of the mode by write()   Call                              *)
(*     the put of a write()              Enqueue                           *)
(*     writePacket by the thread         Settle, or a stutter if it dies   *)
(*     the return of join()              Return                            *)
(*     writePacket by the actor          WriteThrough, or a stutter        *)
(*     every other step                  a stutter                         *)
(* Enqueue and WriteThrough need a packet that has neither been queued nor *)
(* given, although any number of steps, the switch to threaded mode among  *)
(* them, lie between the test and the effect: the two parts of             *)
(* QueueInvariant that the invariant of the output path does not have.     *)
(***************************************************************************)

\* The packets of a layer are numbered by its calls of write().
NumberedByCalls == \A p \in SettledPackets : p[2] <= attempts[p[1]]

\* A write() between its test and its effect has given the socket nothing.
BegunIsNotGiven ==
    \A l \in Layers :
        task[l] \in {"putting", "writing"} => <<l, attempts[l]>> \notin SettledPackets

QueueInvariant == OutputInvariant /\ NumberedByCalls /\ BegunIsNotGiven

-----------------------------------------------------------------------------
(* Sequences of packets. *)

LEMMA GivenType ==
    ASSUME TypeOK
    PROVE  /\ Given \in Seq(Packet) /\ Len(Given) = Len(settled)
           /\ Len(settled) \in Nat /\ ToSet(Given) = SettledPackets
<1>1. /\ settled \in Seq([packet : Packet, sent : BOOLEAN])
      /\ Len(settled) \in Nat
      /\ \A i \in 1..Len(settled) : settled[i] \in [packet : Packet, sent : BOOLEAN]
    <2>1. settled \in Seq([packet : Packet, sent : BOOLEAN])
        BY DEF TypeOK
    <2>2. Len(settled) \in Nat
        BY <2>1
    <2>3. QED BY <2>1, <2>2, ElementType
<1>2. \A i \in 1..Len(settled) : settled[i].packet \in Packet
    BY <1>1
<1>3. Given \in [1..Len(settled) -> Packet] /\ Len(settled) \in Nat
    BY <1>1, <1>2 DEF Given
<1>4. Given \in Seq(Packet) /\ Len(Given) = Len(settled)
    BY <1>1, <1>3 DEF Given
<1>5. ToSet(Given) = SettledPackets
    BY DEF Given, ToSet, SettledPackets
<1>6. QED BY <1>1, <1>4, <1>5

LEMMA PendingType == ASSUME TypeOK PROVE Pending \in Seq(Packet)
    BY DEF TypeOK, Pending

\* Handing a packet to the socket adds it to the packets given.
LEMMA GivenGrows ==
    ASSUME TypeOK, NEW p \in Packet, NEW b \in BOOLEAN,
           settled' = Append(settled, Outcome(p, b))
    PROVE  /\ Given' = Append(Given, p)
           /\ Len(settled') = Len(settled) + 1
<1>1. /\ Len(settled') = Len(settled) + 1 /\ Len(settled) \in Nat
      /\ \A i \in 1..Len(settled) : settled'[i] = settled[i]
      /\ settled'[Len(settled) + 1] = Outcome(p, b)
    <2>1. settled \in Seq([packet : Packet, sent : BOOLEAN])
        BY DEF TypeOK
    <2>2. QED BY <2>1
<1>2. Given \in Seq(Packet) /\ Len(Given) = Len(settled)
    BY GivenType
<1>3. /\ Len(Given') = Len(settled) + 1
      /\ \A i \in 1..(Len(settled) + 1) : Given'[i] = settled'[i].packet
    BY <1>1 DEF Given
<1>4. /\ Append(Given, p) \in Seq(Packet)
      /\ Len(Append(Given, p)) = Len(settled) + 1
      /\ \A i \in 1..Len(settled) : Append(Given, p)[i] = Given[i]
      /\ Append(Given, p)[Len(settled) + 1] = p
    BY <1>1, <1>2
<1>5. ASSUME NEW i \in 1..(Len(settled) + 1)
      PROVE  Given'[i] = Append(Given, p)[i]
    <2>1. CASE i = Len(settled) + 1
        BY <1>1, <1>3, <1>4, <2>1 DEF Outcome
    <2>2. CASE i # Len(settled) + 1
        <3>1. i \in 1..Len(settled)
            BY <1>1, <2>2
        <3>2. Given[i] = settled[i].packet
            BY <3>1 DEF Given
        <3>3. QED BY <1>1, <1>3, <1>4, <3>1, <3>2
    <2>3. QED BY <2>1, <2>2
<1>6. Given' \in Seq(Packet)
    <2>1. \A i \in 1..(Len(settled) + 1) : Given'[i] \in Packet
        BY <1>4, <1>5, ElementType
    <2>2. Given' \in [1..(Len(settled) + 1) -> Packet]
        BY <1>1, <2>1 DEF Given
    <2>3. QED BY <1>1, <2>2
<1>7. Given' = Append(Given, p)
    BY <1>3, <1>4, <1>5, <1>6, SeqEqual
<1>8. QED BY <1>1, <1>7

-----------------------------------------------------------------------------
(* The strengthened invariant. *)

LEMMA InitiallyQueueInvariant == Init => QueueInvariant
<1> SUFFICES ASSUME Init PROVE QueueInvariant
    OBVIOUS
<1>1. SettledPackets = {}
    BY DEF Init, SettledPackets
<1>2. QED
    BY <1>1, InitiallyOutputInvariant
    DEF Init, QueueInvariant, NumberedByCalls, BegunIsNotGiven

\* The packet in the hand of the thread is the one its actor waits for.
LEMMA InHandIsWaitedFor ==
    ASSUME OutputInvariant, pc = "writing"
    PROVE  /\ outgoing \in Packet /\ outgoing # NoPacket
           /\ outgoing[1] \in Layers /\ outgoing[2] = attempts[outgoing[1]]
           /\ task[outgoing[1]] = "joining"
<1>1. outgoing \in Packet /\ outgoing # NoPacket /\ TypeOK
    BY DEF OutputInvariant, InHand, TypeOK
<1>2. Outstanding = <<outgoing>> \o queueOutput /\ queueOutput \in Seq(Packet)
    BY <1>1 DEF Outstanding, TypeOK
<1>3. 1 \in 1..Len(Outstanding) /\ Outstanding[1] = outgoing
    BY <1>1, <1>2
<1>4. outgoing[1] \in Layers
    BY <1>1 DEF Packet
<1>5. QED
    BY <1>1, <1>3, <1>4 DEF OutputInvariant, UnfinishedExact, WaitedFor

\* What a step may hand to the socket.
GivesNothing == UNCHANGED <<attempts, settled>>
                /\ \A l \in Layers : task'[l] \in {"putting", "writing"} => task'[l] = task[l]

LEMMA GivingSteps ==
    ASSUME QueueInvariant, [Next]_vars
    PROVE  \/ GivesNothing \/ WritePacket
           \/ \E l \in Layers : Write(l) \/ WriteDirect(l)
<1>1. CASE ChannelThread
    BY <1>1 DEF ChannelThread, EnterThreadedMode, OpenInThread, TestStopEvent,
       TakeOutgoing, TaskDone, CheckIncomingData, Deliver, layerVars, historyVars,
       GivesNothing
<1>2. CASE Application
    BY <1>2, QuietApplication DEF Quiet, GivesNothing
<1>3. ASSUME NEW l \in Layers, ActorThread(l)
      PROVE  GivesNothing \/ Write(l) \/ WriteDirect(l)
    <2>1. TypeOK
        BY DEF QueueInvariant, OutputInvariant
    <2>2. CASE Put(l) \/ WriteReturn(l)
        BY <2>1, <2>2 DEF Put, WriteReturn, GivesNothing, historyVars, TypeOK
    <2>3. CASE Quiet
        BY <2>3 DEF Quiet, GivesNothing
    <2>4. QED BY <1>3, <2>1, <2>2, <2>3, QuietActor DEF ActorThread
<1>4. CASE UNCHANGED vars
    BY <1>4 DEF vars, layerVars, historyVars, GivesNothing
<1>5. QED BY <1>1, <1>2, <1>3, <1>4 DEF Next

\* A packet is numbered by the call that wrote it, a new call takes the next
\* number, and its packet reaches the socket only when the call is over.
LEMMA NumberedStep ==
    ASSUME QueueInvariant, [Next]_vars
    PROVE  NumberedByCalls' /\ BegunIsNotGiven'
<1>1. /\ OutputInvariant /\ TypeOK /\ NumberedByCalls /\ BegunIsNotGiven
      /\ SettledPackets \subseteq Packet
    <2>1. OutputInvariant /\ TypeOK /\ NumberedByCalls /\ BegunIsNotGiven
        BY DEF QueueInvariant, OutputInvariant
    <2>2. ToSet(Given) = SettledPackets /\ Given \in Seq(Packet)
        BY <2>1, GivenType
    <2>3. QED BY <2>1, <2>2 DEF ToSet
<1>2. \A l \in Layers : attempts[l] \in Int
    BY <1>1 DEF TypeOK
<1>3. CASE GivesNothing
    <2>1. SettledPackets' = SettledPackets /\ UNCHANGED attempts
        BY <1>3 DEF GivesNothing, SettledPackets
    <2>2. QED
        BY <1>1, <1>3, <2>1 DEF GivesNothing, NumberedByCalls, BegunIsNotGiven
<1>4. CASE WritePacket
    <2>1. /\ outgoing \in Packet /\ outgoing[1] \in Layers
          /\ outgoing[2] = attempts[outgoing[1]] /\ task[outgoing[1]] = "joining"
          /\ UNCHANGED <<attempts, task>>
        BY <1>1, <1>4, InHandIsWaitedFor DEF WritePacket, layerVars
    <2>2. SettledPackets' \subseteq SettledPackets \cup {outgoing}
        <3>1. CASE \E b \in BOOLEAN : settled' = Append(settled, Outcome(outgoing, b))
            BY <1>1, <2>1, <3>1, SettledGrows
        <3>2. CASE UNCHANGED settled
            BY <3>2 DEF SettledPackets
        <3>3. QED BY <1>4, <3>1, <3>2 DEF WritePacket
    <2>3. NumberedByCalls'
        BY <1>1, <1>2, <2>1, <2>2 DEF NumberedByCalls
    <2>4. BegunIsNotGiven'
        <3> SUFFICES ASSUME NEW l \in Layers, task[l] \in {"putting", "writing"}
                     PROVE  <<l, attempts[l]>> \notin SettledPackets'
            BY <2>1 DEF BegunIsNotGiven
        <3>1. l # outgoing[1]
            BY <2>1
        <3>2. <<l, attempts[l]>> # outgoing
            BY <3>1
        <3>3. QED BY <1>1, <2>2, <3>2 DEF BegunIsNotGiven
    <2>5. QED BY <2>3, <2>4
<1>5. ASSUME NEW l \in Layers, Write(l) PROVE NumberedByCalls' /\ BegunIsNotGiven'
    <2>1. /\ UNCHANGED settled
          /\ attempts'[l] = attempts[l] + 1
          /\ \A m \in Layers \ {l} : attempts'[m] = attempts[m] /\ task'[m] = task[m]
        BY <1>1, <1>5 DEF Write, TypeOK, historyVars
    <2>2. SettledPackets' = SettledPackets
        BY <2>1 DEF SettledPackets
    <2>3. ASSUME NEW p \in SettledPackets PROVE p[2] <= attempts'[p[1]]
        <3>1. /\ p[1] \in Layers /\ p[2] \in Int /\ p[2] <= attempts[p[1]]
              /\ attempts[p[1]] \in Int
            BY <1>1, <1>2, ChannelAssumption DEF NumberedByCalls, Packet, ChannelAssumption
        <3>2. attempts'[p[1]] = attempts[p[1]] \/ attempts'[p[1]] = attempts[p[1]] + 1
            BY <2>1, <3>1
        <3>3. QED BY <3>1, <3>2
    <2>4. <<l, attempts'[l]>> \notin SettledPackets
        <3>1. ~(attempts'[l] <= attempts[l])
            BY <1>2, <2>1
        <3>2. QED BY <1>1, <3>1 DEF NumberedByCalls
    <2>5. BegunIsNotGiven'
        <3> SUFFICES ASSUME NEW m \in Layers, task'[m] \in {"putting", "writing"}
                     PROVE  <<m, attempts'[m]>> \notin SettledPackets
            BY <2>2 DEF BegunIsNotGiven
        <3>1. CASE m = l
            BY <2>4, <3>1
        <3>2. CASE m # l
            BY <1>1, <2>1, <3>2 DEF BegunIsNotGiven
        <3>3. QED BY <3>1, <3>2
    <2>6. QED BY <2>2, <2>3, <2>5 DEF NumberedByCalls
<1>6. ASSUME NEW l \in Layers, WriteDirect(l) PROVE NumberedByCalls' /\ BegunIsNotGiven'
    <2>1. /\ <<l, attempts[l]>> \in Packet /\ UNCHANGED attempts
          /\ \A m \in Layers \ {l} : task'[m] = task[m]
          /\ task'[l] \notin {"putting", "writing"}
        BY <1>1, <1>6, BegunType DEF WriteDirect, SelfStop, TypeOK
    <2>2. SettledPackets' \subseteq SettledPackets \cup {<<l, attempts[l]>>}
        <3>1. CASE settled' = Append(settled, Outcome(<<l, attempts[l]>>, TRUE))
            BY <1>1, <2>1, <3>1, SettledGrows
        <3>2. CASE UNCHANGED settled
            BY <3>2 DEF SettledPackets
        <3>3. QED BY <1>6, <3>1, <3>2 DEF WriteDirect
    <2>3. NumberedByCalls'
        BY <1>1, <1>2, <2>1, <2>2 DEF NumberedByCalls
    <2>4. BegunIsNotGiven'
        <3> SUFFICES ASSUME NEW m \in Layers, task'[m] \in {"putting", "writing"}
                     PROVE  <<m, attempts[m]>> \notin SettledPackets'
            BY <2>1 DEF BegunIsNotGiven
        <3>1. m # l
            BY <2>1
        <3>2. <<m, attempts[m]>> # <<l, attempts[l]>>
            BY <3>1
        <3>3. QED BY <1>1, <2>1, <2>2, <3>1, <3>2 DEF BegunIsNotGiven
    <2>5. QED BY <2>3, <2>4
<1>7. QED BY <1>3, <1>4, <1>5, <1>6, GivingSteps

LEMMA QueueInvariantHolds == Spec => []QueueInvariant
<1>1. QueueInvariant /\ [Next]_vars => QueueInvariant'
    BY OutputInvariantStep, NumberedStep DEF QueueInvariant
<1>2. QED BY <1>1, InitiallyQueueInvariant, PTL DEF Spec

-----------------------------------------------------------------------------
(* Every step of the channel is a step of the abstract queue, or a stutter. *)

Abstract == [AbstractQueue!Next]_(AbstractQueue!vars)

\* The set of a sequence is the one of the abstract queue.
LEMMA AbstractSet == \A s : AbstractQueue!ToSet(s) = ToSet(s)
    BY DEF AbstractQueue!ToSet, ToSet

LEMMA AbstractOperations ==
    ASSUME NEW p \in Packet,
           \/ AbstractQueue!Call(p) \/ AbstractQueue!Enqueue(p)
           \/ AbstractQueue!Return(p) \/ AbstractQueue!WriteThrough(p)
    PROVE  Abstract
<1>1. AbstractQueue!Next
    BY DEF AbstractQueue!Next
<1>2. QED BY <1>1 DEF Abstract

\* The steps that touch neither the queue nor the histories are stutters.
LEMMA StutterStep ==
    ASSUME Pending' = Pending, UNCHANGED <<settled, returned, attempts>>
    PROVE  Abstract
<1>1. Given' = Given /\ Calls' = Calls
    BY DEF Given, Calls
<1>2. QED
    BY <1>1 DEF Abstract, AbstractQueue!vars

LEMMA QuietIsStutter == ASSUME Quiet PROVE Abstract
<1>1. Pending' = Pending /\ UNCHANGED <<settled, returned, attempts>>
    BY DEF Quiet, Pending
<1>2. QED BY <1>1, StutterStep

\* process_data_to_send moves the oldest packet from the queue to its hands.
LEMMA TakeIsStutter ==
    ASSUME QueueInvariant, TakeOutgoing PROVE Abstract
<1>1. TypeOK /\ outgoing = NoPacket /\ UNCHANGED <<settled, returned, attempts>>
    BY DEF QueueInvariant, OutputInvariant, InHand, TakeOutgoing, historyVars, layerVars
<1>2. Pending = queueOutput
    BY <1>1 DEF Pending, TypeOK
<1>3. Pending' = queueOutput
    <2>1. CASE queueOutput = <<>>
        BY <1>1, <2>1 DEF TakeOutgoing, Pending
    <2>2. CASE queueOutput # <<>>
        <3>1. Head(queueOutput) \in Packet /\ queueOutput \in Seq(Packet)
            BY <1>1, <2>2, HeadTailType DEF TypeOK
        <3>2. outgoing' # NoPacket /\ pc' = "writing"
            BY <2>2, <3>1, ChannelAssumption
            DEF TakeOutgoing, ChannelAssumption, Packet
        <3>3. Pending' = <<Head(queueOutput)>> \o Tail(queueOutput)
            BY <2>2, <3>2 DEF TakeOutgoing, Pending
        <3>4. QED BY <2>2, <3>1, <3>3
    <2>3. QED BY <2>1, <2>2
<1>4. QED BY <1>1, <1>2, <1>3, StutterStep

\* task_done() concerns a packet that was settled before.
LEMMA TaskDoneIsStutter ==
    ASSUME QueueInvariant, TaskDone PROVE Abstract
<1>1. Pending' = Pending /\ UNCHANGED <<settled, returned, attempts>>
    BY DEF TaskDone, Pending, historyVars, layerVars
<1>2. QED BY <1>1, StutterStep

\* The socket sends or refuses the oldest packet that waits, or the thread
\* dies with it in its hands.
LEMMA WritePacketSettles ==
    ASSUME QueueInvariant, WritePacket PROVE Abstract
<1>1. /\ TypeOK /\ outgoing \in Packet /\ outgoing # NoPacket
      /\ queueOutput \in Seq(Packet) /\ pc = "writing"
      /\ UNCHANGED <<outgoing, queueOutput, returned, attempts>>
    BY DEF QueueInvariant, OutputInvariant, InHand, TypeOK, WritePacket, queueVars,
           layerVars
<1>2. Pending = <<outgoing>> \o queueOutput
    BY <1>1 DEF Pending
<1>3. CASE pc' = "dead" /\ UNCHANGED settled
    <2>1. Pending' = Pending
        BY <1>1, <1>2, <1>3 DEF Pending
    <2>2. QED BY <1>1, <1>3, <2>1, StutterStep
<1>4. CASE pc' = "taskdone"
           /\ \E b \in BOOLEAN : settled' = Append(settled, Outcome(outgoing, b))
    <2>1. Given' = Append(Given, outgoing)
        BY <1>1, <1>4, GivenGrows
    <2>2. Pending' = queueOutput
        BY <1>1, <1>4 DEF Pending
    <2>3. Pending # <<>> /\ Head(Pending) = outgoing /\ Tail(Pending) = queueOutput
        BY <1>1, <1>2
    <2>4. Calls' = Calls
        BY <1>1 DEF Calls
    <2>5. AbstractQueue!Settle
        BY <1>1, <2>1, <2>2, <2>3, <2>4 DEF AbstractQueue!Settle
    <2>6. QED BY <2>5 DEF Abstract, AbstractQueue!Next
<1>5. QED BY <1>3, <1>4 DEF WritePacket

\* The call of a write() adds its packet to the calls.
LEMMA WriteCalls ==
    ASSUME QueueInvariant, NEW l \in Layers, Write(l) PROVE Abstract
<1>1. /\ TypeOK /\ MaxWrites \in Nat /\ attempts[l] \in Nat /\ attempts[l] < MaxWrites
      /\ attempts' = [attempts EXCEPT ![l] = @ + 1] /\ attempts \in [Layers -> 0..MaxWrites]
      /\ UNCHANGED <<pc, outgoing, queueOutput, settled, returned>>
    BY ChannelAssumption
    DEF QueueInvariant, OutputInvariant, Write, ChannelAssumption, TypeOK,
        queueVars, threadVars, historyVars
<1>2. PICK p \in Packet : p = <<l, attempts[l] + 1>>
    <2>1. <<l, attempts[l] + 1>> \in Packet
        BY <1>1 DEF Packet
    <2>2. QED BY <2>1, Zenon
<1>3. Calls' = Calls \cup {p}
    <2>1. ASSUME NEW q \in Packet
          PROVE  q[2] <= attempts'[q[1]] <=> q[2] <= attempts[q[1]] \/ q = p
        <3>1. q[1] \in Layers /\ q[2] \in Nat /\ q = <<q[1], q[2]>>
            BY <1>1 DEF Packet
        <3>2. CASE q[1] = l
            <4>1. attempts'[q[1]] = attempts[l] + 1
                BY <1>1, <3>2
            <4>2. q = p <=> q[2] = attempts[l] + 1
                BY <1>2, <3>1, <3>2
            <4>3. QED BY <1>1, <3>1, <3>2, <4>1, <4>2
        <3>3. CASE q[1] # l
            <4>1. attempts'[q[1]] = attempts[q[1]] /\ q # p
                BY <1>1, <1>2, <3>1, <3>3
            <4>2. QED BY <4>1
        <3>4. QED BY <3>2, <3>3
    <2>2. QED BY <2>1 DEF Calls
<1>4. p \notin Calls
    BY <1>1, <1>2 DEF Calls
<1>5. Pending' = Pending /\ Given' = Given
    BY <1>1 DEF Pending, Given, Write, threadVars
<1>6. AbstractQueue!Call(p)
    BY <1>1, <1>3, <1>4, <1>5 DEF AbstractQueue!Call
<1>7. QED BY <1>6, AbstractOperations

\* Between its test of the mode and its effect a write() is called and
\* nothing more.
LEMMA BegunIsCalled ==
    ASSUME QueueInvariant, NEW l \in Layers, task[l] \in {"putting", "writing"}
    PROVE  <<l, attempts[l]>> \in Packet /\ AbstractQueue!Called(<<l, attempts[l]>>)
<1> DEFINE p == <<l, attempts[l]>>
<1>0. TypeOK /\ p \in Packet
    BY BegunType DEF QueueInvariant
<1>1. TypeOK /\ p \in Packet /\ attempts[l] \in Nat
    BY <1>0, ChannelAssumption DEF TypeOK, ChannelAssumption
<1>2. p \in Calls
    BY <1>1 DEF Calls
<1>3. p \notin ToSet(Given)
    BY <1>1, GivenType DEF QueueInvariant, BegunIsNotGiven
<1>4. p \notin ToSet(Pending)
    <2> SUFFICES ASSUME NEW q \in ToSet(Pending) PROVE q[1] # l
        OBVIOUS
    <2>1. Pending \in Seq(Packet) /\ Outstanding \in Seq(Packet)
        BY <1>1, PendingType DEF TypeOK, Outstanding
    <2>2. PICK j \in 1..Len(Pending) : q = Pending[j]
        BY <2>1 DEF ToSet
    <2>3. PICK i \in 1..Len(Outstanding) : q = Outstanding[i]
        <3>1. CASE outgoing = NoPacket \/ pc # "taskdone"
            <4>1. Pending = Outstanding
                BY <3>1 DEF Pending, Outstanding
            <4>2. QED BY <2>2, <4>1
        <3>2. CASE outgoing # NoPacket /\ pc = "taskdone"
            <4>1. outgoing \in Packet /\ queueOutput \in Seq(Packet)
                BY <1>1, <3>2 DEF TypeOK
            <4>2. Pending = queueOutput /\ Outstanding = <<outgoing>> \o queueOutput
                BY <3>2, <4>1 DEF Pending, Outstanding
            <4>3. j + 1 \in 1..Len(Outstanding) /\ Outstanding[j + 1] = queueOutput[j]
                BY <2>2, <4>1, <4>2
            <4>4. QED BY <2>2, <4>2, <4>3
        <3>3. QED BY <3>1, <3>2
    <2>4. task[q[1]] = "joining"
        BY <2>3 DEF QueueInvariant, OutputInvariant, UnfinishedExact, WaitedFor
    <2>5. QED BY <2>4
<1> HIDE DEF p
<1>5. AbstractQueue!Called(p)
    BY <1>2, <1>3, <1>4, AbstractSet DEF AbstractQueue!Called
<1>6. QED BY <1>1, <1>5 DEF p

LEMMA PutEnqueues ==
    ASSUME QueueInvariant, NEW l \in Layers, Put(l) PROVE Abstract
<1>1. PICK p \in Packet : p = <<l, attempts[l]>> /\ AbstractQueue!Called(p)
    BY BegunIsCalled DEF Put
<1>2. /\ TypeOK /\ queueOutput' = Append(queueOutput, p)
      /\ UNCHANGED <<pc, outgoing, attempts, settled, returned>>
    BY <1>1 DEF QueueInvariant, OutputInvariant, Put, threadVars, historyVars
<1>3. queueOutput \in Seq(Packet)
    BY <1>2 DEF TypeOK
<1>4. Pending' = Append(Pending, p)
    <2>1. CASE outgoing # NoPacket /\ pc # "taskdone"
        <3>1. <<outgoing>> \in Seq(Packet)
            BY <1>2, <2>1 DEF TypeOK
        <3>2. <<outgoing>> \o Append(queueOutput, p)
                 = Append(<<outgoing>> \o queueOutput, p)
            BY <1>3, <3>1, ConcatAppend
        <3>3. QED BY <1>2, <2>1, <3>2, Zenon DEF Pending
    <2>2. CASE ~(outgoing # NoPacket /\ pc # "taskdone")
        <3>1. Pending = queueOutput /\ Pending' = queueOutput'
            BY <1>2, <1>3, <2>2 DEF Pending
        <3>2. QED BY <1>2, <3>1
    <2>3. QED BY <2>1, <2>2
<1>5. Calls' = Calls /\ Given' = Given
    BY <1>2 DEF Calls, Given
<1>6. AbstractQueue!Enqueue(p)
    BY <1>1, <1>2, <1>4, <1>5 DEF AbstractQueue!Enqueue
<1>7. QED BY <1>6, AbstractOperations

LEMMA WriteDirectWritesThrough ==
    ASSUME QueueInvariant, NEW l \in Layers, WriteDirect(l) PROVE Abstract
<1>1. PICK p \in Packet : p = <<l, attempts[l]>> /\ AbstractQueue!Called(p)
    BY BegunIsCalled DEF WriteDirect
<1>2. /\ TypeOK /\ UNCHANGED <<pc, outgoing, queueOutput, attempts>>
    BY DEF QueueInvariant, OutputInvariant, WriteDirect, queueVars, threadVars
<1>3. Pending' = Pending /\ Calls' = Calls
    BY <1>2 DEF Pending, Calls
<1>4. CASE UNCHANGED <<settled, returned>>
    BY <1>2, <1>3, <1>4, StutterStep
<1>5. CASE /\ settled' = Append(settled, Outcome(p, TRUE))
           /\ returned' = returned \cup {p}
    <2>1. Given' = Append(Given, p)
        BY <1>2, <1>5, GivenGrows
    <2>2. AbstractQueue!WriteThrough(p)
        BY <1>1, <1>3, <1>5, <2>1 DEF AbstractQueue!WriteThrough
    <2>3. QED BY <2>2, AbstractOperations
<1>6. QED BY <1>1, <1>4, <1>5 DEF WriteDirect

\* A write() returns only when the count is zero: nothing is pending then,
\* and its own packet was given to the socket.
LEMMA WriteReturnReturns ==
    ASSUME QueueInvariant, NEW l \in Layers, WriteReturn(l) PROVE Abstract
<1> DEFINE p == <<l, attempts[l]>>
<1>1. TypeOK /\ Len(Outstanding) = 0 /\ p \in SettledPackets
    BY WrittenWhenZero DEF QueueInvariant, WriteReturn
<1>2. outgoing = NoPacket /\ queueOutput = <<>>
    <2>1. queueOutput \in Seq(Packet) /\ outgoing \in Packet \cup {NoPacket}
        BY <1>1 DEF TypeOK
    <2>2. CASE outgoing # NoPacket
        BY <1>1, <2>1, <2>2 DEF Outstanding
    <2>3. CASE outgoing = NoPacket
        <3>1. Outstanding = queueOutput
            BY <2>1, <2>3 DEF Outstanding
        <3>2. QED BY <1>1, <2>1, <2>3, <3>1
    <2>4. QED BY <2>2, <2>3
<1>3. /\ UNCHANGED <<pc, outgoing, queueOutput, settled, attempts>>
      /\ returned' = returned \cup {p}
    BY DEF WriteReturn, queueVars, threadVars
<1>4. Pending = <<>> /\ Pending' = Pending /\ Given' = Given /\ Calls' = Calls
    BY <1>2, <1>3 DEF Pending, Given, Calls
<1>5. p \in ToSet(Given) /\ p \in Packet
    <2>1. Given \in Seq(Packet) /\ p \in ToSet(Given)
        BY <1>1, GivenType
    <2>2. QED BY <2>1 DEF ToSet
<1> HIDE DEF p
<1>6. AbstractQueue!Return(p)
    BY <1>3, <1>4, <1>5, AbstractSet DEF AbstractQueue!Return
<1>7. QED BY <1>5, <1>6, AbstractOperations

LEMMA AbstractStep ==
    ASSUME QueueInvariant, [Next]_vars PROVE Abstract
<1>1. CASE ChannelThread
    BY <1>1, QuietThread, QuietIsStutter, TakeIsStutter, WritePacketSettles,
       TaskDoneIsStutter DEF ChannelThread
<1>2. CASE Application
    BY <1>2, QuietApplication, QuietIsStutter
<1>3. ASSUME NEW l \in Layers, ActorThread(l) PROVE Abstract
    <2>1. TypeOK
        BY DEF QueueInvariant, OutputInvariant
    <2>2. QED
        BY <1>3, <2>1, QuietActor, QuietIsStutter, WriteCalls, PutEnqueues,
           WriteDirectWritesThrough, WriteReturnReturns
        DEF ActorThread
<1>4. CASE UNCHANGED vars
    <2>1. Pending' = Pending /\ UNCHANGED <<settled, returned, attempts>>
        BY <1>4 DEF vars, queueVars, threadVars, layerVars, historyVars, Pending
    <2>2. QED BY <2>1, StutterStep
<1>5. QED BY <1>1, <1>2, <1>3, <1>4 DEF Next

LEMMA AbstractInit == Init => AbstractQueue!Init
<1> SUFFICES ASSUME Init PROVE AbstractQueue!Init
    OBVIOUS
<1>1. /\ settled = <<>> /\ returned = {} /\ Pending = <<>>
      /\ \A l \in Layers : attempts[l] = 0
    BY DEF Init, Pending
<1>2. Given = <<>>
    BY <1>1 DEF Given
<1>3. Calls = {}
    BY <1>1, ChannelAssumption DEF Calls, Packet, ChannelAssumption
<1>4. QED BY <1>1, <1>2, <1>3 DEF AbstractQueue!Init

\* The promise of AbstractChannel.write, kept by the queue, its count of
\* unfinished tasks and the channel thread together, whichever steps of the
\* other threads lie between the test of the mode and the effect of a write:
\* a packet is handed to the socket after the call of its write(), the queued
\* ones in the order in which they were put, and a write() returns only when
\* its packet was handed over and, if it was queued, when nothing is pending.
THEOREM ImplementsQueue == Spec => ImplementsOutputQueue
<1>1. QueueInvariant /\ [Next]_vars => [AbstractQueue!Next]_(AbstractQueue!vars)
    BY AbstractStep DEF Abstract
<1>2. QED
    BY <1>1, AbstractInit, QueueInvariantHolds, PTL
    DEF Spec, ImplementsOutputQueue, AbstractQueue!Spec

-----------------------------------------------------------------------------
(* Nothing is sent twice. *)

Distinct(s) == \A i \in 1..Len(s) : \A j \in 1..(i - 1) : s[j] # s[i]

\* No packet is handed to the socket twice, nor is one in the queue that was.
EachOnce ==
    /\ Distinct(Given) /\ Distinct(Pending)
    /\ ToSet(Given) \cap ToSet(Pending) = {}

LEMMA DistinctAppend ==
    ASSUME NEW S, NEW s \in Seq(S), NEW e \in S, Distinct(s), e \notin ToSet(s)
    PROVE  Distinct(Append(s, e)) /\ ToSet(Append(s, e)) = ToSet(s) \cup {e}
<1> DEFINE t == Append(s, e)
<1>1. /\ Len(t) = Len(s) + 1 /\ Len(s) \in Nat /\ t[Len(s) + 1] = e
      /\ \A i \in 1..Len(s) : t[i] = s[i]
      /\ DOMAIN t = 1..Len(t) /\ DOMAIN s = 1..Len(s)
    OBVIOUS
<1> HIDE DEF t
<1>2. \A i \in 1..Len(s) : s[i] # e
    BY <1>1 DEF ToSet
<1>3. Distinct(t)
    <2> SUFFICES ASSUME NEW i \in 1..Len(t), NEW j \in 1..(i - 1) PROVE t[j] # t[i]
        BY DEF Distinct
    <2>1. j \in 1..Len(s) /\ t[j] = s[j]
        BY <1>1
    <2>2. CASE i = Len(s) + 1
        BY <1>1, <1>2, <2>1, <2>2
    <2>3. CASE i \in 1..Len(s)
        BY <1>1, <2>1, <2>3 DEF Distinct
    <2>4. QED BY <1>1, <2>2, <2>3
<1>4. ToSet(t) = ToSet(s) \cup {e}
    <2>1. \A i \in 1..Len(t) : i \in 1..Len(s) \/ i = Len(s) + 1
        BY <1>1
    <2>2. 1..Len(s) \subseteq 1..Len(t) /\ Len(s) + 1 \in 1..Len(t)
        BY <1>1
    <2>3. QED BY <1>1, <2>1, <2>2 DEF ToSet
<1>5. QED BY <1>3, <1>4 DEF t

LEMMA DistinctTail ==
    ASSUME NEW S, NEW s \in Seq(S), s # <<>>, Distinct(s)
    PROVE  /\ Distinct(Tail(s)) /\ Tail(s) \in Seq(S) /\ Head(s) \in ToSet(s)
           /\ ToSet(Tail(s)) \subseteq ToSet(s) \ {Head(s)}
<1> DEFINE t == Tail(s)
<1>1. /\ Len(s) = Len(t) + 1 /\ Len(t) \in Nat /\ Head(s) = s[1] /\ t \in Seq(S)
      /\ \A i \in 1..Len(t) : t[i] = s[i + 1]
      /\ DOMAIN t = 1..Len(t) /\ DOMAIN s = 1..Len(s)
    OBVIOUS
<1> HIDE DEF t
<1>2. Distinct(t)
    <2> SUFFICES ASSUME NEW i \in 1..Len(t), NEW j \in 1..(i - 1) PROVE t[j] # t[i]
        BY DEF Distinct
    <2>1. /\ i + 1 \in 1..Len(s) /\ j + 1 \in 1..((i + 1) - 1)
          /\ t[i] = s[i + 1] /\ t[j] = s[j + 1]
        BY <1>1
    <2>2. QED BY <2>1 DEF Distinct
<1>3. Head(s) \in ToSet(s)
    <2>1. 1 \in DOMAIN s
        BY <1>1
    <2>2. QED BY <1>1, <2>1 DEF ToSet
<1>4. ASSUME NEW x \in ToSet(t) PROVE x \in ToSet(s) /\ x # Head(s)
    <2>1. PICK i \in 1..Len(t) : x = t[i]
        BY <1>1 DEF ToSet
    <2>2. x = s[i + 1] /\ i + 1 \in 1..Len(s) /\ 1 \in 1..((i + 1) - 1)
        BY <1>1, <2>1
    <2>3. s[1] # s[i + 1]
        BY <2>2 DEF Distinct
    <2>4. QED BY <1>1, <2>2, <2>3 DEF ToSet
<1>5. QED BY <1>1, <1>2, <1>3, <1>4 DEF t

\* The abstract queue alone sees to it: a packet is queued or written through
\* only once.
LEMMA EachOnceStep ==
    ASSUME QueueInvariant, EachOnce, [Next]_vars PROVE EachOnce'
<1>1. [AbstractQueue!Next]_(AbstractQueue!vars)
    BY AbstractStep DEF Abstract
<1>2. Given \in Seq(Packet) /\ Pending \in Seq(Packet)
    BY GivenType, PendingType DEF QueueInvariant, OutputInvariant
<1>3. CASE AbstractQueue!Settle
    <2>1. /\ Pending # <<>> /\ Given' = Append(Given, Head(Pending))
          /\ Pending' = Tail(Pending)
        BY <1>3 DEF AbstractQueue!Settle
    <2>2. /\ Distinct(Tail(Pending)) /\ Head(Pending) \in ToSet(Pending)
          /\ ToSet(Tail(Pending)) \subseteq ToSet(Pending) \ {Head(Pending)}
        BY <1>2, <2>1, DistinctTail DEF EachOnce
    <2>3. Head(Pending) \in Packet /\ Head(Pending) \notin ToSet(Given)
        BY <1>2, <2>1, <2>2, HeadTailType DEF EachOnce
    <2>4. /\ Distinct(Append(Given, Head(Pending)))
          /\ ToSet(Append(Given, Head(Pending))) = ToSet(Given) \cup {Head(Pending)}
        BY <1>2, <2>3, DistinctAppend DEF EachOnce
    <2>5. QED BY <2>1, <2>2, <2>4, Zenon DEF EachOnce
<1>4. ASSUME NEW p \in Packet, AbstractQueue!Enqueue(p) PROVE EachOnce'
    <2>1. /\ p \notin ToSet(Given) /\ p \notin ToSet(Pending)
          /\ Given' = Given /\ Pending' = Append(Pending, p)
        BY <1>4, AbstractSet DEF AbstractQueue!Enqueue, AbstractQueue!Called
    <2>2. /\ Distinct(Append(Pending, p))
          /\ ToSet(Append(Pending, p)) = ToSet(Pending) \cup {p}
        BY <1>2, <2>1, DistinctAppend DEF EachOnce
    <2>3. QED BY <2>1, <2>2, Zenon DEF EachOnce
<1>5. ASSUME NEW p \in Packet, AbstractQueue!WriteThrough(p) PROVE EachOnce'
    <2>1. /\ p \notin ToSet(Given) /\ p \notin ToSet(Pending)
          /\ Given' = Append(Given, p) /\ Pending' = Pending
        BY <1>5, AbstractSet DEF AbstractQueue!WriteThrough, AbstractQueue!Called
    <2>2. /\ Distinct(Append(Given, p))
          /\ ToSet(Append(Given, p)) = ToSet(Given) \cup {p}
        BY <1>2, <2>1, DistinctAppend DEF EachOnce
    <2>3. QED BY <2>1, <2>2, Zenon DEF EachOnce
<1>6. CASE Given' = Given /\ Pending' = Pending
    BY <1>6 DEF EachOnce
<1>7. QED
    BY <1>1, <1>3, <1>4, <1>5, <1>6
    DEF AbstractQueue!Next, AbstractQueue!vars, AbstractQueue!Call, AbstractQueue!Return

\* Each packet of write() reaches the socket at most once, for all
\* interleavings of the actors with the channel thread.
THEOREM NothingIsSentTwice == Spec => []EachOnce
<1>1. Init => EachOnce
    <2> SUFFICES ASSUME Init PROVE EachOnce
        OBVIOUS
    <2>1. Given = <<>> /\ Pending = <<>>
        BY DEF Init, Given, Pending
    <2>2. QED BY <2>1 DEF EachOnce, Distinct, ToSet
<1>2. QueueInvariant /\ EachOnce /\ [Next]_vars => EachOnce'
    BY EachOnceStep
<1>3. QED BY <1>1, <1>2, QueueInvariantHolds, PTL DEF Spec
=============================================================================
