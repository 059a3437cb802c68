--------------------------- MODULE ThreadedChannel ---------------------------
(***************************************************************************)
(* A communication channel running in its own thread and shared by several *)
(* abstraction layers, one per actor thread (AbstractChannel.run and the   *)
(* methods it calls, the channel side of AbstractionLayer, Actor.stop).    *)
(*                                                                         *)
(* Three kinds of threads interleave: the channel thread, one actor thread *)
(* per abstraction layer, and the application's thread, which starts and   *)
(* stops the others.  They share the channel's open flag, its stop event,  *)
(* its output queue (a queue.Queue with its count of unfinished tasks),    *)
(* its list of registered layers and the input queue of every layer.       *)
(* A step is a statement that the interpreter lock makes atomic: what a    *)
(* thread does after it has tested threaded_mode is a step of its own,     *)
(* since run() may switch the mode in between.                             *)
(***************************************************************************)
EXTENDS Integers, Sequences, FiniteSets, SequencesExt

CONSTANTS
    Layers,      \* the abstraction layers that share the channel
    KeepOpen,    \* those whose actor has keep_open = True
    Interest,    \* Interest[l]: packets the layer's cbk_select_data accepts
    Faults,      \* the socket errors the environment may raise
    NoPacket,    \* "no outgoing packet"
    MaxWrites,   \* bound: write() calls per layer
    MaxIn,       \* bound: packets the network has for this channel
    MaxOpens     \* bound: openChannel() calls of each layer

ASSUME ChannelAssumption ==
    /\ KeepOpen \subseteq Layers
    /\ MaxWrites \in Nat /\ MaxIn \in Nat /\ MaxOpens \in [Layers -> Nat]
    /\ Interest \in [Layers -> SUBSET (1..MaxIn)]
    /\ Faults \subseteq {"open", "permission", "write", "read"}
    /\ NoPacket \notin Layers \X (1..MaxWrites)
    /\ Layers \cap {"idle", "stopping", "flushing", "closing"} = {}

\* The k-th packet written by layer l is <<l, k>>; packets read from the
\* network are numbered in the order in which the socket returns them.
Packet == Layers \X (1..MaxWrites)

VARIABLES
    threaded,     \* AbstractChannel.threaded_mode
    isOpen,       \* AbstractChannel.isOpen
    stopEvent,    \* AbstractChannel.__stopEvent
    queueOutput,  \* AbstractChannel.__queue_output
    unfinished,   \* Queue.unfinished_tasks of that queue
    registered,   \* AbstractChannel.registered_abstraction_layers
    pc,           \* where the channel thread is in run()
    outgoing,     \* the packet process_data_to_send is handling
    incoming,     \* the packet process_incoming_data is handling, or 0
    idx,          \* next index of its iterator on the list of layers
    queueInput,   \* AbstractionLayer.__queue_input of every layer
    actorStop,    \* Actor.__stopEvent of every layer's actor
    task,         \* what the actor thread is doing on the channel
    opens,        \* openChannel() calls made by a layer
    attempts,     \* write() calls made by a layer
    ctl,          \* what the application's thread is doing
    arrived,      \* packets taken from the network so far
    settled,      \* history: what became of the packets handed to the socket
    returned,     \* history: packets whose write() has returned
    consumed,     \* history: packets readSymbol() has popped, per layer
    owed,         \* history: layers that should still get the incoming packet
    shifted       \* history: a served layer left the list during the delivery

queueVars   == <<queueOutput, unfinished>>
threadVars  == <<pc, outgoing, incoming, idx>>
layerVars   == <<queueInput, actorStop, task, opens, attempts>>
historyVars == <<settled, returned, consumed, owed, shifted>>
vars == <<threaded, isOpen, stopEvent, queueVars, registered, threadVars,
          layerVars, ctl, arrived, historyVars>>

Init ==
    /\ threaded = FALSE /\ isOpen = FALSE /\ stopEvent = FALSE
    /\ queueOutput = <<>> /\ unfinished = 0 /\ registered = <<>>
    /\ pc = "new" /\ outgoing = NoPacket /\ incoming = 0 /\ idx = 1
    /\ queueInput = [l \in Layers |-> <<>>]
    /\ actorStop = [l \in Layers |-> FALSE]
    /\ task = [l \in Layers |-> "idle"]
    /\ opens = [l \in Layers |-> 0] /\ attempts = [l \in Layers |-> 0]
    /\ ctl = "idle" /\ arrived = 0
    /\ settled = <<>> /\ returned = {}
    /\ consumed = [l \in Layers |-> <<>>]
    /\ owed = {} /\ shifted = FALSE

-----------------------------------------------------------------------------
(* Operations shared by several threads. *)

Registered(l) == l \in ToSet(registered)
FirstAt(i, l) == registered[i] = l /\ \A j \in 1..(i - 1) : registered[j] # l
Outcome(p, s) == [packet |-> p, sent |-> s]

\* unregister_abstraction_layer by any thread: the first occurrence of the
\* layer leaves the list, if there is one.
Unregister(l) ==
    /\ \/ /\ ~Registered(l)
          /\ UNCHANGED <<registered, shifted>>
       \/ \E i \in 1..Len(registered) :
             /\ FirstAt(i, l)
             /\ registered' = RemoveAt(registered, i)
             /\ shifted' = (shifted \/ (pc = "deliver" /\ i < idx))
    /\ owed' = IF l \in ToSet(registered') THEN owed ELSE owed \ {l}

\* Actor.run reaches an exit condition, or catches an exception: Actor.stop
\* runs in the actor's own thread, which ends after closing its channel.
SelfStop(l) ==
    /\ actorStop' = [actorStop EXCEPT ![l] = TRUE]
    /\ task' = [task EXCEPT ![l] = IF l \in KeepOpen THEN "ended" ELSE "closing"]

-----------------------------------------------------------------------------
(* Faulty variants of operations defined below: each property is tested by *)
(* a variant that must violate it.  No behaviour of Spec takes them.       *)

\* task_done() in the handler of the error and again after it.
TaskDoneTwice ==
    /\ pc = "taskdone"
    /\ unfinished' = unfinished - 2 /\ outgoing' = NoPacket /\ pc' = "sending"
    /\ UNCHANGED <<threaded, isOpen, stopEvent, queueOutput, registered, incoming,
                   idx, layerVars, ctl, arrived, historyVars>>


\* The handler of the PermissionError continues the loop without task_done().
WritePacketContinue ==
    /\ pc = "writing" /\ isOpen
    /\ \E s \in {TRUE} \cup (IF "permission" \in Faults THEN {FALSE} ELSE {}) :
          /\ settled' = Append(settled, Outcome(outgoing, s))
          /\ pc' = IF s THEN "taskdone" ELSE "sending"
          /\ outgoing' = IF s THEN outgoing ELSE NoPacket
    /\ UNCHANGED <<threaded, isOpen, stopEvent, queueVars, registered, incoming,
                   idx, layerVars, ctl, arrived, returned, consumed, owed, shifted>>

\* A LifoQueue.
TakeOutgoingLast ==
    /\ pc = "sending" /\ queueOutput # <<>>
    /\ outgoing' = Last(queueOutput) /\ queueOutput' = Front(queueOutput)
    /\ pc' = "writing"
    /\ UNCHANGED <<threaded, isOpen, stopEvent, unfinished, registered, incoming,
                   idx, layerVars, ctl, arrived, historyVars>>

\* write() waits until the queue is empty instead of joining it.
WriteReturnOnEmpty(l) ==
    /\ task[l] = "joining" /\ queueOutput = <<>>
    /\ task' = [task EXCEPT ![l] = "idle"]
    /\ returned' = returned \cup {<<l, attempts[l]>>}
    /\ UNCHANGED <<threaded, isOpen, stopEvent, queueVars, registered, threadVars,
                   queueInput, actorStop, opens, attempts, ctl, arrived, settled,
                   consumed, owed, shifted>>

\* The loop over the layers does not advance.
DeliverAgain ==
    /\ pc = "deliver" /\ idx <= Len(registered)
    /\ queueInput' = [queueInput EXCEPT ![registered[idx]] = Append(@, incoming)]
    /\ pc' \in {"deliver", "loop"}
    /\ UNCHANGED <<threaded, isOpen, stopEvent, queueVars, registered, outgoing,
                   incoming, idx, actorStop, task, opens, attempts, ctl, arrived,
                   historyVars>>

\* The packet is given to the first layer only.
DeliverFirst ==
    /\ pc = "deliver"
    /\ pc' = "loop" /\ incoming' = 0
    /\ IF registered = <<>>
       THEN UNCHANGED <<queueInput, owed>>
       ELSE /\ queueInput' = [queueInput EXCEPT ![registered[1]] = Append(@, incoming)]
            /\ owed' = owed \ {registered[1]}
    /\ UNCHANGED <<threaded, isOpen, stopEvent, queueVars, registered, outgoing,
                   idx, actorStop, task, opens, attempts, ctl, arrived, settled,
                   returned, consumed, shifted>>


-----------------------------------------------------------------------------
(* The channel thread: AbstractChannel.run. *)

\* Thread.start() by the application.
Start ==
    /\ ctl = "idle" /\ pc = "new"
    /\ pc' = "starting"
    /\ UNCHANGED <<threaded, isOpen, stopEvent, queueVars, registered, outgoing,
                   incoming, idx, layerVars, ctl, arrived, historyVars>>

\* run() first switches the channel to threaded mode.
EnterThreadedMode ==
    /\ pc = "starting"
    /\ threaded' = TRUE
    /\ pc' = "opening"
    /\ UNCHANGED <<isOpen, stopEvent, queueVars, registered, outgoing, incoming,
                   idx, layerVars, ctl, arrived, historyVars>>

\* open() raises when the channel is open already, or on a socket error; run()
\* then sets the stop event and returns.
OpenInThread ==
    /\ pc = "opening"
    /\ \/ /\ ~isOpen
          /\ isOpen' = TRUE /\ pc' = "loop" /\ UNCHANGED stopEvent
       \/ /\ isOpen \/ "open" \in Faults
          /\ stopEvent' = TRUE /\ pc' = "finished" /\ UNCHANGED isOpen
    /\ UNCHANGED <<threaded, queueVars, registered, outgoing, incoming, idx,
                   layerVars, ctl, arrived, historyVars>>

\* The test of the loop of run().
TestStopEvent ==
    /\ pc = "loop"
    /\ pc' = IF stopEvent THEN "finished" ELSE "sending"
    /\ UNCHANGED <<threaded, isOpen, stopEvent, queueVars, registered, outgoing,
                   incoming, idx, layerVars, ctl, arrived, historyVars>>

\* process_data_to_send: take the next packet, or go and read.
TakeOutgoing ==
    /\ pc = "sending"
    /\ IF queueOutput = <<>>
       THEN pc' = "reading" /\ UNCHANGED <<queueOutput, outgoing>>
       ELSE /\ outgoing' = Head(queueOutput)
            /\ queueOutput' = Tail(queueOutput)
            /\ pc' = "writing"
    /\ UNCHANGED <<threaded, isOpen, stopEvent, unfinished, registered, incoming,
                   idx, layerVars, ctl, arrived, historyVars>>

\* writePacket: only a PermissionError is caught; any other exception, such as
\* the one of a closed socket, ends the thread before task_done().
WritePacket ==
    /\ pc = "writing"
    /\ \/ /\ isOpen
          /\ settled' = Append(settled, Outcome(outgoing, TRUE))
          /\ pc' = "taskdone"
       \/ /\ isOpen /\ "permission" \in Faults
          /\ settled' = Append(settled, Outcome(outgoing, FALSE))
          /\ pc' = "taskdone"
       \/ /\ ~isOpen \/ "write" \in Faults
          /\ pc' = "dead"
          /\ UNCHANGED settled
    /\ UNCHANGED <<threaded, isOpen, stopEvent, queueVars, registered, outgoing,
                   incoming, idx, layerVars, ctl, arrived, returned, consumed,
                   owed, shifted>>

TaskDone ==
    /\ pc = "taskdone"
    /\ unfinished' = unfinished - 1
    /\ outgoing' = NoPacket
    /\ pc' = "sending"
    /\ UNCHANGED <<threaded, isOpen, stopEvent, queueOutput, registered, incoming,
                   idx, layerVars, ctl, arrived, historyVars>>

\* check_incoming_data: a packet, a timeout (also of a read that was already
\* waiting when the socket was closed), or an exception, which ends the thread
\* unless the stop event is set.
CheckIncomingData ==
    /\ pc = "reading"
    /\ \/ /\ isOpen /\ arrived < MaxIn
          /\ arrived' = arrived + 1
          /\ incoming' = arrived + 1
          /\ idx' = 1
          /\ owed' = {l \in ToSet(registered) : arrived + 1 \in Interest[l]}
          /\ shifted' = FALSE
          /\ pc' = "deliver"
       \/ /\ pc' = "loop"
          /\ UNCHANGED <<arrived, incoming, idx, owed, shifted>>
       \/ /\ ~isOpen \/ "read" \in Faults
          /\ pc' = IF stopEvent THEN "loop" ELSE "dead"
          /\ UNCHANGED <<arrived, incoming, idx, owed, shifted>>
    /\ UNCHANGED <<threaded, isOpen, stopEvent, queueVars, registered, outgoing,
                   layerVars, ctl, settled, returned, consumed>>

\* process_incoming_data: one turn of the loop over the live list of layers;
\* the iterator compares its index with the length the list has now.
Deliver ==
    /\ pc = "deliver"
    /\ IF idx <= Len(registered)
       THEN LET l == registered[idx] IN
            /\ idx' = idx + 1
            /\ queueInput' = IF incoming \in Interest[l]
                             THEN [queueInput EXCEPT ![l] = Append(@, incoming)]
                             ELSE queueInput
            /\ owed' = owed \ {l}
            /\ UNCHANGED <<pc, incoming>>
       ELSE /\ pc' = "loop"
            /\ incoming' = 0
            /\ UNCHANGED <<idx, queueInput, owed>>
    /\ UNCHANGED <<threaded, isOpen, stopEvent, queueVars, registered, outgoing,
                   actorStop, task, opens, attempts, ctl, arrived, settled,
                   returned, consumed, shifted>>

ChannelThread ==
    \/ EnterThreadedMode \/ OpenInThread \/ TestStopEvent
    \/ TakeOutgoing \/ WritePacket \/ TaskDone
    \/ CheckIncomingData \/ Deliver

-----------------------------------------------------------------------------
(* The application's thread. *)

\* AbstractChannel.stop closes the socket first and then sets the event.
StopClose ==
    /\ ctl = "idle" /\ pc # "new"
    /\ isOpen' = FALSE
    /\ ctl' = "stopping"
    /\ UNCHANGED <<threaded, stopEvent, queueVars, registered, threadVars,
                   layerVars, arrived, historyVars>>

StopSetEvent ==
    /\ ctl = "stopping"
    /\ stopEvent' = TRUE
    /\ ctl' = "idle"
    /\ UNCHANGED <<threaded, isOpen, queueVars, registered, threadVars,
                   layerVars, arrived, historyVars>>

\* AbstractChannel.flush joins the output queue.
Flush ==
    /\ ctl = "idle"
    /\ ctl' = "flushing"
    /\ UNCHANGED <<threaded, isOpen, stopEvent, queueVars, registered, threadVars,
                   layerVars, arrived, historyVars>>

FlushReturn ==
    /\ ctl = "flushing" /\ unfinished = 0
    /\ ctl' = "idle"
    /\ UNCHANGED <<threaded, isOpen, stopEvent, queueVars, registered, threadVars,
                   layerVars, arrived, historyVars>>

\* Actor.stop called by the application: the event, then closeChannel.
ActorStop(l) ==
    /\ ctl = "idle" /\ ~actorStop[l]
    /\ actorStop' = [actorStop EXCEPT ![l] = TRUE]
    /\ ctl' = IF l \in KeepOpen THEN "idle" ELSE l
    /\ UNCHANGED <<threaded, isOpen, stopEvent, queueVars, registered, threadVars,
                   queueInput, task, opens, attempts, arrived, historyVars>>

\* closeChannel: leave the list of layers in threaded mode, close the socket
\* otherwise.
ActorStopClose(l) ==
    /\ ctl = l
    /\ \/ /\ threaded
          /\ Unregister(l)
          /\ ctl' = "idle"
       \/ /\ ~threaded
          /\ ctl' = "closing"
          /\ UNCHANGED <<registered, owed, shifted>>
    /\ UNCHANGED <<threaded, isOpen, stopEvent, queueVars, threadVars, layerVars,
                   arrived, settled, returned, consumed>>

ActorStopSocket ==
    /\ ctl = "closing"
    /\ isOpen' = FALSE
    /\ ctl' = "idle"
    /\ UNCHANGED <<threaded, stopEvent, queueVars, registered, threadVars,
                   layerVars, arrived, historyVars>>

-----------------------------------------------------------------------------
(* The actor threads, seen from the channel: what an automaton makes them do. *)

\* OpenChannelTransition: register, or open the socket outside threaded mode.
OpenChannel(l) ==
    /\ task[l] = "idle" /\ opens[l] < MaxOpens[l]
    /\ opens' = [opens EXCEPT ![l] = @ + 1]
    /\ IF threaded
       THEN registered' = Append(registered, l) /\ UNCHANGED task
       ELSE task' = [task EXCEPT ![l] = "opening"] /\ UNCHANGED registered
    /\ UNCHANGED <<threaded, isOpen, stopEvent, queueVars, threadVars, queueInput,
                   actorStop, attempts, ctl, arrived, historyVars>>

\* open() in the caller's thread raises when the channel is open already.
OpenDirect(l) ==
    /\ task[l] = "opening"
    /\ \/ /\ ~isOpen
          /\ isOpen' = TRUE
          /\ task' = [task EXCEPT ![l] = "idle"]
          /\ UNCHANGED actorStop
       \/ /\ isOpen \/ "open" \in Faults
          /\ SelfStop(l)
          /\ UNCHANGED isOpen
    /\ UNCHANGED <<threaded, stopEvent, queueVars, registered, threadVars,
                   queueInput, opens, attempts, ctl, arrived, historyVars>>

\* CloseChannelTransition.
CloseByActor(l) ==
    /\ task[l] = "idle" /\ opens[l] > 0
    /\ \/ /\ threaded
          /\ Unregister(l)
          /\ UNCHANGED task
       \/ /\ ~threaded
          /\ task' = [task EXCEPT ![l] = "leaving"]
          /\ UNCHANGED <<registered, owed, shifted>>
    /\ UNCHANGED <<threaded, isOpen, stopEvent, queueVars, threadVars, queueInput,
                   actorStop, opens, attempts, ctl, arrived, settled, returned,
                   consumed>>

\* close() in the caller's thread, also of an actor that ends.
CloseDirect(l) ==
    /\ task[l] \in {"leaving", "quitting"}
    /\ isOpen' = FALSE
    /\ task' = [task EXCEPT ![l] = IF @ = "leaving" THEN "idle" ELSE "ended"]
    /\ UNCHANGED <<threaded, stopEvent, queueVars, registered, threadVars,
                   queueInput, actorStop, opens, attempts, ctl, arrived, historyVars>>

\* AbstractChannel.write tests the mode,
Write(l) ==
    /\ task[l] = "idle" /\ opens[l] > 0 /\ attempts[l] < MaxWrites
    /\ attempts' = [attempts EXCEPT ![l] = @ + 1]
    /\ task' = [task EXCEPT ![l] = IF threaded THEN "putting" ELSE "writing"]
    /\ UNCHANGED <<threaded, isOpen, stopEvent, queueVars, registered, threadVars,
                   queueInput, actorStop, opens, ctl, arrived, historyVars>>

\* puts the packet in the queue and joins it in threaded mode,
Put(l) ==
    /\ task[l] = "putting"
    /\ queueOutput' = Append(queueOutput, <<l, attempts[l]>>)
    /\ unfinished' = unfinished + 1
    /\ task' = [task EXCEPT ![l] = "joining"]
    /\ UNCHANGED <<threaded, isOpen, stopEvent, registered, threadVars, queueInput,
                   actorStop, opens, attempts, ctl, arrived, historyVars>>

\* and calls writePacket itself otherwise, where an exception stops the actor.
WriteDirect(l) ==
    /\ task[l] = "writing"
    /\ \/ /\ isOpen
          /\ settled' = Append(settled, Outcome(<<l, attempts[l]>>, TRUE))
          /\ returned' = returned \cup {<<l, attempts[l]>>}
          /\ task' = [task EXCEPT ![l] = "idle"]
          /\ UNCHANGED actorStop
       \/ /\ ~isOpen \/ Faults \cap {"write", "permission"} # {}
          /\ SelfStop(l)
          /\ UNCHANGED <<settled, returned>>
    /\ UNCHANGED <<threaded, isOpen, stopEvent, queueVars, registered, threadVars,
                   queueInput, opens, attempts, ctl, arrived, consumed, owed, shifted>>

\* Queue.join returns when the count of unfinished tasks is zero.
WriteReturn(l) ==
    /\ task[l] = "joining" /\ unfinished = 0
    /\ task' = [task EXCEPT ![l] = "idle"]
    /\ returned' = returned \cup {<<l, attempts[l]>>}
    /\ UNCHANGED <<threaded, isOpen, stopEvent, queueVars, registered, threadVars,
                   queueInput, actorStop, opens, attempts, ctl, arrived, settled,
                   consumed, owed, shifted>>

\* AbstractionLayer.readSymbol: wait on the layer's input queue in threaded
\* mode, read the socket otherwise.
Read(l) ==
    /\ task[l] = "idle" /\ opens[l] > 0
    /\ task' = [task EXCEPT ![l] = IF threaded THEN "reading" ELSE "receiving"]
    /\ UNCHANGED <<threaded, isOpen, stopEvent, queueVars, registered, threadVars,
                   queueInput, actorStop, opens, attempts, ctl, arrived,
                   historyVars>>

\* read() in the caller's thread gives a packet or a timeout, which the
\* automaton handles; another exception stops the actor.
ReadDirect(l) ==
    /\ task[l] = "receiving"
    /\ \/ /\ isOpen /\ arrived < MaxIn
          /\ arrived' = arrived + 1
          /\ task' = [task EXCEPT ![l] = "idle"]
          /\ UNCHANGED actorStop
       \/ /\ task' = [task EXCEPT ![l] = "idle"]
          /\ UNCHANGED <<arrived, actorStop>>
       \/ /\ ~isOpen \/ "read" \in Faults
          /\ SelfStop(l)
          /\ UNCHANGED arrived
    /\ UNCHANGED <<threaded, isOpen, stopEvent, queueVars, registered, threadVars,
                   queueInput, opens, attempts, ctl, historyVars>>

MustQuit(l) == actorStop[l] /\ l \notin KeepOpen

\* One turn of its polling loop: quit when the actor was stopped, take a
\* packet if there is one, give up when the timeout has elapsed.
ReadPoll(l) ==
    /\ task[l] = "reading"
    /\ \/ /\ MustQuit(l)
          /\ task' = [task EXCEPT ![l] = "ended"]
          /\ UNCHANGED <<queueInput, consumed>>
       \/ /\ ~MustQuit(l) /\ queueInput[l] # <<>>
          /\ queueInput' = [queueInput EXCEPT ![l] = Tail(@)]
          /\ consumed' = [consumed EXCEPT ![l] = Append(@, Head(queueInput[l]))]
          /\ task' = [task EXCEPT ![l] = "idle"]
       \/ /\ ~MustQuit(l) /\ queueInput[l] = <<>>
          /\ task' = [task EXCEPT ![l] = "idle"]
          /\ UNCHANGED <<queueInput, consumed>>
    /\ UNCHANGED <<threaded, isOpen, stopEvent, queueVars, registered, threadVars,
                   actorStop, opens, attempts, ctl, arrived, settled, returned,
                   owed, shifted>>

\* Actor.run leaves its loop: it reaches an exit condition of the automaton,
\* or it finds the stop event set.
ActorExit(l) ==
    /\ task[l] = "idle"
    /\ IF actorStop[l]
       THEN task' = [task EXCEPT ![l] = "ended"] /\ UNCHANGED actorStop
       ELSE SelfStop(l)
    /\ UNCHANGED <<threaded, isOpen, stopEvent, queueVars, registered, threadVars,
                   queueInput, opens, attempts, ctl, arrived, historyVars>>

ActorExitClose(l) ==
    /\ task[l] = "closing"
    /\ \/ /\ threaded
          /\ Unregister(l)
          /\ task' = [task EXCEPT ![l] = "ended"]
       \/ /\ ~threaded
          /\ task' = [task EXCEPT ![l] = "quitting"]
          /\ UNCHANGED <<registered, owed, shifted>>
    /\ UNCHANGED <<threaded, isOpen, stopEvent, queueVars, threadVars, queueInput,
                   actorStop, opens, attempts, ctl, arrived, settled, returned,
                   consumed>>

ActorThread(l) ==
    \/ OpenChannel(l) \/ OpenDirect(l) \/ CloseByActor(l) \/ CloseDirect(l)
    \/ Write(l) \/ Put(l) \/ WriteDirect(l) \/ WriteReturn(l)
    \/ Read(l) \/ ReadDirect(l) \/ ReadPoll(l)
    \/ ActorExit(l) \/ ActorExitClose(l)

Application ==
    \/ Start \/ StopClose \/ StopSetEvent \/ Flush \/ FlushReturn
    \/ ActorStopSocket
    \/ \E l \in Layers : ActorStop(l) \/ ActorStopClose(l)

Next ==
    \/ ChannelThread
    \/ Application
    \/ \E l \in Layers : ActorThread(l)

Spec == Init /\ [][Next]_vars

\* The channel thread runs until it ends; a waiting writer is woken up when
\* its condition holds; stop() is not interrupted between its two statements.
Fairness ==
    /\ WF_vars(ChannelThread)
    /\ WF_vars(StopSetEvent)
    /\ \A l \in Layers : WF_vars(WriteReturn(l))

FairSpec == Spec /\ Fairness

-----------------------------------------------------------------------------
(* Properties. *)

ActorTask == {"idle", "opening", "putting", "writing", "joining", "reading",
              "receiving", "leaving", "closing", "quitting", "ended"}

\* The one type invariant: every variable is in the range the code gives it.
TypeOK ==
    /\ threaded \in BOOLEAN /\ isOpen \in BOOLEAN /\ stopEvent \in BOOLEAN
    /\ queueOutput \in Seq(Packet) /\ unfinished \in Nat
    /\ registered \in Seq(Layers)
    /\ pc \in {"new", "starting", "opening", "loop", "sending", "writing",
               "taskdone", "reading", "deliver", "finished", "dead"}
    /\ outgoing \in Packet \cup {NoPacket}
    /\ incoming \in 0..MaxIn /\ idx \in Nat \ {0}
    /\ queueInput \in [Layers -> Seq(1..MaxIn)]
    /\ actorStop \in [Layers -> BOOLEAN]
    /\ task \in [Layers -> ActorTask]
    /\ opens \in [Layers -> Nat]
    /\ attempts \in [Layers -> 0..MaxWrites]
    /\ ctl \in {"idle", "stopping", "flushing", "closing"} \cup Layers
    /\ arrived \in 0..MaxIn
    /\ settled \in Seq([packet : Packet, sent : BOOLEAN])
    /\ returned \subseteq Packet
    /\ consumed \in [Layers -> Seq(1..MaxIn)]
    /\ owed \subseteq Layers /\ shifted \in BOOLEAN

\* The packets whose task_done() has not been called, the oldest first.
Outstanding ==
    (IF outgoing = NoPacket THEN <<>> ELSE <<outgoing>>) \o queueOutput

\* The count on which write() and flush() block is exact at every step of
\* every thread, and each packet it counts is the one its actor is waiting
\* for: were the count too low a write would return early, too high and it
\* would never return (process_data_to_send, AbstractChannel.write).
CountExact == unfinished = Len(Outstanding)

WaitedFor ==
    \A i \in 1..Len(Outstanding) :
        /\ task[Outstanding[i][1]] = "joining"
        /\ Outstanding[i][2] = attempts[Outstanding[i][1]]
        /\ \A j \in 1..(i - 1) : Outstanding[j][1] # Outstanding[i][1]

UnfinishedExact == CountExact /\ WaitedFor

SettledPackets == {settled[i].packet : i \in 1..Len(settled)}

\* A write() that has returned handed its own packet to the socket, whatever
\* the other actors were writing meanwhile (AbstractChannel.write).
ReturnedIsSettled == returned \subseteq SettledPackets

\* Everything a layer was ever given, in order.
Inbox(l) == consumed[l] \o queueInput[l]

\* A layer sees only packets its callback accepts, in the order of arrival,
\* and none twice unless it registered twice (process_incoming_data).
InboxInOrder ==
    \A l \in Layers : \A j \in 1..Len(Inbox(l)) :
        /\ Inbox(l)[j] \in Interest[l]
        /\ \A i \in 1..(j - 1) :
              \/ Inbox(l)[i] < Inbox(l)[j]
              \/ opens[l] > 1 /\ Inbox(l)[i] = Inbox(l)[j]

\* While a packet is dispatched, every layer that was registered and
\* interested when it was read, and has stayed registered, is still ahead of
\* the iterator, and afterwards it has been served, unless a layer that was
\* already served left the list meanwhile: layers may register, and layers
\* still ahead may leave, without harming the others (process_incoming_data).
DispatchReachesAll ==
    ~shifted =>
        \/ pc # "deliver" /\ owed = {}
        \/ /\ pc = "deliver"
           /\ \A l \in owed : \E i \in idx..Len(registered) : registered[i] = l

\* What the channel thread holds in its hands at each statement, and where
\* the packet of a blocked write() is: with the parts above, these make the
\* invariants of the output path inductive.
InHand ==
    /\ pc \in {"writing", "taskdone"} => outgoing # NoPacket
    /\ outgoing # NoPacket => pc \in {"writing", "taskdone", "dead"}
    /\ pc = "taskdone" => outgoing \in SettledPackets

JoinedIsKnown ==
    \A l \in Layers : task[l] = "joining" =>
        \/ <<l, attempts[l]>> \in SettledPackets
        \/ \E i \in 1..Len(Outstanding) : Outstanding[i] = <<l, attempts[l]>>

\* A write() between its test of the mode and its effect has its number.
BegunIsNumbered ==
    \A l \in Layers : task[l] \in {"putting", "writing"} => attempts[l] > 0

OutputInvariant ==
    /\ TypeOK /\ UnfinishedExact /\ ReturnedIsSettled
    /\ InHand /\ JoinedIsKnown /\ BegunIsNumbered

\* The output path implements the abstract output queue.
Pending ==
    (IF outgoing # NoPacket /\ pc # "taskdone" THEN <<outgoing>> ELSE <<>>)
        \o queueOutput

Calls == {p \in Packet : p[2] <= attempts[p[1]]}
Given == [i \in 1..Len(settled) |-> settled[i].packet]

AbstractQueue == INSTANCE OutputQueue WITH
    calls <- Calls, queue <- Pending, given <- Given

\* Refinement: the queue, its count and the thread together keep the promise
\* of AbstractChannel.write, also for a write that tested the mode before
\* run() switched it and reaches the socket afterwards.
ImplementsOutputQueue == AbstractQueue!Spec



-----------------------------------------------------------------------------
(* What the documentation says and the code does not do. *)

\* AbstractChannel.isActive: "True if the thread execution has not finished".
ActiveIsRunning == pc \in {"finished", "dead"} => stopEvent
=============================================================================
