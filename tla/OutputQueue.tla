----------------------------- MODULE OutputQueue -----------------------------
(***************************************************************************)
(* What AbstractChannel.write promises its callers, whoever does the       *)
(* writing.  A call is made, takes effect and returns, in this order, so   *)
(* that a write that returned before another was called precedes it on the *)
(* socket.  A packet takes effect once: it joins the queue, whose packets  *)
(* are handed to the socket one at a time in their order, or, when the     *)
(* caller found the channel outside threaded mode, it is handed to the     *)
(* socket by the caller, ahead of all that are queued meanwhile.  The      *)
(* write of a queued packet returns only when the queue has been emptied.  *)
(***************************************************************************)
EXTENDS Sequences, SequencesExt

CONSTANT Packet

VARIABLES
    calls,      \* the packets for which write() was called
    queue,      \* those that wait, in order
    given,      \* those handed to the socket, in order
    returned    \* those whose write() has returned

vars == <<calls, queue, given, returned>>

Init == calls = {} /\ queue = <<>> /\ given = <<>> /\ returned = {}

Call(p) ==
    /\ p \notin calls
    /\ calls' = calls \cup {p}
    /\ UNCHANGED <<queue, given, returned>>

Called(p) == p \in calls \ (ToSet(queue) \cup ToSet(given))

Enqueue(p) ==
    /\ Called(p)
    /\ queue' = Append(queue, p)
    /\ UNCHANGED <<calls, given, returned>>

\* The socket is given the oldest packet that waits: it sends or refuses it.
Settle ==
    /\ queue # <<>>
    /\ given' = Append(given, Head(queue))
    /\ queue' = Tail(queue)
    /\ UNCHANGED <<calls, returned>>

Return(p) ==
    /\ p \in ToSet(given) /\ queue = <<>>
    /\ returned' = returned \cup {p}
    /\ UNCHANGED <<calls, queue, given>>

\* Outside threaded mode the caller writes on the socket itself.
WriteThrough(p) ==
    /\ Called(p)
    /\ given' = Append(given, p)
    /\ returned' = returned \cup {p}
    /\ UNCHANGED <<calls, queue>>

Next ==
    \/ Settle
    \/ \E p \in Packet : Call(p) \/ Enqueue(p) \/ Return(p) \/ WriteThrough(p)

Spec == Init /\ [][Next]_vars
=============================================================================
