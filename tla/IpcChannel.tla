---------------------------- MODULE IpcChannel ----------------------------
(***************************************************************************)
(* One IpcChannel used directly by its two ends: the sender sends and may  *)
(* cancel a request id, the receiver receives, either reconnects.          *)
(***************************************************************************)
EXTENDS Ipc, FiniteSets

CONSTANTS RequestIds,   \* request ids a sender uses (a sender may reuse one)
          Capacity,     \* the argument of IpcChannel::bounded
          MaxSequence   \* bound on next_sequence (u64 in the code)

ASSUME ChannelAssumption == Capacity \in Nat /\ MaxSequence \in Nat

VARIABLES chan,
          taken,        \* history of the connection: the numbers received
          cancelled     \* history of the connection: the numbers cancelled

channelVars == <<chan, taken, cancelled>>

Queued == {chan.queue[i].sequence : i \in DOMAIN chan.queue}

ChannelInit ==
    /\ chan = Bounded(Capacity)
    /\ taken = {}
    /\ cancelled = {}

\* send: stamps the message or answers Backpressure and changes nothing.
SendMessage(id) ==
    /\ chan.next_sequence < MaxSequence
    /\ ~Backpressure(chan)
    /\ chan' = Send(chan, id)
    /\ UNCHANGED <<taken, cancelled>>

ReceiveMessage ==
    /\ chan.queue # << >>
    /\ chan' = Receive(chan)
    /\ taken' = taken \cup {Head(chan.queue).sequence}
    /\ UNCHANGED cancelled

CancelRequest(id) ==
    /\ chan' = Cancel(chan, id)
    /\ cancelled' = cancelled \cup
           {chan.queue[i].sequence :
               i \in {j \in DOMAIN chan.queue : chan.queue[j].request_id = id}}
    /\ UNCHANGED taken

ReconnectChannel ==
    /\ chan' = Reconnect(chan)
    /\ taken' = {}
    /\ cancelled' = {}

ChannelNext ==
    \/ \E id \in RequestIds : SendMessage(id) \/ CancelRequest(id)
    \/ ReceiveMessage
    \/ ReconnectChannel

---------------------------------------------------------------------------
(* The receiver sees sequence numbers rise: everything still queued is      *)
(* newer than everything received and the queue itself is in order, however *)
(* many messages cancel removed from its middle.                            *)
InOrder ==
    /\ \A i, j \in DOMAIN chan.queue :
           i < j => chan.queue[i].sequence < chan.queue[j].sequence
    /\ \A r \in taken, q \in Queued : r < q

(* Every number stamped on a connection is accounted for exactly once, in    *)
(* order: received, cancelled or queued.  A cancelled request is never       *)
(* delivered, a delivered one never reported as cancelled, none is lost when *)
(* the channel is full, and a reconnection starts over.                      *)
ChannelConserves ==
    /\ InOrder
    /\ taken \cup cancelled \cup Queued = 0 .. (chan.next_sequence - 1)
    /\ taken \cap cancelled = {}
    /\ (taken \cup cancelled) \cap Queued = {}
    /\ Len(chan.queue) <= chan.capacity
    /\ Len(chan.queue) = Cardinality(Queued)
===========================================================================
