---------------------- MODULE ProcessSupervisorProofs ----------------------
(***************************************************************************)
(* What the supervisor keeps true for every topology, every set of         *)
(* messages and every channel bound.                                       *)
(***************************************************************************)
EXTENDS Processes, FiniteSetTheorems, SequenceTheorems, WellFoundedInduction, TLAPS

(* The lifecycle half of the inductive invariant.  None of the parts is     *)
(* inductive alone: that an orphan's kind stays occupied needs to know that *)
(* the dropped handle belonged to a Running kind, and that a Crashed kind   *)
(* has no orphan needs the reverse.                                         *)
LifecycleTypes ==
    /\ state    \in [Kinds -> ProcessState]
    /\ child    \in [Kinds -> Handle]
    /\ launches \subseteq Kinds
    /\ orphans  \subseteq Kinds
    /\ result   \in Results

(* The inductive invariant of the lifecycle.                                 *)
LifecycleInv ==
    /\ LifecycleTypes
    /\ OneProcessPerKind
    /\ HandlesMatchTopology

(* No process runs to begin with.                                            *)
LEMMA LifecycleInit == Init => LifecycleInv
  BY DEF Init, LifecycleInv, LifecycleTypes, OneProcessPerKind, HandlesMatchTopology,
         HasChild, Occupied, ProcessState, Handle, Results

(* Every call of the supervisor and every exit of a child keeps it.          *)
LEMMA LifecycleStep == LifecycleInv /\ [Next]_vars => LifecycleInv'
  <1> SUFFICES ASSUME LifecycleInv, [Next]_vars PROVE LifecycleInv'
    OBVIOUS
  <1> USE DEF LifecycleInv, LifecycleTypes, ProcessState, Handle, Results, Errors,
              IpcError, HasChild, Occupied, Returned, OneProcessPerKind,
              HandlesMatchTopology, messaging, lifecycle
  <1>1. ASSUME NEW k \in Kinds, launch(k) PROVE LifecycleInv'
    BY <1>1 DEF launch, Spawned
  <1>2. ASSUME NEW k \in Kinds, poll(k) PROVE LifecycleInv'
    BY <1>2 DEF poll
  <1>3. ASSUME NEW k \in Kinds, stop(k) PROVE LifecycleInv'
    BY <1>3 DEF stop
  <1>4. ASSUME NEW k \in Kinds, restart_after_crash(k) PROVE LifecycleInv'
    BY <1>4 DEF restart_after_crash, Restartable, Spawned
  <1>5. ASSUME NEW k \in Kinds, Exit(k) PROVE LifecycleInv'
    BY <1>5 DEF Exit
  <1>6. ASSUME NEW k \in Kinds, OrphanExit(k) PROVE LifecycleInv'
    BY <1>6 DEF OrphanExit
  <1>7. ASSUME NEW m \in Envelopes, route(m) PROVE LifecycleInv'
    BY <1>7 DEF route, Validate
  <1>8. ASSUME NEW r \in Routes, receive(r) PROVE LifecycleInv'
    BY <1>8 DEF receive
  <1>9. CASE UNCHANGED vars
    BY <1>9 DEF vars
  <1> QED
    BY <1>1, <1>2, <1>3, <1>4, <1>5, <1>6, <1>7, <1>8, <1>9 DEF Next

(* The messaging half: what was received followed by what is queued is what  *)
(* was accepted.                                                             *)
MessagingTypes ==
    /\ channels \in [Routes -> [capacity : {ChannelBound}, next_sequence : Nat,
                                queue : Seq(Stamps)]]
    /\ accepted \in [Routes -> Seq(Envelopes)]
    /\ received \in [Routes -> Seq(Stamps)]

(* The inductive invariant of the messages.                                  *)
MessagingInv == MessagingTypes /\ ExactlyOnceInOrder

(* ExactlyOnceInOrder of one channel's three sequences.                      *)
InStep(acc, rec, ch) ==
    /\ Len(acc) = Len(rec) + Len(ch.queue)
    /\ ch.next_sequence = Len(acc)
    /\ Len(ch.queue) <= ChannelBound
    /\ \A i \in 1 .. Len(acc) :
           (rec \o ch.queue)[i] = [sequence |-> i - 1, request_id |-> acc[i].request_id]

(* No message was sent to begin with.                                        *)
LEMMA MessagingInit == Init => MessagingInv
  BY SupervisorAssumption
  DEF SupervisorAssumption, Init, MessagingInv, MessagingTypes, ExactlyOnceInOrder,
      Bounded, Stamps

(* send keeps a channel in step with the history of accepted messages.       *)
LEMMA SendInStep ==
    ASSUME NEW ch \in [capacity : {ChannelBound}, next_sequence : Nat, queue : Seq(Stamps)],
           NEW acc \in Seq(Envelopes), NEW rec \in Seq(Stamps), NEW m \in Envelopes,
           InStep(acc, rec, ch), ~Backpressure(ch)
    PROVE  /\ Send(ch, m.request_id) \in
                 [capacity : {ChannelBound}, next_sequence : Nat, queue : Seq(Stamps)]
           /\ InStep(Append(acc, m), rec, Send(ch, m.request_id))
  <1> DEFINE st == Stamped(ch, m.request_id)
             q  == Append(ch.queue, st)
             a  == Append(acc, m)
  <1>1. m.request_id \in Ids
    BY SupervisorAssumption DEF SupervisorAssumption, IpcEnvelope
  <1>2. st \in Stamps
    BY <1>1 DEF Stamped, Stamps
  <1>3. q \in Seq(Stamps) /\ Len(q) = Len(ch.queue) + 1 /\ a \in Seq(Envelopes)
        /\ Len(a) = Len(acc) + 1
    BY <1>2
  <1>4. Send(ch, m.request_id) = [ch EXCEPT !.next_sequence = ch.next_sequence + 1, !.queue = q]
    BY DEF Send
  <1>5. /\ Send(ch, m.request_id).queue = q
        /\ Send(ch, m.request_id).next_sequence = ch.next_sequence + 1
        /\ Send(ch, m.request_id).capacity = ChannelBound
    BY <1>4
  <1>6. Len(q) <= ChannelBound
    BY <1>3, SupervisorAssumption DEF Backpressure, SupervisorAssumption, InStep
  <1>7. ASSUME NEW i \in 1 .. Len(a)
        PROVE  (rec \o q)[i] = [sequence |-> i - 1, request_id |-> a[i].request_id]
    <2>0. i \in Nat /\ Len(acc) \in Nat /\ i <= Len(acc) + 1
      BY <1>3
    <2>1. CASE i <= Len(acc)
      <3>1. a[i] = acc[i] /\ i \in 1 .. Len(acc)
        BY <2>1, <1>3
      <3>2. (rec \o q)[i] = (rec \o ch.queue)[i]
        BY <2>1, <1>3, <3>1, <1>2 DEF InStep
      <3> QED
        BY <3>1, <3>2 DEF InStep
    <2>2. CASE i = Len(acc) + 1
      <3>1. (rec \o q)[i] = st
        BY <2>2, <1>3, <1>2 DEF InStep
      <3>2. a[i] = m
        BY <2>2
      <3> QED
        BY <3>1, <3>2, <2>2 DEF Stamped, InStep
    <2>3. i <= Len(acc) \/ i = Len(acc) + 1
      BY <2>0
    <2> QED
      BY <2>1, <2>2, <2>3, Zenon
  <1>8. Send(ch, m.request_id) \in
            [capacity : {ChannelBound}, next_sequence : Nat, queue : Seq(Stamps)]
    <2> DEFINE c == [ch EXCEPT !.next_sequence = ch.next_sequence + 1]
    <2>1. c \in [capacity : {ChannelBound}, next_sequence : Nat, queue : Seq(Stamps)]
      OBVIOUS
    <2>2. Send(ch, m.request_id) = [c EXCEPT !.queue = q]
      BY <1>4
    <2> HIDE DEF q, c
    <2> QED
      BY <1>3, <2>1, <2>2
  <1>9. InStep(a, rec, Send(ch, m.request_id))
    <2>1. Len(a) = Len(rec) + Len(q) /\ ch.next_sequence + 1 = Len(a)
      BY <1>3 DEF InStep
    <2> QED
      BY <2>1, <1>5, <1>6, <1>7, Zenon DEF InStep
  <1> QED
    BY <1>8, <1>9

(* receive moves the head of the queue to the end of what was received.      *)
LEMMA ReceiveInStep ==
    ASSUME NEW ch \in [capacity : {ChannelBound}, next_sequence : Nat, queue : Seq(Stamps)],
           NEW acc \in Seq(Envelopes), NEW rec \in Seq(Stamps),
           InStep(acc, rec, ch), ch.queue # << >>
    PROVE  /\ Receive(ch) \in
                 [capacity : {ChannelBound}, next_sequence : Nat, queue : Seq(Stamps)]
           /\ Head(ch.queue) \in Stamps
           /\ InStep(acc, Append(rec, Head(ch.queue)), Receive(ch))
  <1> DEFINE q == ch.queue
             r == Append(rec, Head(q))
  <1>1. q \in Seq(Stamps) /\ Head(q) \in Stamps /\ Tail(q) \in Seq(Stamps)
        /\ Len(Tail(q)) = Len(q) - 1 /\ Head(q) = q[1] /\ Len(q) > 0
    OBVIOUS
  <1>2. Receive(ch).queue = Tail(q) /\ Receive(ch).next_sequence = ch.next_sequence
        /\ Receive(ch) \in [capacity : {ChannelBound}, next_sequence : Nat, queue : Seq(Stamps)]
    BY <1>1 DEF Receive
  <1>3. r \in Seq(Stamps) /\ Len(r) = Len(rec) + 1
    BY <1>1
  <1>4. ASSUME NEW i \in 1 .. Len(acc)
        PROVE  (r \o Tail(q))[i] = (rec \o q)[i]
    <2>0. i \in Nat /\ Len(rec) \in Nat
      OBVIOUS
    <2>1. CASE i <= Len(rec)
      BY <2>1, <1>1, <1>3
    <2>2. CASE i = Len(rec) + 1
      BY <2>2, <1>1, <1>3
    <2>3. CASE i > Len(rec) + 1
      BY <2>3, <1>1, <1>3 DEF InStep
    <2>4. i <= Len(rec) \/ i = Len(rec) + 1 \/ i > Len(rec) + 1
      BY <2>0
    <2> QED
      BY <2>1, <2>2, <2>3, <2>4, Zenon
  <1> QED
    BY <1>1, <1>2, <1>3, <1>4, SupervisorAssumption DEF InStep, SupervisorAssumption

(* Every send and every reception keeps it; nothing else touches a channel.  *)
LEMMA MessagingStep == MessagingInv /\ [Next]_vars => MessagingInv'
  <1> SUFFICES ASSUME MessagingInv, [Next]_vars PROVE MessagingInv'
    OBVIOUS
  <1>0. \A r \in Routes : InStep(accepted[r], received[r], channels[r])
    BY DEF MessagingInv, ExactlyOnceInOrder, InStep
  <1>a. ASSUME MessagingTypes',
               \A r \in Routes : InStep(accepted'[r], received'[r], channels'[r])
        PROVE  MessagingInv'
    BY <1>a DEF MessagingInv, ExactlyOnceInOrder, InStep
  <1>1. CASE UNCHANGED messaging
    BY <1>1 DEF messaging, MessagingInv, MessagingTypes, ExactlyOnceInOrder
  <1>2. ASSUME NEW m \in Envelopes, route(m), ~UNCHANGED messaging PROVE MessagingInv'
    <2> DEFINE e == <<m.source, m.destination>>
    <2>1. /\ Validate(Routes, m) = "Ok" /\ ~Backpressure(channels[e])
          /\ channels' = [channels EXCEPT ![e] = Send(@, m.request_id)]
          /\ accepted' = [accepted EXCEPT ![e] = Append(@, m)]
          /\ received' = received
      BY <1>2 DEF route, messaging
    <2>2. e \in Routes
      BY <2>1 DEF Validate
    <2>3. /\ Send(channels[e], m.request_id) \in
                [capacity : {ChannelBound}, next_sequence : Nat, queue : Seq(Stamps)]
          /\ InStep(Append(accepted[e], m), received[e], Send(channels[e], m.request_id))
      BY <1>0, <2>1, <2>2, SendInStep DEF MessagingInv, MessagingTypes
    <2>4. MessagingTypes'
      BY <2>1, <2>2, <2>3 DEF MessagingInv, MessagingTypes
    <2>5. ASSUME NEW r \in Routes
          PROVE  InStep(accepted'[r], received'[r], channels'[r])
      <3>1. CASE r = e
        BY <2>1, <2>2, <2>3, <3>1 DEF MessagingInv, MessagingTypes
      <3>2. CASE r # e
        BY <1>0, <2>1, <2>2, <3>2 DEF MessagingInv, MessagingTypes
      <3> QED
        BY <3>1, <3>2
    <2> QED
      BY <1>a, <2>4, <2>5
  <1>3. ASSUME NEW r \in Routes, receive(r), ~UNCHANGED messaging PROVE MessagingInv'
    <2>1. /\ channels[r].queue # << >>
          /\ channels' = [channels EXCEPT ![r] = Receive(@)]
          /\ received' = [received EXCEPT ![r] = Append(@, Head(channels[r].queue))]
          /\ accepted' = accepted
      BY <1>3 DEF receive, messaging
    <2>2. /\ Receive(channels[r]) \in
                [capacity : {ChannelBound}, next_sequence : Nat, queue : Seq(Stamps)]
          /\ Head(channels[r].queue) \in Stamps
          /\ InStep(accepted[r], Append(received[r], Head(channels[r].queue)),
                    Receive(channels[r]))
      BY <1>0, <2>1, ReceiveInStep DEF MessagingInv, MessagingTypes
    <2>3. MessagingTypes'
      BY <2>1, <2>2 DEF MessagingInv, MessagingTypes
    <2>4. ASSUME NEW s \in Routes
          PROVE  InStep(accepted'[s], received'[s], channels'[s])
      <3>1. CASE s = r
        BY <2>1, <2>2, <3>1 DEF MessagingInv, MessagingTypes
      <3>2. CASE s # r
        BY <1>0, <2>1, <3>2 DEF MessagingInv, MessagingTypes
      <3> QED
        BY <3>1, <3>2
    <2> QED
      BY <1>a, <2>3, <2>4
  <1>4. ASSUME NEW k \in Kinds,
               \/ launch(k) \/ poll(k) \/ stop(k) \/ restart_after_crash(k)
               \/ Exit(k) \/ OrphanExit(k)
        PROVE  UNCHANGED messaging
    BY <1>4 DEF launch, poll, stop, restart_after_crash, Exit, OrphanExit, messaging
  <1>5. CASE UNCHANGED vars
    BY <1>1, <1>5 DEF vars, messaging
  <1> QED
    BY <1>1, <1>2, <1>3, <1>4, <1>5 DEF Next

(* A kind never has two live processes, whatever spawn, kill and wait do.    *)
THEOREM OneProcess == Spec => []OneProcessPerKind
  <1>1. LifecycleInv => OneProcessPerKind
    BY DEF LifecycleInv
  <1> QED
    BY <1>1, LifecycleInit, LifecycleStep, PTL DEF Spec

(* Handles, states and remembered launches agree in every reachable state.   *)
THEOREM HandlesMatch == Spec => []HandlesMatchTopology
  <1>1. LifecycleInv => HandlesMatchTopology
    BY DEF LifecycleInv
  <1> QED
    BY <1>1, LifecycleInit, LifecycleStep, PTL DEF Spec

(* Every channel delivers what was accepted exactly once and in order,       *)
(* whatever happens to the processes at its ends.                            *)
THEOREM ExactlyOnce == Spec => []ExactlyOnceInOrder
  <1>1. MessagingInv => ExactlyOnceInOrder
    BY DEF MessagingInv
  <1> QED
    BY <1>1, MessagingInit, MessagingStep, PTL DEF Spec

(* The type invariant that TLC checks on the instance holds in general.      *)
THEOREM TypeCorrect == Spec => []TypeOK
  <1>1. LifecycleInv /\ MessagingInv => TypeOK
    BY DEF LifecycleInv, LifecycleTypes, MessagingInv, MessagingTypes, TypeOK
  <1> QED
    BY <1>1, LifecycleInit, LifecycleStep, MessagingInit, MessagingStep, PTL DEF Spec

---------------------------------------------------------------------------
(* The supervisor implements Fleet.                                          *)

(* A channel of a route.                                                     *)
Channel == [capacity : {ChannelBound}, next_sequence : Nat, queue : Seq(Stamps)]

(* The number of a queued message is its place among the accepted ones.      *)
LEMMA QueuePlaces ==
    ASSUME NEW ch \in Channel, NEW acc \in Seq(Envelopes), NEW rec \in Seq(Stamps),
           InStep(acc, rec, ch), NEW i \in 1 .. Len(ch.queue)
    PROVE  /\ ch.queue[i].sequence + 1 = Len(rec) + i
           /\ Len(rec) + i \in 1 .. Len(acc)
  <1> DEFINE q == ch.queue
             n == Len(rec) + i
  <1>1. q \in Seq(Stamps) /\ Len(rec) \in Nat /\ Len(q) \in Nat /\ i \in Nat /\ i >= 1
        /\ Len(acc) = Len(rec) + Len(q)
    BY DEF Channel, InStep
  <1>2. n \in 1 .. Len(acc)
    BY <1>1
  <1>3. (rec \o q)[n] = [sequence |-> n - 1, request_id |-> acc[n].request_id]
    BY <1>2 DEF InStep
  <1>4. (rec \o q)[n] = q[i]
    BY <1>1
  <1>5. q[i].sequence = n - 1
    BY <1>3, <1>4
  <1> HIDE DEF q
  <1>6. q[i].sequence + 1 = n
    BY <1>5, <1>1
  <1> QED
    BY <1>2, <1>6 DEF q

(* A function on an initial interval is a sequence.                          *)
LEMMA FunctionIsSeq ==
    ASSUME NEW S, NEW n \in Nat, NEW f \in [1 .. n -> S]
    PROVE  f \in Seq(S) /\ Len(f) = n
  <1>1. f \in Seq(S)
    BY SeqDef
  <1>2. Len(f) \in Nat /\ DOMAIN f = 1 .. Len(f)
    BY <1>1
  <1> QED
    BY <1>1, <1>2

(* What waits is a sequence of messages, as long as the queue.               *)
LEMMA WaitingIsSeq ==
    ASSUME NEW q \in Seq(Stamps), NEW acc \in Seq(Envelopes),
           \A i \in 1 .. Len(q) : q[i].sequence + 1 \in 1 .. Len(acc)
    PROVE  /\ Waiting(acc, q) \in Seq(Envelopes)
           /\ Len(Waiting(acc, q)) = Len(q)
           /\ \A i \in 1 .. Len(q) : Waiting(acc, q)[i] = acc[q[i].sequence + 1]
  <1>1. DOMAIN q = 1 .. Len(q) /\ Len(q) \in Nat
    OBVIOUS
  <1>2. \A i \in 1 .. Len(q) : acc[q[i].sequence + 1] \in Envelopes
    OBVIOUS
  <1>3. Waiting(acc, q) \in [1 .. Len(q) -> Envelopes]
    BY <1>1, <1>2 DEF Waiting
  <1>4. Waiting(acc, q) \in Seq(Envelopes) /\ Len(Waiting(acc, q)) = Len(q)
    BY <1>1, <1>3, FunctionIsSeq
  <1> QED
    BY <1>1, <1>4 DEF Waiting

(* What waits after send is what waited, and the message.                    *)
LEMMA PostWaiting ==
    ASSUME NEW ch \in Channel, NEW acc \in Seq(Envelopes), NEW rec \in Seq(Stamps),
           NEW m \in Envelopes, InStep(acc, rec, ch), ~Backpressure(ch)
    PROVE  /\ Waiting(Append(acc, m), Send(ch, m.request_id).queue)
                  = Append(Waiting(acc, ch.queue), m)
           /\ Len(Waiting(acc, ch.queue)) < ChannelBound
  <1> DEFINE q == ch.queue
             st == Stamped(ch, m.request_id)
             w == Waiting(acc, q)
             a == Append(acc, m)
  <1>1. q \in Seq(Stamps) /\ Len(acc) \in Nat /\ ch.next_sequence = Len(acc)
        /\ ch.capacity = ChannelBound
    BY DEF Channel, InStep
  <1>2. Send(ch, m.request_id).queue = Append(q, st)
    BY DEF Send, Channel
  <1>3. st.sequence + 1 = Len(acc) + 1
    BY <1>1 DEF Stamped
  <1>4. \A i \in 1 .. Len(q) : q[i].sequence + 1 \in 1 .. Len(acc)
    BY QueuePlaces
  <1>5. w \in Seq(Envelopes) /\ Len(w) = Len(q) /\ \A i \in 1 .. Len(q) : w[i] = acc[q[i].sequence + 1]
    BY <1>1, <1>4, WaitingIsSeq
  <1>6. a[Len(acc) + 1] = m /\ \A j \in 1 .. Len(acc) : a[j] = acc[j]
    OBVIOUS
  <1> DEFINE q2 == Append(q, st)
             w2 == Append(w, m)
  <1>7. DOMAIN q2 = 1 .. Len(q) + 1 /\ q2[Len(q) + 1] = st /\ \A i \in 1 .. Len(q) : q2[i] = q[i]
    BY <1>1
  <1>8. DOMAIN w2 = 1 .. Len(q) + 1 /\ w2[Len(q) + 1] = m /\ \A i \in 1 .. Len(q) : w2[i] = w[i]
    BY <1>5
  <1>9. w2 = [i \in DOMAIN w2 |-> w2[i]]
    BY <1>5
  <1>10. Len(q) \in Nat
    BY <1>1
  <1> HIDE DEF a, q2, w2, w, q, st
  <1>11. ASSUME NEW i \in 1 .. Len(q) + 1 PROVE a[q2[i].sequence + 1] = w2[i]
    <2>1. CASE i = Len(q) + 1
      BY <2>1, <1>3, <1>6, <1>7, <1>8
    <2>2. CASE i \in 1 .. Len(q)
      BY <2>2, <1>4, <1>5, <1>6, <1>7, <1>8
    <2> QED
      BY <2>1, <2>2, <1>10
  <1>12. Waiting(a, q2) = w2
    BY <1>7, <1>8, <1>9, <1>11 DEF Waiting
  <1>13. Len(w) < ChannelBound
    BY <1>1, <1>5, <1>10, SupervisorAssumption DEF Backpressure, SupervisorAssumption, q
  <1> QED
    BY <1>2, <1>12, <1>13 DEF a, q2, w2, w, q

(* What waits after receive is what waited, without the oldest.              *)
LEMMA DeliverWaiting ==
    ASSUME NEW ch \in Channel, NEW acc \in Seq(Envelopes), NEW rec \in Seq(Stamps),
           InStep(acc, rec, ch), ch.queue # << >>
    PROVE  /\ Waiting(acc, ch.queue) # << >>
           /\ Waiting(acc, Receive(ch).queue) = Tail(Waiting(acc, ch.queue))
  <1> DEFINE q == ch.queue
             w == Waiting(acc, q)
  <1>1. q \in Seq(Stamps) /\ Len(q) \in Nat /\ Len(q) > 0
    BY DEF Channel
  <1>2. Receive(ch).queue = Tail(q)
    BY DEF Receive, Channel
  <1>3. \A i \in 1 .. Len(q) : q[i].sequence + 1 \in 1 .. Len(acc)
    BY QueuePlaces
  <1>4. w \in Seq(Envelopes) /\ Len(w) = Len(q) /\ \A i \in 1 .. Len(q) : w[i] = acc[q[i].sequence + 1]
    BY <1>1, <1>3, WaitingIsSeq
  <1>5. Tail(q) \in Seq(Stamps) /\ Len(Tail(q)) = Len(q) - 1
        /\ \A i \in 1 .. Len(q) - 1 : Tail(q)[i] = q[i + 1]
    BY <1>1
  <1>6. Tail(w) = [i \in 1 .. Len(q) - 1 |-> w[i + 1]]
    BY <1>1, <1>4
  <1>7. DOMAIN Tail(q) = 1 .. Len(q) - 1
    BY <1>5
  <1>8. w # << >>
    BY <1>1, <1>4
  <1> HIDE DEF w, q
  <1>9. ASSUME NEW i \in 1 .. Len(q) - 1 PROVE acc[Tail(q)[i].sequence + 1] = w[i + 1]
    BY <1>1, <1>4, <1>5
  <1>10. Waiting(acc, Tail(q)) = Tail(w)
    BY <1>6, <1>7, <1>9 DEF Waiting
  <1> QED
    BY <1>2, <1>8, <1>10 DEF w, q

(* At the start nothing runs and nothing waits.                              *)
LEMMA FleetInit == Init => Promise!Init
  <1> SUFFICES ASSUME Init PROVE Promise!Init
    OBVIOUS
  <1>1. Running = [k \in Kinds |-> 0]
    BY DEF Init, Running, Alive
  <1>2. ASSUME NEW r \in Routes PROVE Waiting(accepted[r], channels[r].queue) = << >>
    BY DEF Init, Bounded, Waiting
  <1>3. Inbox = [r \in Routes |-> << >>]
    BY <1>2 DEF Inbox
  <1> QED
    BY <1>1, <1>3 DEF Promise!Init

(* Launches, crashes and stops start and end the one process of a kind, or   *)
(* nothing that counts.                                                      *)
LEMMA FleetProcesses ==
    ASSUME LifecycleInv, NEW k \in Kinds,
           \/ launch(k) \/ poll(k) \/ stop(k) \/ restart_after_crash(k)
           \/ Exit(k) \/ OrphanExit(k)
    PROVE  \/ Running[k] = 0 /\ Running' = [Running EXCEPT ![k] = 1]
           \/ Running[k] = 1 /\ Running' = [Running EXCEPT ![k] = 0]
           \/ Running' = Running
  <1>1. LifecycleInv'
    BY LifecycleStep DEF Next
  <1>2. Alive(k) \in {0, 1} /\ (Alive(k) \in {0, 1})'
    BY <1>1 DEF LifecycleInv, OneProcessPerKind, HasChild, Alive
  <1>3. ASSUME NEW j \in Kinds, j # k
        PROVE  child'[j] = child[j] /\ (j \in orphans' <=> j \in orphans)
    BY <1>3 DEF launch, poll, stop, restart_after_crash, Exit, OrphanExit, Spawned, lifecycle,
                LifecycleInv, LifecycleTypes
  <1>4. \A j \in Kinds : j # k => Alive(j)' = Alive(j)
    BY <1>3 DEF Alive
  <1> QED
    BY <1>2, <1>4 DEF Running

(* What validate lets through is lawful.                                     *)
LEMMA ValidIsLawful ==
    ASSUME NEW m \in Envelopes, Validate(Routes, m) = "Ok"
    PROVE  m \in Lawful /\ <<m.source, m.destination>> \in Routes
  BY DEF Validate, Lawful, BadHandshake, RawSecret

(* Every step is one of the fleet or none.                                   *)
LEMMA FleetStep == LifecycleInv /\ MessagingInv /\ [Next]_vars => [Promise!Next]_(Promise!vars)
  <1> SUFFICES ASSUME LifecycleInv, MessagingInv, [Next]_vars
               PROVE  Promise!Next \/ UNCHANGED Promise!vars
    OBVIOUS
  <1>0. \A r \in Routes : /\ channels[r] \in Channel
                          /\ accepted[r] \in Seq(Envelopes) /\ received[r] \in Seq(Stamps)
                          /\ InStep(accepted[r], received[r], channels[r])
    BY DEF MessagingInv, MessagingTypes, ExactlyOnceInOrder, InStep, Channel
  <1>1. ASSUME NEW k \in Kinds,
               \/ launch(k) \/ poll(k) \/ stop(k) \/ restart_after_crash(k)
               \/ Exit(k) \/ OrphanExit(k)
        PROVE  Promise!Next \/ UNCHANGED Promise!vars
    <2>1. Inbox' = Inbox
      BY <1>1 DEF launch, poll, stop, restart_after_crash, Exit, OrphanExit, messaging, Inbox
    <2>2. \/ Running[k] = 0 /\ Running' = [Running EXCEPT ![k] = 1]
          \/ Running[k] = 1 /\ Running' = [Running EXCEPT ![k] = 0]
          \/ Running' = Running
      BY <1>1, FleetProcesses
    <2> QED
      BY <2>1, <2>2 DEF Promise!Next, Promise!Start, Promise!End, Promise!vars
  <1>2. ASSUME NEW m \in Envelopes, route(m) PROVE Promise!Next \/ UNCHANGED Promise!vars
    <2> DEFINE e == <<m.source, m.destination>>
    <2>1. Running' = Running
      BY <1>2 DEF route, lifecycle, Running, Alive
    <2>2. CASE UNCHANGED <<channels, accepted>>
      BY <2>1, <2>2 DEF Inbox, Promise!vars
    <2>3. CASE /\ Validate(Routes, m) = "Ok" /\ ~Backpressure(channels[e])
               /\ channels' = [channels EXCEPT ![e] = Send(@, m.request_id)]
               /\ accepted' = [accepted EXCEPT ![e] = Append(@, m)]
      <3>1. m \in Lawful /\ e \in Routes
        BY <2>3, ValidIsLawful
      <3>2. /\ Waiting(Append(accepted[e], m), Send(channels[e], m.request_id).queue)
                  = Append(Waiting(accepted[e], channels[e].queue), m)
            /\ Len(Waiting(accepted[e], channels[e].queue)) < ChannelBound
        BY <1>0, <2>3, <3>1, PostWaiting
      <3>3. Inbox[e] = Waiting(accepted[e], channels[e].queue)
        BY <3>1 DEF Inbox
      <3>4. accepted'[e] = Append(accepted[e], m) /\ channels'[e] = Send(channels[e], m.request_id)
        BY <2>3, <3>1 DEF MessagingInv, MessagingTypes
      <3>5. \A r \in Routes : r # e => accepted'[r] = accepted[r] /\ channels'[r] = channels[r]
        BY <2>3 DEF MessagingInv, MessagingTypes
      <3>6. Inbox' = [Inbox EXCEPT ![e] = Append(Inbox[e], m)]
        BY <3>1, <3>2, <3>3, <3>4, <3>5 DEF Inbox
      <3>7. Promise!Post(m)
        BY <2>1, <3>2, <3>3, <3>6 DEF Promise!Post
      <3> QED
        BY <3>1, <3>7 DEF Promise!Next
    <2> QED
      BY <1>2, <2>2, <2>3 DEF route
  <1>3. ASSUME NEW r \in Routes, receive(r) PROVE Promise!Next \/ UNCHANGED Promise!vars
    <2>1. Running' = Running
      BY <1>3 DEF receive, lifecycle, Running, Alive
    <2>2. CASE UNCHANGED channels
      BY <1>3, <2>1, <2>2 DEF receive, Inbox, Promise!vars
    <2>3. CASE channels[r].queue # << >> /\ channels' = [channels EXCEPT ![r] = Receive(@)]
      <3>1. /\ Waiting(accepted[r], channels[r].queue) # << >>
            /\ Waiting(accepted[r], Receive(channels[r]).queue)
                  = Tail(Waiting(accepted[r], channels[r].queue))
        BY <1>0, <2>3, DeliverWaiting
      <3>2. Inbox[r] = Waiting(accepted[r], channels[r].queue)
        BY DEF Inbox
      <3>3. accepted' = accepted /\ channels'[r] = Receive(channels[r])
            /\ \A s \in Routes : s # r => channels'[s] = channels[s]
        BY <1>3, <2>3 DEF receive, MessagingInv, MessagingTypes
      <3>4. Inbox' = [Inbox EXCEPT ![r] = Tail(Inbox[r])]
        BY <3>1, <3>2, <3>3 DEF Inbox
      <3>5. Promise!Deliver(r)
        BY <2>1, <3>1, <3>2, <3>4 DEF Promise!Deliver
      <3> QED
        BY <3>5 DEF Promise!Next
    <2> QED
      BY <1>3, <2>2, <2>3 DEF receive
  <1>4. CASE UNCHANGED vars
    BY <1>4 DEF vars, Promise!vars, Running, Alive, Inbox
  <1> QED
    BY <1>1, <1>2, <1>3, <1>4 DEF Next

(* The supervisor implements Fleet for every topology, message set and       *)
(* bound: through failed spawns, kills and waits it never has two processes  *)
(* of a kind alive, and every route is a bounded first-in first-out inbox of *)
(* lawful messages.                                                          *)
THEOREM SupervisorImplementsFleet == Spec => ImplementsFleet
  BY FleetInit, FleetStep, LifecycleInit, LifecycleStep, MessagingInit, MessagingStep, PTL
  DEF Spec, ImplementsFleet, Promise!Spec

(* A behaviour of Processes is, of the supervisor, one of its own: what is   *)
(* proved of Spec holds where a channel in other hands exists beside it.     *)
THEOREM SupervisorInProcesses == ProcessesSpec => Spec /\ ImplementsFleet
  <1>1. ProcessesInit => Init
    BY DEF ProcessesInit
  <1>2. [ProcessesNext]_<<part, vars, channelVars>> => [Next]_vars
    BY DEF ProcessesNext
  <1>3. ProcessesSpec => Spec
    BY <1>1, <1>2, PTL DEF ProcessesSpec, Spec
  <1> QED
    BY <1>3, SupervisorImplementsFleet, PTL
-----------------------------------------------------------------------------
(* A channel in the hands of its two ends (IpcChannel) *)
(* A set of numbers that is not empty has a smallest one.                    *)
LEMMA LeastNumber ==
    ASSUME NEW T, T \subseteq Nat, T # {}
    PROVE  \E x \in T : \A y \in T : x <= y
  <1> DEFINE R == {ss \in Nat \X Nat : ss[1] < ss[2]}
  <1>1. IsWellFoundedOn(R, Nat)
    BY NatLessThanWellFounded DEF OpToRel
  <1> HIDE DEF R
  <1>2. PICK x \in T : \A y \in T : <<y, x>> \notin R
    BY <1>1, WFMin
  <1>3. \A y \in T : ~(y < x)
    BY <1>2 DEF R
  <1> QED
    BY <1>3

(* Induction up to n, over a set of numbers in the place of a predicate.     *)
LEMMA UpTo ==
    ASSUME NEW n \in Nat, NEW P, 0 \in P, \A i \in 1 .. n : i - 1 \in P => i \in P
    PROVE  \A i \in 0 .. n : i \in P
  <1> DEFINE T == (0 .. n) \ P
  <1> SUFFICES ASSUME T # {} PROVE FALSE
    OBVIOUS
  <1>1. T \subseteq Nat
    OBVIOUS
  <1>2. PICK m \in T : \A k \in T : m <= k
    <2> HIDE DEF T
    <2> QED
      BY <1>1, LeastNumber
  <1>3. m \in 0 .. n /\ m \notin P /\ m # 0
    BY <1>2
  <1>4. m \in 1 .. n /\ m - 1 \in 0 .. n /\ m - 1 \notin P /\ ~(m <= m - 1)
    BY <1>3
  <1>5. m - 1 \in T
    BY <1>4
  <1> HIDE DEF T
  <1> QED
    BY <1>2, <1>4, <1>5

(* The steps of a recursion over 0 .. n in S, and a function made by them.   *)
StepsIn(n, S, step) == step \in [(1 .. n) \X S -> S]
(* The function g makes each of its values from the one before.              *)
MadeBy(n, S, base, step, g) ==
    g \in [0 .. n -> S] /\ g[0] = base /\ \A i \in 1 .. n : g[i] = step[<<i, g[i - 1]>>]

(* A recursion over 0 .. n whose steps stay in a set has a function.         *)
LEMMA RecursionExists ==
    ASSUME NEW n \in Nat, NEW S, NEW base \in S, NEW step, StepsIn(n, S, step)
    PROVE  \E g : MadeBy(n, S, base, step, g)
  <1> DEFINE Steps(g, m) == g[0] = base /\ \A i \in 1 .. m : g[i] = step[<<i, g[i - 1]>>]
             P == {m \in 0 .. n : \E g \in [0 .. m -> S] : Steps(g, m)}
  <1>1. 0 \in P
    <2> DEFINE g == [i \in 0 .. 0 |-> base]
    <2>1. g \in [0 .. 0 -> S] /\ Steps(g, 0) /\ 0 \in 0 .. n
      OBVIOUS
    <2> HIDE DEF g, Steps
    <2> QED
      BY <2>1
  <1>2. ASSUME NEW m \in 1 .. n, m - 1 \in P PROVE m \in P
    <2>1. PICK h \in [0 .. m - 1 -> S] : Steps(h, m - 1)
      <3> HIDE DEF Steps
      <3> QED
        BY <1>2
    <2> DEFINE e == step[<<m, h[m - 1]>>]
               g == [i \in 0 .. m |-> IF i = m THEN e ELSE h[i]]
    <2>2. e \in S
      <3>1. h[m - 1] \in S
        OBVIOUS
      <3> QED
        BY <3>1 DEF StepsIn
    <2>3. \A i \in 0 .. m : (i # m => i \in 0 .. m - 1)
      OBVIOUS
    <2> HIDE DEF e
    <2>4. g \in [0 .. m -> S]
      BY <2>2, <2>3
    <2>5. g[m] = e /\ \A i \in 0 .. m - 1 : g[i] = h[i]
      OBVIOUS
    <2> HIDE DEF g
    <2>6. Steps(g, m)
      <3>1. 0 \in 0 .. m - 1 /\ m - 1 \in 0 .. m - 1
        OBVIOUS
      <3>2. \A i \in 1 .. m - 1 : i \in 0 .. m - 1 /\ i - 1 \in 0 .. m - 1
        OBVIOUS
      <3>3. g[m] = step[<<m, g[m - 1]>>]
        BY <2>5, <3>1 DEF e
      <3>4. \A i \in 1 .. m - 1 : g[i] = step[<<i, g[i - 1]>>]
        BY <2>1, <2>5, <3>2
      <3>5. \A i \in 1 .. m : i = m \/ i \in 1 .. m - 1
        OBVIOUS
      <3> QED
        BY <2>1, <2>5, <3>1, <3>3, <3>4, <3>5
    <2>7. m \in 0 .. n
      OBVIOUS
    <2> HIDE DEF Steps
    <2> QED
      BY <2>4, <2>6, <2>7
  <1>3. n \in P
    <2>1. n \in 0 .. n
      OBVIOUS
    <2> HIDE DEF P
    <2> QED
      BY <1>1, <1>2, <2>1, UpTo
  <1> HIDE DEF Steps
  <1>4. PICK g \in [0 .. n -> S] : Steps(g, n)
    BY <1>3
  <1> QED
    BY <1>4 DEF Steps, MadeBy

(* Messages in the order of their numbers.                                   *)
InSequence(queue) ==
    /\ \A i \in 1 .. Len(queue) : queue[i].sequence \in Nat
    /\ \A i, j \in 1 .. Len(queue) : i < j => queue[i].sequence < queue[j].sequence

(* The messages of the other requests.                                       *)
OthersOf(queue, id, rest) ==
    /\ Len(rest) <= Len(queue)
    /\ \A i, j \in 1 .. Len(rest) : i < j => rest[i].sequence < rest[j].sequence
    /\ {rest[i] : i \in 1 .. Len(rest)} =
          {queue[i] : i \in {j \in 1 .. Len(queue) : queue[j].request_id # id}}

(* retain keeps, in their order, the messages of the other requests.         *)
LEMMA WithoutIs ==
    ASSUME NEW M, NEW queue \in Seq(M), NEW id, InSequence(queue)
    PROVE  Without(queue, id) \in Seq(M) /\ OthersOf(queue, id, Without(queue, id))
  <1> DEFINE n == Len(queue)
             S == Seq(M)
             Keeps(e, s) == IF e.request_id = id THEN s ELSE Append(s, e)
             Made(g) == [i \in 0 .. n |-> IF i = 0 THEN << >> ELSE Keeps(queue[i], g[i - 1])]
             kept == CHOOSE g : g = Made(g)
             step == [p \in (1 .. n) \X S |-> Keeps(queue[p[1]], p[2])]
             Others(m) == {queue[i] : i \in {j \in 1 .. m : queue[j].request_id # id}}
             Good(m, s) == /\ s \in Seq(M) /\ Len(s) <= m
                           /\ \A i, j \in 1 .. Len(s) : i < j => s[i].sequence < s[j].sequence
                           /\ {s[i] : i \in 1 .. Len(s)} = Others(m)
             P == {m \in 0 .. n : Good(m, kept[m])}
  <1>1. n \in Nat /\ \A i \in 1 .. n : queue[i] \in M
    BY LenProperties, ElementOfSeq
  <1>2. Without(queue, id) = kept[n]
    BY Zenon DEF Without
  <1> HIDE DEF n
  <1>3. step \in [(1 .. n) \X S -> S] /\ << >> \in S
    <2>1. \A p \in (1 .. n) \X S : Keeps(queue[p[1]], p[2]) \in S
      BY <1>1
    <2> HIDE DEF Keeps, S
    <2>2. step \in [(1 .. n) \X S -> S]
      BY <2>1
    <2> QED
      BY <2>2 DEF S
  <1>4. PICK g \in [0 .. n -> S] : g[0] = << >> /\ \A i \in 1 .. n : g[i] = step[<<i, g[i - 1]>>]
    <2>1. n \in Nat /\ << >> \in S /\ StepsIn(n, S, step)
      BY <1>1, <1>3 DEF StepsIn
    <2> HIDE DEF S, step
    <2>2. PICK g : MadeBy(n, S, << >>, step, g)
      BY <2>1, RecursionExists
    <2> QED
      BY <2>2 DEF MadeBy
  <1> HIDE DEF S
  <1>5. g = Made(g)
    <2>1. \A i \in 0 .. n : i = 0 \/ (i \in 1 .. n /\ i - 1 \in 0 .. n)
      BY <1>1
    <2> HIDE DEF Keeps
    <2>2. \A i \in 1 .. n : i - 1 \in 0 .. n => g[i] = Keeps(queue[i], g[i - 1])
      BY <1>4
    <2> QED
      BY <1>4, <2>1, <2>2
  <1> HIDE DEF step
  <1>6. kept = Made(kept)
    <2> HIDE DEF Made
    <2> QED
      BY <1>5, Zenon
  <1> HIDE DEF kept
  <1>7. kept[0] = << >> /\ \A i \in 1 .. n : kept[i] = Keeps(queue[i], kept[i - 1])
    <2> HIDE DEF Keeps
    <2>1. PICK e : e = Made(kept)
      OBVIOUS
    <2>2. \A i \in 0 .. n : e[i] = IF i = 0 THEN << >> ELSE Keeps(queue[i], kept[i - 1])
      BY <2>1
    <2>3. e = kept
      BY <1>6, <2>1
    <2>4. 0 \in 0 .. n /\ \A i \in 1 .. n : i \in 0 .. n /\ i # 0
      BY <1>1
    <2> HIDE DEF Made
    <2> QED
      BY <2>2, <2>3, <2>4
  <1> HIDE DEF Made
  <1>8. 0 \in P
    <2>1. << >> \in Seq(M) /\ Len(<< >>) = 0 /\ 0 \in 0 .. n /\ 1 .. 0 = {}
      BY <1>1
    <2>2. Good(0, << >>)
      BY <2>1
    <2> HIDE DEF Good
    <2> QED
      BY <1>7, <2>1, <2>2
  <1>9. ASSUME NEW m \in 1 .. n, m - 1 \in P PROVE m \in P
    <2> DEFINE s == kept[m - 1]
               e == queue[m]
    <2>1. Good(m - 1, s)
      BY <1>9
    <2>2. m \in 0 .. n /\ e \in M /\ e.sequence \in Nat
      BY <1>1 DEF n, InSequence
    <2>3. Len(s) \in Nat
      BY <2>1, LenProperties
    <2>4. \A i : i \in 1 .. m <=> i \in 1 .. m - 1 \/ i = m
      OBVIOUS
    <2>5. CASE e.request_id = id
      <3>1. kept[m] = s
        BY <1>7, <2>5
      <3>2. Others(m) = Others(m - 1)
        BY <2>4, <2>5
      <3> HIDE DEF Others, s
      <3>3. Good(m, s)
        BY <2>1, <2>3, <3>2
      <3> HIDE DEF Good
      <3> QED
        BY <2>2, <3>1, <3>3
    <2>6. CASE e.request_id # id
      <3>1. kept[m] = Append(s, e)
        BY <1>7, <2>6
      <3>2. Others(m) = Others(m - 1) \cup {e}
        BY <2>4, <2>6
      <3>3. \A x \in Others(m - 1) : x.sequence < e.sequence
        <4> SUFFICES ASSUME NEW i \in 1 .. m - 1 PROVE queue[i].sequence < queue[m].sequence
          OBVIOUS
        <4> QED
          BY <1>1 DEF n, InSequence
      <3> HIDE DEF Others, e, s
      <3>4. s \in Seq(M)
        BY <2>1
      <3> DEFINE t == Append(s, e)
      <3>5. /\ t \in Seq(M) /\ Len(t) = Len(s) + 1 /\ t[Len(s) + 1] = e
            /\ \A i \in 1 .. Len(s) : t[i] = s[i]
        BY <2>2, <3>4, AppendProperties
      <3> HIDE DEF t
      <3>6. \A i : i \in 1 .. Len(s) + 1 <=> i \in 1 .. Len(s) \/ i = Len(s) + 1
        BY <2>3
      <3>7. {t[i] : i \in 1 .. Len(t)} = Others(m)
        BY <2>1, <3>2, <3>5, <3>6
      <3>8. ASSUME NEW i \in 1 .. Len(t), NEW j \in 1 .. Len(t), i < j
            PROVE  t[i].sequence < t[j].sequence
        <4>1. i \in 1 .. Len(s)
          BY <2>3, <3>5, <3>8
        <4>2. CASE j \in 1 .. Len(s)
          BY <2>1, <3>5, <3>8, <4>1, <4>2
        <4>3. CASE j = Len(s) + 1
          <5>1. s[i] \in Others(m - 1)
            BY <2>1, <4>1
          <5> QED
            BY <3>3, <3>5, <4>1, <4>3, <5>1
        <4> QED
          BY <3>5, <3>6, <4>2, <4>3
      <3>9. Len(t) <= m
        BY <2>1, <2>3, <3>5
      <3>10. Good(m, t)
        BY <3>5, <3>7, <3>8, <3>9
      <3> HIDE DEF Good
      <3> QED
        BY <2>2, <3>1, <3>10 DEF t
    <2> QED
      BY <2>5, <2>6
  <1>10. n \in P
    <2>1. n \in 0 .. n
      BY <1>1
    <2> HIDE DEF P
    <2> QED
      BY <1>1, <1>8, <1>9, <2>1, UpTo
  <1>11. Good(n, kept[n])
    BY <1>10
  <1> QED
    BY <1>2, <1>11, Zenon DEF n, OthersOf

(* ChannelConserves with the types it needs; Numbers are those queued.       *)
Numbers(queue) == {queue[i].sequence : i \in DOMAIN queue}
(* What a channel queues of an envelope.                                     *)
Queuing == [sequence : Nat, request_id : RequestIds]

(* Every number handed out is queued, received or cancelled, once.           *)
Conserves(queue, next, got, gone) ==
    /\ \A i, j \in 1 .. Len(queue) : i < j => queue[i].sequence < queue[j].sequence
    /\ \A r \in got, q \in Numbers(queue) : r < q
    /\ got \cup gone \cup Numbers(queue) = 0 .. next - 1
    /\ got \cap gone = {} /\ (got \cup gone) \cap Numbers(queue) = {}

(* The channel conserves, by its own fields.                                 *)
ChannelInv ==
    /\ DOMAIN chan = {"capacity", "next_sequence", "queue"}
    /\ chan.capacity \in Nat \ {0} /\ chan.next_sequence \in Nat /\ chan.queue \in Seq(Queuing)
    /\ Len(chan.queue) <= chan.capacity
    /\ Conserves(chan.queue, chan.next_sequence, taken, cancelled)

(* Messages in ascending order have as many numbers as there are messages.   *)
LEMMA NumbersCounted ==
    ASSUME NEW queue \in Seq(Queuing),
           \A i, j \in 1 .. Len(queue) : i < j => queue[i].sequence < queue[j].sequence
    PROVE  Len(queue) = Cardinality(Numbers(queue))
  <1> DEFINE n == Len(queue)
             f == [i \in 1 .. n |-> queue[i].sequence]
  <1>1. n \in Nat /\ DOMAIN queue = 1 .. n /\ \A i \in 1 .. n : queue[i].sequence \in Nat
    <2>1. n \in Nat /\ DOMAIN queue = 1 .. n /\ \A i \in 1 .. n : queue[i] \in Queuing
      BY LenProperties, ElementOfSeq
    <2> QED
      BY <2>1 DEF Queuing
  <1> HIDE DEF n
  <1>2. \A i, j \in 1 .. n : i < j => queue[i].sequence < queue[j].sequence
    BY DEF n
  <1>3. f \in Bijection(1 .. n, Numbers(queue))
    <2>1. f \in Surjection(1 .. n, Numbers(queue))
      BY <1>1 DEF Surjection, Numbers
    <2>2. \A i, j \in 1 .. n : f[i] = f[j] => i = j
      <3> SUFFICES ASSUME NEW i \in 1 .. n, NEW j \in 1 .. n, i # j PROVE f[i] # f[j]
        OBVIOUS
      <3>1. i < j \/ j < i
        BY <1>1
      <3> QED
        BY <1>1, <1>2, <3>1
    <2>3. f \in Injection(1 .. n, Numbers(queue))
      BY <2>1, <2>2 DEF Injection, Surjection, IsInjective
    <2> QED
      BY <2>1, <2>3 DEF Bijection
  <1>4. IsFiniteSet(1 .. n) /\ Cardinality(1 .. n) = n
    <2>1. 1 \in Int /\ n \in Int
      BY <1>1
    <2>2. IsFiniteSet(1 .. n) /\ Cardinality(1 .. n) = IF 1 > n THEN 0 ELSE n - 1 + 1
      BY <2>1, FS_Interval, Zenon
    <2> QED
      BY <1>1, <2>2
  <1> HIDE DEF f
  <1>5. Cardinality(Numbers(queue)) = Cardinality(1 .. n)
    <2>1. PICK S : S = 1 .. n
      OBVIOUS
    <2>2. IsFiniteSet(S) /\ f \in Bijection(S, Numbers(queue))
      BY <1>3, <1>4, <2>1
    <2>3. Cardinality(Numbers(queue)) = Cardinality(S)
      BY <2>2, FS_Bijection DEF ExistsBijection
    <2> QED
      BY <2>1, <2>3
  <1> QED
    BY <1>4, <1>5 DEF n

(* send, receive, cancel and reconnect.                                      *)
LEMMA ChannelSteps == ASSUME ChannelInv, ChannelNext PROVE ChannelInv'
  <1> DEFINE q == chan.queue
             n == chan.next_sequence
             l == Len(q)
  <1>1. /\ q \in Seq(Queuing) /\ n \in Nat /\ l \in Nat /\ DOMAIN q = 1 .. l
        /\ \A i \in 1 .. l : q[i] \in Queuing /\ q[i].sequence \in Nat
    <2>1. /\ q \in Seq(Queuing) /\ n \in Nat
      BY DEF ChannelInv
    <2>2. l \in Nat /\ DOMAIN q = 1 .. l /\ \A i \in 1 .. l : q[i] \in Queuing
      BY <2>1, LenProperties, ElementOfSeq
    <2> HIDE DEF q, n, l
    <2> QED
      BY <2>1, <2>2 DEF Queuing
  <1>2. \A i \in 1 .. l : q[i].sequence \in Numbers(q)
    BY <1>1 DEF Numbers
  <1>3. Conserves(q, n, taken, cancelled)
    BY DEF ChannelInv
  <1>4. \A x \in taken \cup cancelled \cup Numbers(q) : x \in Nat /\ x < n
    BY <1>1, <1>3 DEF Conserves
  <1>5. ASSUME NEW id \in RequestIds, SendMessage(id) PROVE ChannelInv'
    <2> DEFINE e == [sequence |-> n, request_id |-> id]
               t == Append(q, e)
    <2>1. /\ chan' = [chan EXCEPT !.next_sequence = n + 1, !.queue = t] /\ l < chan.capacity
          /\ UNCHANGED <<taken, cancelled>>
      BY <1>1, <1>5 DEF SendMessage, Send, Stamped, Backpressure, ChannelInv
    <2>2. e \in Queuing /\ e.sequence = n
      BY <1>1 DEF Queuing
    <2> HIDE DEF e
    <2>3. /\ t \in Seq(Queuing) /\ Len(t) = l + 1 /\ t[l + 1] = e /\ DOMAIN t = 1 .. l + 1
          /\ \A i \in 1 .. l : t[i] = q[i]
      BY <1>1, <2>2, AppendProperties, LenProperties
    <2> HIDE DEF t
    <2>4. /\ DOMAIN chan' = DOMAIN chan /\ chan'.capacity = chan.capacity
          /\ chan'.next_sequence = n + 1 /\ chan'.queue = t
      BY <2>1 DEF ChannelInv
    <2> HIDE DEF q, l, n
    <2>5. \A i : i \in 1 .. l + 1 <=> i \in 1 .. l \/ i = l + 1
      BY <1>1
    <2>6. Numbers(t) = Numbers(q) \cup {n}
      BY <1>1, <2>2, <2>3, <2>5 DEF Numbers
    <2>7. ASSUME NEW i \in 1 .. Len(t), NEW j \in 1 .. Len(t), i < j
          PROVE  t[i].sequence < t[j].sequence
      <3>1. i \in 1 .. l
        BY <1>1, <2>3, <2>7
      <3>2. CASE j \in 1 .. l
        BY <1>3, <2>3, <2>7, <3>1, <3>2 DEF Conserves, l
      <3>3. CASE j = l + 1
        BY <1>2, <1>4, <2>2, <2>3, <3>1, <3>3
      <3> QED
        BY <2>3, <2>5, <3>2, <3>3
    <2>8. 0 .. (n + 1) - 1 = (0 .. n - 1) \cup {n}
      BY <1>1
    <2>9. n \notin taken \cup cancelled /\ \A r \in taken : r < n
      BY <1>1, <1>4
    <2>10. Conserves(t, n + 1, taken, cancelled)
      BY <1>3, <2>6, <2>7, <2>8, <2>9 DEF Conserves
    <2>11. Len(t) <= chan.capacity
      BY <1>1, <2>1, <2>3 DEF ChannelInv
    <2>12. n + 1 \in Nat
      BY <1>1
    <2> QED
      BY <2>1, <2>3, <2>4, <2>10, <2>11, <2>12 DEF ChannelInv
  <1>6. CASE ReceiveMessage
    <2> DEFINE t == Tail(q)
               h == Head(q).sequence
    <2>1. /\ q # << >> /\ chan' = [chan EXCEPT !.queue = t]
          /\ taken' = taken \cup {h} /\ UNCHANGED cancelled
      BY <1>6 DEF ReceiveMessage, Receive
    <2>2. /\ t \in Seq(Queuing) /\ Len(t) = l - 1 /\ l - 1 \in Nat /\ DOMAIN t = 1 .. l - 1
          /\ \A i \in 1 .. l - 1 : t[i] = q[i + 1]
      BY <1>1, <2>1, HeadTailProperties, LenProperties
    <2>3. h = q[1].sequence
      BY <1>1, <2>1
    <2> HIDE DEF t, h
    <2>4. /\ DOMAIN chan' = DOMAIN chan /\ chan'.capacity = chan.capacity
          /\ chan'.next_sequence = n /\ chan'.queue = t
      BY <2>1 DEF ChannelInv
    <2> HIDE DEF q, n, l
    <2>5. 1 \in 1 .. l /\ \A i \in 1 .. l - 1 : i + 1 \in 1 .. l /\ 1 < i + 1
      BY <1>1, <2>2
    <2>6. \A i \in 1 .. l : i = 1 \/ (i - 1 \in 1 .. l - 1 /\ (i - 1) + 1 = i)
      BY <1>1
    <2>7. \A i, j \in 1 .. l : i < j => q[i].sequence < q[j].sequence
      BY <1>3 DEF Conserves, l
    <2>8. \A i, j \in 1 .. Len(t) : i < j => t[i].sequence < t[j].sequence
      <3> SUFFICES ASSUME NEW i \in 1 .. l - 1, NEW j \in 1 .. l - 1, i < j
                   PROVE  t[i].sequence < t[j].sequence
        BY <2>2
      <3>1. i + 1 \in 1 .. l /\ j + 1 \in 1 .. l /\ i + 1 < j + 1
        BY <2>5
      <3> QED
        BY <2>2, <2>7, <3>1
    <2>9. Numbers(q) = Numbers(t) \cup {h}
      <3>1. ASSUME NEW x \in Numbers(q) PROVE x \in Numbers(t) \cup {h}
        <4>1. PICK i \in 1 .. l : x = q[i].sequence
          BY <1>1, <3>1 DEF Numbers
        <4>2. CASE i = 1
          BY <2>3, <4>1, <4>2
        <4>3. CASE i - 1 \in 1 .. l - 1 /\ (i - 1) + 1 = i
          <5>1. t[i - 1] = q[i]
            BY <2>2, <4>3
          <5> QED
            BY <2>2, <4>1, <4>3, <5>1 DEF Numbers
        <4> QED
          BY <2>6, <4>2, <4>3
      <3>2. h \in Numbers(q)
        BY <1>2, <2>3, <2>5
      <3>3. ASSUME NEW x \in Numbers(t) PROVE x \in Numbers(q)
        <4>1. PICK i \in 1 .. l - 1 : x = t[i].sequence
          BY <2>2, <3>3 DEF Numbers
        <4> QED
          BY <1>2, <2>2, <2>5, <4>1
      <3> QED
        BY <3>1, <3>2, <3>3
    <2>10. \A x \in Numbers(t) : h < x
      <3> SUFFICES ASSUME NEW i \in 1 .. l - 1 PROVE h < t[i].sequence
        BY <2>2 DEF Numbers
      <3> QED
        BY <2>2, <2>3, <2>5, <2>7
    <2>11. h \notin Numbers(t)
      <3>1. h \in Nat
        BY <1>4, <2>9
      <3> QED
        BY <2>10, <3>1
    <2>12. Conserves(t, n, taken \cup {h}, cancelled)
      <3>1. (taken \cup {h}) \cup cancelled \cup Numbers(t) = 0 .. n - 1
        BY <1>3, <2>9 DEF Conserves
      <3>2. \A r \in taken \cup {h}, x \in Numbers(t) : r < x
        BY <1>3, <2>9, <2>10 DEF Conserves
      <3>3. /\ (taken \cup {h}) \cap cancelled = {}
            /\ ((taken \cup {h}) \cup cancelled) \cap Numbers(t) = {}
        BY <1>3, <2>9, <2>11 DEF Conserves
      <3> QED
        BY <2>8, <3>1, <3>2, <3>3 DEF Conserves
    <2>13. Len(t) <= chan.capacity
      BY <1>1, <2>2 DEF ChannelInv, q, l
    <2> QED
      BY <1>1, <2>1, <2>2, <2>4, <2>12, <2>13 DEF ChannelInv
  <1>7. ASSUME NEW id \in RequestIds, CancelRequest(id) PROVE ChannelInv'
    <2> DEFINE t == Without(q, id)
               out == {q[i].sequence : i \in {j \in DOMAIN q : q[j].request_id = id}}
    <2>1. chan' = [chan EXCEPT !.queue = t] /\ cancelled' = cancelled \cup out /\ UNCHANGED taken
      BY <1>7 DEF CancelRequest, Cancel
    <2>2. /\ t \in Seq(Queuing) /\ Len(t) <= l
          /\ \A i, j \in 1 .. Len(t) : i < j => t[i].sequence < t[j].sequence
          /\ {t[i] : i \in 1 .. Len(t)} = {q[i] : i \in {j \in 1 .. l : q[j].request_id # id}}
      <3>1. InSequence(q) /\ q \in Seq(Queuing)
        BY <1>1, <1>3 DEF Conserves, InSequence
      <3> HIDE DEF q
      <3>2. t \in Seq(Queuing) /\ OthersOf(q, id, t)
        BY <3>1, WithoutIs
      <3> HIDE DEF t
      <3> QED
        BY <3>2 DEF OthersOf
    <2> HIDE DEF t
    <2>3. /\ DOMAIN chan' = DOMAIN chan /\ chan'.capacity = chan.capacity
          /\ chan'.next_sequence = n /\ chan'.queue = t
      BY <2>1 DEF ChannelInv
    <2>4. DOMAIN t = 1 .. Len(t)
      BY <2>2, LenProperties
    <2>5. out = {q[i].sequence : i \in {j \in 1 .. l : q[j].request_id = id}}
      BY <1>1
    <2> HIDE DEF q, n, l, out
    <2>6. Numbers(t) = {q[i].sequence : i \in {j \in 1 .. l : q[j].request_id # id}}
      <3>1. Numbers(t) = {e.sequence : e \in {t[i] : i \in 1 .. Len(t)}}
        BY <2>4 DEF Numbers
      <3> QED
        BY <2>2, <3>1, ZenonT(60)
    <2>7. Numbers(q) = Numbers(t) \cup out
      BY <1>1, <2>5, <2>6 DEF Numbers
    <2>8. Numbers(t) \cap out = {}
      <3> SUFFICES ASSUME NEW i \in 1 .. l, NEW j \in 1 .. l, q[i].request_id # id,
                          q[j].request_id = id, q[i].sequence = q[j].sequence
                   PROVE  FALSE
        BY <2>5, <2>6
      <3>1. i < j \/ j < i
        BY <1>1
      <3>2. q[i].sequence < q[j].sequence \/ q[j].sequence < q[i].sequence
        BY <1>3, <3>1 DEF Conserves, l
      <3> QED
        BY <1>1, <3>2
    <2>9. Conserves(t, n, taken, cancelled \cup out)
      <3>1. taken \cup (cancelled \cup out) \cup Numbers(t) = 0 .. n - 1
        BY <1>3, <2>7 DEF Conserves
      <3>2. \A r \in taken, x \in Numbers(t) : r < x
        BY <1>3, <2>7 DEF Conserves
      <3>3. /\ taken \cap (cancelled \cup out) = {}
            /\ (taken \cup (cancelled \cup out)) \cap Numbers(t) = {}
        BY <1>3, <2>7, <2>8 DEF Conserves
      <3> QED
        BY <2>2, <3>1, <3>2, <3>3 DEF Conserves
    <2>10. Len(t) <= chan.capacity
      <3>1. Len(t) \in Nat /\ l <= chan.capacity /\ chan.capacity \in Nat
        BY <2>2, LenProperties DEF ChannelInv, q, l
      <3> QED
        BY <1>1, <2>2, <3>1
    <2> QED
      BY <1>1, <2>1, <2>2, <2>3, <2>9, <2>10 DEF ChannelInv
  <1>8. CASE ReconnectChannel
    <2>1. /\ chan' = [chan EXCEPT !.queue = << >>, !.next_sequence = 0] /\ taken' = {} /\ cancelled' = {}
      BY <1>8 DEF ReconnectChannel, Reconnect
    <2>2. /\ DOMAIN chan' = DOMAIN chan /\ chan'.capacity = chan.capacity
          /\ chan'.next_sequence = 0 /\ chan'.queue = << >>
      BY <2>1 DEF ChannelInv
    <2>3. Conserves(<< >>, 0, {}, {}) /\ << >> \in Seq(Queuing) /\ Len(<< >>) = 0
      BY DEF Conserves, Numbers
    <2> QED
      BY <2>1, <2>2, <2>3 DEF ChannelInv
  <1> QED
    BY <1>5, <1>6, <1>7, <1>8 DEF ChannelNext

(* IpcChannel: for every capacity and all request ids, reused ones included, *)
(* every number stamped is received, cancelled or queued, once and in order. *)
THEOREM ChannelsConserve == ProcessesSpec => []ChannelConserves
  <1>1. ProcessesInit => ChannelInv
    <2> SUFFICES ASSUME ProcessesInit PROVE ChannelInv
      OBVIOUS
    <2>1. /\ chan = [capacity |-> IF Capacity = 0 THEN 1 ELSE Capacity, next_sequence |-> 0, queue |-> << >>]
          /\ taken = {} /\ cancelled = {}
      BY DEF ProcessesInit, ChannelInit, Bounded
    <2>2. (IF Capacity = 0 THEN 1 ELSE Capacity) \in Nat \ {0}
      BY ChannelAssumption
    <2>3. Conserves(<< >>, 0, {}, {}) /\ << >> \in Seq(Queuing) /\ Len(<< >>) = 0
      BY DEF Conserves, Numbers
    <2> QED
      BY <2>1, <2>2, <2>3 DEF ChannelInv
  <1>2. ChannelInv /\ [ProcessesNext]_<<part, vars, channelVars>> => ChannelInv'
    <2> SUFFICES ASSUME ChannelInv, [ProcessesNext]_<<part, vars, channelVars>> PROVE ChannelInv'
      OBVIOUS
    <2>1. CASE UNCHANGED channelVars
      BY <2>1 DEF ChannelInv, channelVars
    <2> QED
      BY <2>1, ChannelSteps DEF ProcessesNext
  <1>3. ChannelInv => ChannelConserves
    <2> SUFFICES ASSUME ChannelInv PROVE ChannelConserves
      OBVIOUS
    <2>1. Queued = Numbers(chan.queue) /\ DOMAIN chan.queue = 1 .. Len(chan.queue)
      BY LenProperties DEF Queued, Numbers, ChannelInv
    <2>2. InOrder
      BY <2>1 DEF InOrder, ChannelInv, Conserves
    <2>3. Len(chan.queue) = Cardinality(Numbers(chan.queue))
      BY NumbersCounted DEF ChannelInv, Conserves
    <2> QED
      BY <2>1, <2>2, <2>3 DEF ChannelConserves, ChannelInv, Conserves
  <1> QED
    BY <1>1, <1>2, <1>3, PTL DEF ProcessesSpec
===========================================================================
