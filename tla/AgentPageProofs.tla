-------------------------- MODULE AgentPageProofs ---------------------------
(***************************************************************************)
(* What confirmations, gestures, the tree of a page with its readers and    *)
(* the records it leaves keep true for any requests, actors, pages,         *)
(* layouts, readers and capacities.                                         *)
(***************************************************************************)
EXTENDS AgentPage, FiniteSetTheorems, SequenceTheorems, WellFoundedInduction, TLAPS

(* What the trail has of a request is told by its state: nothing, its        *)
(* enqueueing, or that and one outcome.  An answer that came too late leaves *)
(* the request expired with its enqueueing alone.                            *)
Enqueued(id) ==
    \E p \in About(id) : /\ About(id) = {p} /\ Trail[p].state = "Pending"
                         /\ requests[id].state \in {"Pending", "Expired"}
Answered(id) ==
    \E p, q \in About(id) :
        /\ p < q /\ About(id) = {p, q} /\ Trail[p].state = "Pending"
        /\ requests[id].state \in Decided \cup {"Expired"} /\ Trail[q].state = requests[id].state
        /\ requests[id].state \in Decided =>
              /\ Trail[q].actor = requests[id].owner
              /\ Trail[q].tick < requests[id].expires_at_tick

(* The clock bounds the trail, the trail is in time order, and it has of     *)
(* every request what its state says.                                        *)
QueueInv ==
    /\ now \in 0 .. MaxTime /\ requests \in [Ids -> ConfirmationRequest]
    /\ events \in Seq(ConfirmationEvent) /\ trail \in Seq(ConfirmationEvent)
    /\ \A i \in DOMAIN Trail : Trail[i].tick <= now
    /\ \A i, j \in DOMAIN Trail : i < j => Trail[i].tick <= Trail[j].tick
    /\ \A id \in Ids : IF requests[id].state = "None" THEN About(id) = {}
                       ELSE Enqueued(id) \/ Answered(id)

(* The trail of what was drained and what still waits is a sequence of       *)
(* events.                                                                   *)
LEMMA TrailIsSeq ==
    ASSUME QueueInv
    PROVE  /\ Trail \in Seq(ConfirmationEvent) /\ Len(Trail) \in Nat /\ DOMAIN Trail = 1 .. Len(Trail)
           /\ \A id : About(id) \subseteq 1 .. Len(Trail)
  <1>1. Trail \in Seq(ConfirmationEvent)
    BY ConcatProperties DEF QueueInv, Trail
  <1> QED
    BY <1>1 DEF About

(* The invariant says what DecisionsAreTruthful does.                        *)
LEMMA QueueTruthful == QueueInv => DecisionsAreTruthful
  <1> SUFFICES ASSUME QueueInv PROVE DecisionsAreTruthful
    OBVIOUS
  <1>1. ASSUME NEW id \in Ids, requests[id].state \in Decided
        PROVE  /\ Cardinality(About(id)) = 2
               /\ \E i, j \in About(id) :
                     /\ i < j /\ Trail[i].state = "Pending"
                     /\ Trail[j].state = requests[id].state
                     /\ Trail[j].actor = requests[id].owner
                     /\ Trail[j].tick < requests[id].expires_at_tick
    <2>1. Answered(id)
      BY <1>1 DEF QueueInv, Enqueued, Decided
    <2>2. PICK p, q \in About(id) :
             /\ p < q /\ About(id) = {p, q} /\ Trail[p].state = "Pending"
             /\ Trail[q].state = requests[id].state
             /\ Trail[q].actor = requests[id].owner
             /\ Trail[q].tick < requests[id].expires_at_tick
      BY <1>1, <2>1 DEF Answered
    <2>3. p # q
      BY <2>2, TrailIsSeq, SMTT(60)
    <2>4. IsFiniteSet({p}) /\ Cardinality({p}) = 1 /\ q \notin {p}
      BY <2>3, FS_Singleton
    <2>5. Cardinality({p} \cup {q}) = 2
      BY <2>4, FS_AddElement
    <2>6. {p} \cup {q} = About(id)
      BY <2>2
    <2> QED
      BY <2>2, <2>5, <2>6
  <1>2. ASSUME NEW id \in Ids, NEW i \in About(id), Trail[i].state # "Pending"
        PROVE  /\ Trail[i].state = requests[id].state
               /\ \A j \in About(id) : j <= i
    <2>1. Answered(id)
      BY <1>2 DEF QueueInv, Enqueued
    <2> QED
      BY <1>2, <2>1, TrailIsSeq, SMTT(60) DEF Answered
  <1> QED
    BY <1>1, <1>2 DEF QueueInv, DecisionsAreTruthful, DecisionIsTheOwners, TrailIsTruthful

(* A step that tells of each request in S once, in the same words.          *)
Reported(more, S, st) ==
    /\ more \in Seq(ConfirmationEvent) /\ Trail' = Trail \o more
    /\ \A i \in 1 .. Len(more) :
          /\ more[i].id \in S /\ more[i].state = st /\ more[i].tick = now
          /\ st \in Decided => /\ more[i].actor = requests[more[i].id].owner
                               /\ now < requests[more[i].id].expires_at_tick
    /\ \A id \in S : \E i \in 1 .. Len(more) : more[i].id = id
    /\ \A i, j \in 1 .. Len(more) : more[i].id = more[j].id => i = j

(* A call of the queue: the set S of requests moves to the state st, and     *)
(* more tells of it.                                                         *)
QueueStep(more, S, st) ==
    /\ S \subseteq Ids /\ st \in ConfirmationState \ {"None"} /\ Reported(more, S, st)
    /\ requests' \in [Ids -> ConfirmationRequest]
    /\ \A id \in Ids \ S : requests'[id] = requests[id]
    /\ \A id \in S : requests'[id].state = st
    /\ \/ st = "Pending" /\ \A id \in S : requests[id].state = "None"
       \/ st # "Pending" /\ \A id \in S : /\ requests[id].state = "Pending"
                           /\ requests'[id].owner = requests[id].owner
                           /\ requests'[id].expires_at_tick = requests[id].expires_at_tick
    /\ events' \in Seq(ConfirmationEvent) /\ UNCHANGED <<now, trail>>

(* What the trail has of one request after such a step.                     *)
LEMMA TrailAfter ==
    ASSUME QueueInv, NEW more, NEW S, NEW st, QueueStep(more, S, st)
    PROVE  /\ DOMAIN Trail' = 1 .. Len(Trail') /\ Len(Trail') \in Nat /\ Len(Trail) <= Len(Trail')
           /\ \A i \in 1 .. Len(Trail) : Trail'[i] = Trail[i]
           /\ \A i \in Len(Trail) + 1 .. Len(Trail') : Trail'[i].tick = now
           /\ \A id \in Ids \ S : About(id)' = About(id)
           /\ \A id \in S : \E k \in Len(Trail) + 1 .. Len(Trail') :
                 /\ About(id)' = About(id) \cup {k} /\ Trail'[k].state = st /\ Trail'[k].tick = now
                 /\ st \in Decided => /\ Trail'[k].actor = requests[id].owner
                                      /\ now < requests[id].expires_at_tick
  <1> DEFINE n == Len(Trail)
             all == Trail \o more
  <1>1. /\ Trail \in Seq(ConfirmationEvent) /\ n \in Nat /\ DOMAIN Trail = 1 .. n
        /\ more \in Seq(ConfirmationEvent) /\ Len(more) \in Nat /\ Trail' = all
    BY TrailIsSeq DEF QueueStep, Reported
  <1>2. /\ all \in Seq(ConfirmationEvent) /\ Len(all) = n + Len(more)
        /\ \A i \in 1 .. n + Len(more) : all[i] = IF i <= n THEN Trail[i] ELSE more[i - n]
    BY <1>1, ConcatProperties
  <1> HIDE DEF all, n
  <1>3. /\ DOMAIN Trail' = 1 .. n + Len(more) /\ Len(Trail') = n + Len(more)
        /\ 1 .. n + Len(more) = (1 .. n) \cup (n + 1 .. n + Len(more))
        /\ \A i \in 1 .. n : Trail'[i] = Trail[i] /\ i \notin n + 1 .. n + Len(more)
        /\ \A i \in n + 1 .. n + Len(more) : Trail'[i] = more[i - n] /\ i - n \in 1 .. Len(more)
    BY <1>1, <1>2
  <1>4. \A i \in n + 1 .. n + Len(more) :
          /\ Trail'[i].id \in S /\ Trail'[i].state = st /\ Trail'[i].tick = now
          /\ st \in Decided => /\ Trail'[i].actor = requests[Trail'[i].id].owner
                               /\ now < requests[Trail'[i].id].expires_at_tick
    BY <1>3, SMTT(60) DEF QueueStep, Reported
  <1>5. ASSUME NEW id \in Ids \ S PROVE About(id)' = About(id)
    BY <1>1, <1>3, <1>4 DEF About
  <1>6. ASSUME NEW id \in S
        PROVE  \E k \in n + 1 .. n + Len(more) : About(id)' = About(id) \cup {k} /\ Trail'[k].id = id
    <2>1. PICK m \in 1 .. Len(more) : more[m].id = id
      BY DEF QueueStep, Reported
    <2>2. n + m \in n + 1 .. n + Len(more) /\ (n + m) - n = m
      BY <1>1
    <2>3. Trail'[n + m].id = id
      BY <1>3, <2>1, <2>2
    <2>4. ASSUME NEW i \in n + 1 .. n + Len(more), Trail'[i].id = id PROVE i = n + m
      <3>0. more[i - n].id = more[m].id /\ i - n \in 1 .. Len(more)
        BY <1>3, <2>1, <2>4
      <3>1. i - n = m
        BY <2>1, <3>0 DEF QueueStep, Reported
      <3> QED
        BY <1>1, <3>1
    <2>5. About(id)' = About(id) \cup {n + m}
      BY <1>1, <1>3, <2>2, <2>3, <2>4 DEF About
    <2> QED
      BY <2>2, <2>3, <2>5
  <1> QED
    BY <1>1, <1>3, <1>4, <1>5, <1>6 DEF n

(* Such a call keeps the invariant.                                          *)
LEMMA QueueStepKeeps ==
    ASSUME QueueInv, NEW more, NEW S, NEW st, QueueStep(more, S, st)
    PROVE  QueueInv'
  <1>1. /\ DOMAIN Trail = 1 .. Len(Trail) /\ Len(Trail) \in Nat /\ now \in Nat
        /\ DOMAIN Trail' = 1 .. Len(Trail') /\ Len(Trail') \in Nat /\ Len(Trail) <= Len(Trail')
        /\ \A i \in 1 .. Len(Trail) : Trail'[i] = Trail[i]
        /\ \A i \in Len(Trail) + 1 .. Len(Trail') : Trail'[i].tick = now
    <2>1. now \in Nat
      BY ConfirmationAssumption DEF QueueInv, ConfirmationAssumption
    <2>2. DOMAIN Trail = 1 .. Len(Trail) /\ Len(Trail) \in Nat
      BY TrailIsSeq
    <2>3. /\ DOMAIN Trail' = 1 .. Len(Trail') /\ Len(Trail') \in Nat /\ Len(Trail) <= Len(Trail')
          /\ \A i \in 1 .. Len(Trail) : Trail'[i] = Trail[i]
          /\ \A i \in Len(Trail) + 1 .. Len(Trail') : Trail'[i].tick = now
      BY TrailAfter
    <2> QED
      BY <2>1, <2>2, <2>3, Zenon
  <1>2. /\ \A i \in 1 .. Len(Trail') : i \in 1 .. Len(Trail) \/ i \in Len(Trail) + 1 .. Len(Trail')
        /\ \A i \in 1 .. Len(Trail) : Trail[i].tick <= now
    <2>1. \A a, b \in Nat : \A i \in 1 .. b : i \in 1 .. a \/ i \in a + 1 .. b
      OBVIOUS
    <2>2. \A i \in 1 .. Len(Trail) : Trail[i].tick <= now
      BY <1>1, Zenon DEF QueueInv
    <2> QED
      BY <1>1, <2>1, <2>2, Zenon
  <1>3. \A i \in 1 .. Len(Trail') : Trail'[i].tick <= now
    BY <1>1, <1>2
  <1>4. ASSUME NEW i \in 1 .. Len(Trail'), NEW j \in 1 .. Len(Trail'), i < j
        PROVE  Trail'[i].tick <= Trail'[j].tick
    <2>1. CASE j \in 1 .. Len(Trail)
      <3>1. i \in 1 .. Len(Trail)
        BY <1>1, <1>4, <2>1
      <3> QED
        BY <1>1, <1>4, <2>1, <3>1 DEF QueueInv
    <2>2. CASE j \in Len(Trail) + 1 .. Len(Trail')
      BY <1>1, <1>3, <2>2
    <2> QED
      BY <1>2, <2>1, <2>2
  <1>5. ASSUME NEW id \in Ids
        PROVE  IF requests'[id].state = "None" THEN About(id)' = {} ELSE Enqueued(id)' \/ Answered(id)'
    <2>0. About(id) \subseteq 1 .. Len(Trail)
      BY TrailIsSeq
    <2>1. CASE id \notin S
      <3>1. About(id)' = About(id) /\ requests'[id] = requests[id]
        BY <2>1, TrailAfter DEF QueueStep
      <3>2. \A i \in About(id) : Trail'[i] = Trail[i]
        BY <1>1, <2>0
      <3> QED
        BY <3>1, <3>2 DEF QueueInv, Enqueued, Answered
    <2>2. CASE id \in S
      <3>1. PICK k \in Len(Trail) + 1 .. Len(Trail') :
               /\ About(id)' = About(id) \cup {k} /\ Trail'[k].state = st /\ Trail'[k].tick = now
               /\ st \in Decided => /\ Trail'[k].actor = requests[id].owner
                                    /\ now < requests[id].expires_at_tick
        BY <2>2, TrailAfter
      <3>2. requests'[id].state = st /\ st # "None"
        BY <2>2 DEF QueueStep
      <3>3. CASE st = "Pending" /\ requests[id].state = "None"
        <4>1. About(id)' = {k}
          BY <3>1, <3>3 DEF QueueInv
        <4> QED
          BY <3>1, <3>2, <3>3, <4>1 DEF Enqueued
      <3>4. CASE st # "Pending" /\ requests[id].state = "Pending"
        <4>1. /\ requests'[id].owner = requests[id].owner
              /\ requests'[id].expires_at_tick = requests[id].expires_at_tick
              /\ st \in Decided \cup {"Expired"}
          BY <2>2, <3>4 DEF QueueStep, ConfirmationState
        <4>2. Enqueued(id)
          BY <3>4 DEF QueueInv, Answered, Decided
        <4>3. PICK p \in About(id) : About(id) = {p} /\ Trail[p].state = "Pending"
          BY <4>2 DEF Enqueued
        <4>4. p < k /\ Trail'[p] = Trail[p]
          BY <1>1, <2>0, <4>3
        <4>5. p \in About(id)' /\ k \in About(id)' /\ About(id)' = {p, k}
          BY <3>1, <4>3
        <4> QED
          BY <3>1, <3>2, <4>1, <4>3, <4>4, <4>5 DEF Answered
      <3> QED
        BY <2>2, <3>2, <3>3, <3>4 DEF QueueStep
    <2> QED
      BY <2>1, <2>2
  <1> QED
    BY <1>1, <1>3, <1>4, <1>5 DEF QueueInv, QueueStep

(* Adding to the queue's events adds to the trail.                          *)
LEMMA TrailExtends ==
    ASSUME QueueInv, NEW more \in Seq(ConfirmationEvent), trail' = trail, events' = events \o more
    PROVE  Trail' = Trail \o more /\ events' \in Seq(ConfirmationEvent)
  <1>1. (trail \o events) \o more = trail \o (events \o more)
    BY ConcatAssociative, SMTT(60) DEF QueueInv
  <1>2. events \o more \in Seq(ConfirmationEvent)
    BY ConcatProperties DEF QueueInv
  <1> QED
    BY <1>1, <1>2 DEF Trail

(* One request answered in time is reported by one event.                    *)
LEMMA OneReported ==
    ASSUME QueueInv, NEW id \in Ids, NEW actor \in Actors \cup {Nobody}, NEW st \in ConfirmationState,
           trail' = trail, events' = Append(events, Event(id, actor, st)),
           st \in Decided => actor = requests[id].owner /\ now < requests[id].expires_at_tick
    PROVE  Reported(<<Event(id, actor, st)>>, {id}, st) /\ events' \in Seq(ConfirmationEvent)
  <1> DEFINE e == Event(id, actor, st)
  <1>1. /\ e \in ConfirmationEvent /\ e.id = id /\ e.state = st /\ e.tick = now /\ e.actor = actor
    BY DEF Event, ConfirmationEvent, QueueInv
  <1> HIDE DEF e
  <1>2. /\ <<e>> \in Seq(ConfirmationEvent) /\ Len(<<e>>) = 1 /\ <<e>>[1] = e
    BY <1>1
  <1>3. events' = events \o <<e>>
    BY <1>1 DEF e, QueueInv
  <1>4. Trail' = Trail \o <<e>> /\ events' \in Seq(ConfirmationEvent)
    BY <1>2, <1>3, TrailExtends
  <1>5. 1 .. Len(<<e>>) = {1}
    BY <1>2
  <1>6. Reported(<<e>>, {id}, st)
    BY <1>1, <1>2, <1>4, <1>5 DEF Reported
  <1> QED
    BY <1>4, <1>6 DEF e

(* A function on 1 .. n is a sequence of length n.                           *)
LEMMA FunctionIsSeq ==
    ASSUME NEW S, NEW n \in Nat, NEW f \in [1 .. n -> S]
    PROVE  f \in Seq(S) /\ Len(f) = n
  <1>1. f \in Seq(S)
    BY SeqDef
  <1>2. Len(f) \in Nat /\ DOMAIN f = 1 .. Len(f)
    BY <1>1
  <1> QED
    BY <1>1, <1>2

(* expire tells of every overdue request, in some order.                     *)
LEMMA ManyReported ==
    ASSUME QueueInv, NEW order \in [1 .. Cardinality(Overdue) -> Overdue],
           {order[i] : i \in DOMAIN order} = Overdue,
           trail' = trail,
           events' = events \o [i \in DOMAIN order |-> Event(order[i], Nobody, "Expired")]
    PROVE  \E more : Reported(more, Overdue, "Expired") /\ events' \in Seq(ConfirmationEvent)
  <1> DEFINE n == Cardinality(Overdue)
             more == [i \in 1 .. n |-> Event(order[i], Nobody, "Expired")]
  <1>1. IsFiniteSet(Overdue) /\ n \in Nat /\ Overdue \subseteq Ids
    <2>1. Overdue \subseteq Ids
      BY DEF Overdue
    <2> QED
      BY <2>1, ConfirmationAssumption, FS_Subset, FS_CardinalityType DEF ConfirmationAssumption
  <1>2. Cardinality(1 .. n) = n /\ IsFiniteSet(1 .. n)
    <2> HIDE DEF n
    <2>1. n \in Int /\ 1 \in Int
      BY <1>1
    <2>2. IsFiniteSet(1 .. n) /\ Cardinality(1 .. n) = IF 1 > n THEN 0 ELSE n - 1 + 1
      BY <2>1, FS_Interval
    <2> QED
      BY <1>1, <2>2
  <1>3. order \in Surjection(1 .. n, Overdue)
    BY DEF Surjection
  <1>4. order \in Injection(1 .. n, Overdue)
    BY <1>1, <1>2, <1>3, FS_SurjSameCardinalityImpliesInj
  <1>5. \A i, j \in 1 .. n : order[i] = order[j] => i = j
    BY <1>4 DEF Injection, IsInjective
  <1>6. \A i \in 1 .. n : /\ more[i] \in ConfirmationEvent /\ more[i].id = order[i]
                          /\ more[i].state = "Expired" /\ more[i].tick = now
    BY <1>1 DEF Event, ConfirmationEvent, ConfirmationState, QueueInv
  <1>7. more \in Seq(ConfirmationEvent) /\ Len(more) = n
    BY <1>1, <1>6, FunctionIsSeq
  <1>8. events' = events \o more
    OBVIOUS
  <1>9. \A id \in Overdue : \E i \in 1 .. n : order[i] = id
    OBVIOUS
  <1>10. \A i \in 1 .. n : order[i] \in Overdue
    OBVIOUS
  <1> HIDE DEF more, n
  <1>11. Trail' = Trail \o more /\ events' \in Seq(ConfirmationEvent)
    BY <1>7, <1>8, TrailExtends
  <1>12. Reported(more, Overdue, "Expired")
    <2>1. /\ \A i \in 1 .. Len(more) : more[i].id \in Overdue /\ more[i].state = "Expired" /\ more[i].tick = now
          /\ \A i, j \in 1 .. Len(more) : more[i].id = more[j].id => i = j
          /\ \A id \in Overdue : \E i \in 1 .. Len(more) : more[i].id = id
      BY <1>5, <1>6, <1>7, <1>9, <1>10
    <2>2. "Expired" \notin Decided
      BY DEF Decided
    <2> QED
      BY <1>7, <1>11, <2>1, <2>2, Zenon DEF Reported
  <1> QED
    BY <1>11, <1>12

(* Every operation of the queue is such a call, a drain or a tick.           *)
LEMMA QueueSteps == QueueInv /\ [Next]_vars => QueueInv'
  <1> SUFFICES ASSUME QueueInv, [Next]_vars PROVE QueueInv'
    OBVIOUS
  <1>0. now \in 0 .. MaxTime /\ now \in Nat /\ requests \in [Ids -> ConfirmationRequest] /\ MaxTime \in Nat
    BY ConfirmationAssumption DEF QueueInv, ConfirmationAssumption
  <1>1. CASE UNCHANGED queueVars
    <2>1. Trail' = Trail /\ UNCHANGED <<now, requests, events, trail>>
      BY <1>1 DEF queueVars, Trail
    <2>2. \A id \in Ids : About(id)' = About(id)
      BY <2>1 DEF About
    <2>3. \A id \in Ids : (Enqueued(id)' <=> Enqueued(id)) /\ (Answered(id)' <=> Answered(id))
      BY <2>1, <2>2 DEF Enqueued, Answered
    <2> QED
      BY <2>1, <2>2, <2>3 DEF QueueInv
  <1>2. ASSUME NEW id \in Ids, NEW a \in Actors, NEW ticks \in Timeouts, enqueue(id, a, ticks)
        PROVE  QueueInv'
    <2>1. Reported(<<Event(id, Nobody, "Pending")>>, {id}, "Pending") /\ events' \in Seq(ConfirmationEvent)
      BY <1>2, OneReported DEF enqueue, ConfirmationState, Decided
    <2>2. Expiry(ticks) \in Nat
      BY <1>0, ConfirmationAssumption DEF Expiry, ConfirmationAssumption
    <2>3. QueueStep(<<Event(id, Nobody, "Pending")>>, {id}, "Pending")
      BY <1>0, <1>2, <2>1, <2>2 DEF enqueue, QueueStep, ConfirmationState, ConfirmationRequest
    <2> QED
      BY <2>3, QueueStepKeeps
  <1>3. ASSUME NEW id \in Ids, NEW a \in Actors, NEW st \in Decided, transition(id, a, st)
        PROVE  QueueInv'
    <2>1. CASE Decide(id, a, st)
      <3>1. Reported(<<Event(id, a, st)>>, {id}, st) /\ events' \in Seq(ConfirmationEvent)
        <4>1. now < requests[id].expires_at_tick /\ a = requests[id].owner
          BY <1>0, <2>1 DEF Decide, Answerable, Late, ConfirmationRequest
        <4> QED
          BY <2>1, <4>1, OneReported DEF Decide, ConfirmationState
      <3>2. /\ requests' \in [Ids -> ConfirmationRequest] /\ requests'[id].state = st
            /\ requests'[id].owner = requests[id].owner
            /\ requests'[id].expires_at_tick = requests[id].expires_at_tick
            /\ \A x \in Ids \ {id} : requests'[x] = requests[x]
        BY <1>0, <2>1 DEF Decide, ConfirmationRequest, ConfirmationState
      <3>3. QueueStep(<<Event(id, a, st)>>, {id}, st)
        BY <2>1, <3>1, <3>2 DEF Decide, Answerable, QueueStep, ConfirmationState, Decided
      <3> QED
        BY <3>3, QueueStepKeeps
    <2>2. CASE TooLate(id, a)
      <3>1. /\ requests' \in [Ids -> ConfirmationRequest] /\ requests'[id].state = "Expired"
            /\ \A x \in Ids \ {id} : requests'[x] = requests[x]
            /\ requests[id].state = "Pending" /\ UNCHANGED <<now, events, trail>>
        BY <1>0, <2>2 DEF TooLate, Answerable, ConfirmationRequest, ConfirmationState
      <3>2. Trail' = Trail /\ \A x : About(x)' = About(x)
        BY <3>1 DEF Trail, About
      <3>3. Enqueued(id)
        BY <3>1 DEF QueueInv, Answered, Decided
      <3>4. Enqueued(id)'
        BY <3>1, <3>2, <3>3 DEF Enqueued
      <3>5. ASSUME NEW x \in Ids \ {id}
            PROVE  IF requests'[x].state = "None" THEN About(x)' = {} ELSE Enqueued(x)' \/ Answered(x)'
        BY <3>1, <3>2 DEF QueueInv, Enqueued, Answered
      <3> QED
        BY <3>1, <3>2, <3>4, <3>5 DEF QueueInv
    <2> QED
      BY <1>3, <2>1, <2>2 DEF transition
  <1>4. CASE expire
    <2>1. PICK order \in [1 .. Cardinality(Overdue) -> Overdue] :
             /\ {order[i] : i \in DOMAIN order} = Overdue
             /\ events' = events \o [i \in DOMAIN order |-> Event(order[i], Nobody, "Expired")]
      BY <1>4 DEF expire
    <2>2. PICK more : Reported(more, Overdue, "Expired") /\ events' \in Seq(ConfirmationEvent)
      BY <1>4, <2>1, ManyReported DEF expire
    <2>3. /\ requests' = [id \in Ids |-> IF id \in Overdue
                                   THEN [requests[id] EXCEPT !.state = "Expired"] ELSE requests[id]]
          /\ UNCHANGED <<now, trail>>
          /\ Overdue \subseteq Ids /\ \A id \in Overdue : requests[id].state = "Pending"
      BY <1>4 DEF expire, Overdue
    <2>4. /\ requests' \in [Ids -> ConfirmationRequest]
          /\ \A id \in Ids \ Overdue : requests'[id] = requests[id]
          /\ \A id \in Overdue : /\ requests'[id].state = "Expired" /\ requests'[id].owner = requests[id].owner
                                 /\ requests'[id].expires_at_tick = requests[id].expires_at_tick
      BY <1>0, <2>3 DEF ConfirmationRequest, ConfirmationState
    <2>5. QueueStep(more, Overdue, "Expired")
      BY <2>2, <2>3, <2>4 DEF QueueStep, ConfirmationState
    <2> QED
      BY <2>5, QueueStepKeeps
  <1>5. CASE drain_events
    <2>1. trail' = trail \o events /\ events' = << >> /\ UNCHANGED <<now, requests>>
      BY <1>5 DEF drain_events
    <2>2. trail' \in Seq(ConfirmationEvent) /\ events' \in Seq(ConfirmationEvent)
      BY <2>1, TrailIsSeq DEF Trail
    <2>3. Trail' = Trail
      BY <2>1, <2>2, ConcatEmptySeq DEF Trail
    <2>4. \A x : About(x)' = About(x)
      BY <2>3 DEF About
    <2> QED
      BY <2>1, <2>2, <2>3, <2>4 DEF QueueInv, Enqueued, Answered
  <1>6. CASE Tick
    <2>1. now' = now + 1 /\ now' \in 0 .. MaxTime /\ UNCHANGED <<requests, events, trail>>
      BY <1>0, <1>6 DEF Tick
    <2>2. Trail' = Trail /\ \A x : About(x)' = About(x)
      BY <2>1 DEF Trail, About
    <2>3. \A i \in DOMAIN Trail : Trail[i].tick <= now /\ Trail[i].tick \in Nat
      <3>1. \A i \in DOMAIN Trail : Trail[i] \in ConfirmationEvent
        BY TrailIsSeq
      <3> QED
        BY <1>0, <3>1 DEF QueueInv, ConfirmationEvent
    <2>4. \A i \in DOMAIN Trail : Trail[i].tick <= now'
      BY <1>0, <2>1, <2>3
    <2> QED
      BY <2>1, <2>2, <2>4 DEF QueueInv, Enqueued, Answered
  <1> QED
    BY <1>1, <1>2, <1>3, <1>4, <1>5, <1>6
    DEF Next, vars, QueueNext, approve, deny, escalate, Decided

(* A request is decided by its owner alone and in time, and the drained      *)
(* events tell just that (ConfirmationQueue: enqueue, transition, expire and  *)
(* drain_events).                                                            *)
THEOREM ConfirmationsAreTruthful == Spec => []DecisionsAreTruthful
  <1>1. Init => QueueInv
    <2> SUFFICES ASSUME Init PROVE QueueInv
      OBVIOUS
    <2>1. /\ now \in 0 .. MaxTime /\ requests \in [Ids -> ConfirmationRequest]
          /\ \A id \in Ids : requests[id].state = "None"
      BY ConfirmationAssumption
      DEF Init, QueueInit, ConfirmationRequest, ConfirmationState, ConfirmationAssumption
    <2>2. events = << >> /\ trail = << >>
      BY DEF Init, QueueInit
    <2>3. << >> \in Seq(ConfirmationEvent) /\ << >> \o << >> = << >>
      BY ConcatEmptySeq, EmptySeq
    <2>4. Trail = << >> /\ DOMAIN Trail = {}
      BY <2>2, <2>3 DEF Trail
    <2> QED
      BY <2>1, <2>2, <2>3, <2>4 DEF QueueInv, About
  <1> QED
    BY <1>1, QueueSteps, QueueTruthful, PTL DEF Spec
-----------------------------------------------------------------------------
(* Gestures (ActionPlanning) *)

(* What every list of events has that is planned for a point: what goes down *)
(* comes up again, and a button goes down where the first event moved to.    *)
Gesture(es, at) ==
    /\ Len(es) \in Nat
    /\ \A i \in 1 .. Len(es) : es[i].do = "down" =>
          \E j \in i + 1 .. Len(es) : es[j].do = "up" /\ es[j].what = es[i].what
    /\ \A i \in 1 .. Len(es) : es[i].do = "down" /\ es[i].what \in {"left", "right"} =>
          /\ 1 < i /\ es[1].do = "move" /\ es[1].what = at /\ at # None
          /\ \A j \in 2 .. i : es[j].do # "move"

(* What is down after the first k events.                                    *)
DownAfter(es, k) ==
    {es[i].what : i \in {i \in 1 .. k : /\ es[i].do = "down"
                                        /\ \A j \in i + 1 .. k : ~(es[j].do = "up" /\ es[j].what = es[i].what)}}

(* The plan under way, its point, and how far the dispatcher has come.       *)
UnderWay(p, at) ==
    /\ Gesture(p.events, at)
    /\ unmoved /\ at # None => hit_test(layout, at) = p.target
    /\ step \in 0 .. Len(p.events)
    /\ held \subseteq DownAfter(p.events, step)
    /\ 1 <= step /\ p.events[1].do = "move" /\ (\A j \in 2 .. step : p.events[j].do # "move")
          => pointer = p.events[1].what

(* The plan under way, what is left of it, and what is held down.            *)
GestureInv ==
    /\ PressesLand /\ NothingStaysDown /\ unmoved \in BOOLEAN
    /\ \A p, q \in plan : p = q
    /\ plan # {} => part = "planning" /\ stuck = {}
    /\ \A p \in plan : \E at : UnderWay(p, at)

(* Every action's events are such a gesture.                                 *)
LEMMA EventsAreGestures ==
    ASSUME NEW type, NEW at, NEW to, type \in NeedsPoint => at # None
    PROVE  Gesture(Events(type, at, to), at)
  <1> USE DEF Gesture, Move, Down, Up, Input
  <1>1. CASE type = "DoubleClick"
    <2>1. at # None
      BY <1>1 DEF NeedsPoint, Pointing
    <2>2. Events(type, at, to) = <<Move(at), Down("left"), Up("left"), Down("left"), Up("left")>>
      BY <1>1 DEF Events, Pointing
    <2> QED
      BY <2>1, <2>2
  <1>2. CASE type \in Pointing \ {"DoubleClick"}
    <2>1. at # None
      BY <1>2 DEF NeedsPoint
    <2>2. PICK b \in {"left", "right"} : Events(type, at, to) = <<Move(at), Down(b), Up(b)>>
      BY <1>2 DEF Events, Pointing
    <2> QED
      BY <2>1, <2>2
  <1>3. CASE type \notin Pointing
    <2>1. CASE type = "Drag"
      <3>1. at # None
        BY <2>1 DEF NeedsPoint
      <3>2. Events(type, at, to) = <<Move(at), Down("left"), Move(to), Up("left")>>
        BY <1>3, <2>1 DEF Events, Pointing
      <3> QED
        BY <3>1, <3>2
    <2>2. CASE type \in {"Hover", "Drop"}
      <3>1. Events(type, at, to) = <<Move(at)>> \/ Events(type, at, to) = <<Move(at), Up("left")>>
        BY <1>3, <2>2 DEF Events, Pointing
      <3> QED
        BY <3>1
    <2>3. CASE type \in {"Type", "Scroll", "KeyPress", "Blur"}
      <3>1. \/ Events(type, at, to) = <<Input>>
            \/ Events(type, at, to) = <<Down("key"), Up("key")>>
            \/ Events(type, at, to) = <<Down("Tab"), Up("Tab")>>
        BY <1>3, <2>3 DEF Events, Pointing
      <3> QED
        BY <3>1
    <2>4. CASE type = "ReplaceText"
      <3>1. Events(type, at, to) = <<Down("Control"), Down("A"), Up("A"), Up("Control"), Input>>
        BY <1>3, <2>4 DEF Events, Pointing
      <3> QED
        BY <3>1
    <2>5. CASE type \notin {"Drag", "Hover", "Drop", "Type", "Scroll", "KeyPress", "Blur", "ReplaceText"}
      <3>1. Events(type, at, to) = << >>
        BY <1>3, <2>5 DEF Events, Pointing
      <3> QED
        BY <3>1
    <2> QED
      BY <2>1, <2>2, <2>3, <2>4, <2>5
  <1> QED
    BY <1>1, <1>2, <1>3

(* Nothing is planned or held to begin with.                                 *)
LEMMA GestureInit == Init => GestureInv
  BY DEF Init, PlanInit, GestureInv, PressesLand, NothingStaysDown

(* A step of the dispatcher keeps what is known of the plan.                 *)
LEMMA ExecuteKeeps ==
    ASSUME GestureInv, execute, UNCHANGED part
    PROVE  GestureInv'
  <1>1. PICK p \in plan : step < Len(p.events) /\ Dispatched(p)
    BY DEF execute
  <1>2. PICK at : UnderWay(p, at)
    BY <1>1 DEF GestureInv
  <1> DEFINE es == p.events
             n == step + 1
  <1>3. /\ Gesture(es, at) /\ step \in Nat /\ step <= Len(es) /\ Len(es) \in Nat
        /\ step < Len(es) /\ held \subseteq DownAfter(es, step)
    BY <1>1, <1>2 DEF UnderWay, Gesture
  <1>4. /\ n \in 1 .. Len(es) /\ step' = n /\ UNCHANGED <<plan, unmoved, stuck, layout>>
        /\ pointer' = IF es[n].do = "move" THEN es[n].what ELSE pointer
        /\ held' = CASE es[n].do = "down" -> held \cup {es[n].what}
                     [] es[n].do = "up" -> held \ {es[n].what}
                     [] OTHER -> held
        /\ press' = IF es[n].do = "down" /\ es[n].what \in {"left", "right"}
                    THEN {[target |-> p.target, hit |-> hit_test(layout, pointer), unmoved |-> unmoved]}
                    ELSE press
    <2>1. n \in 1 .. Len(es)
      BY <1>3
    <2>2. step' = n /\ UNCHANGED <<plan, unmoved, stuck, layout>>
      BY DEF execute, pageVars, docVars
    <2> QED
      BY <1>1, <2>1, <2>2, Zenon DEF Dispatched
  <1>5. p.events[1].do = "move" /\ 1 <= step /\ (\A j \in 2 .. step : es[j].do # "move")
            => pointer = es[1].what
    BY <1>2 DEF UnderWay
  <1> HIDE DEF es
  <1>6. held' \subseteq DownAfter(es, n)
    <2> SUFFICES ASSUME NEW w \in held' PROVE w \in DownAfter(es, n)
      OBVIOUS
    <2>1. CASE es[n].do = "down" /\ w = es[n].what
      BY <1>3, <1>4, <2>1 DEF DownAfter
    <2>2. CASE ~(es[n].do = "down" /\ w = es[n].what)
      <3>1. w \in held /\ ~(es[n].do = "up" /\ w = es[n].what)
        BY <1>4, <2>2
      <3>2. PICK i \in 1 .. step : /\ es[i].do = "down" /\ w = es[i].what
                                   /\ \A j \in i + 1 .. step : ~(es[j].do = "up" /\ es[j].what = es[i].what)
        BY <1>3, <3>1 DEF DownAfter
      <3>3. i \in 1 .. n /\ \A j \in i + 1 .. n : j \in i + 1 .. step \/ j = n
        BY <1>3, <3>2
      <3>4. \A j \in i + 1 .. n : ~(es[j].do = "up" /\ es[j].what = es[i].what)
        BY <3>1, <3>2, <3>3
      <3> QED
        BY <3>2, <3>3, <3>4 DEF DownAfter
    <2> QED
      BY <2>1, <2>2
  <1>7. 1 <= n /\ es[1].do = "move" /\ (\A j \in 2 .. n : es[j].do # "move") => pointer' = es[1].what
    <2>1. CASE n = 1
      BY <1>4, <2>1
    <2>2. CASE n # 1
      <3>1. n \in 2 .. n /\ 1 <= step /\ \A j \in 2 .. step : j \in 2 .. n
        BY <1>3, <2>2
      <3> QED
        BY <1>4, <1>5, <3>1 DEF es
    <2> QED
      BY <2>1, <2>2
  <1>8. PressesLand'
    <2>1. CASE es[n].do = "down" /\ es[n].what \in {"left", "right"}
      <3>1. /\ 1 < n /\ es[1].do = "move" /\ es[1].what = at /\ at # None
            /\ \A j \in 2 .. n : es[j].do # "move"
        BY <1>3, <1>4, <2>1 DEF Gesture
      <3>2. 1 <= step /\ \A j \in 2 .. step : j \in 2 .. n
        BY <1>3, <3>1
      <3>3. pointer = at
        BY <1>5, <3>1, <3>2 DEF es
      <3>4. unmoved => hit_test(layout, pointer) = p.target
        BY <1>2, <3>1, <3>3 DEF UnderWay
      <3>5. press' = {[target |-> p.target, hit |-> hit_test(layout, pointer), unmoved |-> unmoved]}
        BY <1>4, <2>1
      <3> QED
        BY <3>4, <3>5 DEF PressesLand
    <2>2. CASE ~(es[n].do = "down" /\ es[n].what \in {"left", "right"})
      <3>1. press' = press
        BY <1>4, <2>2
      <3> QED
        BY <3>1 DEF GestureInv, PressesLand
    <2> QED
      BY <2>1, <2>2
  <1>9. UnderWay(p, at)'
    <2>1. unmoved' /\ at # None => hit_test(layout', at) = p.target
      BY <1>2, <1>4 DEF UnderWay
    <2>2. n \in 0 .. Len(es) /\ step' = n
      BY <1>3, <1>4
    <2>3. es = p.events
      BY DEF es
    <2> HIDE DEF n
    <2> QED
      BY <1>3, <1>6, <1>7, <2>1, <2>2, <2>3 DEF UnderWay
  <1> QED
    BY <1>1, <1>4, <1>8, <1>9 DEF GestureInv, NothingStaysDown

(* A new plan is made for the layout it is tested against.                   *)
LEMMA PlanKeeps ==
    ASSUME GestureInv, NEW target, NEW type, NEW boxes \in {layout, << >>}, NEW to,
           plan_internal(target, type, to, boxes), part = "planning", UNCHANGED part
    PROVE  GestureInv'
  <1>1. PICK node \in Resolved(target) :
           /\ Interactable(node, boxes)
           /\ type \in NeedsPoint => node.geometry # None
           /\ plan' = {[target |-> node.id, events |-> Events(type, node.geometry, to)]}
    BY DEF plan_internal
  <1> DEFINE at == node.geometry
             p == [target |-> node.id, events |-> Events(type, at, to)]
  <1>2. /\ plan = {} /\ stuck = {} /\ held = {} /\ unmoved' = (boxes # << >>) /\ step' = 0 /\ press' = {}
        /\ UNCHANGED <<layout, held, stuck>>
    BY DEF plan_internal, pageVars, docVars, GestureInv, NothingStaysDown
  <1>3. Gesture(Events(type, at, to), at)
    BY <1>1, EventsAreGestures
  <1>4. unmoved' /\ at # None => hit_test(layout', at) = node.id
    BY <1>1, <1>2 DEF Interactable
  <1>5. UnderWay(p, at)'
    <2>1. p.events = Events(type, at, to) /\ p.target = node.id
      OBVIOUS
    <2>2. 0 \in 0 .. Len(p.events) /\ Gesture(p.events, at) /\ ~(1 <= 0)
      BY <1>3, <2>1 DEF Gesture
    <2> HIDE DEF p
    <2> QED
      BY <1>2, <1>4, <2>1, <2>2 DEF UnderWay
  <1>6. unmoved' \in BOOLEAN
    BY <1>2
  <1> QED
    BY <1>1, <1>2, <1>5, <1>6 DEF GestureInv, PressesLand, NothingStaysDown

(* Planning, every dispatched event, the end of a gesture and its failure    *)
(* keep the invariant.                                                       *)
LEMMA GestureSteps == GestureInv /\ [Next]_vars => GestureInv'
  <1> SUFFICES ASSUME GestureInv, [Next]_vars PROVE GestureInv'
    OBVIOUS
  <1>1. ASSUME UNCHANGED planVars, UNCHANGED part, plan = {} \/ UNCHANGED layout PROVE GestureInv'
    <2>1. ASSUME NEW p \in plan, NEW at, UnderWay(p, at) PROVE UnderWay(p, at)'
      BY <1>1, <2>1 DEF planVars, UnderWay
    <2> QED
      BY <1>1, <2>1 DEF planVars, GestureInv, PressesLand, NothingStaysDown
  <1>2. CASE part # "planning" /\ UNCHANGED planVars /\ UNCHANGED part
    BY <1>1, <1>2 DEF GestureInv
  <1>3. CASE PageChanges /\ UNCHANGED part
    <2>1. /\ UNCHANGED <<plan, step, pointer, held, stuck, press>>
          /\ unmoved' = (unmoved /\ layout' = layout)
      BY <1>3 DEF PageChanges
    <2>2. ASSUME NEW p \in plan, NEW at, UnderWay(p, at) PROVE UnderWay(p, at)'
      BY <2>1, <2>2 DEF UnderWay
    <2>3. unmoved' \in BOOLEAN
      BY <2>1
    <2> QED
      BY <1>3, <2>1, <2>2, <2>3 DEF GestureInv, PressesLand, NothingStaysDown
  <1>4. CASE complete /\ UNCHANGED part
    <2>1. PICK p \in plan : step = Len(p.events)
      BY <1>4 DEF complete
    <2>2. PICK at : UnderWay(p, at)
      BY <2>1 DEF GestureInv
    <2>3. DownAfter(p.events, step) = {}
      BY <2>1, <2>2 DEF UnderWay, Gesture, DownAfter
    <2> QED
      BY <1>4, <2>2, <2>3 DEF complete, UnderWay, GestureInv, PressesLand, NothingStaysDown
  <1>5. CASE dispatch_error /\ UNCHANGED part
    BY <1>5 DEF dispatch_error, GestureInv, PressesLand, NothingStaysDown
  <1>6. CASE part = "planning" /\ PlanNext /\ UNCHANGED part
    BY <1>3, <1>4, <1>5, <1>6, PlanKeeps, ExecuteKeeps DEF PlanNext
  <1>7. CASE UNCHANGED vars
    BY <1>1, <1>7 DEF vars, pageVars, docVars
  <1> QED
    BY <1>2, <1>6, <1>7 DEF Next

(* A press of a button hits the node the plan was made for as long as the    *)
(* layout it was tested against stands, and no finished gesture leaves a     *)
(* button or key down (plan_internal and execute of crates/action-planner):  *)
(* whatever the page, the actions and their number.                          *)
THEOREM PressesHitTheirTarget == Spec => []GesturesAreClean
  <1>1. GestureInv => GesturesAreClean
    BY DEF GestureInv, GesturesAreClean
  <1> QED
    BY <1>1, GestureInit, GestureSteps, PTL DEF Spec

-----------------------------------------------------------------------------
(* References into the document (PageTree) *)

(* A reference is never ahead of the document; one of its generation has     *)
(* what the document has.                                                    *)
ReferencesInv ==
    /\ DOMAIN document = {"generation", "lifecycle", "root", "nodes"} /\ document.generation \in Nat
    /\ \A ref \in refs :
          /\ ref.generation \in Nat /\ ref.generation <= document.generation
          /\ ref.generation = document.generation =>
                ref.node \in DOMAIN document.nodes /\ document.nodes[ref.node] = ref.as

(* Whatever changes the document takes its next generation.                  *)
DocumentMoves ==
    \/ document' = document
    \/ DOMAIN document' = DOMAIN document /\ document'.generation = document.generation + 1

(* All that is done to the document.                                         *)
Mutated ==
    \/ \E n \in NodeIds, g \in Seq(NodeIds) : \E p, t, k : InsertNode(n, p, t, k, g)
    \/ \E n : RemoveNode(n)
    \/ \E n, x : SetText(n, x) \/ SetAttribute(n, x)
    \/ begin_navigation
    \/ \E l : advance_lifecycle(l)

(* In all parts of the page.                                                 *)
LEMMA AllMutate ==
    /\ Mutation \/ (\E l : advance_lifecycle(l)) => Mutated
    /\ PagingNext => Mutated \/ compile \/ \E l \in Limits : \E b : page(l, b)
    /\ PageChanges => \/ Mutated \/ compile
                      \/ (\E n, b : insert_box(n, b)) \/ (\E n : remove_box(n))
  <1>1. Brought \subseteq Seq(NodeIds) /\ << >> \in Seq(NodeIds) /\ Targets \subseteq NodeIds
    BY PageAssumption, TargetsAssumption
  <1>2. Mutation \/ (\E l : advance_lifecycle(l)) => Mutated
    <2>1. ASSUME NEW n \in NodeIds, NEW p, NEW k, NEW g \in Brought,
                 InsertNode(n, p, CHOOSE t \in Texts : TRUE, k, g)
          PROVE  Mutated
      BY <1>1, <2>1 DEF Mutated
    <2> QED
      BY <2>1 DEF Mutation, Mutated
  <1>3. ASSUME NEW n \in NodeIds, NEW p, NEW t, NEW k, InsertNode(n, p, t, k, << >>) PROVE Mutated
    BY <1>1, <1>3 DEF Mutated
  <1>4. PagingNext => Mutated \/ compile \/ \E l \in Limits : \E b : page(l, b)
    BY <1>3 DEF PagingNext, Mutated
  <1>5. PageChanges => \/ Mutated \/ compile
                      \/ (\E n, b : insert_box(n, b)) \/ (\E n : remove_box(n))
    BY <1>1, <1>3 DEF PageChanges
  <1> QED
    BY <1>2, <1>4, <1>5

(* Every mutation moves the document on.                                     *)
LEMMA DocumentSteps ==
    ASSUME ReferencesInv, Mutated
    PROVE  DocumentMoves /\ refs' = refs
  <1>1. ASSUME NEW nodes, NEW root, Changed(nodes, root) PROVE DocumentMoves /\ refs' = refs
    BY <1>1 DEF Changed, DocumentMoves, ReferencesInv
  <1>2. ASSUME NEW n, NEW p, NEW t, NEW k, NEW g, InsertNode(n, p, t, k, g)
        PROVE  \E nodes, root : Changed(nodes, root)
    BY <1>2 DEF InsertNode
  <1>3. ASSUME NEW n, RemoveNode(n) PROVE \E nodes, root : Changed(nodes, root)
    BY <1>3 DEF RemoveNode
  <1>4. ASSUME NEW n, NEW x, SetText(n, x) \/ SetAttribute(n, x) PROVE \E nodes, root : Changed(nodes, root)
    BY <1>4 DEF SetText, SetAttribute
  <1>5. ASSUME begin_navigation PROVE DocumentMoves /\ refs' = refs
    BY <1>5 DEF begin_navigation, DocumentMoves, ReferencesInv
  <1>6. ASSUME NEW l, advance_lifecycle(l) PROVE DocumentMoves /\ refs' = refs
    BY <1>6 DEF advance_lifecycle, DocumentMoves, ReferencesInv
  <1> QED
    BY <1>1, <1>2, <1>3, <1>4, <1>5, <1>6 DEF Mutated

(* Every step of the page keeps references exact.                            *)
LEMMA ReferencesSteps == ReferencesInv /\ [Next]_vars => ReferencesInv'
  <1> SUFFICES ASSUME ReferencesInv, [Next]_vars PROVE ReferencesInv'
    OBVIOUS
  <1>1. CASE DocumentMoves /\ refs' = refs
    BY <1>1 DEF DocumentMoves, ReferencesInv
  <1>2. CASE \E n \in NodeIds : reference(n)
    BY <1>2 DEF reference, ReferencesInv
  <1>3. CASE UNCHANGED <<document, refs>>
    BY <1>1, <1>3 DEF DocumentMoves
  <1>4. ASSUME compile \/ (\E l, b : page(l, b)) \/ FrameNext \/ UNCHANGED pageVars
        PROVE  UNCHANGED <<document, refs>>
    BY <1>4 DEF compile, page, FrameNext, add_child, navigate, docVars, pageVars
  <1>5. CASE DocumentNext
    BY <1>1, <1>2, <1>5, AllMutate, DocumentSteps DEF DocumentNext
  <1>6. CASE DiffNext
    BY <1>1, <1>3, <1>4, <1>6, AllMutate, DocumentSteps DEF DiffNext
  <1>7. CASE PagingNext
    BY <1>1, <1>3, <1>4, <1>7, AllMutate, DocumentSteps
  <1>8. CASE PlanNext
    <2>1. CASE PageChanges
      <3>1. ASSUME (\E n, b : insert_box(n, b)) \/ (\E n : remove_box(n)) PROVE UNCHANGED <<document, refs>>
        BY <3>1 DEF insert_box, remove_box
      <3> QED
        BY <1>1, <1>3, <1>4, <2>1, <3>1, AllMutate, DocumentSteps
    <2>2. ASSUME (\E t, a, to, b : plan_internal(t, a, to, b)) \/ execute \/ complete \/ dispatch_error
          PROVE  UNCHANGED pageVars
      BY <2>2 DEF plan_internal, execute, complete, dispatch_error
    <2> QED
      BY <1>3, <1>4, <1>8, <2>1, <2>2 DEF PlanNext
  <1> QED
    BY <1>3, <1>4, <1>5, <1>6, <1>7, <1>8 DEF Next, vars

-----------------------------------------------------------------------------
(* Records (Journals) *)

(* A set of numbers that is not empty has a smallest one.                    *)
LEMMA LeastNumber ==
    ASSUME NEW T, T \subseteq Nat, T # {}
    PROVE  \E x \in T : \A y \in T : x <= y
  <1> DEFINE R == {ss \in Nat \X Nat : ss[1] < ss[2]}
  <1>1. IsWellFoundedOn(R, Nat)
    BY NatLessThanWellFounded DEF OpToRel
  <1> HIDE DEF R
  <1>2. PICK x \in T : \A y \in T : <<y, x>> \notin R
    BY <1>1, WFMin
  <1>3. \A y \in T : ~(y < x)
    BY <1>2 DEF R
  <1> QED
    BY <1>3

(* Induction up to n, over a set of numbers in the place of a predicate.     *)
LEMMA UpTo ==
    ASSUME NEW n \in Nat, NEW P, 0 \in P, \A i \in 1 .. n : i - 1 \in P => i \in P
    PROVE  \A i \in 0 .. n : i \in P
  <1> DEFINE T == (0 .. n) \ P
  <1> SUFFICES ASSUME T # {} PROVE FALSE
    OBVIOUS
  <1>1. T \subseteq Nat
    OBVIOUS
  <1>2. PICK m \in T : \A k \in T : m <= k
    <2> HIDE DEF T
    <2> QED
      BY <1>1, LeastNumber
  <1>3. m \in 0 .. n /\ m \notin P /\ m # 0
    BY <1>2
  <1>4. m \in 1 .. n /\ m - 1 \in 0 .. n /\ m - 1 \notin P /\ ~(m <= m - 1)
    BY <1>3
  <1>5. m - 1 \in T
    BY <1>4
  <1> HIDE DEF T
  <1> QED
    BY <1>2, <1>4, <1>5

(* A sequence, whatever its elements.                                        *)
Sequential(s) == \E S : s \in Seq(S)

(* What Append does to a sequence of anything.                               *)
LEMMA Appending ==
    ASSUME NEW s, Sequential(s), NEW e
    PROVE  /\ Sequential(Append(s, e)) /\ Len(s) \in Nat /\ Len(Append(s, e)) = Len(s) + 1
           /\ DOMAIN s = 1 .. Len(s) /\ DOMAIN Append(s, e) = 1 .. Len(s) + 1
           /\ \A i \in 1 .. Len(s) : Append(s, e)[i] = s[i]
           /\ Append(s, e)[Len(s) + 1] = e
           /\ \A i : i \in 1 .. Len(s) + 1 <=> (i \in 1 .. Len(s) \/ i = Len(s) + 1)
  <1>1. PICK S : s \in Seq(S)
    BY DEF Sequential
  <1> DEFINE T == S \cup {e}
  <1>2. s \in Seq(T) /\ e \in T
    BY <1>1, SeqMonotonic
  <1> HIDE DEF T
  <1>3. /\ Append(s, e) \in Seq(T) /\ Len(s) \in Nat /\ Len(Append(s, e)) = Len(s) + 1
        /\ DOMAIN s = 1 .. Len(s) /\ DOMAIN Append(s, e) = 1 .. Len(s) + 1
        /\ \A i \in 1 .. Len(s) : Append(s, e)[i] = s[i]
        /\ Append(s, e)[Len(s) + 1] = e
    BY <1>2, AppendProperties, LenProperties
  <1>4. \A i : i \in 1 .. Len(s) + 1 <=> (i \in 1 .. Len(s) \/ i = Len(s) + 1)
    BY <1>3
  <1> QED
    BY <1>3, <1>4 DEF Sequential

(* The trace: what was recorded, in ascending order.                         *)
TraceGood(entries, next, recorded) ==
    /\ Sequential(entries) /\ Sequential(recorded) /\ Len(recorded) = Len(entries) /\ next \in Nat
    /\ \A i \in 1 .. Len(entries) : entries[i].event = recorded[i] /\ entries[i].sequence \in Nat
    /\ \A i, j \in 1 .. Len(entries) : i < j => entries[i].sequence < entries[j].sequence
    /\ entries # << >> => next = entries[Len(entries)].sequence + 1

(* The trace in memory and the trace in the file are good.                   *)
TraceInv ==
    /\ part # "trace" => trace.entries = << >>
    /\ part = "trace" =>
          /\ TraceGood(trace.entries, trace.next_sequence, kept)
          /\ \A saved \in file : TraceGood(saved.trace.entries, saved.trace.next_sequence, saved.kept)

(* One event more (EventTrace::record).                                      *)
LEMMA TraceGrows ==
    ASSUME NEW entries, NEW next, NEW recorded, TraceGood(entries, next, recorded), NEW event
    PROVE  TraceGood(Append(entries, [sequence |-> next, event |-> event]), next + 1,
                     Append(recorded, event))
  <1> DEFINE e == [sequence |-> next, event |-> event]
             s == Append(entries, e)
             r == Append(recorded, event)
             n == Len(entries)
  <1>1. e.sequence = next /\ e.event = event
    OBVIOUS
  <1> HIDE DEF e
  <1>2. /\ Sequential(s) /\ n \in Nat /\ Len(s) = n + 1 /\ s[n + 1] = e
        /\ \A i \in 1 .. n : s[i] = entries[i]
        /\ \A i : i \in 1 .. n + 1 <=> (i \in 1 .. n \/ i = n + 1)
    BY Appending DEF TraceGood
  <1>3. /\ Sequential(r) /\ Len(r) = n + 1 /\ r[n + 1] = event
        /\ \A i \in 1 .. n : r[i] = recorded[i]
    BY Appending DEF TraceGood
  <1>4. /\ next \in Nat
        /\ \A i \in 1 .. n : entries[i].event = recorded[i] /\ entries[i].sequence \in Nat
        /\ \A i, j \in 1 .. n : i < j => entries[i].sequence < entries[j].sequence
    BY DEF TraceGood
  <1>5. \A i \in 1 .. n : entries[i].sequence < next
    <2> SUFFICES ASSUME NEW i \in 1 .. n PROVE entries[i].sequence < next
      OBVIOUS
    <2>1. n \in 1 .. n /\ entries # << >> /\ (i < n \/ i = n)
      <3>1. n # 0
        BY <1>2
      <3>2. entries # << >>
        BY <3>1
      <3> QED
        BY <1>2, <3>1, <3>2
    <2>2. next = entries[n].sequence + 1
      BY <2>1 DEF TraceGood
    <2>3. i < n => entries[i].sequence < entries[n].sequence
      BY <1>4, <2>1
    <2>4. entries[i].sequence \in Nat /\ entries[n].sequence \in Nat
      BY <1>4, <2>1
    <2> QED
      BY <2>1, <2>2, <2>3, <2>4
  <1> HIDE DEF s, r, n
  <1>6. \A i \in 1 .. n + 1 : s[i].event = r[i] /\ s[i].sequence \in Nat
    BY <1>1, <1>2, <1>3, <1>4
  <1>7. ASSUME NEW i \in 1 .. n + 1, NEW j \in 1 .. n + 1, i < j PROVE s[i].sequence < s[j].sequence
    <2>1. i \in 1 .. n
      BY <1>2, <1>7
    <2>2. CASE j \in 1 .. n
      BY <1>2, <1>4, <1>7, <2>1, <2>2
    <2>3. CASE j = n + 1
      BY <1>1, <1>2, <1>5, <2>1, <2>3
    <2> QED
      BY <1>2, <2>2, <2>3
  <1>8. next + 1 \in Nat /\ next + 1 = s[Len(s)].sequence + 1
    BY <1>1, <1>2, <1>4
  <1>9. TraceGood(s, next + 1, r)
    BY <1>2, <1>3, <1>6, <1>7, <1>8 DEF TraceGood
  <1> QED
    BY <1>9 DEF s, r, e

(* Recording, saving and restoring keep the trace good.                      *)
LEMMA TraceSteps == TraceInv /\ [Next]_vars => TraceInv'
  <1> SUFFICES ASSUME TraceInv, [Next]_vars PROVE TraceInv'
    OBVIOUS
  <1>1. CASE UNCHANGED <<part, trace, kept, file>>
    BY <1>1 DEF TraceInv
  <1>2. CASE part # "trace" /\ UNCHANGED <<part, trace>>
    BY <1>2 DEF TraceInv
  <1>3. CASE part = "trace" /\ UNCHANGED part /\ TraceNext
    <2>1. /\ TraceGood(trace.entries, trace.next_sequence, kept)
          /\ \A saved \in file : TraceGood(saved.trace.entries, saved.trace.next_sequence, saved.kept)
      BY <1>3 DEF TraceInv
    <2>2. CASE record
      <3> DEFINE e == [sequence |-> trace.next_sequence, event |-> published']
      <3>1. /\ trace' = [entries |-> Append(trace.entries, e), next_sequence |-> trace.next_sequence + 1]
            /\ kept' = Append(kept, published') /\ UNCHANGED file
        BY <2>2 DEF record
      <3>2. /\ trace'.entries = Append(trace.entries, e)
            /\ trace'.next_sequence = trace.next_sequence + 1
        BY <3>1
      <3>3. PICK event : event = published'
        OBVIOUS
      <3>4. TraceGood(Append(trace.entries, [sequence |-> trace.next_sequence, event |-> event]),
                      trace.next_sequence + 1, Append(kept, event))
        BY <2>1, TraceGrows
      <3>5. TraceGood(trace'.entries, trace'.next_sequence, kept')
        BY <3>1, <3>2, <3>3, <3>4
      <3> QED
        BY <1>3, <2>1, <3>1, <3>5 DEF TraceInv
    <2>3. CASE save_trace
      <3>1. file' = {[trace |-> trace, kept |-> kept]} /\ UNCHANGED <<trace, kept>>
        BY <2>3 DEF save_trace
      <3>2. \A saved \in file' : saved.trace = trace /\ saved.kept = kept
        BY <3>1
      <3> QED
        BY <1>3, <2>1, <3>1, <3>2 DEF TraceInv
    <2>4. CASE trace_from_json
      <3>1. PICK saved \in file :
               /\ trace' = [entries |-> saved.trace.entries,
                            next_sequence |-> IF saved.trace.entries = << >> THEN 0
                                              ELSE Last(saved.trace.entries).sequence + 1]
               /\ kept' = saved.kept
        BY <2>4 DEF trace_from_json
      <3>2. TraceGood(saved.trace.entries, saved.trace.next_sequence, saved.kept) /\ UNCHANGED file
        BY <2>1, <2>4 DEF trace_from_json
      <3> DEFINE s == saved.trace.entries
                 next == IF s = << >> THEN 0 ELSE Last(s).sequence + 1
      <3>3. trace'.entries = s /\ trace'.next_sequence = next
        BY <3>1
      <3>4. s # << >> => Last(s) = s[Len(s)] /\ s[Len(s)].sequence \in Nat
        <4>1. s # << >> => Len(s) \in 1 .. Len(s)
          BY <3>2 DEF TraceGood, Sequential
        <4> QED
          BY <3>2, <4>1 DEF TraceGood, Last
      <3> HIDE DEF s
      <3>5. next \in Nat /\ (s # << >> => next = s[Len(s)].sequence + 1)
        BY <3>4
      <3> HIDE DEF next
      <3>6. TraceGood(s, next, saved.kept)
        BY <3>2, <3>5 DEF TraceGood, s
      <3> QED
        BY <1>3, <2>1, <3>1, <3>2, <3>3, <3>6 DEF TraceInv
    <2> QED
      BY <1>3, <2>2, <2>3, <2>4 DEF TraceNext
  <1> QED
    BY <1>1, <1>2, <1>3 DEF Next, vars, journalVars, recordVars, streamVars, StreamNext, DiffStreamNext,
       AuditNext, SnapshotNext, publish, drain, drain_with_loss, publish_diff, next_generation, drain_diffs,
       drain_diffs_with_loss, append, retain_last, save_journal, journal_from_json, insert,
       save_snapshots, snapshots_from_json

(* The journal: what was recorded, numbered from 0 and chained.              *)
ChainGood(records, n, recorded) ==
    /\ Sequential(records) /\ Len(records) = n
    /\ \A i \in 1 .. n :
          /\ records[i].event = recorded[i] /\ records[i].sequence = i - 1
          /\ records[i].previous_integrity = IF i = 1 THEN << >> ELSE records[i - 1].integrity
          /\ integrity(records[i]) = records[i].integrity

JournalGood(records, n, recorded) ==
    n \in Nat /\ ChainGood(records, n, recorded) /\ Sequential(recorded) /\ Len(recorded) = n

(* The journal in memory and the journal in the file are good.               *)
AuditInv ==
    /\ part # "audit" => journal.records = << >> /\ journal.next_sequence = 0
    /\ part = "audit" =>
          /\ JournalGood(journal.records, journal.next_sequence, kept)
          /\ \A saved \in file : JournalGood(saved.journal.records, saved.journal.next_sequence, saved.kept)

(* One record more, chained to the last.                                     *)
LEMMA ChainGrows ==
    ASSUME NEW records, NEW n \in Nat, NEW recorded, ChainGood(records, n, recorded),
           NEW event, NEW more, \A i \in 1 .. n : more[i] = recorded[i], more[n + 1] = event
    PROVE  ChainGood(Append(records, AuditRecord(n, event, Tip(records))), n + 1, more)
  <1> DEFINE e == AuditRecord(n, event, Tip(records))
             s == Append(records, e)
  <1>1. /\ e.sequence = n /\ e.event = event /\ e.previous_integrity = Tip(records)
        /\ integrity(e) = e.integrity
    BY DEF AuditRecord, integrity
  <1> HIDE DEF e
  <1>2. /\ Sequential(s) /\ Len(s) = n + 1 /\ s[n + 1] = e /\ Len(records) = n
        /\ \A i \in 1 .. n : s[i] = records[i]
        /\ \A i : i \in 1 .. n + 1 <=> (i \in 1 .. n \/ i = n + 1)
    BY Appending DEF ChainGood
  <1> HIDE DEF s
  <1>3. Tip(records) = IF n + 1 = 1 THEN << >> ELSE s[(n + 1) - 1].integrity
    <2>1. CASE n = 0
      <3>1. records = << >>
        BY <2>1 DEF ChainGood, Sequential
      <3> QED
        BY <2>1, <3>1 DEF Tip
    <2>2. CASE n # 0
      <3>1. records # << >> /\ n \in 1 .. n /\ (n + 1) - 1 = n /\ n + 1 # 1
        BY <1>2, <2>2
      <3>2. Tip(records) = records[n].integrity
        BY <1>2, <3>1 DEF Tip, Last
      <3> QED
        BY <1>2, <3>1, <3>2
    <2> QED
      BY <2>1, <2>2
  <1>4. ASSUME NEW i \in 1 .. n
        PROVE  /\ s[i].event = more[i] /\ s[i].sequence = i - 1
               /\ s[i].previous_integrity = IF i = 1 THEN << >> ELSE s[i - 1].integrity
               /\ integrity(s[i]) = s[i].integrity
    <2>1. /\ records[i].event = recorded[i] /\ records[i].sequence = i - 1
          /\ records[i].previous_integrity = IF i = 1 THEN << >> ELSE records[i - 1].integrity
          /\ integrity(records[i]) = records[i].integrity
      BY DEF ChainGood
    <2>2. s[i] = records[i] /\ (i # 1 => s[i - 1] = records[i - 1])
      <3>1. i # 1 => i - 1 \in 1 .. n
        OBVIOUS
      <3> QED
        BY <1>2, <3>1
    <2> QED
      BY <2>1, <2>2
  <1>5. (n + 1) - 1 = n
    OBVIOUS
  <1>6. ChainGood(s, n + 1, more)
    BY <1>1, <1>2, <1>3, <1>4, <1>5 DEF ChainGood
  <1> QED
    BY <1>6 DEF s, e

(* Retention numbers and chains the last records anew.                       *)
LEMMA ChainAnew ==
    ASSUME NEW n \in Nat, NEW last, NEW recorded, \A i \in 1 .. n : recorded[i] = last[i].event,
           NEW c, c = CHOOSE g : g = [i \in 0 .. n |-> IF i = 0 THEN << >> ELSE
                       Append(g[i - 1], AuditRecord(i - 1, last[i].event, Tip(g[i - 1])))]
    PROVE  ChainGood(c[n], n, recorded)
  <1> DEFINE Next1(s, i) == Append(s, AuditRecord(i - 1, last[i].event, Tip(s)))
             Made(m, g) == [i \in 0 .. m |-> IF i = 0 THEN << >> ELSE Next1(g[i - 1], i)]
             P == {m \in 0 .. n : \E g : g = Made(m, g)}
             Q == {m \in 0 .. n : ChainGood(c[m], m, recorded)}
  <1>1. c = CHOOSE g : g = Made(n, g)
    BY Zenon
  <1>2. n \in P
    <2>1. 0 \in P
      <3> DEFINE g == [i \in 0 .. 0 |-> << >>]
      <3>1. \A i \in 0 .. 0 : i = 0
        OBVIOUS
      <3> HIDE DEF Next1
      <3>2. g = Made(0, g)
        BY <3>1
      <3>3. 0 \in 0 .. n
        OBVIOUS
      <3> HIDE DEF g, Made
      <3> QED
        BY <3>2, <3>3
    <2>2. ASSUME NEW m \in 1 .. n, m - 1 \in P PROVE m \in P
      <3>1. PICK h : h = Made(m - 1, h)
        <4> HIDE DEF Made
        <4> QED
          BY <2>2
      <3> DEFINE e == Next1(h[m - 1], m)
                 g == [i \in 0 .. m |-> IF i = m THEN e ELSE h[i]]
      <3> HIDE DEF Next1
      <3>2. \A i \in 0 .. m - 1 : h[i] = IF i = 0 THEN << >> ELSE Next1(h[i - 1], i)
        <4>1. PICK k : k = Made(m - 1, h)
          OBVIOUS
        <4>2. \A i \in 0 .. m - 1 : k[i] = IF i = 0 THEN << >> ELSE Next1(h[i - 1], i)
          BY <4>1
        <4>3. k = h
          BY <3>1, <4>1
        <4> QED
          BY <4>2, <4>3
      <3>3. \A i \in 0 .. m : i = m \/ (i \in 0 .. m - 1 /\ i # m)
        OBVIOUS
      <3> HIDE DEF e
      <3>4. g[m] = e /\ \A i \in 0 .. m - 1 : g[i] = h[i]
        OBVIOUS
      <3>5. \A i \in 0 .. m : g[i] = IF i = 0 THEN << >> ELSE Next1(g[i - 1], i)
        <4> SUFFICES ASSUME NEW i \in 0 .. m PROVE g[i] = IF i = 0 THEN << >> ELSE Next1(g[i - 1], i)
          OBVIOUS
        <4> HIDE DEF g
        <4>1. i # 0 => i - 1 \in 0 .. m - 1
          OBVIOUS
        <4>2. CASE i = m
          <5>1. i # 0
            BY <4>2
          <5> QED
            BY <3>4, <4>1, <4>2, <5>1 DEF e
        <4>3. CASE i \in 0 .. m - 1
          BY <3>2, <3>4, <4>1, <4>3
        <4> QED
          BY <3>3, <4>2, <4>3
      <3>6. g = [i \in 0 .. m |-> g[i]]
        OBVIOUS
      <3> HIDE DEF g
      <3>7. g = Made(m, g)
        BY <3>5, <3>6
      <3>8. m \in 0 .. n
        OBVIOUS
      <3> HIDE DEF Made
      <3> QED
        BY <3>7, <3>8
    <2>3. n \in 0 .. n
      OBVIOUS
    <2> HIDE DEF P
    <2> QED
      BY <2>1, <2>2, <2>3, UpTo
  <1>3. c = Made(n, c)
    <2>1. PICK g : g = Made(n, g)
      <3> HIDE DEF Made
      <3> QED
        BY <1>2
    <2> HIDE DEF Made
    <2> QED
      BY <1>1, <2>1, Zenon
  <1>4. \A i \in 0 .. n : c[i] = IF i = 0 THEN << >> ELSE Next1(c[i - 1], i)
    <2> HIDE DEF Next1
    <2>1. PICK k : k = Made(n, c)
      OBVIOUS
    <2>2. \A i \in 0 .. n : k[i] = IF i = 0 THEN << >> ELSE Next1(c[i - 1], i)
      BY <2>1
    <2>3. k = c
      BY <1>3, <2>1
    <2> QED
      BY <2>2, <2>3
  <1>5. 0 \in Q
    <2>1. c[0] = << >> /\ 0 \in 0 .. n
      <3>1. 0 \in 0 .. n
        OBVIOUS
      <3> HIDE DEF Next1
      <3> QED
        BY <1>4, <3>1
    <2>2. Sequential(<< >>) /\ Len(<< >>) = 0 /\ 1 .. 0 = {}
      <3>1. << >> \in Seq({})
        OBVIOUS
      <3> QED
        BY <3>1 DEF Sequential
    <2>3. ChainGood(<< >>, 0, recorded)
      BY <2>2 DEF ChainGood
    <2> QED
      BY <2>1, <2>3
  <1>6. ASSUME NEW m \in 1 .. n, m - 1 \in Q PROVE m \in Q
    <2>1. ChainGood(c[m - 1], m - 1, recorded) /\ m - 1 \in Nat /\ (m - 1) + 1 = m
      BY <1>6
    <2>2. c[m] = Append(c[m - 1], AuditRecord(m - 1, last[m].event, Tip(c[m - 1])))
      <3>1. m \in 0 .. n /\ m # 0
        OBVIOUS
      <3> QED
        BY <1>4, <3>1
    <2>3. recorded[(m - 1) + 1] = last[m].event
      BY <2>1
    <2> HIDE DEF Q, P, Made, Next1
    <2>4. ChainGood(Append(c[m - 1], AuditRecord(m - 1, last[m].event, Tip(c[m - 1]))), (m - 1) + 1, recorded)
      BY <2>1, <2>3, ChainGrows
    <2>5. m \in 0 .. n
      OBVIOUS
    <2> QED
      BY <2>1, <2>2, <2>4, <2>5 DEF Q
  <1>7. n \in Q
    <2>1. n \in 0 .. n
      OBVIOUS
    <2> HIDE DEF Q
    <2> QED
      BY <1>5, <1>6, <2>1, UpTo
  <1> QED
    BY <1>7

(* Retention leaves a good journal of the last records                       *)
(* (AuditJournal::retain_last).                                              *)
LEMMA RetentionKeeps ==
    ASSUME AuditInv, part = "audit", NEW n \in 0 .. 2, retain_last(n)
    PROVE  JournalGood(journal'.records, journal'.next_sequence, kept')
  <1> DEFINE l == Len(journal.records)
             last == SubSeq(journal.records, l - n + 1, l)
  <1>1. JournalGood(journal.records, journal.next_sequence, kept)
    BY DEF AuditInv
  <1>2. l \in Nat /\ n \in Nat /\ l > n /\ Len(kept) = l /\ Sequential(kept) /\ Sequential(journal.records)
    BY <1>1 DEF JournalGood, ChainGood, retain_last
  <1>3. PICK c : /\ c = CHOOSE g : g = [i \in 0 .. n |-> IF i = 0 THEN << >> ELSE
                              Append(g[i - 1], AuditRecord(i - 1, last[i].event, Tip(g[i - 1])))]
                 /\ journal' = [records |-> c[n], next_sequence |-> n]
    BY Zenon DEF retain_last
  <1>4. kept' = SubSeq(kept, l - n + 1, l)
    BY <1>2 DEF retain_last
  <1>5. ASSUME NEW s, Sequential(s), Len(s) = l
        PROVE  /\ Sequential(SubSeq(s, l - n + 1, l)) /\ Len(SubSeq(s, l - n + 1, l)) = n
               /\ \A i \in 1 .. n : SubSeq(s, l - n + 1, l)[i] = s[l - n + i]
    <2>1. PICK S : s \in Seq(S)
      BY <1>5 DEF Sequential
    <2> HIDE DEF l
    <2>2. \A i \in 1 .. l : s[i] \in S
      BY <1>2, <1>5, <2>1, ElementOfSeq
    <2>3. l - n + 1 \in Int /\ l \in Int /\ \A i \in l - n + 1 .. l : s[i] \in S
      BY <1>2, <2>2
    <2>4. /\ SubSeq(s, l - n + 1, l) \in Seq(S)
          /\ Len(SubSeq(s, l - n + 1, l)) = IF l - n + 1 <= l THEN l - (l - n + 1) + 1 ELSE 0
          /\ \A i \in 1 .. l - (l - n + 1) + 1 : SubSeq(s, l - n + 1, l)[i] = s[l - n + 1 + i - 1]
      BY <2>3, SubSeqProperties
    <2>5. (IF l - n + 1 <= l THEN l - (l - n + 1) + 1 ELSE 0) = n /\ l - (l - n + 1) + 1 = n
      BY <1>2
    <2>6. \A i \in 1 .. n : l - n + 1 + i - 1 = l - n + i
      BY <1>2
    <2> QED
      BY <2>4, <2>5, <2>6 DEF Sequential
  <1>6. /\ Sequential(kept') /\ Len(kept') = n /\ \A i \in 1 .. n : kept'[i] = kept[l - n + i]
    BY <1>2, <1>4, <1>5
  <1>7. \A i \in 1 .. n : last[i] = journal.records[l - n + i]
    BY <1>2, <1>5
  <1>8. \A i \in 1 .. n : kept'[i] = last[i].event
    <2> SUFFICES ASSUME NEW i \in 1 .. n PROVE kept'[i] = last[i].event
      OBVIOUS
    <2>1. l - n + i \in 1 .. l
      BY <1>2
    <2>2. journal.records[l - n + i].event = kept[l - n + i]
      BY <1>1, <2>1 DEF JournalGood, ChainGood
    <2> HIDE DEF l, last
    <2> QED
      BY <1>6, <1>7, <2>2
  <1> HIDE DEF l, last
  <1>9. PICK recorded : recorded = kept'
    OBVIOUS
  <1>10. ChainGood(c[n], n, recorded)
    BY <1>2, <1>3, <1>8, <1>9, ChainAnew
  <1>11. journal'.records = c[n] /\ journal'.next_sequence = n
    BY <1>3
  <1> QED
    BY <1>2, <1>6, <1>9, <1>10, <1>11 DEF JournalGood

(* Appending, retention, saving and restoring keep the journal good.         *)
LEMMA AuditSteps == AuditInv /\ [Next]_vars => AuditInv'
  <1> SUFFICES ASSUME AuditInv, [Next]_vars PROVE AuditInv'
    OBVIOUS
  <1>1. CASE UNCHANGED <<part, journal, kept, file>>
    BY <1>1 DEF AuditInv
  <1>2. CASE part # "audit" /\ UNCHANGED <<part, journal>>
    BY <1>2 DEF AuditInv
  <1>3. CASE part = "audit" /\ UNCHANGED part /\ AuditNext
    <2>1. /\ JournalGood(journal.records, journal.next_sequence, kept)
          /\ \A saved \in file : JournalGood(saved.journal.records, saved.journal.next_sequence, saved.kept)
      BY <1>3 DEF AuditInv
    <2>2. CASE append
      <3> DEFINE n == journal.next_sequence
      <3>1. PICK event : event = published'
        OBVIOUS
      <3>2. /\ journal' = [records |-> Append(journal.records, AuditRecord(n, event, Tip(journal.records))),
                           next_sequence |-> n + 1]
            /\ kept' = Append(kept, event) /\ UNCHANGED file
        BY <2>2, <3>1 DEF append
      <3>3. n \in Nat /\ ChainGood(journal.records, n, kept) /\ Sequential(kept) /\ Len(kept) = n
        BY <2>1 DEF JournalGood
      <3>4. PICK more : more = Append(kept, event)
        OBVIOUS
      <3>5. /\ Sequential(more) /\ Len(more) = n + 1 /\ more[n + 1] = event
            /\ \A i \in 1 .. n : more[i] = kept[i]
        BY <3>3, <3>4, Appending
      <3>6. ChainGood(Append(journal.records, AuditRecord(n, event, Tip(journal.records))), n + 1, more)
        BY <3>3, <3>5, ChainGrows
      <3>7. /\ journal'.records = Append(journal.records, AuditRecord(n, event, Tip(journal.records)))
            /\ journal'.next_sequence = n + 1 /\ kept' = more
        BY <3>2, <3>4
      <3>8. n + 1 \in Nat
        BY <3>3
      <3>9. JournalGood(journal'.records, journal'.next_sequence, kept')
        BY <3>5, <3>6, <3>7, <3>8 DEF JournalGood
      <3> QED
        BY <1>3, <2>1, <3>2, <3>9 DEF AuditInv
    <2>3. ASSUME NEW n \in 0 .. 2, retain_last(n) PROVE AuditInv'
      <3>1. JournalGood(journal'.records, journal'.next_sequence, kept')
        BY <1>3, <2>3, RetentionKeeps
      <3>2. UNCHANGED file
        BY <2>3 DEF retain_last
      <3> QED
        BY <1>3, <2>1, <3>1, <3>2 DEF AuditInv
    <2>4. CASE save_journal
      <3>1. file' = {[journal |-> journal, kept |-> kept]} /\ UNCHANGED <<journal, kept>>
        BY <2>4 DEF save_journal
      <3>2. \A saved \in file' : saved.journal = journal /\ saved.kept = kept
        BY <3>1
      <3> QED
        BY <1>3, <2>1, <3>1, <3>2 DEF AuditInv
    <2>5. CASE journal_from_json
      <3>1. PICK saved \in file : journal' = saved.journal /\ kept' = saved.kept
        BY <2>5 DEF journal_from_json
      <3>2. UNCHANGED file
        BY <2>5 DEF journal_from_json
      <3> QED
        BY <1>3, <2>1, <3>1, <3>2 DEF AuditInv
    <2> QED
      BY <1>3, <2>2, <2>3, <2>4, <2>5 DEF AuditNext
  <1> QED
    BY <1>1, <1>2, <1>3 DEF Next, vars, journalVars, recordVars, streamVars, StreamNext, DiffStreamNext,
       TraceNext, SnapshotNext, publish, drain, drain_with_loss, publish_diff, next_generation, drain_diffs,
       drain_diffs_with_loss, record, save_trace, trace_from_json, insert, save_snapshots, snapshots_from_json

(* The snapshots: the highest of the ids given, as many as the store holds.  *)
HighestOf(capacity, ids, given) ==
    /\ capacity \in Nat \ {0} /\ given \subseteq Nat /\ IsFiniteSet(given) /\ ids \subseteq given
    /\ Cardinality(ids) <= capacity
    /\ ids # given => Cardinality(ids) = capacity
    /\ \A a \in ids, b \in given \ ids : b < a

(* A store of snapshots that holds the highest of the ids given.             *)
SnapshotsGood(s, given) ==
    s = [capacity |-> s.capacity, ids |-> s.ids] /\ HighestOf(s.capacity, s.ids, Range(given)) /\ Sequential(given)

(* The store in memory and the store in the file are good.                   *)
SnapshotInv ==
    /\ part # "snapshots" => snapshots.ids = {}
    /\ part = "snapshots" =>
          /\ SnapshotsGood(snapshots, kept)
          /\ \A saved \in file : SnapshotsGood(saved.snapshots, saved.kept)

(* An id that comes in pushes out the lowest, itself when it is that one.    *)
LEMMA HighestStay ==
    ASSUME NEW capacity, NEW ids, NEW given, HighestOf(capacity, ids, given), NEW id \in Nat,
           NEW more, more = ids \cup {id}
    PROVE  HighestOf(capacity, IF Cardinality(more) > capacity THEN more \ {Min(more)} ELSE more,
                     given \cup {id})
  <1>1. /\ capacity \in Nat \ {0} /\ given \subseteq Nat /\ IsFiniteSet(given) /\ ids \subseteq given
        /\ Cardinality(ids) <= capacity /\ (ids # given => Cardinality(ids) = capacity)
        /\ \A a \in ids, b \in given \ ids : b < a
    BY DEF HighestOf
  <1>2. /\ IsFiniteSet(ids) /\ Cardinality(ids) \in Nat /\ IsFiniteSet(more)
        /\ given \cup {id} \subseteq Nat /\ more \subseteq given \cup {id} /\ more # {}
        /\ Cardinality(more) = IF id \in ids THEN Cardinality(ids) ELSE Cardinality(ids) + 1
        /\ IsFiniteSet(given \cup {id})
    <2>1. IsFiniteSet(ids) /\ Cardinality(ids) \in Nat
      BY <1>1, FS_Subset, FS_CardinalityType
    <2> QED
      BY <1>1, <2>1, FS_AddElement
  <1>3. CASE id \in ids
    <2>1. more = ids /\ given \cup {id} = given
      BY <1>1, <1>3
    <2>2. ~(Cardinality(more) > capacity)
      BY <1>1, <1>2, <2>1
    <2> QED
      BY <2>1, <2>2
  <1>4. CASE id \notin ids /\ Cardinality(ids) < capacity
    <2>1. Cardinality(more) = Cardinality(ids) + 1 /\ ~(Cardinality(more) > capacity) /\ Cardinality(more) <= capacity
      BY <1>1, <1>2, <1>4
    <2>2. ids = given
      BY <1>1, <1>2, <1>4
    <2>3. HighestOf(capacity, more, given \cup {id})
      BY <1>1, <1>2, <2>1, <2>2 DEF HighestOf
    <2> QED
      BY <2>1, <2>3
  <1>5. CASE id \notin ids /\ Cardinality(ids) = capacity
    <2>1. Cardinality(more) = capacity + 1 /\ Cardinality(more) > capacity
      BY <1>1, <1>2, <1>5
    <2>2. PICK m : m = Min(more)
      OBVIOUS
    <2>3. m \in more /\ \A y \in more : m <= y
      <3>1. more \subseteq Nat
        BY <1>2
      <3>2. \E x \in more : \A y \in more : x <= y
        BY <1>2, <3>1, LeastNumber
      <3> QED
        BY <2>2, <3>2 DEF Min
    <2>4. PICK rest : rest = more \ {m}
      OBVIOUS
    <2>5. Cardinality(rest) = capacity
      <3>1. Cardinality(more \ {m}) = Cardinality(more) - 1
        BY <1>2, <2>3, FS_RemoveElement
      <3> QED
        BY <1>1, <2>1, <2>4, <3>1
    <2>6. ASSUME NEW a \in rest, NEW b \in (given \cup {id}) \ rest PROVE b < a
      <3>1. a \in more /\ a # m /\ m <= a /\ a \in Nat /\ m \in Nat /\ b \in Nat
        BY <1>2, <2>3, <2>4
      <3>2. CASE b = m
        BY <3>1, <3>2
      <3>3. CASE b # m
        <4>1. b \notin more /\ b \in given \ ids
          BY <2>4, <3>3
        <4>2. a \in ids => b < a
          BY <1>1, <4>1
        <4>3. a = id => m \in ids
          BY <2>3, <3>1
        <4>4. a = id => b < m
          BY <1>1, <4>1, <4>3
        <4> QED
          BY <3>1, <4>2, <4>4
      <3> QED
        BY <3>2, <3>3
    <2>7. HighestOf(capacity, rest, given \cup {id})
      <3>1. rest \subseteq given \cup {id}
        BY <1>2, <2>4
      <3>2. Cardinality(rest) <= capacity
        BY <1>1, <2>5
      <3> QED
        BY <1>1, <1>2, <2>5, <2>6, <3>1, <3>2 DEF HighestOf
    <2> QED
      BY <2>1, <2>2, <2>4, <2>7
  <1> QED
    BY <1>1, <1>2, <1>3, <1>4, <1>5

(* What Append does to the elements of a sequence.                           *)
LEMMA RangeGrows ==
    ASSUME NEW s, Sequential(s), NEW e
    PROVE  Range(Append(s, e)) = Range(s) \cup {e}
  <1>1. /\ DOMAIN s = 1 .. Len(s) /\ DOMAIN Append(s, e) = 1 .. Len(s) + 1
        /\ \A i \in 1 .. Len(s) : Append(s, e)[i] = s[i]
        /\ Append(s, e)[Len(s) + 1] = e
        /\ \A i : i \in 1 .. Len(s) + 1 <=> (i \in 1 .. Len(s) \/ i = Len(s) + 1)
    BY Appending
  <1> QED
    BY <1>1, Zenon DEF Range

(* Inserting, saving and restoring keep the store good.                      *)
LEMMA SnapshotSteps == SnapshotInv /\ [Next]_vars => SnapshotInv'
  <1> SUFFICES ASSUME SnapshotInv, [Next]_vars PROVE SnapshotInv'
    OBVIOUS
  <1>1. CASE UNCHANGED <<part, snapshots, kept, file>>
    BY <1>1 DEF SnapshotInv
  <1>2. CASE part # "snapshots" /\ UNCHANGED <<part, snapshots>>
    BY <1>2 DEF SnapshotInv
  <1>3. CASE part = "snapshots" /\ UNCHANGED part /\ SnapshotNext
    <2>1. /\ SnapshotsGood(snapshots, kept)
          /\ \A saved \in file : SnapshotsGood(saved.snapshots, saved.kept)
      BY <1>3 DEF SnapshotInv
    <2>2. ASSUME NEW id \in 1 .. MaxPublished, insert(id) PROVE SnapshotInv'
      <3>1. PICK more : more = snapshots.ids \cup {id}
        OBVIOUS
      <3>2. PICK rest : rest = IF Cardinality(more) > snapshots.capacity THEN more \ {Min(more)} ELSE more
        OBVIOUS
      <3>3. /\ snapshots' = [snapshots EXCEPT !.ids = rest] /\ kept' = Append(kept, id) /\ UNCHANGED file
        BY <2>2, <3>1, <3>2 DEF insert
      <3>4. /\ snapshots = [capacity |-> snapshots.capacity, ids |-> snapshots.ids]
            /\ HighestOf(snapshots.capacity, snapshots.ids, Range(kept)) /\ Sequential(kept)
        BY <2>1 DEF SnapshotsGood
      <3>5. snapshots' = [capacity |-> snapshots.capacity, ids |-> rest]
        BY <3>3, <3>4
      <3>6. HighestOf(snapshots.capacity, rest, Range(kept) \cup {id})
        <4>1. id \in Nat
          BY JournalsAssumption
        <4> QED
          BY <3>1, <3>2, <3>4, <4>1, HighestStay
      <3>7. Range(kept') = Range(kept) \cup {id} /\ Sequential(kept')
        BY <3>3, <3>4, RangeGrows, Appending
      <3>8. snapshots'.capacity = snapshots.capacity /\ snapshots'.ids = rest
        BY <3>5
      <3>9. SnapshotsGood(snapshots', kept')
        BY <3>5, <3>6, <3>7, <3>8 DEF SnapshotsGood
      <3> QED
        BY <1>3, <2>1, <3>3, <3>9 DEF SnapshotInv
    <2>3. CASE save_snapshots
      <3>1. file' = {[snapshots |-> snapshots, kept |-> kept]} /\ UNCHANGED <<snapshots, kept>>
        BY <2>3 DEF save_snapshots
      <3>2. \A saved \in file' : saved.snapshots = snapshots /\ saved.kept = kept
        BY <3>1
      <3> QED
        BY <1>3, <2>1, <3>1, <3>2 DEF SnapshotInv
    <2>4. CASE snapshots_from_json
      <3>1. PICK saved \in file : snapshots' = saved.snapshots /\ kept' = saved.kept
        BY <2>4 DEF snapshots_from_json
      <3>2. UNCHANGED file
        BY <2>4 DEF snapshots_from_json
      <3> QED
        BY <1>3, <2>1, <3>1, <3>2 DEF SnapshotInv
    <2> QED
      BY <1>3, <2>2, <2>3, <2>4 DEF SnapshotNext
  <1> QED
    BY <1>1, <1>2, <1>3 DEF Next, vars, journalVars, recordVars, streamVars, StreamNext, DiffStreamNext,
       TraceNext, AuditNext, publish, drain, drain_with_loss, publish_diff, next_generation, drain_diffs,
       drain_diffs_with_loss, record, save_trace, trace_from_json, append, retain_last, save_journal,
       journal_from_json

(* The three records together.                                               *)
RecordsInv == TraceInv /\ AuditInv /\ SnapshotInv

(* There are no records to begin with.                                       *)
LEMMA RecordsInitially == Init => RecordsInv
  <1> SUFFICES ASSUME Init PROVE RecordsInv
    OBVIOUS
  <1>1. PICK c \in Capacities : snapshots = [capacity |-> AtLeastOne(c), ids |-> {}]
    BY DEF Init, JournalsInit
  <1>2. /\ trace.entries = << >> /\ trace.next_sequence = 0 /\ kept = << >> /\ file = {}
        /\ journal.records = << >> /\ journal.next_sequence = 0
        /\ snapshots.ids = {} /\ snapshots.capacity = AtLeastOne(c)
        /\ snapshots = [capacity |-> snapshots.capacity, ids |-> snapshots.ids]
    BY <1>1 DEF Init, JournalsInit
  <1>3. Sequential(<< >>) /\ Len(<< >>) = 0 /\ 1 .. 0 = {} /\ Range(<< >>) = {} /\ 0 \in Nat
    <2>1. << >> \in Seq({})
      OBVIOUS
    <2> QED
      BY <2>1 DEF Sequential, Range
  <1>4. TraceGood(<< >>, 0, << >>) /\ JournalGood(<< >>, 0, << >>)
    BY <1>3 DEF TraceGood, JournalGood, ChainGood
  <1>5. HighestOf(AtLeastOne(c), {}, {})
    <2>1. AtLeastOne(c) \in Nat \ {0}
      BY JournalsAssumption DEF AtLeastOne
    <2>2. IsFiniteSet({}) /\ Cardinality({}) = 0
      BY FS_EmptySet
    <2> QED
      BY <2>1, <2>2 DEF HighestOf
  <1>6. SnapshotsGood(snapshots, kept)
    BY <1>2, <1>3, <1>5 DEF SnapshotsGood
  <1> QED
    BY <1>2, <1>4, <1>6 DEF RecordsInv, TraceInv, AuditInv, SnapshotInv

(* A good trace says what RecordsAreKept does of it.                         *)
LEMMA TraceIsKept ==
    ASSUME NEW entries, NEW next, NEW recorded, TraceGood(entries, next, recorded), entries # << >>
    PROVE  /\ [i \in DOMAIN entries |-> entries[i].event] = recorded
           /\ Ascending(entries) /\ next = Last(entries).sequence + 1
  <1>1. DOMAIN entries = 1 .. Len(entries) /\ DOMAIN recorded = 1 .. Len(entries)
    BY Appending DEF TraceGood
  <1>2. recorded = [i \in DOMAIN recorded |-> recorded[i]]
    BY DEF TraceGood, Sequential
  <1>3. [i \in DOMAIN entries |-> entries[i].event] = recorded
    BY <1>1, <1>2 DEF TraceGood
  <1> QED
    BY <1>1, <1>3 DEF TraceGood, Ascending, Last

(* A good journal is what was recorded, and it verifies.                     *)
LEMMA JournalIsKept ==
    ASSUME NEW j, NEW recorded, JournalGood(j.records, j.next_sequence, recorded)
    PROVE  [i \in DOMAIN j.records |-> j.records[i].event] = recorded /\ verify_integrity(j)
  <1> DEFINE n == j.next_sequence
  <1>1. PICK r : r = j.records
    OBVIOUS
  <1>2. /\ n \in Nat /\ Sequential(r) /\ Sequential(recorded) /\ Len(r) = n /\ Len(recorded) = n
        /\ \A i \in 1 .. n :
              /\ r[i].event = recorded[i] /\ r[i].sequence = i - 1
              /\ r[i].previous_integrity = IF i = 1 THEN << >> ELSE r[i - 1].integrity
              /\ integrity(r[i]) = r[i].integrity
    BY <1>1 DEF JournalGood, ChainGood
  <1>3. DOMAIN r = 1 .. n /\ DOMAIN recorded = 1 .. n
    BY <1>2, Appending
  <1>4. recorded = [i \in DOMAIN recorded |-> recorded[i]]
    BY <1>2 DEF Sequential
  <1>5. [i \in DOMAIN r |-> r[i].event] = recorded
    BY <1>2, <1>3, <1>4
  <1> HIDE DEF n
  <1>6. ASSUME NEW i \in 1 .. n
        PROVE  Tip(SubSeq(r, 1, i - 1)) = IF i = 1 THEN << >> ELSE r[i - 1].integrity
    <2>1. PICK S : r \in Seq(S)
      BY <1>2 DEF Sequential
    <2>2. 1 \in Int /\ i - 1 \in Int /\ \A k \in 1 .. i - 1 : r[k] \in S
      <3>1. \A k \in 1 .. i - 1 : k \in 1 .. Len(r)
        BY <1>2
      <3> QED
        BY <1>2, <2>1, <3>1, ElementOfSeq
    <2>3. PICK s : s = SubSeq(r, 1, i - 1)
      OBVIOUS
    <2>4. /\ s \in Seq(S) /\ Len(s) = IF 1 <= i - 1 THEN (i - 1) - 1 + 1 ELSE 0
          /\ \A k \in 1 .. (i - 1) - 1 + 1 : s[k] = r[1 + k - 1]
      BY <2>2, <2>3, SubSeqProperties
    <2>5. CASE i = 1
      <3>1. Len(s) = 0
        BY <2>4, <2>5
      <3>2. s = << >>
        BY <2>4, <3>1, EmptySeq
      <3> QED
        BY <2>3, <2>5, <3>2 DEF Tip
    <2>6. CASE i # 1
      <3>1. Len(s) = i - 1 /\ i - 1 \in 1 .. (i - 1) - 1 + 1 /\ 1 + (i - 1) - 1 = i - 1 /\ i - 1 # 0
        BY <1>2, <2>4, <2>6
      <3>2. s[i - 1] = r[i - 1] /\ s # << >>
        BY <2>4, <3>1
      <3> QED
        BY <2>3, <2>6, <3>1, <3>2 DEF Tip, Last
    <2> QED
      BY <2>5, <2>6
  <1>7. n = Len(r)
    BY <1>2
  <1>8. \A i \in DOMAIN r : /\ r[i].sequence = i - 1
                            /\ r[i].previous_integrity = Tip(SubSeq(r, 1, i - 1))
                            /\ integrity(r[i]) = r[i].integrity
    BY <1>2, <1>3, <1>6
  <1> QED
    BY <1>1, <1>5, <1>7, <1>8 DEF verify_integrity, n

(* A good store is as full as it may be.                                     *)
LEMMA SnapshotsAreKept ==
    ASSUME NEW capacity, NEW ids, NEW given, HighestOf(capacity, ids, given)
    PROVE  /\ ids \subseteq given /\ \A a \in ids, b \in given \ ids : b < a
           /\ Cardinality(ids) = Min({capacity, Cardinality(given)})
  <1>1. /\ capacity \in Nat \ {0} /\ IsFiniteSet(given) /\ ids \subseteq given
        /\ Cardinality(ids) <= capacity /\ (ids # given => Cardinality(ids) = capacity)
    BY DEF HighestOf
  <1>2. Cardinality(given) \in Nat /\ Cardinality(ids) <= Cardinality(given) /\ Cardinality(ids) \in Nat
    BY <1>1, FS_Subset, FS_CardinalityType
  <1>3. PICK T : T = {capacity, Cardinality(given)}
    OBVIOUS
  <1>4. Cardinality(ids) \in T /\ \A y \in T : Cardinality(ids) <= y
    BY <1>1, <1>2, <1>3
  <1>5. \A x \in T : (\A y \in T : x <= y) => x = Cardinality(ids)
    BY <1>1, <1>2, <1>3, <1>4
  <1>6. Min(T) = Cardinality(ids)
    BY <1>4, <1>5 DEF Min
  <1> QED
    BY <1>3, <1>6 DEF HighestOf

(* The invariant says what RecordsAreKept does.                              *)
LEMMA RecordsHold == RecordsInv => RecordsAreKept
  <1> SUFFICES ASSUME RecordsInv PROVE RecordsAreKept
    OBVIOUS
  <1>1. trace.entries # << >> =>
          /\ [i \in DOMAIN trace.entries |-> trace.entries[i].event] = kept
          /\ Ascending(trace.entries)
          /\ trace.next_sequence = Last(trace.entries).sequence + 1
    BY TraceIsKept DEF RecordsInv, TraceInv
  <1>2. /\ journal.records # << >> =>
             [i \in DOMAIN journal.records |-> journal.records[i].event] = kept
        /\ verify_integrity(journal)
    <2>1. CASE part = "audit"
      BY <2>1, JournalIsKept DEF RecordsInv, AuditInv
    <2>2. CASE part # "audit"
      <3>1. journal.records = << >> /\ journal.next_sequence = 0 /\ Len(<< >>) = 0 /\ DOMAIN << >> = {}
        BY <2>2 DEF RecordsInv, AuditInv
      <3> QED
        BY <3>1 DEF verify_integrity
    <2> QED
      BY <2>1, <2>2
  <1>3. snapshots.ids # {} =>
          /\ snapshots.ids \subseteq Range(kept)
          /\ Cardinality(snapshots.ids) = Min({snapshots.capacity, Cardinality(Range(kept))})
          /\ \A a \in snapshots.ids, b \in Range(kept) \ snapshots.ids : b < a
    <2> SUFFICES ASSUME snapshots.ids # {} PROVE HighestOf(snapshots.capacity, snapshots.ids, Range(kept))
      BY SnapshotsAreKept
    <2> QED
      BY DEF RecordsInv, SnapshotInv, SnapshotsGood
  <1> QED
    BY <1>1, <1>2, <1>3 DEF RecordsAreKept

(* What is in memory is what was recorded, after any mixture of appends,     *)
(* retention, saves and restores (EventTrace::record and from_json,          *)
(* AuditJournal::append, retain_last and from_json, SnapshotStore::insert    *)
(* and from_json), for any capacities.                                       *)
THEOREM RecordsAreAlwaysKept == Spec => []RecordsAreKept
  <1>1. RecordsInv /\ [Next]_vars => RecordsInv'
    BY TraceSteps, AuditSteps, SnapshotSteps DEF RecordsInv
  <1> QED
    BY <1>1, RecordsInitially, RecordsHold, PTL DEF Spec
-----------------------------------------------------------------------------
(* Drains (Journals) *)

(* What was published after a and up to b.                                   *)
Consecutive(a, b) == [i \in 1 .. b - a |-> a + i]

(* Consecutive as a sequence.                                                *)
LEMMA ConsecutiveIs ==
    ASSUME NEW a \in Nat, NEW b \in Nat, a <= b
    PROVE  /\ Consecutive(a, b) \in Seq(Nat) /\ Len(Consecutive(a, b)) = b - a
           /\ \A i \in 1 .. b - a : Consecutive(a, b)[i] = a + i
           /\ Consecutive(a, b) = << >> <=> a = b
  <1> DEFINE s == Consecutive(a, b)
  <1>1. b - a \in Nat /\ s \in [1 .. b - a -> Nat]
    BY DEF Consecutive
  <1>2. s \in Seq(Nat)
    BY <1>1, SeqDef
  <1>3. DOMAIN s = 1 .. b - a /\ \A i \in 1 .. b - a : s[i] = a + i
    BY DEF Consecutive
  <1> HIDE DEF s
  <1>4. Len(s) = b - a
    BY <1>1, <1>2, <1>3, LenProperties
  <1>5. s = << >> <=> a = b
    <2>1. s = << >> <=> Len(s) = 0
      BY <1>2, EmptySeq
    <2> QED
      BY <1>4, <2>1
  <1> QED
    BY <1>2, <1>3, <1>4, <1>5 DEF s

(* Two sequences with the same elements are one.                             *)
LEMMA SameElements ==
    ASSUME NEW s \in Seq(Nat), NEW t \in Seq(Nat), Len(s) = Len(t), \A i \in 1 .. Len(s) : s[i] = t[i]
    PROVE  s = t
  BY SeqEqual

(* One publication more.                                                     *)
LEMMA ConsecutiveGrows ==
    ASSUME NEW a \in Nat, NEW b \in Nat, a <= b
    PROVE  Append(Consecutive(a, b), b + 1) = Consecutive(a, b + 1)
  <1> DEFINE s == Consecutive(a, b)
             t == Consecutive(a, b + 1)
             u == Append(s, b + 1)
  <1>1. /\ s \in Seq(Nat) /\ Len(s) = b - a /\ \A i \in 1 .. b - a : s[i] = a + i
        /\ t \in Seq(Nat) /\ Len(t) = b + 1 - a /\ \A i \in 1 .. b + 1 - a : t[i] = a + i
    <2>1. b + 1 \in Nat /\ a <= b + 1
      OBVIOUS
    <2>2. /\ s \in Seq(Nat) /\ Len(s) = b - a /\ \A i \in 1 .. b - a : s[i] = a + i
      BY ConsecutiveIs
    <2>3. /\ t \in Seq(Nat) /\ Len(t) = b + 1 - a /\ \A i \in 1 .. b + 1 - a : t[i] = a + i
      BY <2>1, ConsecutiveIs
    <2> QED
      BY <2>2, <2>3
  <1> HIDE DEF s, t
  <1>2. /\ u \in Seq(Nat) /\ Len(u) = Len(s) + 1 /\ u[Len(s) + 1] = b + 1
        /\ \A i \in 1 .. Len(s) : u[i] = s[i]
    <2>1. PICK x \in Nat : x = b + 1
      OBVIOUS
    <2>2. PICK v : v = Append(s, x)
      OBVIOUS
    <2>3. v \in Seq(Nat) /\ Len(v) = Len(s) + 1 /\ v[Len(s) + 1] = x /\ \A i \in 1 .. Len(s) : v[i] = s[i]
      BY <1>1, <2>2, AppendProperties
    <2> QED
      BY <2>1, <2>2, <2>3
  <1> HIDE DEF u
  <1>3. Len(u) = Len(t) /\ \A i \in 1 .. Len(u) : u[i] = t[i]
    <2>1. Len(u) = b + 1 - a
      BY <1>1, <1>2
    <2>2. ASSUME NEW i \in 1 .. b + 1 - a PROVE u[i] = a + i
      <3>1. CASE i \in 1 .. b - a
        BY <1>1, <1>2, <3>1
      <3>2. CASE i = b - a + 1
        BY <1>1, <1>2, <3>2
      <3> QED
        BY <3>1, <3>2
    <2> QED
      BY <1>1, <2>1, <2>2
  <1> QED
    BY <1>1, <1>2, <1>3, SameElements DEF s, t, u

(* The oldest publication goes.                                              *)
LEMMA ConsecutiveShrinks ==
    ASSUME NEW a \in Nat, NEW b \in Nat, a < b
    PROVE  Tail(Consecutive(a, b)) = Consecutive(a + 1, b)
  <1> DEFINE s == Consecutive(a, b)
             t == Consecutive(a + 1, b)
             u == Tail(s)
  <1>1. /\ s \in Seq(Nat) /\ Len(s) = b - a /\ s # << >> /\ \A i \in 1 .. b - a : s[i] = a + i
        /\ t \in Seq(Nat) /\ Len(t) = b - (a + 1) /\ \A i \in 1 .. b - (a + 1) : t[i] = a + 1 + i
    <2>1. a + 1 \in Nat /\ a + 1 <= b /\ a <= b /\ a # b
      OBVIOUS
    <2> QED
      BY <2>1, ConsecutiveIs
  <1> HIDE DEF s, t
  <1>2. /\ u \in Seq(Nat) /\ Len(u) = Len(s) - 1 /\ \A i \in 1 .. Len(u) : u[i] = s[i + 1]
    BY <1>1, HeadTailProperties
  <1> HIDE DEF u
  <1>3. Len(u) = Len(t) /\ \A i \in 1 .. Len(u) : u[i] = t[i]
    <2>1. Len(u) = b - (a + 1)
      BY <1>1, <1>2
    <2>2. ASSUME NEW i \in 1 .. b - (a + 1) PROVE u[i] = a + 1 + i
      <3>1. i + 1 \in 1 .. b - a
        OBVIOUS
      <3> QED
        BY <1>1, <1>2, <2>1, <3>1
    <2> QED
      BY <1>1, <2>1, <2>2
  <1> QED
    BY <1>1, <1>2, <1>3, SameElements DEF s, t, u

(* What comes after b follows what came up to b.                             *)
LEMMA ConsecutiveJoins ==
    ASSUME NEW a \in Nat, NEW b \in Nat, NEW c \in Nat, a <= b, b <= c
    PROVE  Consecutive(a, b) \o Consecutive(b, c) = Consecutive(a, c)
  <1> DEFINE s == Consecutive(a, b)
             t == Consecutive(b, c)
             w == Consecutive(a, c)
             u == s \o t
  <1>1. /\ s \in Seq(Nat) /\ Len(s) = b - a /\ \A i \in 1 .. b - a : s[i] = a + i
        /\ t \in Seq(Nat) /\ Len(t) = c - b /\ \A i \in 1 .. c - b : t[i] = b + i
        /\ w \in Seq(Nat) /\ Len(w) = c - a /\ \A i \in 1 .. c - a : w[i] = a + i
    <2>1. a <= c
      OBVIOUS
    <2> QED
      BY <2>1, ConsecutiveIs
  <1> HIDE DEF s, t, w
  <1>2. /\ u \in Seq(Nat) /\ Len(u) = Len(s) + Len(t)
        /\ \A i \in 1 .. Len(s) + Len(t) : u[i] = IF i <= Len(s) THEN s[i] ELSE t[i - Len(s)]
    BY <1>1, ConcatProperties
  <1> HIDE DEF u
  <1>3. Len(u) = Len(w) /\ \A i \in 1 .. Len(u) : u[i] = w[i]
    <2>1. Len(u) = c - a
      BY <1>1, <1>2
    <2>2. ASSUME NEW i \in 1 .. c - a PROVE u[i] = a + i
      <3>1. u[i] = IF i <= b - a THEN s[i] ELSE t[i - (b - a)]
        BY <1>1, <1>2
      <3>2. CASE i <= b - a
        BY <1>1, <3>1, <3>2
      <3>3. CASE ~(i <= b - a)
        <4>1. i - (b - a) \in 1 .. c - b /\ b + (i - (b - a)) = a + i
          BY <3>3
        <4> QED
          BY <1>1, <3>1, <3>3, <4>1
      <3> QED
        BY <3>2, <3>3
    <2> QED
      BY <1>1, <2>1, <2>2
  <1> QED
    BY <1>1, <1>2, <1>3, SameElements DEF s, t, u, w

(* The newest part of what was published.                                    *)
LEMMA ConsecutiveEnds ==
    ASSUME NEW a \in Nat, NEW b \in Nat, NEW c \in Nat, a <= b, b <= c
    PROVE  /\ IsSuffix(Consecutive(b, c), Consecutive(a, c))
           /\ Consecutive(b, c) = Consecutive(a, c) <=> a = b
  <1> DEFINE s == Consecutive(b, c)
             t == Consecutive(a, c)
             rs == Reverse(s)
             rt == Reverse(t)
  <1>1. /\ s \in Seq(Nat) /\ Len(s) = c - b /\ \A i \in 1 .. c - b : s[i] = b + i
        /\ t \in Seq(Nat) /\ Len(t) = c - a /\ \A i \in 1 .. c - a : t[i] = a + i
    <2>1. a <= c
      OBVIOUS
    <2> QED
      BY <2>1, ConsecutiveIs
  <1> HIDE DEF s, t
  <1>2. /\ rs \in Seq(Nat) /\ Len(rs) = c - b /\ \A i \in 1 .. c - b : rs[i] = c - i + 1
        /\ rt \in Seq(Nat) /\ Len(rt) = c - a /\ \A i \in 1 .. c - a : rt[i] = c - i + 1
    <2> DEFINE Rises(u, x) == u \in Seq(Nat) /\ Len(u) = c - x /\ \A i \in 1 .. c - x : u[i] = x + i
               Falls(r, x) == r \in Seq(Nat) /\ Len(r) = c - x /\ \A i \in 1 .. c - x : r[i] = c - i + 1
    <2>1. ASSUME NEW x \in Nat, NEW u, x <= c, Rises(u, x) PROVE Falls(Reverse(u), x)
      <3> DEFINE n == c - x
                 r == Reverse(u)
      <3>1. r = [i \in 1 .. n |-> u[(n - i) + 1]] /\ n \in Nat
        BY <2>1 DEF Reverse
      <3>2. \A i \in 1 .. n : (n - i) + 1 \in 1 .. n /\ x + ((n - i) + 1) = c - i + 1 /\ c - i + 1 \in Nat
        BY <2>1
      <3>3. \A i \in 1 .. n : u[(n - i) + 1] = c - i + 1
        BY <2>1, <3>2
      <3> HIDE DEF n, r
      <3>4. DOMAIN r = 1 .. n /\ \A i \in 1 .. n : r[i] = c - i + 1 /\ r[i] \in Nat
        BY <3>1, <3>2, <3>3
      <3>5. r = [i \in 1 .. n |-> r[i]]
        BY <3>1
      <3>6. r \in [1 .. n -> Nat]
        BY <3>4, <3>5
      <3>7. r \in Seq(Nat)
        BY <3>1, <3>6, SeqDef
      <3>8. Len(r) = n
        BY <3>1, <3>4, <3>7, LenProperties
      <3> QED
        BY <3>4, <3>7, <3>8 DEF n, r
    <2>2. Rises(s, b) /\ Rises(t, a) /\ a <= c
      BY <1>1
    <2> HIDE DEF Rises
    <2>3. Falls(Reverse(s), b) /\ Falls(Reverse(t), a)
      <3> HIDE DEF Falls
      <3> QED
        BY <2>1, <2>2
    <2> QED
      BY <2>3
  <1> HIDE DEF rs, rt
  <1>3. IsPrefix(rs, rt)
    <2> DEFINE n == c - b
               p == SubSeq(rs, 1, n)
               q == SubSeq(rt, 1, n)
    <2>1. n \in Nat /\ n <= c - a /\ \A i \in 1 .. n : i \in 1 .. c - a
      OBVIOUS
    <2> DEFINE Falls(r, m) == r \in Seq(Nat) /\ Len(r) = m /\ n <= m /\ \A i \in 1 .. n : r[i] = c - i + 1
    <2>2. ASSUME NEW r, NEW m \in Nat, Falls(r, m) PROVE Falls(SubSeq(r, 1, n), n)
      <3>1. \A i \in 1 .. n : r[i] \in Nat
        <4>1. \A i \in 1 .. n : i \in 1 .. Len(r)
          BY <2>1, <2>2
        <4> QED
          BY <2>2, <4>1, ElementOfSeq
      <3>2. /\ SubSeq(r, 1, n) \in Seq(Nat)
            /\ Len(SubSeq(r, 1, n)) = IF 1 <= n THEN n - 1 + 1 ELSE 0
            /\ \A i \in 1 .. n - 1 + 1 : SubSeq(r, 1, n)[i] = r[1 + i - 1]
        <4>1. 1 \in Int /\ n \in Int
          BY <2>1
        <4> HIDE DEF n
        <4> QED
          BY <3>1, <4>1, SubSeqProperties
      <3>3. n - 1 + 1 = n /\ (IF 1 <= n THEN n - 1 + 1 ELSE 0) = n /\ \A i \in 1 .. n : 1 + i - 1 = i
        BY <2>1
      <3> HIDE DEF n
      <3> QED
        BY <2>1, <2>2, <3>2, <3>3
    <2>3. Falls(rs, c - b) /\ Falls(rt, c - a)
      BY <1>2, <2>1
    <2>4. c - b \in Nat /\ c - a \in Nat
      OBVIOUS
    <2>5. Falls(p, n) /\ Falls(q, n)
      <3> HIDE DEF Falls, n
      <3> QED
        BY <2>2, <2>3, <2>4
    <2> HIDE DEF p, q
    <2>6. p = q
      BY <2>1, <2>5, SameElements
    <2> QED
      BY <1>2, <2>1, <2>6 DEF IsPrefix, p, q
  <1>4. s = t <=> a = b
    <2>1. CASE a = b
      BY <2>1 DEF s, t
    <2>2. CASE a # b
      <3>1. Len(s) # Len(t)
        BY <1>1, <2>2
      <3> QED
        BY <2>2, <3>1
    <2> QED
      BY <2>1, <2>2
  <1> QED
    BY <1>3, <1>4 DEF IsSuffix, s, t, rs, rt

(* The stream of changes: what it retains is the newest of what was          *)
(* published since the last drain, the count of the dropped is the rest.     *)
RetainedFrom(s, from, p, d) ==
    s.events = Consecutive(from, p) /\ s.dropped = from - d

ChangesInv ==
    part = "changes" =>
       /\ stream = [capacity |-> stream.capacity, dropped |-> stream.dropped, events |-> stream.events]
       /\ stream.capacity \in Nat \ {0} /\ published \in Nat /\ drained \in Nat
       /\ \E from \in drained .. published : RetainedFrom(stream, from, published, drained)

(* A change is published (ChangeStream::publish).                            *)
LEMMA ChangePublished ==
    ASSUME ChangesInv, part = "changes", publish, UNCHANGED part
    PROVE  ChangesInv'
  <1> DEFINE q == stream.events
             c == stream.capacity
             p == published
             d == drained
  <1>1. PICK from \in d .. p : q = Consecutive(from, p) /\ stream.dropped = from - d
    BY DEF ChangesInv, RetainedFrom
  <1>2. /\ stream = [capacity |-> c, dropped |-> stream.dropped, events |-> q]
        /\ c \in Nat \ {0} /\ p \in Nat /\ d \in Nat /\ from \in Nat /\ from <= p
    BY <1>1 DEF ChangesInv
  <1>3. p' = p + 1 /\ d' = d
    BY DEF publish, Number
  <1>4. PICK after : after = Push(q, stream.dropped, c, p + 1)
    OBVIOUS
  <1>5. stream' = [stream EXCEPT !.events = after[1], !.dropped = after[2]]
    BY <1>3, <1>4 DEF publish
  <1>6. stream' = [capacity |-> c, dropped |-> after[2], events |-> after[1]]
    BY <1>2, <1>5
  <1>7. \E from1 \in d .. p + 1 : after[1] = Consecutive(from1, p + 1) /\ after[2] = from1 - d
    <2>1. CASE Len(q) = c
      <3>1. from < p
        BY <1>1, <1>2, <2>1, ConsecutiveIs
      <3>2. after = <<Append(Tail(q), p + 1), stream.dropped + 1>>
        BY <1>4, <2>1 DEF Push
      <3>3. Append(Tail(q), p + 1) = Consecutive(from + 1, p + 1)
        <4>1. from + 1 \in Nat /\ from + 1 <= p
          BY <1>2, <3>1
        <4>2. Tail(q) = Consecutive(from + 1, p)
          BY <1>1, <1>2, <3>1, ConsecutiveShrinks
        <4> QED
          BY <1>2, <4>1, <4>2, ConsecutiveGrows
      <3>4. PICK next : next = from + 1
        OBVIOUS
      <3>5. after[1] = Consecutive(next, p + 1) /\ after[2] = next - d /\ next \in d .. p + 1
        <4>1. next \in d .. p + 1 /\ stream.dropped + 1 = next - d
          BY <1>1, <1>2, <3>1, <3>4
        <4> QED
          BY <3>2, <3>3, <3>4, <4>1
      <3> QED
        BY <3>5
    <2>2. CASE Len(q) # c
      <3>1. after = <<Append(q, p + 1), stream.dropped>>
        BY <1>4, <2>2 DEF Push
      <3>2. Append(q, p + 1) = Consecutive(from, p + 1)
        BY <1>1, <1>2, ConsecutiveGrows
      <3>3. after[1] = Consecutive(from, p + 1) /\ after[2] = from - d /\ from \in d .. p + 1
        BY <1>1, <1>2, <3>1, <3>2
      <3> QED
        BY <3>3
    <2> QED
      BY <2>1, <2>2
  <1>8. PICK from1 \in d .. p + 1 : after[1] = Consecutive(from1, p + 1) /\ after[2] = from1 - d
    BY <1>7
  <1>9. stream'.events = after[1] /\ stream'.dropped = after[2] /\ stream'.capacity = c
    BY <1>6
  <1>10. RetainedFrom(stream', from1, p + 1, d) /\ p + 1 \in Nat
    BY <1>2, <1>8, <1>9 DEF RetainedFrom
  <1>11. stream' = [capacity |-> stream'.capacity, dropped |-> stream'.dropped, events |-> stream'.events]
    BY <1>6, <1>9
  <1> QED
    BY <1>2, <1>3, <1>8, <1>9, <1>10, <1>11 DEF ChangesInv

(* An answer is honest: without loss it is all there was, with loss the      *)
(* newest part.                                                              *)
Honest(answer, d, p) ==
    /\ answer.ok <=> answer.items = Consecutive(d, p)
    /\ IsSuffix(answer.items, Consecutive(d, p))
    /\ answer.ok <=> answer.dropped = 0

(* What is answered of the publications after from is honest.                *)
LEMMA AnswersAreHonest ==
    ASSUME NEW d \in Nat, NEW p \in Nat, NEW from \in d .. p, NEW items, items = Consecutive(from, p),
           NEW lost \in Nat, lost = 0 <=> from = d
    PROVE  /\ Honest([ok |-> lost = 0, items |-> items, dropped |-> lost], d, p)
           /\ Honest([ok |-> lost = 0, items |-> IF lost = 0 THEN items ELSE << >>, dropped |-> lost], d, p)
  <1>1. from \in Nat /\ d <= from /\ from <= p /\ d <= p /\ p <= p
    OBVIOUS
  <1>2. IsSuffix(items, Consecutive(d, p)) /\ (items = Consecutive(d, p) <=> from = d)
    BY <1>1, ConsecutiveEnds
  <1>3. << >> = Consecutive(p, p)
    BY ConsecutiveIs
  <1>4. IsSuffix(<< >>, Consecutive(d, p)) /\ (<< >> = Consecutive(d, p) <=> d = p)
    BY <1>1, <1>3, ConsecutiveEnds
  <1>5. ASSUME NEW shown, shown = items \/ (lost # 0 /\ shown = << >>),
               NEW answer, answer = [ok |-> lost = 0, items |-> shown, dropped |-> lost]
        PROVE  Honest(answer, d, p)
    <2>1. answer.items = shown /\ answer.dropped = lost /\ (answer.ok <=> lost = 0)
      BY <1>5
    <2>2. IsSuffix(shown, Consecutive(d, p))
      BY <1>2, <1>4, <1>5
    <2>3. lost = 0 <=> shown = Consecutive(d, p)
      <3>1. CASE lost = 0
        BY <1>2, <1>5, <3>1
      <3>2. CASE lost # 0 /\ shown = items
        BY <1>2, <3>2
      <3>3. CASE lost # 0 /\ shown = << >>
        BY <1>1, <1>4, <3>3
      <3> QED
        BY <1>5, <3>1, <3>2, <3>3
    <2> QED
      BY <2>1, <2>2, <2>3 DEF Honest
  <1>6. PICK shown : shown = IF lost = 0 THEN items ELSE << >>
    OBVIOUS
  <1>7. shown = items \/ (lost # 0 /\ shown = << >>)
    BY <1>6
  <1>8. Honest([ok |-> lost = 0, items |-> shown, dropped |-> lost], d, p)
    BY <1>5, <1>7
  <1> QED
    BY <1>5, <1>6, <1>8

(* A drain empties the stream and answers honestly (drain, drain_with_loss). *)
LEMMA ChangesDrained ==
    ASSUME ChangesInv, part = "changes", drain \/ drain_with_loss, UNCHANGED part
    PROVE  ChangesInv' /\ Honest(batch', drained, published)
  <1>1. PICK from \in drained .. published : RetainedFrom(stream, from, published, drained)
    BY DEF ChangesInv
  <1>2. /\ stream = [capacity |-> stream.capacity, dropped |-> stream.dropped, events |-> stream.events]
        /\ stream.capacity \in Nat \ {0} /\ published \in Nat /\ drained \in Nat
        /\ stream.events = Consecutive(from, published) /\ stream.dropped = from - drained
    BY <1>1 DEF ChangesInv, RetainedFrom
  <1>3. /\ stream' = [stream EXCEPT !.events = << >>, !.dropped = 0]
        /\ drained' = published /\ published' = published
    BY DEF drain, drain_with_loss
  <1>4. stream' = [capacity |-> stream.capacity, dropped |-> 0, events |-> << >>]
    BY <1>2, <1>3
  <1>5. RetainedFrom(stream', published, published, published)
    <2>1. Consecutive(published, published) = << >>
      BY <1>2, ConsecutiveIs
    <2> QED
      BY <1>2, <1>4, <2>1 DEF RetainedFrom
  <1>6. ChangesInv'
    <2>1. stream' = [capacity |-> stream'.capacity, dropped |-> stream'.dropped, events |-> stream'.events]
      BY <1>4
    <2>2. stream'.capacity = stream.capacity /\ published \in drained' .. published'
      BY <1>2, <1>3, <1>4
    <2> QED
      BY <1>2, <1>3, <1>5, <2>1, <2>2 DEF ChangesInv
  <1>7. Honest(batch', drained, published)
    <2>1. stream.dropped \in Nat /\ (stream.dropped = 0 <=> from = drained)
      BY <1>2
    <2>2. PICK lost, items : lost = stream.dropped /\ items = stream.events
      OBVIOUS
    <2>3. /\ Honest([ok |-> lost = 0, items |-> items, dropped |-> lost], drained, published)
          /\ Honest([ok |-> lost = 0, items |-> IF lost = 0 THEN items ELSE << >>, dropped |-> lost],
                    drained, published)
      BY <1>2, <2>1, <2>2, AnswersAreHonest
    <2>4. \/ batch' = [ok |-> lost = 0, items |-> IF lost = 0 THEN items ELSE << >>, dropped |-> lost]
          \/ batch' = [ok |-> lost = 0, items |-> items, dropped |-> lost]
      BY <2>2 DEF drain, drain_with_loss, Answer
    <2> QED
      BY <2>3, <2>4
  <1> QED
    BY <1>6, <1>7

(* The stream of differences: what it retains are the newest operations, an  *)
(* entry's between its cut and the one before.  What was before the first    *)
(* cut is gone, and counted by entries.                                      *)
CutAt(cuts, entries) ==
    /\ cuts \in [0 .. Len(entries) -> Nat]
    /\ \A i \in 1 .. Len(entries) : /\ cuts[i - 1] < cuts[i]
                                    /\ entries[i].operations = Consecutive(cuts[i - 1], cuts[i])

CutsFrom(entries, from, p) ==
    \E cuts : CutAt(cuts, entries) /\ cuts[0] = from /\ cuts[Len(entries)] = p

DiffsGood(entries, dropped, p, d) ==
    \E from \in Nat : d <= from /\ CutsFrom(entries, from, p) /\ (dropped = 0 <=> from = d)

DiffEntries == [sequence : Nat, generation : Nat, operations : Seq(Nat)]

DiffsInv ==
    part = "diffs" =>
       /\ diffs = [capacity |-> diffs.capacity, dropped |-> diffs.dropped, entries |-> diffs.entries,
                   next_sequence |-> diffs.next_sequence]
       /\ diffs.capacity \in Nat \ {0} /\ diffs.dropped \in Nat /\ diffs.next_sequence \in Nat
       /\ diffs.entries \in Seq(DiffEntries)
       /\ published \in Nat /\ drained \in Nat /\ current \in Nat
       /\ DiffsGood(diffs.entries, diffs.dropped, published, drained)

(* The retained operations, one entry after the other.                       *)
LEMMA OperationsAre ==
    ASSUME NEW n \in Nat, NEW s, s \in Seq(Seq(Nat)), Len(s) = n, NEW cuts \in [0 .. n -> Nat],
           \A i \in 1 .. n : cuts[i - 1] < cuts[i] /\ s[i] = Consecutive(cuts[i - 1], cuts[i])
    PROVE  FlattenSeq(s) = Consecutive(cuts[0], cuts[n]) /\ cuts[0] <= cuts[n]
  <1>1. CASE n = 0
    <2>1. s = << >> /\ FlattenSeq(s) = s /\ cuts[n] = cuts[0] /\ cuts[0] \in Nat
      BY <1>1, EmptySeq DEF FlattenSeq
    <2>2. Consecutive(cuts[0], cuts[0]) = << >>
      BY <2>1, ConsecutiveIs
    <2> QED
      BY <2>1, <2>2
  <1>2. CASE n # 0
    <2> DEFINE Joining(g) == [i \in 1 .. n |-> IF i = 1 THEN s[i] ELSE g[i - 1] \o s[i]]
               c == CHOOSE g : g = Joining(g)
               h == [i \in 1 .. n |-> Consecutive(cuts[0], cuts[i])]
               P == {m \in 0 .. n : cuts[0] <= cuts[m]}
    <2>1. FlattenSeq(s) = c[n]
      BY <1>2, Zenon DEF FlattenSeq
    <2>2. \A m \in 0 .. n : cuts[0] <= cuts[m]
      <3>1. 0 \in P
        OBVIOUS
      <3>2. \A i \in 1 .. n : i - 1 \in P => i \in P
        <4> SUFFICES ASSUME NEW i \in 1 .. n, i - 1 \in P PROVE i \in P
          OBVIOUS
        <4>1. cuts[0] <= cuts[i - 1] /\ cuts[i - 1] < cuts[i] /\ i \in 0 .. n /\ i - 1 \in 0 .. n
          OBVIOUS
        <4>2. cuts[0] \in Nat /\ cuts[i - 1] \in Nat /\ cuts[i] \in Nat
          BY <4>1
        <4> QED
          BY <4>1, <4>2
      <3>3. ASSUME NEW m \in 0 .. n PROVE m \in P
        <4> HIDE DEF P
        <4>1. m \in Nat /\ \A i \in 1 .. m : i \in 1 .. n
          OBVIOUS
        <4>2. \A i \in 1 .. m : i - 1 \in P => i \in P
          BY <3>2, <4>1
        <4> QED
          <5>1. m \in 0 .. m
            BY <4>1
          <5> QED
            BY <3>1, <4>1, <4>2, <5>1, UpTo
      <3> QED
        BY <3>3
    <2>3. \A m \in 0 .. n : cuts[m] \in Nat
      OBVIOUS
    <2>4. h = Joining(h)
      <3>1. \A i \in 1 .. n : h[i] = IF i = 1 THEN s[i] ELSE h[i - 1] \o s[i]
        <4> SUFFICES ASSUME NEW i \in 1 .. n PROVE h[i] = IF i = 1 THEN s[i] ELSE h[i - 1] \o s[i]
          OBVIOUS
        <4>1. h[i] = Consecutive(cuts[0], cuts[i]) /\ s[i] = Consecutive(cuts[i - 1], cuts[i])
              /\ cuts[i - 1] < cuts[i]
          OBVIOUS
        <4>2. CASE i = 1
          BY <4>1, <4>2
        <4>3. CASE i # 1
          <5>1. i - 1 \in 1 .. n /\ i - 1 \in 0 .. n /\ i \in 0 .. n /\ 0 \in 0 .. n
            BY <4>3
          <5>2. h[i - 1] = Consecutive(cuts[0], cuts[i - 1])
            BY <5>1
          <5>3. cuts[0] \in Nat /\ cuts[i - 1] \in Nat /\ cuts[i] \in Nat /\ cuts[0] <= cuts[i - 1]
                /\ cuts[i - 1] <= cuts[i]
            <6>1. cuts[0] \in Nat /\ cuts[i - 1] \in Nat /\ cuts[i] \in Nat /\ cuts[0] <= cuts[i - 1]
              BY <2>2, <2>3, <5>1
            <6> QED
              BY <4>1, <6>1
          <5> HIDE DEF h
          <5>4. PICK x, y, z : x = cuts[0] /\ y = cuts[i - 1] /\ z = cuts[i]
            OBVIOUS
          <5>5. x \in Nat /\ y \in Nat /\ z \in Nat /\ x <= y /\ y <= z
            BY <5>3, <5>4
          <5>6. Consecutive(x, y) \o Consecutive(y, z) = Consecutive(x, z)
            BY <5>5, ConsecutiveJoins
          <5>7. h[i - 1] \o s[i] = Consecutive(cuts[0], cuts[i])
            BY <4>1, <5>2, <5>4, <5>6
          <5> QED
            BY <4>1, <4>3, <5>7
        <4> QED
          BY <4>2, <4>3
      <3>2. h = [i \in 1 .. n |-> h[i]]
        OBVIOUS
      <3> HIDE DEF h
      <3> QED
        BY <3>1, <3>2
    <2>5. c = Joining(c)
      <3> HIDE DEF Joining, h
      <3> QED
        BY <2>4, Zenon
    <2> HIDE DEF c
    <2> DEFINE Q == {m \in 0 .. n : m # 0 => c[m] = Consecutive(cuts[0], cuts[m])}
    <2>6. \A i \in 1 .. n : c[i] = IF i = 1 THEN s[i] ELSE c[i - 1] \o s[i]
      <3>1. PICK k : k = Joining(c)
        OBVIOUS
      <3>2. \A i \in 1 .. n : k[i] = IF i = 1 THEN s[i] ELSE c[i - 1] \o s[i]
        BY <3>1
      <3>3. k = c
        BY <2>5, <3>1
      <3> QED
        BY <3>2, <3>3
    <2>7. 0 \in Q
      OBVIOUS
    <2>8. \A i \in 1 .. n : i - 1 \in Q => i \in Q
      <3> SUFFICES ASSUME NEW i \in 1 .. n, i - 1 \in Q PROVE c[i] = Consecutive(cuts[0], cuts[i])
        OBVIOUS
      <3>1. s[i] = Consecutive(cuts[i - 1], cuts[i]) /\ cuts[i - 1] < cuts[i]
        OBVIOUS
      <3>2. CASE i = 1
        BY <2>6, <3>1, <3>2
      <3>3. CASE i # 1
        <4>1. i - 1 \in 0 .. n /\ i \in 0 .. n /\ 0 \in 0 .. n /\ i - 1 # 0
          BY <3>3
        <4>2. c[i - 1] = Consecutive(cuts[0], cuts[i - 1]) /\ c[i] = c[i - 1] \o s[i]
          BY <2>6, <3>3, <4>1
        <4>3. cuts[0] \in Nat /\ cuts[i - 1] \in Nat /\ cuts[i] \in Nat /\ cuts[0] <= cuts[i - 1]
          BY <2>2, <2>3, <4>1
        <4>4. cuts[i - 1] <= cuts[i]
          BY <3>1, <4>3
        <4>5. PICK x, y, z : x = cuts[0] /\ y = cuts[i - 1] /\ z = cuts[i]
          OBVIOUS
        <4>6. x \in Nat /\ y \in Nat /\ z \in Nat /\ x <= y /\ y <= z
          BY <4>3, <4>4, <4>5
        <4>7. Consecutive(x, y) \o Consecutive(y, z) = Consecutive(x, z)
          BY <4>6, ConsecutiveJoins
        <4> QED
          BY <3>1, <4>2, <4>5, <4>7
      <3> QED
        BY <3>2, <3>3
    <2>9. n \in Q /\ n \in 0 .. n
      <3>1. n \in 0 .. n
        OBVIOUS
      <3> HIDE DEF Q
      <3> QED
        BY <2>7, <2>8, <3>1, UpTo
    <2> QED
      BY <1>2, <2>1, <2>2, <2>9
  <1> QED
    BY <1>1, <1>2

(* The retained operations of a stream that is cut up are consecutive.       *)
LEMMA CutOperations ==
    ASSUME NEW entries \in Seq(DiffEntries), NEW from \in Nat, NEW p \in Nat, CutsFrom(entries, from, p)
    PROVE  /\ FlattenSeq([i \in DOMAIN entries |-> entries[i].operations]) = Consecutive(from, p)
           /\ from <= p
  <1> DEFINE n == Len(entries)
             s == [i \in DOMAIN entries |-> entries[i].operations]
  <1>1. PICK cuts \in [0 .. n -> Nat] : /\ CutAt(cuts, entries) /\ cuts[0] = from /\ cuts[n] = p
    BY DEF CutsFrom, CutAt
  <1>2. n \in Nat /\ DOMAIN entries = 1 .. n
    BY LenProperties
  <1>3. \A i \in 1 .. n : entries[i].operations \in Seq(Nat)
    <2>1. \A i \in 1 .. n : entries[i] \in DiffEntries
      BY ElementOfSeq
    <2> QED
      BY <2>1 DEF DiffEntries
  <1>4. s \in [1 .. n -> Seq(Nat)] /\ \A i \in 1 .. n : s[i] = entries[i].operations
    BY <1>2, <1>3
  <1>5. \A i \in 1 .. n : cuts[i - 1] < cuts[i] /\ s[i] = Consecutive(cuts[i - 1], cuts[i])
    <2> HIDE DEF s
    <2> QED
      BY <1>1, <1>4 DEF CutAt
  <1> HIDE DEF s
  <1>6. s \in Seq(Seq(Nat))
    <2> DEFINE M == Seq(Nat)
    <2>1. s = [i \in 1 .. n |-> s[i]] /\ \A i \in 1 .. n : s[i] \in M
      BY <1>4
    <2> HIDE DEF M
    <2>2. s \in Seq(M)
      BY <1>2, <2>1, IsASeq
    <2> QED
      BY <2>2 DEF M
  <1>7. Len(s) = n
    BY <1>2, <1>4, <1>6, LenProperties
  <1> HIDE DEF n
  <1>8. FlattenSeq(s) = Consecutive(cuts[0], cuts[n]) /\ cuts[0] <= cuts[n]
    BY <1>2, <1>5, <1>6, <1>7, OperationsAre
  <1> QED
    BY <1>1, <1>8 DEF s, n

(* A new entry (DiffStream::publish).                                        *)
LEMMA EntryAdded ==
    ASSUME NEW entries \in Seq(DiffEntries), NEW from \in Nat, NEW p \in Nat, CutsFrom(entries, from, p),
           NEW entry \in DiffEntries, entry.operations = <<p + 1>>
    PROVE  CutsFrom(Append(entries, entry), from, p + 1)
  <1> DEFINE n == Len(entries)
             after == Append(entries, entry)
  <1>1. PICK cuts \in [0 .. n -> Nat] : /\ CutAt(cuts, entries) /\ cuts[0] = from /\ cuts[n] = p
    BY DEF CutsFrom, CutAt
  <1>2. n \in Nat /\ p + 1 \in Nat
    BY LenProperties
  <1>3. Len(after) = n + 1 /\ after[n + 1] = entry /\ \A i \in 1 .. n : after[i] = entries[i]
    BY AppendProperties
  <1>4. \A i \in 1 .. n : cuts[i - 1] < cuts[i] /\ entries[i].operations = Consecutive(cuts[i - 1], cuts[i])
    BY <1>1 DEF CutAt
  <1>5. entry.operations = Consecutive(p, p + 1)
    <2> DEFINE one == <<p + 1>>
    <2>1. one \in Seq(Nat) /\ Len(one) = 1 /\ one[1] = p + 1
      BY <1>2
    <2>2. PICK q \in Nat : q = p + 1
      BY <1>2
    <2>3. p <= q /\ q - p = 1
      BY <2>2
    <2>4. /\ Consecutive(p, q) \in Seq(Nat) /\ Len(Consecutive(p, q)) = q - p
          /\ \A i \in 1 .. q - p : Consecutive(p, q)[i] = p + i
      BY <2>3, ConsecutiveIs
    <2> HIDE DEF one
    <2>5. Len(one) = Len(Consecutive(p, q)) /\ \A i \in 1 .. Len(one) : one[i] = Consecutive(p, q)[i]
      <3>1. Len(one) = 1 /\ Len(Consecutive(p, q)) = 1
        BY <2>1, <2>3, <2>4
      <3>2. 1 \in 1 .. q - p /\ Consecutive(p, q)[1] = p + 1
        BY <2>3, <2>4
      <3>3. \A i \in 1 .. 1 : i = 1
        OBVIOUS
      <3> QED
        BY <2>1, <3>1, <3>2, <3>3
    <2>6. one = Consecutive(p, q)
      BY <2>1, <2>4, <2>5, SameElements
    <2> QED
      BY <2>2, <2>6 DEF one
  <1> HIDE DEF n, after
  <1> DEFINE next == [i \in 0 .. n + 1 |-> IF i = n + 1 THEN p + 1 ELSE cuts[i]]
  <1>6. /\ next \in [0 .. n + 1 -> Nat] /\ next[n + 1] = p + 1 /\ \A i \in 0 .. n : next[i] = cuts[i]
    BY <1>1, <1>2
  <1> HIDE DEF next
  <1>7. ASSUME NEW i \in 1 .. n + 1
        PROVE  next[i - 1] < next[i] /\ after[i].operations = Consecutive(next[i - 1], next[i])
    <2>1. CASE i \in 1 .. n
      <3>1. i - 1 \in 0 .. n /\ i \in 0 .. n
        BY <1>2, <2>1
      <3> QED
        BY <1>3, <1>4, <1>6, <2>1, <3>1
    <2>2. CASE i = n + 1
      <3>1. i - 1 = n /\ n \in 0 .. n
        BY <1>2, <2>2
      <3>2. next[i - 1] = p /\ next[i] = p + 1 /\ after[i] = entry
        BY <1>1, <1>3, <1>6, <2>2, <3>1
      <3> QED
        BY <1>5, <3>2
    <2> QED
      BY <1>2, <2>1, <2>2
  <1>8. next[0] = from
    BY <1>1, <1>2, <1>6
  <1>9. CutAt(next, after)
    BY <1>3, <1>6, <1>7 DEF CutAt
  <1> QED
    BY <1>3, <1>6, <1>8, <1>9 DEF CutsFrom, after

(* The oldest entry goes.                                                    *)
LEMMA EntryDropped ==
    ASSUME NEW entries \in Seq(DiffEntries), NEW from \in Nat, NEW p \in Nat, CutsFrom(entries, from, p),
           entries # << >>
    PROVE  \E next \in Nat : from < next /\ CutsFrom(Tail(entries), next, p)
  <1> DEFINE n == Len(entries)
             after == Tail(entries)
  <1>1. PICK cuts \in [0 .. n -> Nat] : /\ CutAt(cuts, entries) /\ cuts[0] = from /\ cuts[n] = p
    BY DEF CutsFrom, CutAt
  <1>2. n \in Nat /\ n # 0
    BY LenProperties, EmptySeq
  <1>3. Len(after) = n - 1 /\ \A i \in 1 .. n - 1 : after[i] = entries[i + 1]
    BY HeadTailProperties
  <1>4. \A i \in 1 .. n : cuts[i - 1] < cuts[i] /\ entries[i].operations = Consecutive(cuts[i - 1], cuts[i])
    BY <1>1 DEF CutAt
  <1> HIDE DEF n, after
  <1> DEFINE next == [i \in 0 .. n - 1 |-> cuts[i + 1]]
  <1>5. /\ next \in [0 .. n - 1 -> Nat] /\ \A i \in 0 .. n - 1 : next[i] = cuts[i + 1]
    <2>1. \A i \in 0 .. n - 1 : i + 1 \in 0 .. n
      BY <1>2
    <2>2. \A i \in 0 .. n - 1 : cuts[i + 1] \in Nat
      BY <2>1
    <2> QED
      BY <2>2
  <1> HIDE DEF next
  <1>6. ASSUME NEW i \in 1 .. n - 1
        PROVE  next[i - 1] < next[i] /\ after[i].operations = Consecutive(next[i - 1], next[i])
    <2>1. i + 1 \in 1 .. n /\ i - 1 \in 0 .. n - 1 /\ i \in 0 .. n - 1 /\ (i + 1) - 1 = (i - 1) + 1
      BY <1>2
    <2>2. next[i - 1] = cuts[(i + 1) - 1] /\ next[i] = cuts[i + 1] /\ after[i] = entries[i + 1]
      BY <1>3, <1>5, <2>1
    <2> QED
      BY <1>4, <2>1, <2>2
  <1>7. CutAt(next, after)
    BY <1>3, <1>5, <1>6 DEF CutAt
  <1>8. next[0] = cuts[1] /\ next[n - 1] = p /\ cuts[1] \in Nat /\ from < cuts[1]
    <2>1. 0 \in 0 .. n - 1 /\ n - 1 \in 0 .. n - 1 /\ (n - 1) + 1 = n /\ 0 + 1 = 1 /\ 1 \in 1 .. n /\ 1 - 1 = 0
          /\ 1 \in 0 .. n
      BY <1>2
    <2>2. next[0] = cuts[1] /\ next[n - 1] = p /\ cuts[1] \in Nat
      BY <1>1, <1>5, <2>1
    <2>3. cuts[1 - 1] < cuts[1]
      BY <1>4, <2>1
    <2> QED
      BY <1>1, <2>1, <2>2, <2>3
  <1>9. CutsFrom(after, cuts[1], p)
    BY <1>3, <1>7, <1>8 DEF CutsFrom
  <1> QED
    BY <1>8, <1>9 DEF after

(* An operation is merged into the newest entry.                             *)
LEMMA EntryMerged ==
    ASSUME NEW entries \in Seq(DiffEntries), NEW from \in Nat, NEW p \in Nat, CutsFrom(entries, from, p),
           entries # << >>
    PROVE  LET after == [entries EXCEPT ![Len(entries)].operations = Append(@, p + 1)]
           IN after \in Seq(DiffEntries) /\ CutsFrom(after, from, p + 1)
  <1> DEFINE n == Len(entries)
             after == [entries EXCEPT ![n].operations = Append(@, p + 1)]
  <1>1. PICK cuts \in [0 .. n -> Nat] : /\ CutAt(cuts, entries) /\ cuts[0] = from /\ cuts[n] = p
    BY DEF CutsFrom, CutAt
  <1>2. n \in Nat /\ n # 0 /\ DOMAIN entries = 1 .. n /\ p + 1 \in Nat
    BY LenProperties, EmptySeq
  <1>3. \A i \in 1 .. n : entries[i] \in DiffEntries
    BY ElementOfSeq
  <1>4. \A i \in 1 .. n : cuts[i - 1] < cuts[i] /\ entries[i].operations = Consecutive(cuts[i - 1], cuts[i])
    BY <1>1 DEF CutAt
  <1>5. /\ DOMAIN after = 1 .. n
        /\ \A i \in 1 .. n : i # n => after[i] = entries[i]
        /\ after[n] = [entries[n] EXCEPT !.operations = Append(@, p + 1)]
    <2>1. entries \in [1 .. n -> DiffEntries] /\ n \in 1 .. n
      BY <1>2, LenProperties
    <2>2. PICK m, e : m = [entries[n] EXCEPT !.operations = Append(@, p + 1)] /\ e = entries
      OBVIOUS
    <2>3. after = [e EXCEPT ![n] = m]
      BY <2>1, <2>2
    <2>4. e \in [1 .. n -> DiffEntries]
      BY <2>1, <2>2
    <2> HIDE DEF n, after
    <2>5. DOMAIN after = 1 .. n /\ (\A i \in 1 .. n : i # n => after[i] = e[i]) /\ after[n] = m
      BY <2>1, <2>3, <2>4
    <2> QED
      BY <2>2, <2>5
  <1>6. after = [i \in 1 .. n |-> after[i]]
    BY <1>2
  <1> HIDE DEF n, after
  <1>7. entries[n].operations = Consecutive(cuts[n - 1], p) /\ cuts[n - 1] < p /\ cuts[n - 1] \in Nat
        /\ entries[n] \in DiffEntries
    <2>1. n \in 1 .. n /\ n - 1 \in 0 .. n
      BY <1>2
    <2> QED
      BY <1>1, <1>3, <1>4, <2>1
  <1>8. after[n].operations = Consecutive(cuts[n - 1], p + 1) /\ after[n] \in DiffEntries
    <2>1. Append(entries[n].operations, p + 1) = Consecutive(cuts[n - 1], p + 1)
      <3>1. PICK x \in Nat : x = cuts[n - 1]
        BY <1>7
      <3>2. x <= p
        BY <1>7, <3>1
      <3>3. Append(Consecutive(x, p), p + 1) = Consecutive(x, p + 1)
        BY <3>2, ConsecutiveGrows
      <3> QED
        BY <1>7, <3>1, <3>3
    <2>2. Append(entries[n].operations, p + 1) \in Seq(Nat)
      BY <1>2, <1>7, AppendProperties DEF DiffEntries
    <2>3. after[n] = [entries[n] EXCEPT !.operations = Append(entries[n].operations, p + 1)]
      BY <1>5
    <2>4. after[n].operations = Append(entries[n].operations, p + 1)
      BY <1>7, <2>3 DEF DiffEntries
    <2>5. after[n] \in DiffEntries
      BY <1>7, <2>2, <2>3 DEF DiffEntries
    <2> QED
      BY <2>1, <2>4, <2>5
  <1>9. after \in Seq(DiffEntries) /\ Len(after) = n
    <2>1. \A i \in 1 .. n : after[i] \in DiffEntries
      BY <1>3, <1>5, <1>8
    <2>2. after \in [1 .. n -> DiffEntries]
      BY <1>6, <2>1
    <2>3. after \in Seq(DiffEntries)
      BY <1>2, <2>2, SeqDef
    <2> QED
      BY <1>2, <1>5, <2>3, LenProperties
  <1> DEFINE next == [i \in 0 .. n |-> IF i = n THEN p + 1 ELSE cuts[i]]
  <1>10. /\ next \in [0 .. n -> Nat] /\ next[n] = p + 1 /\ \A i \in 0 .. n : i # n => next[i] = cuts[i]
    BY <1>1, <1>2
  <1> HIDE DEF next
  <1>11. ASSUME NEW i \in 1 .. n
         PROVE  next[i - 1] < next[i] /\ after[i].operations = Consecutive(next[i - 1], next[i])
    <2>1. i - 1 \in 0 .. n /\ i \in 0 .. n /\ i - 1 # n
      BY <1>2
    <2>2. next[i - 1] = cuts[i - 1]
      BY <1>10, <2>1
    <2>3. CASE i # n
      BY <1>4, <1>5, <1>10, <2>1, <2>2, <2>3
    <2>4. CASE i = n
      BY <1>7, <1>8, <1>10, <2>2, <2>4
    <2> QED
      BY <2>3, <2>4
  <1>12. next[0] = from
    BY <1>1, <1>2, <1>10
  <1>13. CutAt(next, after)
    BY <1>9, <1>10, <1>11 DEF CutAt
  <1>14. CutsFrom(after, from, p + 1)
    BY <1>9, <1>10, <1>12, <1>13 DEF CutsFrom
  <1> QED
    BY <1>9, <1>14 DEF after, n

(* An operation is published (DiffStream::publish).                          *)
LEMMA DiffPublished ==
    ASSUME DiffsInv, part = "diffs", publish_diff, UNCHANGED part
    PROVE  DiffsInv'
  <1> DEFINE es == diffs.entries
             n == Len(es)
             p == published
             d == drained
             entry == [sequence |-> diffs.next_sequence, generation |-> current, operations |-> <<p + 1>>]
             merges == es # << >> /\ Last(es).generation = current
             merged == [es EXCEPT ![n].operations = Append(@, p + 1)]
  <1>1. /\ diffs = [capacity |-> diffs.capacity, dropped |-> diffs.dropped, entries |-> es,
                    next_sequence |-> diffs.next_sequence]
        /\ diffs.capacity \in Nat \ {0} /\ diffs.dropped \in Nat /\ diffs.next_sequence \in Nat
        /\ es \in Seq(DiffEntries) /\ p \in Nat /\ d \in Nat /\ current \in Nat
    BY DEF DiffsInv
  <1>2. PICK from \in Nat : d <= from /\ CutsFrom(es, from, p) /\ (diffs.dropped = 0 <=> from = d)
    BY DEF DiffsInv, DiffsGood
  <1>3. p' = p + 1 /\ d' = d /\ current' = current
    BY DEF publish_diff, Number
  <1>4. entry \in DiffEntries /\ entry.operations = <<p + 1>>
    BY <1>1 DEF DiffEntries
  <1>5. PICK after : after = Push(es, diffs.dropped, diffs.capacity, entry)
    OBVIOUS
  <1>6. diffs' = IF merges
                 THEN [diffs EXCEPT !.next_sequence = @ + 1, !.entries[n].operations = Append(@, p + 1)]
                 ELSE [diffs EXCEPT !.next_sequence = @ + 1, !.entries = after[1], !.dropped = after[2]]
    BY <1>3, <1>5 DEF publish_diff
  <1> HIDE DEF entry
  <1>7. CASE merges
    <2>1. merged \in Seq(DiffEntries) /\ CutsFrom(merged, from, p + 1)
      BY <1>1, <1>2, <1>7, EntryMerged
    <2>2. diffs' = [diffs EXCEPT !.next_sequence = diffs.next_sequence + 1, !.entries = merged]
      BY <1>1, <1>6, <1>7
    <2> HIDE DEF merged
    <2>3. diffs' = [capacity |-> diffs.capacity, dropped |-> diffs.dropped, entries |-> merged,
                    next_sequence |-> diffs.next_sequence + 1]
      BY <1>1, <2>2
    <2>4. DiffsGood(merged, diffs.dropped, p + 1, d)
      BY <1>2, <2>1 DEF DiffsGood
    <2> QED
      BY <1>1, <1>3, <2>1, <2>3, <2>4 DEF DiffsInv
  <1>8. CASE ~merges
    <2>1. diffs' = [capacity |-> diffs.capacity, dropped |-> after[2], entries |-> after[1],
                    next_sequence |-> diffs.next_sequence + 1]
      BY <1>1, <1>6, <1>8
    <2>2. after[1] \in Seq(DiffEntries) /\ after[2] \in Nat /\ DiffsGood(after[1], after[2], p + 1, d)
      <3>1. CASE n = diffs.capacity
        <4>1. es # << >>
          BY <1>1, <3>1, EmptySeq
        <4>2. after = <<Append(Tail(es), entry), diffs.dropped + 1>>
          BY <1>5, <3>1 DEF Push
        <4>3. PICK next \in Nat : from < next /\ CutsFrom(Tail(es), next, p)
          BY <1>1, <1>2, <4>1, EntryDropped
        <4>4. Tail(es) \in Seq(DiffEntries)
          BY <1>1, <4>1, HeadTailProperties
        <4>5. CutsFrom(Append(Tail(es), entry), next, p + 1) /\ Append(Tail(es), entry) \in Seq(DiffEntries)
          BY <1>1, <1>4, <4>3, <4>4, EntryAdded, AppendProperties
        <4>6. diffs.dropped + 1 # 0 /\ diffs.dropped + 1 \in Nat /\ d <= next /\ next # d
          BY <1>1, <1>2, <4>3
        <4> QED
          BY <4>2, <4>5, <4>6 DEF DiffsGood
      <3>2. CASE n # diffs.capacity
        <4>1. after = <<Append(es, entry), diffs.dropped>>
          BY <1>5, <3>2 DEF Push
        <4>2. CutsFrom(Append(es, entry), from, p + 1) /\ Append(es, entry) \in Seq(DiffEntries)
          BY <1>1, <1>2, <1>4, EntryAdded, AppendProperties
        <4> QED
          BY <1>1, <1>2, <4>1, <4>2 DEF DiffsGood
      <3> QED
        BY <3>1, <3>2
    <2>3. p + 1 \in Nat /\ diffs.next_sequence + 1 \in Nat
      BY <1>1
    <2> QED
      BY <1>1, <1>3, <2>1, <2>2, <2>3 DEF DiffsInv
  <1> QED
    BY <1>7, <1>8

(* A drain empties the stream and answers honestly (DiffStream::drain and    *)
(* drain_with_loss).                                                         *)
LEMMA DiffsDrained ==
    ASSUME DiffsInv, part = "diffs", drain_diffs \/ drain_diffs_with_loss, UNCHANGED part
    PROVE  DiffsInv' /\ Honest(batch', drained, published)
  <1>1. /\ diffs = [capacity |-> diffs.capacity, dropped |-> diffs.dropped, entries |-> diffs.entries,
                    next_sequence |-> diffs.next_sequence]
        /\ diffs.capacity \in Nat \ {0} /\ diffs.dropped \in Nat /\ diffs.next_sequence \in Nat
        /\ diffs.entries \in Seq(DiffEntries) /\ published \in Nat /\ drained \in Nat /\ current \in Nat
    BY DEF DiffsInv
  <1>2. PICK from \in Nat : /\ drained <= from /\ CutsFrom(diffs.entries, from, published)
                            /\ (diffs.dropped = 0 <=> from = drained)
    BY DEF DiffsInv, DiffsGood
  <1>3. Operations = Consecutive(from, published) /\ from <= published
    BY <1>1, <1>2, CutOperations DEF Operations
  <1>4. /\ diffs' = [diffs EXCEPT !.entries = << >>, !.dropped = 0]
        /\ drained' = published /\ published' = published /\ current' = current
    BY DEF drain_diffs, drain_diffs_with_loss
  <1>5. diffs' = [capacity |-> diffs.capacity, dropped |-> 0, entries |-> << >>,
                  next_sequence |-> diffs.next_sequence]
    BY <1>1, <1>4
  <1>6. << >> \in Seq(DiffEntries) /\ DiffsGood(<< >>, 0, published, published)
    <2>1. << >> \in Seq(DiffEntries) /\ Len(<< >>) = 0
      BY EmptySeq
    <2> DEFINE cuts == [i \in 0 .. 0 |-> published]
    <2>2. cuts \in [0 .. 0 -> Nat] /\ cuts[0] = published
      BY <1>1
    <2> HIDE DEF cuts
    <2>3. CutAt(cuts, << >>)
      BY <2>1, <2>2 DEF CutAt
    <2>4. CutsFrom(<< >>, published, published)
      BY <2>1, <2>2, <2>3 DEF CutsFrom
    <2> QED
      BY <1>1, <2>1, <2>4 DEF DiffsGood
  <1>7. DiffsInv'
    <2>1. /\ diffs'.capacity = diffs.capacity /\ diffs'.dropped = 0 /\ diffs'.entries = << >>
          /\ diffs'.next_sequence = diffs.next_sequence
      BY <1>5
    <2>2. DiffsGood(diffs'.entries, diffs'.dropped, published', drained')
      BY <1>4, <1>6, <2>1
    <2> QED
      <3>1. diffs' = [capacity |-> diffs'.capacity, dropped |-> diffs'.dropped, entries |-> diffs'.entries,
                      next_sequence |-> diffs'.next_sequence]
        BY <1>5, <2>1
      <3>2. /\ diffs'.capacity \in Nat \ {0} /\ diffs'.dropped \in Nat /\ diffs'.next_sequence \in Nat
            /\ diffs'.entries \in Seq(DiffEntries) /\ published' \in Nat /\ drained' \in Nat
            /\ current' \in Nat
        BY <1>1, <1>4, <1>6, <2>1
      <3> QED
        BY <2>2, <3>1, <3>2 DEF DiffsInv
  <1>8. Honest(batch', drained, published)
    <2>1. PICK lost, items : lost = diffs.dropped /\ items = Operations
      OBVIOUS
    <2>2. lost \in Nat /\ (lost = 0 <=> from = drained) /\ from \in drained .. published
      BY <1>1, <1>2, <1>3, <2>1
    <2>3. /\ Honest([ok |-> lost = 0, items |-> items, dropped |-> lost], drained, published)
          /\ Honest([ok |-> lost = 0, items |-> IF lost = 0 THEN items ELSE << >>, dropped |-> lost],
                    drained, published)
      BY <1>1, <1>3, <2>1, <2>2, AnswersAreHonest
    <2>4. \/ batch' = [ok |-> lost = 0, items |-> IF lost = 0 THEN items ELSE << >>, dropped |-> lost]
          \/ batch' = [ok |-> lost = 0, items |-> items, dropped |-> lost]
      BY <2>1 DEF drain_diffs, drain_diffs_with_loss, Answer
    <2> QED
      BY <2>3, <2>4
  <1> QED
    BY <1>7, <1>8

(* Both streams are as they should be at first.                              *)
LEMMA DrainsInitially == Init => ChangesInv /\ DiffsInv
  <1> SUFFICES ASSUME Init PROVE ChangesInv /\ DiffsInv
    OBVIOUS
  <1>1. PICK c \in Capacities : /\ stream = bounded(c)
                                /\ diffs = [capacity |-> AtLeastOne(c), dropped |-> 0, entries |-> << >>,
                                            next_sequence |-> 0]
    BY DEF Init, JournalsInit
  <1>2. current = 0 /\ published = 0 /\ drained = 0
    BY DEF Init, JournalsInit
  <1>3. AtLeastOne(c) \in Nat \ {0}
    BY JournalsAssumption DEF AtLeastOne
  <1>4. ChangesInv
    <2>1. Consecutive(0, 0) = << >>
      BY ConsecutiveIs
    <2>2. stream = [capacity |-> AtLeastOne(c), dropped |-> 0, events |-> << >>]
      BY <1>1 DEF bounded
    <2>3. RetainedFrom(stream, 0, 0, 0)
      BY <2>1, <2>2 DEF RetainedFrom
    <2> QED
      BY <1>2, <1>3, <2>2, <2>3 DEF ChangesInv
  <1>5. DiffsInv
    <2>1. << >> \in Seq(DiffEntries) /\ Len(<< >>) = 0
      BY EmptySeq
    <2> DEFINE cuts == [i \in 0 .. 0 |-> 0]
    <2>2. cuts \in [0 .. 0 -> Nat] /\ cuts[0] = 0
      OBVIOUS
    <2> HIDE DEF cuts
    <2>3. CutAt(cuts, << >>)
      BY <2>1, <2>2 DEF CutAt
    <2>4. CutsFrom(<< >>, 0, 0)
      BY <2>1, <2>2, <2>3 DEF CutsFrom
    <2>5. DiffsGood(<< >>, 0, 0, 0)
      BY <2>4 DEF DiffsGood
    <2> QED
      BY <1>1, <1>2, <1>3, <2>1, <2>5 DEF DiffsInv
  <1> QED
    BY <1>4, <1>5

(* What a step means for the streams: they stay as they should be, and a     *)
(* step that drains answers honestly.                                        *)
DrainedHonestly ==
    published' = published /\ drained' = published /\ (stream' # stream \/ diffs' # diffs \/ batch' # batch) =>
       Honest(batch', drained, published)

(* A step of the stream of changes.                                          *)
LEMMA ChangeSteps ==
    ASSUME ChangesInv, part = "changes", StreamNext, UNCHANGED part
    PROVE  ChangesInv' /\ DiffsInv' /\ DrainedHonestly
  <1>1. DiffsInv'
    BY DEF DiffsInv
  <1>2. CASE publish
    <2>1. published \in Nat /\ published' = published + 1
      BY <1>2 DEF publish, Number, ChangesInv
    <2> QED
      BY <1>1, <1>2, <2>1, ChangePublished DEF DrainedHonestly
  <1>3. CASE drain \/ drain_with_loss
    BY <1>1, <1>3, ChangesDrained DEF DrainedHonestly
  <1> QED
    BY <1>2, <1>3 DEF StreamNext

(* A step of the stream of differences.                                      *)
LEMMA DiffSteps ==
    ASSUME DiffsInv, part = "diffs", DiffStreamNext, UNCHANGED part
    PROVE  ChangesInv' /\ DiffsInv' /\ DrainedHonestly
  <1>1. ChangesInv'
    BY DEF ChangesInv
  <1>2. CASE publish_diff
    <2>1. published \in Nat /\ published' = published + 1
      BY <1>2 DEF publish_diff, Number, DiffsInv
    <2> QED
      BY <1>1, <1>2, <2>1, DiffPublished DEF DrainedHonestly
  <1>3. CASE drain_diffs \/ drain_diffs_with_loss
    BY <1>1, <1>3, DiffsDrained DEF DrainedHonestly
  <1>4. CASE next_generation
    <2>1. current' = current + 1 /\ UNCHANGED <<stream, diffs, published, drained, batch>>
      BY <1>4 DEF next_generation
    <2>2. DiffsInv'
      BY <2>1 DEF DiffsInv
    <2> QED
      BY <1>1, <2>1, <2>2 DEF DrainedHonestly
  <1> QED
    BY <1>2, <1>3, <1>4 DEF DiffStreamNext

(* Any other step leaves the streams alone.                                  *)
LEMMA OtherSteps ==
    ASSUME ChangesInv, DiffsInv, [Next]_vars, part \notin {"changes", "diffs"}
    PROVE  ChangesInv' /\ DiffsInv' /\ DrainedHonestly
  <1>1. part' = part
    BY DEF Next, vars
  <1>2. UNCHANGED streamVars
    <2>1. CASE TraceNext
      BY <2>1 DEF TraceNext, record, save_trace, trace_from_json
    <2>2. CASE AuditNext
      BY <2>2 DEF AuditNext, append, retain_last, save_journal, journal_from_json
    <2>3. CASE SnapshotNext
      BY <2>3 DEF SnapshotNext, insert, save_snapshots, snapshots_from_json
    <2>4. CASE UNCHANGED journalVars
      BY <2>4 DEF journalVars
    <2>5. CASE UNCHANGED vars
      BY <2>5 DEF vars, journalVars
    <2> QED
      BY <2>1, <2>2, <2>3, <2>4, <2>5 DEF Next
  <1>3. ChangesInv' /\ DiffsInv'
    BY <1>1 DEF ChangesInv, DiffsInv
  <1> QED
    BY <1>2, <1>3 DEF DrainedHonestly, streamVars

(* Whatever the stream of changes or of differences answers to a drain is    *)
(* all that was published since the drain before it, or says that some was   *)
(* lost (ChangeStream and DiffStream: publish, drain, drain_with_loss), for  *)
(* any capacities and however often it is published.                         *)
THEOREM DrainsAreHonest == Spec => DrainIsHonest
  <1> DEFINE Inv == ChangesInv /\ DiffsInv
  <1>1. Init => Inv
    BY DrainsInitially
  <1>2. Inv /\ [Next]_vars => Inv' /\ DrainedHonestly
    <2> SUFFICES ASSUME Inv, [Next]_vars PROVE Inv' /\ DrainedHonestly
      OBVIOUS
    <2>1. CASE part = "changes" /\ StreamNext /\ UNCHANGED part
      BY <2>1, ChangeSteps
    <2>2. CASE part = "diffs" /\ DiffStreamNext /\ UNCHANGED part
      BY <2>2, DiffSteps
    <2>3. CASE part \notin {"changes", "diffs"}
      BY <2>3, OtherSteps
    <2>4. CASE UNCHANGED vars
      <3>1. UNCHANGED <<part, stream, diffs, current, published, drained, batch>>
        BY <2>4 DEF vars, journalVars, streamVars
      <3> QED
        BY <3>1 DEF ChangesInv, DiffsInv, DrainedHonestly
    <2> QED
      BY <2>1, <2>2, <2>3, <2>4 DEF Next
  <1>3. DrainedHonestly =>
          LET since == [i \in 1 .. published - drained |-> drained + i]
          IN published' = published /\ drained' = published /\ (stream' # stream \/ diffs' # diffs \/ batch' # batch) =>
                /\ batch'.ok <=> batch'.items = since
                /\ IsSuffix(batch'.items, since)
                /\ batch'.ok <=> batch'.dropped = 0
    BY DEF DrainedHonestly, Honest, Consecutive
  <1> QED
    BY <1>1, <1>2, <1>3, PTL DEF Spec, DrainIsHonest

-----------------------------------------------------------------------------
(* Recursions *)

(* The steps of a recursion over 0 .. n in S, and a function made by them.   *)
StepsIn(n, S, rule) == rule \in [(1 .. n) \X S -> S]
(* The function g makes each of its values from the one before.              *)
MadeBy(n, S, base, rule, g) ==
    g \in [0 .. n -> S] /\ g[0] = base /\ \A i \in 1 .. n : g[i] = rule[<<i, g[i - 1]>>]

(* A recursion over 0 .. n whose steps stay in a set has a function.         *)
LEMMA RecursionExists ==
    ASSUME NEW n \in Nat, NEW S, NEW base \in S, NEW rule, StepsIn(n, S, rule)
    PROVE  \E g : MadeBy(n, S, base, rule, g)
  <1> DEFINE Steps(g, m) == g[0] = base /\ \A i \in 1 .. m : g[i] = rule[<<i, g[i - 1]>>]
             P == {m \in 0 .. n : \E g \in [0 .. m -> S] : Steps(g, m)}
  <1>1. 0 \in P
    <2> DEFINE g == [i \in 0 .. 0 |-> base]
    <2>1. g \in [0 .. 0 -> S] /\ Steps(g, 0) /\ 0 \in 0 .. n
      OBVIOUS
    <2> HIDE DEF g, Steps
    <2> QED
      BY <2>1
  <1>2. ASSUME NEW m \in 1 .. n, m - 1 \in P PROVE m \in P
    <2>1. PICK h \in [0 .. m - 1 -> S] : Steps(h, m - 1)
      <3> HIDE DEF Steps
      <3> QED
        BY <1>2
    <2> DEFINE e == rule[<<m, h[m - 1]>>]
               g == [i \in 0 .. m |-> IF i = m THEN e ELSE h[i]]
    <2>2. e \in S
      <3>1. h[m - 1] \in S
        OBVIOUS
      <3> QED
        BY <3>1 DEF StepsIn
    <2>3. \A i \in 0 .. m : (i # m => i \in 0 .. m - 1)
      OBVIOUS
    <2> HIDE DEF e
    <2>4. g \in [0 .. m -> S]
      BY <2>2, <2>3
    <2>5. g[m] = e /\ \A i \in 0 .. m - 1 : g[i] = h[i]
      OBVIOUS
    <2> HIDE DEF g
    <2>6. Steps(g, m)
      <3>1. 0 \in 0 .. m - 1 /\ m - 1 \in 0 .. m - 1
        OBVIOUS
      <3>2. \A i \in 1 .. m - 1 : i \in 0 .. m - 1 /\ i - 1 \in 0 .. m - 1
        OBVIOUS
      <3>3. g[m] = rule[<<m, g[m - 1]>>]
        BY <2>5, <3>1 DEF e
      <3>4. \A i \in 1 .. m - 1 : g[i] = rule[<<i, g[i - 1]>>]
        BY <2>1, <2>5, <3>2
      <3>5. \A i \in 1 .. m : i = m \/ i \in 1 .. m - 1
        OBVIOUS
      <3> QED
        BY <2>1, <2>5, <3>1, <3>3, <3>4, <3>5
    <2>7. m \in 0 .. n
      OBVIOUS
    <2> HIDE DEF Steps
    <2> QED
      BY <2>4, <2>6, <2>7
  <1>3. n \in P
    <2>1. n \in 0 .. n
      OBVIOUS
    <2> HIDE DEF P
    <2> QED
      BY <1>1, <1>2, <2>1, UpTo
  <1> HIDE DEF Steps
  <1>4. PICK g \in [0 .. n -> S] : Steps(g, n)
    BY <1>3
  <1> QED
    BY <1>4 DEF Steps, MadeBy

(* retain keeps the other children, each once.                               *)
LEMMA OthersThanIs ==
    ASSUME NEW M, NEW children \in Seq(M), NEW entry
    PROVE  /\ OthersThan(entry, children) \in Seq(M)
           /\ IsInjective(children) => IsInjective(OthersThan(entry, children))
           /\ ToSet(OthersThan(entry, children)) = ToSet(children) \ {entry}
  <1> DEFINE n == Len(children)
             S == Seq(M)
             Keeps(e, s) == IF e = entry THEN s ELSE Append(s, e)
             Made(g) == [i \in 0 .. n |-> IF i = 0 THEN << >> ELSE Keeps(children[i], g[i - 1])]
             left == CHOOSE g : g = Made(g)
             rule == [p \in (1 .. n) \X S |-> Keeps(children[p[1]], p[2])]
             Has(s, x) == \E i \in 1 .. Len(s) : s[i] = x
             Had(m, x) == \E k \in 1 .. m : children[k] = x
             Once(s) == \A i, j \in 1 .. Len(s) : s[i] = s[j] => i = j
             Good(m, s) == /\ s \in Seq(M) /\ (IsInjective(children) => Once(s))
                           /\ \A x : Has(s, x) <=> (Had(m, x) /\ x # entry)
             P == {m \in 0 .. n : Good(m, left[m])}
  <1>1. n \in Nat /\ DOMAIN children = 1 .. n /\ \A i \in 1 .. n : children[i] \in M
    BY LenProperties, ElementOfSeq
  <1>2. OthersThan(entry, children) = left[n]
    BY Zenon DEF OthersThan
  <1>0. IsInjective(children) => Once(children)
    BY <1>1 DEF IsInjective
  <1> HIDE DEF n
  <1>3. rule \in [(1 .. n) \X S -> S] /\ << >> \in S
    <2>1. \A p \in (1 .. n) \X S : Keeps(children[p[1]], p[2]) \in S
      BY <1>1
    <2> HIDE DEF Keeps, S
    <2>2. rule \in [(1 .. n) \X S -> S]
      BY <2>1
    <2> QED
      BY <2>2 DEF S
  <1>4. PICK g \in [0 .. n -> S] : g[0] = << >> /\ \A i \in 1 .. n : g[i] = rule[<<i, g[i - 1]>>]
    <2>1. n \in Nat /\ << >> \in S /\ StepsIn(n, S, rule)
      BY <1>1, <1>3 DEF StepsIn
    <2> HIDE DEF S, rule
    <2>2. PICK g : MadeBy(n, S, << >>, rule, g)
      BY <2>1, RecursionExists
    <2> QED
      BY <2>2 DEF MadeBy
  <1> HIDE DEF S
  <1>5. g = Made(g)
    <2>1. \A i \in 0 .. n : i = 0 \/ (i \in 1 .. n /\ i - 1 \in 0 .. n)
      BY <1>1
    <2> HIDE DEF Keeps
    <2>2. \A i \in 1 .. n : i - 1 \in 0 .. n => g[i] = Keeps(children[i], g[i - 1])
      BY <1>4
    <2> QED
      BY <1>4, <2>1, <2>2
  <1> HIDE DEF rule
  <1>6. left = Made(left)
    <2> HIDE DEF Made
    <2> QED
      BY <1>5, Zenon
  <1> HIDE DEF left
  <1>7. left[0] = << >> /\ \A i \in 1 .. n : left[i] = Keeps(children[i], left[i - 1])
    <2> HIDE DEF Keeps
    <2>1. PICK e : e = Made(left)
      OBVIOUS
    <2>2. \A i \in 0 .. n : e[i] = IF i = 0 THEN << >> ELSE Keeps(children[i], left[i - 1])
      BY <2>1
    <2>3. e = left
      BY <1>6, <2>1
    <2>4. 0 \in 0 .. n /\ \A i \in 1 .. n : i \in 0 .. n /\ i # 0
      BY <1>1
    <2> HIDE DEF Made
    <2> QED
      BY <2>2, <2>3, <2>4
  <1> HIDE DEF Made
  <1>8. 0 \in P
    <2>1. << >> \in Seq(M) /\ Len(<< >>) = 0 /\ 0 \in 0 .. n /\ 1 .. 0 = {}
      BY <1>1
    <2>2. Good(0, << >>)
      BY <2>1
    <2> HIDE DEF Good
    <2> QED
      BY <1>7, <2>1, <2>2
  <1>9. ASSUME NEW m \in 1 .. n, m - 1 \in P PROVE m \in P
    <2>1. PICK s, e : s = left[m - 1] /\ e = children[m]
      OBVIOUS
    <2>2. Good(m - 1, s) /\ m \in 0 .. n /\ e \in M /\ Len(s) \in Nat /\ s \in Seq(M)
      <3>1. Good(m - 1, s)
        BY <1>9, <2>1
      <3>2. s \in Seq(M) /\ Len(s) \in Nat
        BY <3>1, LenProperties
      <3>3. m \in 0 .. n /\ e \in M
        BY <1>1, <2>1
      <3> HIDE DEF Good
      <3> QED
        BY <3>1, <3>2, <3>3
    <2>3. \A i : i \in 1 .. m <=> (i \in 1 .. m - 1 \/ i = m)
      BY <1>1
    <2>4. \A x : Had(m, x) <=> (Had(m - 1, x) \/ x = e)
      BY <2>1, <2>3
    <2>5. /\ IsInjective(children) => Once(s)
          /\ \A x : Has(s, x) <=> (Had(m - 1, x) /\ x # entry)
      BY <2>2
    <2>6. CASE e = entry
      <3>1. left[m] = s
        BY <1>7, <2>1, <2>6
      <3>2. \A x : Has(s, x) <=> (Had(m, x) /\ x # entry)
        <4> HIDE DEF Has, Had
        <4> QED
          BY <2>4, <2>5, <2>6
      <3>3. Good(m, s)
        BY <2>2, <2>5, <3>2
      <3> HIDE DEF Good
      <3> QED
        BY <2>2, <3>1, <3>3
    <2>7. CASE e # entry
      <3>1. PICK t : t = Append(s, e)
        OBVIOUS
      <3>2. left[m] = t
        BY <1>7, <2>1, <2>7, <3>1
      <3>3. /\ t \in Seq(M) /\ Len(t) = Len(s) + 1 /\ t[Len(s) + 1] = e
            /\ \A i \in 1 .. Len(s) : t[i] = s[i]
        BY <2>2, <3>1, AppendProperties
      <3>4. \A i : i \in 1 .. Len(s) + 1 <=> (i \in 1 .. Len(s) \/ i = Len(s) + 1)
        BY <2>2
      <3>5. \A x : Has(t, x) <=> (Has(s, x) \/ x = e)
        BY <3>3, <3>4
      <3>6. IsInjective(children) => ~Had(m - 1, e)
        BY <1>0, <1>1, <2>1 DEF n
      <3>7. IsInjective(children) => ~Has(s, e)
        <4> HIDE DEF Has, Had
        <4> QED
          BY <2>5, <3>6
      <3>8. IsInjective(children) => Once(t)
        BY <2>5, <3>3, <3>4, <3>7
      <3>9. \A x : Has(t, x) <=> (Had(m, x) /\ x # entry)
        <4> HIDE DEF Has, Had
        <4> QED
          BY <2>4, <2>5, <2>7, <3>5
      <3>10. Good(m, t)
        BY <3>3, <3>8, <3>9
      <3> HIDE DEF Good
      <3> QED
        BY <2>2, <3>2, <3>10
    <2> QED
      BY <2>6, <2>7
  <1>10. n \in P
    <2>1. n \in 0 .. n
      BY <1>1
    <2> HIDE DEF P
    <2> QED
      BY <1>1, <1>8, <1>9, <2>1, UpTo
  <1>11. Good(n, left[n])
    BY <1>10
  <1> HIDE DEF P
  <1>12. PICK r : r = left[n]
    OBVIOUS
  <1>13. r \in Seq(M) /\ DOMAIN r = 1 .. Len(r)
    BY <1>11, <1>12, LenProperties
  <1>14. IsInjective(children) => IsInjective(r)
    <2> SUFFICES ASSUME IsInjective(children) PROVE IsInjective(r)
      OBVIOUS
    <2>1. Once(r)
      BY <1>11, <1>12
    <2> QED
      BY <1>13, <2>1 DEF IsInjective
  <1>15. ToSet(r) = ToSet(children) \ {entry}
    <2>1. \A x : x \in ToSet(r) <=> Has(r, x)
      BY <1>13 DEF ToSet
    <2>2. \A x : x \in ToSet(children) <=> Had(n, x)
      BY <1>1 DEF ToSet
    <2>3. \A x : Has(r, x) <=> (Had(n, x) /\ x # entry)
      BY <1>11, <1>12
    <2> HIDE DEF Has, Had
    <2> QED
      BY <2>1, <2>2, <2>3
  <1> QED
    BY <1>2, <1>12, <1>13, <1>14, <1>15

(* What the sequences that are put together hold, the whole holds.           *)
LEMMA FlattenIs ==
    ASSUME NEW M, NEW seqs \in Seq(Seq(M))
    PROVE  /\ FlattenSeq(seqs) \in Seq(M)
           /\ \A x : x \in ToSet(FlattenSeq(seqs)) <=> \E i \in 1 .. Len(seqs) : x \in ToSet(seqs[i])
  <1> DEFINE n == Len(seqs)
             S == Seq(M)
             Joined(i, s) == IF i = 1 THEN seqs[i] ELSE s \o seqs[i]
             Made(g) == [i \in 1 .. n |-> IF i = 1 THEN seqs[i] ELSE g[i - 1] \o seqs[i]]
             flat == CHOOSE g : g = Made(g)
             rule == [p \in (1 .. n) \X S |-> Joined(p[1], p[2])]
             Holds(m, x) == \E i \in 1 .. m : x \in ToSet(seqs[i])
             Good(m, s) == s \in Seq(M) /\ \A x : x \in ToSet(s) <=> Holds(m, x)
             P == {m \in 0 .. n : m = 0 \/ Good(m, flat[m])}
  <1>1. n \in Nat /\ DOMAIN seqs = 1 .. n /\ \A i \in 1 .. n : seqs[i] \in Seq(M)
    BY LenProperties, ElementOfSeq
  <1>2. CASE n = 0
    <2>1. FlattenSeq(seqs) = seqs /\ seqs = << >>
      BY <1>2, EmptySeq DEF FlattenSeq
    <2>2. << >> \in Seq(M) /\ ToSet(<< >>) = {} /\ Len(<< >>) = 0 /\ 1 .. 0 = {}
      BY DEF ToSet
    <2> QED
      BY <2>1, <2>2
  <1>3. CASE n # 0
    <2>1. FlattenSeq(seqs) = flat[n]
      BY <1>3, Zenon DEF FlattenSeq
    <2> HIDE DEF n
    <2>2. StepsIn(n, S, rule) /\ << >> \in S
      <3>1. \A p \in (1 .. n) \X S : Joined(p[1], p[2]) \in S
        BY <1>1, ConcatProperties
      <3>2. << >> \in S
        OBVIOUS
      <3> HIDE DEF Joined, S
      <3>3. rule \in [(1 .. n) \X S -> S]
        BY <3>1
      <3> QED
        BY <3>2, <3>3 DEF StepsIn
    <2>3. PICK g : MadeBy(n, S, << >>, rule, g)
      <3> HIDE DEF S, rule
      <3> QED
        BY <1>1, <2>2, RecursionExists
    <2>4. g \in [0 .. n -> S] /\ \A i \in 1 .. n : g[i] = rule[<<i, g[i - 1]>>]
      BY <2>3 DEF MadeBy
    <2>5. \A i \in 1 .. n : i - 1 \in 0 .. n
      BY <1>1
    <2>6. \A i \in 1 .. n : g[i] = IF i = 1 THEN seqs[i] ELSE g[i - 1] \o seqs[i]
      <3> SUFFICES ASSUME NEW i \in 1 .. n
                   PROVE  g[i] = IF i = 1 THEN seqs[i] ELSE g[i - 1] \o seqs[i]
        OBVIOUS
      <3>1. g[i - 1] \in S
        BY <2>4, <2>5
      <3> HIDE DEF S
      <3>2. <<i, g[i - 1]>> \in (1 .. n) \X S
        BY <3>1
      <3> QED
        BY <2>4, <3>2
    <2> HIDE DEF S, rule
    <2> DEFINE h == [i \in 1 .. n |-> g[i]]
    <2>7. h = Made(h)
      <3>1. \A i \in 1 .. n : i # 1 => i - 1 \in 1 .. n
        BY <1>1
      <3>2. \A i \in 1 .. n : g[i] = IF i = 1 THEN seqs[i] ELSE h[i - 1] \o seqs[i]
        BY <2>6, <3>1
      <3> QED
        BY <3>2
    <2> HIDE DEF h
    <2>8. flat = Made(flat)
      <3> HIDE DEF Made
      <3> QED
        BY <2>7, Zenon
    <2> HIDE DEF flat
    <2>9. \A i \in 1 .. n : flat[i] = IF i = 1 THEN seqs[i] ELSE flat[i - 1] \o seqs[i]
      <3>1. PICK e : e = Made(flat)
        OBVIOUS
      <3>2. \A i \in 1 .. n : e[i] = IF i = 1 THEN seqs[i] ELSE flat[i - 1] \o seqs[i]
        BY <3>1
      <3>3. e = flat
        BY <2>8, <3>1
      <3> HIDE DEF Made
      <3> QED
        BY <3>2, <3>3
    <2> HIDE DEF Made
    <2>10. 0 \in P
      BY <1>1
    <2>11. ASSUME NEW m \in 1 .. n, m - 1 \in P PROVE m \in P
      <3>1. \A i : i \in 1 .. m <=> (i \in 1 .. m - 1 \/ i = m)
        BY <1>1
      <3>2. \A x : Holds(m, x) <=> (Holds(m - 1, x) \/ x \in ToSet(seqs[m]))
        BY <3>1
      <3>3. m \in 0 .. n /\ seqs[m] \in Seq(M)
        BY <1>1
      <3>4. CASE m = 1
        <4>1. flat[m] = seqs[m]
          BY <2>9, <3>4
        <4>2. \A x : ~Holds(m - 1, x)
          BY <3>4
        <4>3. Good(m, flat[m])
          <5> HIDE DEF Holds
          <5> QED
            BY <3>2, <3>3, <4>1, <4>2
        <4> HIDE DEF Good
        <4> QED
          BY <3>3, <4>3
      <3>5. CASE m # 1
        <4>1. PICK s, t : s = flat[m - 1] /\ t = seqs[m]
          OBVIOUS
        <4>2. flat[m] = s \o t
          BY <2>9, <3>5, <4>1
        <4>3. m - 1 # 0
          BY <3>5
        <4>4. Good(m - 1, s)
          <5> HIDE DEF Good
          <5> QED
            BY <2>11, <4>1, <4>3
        <4>5. s \in Seq(M) /\ t \in Seq(M)
          BY <3>3, <4>1, <4>4
        <4>6. PICK r : r = s \o t
          OBVIOUS
        <4>7. r \in Seq(M) /\ \A x : x \in ToSet(r) <=> (x \in ToSet(s) \/ x \in ToSet(t))
          <5>1. /\ r \in Seq(M) /\ Len(r) = Len(s) + Len(t) /\ Len(s) \in Nat /\ Len(t) \in Nat
                /\ \A i \in 1 .. Len(s) + Len(t) :
                      r[i] = IF i <= Len(s) THEN s[i] ELSE t[i - Len(s)]
            BY <4>5, <4>6, ConcatProperties, LenProperties
          <5>2. DOMAIN r = 1 .. Len(s) + Len(t) /\ DOMAIN s = 1 .. Len(s) /\ DOMAIN t = 1 .. Len(t)
            BY <4>5, <5>1, LenProperties
          <5>3. \A i \in 1 .. Len(s) : i \in 1 .. Len(s) + Len(t) /\ r[i] = s[i]
            BY <5>1
          <5>4. ASSUME NEW j \in 1 .. Len(t) PROVE j + Len(s) \in 1 .. Len(s) + Len(t) /\ r[j + Len(s)] = t[j]
            <6>1. j + Len(s) \in 1 .. Len(s) + Len(t) /\ ~(j + Len(s) <= Len(s)) /\ j + Len(s) - Len(s) = j
              BY <5>1
            <6> QED
              BY <5>1, <6>1
          <5>5. \A i \in 1 .. Len(s) + Len(t) : i \in 1 .. Len(s) \/ (i - Len(s) \in 1 .. Len(t) /\ r[i] = t[i - Len(s)])
            BY <5>1
          <5> SUFFICES ASSUME NEW x PROVE x \in ToSet(r) <=> (x \in ToSet(s) \/ x \in ToSet(t))
            BY <5>1
          <5>6. ASSUME x \in ToSet(r) PROVE x \in ToSet(s) \/ x \in ToSet(t)
            <6>1. PICK i \in 1 .. Len(s) + Len(t) : x = r[i]
              BY <5>2, <5>6 DEF ToSet
            <6> QED
              BY <5>2, <5>3, <5>5, <6>1 DEF ToSet
          <5>7. ASSUME x \in ToSet(s) PROVE x \in ToSet(r)
            BY <5>2, <5>3, <5>7 DEF ToSet
          <5>8. ASSUME x \in ToSet(t) PROVE x \in ToSet(r)
            BY <5>2, <5>4, <5>8 DEF ToSet
          <5> QED
            BY <5>6, <5>7, <5>8
        <4>8. \A x : x \in ToSet(s) <=> Holds(m - 1, x)
          BY <4>4
        <4>9. Good(m, r)
          <5> HIDE DEF Holds
          <5> QED
            BY <3>2, <4>1, <4>7, <4>8
        <4> HIDE DEF Good
        <4> QED
          BY <3>3, <4>2, <4>6, <4>9
      <3> QED
        BY <3>4, <3>5
    <2>12. n \in P
      <3>1. n \in 0 .. n
        BY <1>1
      <3> HIDE DEF P
      <3> QED
        BY <1>1, <2>10, <2>11, <3>1, UpTo
    <2>13. Good(n, flat[n])
      BY <1>3, <2>12
    <2> QED
      BY <2>1, <2>13 DEF n
  <1> QED
    BY <1>2, <1>3

-----------------------------------------------------------------------------
(* Trees (PageTree) *)

(* The nodes hang below the root, h says how far; parents and children       *)
(* agree.                                                                    *)
TreeWith(root, nodes, h) ==
    /\ IsFiniteSet(DOMAIN nodes) /\ None \notin DOMAIN nodes
    /\ root \in DOMAIN nodes /\ nodes[root].parent = None
    /\ h \in [DOMAIN nodes -> Nat] /\ h[root] = 0
    /\ \A n \in DOMAIN nodes \ {root} :
          nodes[n].parent \in DOMAIN nodes /\ h[n] = h[nodes[n].parent] + 1
    /\ \A n \in DOMAIN nodes :
          /\ nodes[n].children \in Seq(DOMAIN nodes) /\ IsInjective(nodes[n].children)
          /\ ToSet(nodes[n].children) = {m \in DOMAIN nodes : nodes[m].parent = n}

(* No node is further from the root than there are nodes.                    *)
LEMMA HeightIsBounded ==
    ASSUME NEW root, NEW nodes, NEW h, TreeWith(root, nodes, h), NEW m \in DOMAIN nodes
    PROVE  Cardinality(DOMAIN nodes) \in Nat /\ h[m] \in Nat /\ h[m] < Cardinality(DOMAIN nodes)
  <1> DEFINE D == DOMAIN nodes
             H == {h[n] : n \in D}
             P == {k \in 0 .. h[m] : h[m] - k \in H}
             f == [n \in D |-> h[n]]
  <1>1. /\ IsFiniteSet(D) /\ h[m] \in Nat /\ h[root] = 0 /\ \A n \in D : h[n] \in Nat
        /\ \A n \in D : n # root => nodes[n].parent \in D /\ h[n] = h[nodes[n].parent] + 1
    BY DEF TreeWith
  <1>2. 0 \in P
    <2>1. 0 \in 0 .. h[m] /\ h[m] - 0 = h[m]
      BY <1>1
    <2> QED
      BY <2>1
  <1>3. ASSUME NEW k \in 1 .. h[m], k - 1 \in P PROVE k \in P
    <2>1. PICK n \in D : h[n] = h[m] - (k - 1)
      BY <1>3
    <2>2. h[n] # 0 /\ h[n] - 1 = h[m] - k /\ k \in 0 .. h[m]
      BY <1>1, <2>1
    <2>3. n # root
      BY <1>1, <2>2
    <2>4. nodes[n].parent \in D /\ h[nodes[n].parent] = h[m] - k
      <3>1. PICK q : q = nodes[n].parent
        OBVIOUS
      <3>2. q \in D /\ h[q] \in Nat /\ h[n] = h[q] + 1
        BY <1>1, <2>3, <3>1
      <3>3. h[q] = h[n] - 1
        BY <3>2
      <3> QED
        BY <2>2, <3>1, <3>2, <3>3
    <2> QED
      BY <2>2, <2>4
  <1>4. 0 .. h[m] \subseteq H
    <2>1. \A k \in 0 .. h[m] : k \in P
      <3> HIDE DEF P
      <3> QED
        BY <1>1, <1>2, <1>3, UpTo
    <2> SUFFICES ASSUME NEW i \in 0 .. h[m] PROVE i \in H
      OBVIOUS
    <2>2. h[m] - i \in 0 .. h[m] /\ h[m] - (h[m] - i) = i
      BY <1>1
    <2>3. h[m] - i \in P
      BY <2>1, <2>2
    <2> QED
      BY <2>2, <2>3
  <1>5. IsFiniteSet(H) /\ Cardinality(H) <= Cardinality(D)
    <2>1. f \in Surjection(D, H)
      BY DEF Surjection
    <2> HIDE DEF f, H
    <2> QED
      BY <1>1, <2>1, FS_Surjection
  <1>6. Cardinality(0 .. h[m]) = h[m] + 1
    <2>1. Cardinality(0 .. h[m]) = IF 0 > h[m] THEN 0 ELSE h[m] - 0 + 1
      BY <1>1, FS_Interval
    <2> QED
      BY <1>1, <2>1
  <1>7. Cardinality(0 .. h[m]) <= Cardinality(H)
    <2> HIDE DEF H
    <2> QED
      BY <1>4, <1>5, FS_Subset
  <1>8. Cardinality(D) \in Nat /\ Cardinality(H) \in Nat
    <2> HIDE DEF H
    <2> QED
      BY <1>1, <1>5, FS_CardinalityType
  <1> HIDE DEF H, D
  <1> QED
    BY <1>1, <1>5, <1>6, <1>7, <1>8 DEF D

(* A node and what s has below each of its children that is there.           *)
Below(nodes, s, m) ==
    <<m>> \o FlattenSeq([i \in DOMAIN nodes[m].children |->
                 IF nodes[m].children[i] \in DOMAIN nodes THEN s[nodes[m].children[i]] ELSE << >>])

(* U holds n and what s has of those of the children b that are in D.        *)
Gathers(U, n, b, s, D) ==
    \A x : x \in U <=> (x = n \/ \E c \in ToSet(b) \cap D : x \in ToSet(s[c]))

(* It holds the node, and what s holds of the children.                      *)
LEMMA BelowIs ==
    ASSUME NEW nodes, NEW D, D = DOMAIN nodes, NEW s \in [D -> Seq(D)], NEW m \in D,
           Sequential(nodes[m].children)
    PROVE  /\ Below(nodes, s, m) \in Seq(D)
           /\ Gathers(ToSet(Below(nodes, s, m)), m, nodes[m].children, s, D)
  <1>1. PICK b : b = nodes[m].children
    OBVIOUS
  <1>2. Len(b) \in Nat /\ DOMAIN b = 1 .. Len(b)
    BY <1>1, LenProperties DEF Sequential
  <1> DEFINE e == [i \in DOMAIN b |-> IF b[i] \in D THEN s[b[i]] ELSE << >>]
  <1>3. e \in Seq(Seq(D)) /\ Len(e) = Len(b)
    <2>1. \A i \in 1 .. Len(b) : (IF b[i] \in D THEN s[b[i]] ELSE << >>) \in Seq(D)
      <3>1. << >> \in Seq(D)
        OBVIOUS
      <3> QED
        BY <3>1
    <2>2. e = [i \in 1 .. Len(b) |-> IF b[i] \in D THEN s[b[i]] ELSE << >>]
      BY <1>2
    <2> DEFINE M == Seq(D)
    <2>3. \A i \in 1 .. Len(b) : (IF b[i] \in D THEN s[b[i]] ELSE << >>) \in M
      BY <2>1
    <2> HIDE DEF M
    <2>4. e \in Seq(M) /\ Len(e) = Len(b)
      BY <1>2, <2>2, <2>3, IsASeq
    <2> QED
      BY <2>4 DEF M
  <1>4. PICK t : t = FlattenSeq(e)
    OBVIOUS
  <1>5. t \in Seq(D) /\ \A x : x \in ToSet(t) <=> \E i \in 1 .. Len(b) : x \in ToSet(e[i])
    <2> HIDE DEF e
    <2> QED
      BY <1>3, <1>4, FlattenIs
  <1>6. \A i \in 1 .. Len(b) : \A x :
           x \in ToSet(e[i]) <=> (b[i] \in D /\ x \in ToSet(s[b[i]]))
    <2>1. ToSet(<< >>) = {}
      BY DEF ToSet
    <2> SUFFICES ASSUME NEW i \in 1 .. Len(b)
                 PROVE  \A x : x \in ToSet(e[i]) <=> (b[i] \in D /\ x \in ToSet(s[b[i]]))
      OBVIOUS
    <2>2. CASE b[i] \in D
      <3>1. e[i] = s[b[i]]
        BY <1>2, <2>2
      <3> QED
        BY <2>2, <3>1, Zenon
    <2>3. CASE b[i] \notin D
      <3>1. e[i] = << >>
        BY <1>2, <2>3
      <3>2. ToSet(e[i]) = {}
        BY <2>1, <3>1
      <3> QED
        BY <2>3, <3>2
    <2> QED
      BY <2>2, <2>3
  <1>7. \A x : x \in ToSet(t) <=> \E c \in ToSet(b) \cap D : x \in ToSet(s[c])
    <2>1. ToSet(b) = {b[i] : i \in 1 .. Len(b)}
      BY <1>2 DEF ToSet
    <2> HIDE DEF e
    <2> SUFFICES ASSUME NEW x PROVE x \in ToSet(t) <=> \E c \in ToSet(b) \cap D : x \in ToSet(s[c])
      OBVIOUS
    <2>2. ASSUME x \in ToSet(t) PROVE \E c \in ToSet(b) \cap D : x \in ToSet(s[c])
      <3>1. PICK i \in 1 .. Len(b) : x \in ToSet(e[i])
        BY <1>5, <2>2
      <3>2. b[i] \in D
        BY <1>6, <3>1, Zenon
      <3>3. x \in ToSet(s[b[i]])
        BY <1>6, <3>1, Zenon
      <3>4. b[i] \in ToSet(b)
        BY <2>1
      <3> QED
        BY <3>2, <3>3, <3>4
    <2>3. ASSUME NEW c \in ToSet(b) \cap D, x \in ToSet(s[c]) PROVE x \in ToSet(t)
      <3>1. PICK i \in 1 .. Len(b) : c = b[i]
        BY <2>1
      <3>2. b[i] \in D /\ x \in ToSet(s[b[i]])
        BY <2>3, <3>1
      <3>3. x \in ToSet(e[i])
        BY <1>6, <3>2, Zenon
      <3> QED
        BY <1>5, <3>3
    <2> QED
      BY <2>2, <2>3
  <1>8. PICK r : r = <<m>> \o t
    OBVIOUS
  <1>9. r \in Seq(D) /\ \A x : x \in ToSet(r) <=> (x = m \/ x \in ToSet(t))
    <2>1. <<m>> \in Seq(D) /\ Len(<<m>>) = 1 /\ <<m>>[1] = m
      OBVIOUS
    <2>2. /\ r \in Seq(D) /\ Len(r) = 1 + Len(t) /\ Len(t) \in Nat
          /\ \A i \in 1 .. 1 + Len(t) : r[i] = IF i <= 1 THEN <<m>>[i] ELSE t[i - 1]
      BY <1>5, <1>8, <2>1, ConcatProperties, LenProperties
    <2>3. DOMAIN r = 1 .. 1 + Len(t) /\ DOMAIN t = 1 .. Len(t)
      BY <1>5, <2>2, LenProperties
    <2>4. 1 \in 1 .. 1 + Len(t) /\ r[1] = m
      BY SMTT(30), <2>1, <2>2
    <2>5. ASSUME NEW i \in 1 .. 1 + Len(t), i # 1 PROVE i - 1 \in 1 .. Len(t) /\ r[i] = t[i - 1]
      BY <2>2, <2>5
    <2>6. ASSUME NEW j \in 1 .. Len(t) PROVE j + 1 \in 1 .. 1 + Len(t) /\ r[j + 1] = t[j]
      <3>1. j + 1 \in 1 .. 1 + Len(t) /\ ~(j + 1 <= 1) /\ j + 1 - 1 = j
        BY <2>2
      <3> QED
        BY <2>2, <3>1
    <2> SUFFICES ASSUME NEW x PROVE x \in ToSet(r) <=> (x = m \/ x \in ToSet(t))
      BY <2>2
    <2>7. ASSUME x \in ToSet(r) PROVE x = m \/ x \in ToSet(t)
      <3>1. PICK i \in 1 .. 1 + Len(t) : x = r[i]
        BY <2>3, <2>7 DEF ToSet
      <3> QED
        BY <2>3, <2>4, <2>5, <3>1 DEF ToSet
    <2>8. ASSUME x = m PROVE x \in ToSet(r)
      BY <2>3, <2>4, <2>8 DEF ToSet
    <2>9. ASSUME x \in ToSet(t) PROVE x \in ToSet(r)
      BY <2>3, <2>6, <2>9 DEF ToSet
    <2> QED
      BY <2>7, <2>8, <2>9
  <1>10. Below(nodes, s, m) = r
    BY <1>1, <1>4, <1>8 DEF Below
  <1>11. Gathers(ToSet(r), m, b, s, D)
    BY <1>7, <1>9 DEF Gathers
  <1> QED
    BY <1>1, <1>9, <1>10, <1>11

(* The sequences v[d][n] visited from n down to depth d.                     *)
Visits(nodes, v) ==
    /\ v \in [0 .. Cardinality(DOMAIN nodes) -> [DOMAIN nodes -> Seq(DOMAIN nodes)]]
    /\ \A n \in DOMAIN nodes : v[0][n] = <<n>>
    /\ \A d \in 1 .. Cardinality(DOMAIN nodes) : \A n \in DOMAIN nodes :
          v[d][n] = Below(nodes, v[d - 1], n)

(* The recursion of Subtree visits them.                                     *)
LEMMA SubtreeVisits ==
    ASSUME NEW nodes, Cardinality(DOMAIN nodes) \in Nat,
           \A n \in DOMAIN nodes : Sequential(nodes[n].children)
    PROVE  \E v : /\ Visits(nodes, v)
                  /\ \A n : Subtree(nodes, n) = v[Cardinality(DOMAIN nodes)][n]
  <1> DEFINE D == DOMAIN nodes
             N == Cardinality(D)
             S == [D -> Seq(D)]
             Made(g) == [d \in 0 .. N |-> [m \in D |->
                           IF d = 0 THEN <<m>>
                           ELSE <<m>> \o FlattenSeq([i \in DOMAIN nodes[m].children |->
                                  IF nodes[m].children[i] \in DOMAIN nodes
                                  THEN g[d - 1][nodes[m].children[i]] ELSE << >>])]]
             v == CHOOSE g : g = Made(g)
             base == [m \in D |-> <<m>>]
             rule == [p \in (1 .. N) \X S |-> [m \in D |-> Below(nodes, p[2], m)]]
  <1>1. \A n : Subtree(nodes, n) = v[N][n]
    BY Zenon DEF Subtree
  <1>2. \A g : Made(g) = [d \in 0 .. N |-> [m \in D |->
                             IF d = 0 THEN <<m>> ELSE Below(nodes, g[d - 1], m)]]
    BY DEF Below
  <1> HIDE DEF Made
  <1>3. base \in S
    OBVIOUS
  <1>4. StepsIn(N, S, rule)
    <2>1. ASSUME NEW p \in (1 .. N) \X S PROVE [m \in D |-> Below(nodes, p[2], m)] \in S
      <3>1. p[2] \in [D -> Seq(D)]
        OBVIOUS
      <3>2. \A m \in D : Below(nodes, p[2], m) \in Seq(D)
        BY <3>1, BelowIs
      <3> QED
        BY <3>2
    <2> HIDE DEF S
    <2>2. rule \in [(1 .. N) \X S -> S]
      BY <2>1
    <2> QED
      BY <2>2 DEF StepsIn
  <1>5. PICK g : MadeBy(N, S, base, rule, g)
    <2> HIDE DEF S, base, rule
    <2> QED
      BY <1>3, <1>4, RecursionExists
  <1>6. g \in [0 .. N -> S] /\ g[0] = base /\ \A d \in 1 .. N : g[d] = rule[<<d, g[d - 1]>>]
    BY <1>5 DEF MadeBy
  <1>7. \A d \in 1 .. N : g[d] = [m \in D |-> Below(nodes, g[d - 1], m)]
    <2> SUFFICES ASSUME NEW d \in 1 .. N PROVE g[d] = [m \in D |-> Below(nodes, g[d - 1], m)]
      OBVIOUS
    <2>1. d - 1 \in 0 .. N
      OBVIOUS
    <2>2. PICK q : q = g[d - 1]
      OBVIOUS
    <2>3. <<d, q>> \in (1 .. N) \X S
      <3> HIDE DEF S
      <3> QED
        BY <1>6, <2>1, <2>2
    <2>4. rule[<<d, q>>] = [m \in D |-> Below(nodes, q, m)]
      <3> HIDE DEF S
      <3> QED
        BY <2>3
    <2> QED
      BY <1>6, <2>2, <2>4
  <1> HIDE DEF S, rule
  <1>8. g = Made(g)
    <2>1. ASSUME NEW d \in 0 .. N
          PROVE  g[d] = [m \in D |-> IF d = 0 THEN <<m>> ELSE Below(nodes, g[d - 1], m)]
      <3>1. CASE d = 0
        BY <1>6, <3>1
      <3>2. CASE d # 0
        <4>1. d \in 1 .. N
          BY <3>2
        <4> QED
          BY <1>7, <3>2, <4>1
      <3> QED
        BY <3>1, <3>2
    <2>2. g = [d \in 0 .. N |-> [m \in D |-> IF d = 0 THEN <<m>> ELSE Below(nodes, g[d - 1], m)]]
      <3>1. g = [d \in 0 .. N |-> g[d]]
        BY <1>6
      <3> QED
        BY <2>1, <3>1
    <2> QED
      BY <1>2, <2>2
  <1>9. v = Made(v)
    BY <1>8, Zenon
  <1> HIDE DEF v
  <1>10. v = [d \in 0 .. N |-> [m \in D |-> IF d = 0 THEN <<m>> ELSE Below(nodes, v[d - 1], m)]]
    <2>1. PICK w : w = Made(v)
      OBVIOUS
    <2>2. w = [d \in 0 .. N |-> [m \in D |-> IF d = 0 THEN <<m>> ELSE Below(nodes, v[d - 1], m)]]
      BY <1>2, <2>1
    <2> QED
      BY <1>9, <2>1, <2>2
  <1>11. /\ \A m \in D : v[0][m] = <<m>>
         /\ \A d \in 1 .. N : \A m \in D : v[d][m] = Below(nodes, v[d - 1], m)
         /\ v[0] = base
         /\ \A d \in 1 .. N : v[d] = [m \in D |-> Below(nodes, v[d - 1], m)]
         /\ DOMAIN v = 0 .. N
    <2>1. PICK w : w = v
      OBVIOUS
    <2>2. \A d \in 0 .. N : v[d] = [m \in D |-> IF d = 0 THEN <<m>> ELSE Below(nodes, w[d - 1], m)]
      BY <1>10, <2>1
    <2>3. 0 \in 0 .. N /\ \A d \in 1 .. N : d \in 0 .. N /\ d # 0
      OBVIOUS
    <2>4. v[0] = base
      BY <2>2, <2>3
    <2>5. ASSUME NEW d \in 1 .. N PROVE v[d] = [m \in D |-> Below(nodes, v[d - 1], m)]
      BY <2>1, <2>2, <2>3
    <2>6. DOMAIN v = 0 .. N
      BY <1>10
    <2> QED
      BY <2>4, <2>5, <2>6
  <1> DEFINE P == {d \in 0 .. N : v[d] \in S}
  <1>12. \A d \in 0 .. N : d \in P
    <2>1. 0 \in P
      BY <1>3, <1>11
    <2>2. ASSUME NEW d \in 1 .. N, d - 1 \in P PROVE d \in P
      <3>1. v[d - 1] \in [D -> Seq(D)]
        BY <2>2 DEF S
      <3>2. PICK q : q = v[d - 1]
        OBVIOUS
      <3>3. \A m \in D : Below(nodes, q, m) \in Seq(D)
        BY <3>1, <3>2, BelowIs
      <3>4. v[d] \in S
        BY <1>11, <3>2, <3>3 DEF S
      <3> QED
        BY <3>4
    <2> HIDE DEF P
    <2> QED
      BY <2>1, <2>2, UpTo
  <1>13. v \in [0 .. N -> S]
    <2>1. v = [d \in 0 .. N |-> v[d]]
      BY <1>10, <1>11
    <2>2. \A d \in 0 .. N : v[d] \in S
      BY <1>12
    <2> QED
      BY <2>1, <2>2
  <1>14. Visits(nodes, v)
    BY <1>11, <1>13 DEF Visits, S
  <1> QED
    BY <1>1, <1>14

(* What is visited from n holds n and lies below it, and what it stops at    *)
(* is as deep as the recursion went.                                         *)
VisitGood(nodes, h, W, n, d) ==
    /\ n \in W /\ W \subseteq DOMAIN nodes
    /\ \A m \in W : m # n => nodes[m].parent \in W /\ h[m] > h[n]
    /\ \A m \in W : h[m] < h[n] + d => \A k \in DOMAIN nodes : nodes[k].parent = m => k \in W

(* A recursion one deeper keeps that.                                        *)
LEMMA VisitDeepens ==
    ASSUME NEW root, NEW nodes, NEW h, TreeWith(root, nodes, h), NEW d \in Nat, d # 0,
           NEW W, \A c \in DOMAIN nodes : VisitGood(nodes, h, W[c], c, d - 1),
           NEW n \in DOMAIN nodes, NEW U,
           \A x : x \in U <=> (x = n \/ \E c \in ToSet(nodes[n].children) : x \in W[c])
    PROVE  VisitGood(nodes, h, U, n, d)
  <1> DEFINE D == DOMAIN nodes
  <1>1. /\ \A x \in D : h[x] \in Nat
        /\ \A c \in ToSet(nodes[n].children) : c \in D /\ nodes[c].parent = n
        /\ \A c \in D : nodes[c].parent = n => c \in ToSet(nodes[n].children)
    BY DEF TreeWith
  <1>2. \A c \in ToSet(nodes[n].children) : h[c] = h[n] + 1
    <2> SUFFICES ASSUME NEW c \in ToSet(nodes[n].children) PROVE h[c] = h[n] + 1
      OBVIOUS
    <2>1. c \in D /\ nodes[c].parent = n
      BY <1>1
    <2>2. c # root
      BY <2>1 DEF TreeWith
    <2> QED
      BY <2>1, <2>2 DEF TreeWith
  <1>3. n \in U /\ U \subseteq D
    BY <1>1 DEF VisitGood
  <1>4. ASSUME NEW m \in U, m # n PROVE nodes[m].parent \in U /\ h[m] > h[n]
    <2>1. PICK c \in ToSet(nodes[n].children) : m \in W[c]
      BY <1>4
    <2>2. VisitGood(nodes, h, W[c], c, d - 1) /\ c \in D /\ nodes[c].parent = n /\ h[c] = h[n] + 1
      BY <1>1, <1>2
    <2>3. CASE m = c
      BY <1>1, <1>3, <2>2, <2>3
    <2>4. CASE m # c
      <3>1. nodes[m].parent \in W[c] /\ h[m] > h[c]
        BY <2>1, <2>2, <2>4 DEF VisitGood
      <3>2. h[m] \in Nat /\ h[c] \in Nat /\ h[n] \in Nat
        BY <1>1, <1>3, <2>2
      <3> QED
        BY <2>2, <3>1, <3>2
    <2> QED
      BY <2>3, <2>4
  <1>5. ASSUME NEW m \in U, h[m] < h[n] + d, NEW k \in D, nodes[k].parent = m PROVE k \in U
    <2>1. CASE m = n
      <3>1. k \in ToSet(nodes[n].children)
        BY <1>1, <1>5, <2>1
      <3>2. k \in W[k]
        BY <1>5 DEF VisitGood
      <3> QED
        BY <3>1, <3>2
    <2>2. CASE m # n
      <3>1. PICK c \in ToSet(nodes[n].children) : m \in W[c]
        BY <2>2, <1>5
      <3>2. VisitGood(nodes, h, W[c], c, d - 1) /\ c \in D /\ h[c] = h[n] + 1
        BY <1>1, <1>2
      <3>3. h[m] < h[c] + (d - 1)
        <4>1. h[m] \in Nat /\ h[c] \in Nat /\ h[n] \in Nat
          BY <1>1, <1>3, <3>2
        <4> QED
          BY <1>5, <3>2, <4>1
      <3>4. k \in W[c]
        BY <1>5, <3>1, <3>2, <3>3 DEF VisitGood
      <3> QED
        BY <3>1, <3>4
    <2> QED
      BY <2>1, <2>2
  <1> QED
    BY <1>3, <1>4, <1>5 DEF VisitGood

(* The subtree at a node: the node and all that hangs below it.              *)
LEMMA SubtreeIs ==
    ASSUME NEW root, NEW nodes, NEW h, TreeWith(root, nodes, h), NEW n \in DOMAIN nodes
    PROVE  /\ Subtree(nodes, n) \in Seq(DOMAIN nodes)
           /\ n \in ToSet(Subtree(nodes, n)) /\ ToSet(Subtree(nodes, n)) \subseteq DOMAIN nodes
           /\ \A m \in ToSet(Subtree(nodes, n)) :
                 m # n => nodes[m].parent \in ToSet(Subtree(nodes, n)) /\ h[m] > h[n]
           /\ \A k \in DOMAIN nodes :
                 nodes[k].parent \in ToSet(Subtree(nodes, n)) => k \in ToSet(Subtree(nodes, n))
  <1> DEFINE D == DOMAIN nodes
             N == Cardinality(D)
             Deep(d, v) == \A m \in D : VisitGood(nodes, h, ToSet(v[d][m]), m, d)
  <1>1. N \in Nat /\ \A m \in D : h[m] \in Nat /\ h[m] < N
    BY HeightIsBounded
  <1>2. \A m \in D : /\ nodes[m].children \in Seq(D)
                     /\ ToSet(nodes[m].children) = {k \in D : nodes[k].parent = m}
    BY DEF TreeWith
  <1>3. PICK v : Visits(nodes, v) /\ \A m : Subtree(nodes, m) = v[N][m]
    BY <1>1, <1>2, SubtreeVisits DEF Sequential
  <1>4. \A d \in 0 .. N : v[d] \in [D -> Seq(D)]
    BY <1>3 DEF Visits
  <1> DEFINE P == {d \in 0 .. N : Deep(d, v)}
  <1>5. 0 \in P
    <2>1. ASSUME NEW m \in D PROVE VisitGood(nodes, h, ToSet(v[0][m]), m, 0)
      <3>1. v[0][m] = <<m>>
        BY <1>3 DEF Visits
      <3>2. ToSet(<<m>>) = {m}
        BY DEF ToSet
      <3>3. h[m] \in Nat /\ ~(h[m] < h[m] + 0)
        BY <1>1
      <3>4. VisitGood(nodes, h, {m}, m, 0)
        BY <3>3 DEF VisitGood
      <3> QED
        BY <3>1, <3>2, <3>4
    <2> QED
      BY <1>1, <2>1
  <1>6. ASSUME NEW d \in 1 .. N, d - 1 \in P PROVE d \in P
    <2> DEFINE W == [c \in D |-> ToSet(v[d - 1][c])]
    <2>1. \A c \in D : VisitGood(nodes, h, W[c], c, d - 1)
      BY <1>6
    <2>2. d \in Nat /\ d # 0 /\ d \in 0 .. N /\ d - 1 \in 0 .. N
      BY <1>1
    <2>3. PICK s : s = v[d - 1]
      OBVIOUS
    <2>4. s \in [D -> Seq(D)] /\ \A c \in D : W[c] = ToSet(s[c])
      BY <1>4, <2>2, <2>3
    <2> HIDE DEF W
    <2>5. ASSUME NEW m \in D PROVE VisitGood(nodes, h, ToSet(v[d][m]), m, d)
      <3>1. v[d][m] = Below(nodes, s, m)
        BY <1>3, <2>3 DEF Visits
      <3>2. PICK U : U = ToSet(v[d][m])
        OBVIOUS
      <3>3. \A x : x \in U <=> (x = m \/ \E c \in ToSet(nodes[m].children) : x \in ToSet(s[c]))
        <4>1. Sequential(nodes[m].children) /\ s \in [D -> Seq(D)]
          BY <1>2, <2>4 DEF Sequential
        <4>2. PICK E : E = D
          OBVIOUS
        <4>3. Gathers(ToSet(Below(nodes, s, m)), m, nodes[m].children, s, E)
          BY <4>1, <4>2, BelowIs
        <4>4. ToSet(nodes[m].children) \cap E = ToSet(nodes[m].children)
          BY <1>2, <4>2
        <4> QED
          BY <3>1, <3>2, <4>3, <4>4 DEF Gathers
      <3>4. \A c \in ToSet(nodes[m].children) : W[c] = ToSet(s[c])
        BY <1>2, <2>4
      <3>5. \A x : x \in U <=> (x = m \/ \E c \in ToSet(nodes[m].children) : x \in W[c])
        BY <3>3, <3>4
      <3>6. VisitGood(nodes, h, U, m, d)
        BY <2>1, <2>2, <3>5, VisitDeepens
      <3> QED
        BY <3>2, <3>6
    <2> QED
      BY <2>2, <2>5
  <1>7. Deep(N, v)
    <2>1. N \in 0 .. N
      BY <1>1
    <2> HIDE DEF Deep
    <2>2. N \in P
      <3> HIDE DEF P
      <3> QED
        BY <1>1, <1>5, <1>6, <2>1, UpTo
    <2> QED
      BY <2>2
  <1>8. PICK s : s = v[N][n]
    OBVIOUS
  <1>9. s \in Seq(D)
    <2>1. N \in 0 .. N
      BY <1>1
    <2> QED
      BY <1>4, <1>8, <2>1
  <1>10. VisitGood(nodes, h, ToSet(s), n, N)
    BY <1>7, <1>8
  <1>11. \A m \in ToSet(s) : h[m] < h[n] + N
    <2> SUFFICES ASSUME NEW m \in ToSet(s) PROVE h[m] < h[n] + N
      OBVIOUS
    <2>1. m \in D
      BY <1>10 DEF VisitGood
    <2>2. h[m] \in Nat /\ h[m] < N /\ h[n] \in Nat
      BY <1>1, <2>1
    <2> QED
      BY <1>1, <2>2
  <1>12. Subtree(nodes, n) = s
    BY <1>3, <1>8
  <1> QED
    BY <1>9, <1>10, <1>11, <1>12 DEF VisitGood

(* A tree is all its root has below it.                                      *)
LEMMA TreeIsWhole ==
    ASSUME NEW root, NEW nodes, NEW h, TreeWith(root, nodes, h)
    PROVE  /\ ToSet(Subtree(nodes, root)) = DOMAIN nodes
           /\ Subtree(nodes, root) \in Seq(DOMAIN nodes)
  <1> DEFINE D == DOMAIN nodes
             N == Cardinality(D)
             P == {k \in 0 .. N : \A m \in D : h[m] = k => m \in ToSet(Subtree(nodes, root))}
  <1>1. PICK S : S = ToSet(Subtree(nodes, root))
    OBVIOUS
  <1>2. root \in D /\ h[root] = 0
    BY DEF TreeWith
  <1>3. /\ root \in S /\ S \subseteq D /\ \A k \in D : nodes[k].parent \in S => k \in S
        /\ Subtree(nodes, root) \in Seq(DOMAIN nodes)
    BY <1>1, <1>2, SubtreeIs
  <1>4. N \in Nat /\ \A m \in D : h[m] \in Nat /\ h[m] < N
    BY <1>2, HeightIsBounded
  <1>5. \A m \in D : m # root => nodes[m].parent \in D /\ h[m] = h[nodes[m].parent] + 1
    BY DEF TreeWith
  <1>6. 0 \in P
    <2>1. ASSUME NEW m \in D, h[m] = 0 PROVE m \in S
      <3>1. m = root
        <4> SUFFICES ASSUME m # root PROVE FALSE
          OBVIOUS
        <4>1. PICK q : q = nodes[m].parent
          OBVIOUS
        <4>2. q \in D /\ h[m] = h[q] + 1 /\ h[q] \in Nat
          BY <1>4, <1>5, <4>1
        <4> QED
          BY <2>1, <4>2
      <3> QED
        BY <1>3, <3>1
    <2> QED
      BY <1>1, <1>4, <2>1
  <1>7. ASSUME NEW k \in 1 .. N, k - 1 \in P PROVE k \in P
    <2>1. ASSUME NEW m \in D, h[m] = k PROVE m \in S
      <3>1. m # root
        BY <1>2, <2>1
      <3>2. PICK q : q = nodes[m].parent
        OBVIOUS
      <3>3. q \in D /\ h[m] = h[q] + 1 /\ h[q] \in Nat
        BY <1>4, <1>5, <3>1, <3>2
      <3>4. h[q] = k - 1
        BY <2>1, <3>3
      <3>5. q \in S
        BY <1>1, <1>7, <3>3, <3>4
      <3> QED
        BY <1>3, <3>2, <3>5
    <2>2. k \in 0 .. N
      BY <1>4
    <2> QED
      BY <1>1, <2>1, <2>2
  <1>8. \A m \in D : m \in S
    <2> SUFFICES ASSUME NEW m \in D PROVE m \in S
      OBVIOUS
    <2>1. h[m] \in 0 .. N
      BY <1>4
    <2>2. \A k \in 0 .. N : k \in P
      <3> HIDE DEF P
      <3> QED
        BY <1>4, <1>6, <1>7, UpTo
    <2>3. h[m] \in P
      BY <2>1, <2>2
    <2> QED
      BY <1>1, <2>3
  <1> QED
    BY <1>1, <1>3, <1>8

(* What is left of a tree that is cut: the nodes that hang below no cut one, *)
(* under the parents they had.                                               *)
LEMMA TreeIsCut ==
    ASSUME NEW root, NEW nodes, NEW h, TreeWith(root, nodes, h), NEW C,
           root \notin C, \A m \in DOMAIN nodes : nodes[m].parent \in C => m \in C,
           NEW rest, DOMAIN rest = DOMAIN nodes \ C,
           \A m \in DOMAIN rest : rest[m].parent = nodes[m].parent,
           \A m \in DOMAIN rest :
              /\ rest[m].children \in Seq(DOMAIN nodes) /\ IsInjective(rest[m].children)
              /\ ToSet(rest[m].children) = ToSet(nodes[m].children) \ C
    PROVE  \E g : TreeWith(root, rest, g)
  <1> DEFINE D == DOMAIN nodes
             R == DOMAIN rest
             g == [m \in R |-> h[m]]
  <1>1. /\ IsFiniteSet(D) /\ None \notin D /\ root \in D /\ nodes[root].parent = None
        /\ h[root] = 0 /\ \A m \in D : h[m] \in Nat
        /\ \A m \in D : m # root => nodes[m].parent \in D /\ h[m] = h[nodes[m].parent] + 1
        /\ \A m \in D : ToSet(nodes[m].children) = {k \in D : nodes[k].parent = m}
    BY DEF TreeWith
  <1>2. IsFiniteSet(R) /\ None \notin R /\ root \in R /\ rest[root].parent = None
    <2>1. R \in SUBSET D
      OBVIOUS
    <2> QED
      BY <1>1, <2>1, FS_Subset
  <1>3. g \in [R -> Nat] /\ g[root] = 0
    BY <1>1, <1>2
  <1>4. ASSUME NEW m \in R \ {root} PROVE rest[m].parent \in R /\ g[m] = g[rest[m].parent] + 1
    <2>1. m \in D /\ m \notin C
      OBVIOUS
    <2>2. nodes[m].parent \in R /\ rest[m].parent = nodes[m].parent /\ h[m] = h[nodes[m].parent] + 1
      BY <1>1, <2>1
    <2> QED
      BY <2>2
  <1>5. ASSUME NEW m \in R
        PROVE  /\ rest[m].children \in Seq(R) /\ IsInjective(rest[m].children)
               /\ ToSet(rest[m].children) = {k \in R : rest[k].parent = m}
    <2>1. PICK b : b = rest[m].children
      OBVIOUS
    <2>2. b \in Seq(D) /\ IsInjective(b) /\ ToSet(b) = ToSet(nodes[m].children) \ C
      BY <2>1
    <2>3. ToSet(b) = {k \in R : rest[k].parent = m}
      BY <1>1, <2>2
    <2>4. b \in Seq(R)
      <3>1. Len(b) \in Nat /\ DOMAIN b = 1 .. Len(b) /\ b = [i \in 1 .. Len(b) |-> b[i]]
        BY <2>2, LenProperties
      <3>2. \A i \in 1 .. Len(b) : b[i] \in R
        BY <2>3, <3>1 DEF ToSet
      <3> QED
        BY <3>1, <3>2, IsASeq
    <2> QED
      BY <2>1, <2>2, <2>3, <2>4
  <1> HIDE DEF g
  <1>6. TreeWith(root, rest, g)
    BY <1>2, <1>3, <1>4, <1>5 DEF TreeWith
  <1> QED
    BY <1>6

(* What is left of a node's subtree and what is around it.                   *)
LEMMA SubtreeHangs ==
    ASSUME NEW root, NEW nodes, NEW h, TreeWith(root, nodes, h), NEW n \in DOMAIN nodes, n # root,
           NEW S, S = ToSet(Subtree(nodes, n))
    PROVE  /\ n \in S /\ S \subseteq DOMAIN nodes /\ root \notin S
           /\ \A m \in DOMAIN nodes : nodes[m].parent \in S => m \in S
           /\ nodes[n].parent \in DOMAIN nodes \ S
           /\ ToSet(nodes[nodes[n].parent].children) \ S = ToSet(nodes[nodes[n].parent].children) \ {n}
           /\ \A m \in DOMAIN nodes \ S : m # nodes[n].parent =>
                 ToSet(nodes[m].children) \ S = ToSet(nodes[m].children)
           /\ ToSet(nodes[n].children) \ (S \ {n}) = {}
           /\ \A m \in DOMAIN nodes \ S :
                 ToSet(nodes[m].children) \ (S \ {n}) = ToSet(nodes[m].children)
           /\ \A m \in DOMAIN nodes : nodes[m].parent \in S \ {n} => m \in S \ {n}
  <1> DEFINE D == DOMAIN nodes
  <1>1. /\ root \in D /\ h[root] = 0 /\ \A m \in D : h[m] \in Nat
        /\ \A m \in D : m # root => nodes[m].parent \in D /\ h[m] = h[nodes[m].parent] + 1
        /\ \A m \in D : ToSet(nodes[m].children) = {k \in D : nodes[k].parent = m}
        /\ nodes[root].parent \notin D
    BY DEF TreeWith
  <1>2. /\ n \in S /\ S \subseteq D
        /\ \A m \in S : m # n => nodes[m].parent \in S /\ h[m] > h[n]
        /\ \A k \in D : nodes[k].parent \in S => k \in S
    BY SubtreeIs
  <1>3. root \notin S
    BY <1>1, <1>2
  <1>4. PICK p : p = nodes[n].parent
    OBVIOUS
  <1>5. p \in D /\ h[n] = h[p] + 1 /\ h[n] \in Nat /\ h[p] \in Nat
    BY <1>1, <1>4
  <1>6. p # n /\ ~(h[p] > h[n])
    BY <1>5
  <1>7. p \notin S
    BY <1>2, <1>6
  <1>8. \A m \in D \ S : \A k \in S : k # n => nodes[k].parent # m
    BY <1>2
  <1>9. ToSet(nodes[p].children) \ S = ToSet(nodes[p].children) \ {n}
    BY <1>1, <1>2, <1>5, <1>7, <1>8
  <1>10. \A m \in D \ S : m # p => ToSet(nodes[m].children) \ S = ToSet(nodes[m].children)
    BY <1>1, <1>2, <1>4, <1>8
  <1>11. nodes[n].parent # n
    BY <1>4, <1>6
  <1>12. ToSet(nodes[n].children) \ (S \ {n}) = {}
    BY <1>1, <1>2, <1>11
  <1>13. \A m \in D \ S : ToSet(nodes[m].children) \ (S \ {n}) = ToSet(nodes[m].children)
    BY <1>1, <1>2, <1>8
  <1>14. ASSUME NEW m \in D, nodes[m].parent \in S \ {n} PROVE m \in S \ {n}
    BY <1>2, <1>4, <1>7, <1>14
  <1> QED
    BY <1>2, <1>3, <1>4, <1>5, <1>7, <1>9, <1>10, <1>12, <1>13, <1>14

(* A node more: the last child of its parent.                                *)
LEMMA TreeGrows ==
    ASSUME NEW root, NEW nodes, NEW h, TreeWith(root, nodes, h), NEW p \in DOMAIN nodes,
           NEW n, n \notin DOMAIN nodes, n # None,
           NEW grown, DOMAIN grown = DOMAIN nodes \cup {n},
           \A m \in DOMAIN nodes : grown[m].parent = nodes[m].parent,
           \A m \in DOMAIN nodes : grown[m].children = IF m = p THEN Append(nodes[m].children, n)
                                                       ELSE nodes[m].children,
           grown[n].parent = p, grown[n].children = << >>
    PROVE  \E g : TreeWith(root, grown, g)
  <1> DEFINE D == DOMAIN nodes
             G == D \cup {n}
             g == [m \in G |-> IF m = n THEN h[p] + 1 ELSE h[m]]
  <1>1. /\ IsFiniteSet(D) /\ None \notin D /\ root \in D /\ nodes[root].parent = None
        /\ h[root] = 0 /\ \A m \in D : h[m] \in Nat
        /\ \A m \in D : m # root => nodes[m].parent \in D /\ h[m] = h[nodes[m].parent] + 1
        /\ \A m \in D : /\ nodes[m].children \in Seq(D) /\ IsInjective(nodes[m].children)
                        /\ ToSet(nodes[m].children) = {k \in D : nodes[k].parent = m}
    BY DEF TreeWith
  <1>2. IsFiniteSet(G) /\ None \notin G /\ root \in G /\ grown[root].parent = None
    BY <1>1, FS_AddElement
  <1>3. g \in [G -> Nat] /\ g[root] = 0 /\ g[n] = h[p] + 1 /\ \A m \in D : g[m] = h[m]
    BY <1>1
  <1> HIDE DEF g
  <1>4. ASSUME NEW m \in G \ {root} PROVE grown[m].parent \in G /\ g[m] = g[grown[m].parent] + 1
    <2>1. CASE m = n
      BY <1>3, <2>1
    <2>2. CASE m \in D
      <3>1. PICK q : q = nodes[m].parent
        OBVIOUS
      <3>2. q \in D /\ h[m] = h[q] + 1 /\ grown[m].parent = q
        BY <1>1, <2>2, <3>1
      <3>3. g[m] = h[m] /\ g[q] = h[q]
        BY <1>3, <2>2, <3>2
      <3> QED
        BY <3>2, <3>3
    <2> QED
      BY <2>1, <2>2
  <1>5. \A k \in D : nodes[k].parent # n
    BY <1>1
  <1>6. ASSUME NEW m \in G
        PROVE  /\ grown[m].children \in Seq(G) /\ IsInjective(grown[m].children)
               /\ ToSet(grown[m].children) = {k \in G : grown[k].parent = m}
    <2>1. CASE m = n
      <3>1. << >> \in Seq(G) /\ ToSet(<< >>) = {} /\ IsInjective(<< >>)
        BY DEF ToSet, IsInjective
      <3>2. {k \in G : grown[k].parent = n} = {}
        BY <1>5
      <3> QED
        BY <2>1, <3>1, <3>2
    <2>2. CASE m \in D /\ m # p
      <3>1. grown[m].children = nodes[m].children /\ grown[n].parent # m
        BY <2>2
      <3>2. nodes[m].children \in Seq(G)
        <4>1. D \subseteq G /\ nodes[m].children \in Seq(D)
          BY <1>1, <2>2
        <4> QED
          BY <4>1, SeqMonotonic
      <3>3. {k \in G : grown[k].parent = m} = {k \in D : nodes[k].parent = m}
        BY <3>1
      <3> QED
        BY <1>1, <2>2, <3>1, <3>2, <3>3
    <2>3. CASE m = p
      <3>1. PICK b : b = nodes[p].children
        OBVIOUS
      <3>2. b \in Seq(D) /\ IsInjective(b) /\ ToSet(b) = {k \in D : nodes[k].parent = p}
        BY <1>1, <3>1
      <3>3. b \in Seq(G) /\ n \in G
        <4>1. D \subseteq G
          OBVIOUS
        <4> QED
          BY <3>2, <4>1, SeqMonotonic
      <3>4. PICK c : c = Append(b, n)
        OBVIOUS
      <3> HIDE DEF G
      <3>5. /\ c \in Seq(G) /\ Len(c) = Len(b) + 1 /\ c[Len(b) + 1] = n /\ Len(b) \in Nat
            /\ \A i \in 1 .. Len(b) : c[i] = b[i]
        BY <3>3, <3>4, AppendProperties, LenProperties
      <3>6. DOMAIN b = 1 .. Len(b) /\ DOMAIN c = 1 .. Len(b) + 1
        BY <3>3, <3>5, LenProperties
      <3>7. \A i : i \in 1 .. Len(b) + 1 <=> (i \in 1 .. Len(b) \/ i = Len(b) + 1)
        BY <3>5
      <3>8. \A i \in 1 .. Len(b) : b[i] # n
        <4>1. n \notin ToSet(b)
          BY <3>2
        <4> QED
          BY <3>6, <4>1 DEF ToSet
      <3>9. IsInjective(c)
        <4> SUFFICES ASSUME NEW i \in 1 .. Len(b) + 1, NEW j \in 1 .. Len(b) + 1, c[i] = c[j] PROVE i = j
          BY <3>6 DEF IsInjective
        <4>1. CASE i \in 1 .. Len(b) /\ j \in 1 .. Len(b)
          BY <3>2, <3>5, <3>6, <4>1 DEF IsInjective
        <4> QED
          BY <3>5, <3>7, <3>8, <4>1
      <3>10. ToSet(c) = ToSet(b) \cup {n}
        BY <3>5, <3>6, <3>7 DEF ToSet
      <3>11. {k \in G : grown[k].parent = p} = {k \in D : nodes[k].parent = p} \cup {n}
        BY DEF G
      <3>12. grown[p].children = c
        BY <3>1, <3>4
      <3> QED
        BY <2>3, <3>2, <3>5, <3>9, <3>10, <3>11, <3>12
    <2> QED
      BY <2>1, <2>2, <2>3
  <1>7. TreeWith(root, grown, g)
    BY <1>2, <1>3, <1>4, <1>6 DEF TreeWith
  <1> QED
    BY <1>7

(* A tree of one node.                                                       *)
LEMMA TreeOfOne ==
    ASSUME NEW n, n # None, NEW nodes, DOMAIN nodes = {n}, nodes[n].parent = None,
           nodes[n].children = << >>
    PROVE  \E g : TreeWith(n, nodes, g)
  <1> DEFINE g == [m \in {n} |-> 0]
  <1>1. IsFiniteSet({n})
    BY FS_Singleton
  <1>2. << >> \in Seq({n}) /\ ToSet(<< >>) = {} /\ IsInjective(<< >>)
    BY DEF ToSet, IsInjective
  <1>3. g \in [{n} -> Nat] /\ g[n] = 0
    OBVIOUS
  <1> HIDE DEF g
  <1>4. TreeWith(n, nodes, g)
    BY <1>1, <1>2, <1>3 DEF TreeWith
  <1> QED
    BY <1>4

(* A tree whose nodes say their parent and children.                         *)
TreeGood(root, nodes) ==
    /\ \E h : TreeWith(root, nodes, h)
    /\ \A n \in DOMAIN nodes : "parent" \in DOMAIN nodes[n] /\ "children" \in DOMAIN nodes[n]

(* A document without a root is empty.                                       *)
DocumentGood(root, nodes) ==
    IF root = None THEN nodes = << >> ELSE TreeGood(root, nodes)

(* That is what Whole says.                                                  *)
LEMMA GoodIsWhole ==
    ASSUME NEW root, NEW nodes, DocumentGood(root, nodes)
    PROVE  Whole(root, nodes)
  <1>1. CASE root = None
    BY <1>1 DEF DocumentGood, Whole
  <1>2. CASE root # None
    <2>1. PICK h : TreeWith(root, nodes, h)
      BY <1>2 DEF DocumentGood, TreeGood
    <2>2. ToSet(Subtree(nodes, root)) = DOMAIN nodes
      BY <2>1, TreeIsWhole
    <2> QED
      BY <1>2, <2>1, <2>2 DEF TreeWith, Whole
  <1> QED
    BY <1>1, <1>2

(* A root.                                                                   *)
LEMMA RootInserted ==
    ASSUME NEW n, n # None, NEW node, node.parent = None, node.children = << >>,
           "parent" \in DOMAIN node, "children" \in DOMAIN node
    PROVE  TreeGood(n, Put(<< >>, n, node))
  <1> DEFINE f == Put(<< >>, n, node)
  <1>1. DOMAIN f = {n} /\ f[n] = node
    BY DEF Put
  <1> HIDE DEF f
  <1>2. \E g : TreeWith(n, f, g)
    BY <1>1, TreeOfOne
  <1>3. TreeGood(n, f)
    BY <1>1, <1>2 DEF TreeGood
  <1> QED
    BY <1>3 DEF f

(* A node below another one.                                                 *)
LEMMA ChildInserted ==
    ASSUME NEW root, NEW nodes, TreeGood(root, nodes), NEW p \in DOMAIN nodes,
           NEW n, n # None, n \notin DOMAIN nodes, NEW node, node.parent = p, node.children = << >>,
           "parent" \in DOMAIN node, "children" \in DOMAIN node
    PROVE  TreeGood(root, Put([nodes EXCEPT ![p].children = Append(@, n)], n, node))
  <1> DEFINE linked == [nodes EXCEPT ![p].children = Append(@, n)]
             f == Put(linked, n, node)
  <1>1. PICK h : TreeWith(root, nodes, h)
    BY DEF TreeGood
  <1>2. /\ DOMAIN linked = DOMAIN nodes
        /\ \A m \in DOMAIN nodes : m # p => linked[m] = nodes[m]
        /\ linked[p] = [nodes[p] EXCEPT !.children = Append(@, n)]
    OBVIOUS
  <1>3. /\ DOMAIN linked[p] = DOMAIN nodes[p] /\ linked[p].parent = nodes[p].parent
        /\ linked[p].children = Append(nodes[p].children, n)
    BY <1>2 DEF TreeGood
  <1> HIDE DEF linked
  <1>4. /\ DOMAIN f = DOMAIN nodes \cup {n} /\ f[n] = node
        /\ \A m \in DOMAIN nodes : f[m] = linked[m]
    BY <1>2 DEF Put
  <1> HIDE DEF f
  <1>5. \A m \in DOMAIN nodes :
           /\ f[m].parent = nodes[m].parent /\ DOMAIN f[m] = DOMAIN nodes[m]
           /\ f[m].children = IF m = p THEN Append(nodes[m].children, n) ELSE nodes[m].children
    <2> SUFFICES ASSUME NEW m \in DOMAIN nodes
                 PROVE  /\ f[m].parent = nodes[m].parent /\ DOMAIN f[m] = DOMAIN nodes[m]
                        /\ f[m].children = IF m = p THEN Append(nodes[m].children, n)
                                           ELSE nodes[m].children
      OBVIOUS
    <2>1. CASE m = p
      BY <1>3, <1>4, <2>1
    <2>2. CASE m # p
      BY <1>2, <1>4, <2>2
    <2> QED
      BY <2>1, <2>2
  <1>6. \E g : TreeWith(root, f, g)
    BY <1>1, <1>4, <1>5, TreeGrows
  <1>7. TreeGood(root, f)
    BY <1>4, <1>5, <1>6 DEF TreeGood
  <1> QED
    BY <1>7 DEF f, linked

(* A field of a node changes that does not say how it hangs.                 *)
LEMMA NodeChanged ==
    ASSUME NEW root, NEW nodes, TreeGood(root, nodes), NEW f, DOMAIN f = DOMAIN nodes,
           \A m \in DOMAIN nodes : /\ f[m].parent = nodes[m].parent /\ f[m].children = nodes[m].children
                                   /\ DOMAIN f[m] = DOMAIN nodes[m]
    PROVE  TreeGood(root, f)
  <1>1. PICK h : TreeWith(root, nodes, h)
    BY DEF TreeGood
  <1>2. DOMAIN f = DOMAIN nodes \ {}
    OBVIOUS
  <1>3. \A m \in DOMAIN f :
           /\ f[m].children \in Seq(DOMAIN nodes) /\ IsInjective(f[m].children)
           /\ ToSet(f[m].children) = ToSet(nodes[m].children) \ {}
    BY <1>1 DEF TreeWith
  <1>4. \E g : TreeWith(root, f, g)
    <2>1. PICK C : C = {}
      OBVIOUS
    <2>2. /\ root \notin C /\ \A m \in DOMAIN nodes : nodes[m].parent \in C => m \in C
          /\ DOMAIN f = DOMAIN nodes \ C
          /\ \A m \in DOMAIN f : f[m].parent = nodes[m].parent
      BY <2>1
    <2>3. \A m \in DOMAIN f :
           /\ f[m].children \in Seq(DOMAIN nodes) /\ IsInjective(f[m].children)
           /\ ToSet(f[m].children) = ToSet(nodes[m].children) \ C
      BY <1>3, <2>1
    <2> QED
      BY <1>1, <2>2, <2>3, TreeIsCut
  <1> QED
    BY <1>4 DEF TreeGood

(* A node goes with all below it, and its parent forgets it.                 *)
LEMMA SubtreeRemoved ==
    ASSUME NEW root, NEW nodes, TreeGood(root, nodes), NEW n \in DOMAIN nodes, n # root,
           NEW rest, rest = Without(nodes, {n} \cup collect_descendants(nodes, n)),
           NEW p, p = nodes[n].parent
    PROVE  p \in DOMAIN rest /\ TreeGood(root, [rest EXCEPT ![p].children = OthersThan(n, @)])
  <1> DEFINE D == DOMAIN nodes
             f == [rest EXCEPT ![p].children = OthersThan(n, @)]
  <1>1. PICK h : TreeWith(root, nodes, h)
    BY DEF TreeGood
  <1>2. PICK S : S = ToSet(Subtree(nodes, n))
    OBVIOUS
  <1>3. /\ n \in S /\ S \subseteq D /\ root \notin S
        /\ \A m \in D : nodes[m].parent \in S => m \in S
        /\ p \in D \ S
        /\ ToSet(nodes[p].children) \ S = ToSet(nodes[p].children) \ {n}
        /\ \A m \in D \ S : m # p => ToSet(nodes[m].children) \ S = ToSet(nodes[m].children)
    BY <1>1, <1>2, SubtreeHangs
  <1>4. DOMAIN rest = D \ S /\ \A m \in D \ S : rest[m] = nodes[m]
    <2>1. {n} \cup collect_descendants(nodes, n) = S
      BY <1>2, <1>3 DEF collect_descendants
    <2> QED
      BY <2>1 DEF Without
  <1>5. /\ DOMAIN f = D \ S /\ \A m \in D \ S : m # p => f[m] = nodes[m]
        /\ f[p] = [nodes[p] EXCEPT !.children = OthersThan(n, @)]
    BY <1>3, <1>4
  <1>6. /\ DOMAIN f[p] = DOMAIN nodes[p] /\ f[p].parent = nodes[p].parent
        /\ f[p].children = OthersThan(n, nodes[p].children)
    BY <1>3, <1>5 DEF TreeGood
  <1> HIDE DEF f
  <1>7. \A m \in D : nodes[m].children \in Seq(D) /\ IsInjective(nodes[m].children)
    BY <1>1 DEF TreeWith
  <1>8. /\ f[p].children \in Seq(D) /\ IsInjective(f[p].children)
        /\ ToSet(f[p].children) = ToSet(nodes[p].children) \ {n}
    <2>1. PICK b : b = nodes[p].children
      OBVIOUS
    <2>2. b \in Seq(D) /\ IsInjective(b)
      BY <1>3, <1>7, <2>1
    <2>3. OthersThan(n, b) \in Seq(D) /\ IsInjective(OthersThan(n, b)) /\ ToSet(OthersThan(n, b)) = ToSet(b) \ {n}
      BY <2>2, OthersThanIs
    <2> QED
      BY <1>6, <2>1, <2>3
  <1>9. \A m \in DOMAIN f :
           /\ f[m].children \in Seq(DOMAIN nodes) /\ IsInjective(f[m].children)
           /\ ToSet(f[m].children) = ToSet(nodes[m].children) \ S
    BY <1>3, <1>5, <1>7, <1>8
  <1>10. \A m \in DOMAIN f : f[m].parent = nodes[m].parent /\ DOMAIN f[m] = DOMAIN nodes[m]
    BY <1>5, <1>6
  <1>11. \E g : TreeWith(root, f, g)
    <2>1. /\ root \notin S /\ \A m \in DOMAIN nodes : nodes[m].parent \in S => m \in S
          /\ DOMAIN f = DOMAIN nodes \ S
      BY <1>3, <1>5
    <2>2. \A m \in DOMAIN f : f[m].parent = nodes[m].parent
      BY <1>10
    <2> HIDE DEF D
    <2> QED
      BY <1>1, <1>9, <2>1, <2>2, TreeIsCut
  <1>12. TreeGood(root, f)
    BY <1>5, <1>10, <1>11 DEF TreeGood
  <1>13. p \in DOMAIN rest
    BY <1>3, <1>4
  <1> QED
    BY <1>12, <1>13 DEF f

(* With the root everything goes.                                            *)
LEMMA RootRemoved ==
    ASSUME NEW root, NEW nodes, TreeGood(root, nodes)
    PROVE  /\ nodes[root].parent = None
           /\ Without(nodes, {root} \cup collect_descendants(nodes, root)) = << >>
  <1>1. PICK h : TreeWith(root, nodes, h)
    BY DEF TreeGood
  <1>2. {root} \cup collect_descendants(nodes, root) = DOMAIN nodes
    <2>1. root \in DOMAIN nodes /\ ToSet(Subtree(nodes, root)) = DOMAIN nodes
      BY <1>1, TreeIsWhole DEF TreeWith
    <2> QED
      BY <2>1 DEF collect_descendants
  <1>3. PICK f : f = Without(nodes, DOMAIN nodes)
    OBVIOUS
  <1>4. f = << >>
    <2>1. f = [i \in {} |-> nodes[i]]
      BY <1>3 DEF Without
    <2>2. 1 .. 0 = {}
      OBVIOUS
    <2>3. f = [i \in 1 .. 0 |-> f[i]]
      BY <2>1, <2>2
    <2>4. f \in Seq({}) /\ Len(f) = 0
      BY <2>3, IsASeq
    <2> QED
      BY <2>4, EmptySeq
  <1> QED
    BY <1>1, <1>2, <1>3, <1>4 DEF TreeWith

(* The nodes f without what was below n, which has no children left.         *)
Hollowed(nodes, n, f) ==
    /\ DOMAIN f = DOMAIN nodes \ collect_descendants(nodes, n)
    /\ \A m \in DOMAIN f : m # n => f[m] = nodes[m]
    /\ f[n].parent = nodes[n].parent /\ f[n].children = << >> /\ DOMAIN f[n] = DOMAIN nodes[n]

(* What is below a node goes, the node stays (FrameTree::navigate).          *)
LEMMA DescendantsRemoved ==
    ASSUME NEW root, NEW nodes, TreeGood(root, nodes), NEW n \in DOMAIN nodes,
           NEW f, Hollowed(nodes, n, f)
    PROVE  TreeGood(root, f)
  <1> DEFINE D == DOMAIN nodes
  <1>0. /\ DOMAIN f = DOMAIN nodes \ collect_descendants(nodes, n)
        /\ \A m \in DOMAIN f : m # n => f[m] = nodes[m]
        /\ f[n].parent = nodes[n].parent /\ f[n].children = << >> /\ DOMAIN f[n] = DOMAIN nodes[n]
    BY DEF Hollowed
  <1>1. PICK h : TreeWith(root, nodes, h)
    BY DEF TreeGood
  <1>2. PICK S : S = ToSet(Subtree(nodes, n))
    OBVIOUS
  <1>3. DOMAIN f = D \ (S \ {n})
    BY <1>0, <1>2 DEF collect_descendants
  <1>4. \A m \in DOMAIN f : "parent" \in DOMAIN f[m] /\ "children" \in DOMAIN f[m]
    BY <1>0 DEF TreeGood
  <1>5. CASE n = root
    <2>1. S = D /\ root \in D /\ nodes[root].parent = None /\ None \notin D
      BY <1>1, <1>2, <1>5, TreeIsWhole DEF TreeWith
    <2>2. DOMAIN f = {root} /\ root # None
      BY <1>3, <1>5, <2>1
    <2>3. \E g : TreeWith(root, f, g)
      BY <1>0, <1>5, <2>1, <2>2, TreeOfOne
    <2> QED
      BY <1>4, <2>3 DEF TreeGood
  <1>6. CASE n # root
    <2> DEFINE C == S \ {n}
    <2>1. /\ n \in S /\ S \subseteq D /\ root \notin S
          /\ ToSet(nodes[n].children) \ C = {}
          /\ \A m \in D \ S : ToSet(nodes[m].children) \ C = ToSet(nodes[m].children)
          /\ \A m \in D : nodes[m].parent \in C => m \in C
      BY <1>1, <1>2, <1>6, SubtreeHangs
    <2>2. \A m \in DOMAIN f : m = n \/ (m \in D \ S /\ m # n)
      BY <1>3, <2>1
    <2>3. \A m \in DOMAIN f : f[m].parent = nodes[m].parent
      BY <1>0
    <2>4. << >> \in Seq(D) /\ IsInjective(<< >>) /\ ToSet(<< >>) = {}
      BY DEF IsInjective, ToSet
    <2>5. \A m \in D : nodes[m].children \in Seq(D) /\ IsInjective(nodes[m].children)
      BY <1>1 DEF TreeWith
    <2>6. \A m \in DOMAIN f :
             /\ f[m].children \in Seq(DOMAIN nodes) /\ IsInjective(f[m].children)
             /\ ToSet(f[m].children) = ToSet(nodes[m].children) \ C
      BY <1>0, <2>1, <2>2, <2>4, <2>5
    <2>7. root \notin C /\ DOMAIN f = DOMAIN nodes \ C
      BY <1>3, <2>1
    <2>8. \A m \in DOMAIN nodes : nodes[m].parent \in C => m \in C
      BY <2>1
    <2> HIDE DEF C, D
    <2>9. \E g : TreeWith(root, f, g)
      BY <1>1, <2>3, <2>6, <2>7, <2>8, TreeIsCut
    <2> QED
      BY <1>4, <2>9 DEF TreeGood
  <1> QED
    BY <1>5, <1>6

(* What is visited from a node is there, and it is.                          *)
LEMMA SubtreeHolds ==
    ASSUME NEW nodes, IsFiniteSet(DOMAIN nodes),
           \A m \in DOMAIN nodes : Sequential(nodes[m].children), NEW n \in DOMAIN nodes
    PROVE  /\ Subtree(nodes, n) \in Seq(DOMAIN nodes)
           /\ n \in ToSet(Subtree(nodes, n)) /\ ToSet(Subtree(nodes, n)) \subseteq DOMAIN nodes
  <1>1. PICK D, N : D = DOMAIN nodes /\ N = Cardinality(D)
    OBVIOUS
  <1>2. N \in Nat
    BY <1>1, FS_CardinalityType
  <1>3. PICK v : Visits(nodes, v) /\ \A m : Subtree(nodes, m) = v[N][m]
    BY <1>1, <1>2, SubtreeVisits
  <1>4. \A d \in 0 .. N : v[d] \in [D -> Seq(D)]
    BY <1>1, <1>3 DEF Visits
  <1>5. PICK s : s = v[N][n]
    OBVIOUS
  <1>6. s \in Seq(D)
    <2>1. N \in 0 .. N
      BY <1>2
    <2> QED
      BY <1>1, <1>4, <1>5, <2>1
  <1>7. n \in ToSet(s)
    <2>1. CASE N = 0
      <3>1. s = <<n>>
        BY <1>3, <1>5, <2>1 DEF Visits
      <3> QED
        BY <3>1 DEF ToSet
    <2>2. CASE N # 0
      <3>1. N \in 1 .. N /\ N - 1 \in 0 .. N
        BY <1>2, <2>2
      <3>2. PICK q : q = v[N - 1]
        OBVIOUS
      <3>3. q \in [D -> Seq(D)] /\ s = Below(nodes, q, n)
        BY <1>1, <1>3, <1>4, <1>5, <3>1, <3>2 DEF Visits
      <3>4. Gathers(ToSet(Below(nodes, q, n)), n, nodes[n].children, q, D)
        BY <1>1, <3>3, BelowIs
      <3> QED
        BY <3>3, <3>4 DEF Gathers
    <2> QED
      BY <2>1, <2>2
  <1>8. ToSet(s) \subseteq D
    <2>1. DOMAIN s = 1 .. Len(s) /\ \A i \in 1 .. Len(s) : s[i] \in D
      BY <1>6, LenProperties, ElementOfSeq
    <2> QED
      BY <2>1 DEF ToSet
  <1> QED
    BY <1>1, <1>3, <1>5, <1>6, <1>7, <1>8

(* Every node but the root has a parent there that lists it, and that is     *)
(* nearer to the root by h; what else a node lists is open.                  *)
RootedWith(root, nodes, h) ==
    /\ IsFiniteSet(DOMAIN nodes) /\ None \notin DOMAIN nodes
    /\ root \in DOMAIN nodes /\ nodes[root].parent = None
    /\ h \in [DOMAIN nodes -> Nat]
    /\ \A n \in DOMAIN nodes \ {root} :
          /\ nodes[n].parent \in DOMAIN nodes /\ h[nodes[n].parent] < h[n]
          /\ n \in ToSet(nodes[nodes[n].parent].children)
    /\ \A n \in DOMAIN nodes : Sequential(nodes[n].children)

RootedGood(root, nodes) ==
    IF root = None THEN nodes = << >>
    ELSE /\ \E h : RootedWith(root, nodes, h)
         /\ \A n \in DOMAIN nodes : "parent" \in DOMAIN nodes[n] /\ "children" \in DOMAIN nodes[n]

(* That is what Rooted says.                                                 *)
LEMMA GoodIsRooted ==
    ASSUME NEW root, NEW nodes, RootedGood(root, nodes)
    PROVE  Rooted(root, nodes)
  <1>1. CASE root = None
    <2>1. nodes = << >> /\ DOMAIN nodes = {}
      BY <1>1 DEF RootedGood
    <2> QED
      BY <1>1, <2>1 DEF Rooted
  <1>2. CASE root # None
    BY <1>2 DEF RootedGood, RootedWith, Rooted
  <1> QED
    BY <1>1, <1>2

(* The root with all that is listed below it is everything.                  *)
LEMMA RootReaches ==
    ASSUME NEW root, NEW nodes, NEW h, RootedWith(root, nodes, h), NEW V, root \in V,
           \A m \in V : \A c \in Present(nodes, m) : c \in V
    PROVE  DOMAIN nodes \subseteq V
  <1> DEFINE D == DOMAIN nodes
             T == {h[m] : m \in D \ V}
  <1> SUFFICES ASSUME T # {} PROVE FALSE
    OBVIOUS
  <1>1. T \subseteq Nat
    BY DEF RootedWith
  <1>2. PICK t \in T : \A u \in T : t <= u
    <2> HIDE DEF T
    <2> QED
      BY <1>1, LeastNumber
  <1>3. PICK m \in D \ V : t = h[m]
    OBVIOUS
  <1>4. PICK q : q = nodes[m].parent
    OBVIOUS
  <1>5. m # root
    BY <1>3
  <1>6. q \in D /\ h[q] < h[m] /\ m \in ToSet(nodes[q].children) /\ h[q] \in Nat /\ h[m] \in Nat
    BY <1>4, <1>5 DEF RootedWith
  <1>7. q \in V
    <2> SUFFICES ASSUME q \notin V PROVE FALSE
      OBVIOUS
    <2>1. h[q] \in T
      BY <1>6
    <2>2. h[m] <= h[q]
      BY <1>2, <1>3, <2>1
    <2> QED
      BY <1>6, <2>2
  <1>8. m \in Present(nodes, q)
    BY <1>6 DEF Present
  <1> QED
    BY <1>3, <1>7, <1>8

(* A root with the children it brings.                                       *)
LEMMA RootedBegins ==
    ASSUME NEW n, n # None, NEW node, node.parent = None, Sequential(node.children),
           "parent" \in DOMAIN node, "children" \in DOMAIN node
    PROVE  RootedGood(n, Put(<< >>, n, node))
  <1>1. PICK f : f = Put(<< >>, n, node)
    OBVIOUS
  <1>2. DOMAIN f = {n} /\ f[n] = node
    BY <1>1 DEF Put
  <1>3. PICK h : h = [m \in {n} |-> 0]
    OBVIOUS
  <1>4. h \in [{n} -> Nat] /\ IsFiniteSet({n})
    BY <1>3, FS_Singleton
  <1>5. RootedWith(n, f, h)
    BY <1>2, <1>4 DEF RootedWith
  <1> QED
    BY <1>1, <1>2, <1>5 DEF RootedGood

(* Another node with the children it brings.                                 *)
LEMMA RootedGrows ==
    ASSUME NEW root, root # None, NEW nodes, RootedGood(root, nodes), NEW p \in DOMAIN nodes,
           NEW n, n # None, n \notin DOMAIN nodes, NEW node, node.parent = p,
           Sequential(node.children), "parent" \in DOMAIN node, "children" \in DOMAIN node
    PROVE  RootedGood(root, Put([nodes EXCEPT ![p].children = Append(@, n)], n, node))
  <1> DEFINE D == DOMAIN nodes
             G == D \cup {n}
  <1>1. PICK h : RootedWith(root, nodes, h)
    BY DEF RootedGood
  <1>2. PICK linked, f : /\ linked = [nodes EXCEPT ![p].children = Append(@, n)]
                         /\ f = Put(linked, n, node)
    OBVIOUS
  <1>3. /\ DOMAIN linked = D /\ \A m \in D : m # p => linked[m] = nodes[m]
        /\ linked[p] = [nodes[p] EXCEPT !.children = Append(@, n)]
    BY <1>2
  <1>4. /\ DOMAIN linked[p] = DOMAIN nodes[p] /\ linked[p].parent = nodes[p].parent
        /\ linked[p].children = Append(nodes[p].children, n)
    BY <1>3 DEF RootedGood
  <1>5. DOMAIN f = G /\ f[n] = node /\ \A m \in D : f[m] = linked[m]
    BY <1>2, <1>3 DEF Put
  <1>6. \A m \in D : f[m].parent = nodes[m].parent /\ DOMAIN f[m] = DOMAIN nodes[m]
    BY <1>3, <1>4, <1>5
  <1>7. PICK b, c : b = nodes[p].children /\ c = Append(b, n)
    OBVIOUS
  <1>8. Sequential(c) /\ \A x : x \in ToSet(c) <=> (x \in ToSet(b) \/ x = n)
    <2>1. PICK S : b \in Seq(S)
      BY <1>1, <1>7 DEF RootedWith, Sequential
    <2>2. PICK M : M = S \cup {n}
      OBVIOUS
    <2>3. b \in Seq(M) /\ n \in M
      BY <2>1, <2>2, SeqMonotonic
    <2>4. /\ c \in Seq(M) /\ Len(c) = Len(b) + 1 /\ c[Len(b) + 1] = n /\ Len(b) \in Nat
          /\ \A i \in 1 .. Len(b) : c[i] = b[i]
      BY <1>7, <2>3, AppendProperties, LenProperties
    <2>5. DOMAIN b = 1 .. Len(b) /\ DOMAIN c = 1 .. Len(b) + 1
      BY <2>3, <2>4, LenProperties
    <2>6. \A i : i \in 1 .. Len(b) + 1 <=> (i \in 1 .. Len(b) \/ i = Len(b) + 1)
      BY <2>4
    <2> QED
      BY <2>4, <2>5, <2>6 DEF ToSet, Sequential
  <1>9. f[p].children = c /\ \A m \in D : m # p => f[m].children = nodes[m].children
    <2>1. f[p].children = c
      BY <1>4, <1>5, <1>7
    <2>2. \A m \in D : m # p => f[m] = nodes[m]
      BY <1>3, <1>5
    <2> QED
      BY <2>1, <2>2
  <1>10. PICK g : g = [m \in G |-> IF m = n THEN h[p] + 1 ELSE h[m]]
    OBVIOUS
  <1>11. /\ h \in [D -> Nat] /\ h[p] \in Nat /\ root \in D /\ nodes[root].parent = None
         /\ IsFiniteSet(D) /\ None \notin D
    BY <1>1 DEF RootedWith
  <1>12. g \in [G -> Nat] /\ g[n] = h[p] + 1 /\ \A m \in D : g[m] = h[m]
    BY <1>10, <1>11
  <1>13. ASSUME NEW m \in G \ {root}
         PROVE  f[m].parent \in G /\ g[f[m].parent] < g[m] /\ m \in ToSet(f[f[m].parent].children)
    <2>1. CASE m = n
      BY <1>5, <1>8, <1>9, <1>11, <1>12, <2>1
    <2>2. CASE m # n
      <3>1. PICK q : q = nodes[m].parent
        OBVIOUS
      <3>2. m \in D /\ q \in D /\ h[q] < h[m] /\ m \in ToSet(nodes[q].children) /\ f[m].parent = q
        BY <1>1, <1>6, <2>2, <3>1 DEF RootedWith
      <3>3. g[q] < g[m]
        BY <1>12, <3>2
      <3>4. m \in ToSet(f[q].children)
        BY <1>7, <1>8, <1>9, <3>2
      <3> QED
        BY <3>2, <3>3, <3>4
    <2> QED
      BY <2>1, <2>2
  <1>14. \A m \in G : Sequential(f[m].children)
    BY <1>1, <1>5, <1>8, <1>9 DEF RootedWith
  <1>15. IsFiniteSet(G) /\ None \notin G /\ root \in G /\ f[root].parent = None
    BY <1>6, <1>11, FS_AddElement
  <1>16. RootedWith(root, f, g)
    BY <1>5, <1>12, <1>13, <1>14, <1>15 DEF RootedWith
  <1>17. \A m \in DOMAIN f : "parent" \in DOMAIN f[m] /\ "children" \in DOMAIN f[m]
    BY <1>5, <1>6 DEF RootedGood
  <1> QED
    BY <1>2, <1>16, <1>17 DEF RootedGood

(* A field of a node changes that does not say how it hangs.                 *)
LEMMA RootedChanges ==
    ASSUME NEW root, root # None, NEW nodes, RootedGood(root, nodes), NEW f, DOMAIN f = DOMAIN nodes,
           \A m \in DOMAIN nodes : /\ f[m].parent = nodes[m].parent /\ f[m].children = nodes[m].children
                                   /\ DOMAIN f[m] = DOMAIN nodes[m]
    PROVE  RootedGood(root, f)
  <1>1. PICK h : RootedWith(root, nodes, h)
    BY DEF RootedGood
  <1>2. RootedWith(root, f, h)
    BY <1>1 DEF RootedWith
  <1> QED
    BY <1>2 DEF RootedGood

(* What a removal leaves: the nodes outside V, of which the parent of n may  *)
(* have lost n among its children.                                           *)
Spared(nodes, n, V, f) ==
    /\ DOMAIN f = DOMAIN nodes \ V
    /\ \A m \in DOMAIN f :
          /\ f[m].parent = nodes[m].parent /\ DOMAIN f[m] = DOMAIN nodes[m]
          /\ Sequential(f[m].children)
          /\ ToSet(nodes[m].children) \ {n} \subseteq ToSet(f[m].children)

(* It is that, whatever the node was.                                        *)
LEMMA RemovalSpares ==
    ASSUME NEW nodes, NEW n, NEW V, n \in V, NEW rest, rest = Without(nodes, V), NEW p,
           \A m \in DOMAIN nodes : /\ Sequential(nodes[m].children)
                                   /\ "parent" \in DOMAIN nodes[m] /\ "children" \in DOMAIN nodes[m]
    PROVE  Spared(nodes, n, V, IF p \in DOMAIN rest THEN [rest EXCEPT ![p].children = OthersThan(n, @)]
                               ELSE rest)
  <1>1. DOMAIN rest = DOMAIN nodes \ V /\ \A m \in DOMAIN rest : rest[m] = nodes[m]
    BY DEF Without
  <1>2. CASE p \notin DOMAIN rest
    BY <1>1, <1>2 DEF Spared
  <1>3. CASE p \in DOMAIN rest
    <2>1. PICK f : f = [rest EXCEPT ![p].children = OthersThan(n, @)]
      OBVIOUS
    <2>2. /\ DOMAIN f = DOMAIN rest /\ \A m \in DOMAIN rest : m # p => f[m] = nodes[m]
          /\ f[p] = [nodes[p] EXCEPT !.children = OthersThan(n, @)]
      BY <1>1, <1>3, <2>1
    <2>3. /\ DOMAIN f[p] = DOMAIN nodes[p] /\ f[p].parent = nodes[p].parent
          /\ f[p].children = OthersThan(n, nodes[p].children)
      BY <1>1, <1>3, <2>2
    <2>4. PICK b : b = nodes[p].children
      OBVIOUS
    <2>5. PICK S : b \in Seq(S)
      BY <1>1, <1>3, <2>4 DEF Sequential
    <2>6. OthersThan(n, b) \in Seq(S) /\ ToSet(OthersThan(n, b)) = ToSet(b) \ {n}
      BY <2>5, OthersThanIs
    <2>7. Sequential(f[p].children) /\ ToSet(nodes[p].children) \ {n} \subseteq ToSet(f[p].children)
      BY <2>3, <2>4, <2>6 DEF Sequential
    <2>8. Spared(nodes, n, V, f)
      BY <1>1, <2>2, <2>3, <2>7 DEF Spared
    <2> QED
      BY <1>3, <2>1, <2>8
  <1> QED
    BY <1>2, <1>3

(* What hangs below a node goes with it, whatever it had brought, and what   *)
(* stays still hangs below the root.                                         *)
LEMMA RootedStays ==
    ASSUME NEW root, root # None, NEW nodes, RootedGood(root, nodes), NEW n \in DOMAIN nodes,
           Ends(nodes, n), NEW rest, rest = Without(nodes, {n} \cup collect_descendants(nodes, n)),
           NEW f, f = IF nodes[n].parent \in DOMAIN rest
                      THEN [rest EXCEPT ![nodes[n].parent].children = OthersThan(n, @)] ELSE rest
    PROVE  RootedGood(IF root = n THEN None ELSE root, f)
  <1>1. PICK h : RootedWith(root, nodes, h)
    BY DEF RootedGood
  <1>2. PICK D, V : D = DOMAIN nodes /\ V = ToSet(Subtree(nodes, n))
    OBVIOUS
  <1>3. n \in V /\ V \subseteq D
    BY <1>1, <1>2, SubtreeHolds DEF RootedWith
  <1>4. /\ \A m \in V : \A c \in Present(nodes, m) : c \in V
        /\ \A m \in V : \A c \in Present(nodes, m) : m \notin ToSet(Subtree(nodes, c))
    BY <1>2 DEF Ends
  <1>5. {n} \cup collect_descendants(nodes, n) = V
    BY <1>2, <1>3 DEF collect_descendants
  <1>6. Spared(nodes, n, V, f)
    <2>1. \A m \in DOMAIN nodes : /\ Sequential(nodes[m].children)
                                  /\ "parent" \in DOMAIN nodes[m] /\ "children" \in DOMAIN nodes[m]
      BY <1>1 DEF RootedWith, RootedGood
    <2>2. PICK p : p = nodes[n].parent
      OBVIOUS
    <2>3. rest = Without(nodes, V)
      BY <1>5
    <2>4. Spared(nodes, n, V, IF p \in DOMAIN rest THEN [rest EXCEPT ![p].children = OthersThan(n, @)]
                              ELSE rest)
      BY <1>3, <2>1, <2>3, RemovalSpares
    <2> QED
      BY <2>2, <2>4
  <1>7. root \in V => V = D
    BY <1>1, <1>2, <1>3, <1>4, RootReaches
  <1>8. CASE root = n
    <2>1. DOMAIN rest = {}
      BY <1>2, <1>3, <1>5, <1>7, <1>8 DEF Without
    <2>2. f = rest
      BY <2>1
    <2>3. f = << >>
      <3>1. f = [i \in {} |-> nodes[i]]
        BY <1>2, <1>3, <1>5, <1>7, <1>8, <2>2 DEF Without
      <3>2. 1 .. 0 = {}
        OBVIOUS
      <3>3. PICK e : e = f
        OBVIOUS
      <3>4. e = [i \in 1 .. 0 |-> e[i]]
        BY <3>1, <3>2, <3>3
      <3>5. e \in Seq({}) /\ Len(e) = 0
        BY <3>4, IsASeq
      <3>6. e = << >>
        BY <3>5, EmptySeq
      <3> QED
        BY <3>3, <3>6
    <2> QED
      BY <1>8, <2>3 DEF RootedGood
  <1>9. CASE root # n
    <2>1. PICK p : p = nodes[n].parent
      OBVIOUS
    <2>2. p \in D /\ n \in ToSet(nodes[p].children)
      BY <1>1, <1>2, <1>9, <2>1 DEF RootedWith
    <2>3. root \notin V
      <3> SUFFICES ASSUME V = D PROVE FALSE
        BY <1>7
      <3>1. p \in V /\ n \in Present(nodes, p)
        BY <1>2, <2>2 DEF Present
      <3>2. p \notin ToSet(Subtree(nodes, n))
        BY <1>4, <3>1
      <3> QED
        BY <1>2, <3>1, <3>2
    <2>4. /\ IsFiniteSet(D) /\ None \notin D /\ root \in D /\ nodes[root].parent = None
          /\ h \in [D -> Nat]
      BY <1>1, <1>2 DEF RootedWith
    <2>5. /\ DOMAIN f = D \ V
          /\ \A m \in D \ V : /\ f[m].parent = nodes[m].parent /\ DOMAIN f[m] = DOMAIN nodes[m]
                              /\ Sequential(f[m].children)
                              /\ ToSet(nodes[m].children) \ {n} \subseteq ToSet(f[m].children)
      BY <1>2, <1>6 DEF Spared
    <2>6. PICK R, g : R = D \ V /\ g = [m \in R |-> h[m]]
      OBVIOUS
    <2>7. g \in [R -> Nat] /\ \A m \in R : g[m] = h[m]
      BY <2>4, <2>6
    <2>8. IsFiniteSet(R) /\ None \notin R /\ root \in R /\ f[root].parent = None
      <3>1. R \in SUBSET D
        BY <2>6
      <3>2. IsFiniteSet(R)
        BY <2>4, <3>1, FS_Subset
      <3> QED
        BY <2>3, <2>4, <2>5, <2>6, <3>2
    <2>9. ASSUME NEW m \in R \ {root}
          PROVE  f[m].parent \in R /\ g[f[m].parent] < g[m] /\ m \in ToSet(f[f[m].parent].children)
      <3>1. PICK q : q = nodes[m].parent
        OBVIOUS
      <3>2. m \in D /\ m \notin V /\ m # n
        BY <1>3, <2>6
      <3>3. q \in D /\ h[q] < h[m] /\ m \in ToSet(nodes[q].children)
        BY <1>1, <1>2, <3>1, <3>2 DEF RootedWith
      <3>4. q \notin V
        BY <1>2, <1>4, <3>2, <3>3 DEF Present
      <3>5. q \in R /\ f[m].parent = q
        BY <2>5, <2>6, <3>1, <3>2, <3>3, <3>4
      <3>6. m \in ToSet(f[q].children)
        BY <2>5, <2>6, <3>2, <3>3, <3>5
      <3> QED
        BY <2>7, <3>3, <3>5, <3>6
    <2>10. RootedWith(root, f, g)
      BY <2>5, <2>6, <2>7, <2>8, <2>9 DEF RootedWith
    <2>11. \A m \in DOMAIN f : "parent" \in DOMAIN f[m] /\ "children" \in DOMAIN f[m]
      BY <1>2, <2>5 DEF RootedGood
    <2> QED
      BY <1>9, <2>10, <2>11 DEF RootedGood
  <1> QED
    BY <1>8, <1>9

(* The document is a tree as long as no node brought children, and hangs     *)
(* below its root in any case; the frames are a tree.                        *)
DocumentInv ==
    /\ ReferencesInv
    /\ grafted \in BOOLEAN
    /\ ~grafted => DocumentGood(document.root, document.nodes)
    /\ RootedGood(document.root, document.nodes)
    /\ DOMAIN frames = {"root", "of"} /\ TreeGood(frames.root, frames.of)

DocumentKept ==
    /\ grafted' \in BOOLEAN
    /\ ~grafted' => DocumentGood(document'.root, document'.nodes)
    /\ RootedGood(document'.root, document'.nodes)
    /\ frames' = frames

(* Whatever mutates the document leaves it so.                               *)
LEMMA MutationKeepsTree ==
    ASSUME DocumentInv, Mutated
    PROVE  DocumentKept
  <1> DEFINE root == document.root
             nodes == document.nodes
  <1>1. ASSUME NEW f, NEW r, Changed(f, r), grafted' \in BOOLEAN, RootedGood(r, f),
               ~grafted' => DocumentGood(r, f)
        PROVE  DocumentKept
    BY <1>1 DEF Changed, DocumentInv, ReferencesInv, DocumentKept
  <1>2. root # None => (~grafted => TreeGood(root, nodes)) /\ RootedGood(root, nodes)
    BY DEF DocumentInv, DocumentGood
  <1>3. root = None => nodes = << >> /\ DOMAIN nodes = {}
    BY DEF DocumentInv, RootedGood
  <1>4. ASSUME NEW n \in NodeIds, NEW p, NEW t, NEW k, NEW b \in Seq(NodeIds), InsertNode(n, p, t, k, b)
        PROVE  DocumentKept
    <2> DEFINE node == [parent |-> p, children |-> b, text |-> t, key |-> k]
    <2>1. /\ node.parent = p /\ node.children = b
          /\ "parent" \in DOMAIN node /\ "children" \in DOMAIN node
      OBVIOUS
    <2>2. n # None /\ n \notin DOMAIN nodes /\ Sequential(b)
      BY <1>4, PageAssumption DEF InsertNode, Sequential
    <2>0. grafted' \in BOOLEAN /\ (~grafted' => ~grafted /\ b = << >>)
      BY <1>4 DEF InsertNode, DocumentInv
    <2>3. CASE p = None
      <3>1. root = None /\ Changed(Put(nodes, n, node), n)
        BY <1>4, <2>3 DEF InsertNode
      <3>2. b = << >> => TreeGood(n, Put(nodes, n, node))
        <4> HIDE DEF node
        <4> QED
          BY <1>3, <2>1, <2>2, <2>3, <3>1, RootInserted
      <3>3. ~grafted' => DocumentGood(n, Put(nodes, n, node))
        BY <2>0, <2>2, <3>2 DEF DocumentGood
      <3>4. RootedGood(n, Put(nodes, n, node))
        <4> HIDE DEF node
        <4> QED
          BY <1>3, <2>1, <2>2, <2>3, <3>1, RootedBegins
      <3> QED
        BY <1>1, <2>0, <3>1, <3>3, <3>4
    <2>4. CASE p # None
      <3>1. /\ p \in DOMAIN nodes
            /\ Changed(Put([nodes EXCEPT ![p].children = Append(@, n)], n, node), root)
        BY <1>4, <2>4 DEF InsertNode
      <3>2. root # None
        BY <1>3, <3>1
      <3>3. (~grafted => TreeGood(root, nodes)) /\ RootedGood(root, nodes)
        BY <1>2, <3>2
      <3> HIDE DEF node, root, nodes
      <3>4. ~grafted' => TreeGood(root, Put([nodes EXCEPT ![p].children = Append(@, n)], n, node))
        BY <2>0, <2>1, <2>2, <3>1, <3>3, ChildInserted
      <3>5. ~grafted' => DocumentGood(root, Put([nodes EXCEPT ![p].children = Append(@, n)], n, node))
        BY <3>2, <3>4 DEF DocumentGood
      <3>6. RootedGood(root, Put([nodes EXCEPT ![p].children = Append(@, n)], n, node))
        BY <2>1, <2>2, <3>1, <3>2, <3>3, RootedGrows
      <3> QED
        BY <1>1, <2>0, <3>1, <3>5, <3>6
    <2> QED
      BY <2>3, <2>4
  <1>5. ASSUME NEW n, RemoveNode(n) PROVE DocumentKept
    <2>1. n \in DOMAIN nodes /\ root # None /\ Ends(nodes, n) /\ grafted' = grafted
      BY <1>3, <1>5 DEF RemoveNode
    <2>2. (~grafted => TreeGood(root, nodes)) /\ RootedGood(root, nodes)
      BY <1>2, <2>1
    <2> DEFINE p == nodes[n].parent
               rest == Without(nodes, {n} \cup collect_descendants(nodes, n))
               f == IF p \in DOMAIN rest THEN [rest EXCEPT ![p].children = OthersThan(n, @)] ELSE rest
               r == IF root = n THEN None ELSE root
    <2>3. Changed(f, r)
      BY <1>5 DEF RemoveNode
    <2>4. RootedGood(r, f)
      <3> HIDE DEF nodes, root
      <3> QED
        BY <2>1, <2>2, RootedStays
    <2>5. ASSUME ~grafted PROVE DocumentGood(r, f)
      <3>1. TreeGood(root, nodes)
        BY <2>2, <2>5
      <3>2. CASE n = root
        <4>1. rest = << >>
          BY <3>1, <3>2, RootRemoved
        <4>2. f = << >> /\ r = None
          <5>1. DOMAIN rest = {}
            BY <4>1
          <5> HIDE DEF p, rest, nodes, root
          <5> QED
            BY <3>2, <4>1, <5>1
        <4> HIDE DEF f, r
        <4> QED
          BY <4>2 DEF DocumentGood
      <3>3. CASE n # root
        <4>1. p \in DOMAIN rest /\ TreeGood(root, [rest EXCEPT ![p].children = OthersThan(n, @)])
          BY <2>1, <3>1, <3>3, SubtreeRemoved
        <4> HIDE DEF p, rest, nodes, root
        <4>2. f = [rest EXCEPT ![p].children = OthersThan(n, @)] /\ r = root
          BY <3>3, <4>1
        <4> HIDE DEF f, r
        <4> QED
          BY <2>1, <4>1, <4>2 DEF DocumentGood
      <3> QED
        BY <3>2, <3>3
    <2> HIDE DEF f, r
    <2>6. grafted' \in BOOLEAN /\ (~grafted' => DocumentGood(r, f))
      BY <2>1, <2>5 DEF DocumentInv
    <2> QED
      BY <1>1, <2>3, <2>4, <2>6
  <1>6. ASSUME NEW n, NEW x, SetText(n, x) \/ SetAttribute(n, x) PROVE DocumentKept
    <2>1. n \in DOMAIN nodes /\ root # None /\ grafted' = grafted
      BY <1>3, <1>6 DEF SetText, SetAttribute
    <2>2. (~grafted => TreeGood(root, nodes)) /\ RootedGood(root, nodes)
      BY <1>2, <2>1
    <2>3. PICK f : /\ f = [nodes EXCEPT ![n].text = x] \/ f = [nodes EXCEPT ![n].key = x]
                   /\ Changed(f, root)
      BY <1>6 DEF SetText, SetAttribute
    <2>4. DOMAIN f = DOMAIN nodes /\ \A m \in DOMAIN nodes : m # n => f[m] = nodes[m]
      BY <2>3
    <2>5. f[n] = [nodes[n] EXCEPT !.text = x] \/ f[n] = [nodes[n] EXCEPT !.key = x]
      BY <2>1, <2>3
    <2>6. "parent" \in DOMAIN nodes[n] /\ "children" \in DOMAIN nodes[n]
      BY <2>1, <2>2 DEF RootedGood
    <2>7. f[n].parent = nodes[n].parent /\ f[n].children = nodes[n].children /\ DOMAIN f[n] = DOMAIN nodes[n]
      BY <2>5, <2>6
    <2>8. \A m \in DOMAIN nodes : /\ f[m].parent = nodes[m].parent /\ f[m].children = nodes[m].children
                                  /\ DOMAIN f[m] = DOMAIN nodes[m]
      BY <2>4, <2>7
    <2>9. (~grafted => TreeGood(root, f)) /\ RootedGood(root, f)
      <3> HIDE DEF root, nodes
      <3> QED
        BY <2>1, <2>2, <2>4, <2>8, NodeChanged, RootedChanges
    <2>10. grafted' \in BOOLEAN /\ (~grafted' => DocumentGood(root, f))
      BY <2>1, <2>9 DEF DocumentGood, DocumentInv
    <2> QED
      BY <1>1, <2>3, <2>9, <2>10
  <1>7. ASSUME begin_navigation PROVE DocumentKept
    BY <1>7 DEF begin_navigation, DocumentGood, RootedGood, DocumentKept
  <1>8. ASSUME NEW l, advance_lifecycle(l) PROVE DocumentKept
    BY <1>8 DEF advance_lifecycle, DocumentInv, ReferencesInv, DocumentKept
  <1> QED
    BY <1>4, <1>5, <1>6, <1>7, <1>8 DEF Mutated

(* The frames stay a tree (FrameTree).                                       *)
LEMMA FramesKeepTree ==
    ASSUME DOMAIN frames = {"root", "of"}, TreeGood(frames.root, frames.of), FrameNext
    PROVE  DOMAIN frames' = {"root", "of"} /\ TreeGood(frames'.root, frames'.of)
  <1> DEFINE root == frames.root
             nodes == frames.of
  <1>1. ASSUME NEW p, NEW f \in FrameIds, NEW o, add_child(p, f, o)
        PROVE  DOMAIN frames' = {"root", "of"} /\ TreeGood(frames'.root, frames'.of)
    <2> DEFINE node == [parent |-> p, origin |-> o, children |-> << >>]
    <2>1. /\ node.parent = p /\ node.children = << >>
          /\ "parent" \in DOMAIN node /\ "children" \in DOMAIN node
      OBVIOUS
    <2>2. p \in DOMAIN nodes /\ f \notin DOMAIN nodes /\ f # None
      BY <1>1, PageAssumption DEF add_child
    <2>3. frames' = [frames EXCEPT !.of = Put([nodes EXCEPT ![p].children = Append(@, f)], f, node)]
      BY <1>1 DEF add_child
    <2> HIDE DEF node
    <2>4. TreeGood(root, Put([nodes EXCEPT ![p].children = Append(@, f)], f, node))
      BY <2>1, <2>2, ChildInserted
    <2>5. PICK g : g = Put([nodes EXCEPT ![p].children = Append(@, f)], f, node)
      OBVIOUS
    <2>6. frames' = [frames EXCEPT !.of = g]
      BY <2>3, <2>5
    <2>7. DOMAIN frames' = {"root", "of"} /\ frames'.root = root /\ frames'.of = g
      BY <2>6
    <2> QED
      BY <2>4, <2>5, <2>7
  <1>2. ASSUME NEW f, NEW o, navigate(f, o)
        PROVE  DOMAIN frames' = {"root", "of"} /\ TreeGood(frames'.root, frames'.of)
    <2> DEFINE left == [g \in DOMAIN nodes \ collect_descendants(nodes, f) |->
                          IF g = f THEN [nodes[f] EXCEPT !.origin = o, !.children = << >>] ELSE nodes[g]]
    <2>1. f \in DOMAIN nodes /\ frames' = [frames EXCEPT !.of = left]
      BY <1>2 DEF navigate
    <2>2. f \in DOMAIN nodes \ collect_descendants(nodes, f)
      BY <2>1 DEF collect_descendants
    <2>3. PICK g : g = left
      OBVIOUS
    <2>4. /\ DOMAIN g = DOMAIN nodes \ collect_descendants(nodes, f)
          /\ \A m \in DOMAIN g : m # f => g[m] = nodes[m]
          /\ g[f] = [nodes[f] EXCEPT !.origin = o, !.children = << >>]
      BY <2>2, <2>3
    <2>5. "parent" \in DOMAIN nodes[f] /\ "children" \in DOMAIN nodes[f]
      BY <2>1 DEF TreeGood
    <2>6. /\ g[f].parent = nodes[f].parent /\ g[f].children = << >> /\ DOMAIN g[f] = DOMAIN nodes[f]
      BY <2>4, <2>5
    <2>7. TreeGood(root, g)
      <3> HIDE DEF root, nodes, left
      <3>1. TreeGood(root, nodes)
        BY DEF root, nodes
      <3>2. f \in DOMAIN nodes /\ Hollowed(nodes, f, g)
        BY <2>1, <2>4, <2>6 DEF Hollowed
      <3> QED
        BY <3>1, <3>2, DescendantsRemoved
    <2>8. DOMAIN frames' = {"root", "of"} /\ frames'.root = root /\ frames'.of = g
      <3> HIDE DEF left
      <3> QED
        BY <2>1, <2>3
    <2> QED
      BY <2>7, <2>8
  <1> QED
    BY <1>1, <1>2 DEF FrameNext

(* It starts empty, with one frame.                                          *)
LEMMA DocumentInit == Init => DocumentInv
  <1> SUFFICES ASSUME Init PROVE DocumentInv
    OBVIOUS
  <1>1. ReferencesInv
    BY DEF Init, PageInit, ReferencesInv
  <1>2. /\ grafted \in BOOLEAN
        /\ DocumentGood(document.root, document.nodes) /\ RootedGood(document.root, document.nodes)
    BY DEF Init, PageInit, DocumentGood, RootedGood
  <1>3. PICK f, o : /\ f \in FrameIds
                    /\ frames = [root |-> f, of |-> [g \in {f} |-> [parent |-> None, origin |-> o,
                                                                    children |-> << >>]]]
    <2>1. PICK f : f = CHOOSE g \in FrameIds : TRUE
      OBVIOUS
    <2>2. f \in FrameIds
      BY <2>1, PageAssumption
    <2> QED
      BY <2>1, <2>2 DEF Init, PageInit
  <1>4. f # None
    BY <1>3, PageAssumption
  <1>5. PICK nodes : nodes = frames.of
    OBVIOUS
  <1>6. /\ DOMAIN frames = {"root", "of"} /\ frames.root = f
        /\ DOMAIN nodes = {f} /\ nodes[f] = [parent |-> None, origin |-> o, children |-> << >>]
    BY <1>3, <1>5
  <1>7. \E g : TreeWith(f, nodes, g)
    <2>1. nodes[f].parent = None /\ nodes[f].children = << >>
      BY <1>6
    <2> QED
      BY <1>4, <1>6, <2>1, TreeOfOne
  <1>8. TreeGood(f, nodes)
    BY <1>6, <1>7 DEF TreeGood
  <1> QED
    BY <1>1, <1>2, <1>5, <1>6, <1>8 DEF DocumentInv

(* Every step of the page keeps the document and the frames whole.           *)
LEMMA DocumentInvSteps == DocumentInv /\ [Next]_vars => DocumentInv'
  <1> SUFFICES ASSUME DocumentInv, [Next]_vars PROVE DocumentInv'
    OBVIOUS
  <1>1. ReferencesInv'
    BY ReferencesSteps DEF DocumentInv
  <1>2. ASSUME Mutated PROVE DocumentInv'
    BY <1>1, <1>2, MutationKeepsTree DEF DocumentInv, DocumentKept
  <1>3. CASE UNCHANGED <<document, grafted, frames>>
    BY <1>1, <1>3 DEF DocumentInv
  <1>4. ASSUME (\E n : reference(n)) \/ (\E n, b : insert_box(n, b)) \/ (\E n : remove_box(n))
               \/ compile \/ (\E l, b : page(l, b)) \/ UNCHANGED pageVars
        PROVE  UNCHANGED <<document, grafted, frames>>
    BY <1>4 DEF reference, insert_box, remove_box, compile, page, docVars, pageVars
  <1>5. CASE DocumentNext
    BY <1>2, <1>3, <1>4, <1>5, AllMutate DEF DocumentNext
  <1>6. CASE DiffNext
    BY <1>2, <1>3, <1>4, <1>6, AllMutate DEF DiffNext
  <1>7. CASE PagingNext
    BY <1>2, <1>3, <1>4, <1>7, AllMutate
  <1>8. CASE FrameNext
    <2>1. DOMAIN frames' = {"root", "of"} /\ TreeGood(frames'.root, frames'.of)
      BY <1>8, FramesKeepTree DEF DocumentInv
    <2>2. document' = document /\ grafted' = grafted
      BY <1>8 DEF FrameNext, add_child, navigate, docVars
    <2> QED
      BY <1>1, <2>1, <2>2 DEF DocumentInv
  <1>9. CASE PlanNext
    <2>1. CASE PageChanges
      BY <1>2, <1>3, <1>4, <2>1, AllMutate
    <2>2. ASSUME (\E t, a, to, b : plan_internal(t, a, to, b)) \/ execute \/ complete \/ dispatch_error
          PROVE  UNCHANGED pageVars
      BY <2>2 DEF plan_internal, execute, complete, dispatch_error
    <2> QED
      BY <1>3, <1>4, <1>9, <2>1, <2>2 DEF PlanNext
  <1> QED
    BY <1>3, <1>4, <1>5, <1>6, <1>7, <1>8, <1>9 DEF Next, vars

(* After any mutations, navigations and re-insertions of nodes that come     *)
(* without children the document is one tree, and so are the frames; of      *)
(* nodes that bring any children, missing, of another parent or above them,  *)
(* what a removal leaves still hangs below the root, listed by its parent;   *)
(* and a reference that resolves is of the node it was taken of              *)
(* (RawDocument::apply, reference and resolve, FrameTree::navigate),         *)
(* whatever the nodes, their children and their number.                      *)
THEOREM DocumentStaysSound == Spec => []DocumentIsSound
  <1>1. DocumentInv => DocumentIsSound
    <2> SUFFICES ASSUME DocumentInv PROVE DocumentIsSound
      OBVIOUS
    <2>1. ~grafted => Whole(document.root, document.nodes)
      BY GoodIsWhole DEF DocumentInv
    <2>5. Rooted(document.root, document.nodes)
      BY GoodIsRooted DEF DocumentInv
    <2>2. frames.root # None
      BY DEF DocumentInv, TreeGood, TreeWith
    <2>3. Whole(frames.root, frames.of)
      <3>1. DocumentGood(frames.root, frames.of)
        BY <2>2 DEF DocumentInv, DocumentGood
      <3> QED
        BY <3>1, GoodIsWhole
    <2>4. ReferencesAreExact
      BY DEF DocumentInv, ReferencesInv, ReferencesAreExact, resolves
    <2> QED
      BY <2>1, <2>3, <2>4, <2>5 DEF DocumentIsSound, TreesAreWhole
  <1> QED
    BY <1>1, DocumentInit, DocumentInvSteps, PTL DEF Spec

-----------------------------------------------------------------------------
(* Consumers of the tree (PageTree) *)

(* Numbers that are bounded, and not none, have a largest one: Max.          *)
LEMMA LargestIsMax ==
    ASSUME NEW n \in Nat, NEW T, T \subseteq 0 .. n, T # {}
    PROVE  Max(T) \in T /\ \A y \in T : y <= Max(T)
  <1> DEFINE R == {n - i : i \in T}
  <1>1. R \subseteq Nat /\ R # {}
    OBVIOUS
  <1>2. PICK r \in R : \A y \in R : r <= y
    <2> HIDE DEF R
    <2> QED
      BY <1>1, LeastNumber
  <1>3. PICK x \in T : r = n - x
    OBVIOUS
  <1>4. ASSUME NEW y \in T PROVE x >= y
    <2>1. n - x <= n - y
      BY <1>2, <1>3
    <2>2. x \in 0 .. n /\ y \in 0 .. n
      OBVIOUS
    <2> QED
      BY <2>1, <2>2
  <1>5. Max(T) \in T /\ \A y \in T : Max(T) >= y
    <2>1. \E m \in T : \A y \in T : m >= y
      BY <1>4
    <2> QED
      BY <2>1, Zenon DEF Max
  <1> SUFFICES ASSUME NEW y \in T PROVE y <= Max(T)
    BY <1>5
  <1>6. PICK m : m = Max(T)
    OBVIOUS
  <1>7. m \in 0 .. n /\ y \in 0 .. n /\ m >= y
    BY <1>5, <1>6
  <1> QED
    BY <1>6, <1>7

(* Where keys are unique, the map of a sequence by key has all of it.        *)
LEMMA KeyedIs ==
    ASSUME NEW s, Sequential(s), Unambiguous(s)
    PROVE  /\ \A k \in DOMAIN Keyed(s) : Keyed(s)[k] \in Range(s) /\ node_key(Keyed(s)[k]) = k
           /\ \A x \in Range(s) : node_key(x) \in DOMAIN Keyed(s) /\ Keyed(s)[node_key(x)] = x
  <1>1. PICK S : s \in Seq(S)
    BY DEF Sequential
  <1>2. PICK n : n = Len(s)
    OBVIOUS
  <1>3. n \in Nat /\ DOMAIN s = 1 .. n
    BY <1>1, <1>2, LenProperties
  <1> DEFINE K == {node_key(s[i]) : i \in 1 .. n}
             f == [i \in 1 .. n |-> node_key(s[i])]
  <1>4. Keyed(s) = [k \in K |-> s[Max({i \in 1 .. n : node_key(s[i]) = k})]]
    BY <1>3 DEF Keyed
  <1>5. Cardinality(K) = n
    <2>1. DOMAIN Keyed(s) = K
      BY <1>4
    <2> HIDE DEF K
    <2> QED
      BY <1>2, <2>1 DEF Unambiguous
  <1>6. f \in Injection(1 .. n, K)
    <2>1. f \in Surjection(1 .. n, K)
      BY DEF Surjection
    <2>2. IsFiniteSet(1 .. n) /\ Cardinality(1 .. n) = n
      <3>1. IsFiniteSet(1 .. n) /\ Cardinality(1 .. n) = IF 1 > n THEN 0 ELSE n - 1 + 1
        BY <1>3, FS_Interval
      <3> QED
        BY <1>3, <3>1
    <2>3. Cardinality(1 .. n) = Cardinality(K)
      <3> HIDE DEF K
      <3> QED
        BY <1>5, <2>2
    <2> HIDE DEF f, K
    <2> QED
      BY <2>1, <2>2, <2>3, FS_SurjSameCardinalityImpliesInj
  <1>7. \A i, j \in 1 .. n : node_key(s[i]) = node_key(s[j]) => i = j
    <2>1. \A i, j \in 1 .. n : f[i] = f[j] => i = j
      <3> HIDE DEF f, K
      <3> QED
        BY <1>6 DEF Injection, IsInjective
    <2>2. \A i \in 1 .. n : f[i] = node_key(s[i])
      OBVIOUS
    <2> HIDE DEF f
    <2> QED
      BY <2>1, <2>2
  <1>8. ASSUME NEW i \in 1 .. n
        PROVE  node_key(s[i]) \in DOMAIN Keyed(s) /\ Keyed(s)[node_key(s[i])] = s[i]
    <2> DEFINE k == node_key(s[i])
               T == {j \in 1 .. n : node_key(s[j]) = k}
    <2>1. T = {i}
      BY <1>7
    <2>2. T \subseteq 0 .. n
      BY <1>3
    <2>3. Max(T) = i
      <3> HIDE DEF T
      <3>1. T # {}
        BY <2>1
      <3>2. Max(T) \in T
        BY <1>3, <2>2, <3>1, LargestIsMax
      <3> QED
        BY <2>1, <3>2
    <2>4. k \in K
      OBVIOUS
    <2>5. Keyed(s)[k] = s[Max(T)]
      <3> HIDE DEF K
      <3> QED
        BY <1>4, <2>4
    <2>6. DOMAIN Keyed(s) = K
      BY <1>4
    <2> HIDE DEF K, T
    <2> QED
      BY <2>3, <2>4, <2>5, <2>6
  <1>9. \A x : x \in Range(s) <=> \E i \in 1 .. n : x = s[i]
    BY <1>3 DEF Range
  <1>10. \A k \in DOMAIN Keyed(s) : \E i \in 1 .. n : k = node_key(s[i])
    BY <1>4
  <1> QED
    BY <1>8, <1>9, <1>10

(* The differences of two trees make one of the other.                       *)
LEMMA DifferenceApplies ==
    ASSUME NEW before, Sequential(before), Unambiguous(before),
           NEW after, Sequential(after), Unambiguous(after)
    PROVE  Applied(Range(before), diff_tree(before, after)) = Range(after)
  <1> DEFINE d == diff_tree(before, after)
  <1>1. PICK L, R : L = Keyed(before) /\ R = Keyed(after)
    OBVIOUS
  <1>2. PICK B, A : B = Range(before) /\ A = Range(after)
    OBVIOUS
  <1>3. /\ \A k \in DOMAIN L : L[k] \in B /\ node_key(L[k]) = k
        /\ \A x \in B : node_key(x) \in DOMAIN L /\ L[node_key(x)] = x
    BY <1>1, <1>2, KeyedIs
  <1>4. /\ \A k \in DOMAIN R : R[k] \in A /\ node_key(R[k]) = k
        /\ \A x \in A : node_key(x) \in DOMAIN R /\ R[node_key(x)] = x
    BY <1>1, <1>2, KeyedIs
  <1>5. /\ d.added = {R[k] : k \in DOMAIN R \ DOMAIN L}
        /\ d.removed = {L[k] : k \in DOMAIN L \ DOMAIN R}
        /\ d.before = {L[k] : k \in {k \in DOMAIN L \cap DOMAIN R : L[k] # R[k]}}
        /\ d.after = {R[k] : k \in {k \in DOMAIN L \cap DOMAIN R : L[k] # R[k]}}
    BY <1>1 DEF diff_tree
  <1> HIDE DEF d
  <1>6. ASSUME NEW x \in A PROVE x \in Applied(B, d)
    <2> DEFINE k == node_key(x)
    <2>1. k \in DOMAIN R /\ R[k] = x
      BY <1>4
    <2>2. CASE k \notin DOMAIN L
      BY <1>5, <2>1, <2>2 DEF Applied
    <2>3. CASE k \in DOMAIN L /\ L[k] # R[k]
      BY <1>5, <2>1, <2>3 DEF Applied
    <2>4. CASE k \in DOMAIN L /\ L[k] = R[k]
      <3>1. x \in B
        BY <1>3, <2>1, <2>4
      <3>2. \A j \in DOMAIN L : L[j] = x => j = k
        BY <1>3
      <3>3. x \notin d.removed /\ x \notin d.before
        BY <1>5, <2>1, <2>4, <3>2
      <3> QED
        BY <3>1, <3>3 DEF Applied
    <2> QED
      BY <2>2, <2>3, <2>4
  <1>7. ASSUME NEW x \in Applied(B, d) PROVE x \in A
    <2>1. CASE x \in d.added \/ x \in d.after
      BY <1>4, <1>5, <2>1
    <2>2. CASE x \in B /\ x \notin d.removed /\ x \notin d.before
      <3> DEFINE k == node_key(x)
      <3>1. k \in DOMAIN L /\ L[k] = x
        BY <1>3, <2>2
      <3>2. k \in DOMAIN R /\ L[k] = R[k]
        BY <1>5, <2>2, <3>1
      <3> QED
        BY <1>4, <3>1, <3>2
    <2> QED
      BY <2>1, <2>2 DEF Applied
  <1> QED
    BY <1>2, <1>6, <1>7 DEF d

(* A page takes no more than there is, and something if there is anything.   *)
LEMMA TakenIs ==
    ASSUME NEW nodes, Len(nodes) \in Nat, NEW limit \in Nat, NEW budget
    PROVE  /\ Taken(nodes, limit, budget) \in 0 .. Len(nodes)
           /\ Len(nodes) > 0 => Taken(nodes, limit, budget) > 0
  <1> DEFINE n == Len(nodes)
             most == IF limit = 0 THEN 1 ELSE limit
             T == {k \in 0 .. n : /\ k <= most
                                  /\ k <= 1 \/ budget = None \/ Size(SubSeq(nodes, 1, k)) <= 4 * budget}
  <1>1. Taken(nodes, limit, budget) = Max(T)
    BY DEF Taken
  <1>2. 0 \in T /\ T \subseteq 0 .. n
    OBVIOUS
  <1>3. n > 0 => 1 \in T
    OBVIOUS
  <1>4. PICK m : m = Max(T)
    OBVIOUS
  <1> HIDE DEF T
  <1>5. m \in 0 .. n /\ \A y \in T : y <= m
    <2>1. T # {} /\ n \in Nat
      BY <1>2
    <2> HIDE DEF n
    <2>2. Max(T) \in T /\ \A y \in T : y <= Max(T)
      BY <1>2, <2>1, LargestIsMax
    <2> QED
      BY <1>2, <1>4, <2>2
  <1>6. n > 0 => m > 0
    <2> SUFFICES ASSUME n > 0 PROVE m > 0
      OBVIOUS
    <2>1. 1 <= m
      BY <1>3, <1>5
    <2> QED
      BY <1>5, <2>1
  <1> QED
    BY <1>1, <1>4, <1>5, <1>6

(* What was read, and the next piece.                                        *)
LEMMA NextPiece ==
    ASSUME NEW S, NEW s \in Seq(S), NEW o \in 0 .. Len(s), NEW rest,
           rest = SubSeq(s, o + 1, Len(s)), NEW k \in 0 .. Len(s) - o
    PROVE  /\ Len(rest) = Len(s) - o
           /\ SubSeq(s, 1, o) \o SubSeq(rest, 1, k) = SubSeq(s, 1, o + k)
           /\ Len(SubSeq(s, 1, o + k)) = o + k
  <1>1. PICK l : l = Len(s)
    OBVIOUS
  <1>2. l \in Nat /\ DOMAIN s = 1 .. l /\ \A i \in 1 .. l : s[i] \in S
    BY <1>1, LenProperties, ElementOfSeq
  <1>3. o \in Nat /\ o <= l /\ k \in Nat /\ o + k <= l
    BY <1>1, <1>2
  <1>4. ASSUME NEW a \in 1 .. l + 1, NEW b \in 0 .. l
        PROVE  SubSeq(s, a, b) \in Seq(S) /\ Len(SubSeq(s, a, b)) = IF a <= b THEN b - a + 1 ELSE 0
    <2>1. a \in Int /\ b \in Int /\ \A i \in a .. b : s[i] \in S
      BY <1>2
    <2> QED
      BY <2>1, SubSeqProperties
  <1>5. rest \in Seq(S) /\ Len(rest) = l - o
    <2>1. o + 1 \in 1 .. l + 1 /\ l \in 0 .. l
      BY <1>2, <1>3
    <2>2. rest \in Seq(S) /\ Len(rest) = IF o + 1 <= l THEN l - (o + 1) + 1 ELSE 0
      BY <1>1, <1>4, <2>1
    <2> QED
      BY <1>2, <1>3, <2>2
  <1>6. Len(SubSeq(s, 1, o + k)) = o + k
    <2>1. 1 \in 1 .. l + 1 /\ o + k \in 0 .. l
      BY <1>2, <1>3
    <2>2. Len(SubSeq(s, 1, o + k)) = IF 1 <= o + k THEN o + k - 1 + 1 ELSE 0
      BY <1>4, <2>1
    <2> QED
      BY <1>3, <2>2
  <1>7. SubSeq(s, 1, o) \o SubSeq(rest, 1, k) = SubSeq(s, 1, o + k)
    <2>1. CASE k = 0
      <3>1. SubSeq(rest, 1, k) = << >>
        BY <2>1, SubSeqEmpty
      <3>2. SubSeq(s, 1, o) \in Seq(S)
        BY <1>2, <1>3, <1>4
      <3>3. SubSeq(s, 1, o) \o << >> = SubSeq(s, 1, o)
        BY <3>2, ConcatEmptySeq
      <3>4. o + k = o
        BY <1>3, <2>1
      <3> QED
        BY <3>1, <3>3, <3>4
    <2>2. CASE k # 0
      <3>1. /\ o + 1 \in 1 .. Len(s) /\ Len(s) \in 1 .. Len(s)
            /\ 1 \in 1 .. Len(s) - (o + 1) + 1 /\ k \in 1 .. Len(s) - (o + 1) + 1
        BY <1>1, <1>2, <1>3, <2>2
      <3>2. SubSeq(rest, 1, k) = SubSeq(s, o + 1 + 1 - 1, o + 1 + k - 1)
        BY <3>1, SubSeqOfSubSeq
      <3>3. o + 1 + 1 - 1 = o + 1 /\ o + 1 + k - 1 = o + k
        BY <1>3
      <3>4. 1 \in 1 .. Len(s) + 1 /\ o \in 1 - 1 .. Len(s) /\ o + k \in o .. Len(s)
        BY <1>1, <1>2, <1>3
      <3>5. SubSeq(s, 1, o) \o SubSeq(s, o + 1, o + k) = SubSeq(s, 1, o + k)
        BY <3>4, ConcatAdjacentSubSeq
      <3> QED
        BY <3>2, <3>3, <3>5
    <2> QED
      BY <2>1, <2>2
  <1> QED
    BY <1>1, <1>5, <1>6, <1>7

(* What a compilation gives is a sequence.                                   *)
LEMMA CompiledIs ==
    ASSUME DocumentInv, NEW g
    PROVE  Sequential(visit(g))
  <1>1. CASE document.root = None
    <2>1. visit(g) = << >> /\ << >> \in Seq({})
      BY <1>1 DEF visit
    <2> QED
      BY <2>1 DEF Sequential
  <1>2. CASE document.root # None
    <2>1. PICK h : RootedWith(document.root, document.nodes, h)
      BY <1>2 DEF DocumentInv, RootedGood
    <2>2. PICK order : order = Subtree(document.nodes, document.root)
      OBVIOUS
    <2>3. order \in Seq(DOMAIN document.nodes)
      BY <2>1, <2>2, SubtreeHolds DEF RootedWith
    <2>4. Len(order) \in Nat /\ DOMAIN order = 1 .. Len(order)
      BY <2>3, LenProperties
    <2>5. PICK s : s = visit(g)
      OBVIOUS
    <2>6. s = [i \in 1 .. Len(order) |-> AgentNode(order[i], g)]
      BY <1>2, <2>2, <2>4, <2>5 DEF visit
    <2> DEFINE S == {AgentNode(order[i], g) : i \in 1 .. Len(order)}
    <2>7. s = [i \in 1 .. Len(order) |-> s[i]] /\ \A i \in 1 .. Len(order) : s[i] \in S
      BY <2>6
    <2> HIDE DEF S
    <2>8. s \in Seq(S)
      BY <2>4, <2>7, IsASeq
    <2> QED
      BY <2>5, <2>8 DEF Sequential
  <1> QED
    BY <1>1, <1>2

(* What a reader has: the first nodes of the tree it read of, of a           *)
(* generation that was; all of them when it is done.                         *)
ReadingGood(r, newest) ==
    /\ DOMAIN r = {"generation", "all", "got", "done"}
    /\ r.generation \in Nat /\ r.generation <= newest.generation
    /\ Sequential(r.all) /\ Len(r.got) \in 0 .. Len(r.all) /\ r.got = SubSeq(r.all, 1, Len(r.got))
    /\ r.all # << >> => r.got # << >>
    /\ r.done => r.got = r.all
    /\ r.generation = newest.generation /\ r.got # << >> => r.all = newest.nodes

(* The tree is a sequence, followed by its copy and its readers.             *)
ConsumersInv ==
    /\ DocumentInv
    /\ tree.generation \in Nat /\ Sequential(tree.nodes)
    /\ DifferencesSuffice
    /\ ReadingGood(reading, tree)

(* The next page, or a new beginning.                                        *)
LEMMA PageReads ==
    ASSUME ConsumersInv, NEW limit \in Limits, NEW budget, page(limit, budget)
    PROVE  ReadingGood(reading', tree) /\ UNCHANGED <<document, refs, frames, tree, copy, ambiguous>>
  <1>1. UNCHANGED <<document, refs, frames, tree, copy, ambiguous>>
    BY DEF page, docVars
  <1>2. ReadingGood(Idle, tree)
    <2>1. Sequential(<< >>) /\ Len(<< >>) = 0 /\ SubSeq(<< >>, 1, 0) = << >>
      <3>1. << >> \in Seq({})
        OBVIOUS
      <3>2. SubSeq(<< >>, 1, 0) = << >>
        BY SubSeqEmpty
      <3> QED
        BY <3>1, <3>2 DEF Sequential
    <2>2. tree.generation \in Nat
      BY DEF ConsumersInv
    <2>3. Idle.all = << >> /\ Idle.got = << >> /\ Idle.generation = 0 /\ Idle.done = FALSE
          /\ DOMAIN Idle = {"generation", "all", "got", "done"}
      BY DEF Idle
    <2> HIDE DEF Idle
    <2> QED
      BY <2>1, <2>2, <2>3 DEF ReadingGood
  <1> DEFINE offset == Len(reading.got)
             nodes == tree.nodes
             rest == SubSeq(nodes, offset + 1, Len(nodes))
             k == Taken(rest, limit, budget)
             stale == offset > 0 /\ reading.generation # tree.generation
             got == reading.got \o SubSeq(rest, 1, k)
  <1>3. reading' = IF stale THEN Idle
                   ELSE [generation |-> tree.generation, all |-> nodes, got |-> got,
                         done |-> offset + k = Len(nodes)]
    BY DEF page
  <1>4. CASE stale
    BY <1>1, <1>2, <1>3, <1>4
  <1>5. CASE ~stale
    <2>1. PICK S : nodes \in Seq(S)
      BY DEF ConsumersInv, Sequential
    <2>2. PICK all : Sequential(all) /\ all = reading.all
      BY DEF ConsumersInv, ReadingGood
    <2>3. PICK U : all \in Seq(U)
      BY <2>2 DEF Sequential
    <2>4. offset \in 0 .. Len(all) /\ Len(all) \in Nat /\ Len(nodes) \in Nat
      BY <2>1, <2>2, <2>3, LenProperties DEF ConsumersInv, ReadingGood
    <2>5. offset \in 0 .. Len(nodes) /\ reading.got = SubSeq(nodes, 1, offset)
      <3>1. reading.got = SubSeq(all, 1, offset)
        BY <2>2 DEF ConsumersInv, ReadingGood
      <3>2. CASE offset = 0
        BY <2>4, <3>1, <3>2, SubSeqEmpty
      <3>3. CASE offset > 0
        <4>1. reading.got # << >>
          BY <3>3
        <4>2. reading.generation = tree.generation
          BY <1>5, <3>3
        <4>3. all = nodes
          BY <2>2, <4>1, <4>2 DEF ConsumersInv, ReadingGood
        <4> QED
          BY <2>4, <3>1, <4>3
      <3> QED
        BY <2>4, <3>2, <3>3
    <2>6. PICK l, o, r : l = Len(nodes) /\ o = offset /\ r = rest
      OBVIOUS
    <2>7. Len(r) = l - o
      <3>1. 0 \in 0 .. Len(nodes) - offset
        BY <2>4, <2>5
      <3> HIDE DEF nodes, offset
      <3> QED
        BY <2>1, <2>5, <2>6, <3>1, NextPiece
    <2>8. l \in Nat /\ o \in Nat /\ o <= l
      BY <2>4, <2>5, <2>6
    <2>9. PICK t : t = k
      OBVIOUS
    <2>10. t \in 0 .. l - o /\ (l - o > 0 => t > 0)
      <3>1. Len(r) \in Nat /\ limit \in Nat
        BY <2>7, <2>8, PageAssumption
      <3>2. Taken(r, limit, budget) \in 0 .. Len(r) /\ (Len(r) > 0 => Taken(r, limit, budget) > 0)
        BY <3>1, TakenIs
      <3> QED
        BY <2>6, <2>7, <2>9, <3>2
    <2>11. got = SubSeq(nodes, 1, o + t) /\ Len(got) = o + t
      <3>1. t \in 0 .. Len(nodes) - offset
        BY <2>6, <2>10
      <3>2. /\ SubSeq(nodes, 1, offset) \o SubSeq(rest, 1, t) = SubSeq(nodes, 1, offset + t)
            /\ Len(SubSeq(nodes, 1, offset + t)) = offset + t
        <4> HIDE DEF nodes, offset
        <4> QED
          BY <2>1, <2>5, <3>1, NextPiece
      <3> HIDE DEF nodes, offset, k, rest
      <3> QED
        BY <2>5, <2>6, <2>9, <3>2
    <2>12. o + t \in 0 .. l /\ (l > 0 => o + t > 0)
      BY <2>8, <2>10
    <2>13. nodes # << >> => got # << >>
      <3> SUFFICES ASSUME nodes # << >> PROVE got # << >>
        OBVIOUS
      <3>1. l > 0
        <4> SUFFICES ASSUME l = 0 PROVE FALSE
          BY <2>8
        <4> QED
          BY <2>1, <2>6, EmptySeq
      <3>2. Len(got) > 0
        <4> HIDE DEF got
        <4> QED
          BY <2>11, <2>12, <3>1
      <3> HIDE DEF got
      <3>3. got = << >> => Len(got) = 0
        OBVIOUS
      <3> QED
        BY <3>2, <3>3
    <2>14. o + t = l => got = nodes
      <3>1. SubSeq(nodes, 1, Len(nodes)) = nodes
        BY <2>1, SubSeqFull
      <3> HIDE DEF got, nodes
      <3> QED
        BY <2>6, <2>11, <3>1
    <2>15. PICK v : v = got
      OBVIOUS
    <2>16. PICK w : w = reading'
      OBVIOUS
    <2>17. w = [generation |-> tree.generation, all |-> nodes, got |-> v, done |-> o + t = l]
      <3> HIDE DEF stale, offset, nodes, k, got
      <3> QED
        BY <1>3, <1>5, <2>6, <2>9, <2>15, <2>16
    <2>18. /\ DOMAIN w = {"generation", "all", "got", "done"} /\ w.generation = tree.generation
           /\ w.all = nodes /\ w.got = v /\ w.done = (o + t = l)
      BY <2>17
    <2>19. tree.generation \in Nat /\ tree.generation <= tree.generation
      BY DEF ConsumersInv
    <2>20. Sequential(nodes)
      BY DEF ConsumersInv
    <2>21. Len(v) \in 0 .. Len(nodes) /\ v = SubSeq(nodes, 1, Len(v))
      <3> HIDE DEF got, nodes
      <3> QED
        BY <2>6, <2>11, <2>12, <2>15
    <2>22. ReadingGood(w, tree)
      <3> HIDE DEF got
      <3> QED
        BY <2>13, <2>14, <2>15, <2>18, <2>19, <2>20, <2>21 DEF ReadingGood
    <2> QED
      BY <1>1, <2>16, <2>22
  <1> QED
    BY <1>4, <1>5

(* A compilation brings the copy up to date and leaves readers behind.       *)
LEMMA CompileKeeps ==
    ASSUME ConsumersInv, compile
    PROVE  /\ tree'.generation \in Nat /\ Sequential(tree'.nodes) /\ DifferencesSuffice'
           /\ ReadingGood(reading', tree')
  <1> DEFINE g == tree.generation + 1
             nodes == visit(g)
  <1>1. /\ tree' = [generation |-> g, nodes |-> nodes]
        /\ copy' = Applied(copy, diff_tree(tree.nodes, nodes))
        /\ ambiguous' = (ambiguous \/ ~Unambiguous(tree.nodes) \/ ~Unambiguous(nodes))
        /\ reading' = reading
    BY DEF compile
  <1>2. Sequential(nodes)
    BY CompiledIs DEF ConsumersInv
  <1>3. tree.generation \in Nat /\ Sequential(tree.nodes)
    BY DEF ConsumersInv
  <1> HIDE DEF nodes
  <1>4. tree'.generation = g /\ tree'.nodes = nodes /\ g \in Nat
    BY <1>1, <1>3
  <1>5. DifferencesSuffice'
    <2> SUFFICES ASSUME ~ambiguous' PROVE copy' = Range(tree'.nodes)
      BY DEF DifferencesSuffice
    <2>1. ~ambiguous /\ Unambiguous(tree.nodes) /\ Unambiguous(nodes)
      BY <1>1
    <2>2. copy = Range(tree.nodes)
      BY <2>1 DEF ConsumersInv, DifferencesSuffice
    <2>3. Applied(Range(tree.nodes), diff_tree(tree.nodes, nodes)) = Range(nodes)
      BY <1>2, <1>3, <2>1, DifferenceApplies
    <2> QED
      BY <1>1, <1>4, <2>2, <2>3
  <1>6. ReadingGood(reading, tree')
    <2>1. reading.generation \in Nat /\ reading.generation <= tree.generation
      BY DEF ConsumersInv, ReadingGood
    <2>2. reading.generation <= g /\ reading.generation # g
      BY <1>3, <2>1
    <2> QED
      BY <1>4, <2>2 DEF ConsumersInv, ReadingGood
  <1> QED
    BY <1>1, <1>2, <1>4, <1>5, <1>6

(* Every step of the page keeps it.                                          *)
LEMMA ConsumersSteps == ConsumersInv /\ [Next]_vars => ConsumersInv'
  <1> SUFFICES ASSUME ConsumersInv, [Next]_vars PROVE ConsumersInv'
    OBVIOUS
  <1>1. DocumentInv'
    BY DocumentInvSteps DEF ConsumersInv
  <1>2. CASE UNCHANGED treeVars
    BY <1>1, <1>2 DEF ConsumersInv, DifferencesSuffice, treeVars
  <1>3. CASE compile
    BY <1>1, <1>3, CompileKeeps DEF ConsumersInv
  <1>4. ASSUME NEW l \in Limits, NEW b, page(l, b) PROVE ConsumersInv'
    BY <1>1, <1>4, PageReads DEF ConsumersInv, DifferencesSuffice
  <1>5. ASSUME Mutated PROVE UNCHANGED treeVars
    BY <1>5 DEF Mutated, InsertNode, RemoveNode, SetText, SetAttribute, begin_navigation,
                advance_lifecycle, Changed
  <1>6. ASSUME (\E n : reference(n)) \/ (\E n, b : insert_box(n, b)) \/ (\E n : remove_box(n))
               \/ FrameNext \/ UNCHANGED pageVars
        PROVE  UNCHANGED treeVars
    BY <1>6 DEF reference, insert_box, remove_box, FrameNext, add_child, navigate, pageVars
  <1>7. CASE DocumentNext
    BY <1>2, <1>5, <1>6, <1>7, AllMutate DEF DocumentNext
  <1>8. CASE DiffNext
    BY <1>2, <1>3, <1>5, <1>8, AllMutate DEF DiffNext
  <1>9. CASE PagingNext
    BY <1>2, <1>3, <1>4, <1>5, <1>9, AllMutate
  <1>10. CASE PlanNext
    <2>1. CASE PageChanges
      BY <1>2, <1>3, <1>5, <1>6, <2>1, AllMutate
    <2>2. ASSUME (\E t, a, to, b : plan_internal(t, a, to, b)) \/ execute \/ complete \/ dispatch_error
          PROVE  UNCHANGED pageVars
      BY <2>2 DEF plan_internal, execute, complete, dispatch_error
    <2> QED
      BY <1>2, <1>6, <1>10, <2>1, <2>2 DEF PlanNext
  <1> QED
    BY <1>2, <1>6, <1>7, <1>8, <1>9, <1>10 DEF Next, vars

(* A consumer that follows the page by differences alone has all of it as    *)
(* long as identities were unique, and one that reads it page by page ends   *)
(* up with one tree, whole and in order (diff_tree, PageState::page),        *)
(* whatever the nodes, limits and budgets.                                   *)
THEOREM ConsumersSeeAll == Spec => []ConsumersSeeTheTree
  <1>1. Init => ConsumersInv
    <2> SUFFICES ASSUME Init PROVE ConsumersInv
      OBVIOUS
    <2>1. /\ DocumentInv /\ tree = [generation |-> 0, nodes |-> << >>] /\ copy = {}
          /\ reading = Idle
      BY DocumentInit DEF Init, PageInit
    <2>2. Sequential(<< >>) /\ Range(<< >>) = {} /\ Len(<< >>) = 0 /\ SubSeq(<< >>, 1, 0) = << >>
      <3>1. << >> \in Seq({}) /\ DOMAIN << >> = {}
        OBVIOUS
      <3>2. SubSeq(<< >>, 1, 0) = << >>
        BY SubSeqEmpty
      <3> QED
        BY <3>1, <3>2 DEF Sequential, Range
    <2>3. DifferencesSuffice
      BY <2>1, <2>2 DEF DifferencesSuffice
    <2>4. ReadingGood(reading, tree)
      BY <2>1, <2>2 DEF ReadingGood, Idle
    <2> QED
      BY <2>1, <2>2, <2>3, <2>4 DEF ConsumersInv
  <1>2. ConsumersInv => ConsumersSeeTheTree
    <2> SUFFICES ASSUME ConsumersInv PROVE PagesAddUp
      BY DEF ConsumersInv, ConsumersSeeTheTree
    <2>1. PICK all, got : all = reading.all /\ got = reading.got
      OBVIOUS
    <2>2. /\ Sequential(all) /\ Len(got) \in 0 .. Len(all) /\ got = SubSeq(all, 1, Len(got))
          /\ (all # << >> => got # << >>) /\ (reading.done => got = all)
      BY <2>1 DEF ConsumersInv, ReadingGood
    <2>3. PICK S : all \in Seq(S)
      BY <2>2 DEF Sequential
    <2>4. got \in Seq(S)
      <3>1. Len(all) \in Nat /\ \A i \in 1 .. Len(all) : all[i] \in S
        BY <2>3, LenProperties, ElementOfSeq
      <3>2. Len(got) \in Int /\ \A i \in 1 .. Len(got) : all[i] \in S
        BY <2>2, <3>1
      <3>3. SubSeq(all, 1, Len(got)) \in Seq(S)
        BY <3>2, SubSeqProperties
      <3> QED
        BY <2>2, <3>3
    <2>5. SubSeq(got, 1, Len(got)) = got /\ Len(got) <= Len(all)
      <3>1. Len(all) \in Nat
        BY <2>3, LenProperties
      <3> QED
        BY <2>2, <2>4, <3>1, SubSeqFull
    <2>6. IsPrefix(got, all)
      BY <2>2, <2>5 DEF IsPrefix
    <2> QED
      BY <2>1, <2>2, <2>6 DEF PagesAddUp
  <1> QED
    BY <1>1, <1>2, ConsumersSteps, PTL DEF Spec
=============================================================================
