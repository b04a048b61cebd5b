-------------------------- MODULE ConfirmationQueue --------------------------
(***************************************************************************)
(* Requests for a human's confirmation of a consequential action           *)
(* (crates/transactions).  The caller passes its clock as the tick and     *)
(* drains the events into a trail of its own.                              *)
(***************************************************************************)
EXTENDS Naturals, Sequences, FiniteSets

CONSTANTS Ids,       \* the Uuids enqueue hands out
          Actors,    \* owners of requests and the actors that answer them
          Timeouts,  \* the timeout_ticks callers ask for
          MaxTime,   \* bound on the caller's clock
          Nobody       \* the actor of an event nobody caused

ASSUME ConfirmationAssumption == /\ Nobody \notin Actors
                                 /\ IsFiniteSet(Ids)
                                 /\ Timeouts \subseteq Nat
                                 /\ MaxTime \in Nat

VARIABLES now,       \* the caller's clock
          requests,  \* BTreeMap<Uuid, ConfirmationRequest>, "None" when absent
          events,    \* the queue's undrained events
          trail      \* the events drained so far, in the order they came out

queueVars == <<now, requests, events, trail>>

Decided == {"Approved", "Denied", "Escalated"}
ConfirmationState == {"None", "Pending", "Expired"} \cup Decided
ConfirmationRequest ==
    [owner : Actors \cup {Nobody}, state : ConfirmationState, expires_at_tick : Nat]
ConfirmationEvent ==
    [id : Ids, actor : Actors \cup {Nobody}, state : ConfirmationState, tick : 0 .. MaxTime]

Event(id, actor, state) == [id |-> id, actor |-> actor, state |-> state, tick |-> now]

QueueInit ==
    /\ now = 0
    /\ requests = [id \in Ids |-> [owner |-> Nobody, state |-> "None", expires_at_tick |-> 0]]
    /\ events = << >> /\ trail = << >>

\* A request lasts at least one tick.
Expiry(timeout_ticks) == now + (IF timeout_ticks = 0 THEN 1 ELSE timeout_ticks)

enqueue(id, owner, timeout_ticks) ==
    /\ requests[id].state = "None"
    /\ requests' = [requests EXCEPT ![id] = [owner |-> owner, state |-> "Pending",
                                            expires_at_tick |-> Expiry(timeout_ticks)]]
    /\ events' = Append(events, Event(id, Nobody, "Pending"))
    /\ UNCHANGED <<now, trail>>

\* Mutant: anyone may answer.
AnswerableByAnyone(id, actor) == requests[id].state = "Pending"

Answerable(id, actor) == requests[id].state = "Pending" /\ requests[id].owner = actor

Late(id) == requests[id].expires_at_tick <= now

\* transition, in time: the request is decided and an event says so.
Decide(id, actor, state) ==
    /\ Answerable(id, actor) /\ ~Late(id)
    /\ requests' = [requests EXCEPT ![id].state = state]
    /\ events' = Append(events, Event(id, actor, state))
    /\ UNCHANGED <<now, trail>>

\* transition, too late: the request expires, and no event is recorded.
TooLate(id, actor) ==
    /\ Answerable(id, actor) /\ Late(id)
    /\ requests' = [requests EXCEPT ![id].state = "Expired"]
    /\ UNCHANGED <<now, events, trail>>

transition(id, actor, state) == Decide(id, actor, state) \/ TooLate(id, actor)

approve(id, actor)  == transition(id, actor, "Approved")
deny(id, actor)     == transition(id, actor, "Denied")
escalate(id, actor) == transition(id, actor, "Escalated")

\* Mutant: expire does not look at what was decided.
OverdueInAnyState == {id \in Ids : requests[id].state \notin {"None", "Expired"} /\ Late(id)}

Overdue == {id \in Ids : requests[id].state = "Pending" /\ Late(id)}

\* expire: every overdue request, in id order.
expire ==
    /\ Overdue # {}
    /\ requests' = [id \in Ids |-> IF id \in Overdue
                                   THEN [requests[id] EXCEPT !.state = "Expired"]
                                   ELSE requests[id]]
    /\ \E order \in [1 .. Cardinality(Overdue) -> Overdue] :
          /\ {order[i] : i \in DOMAIN order} = Overdue
          /\ events' = events \o [i \in DOMAIN order |-> Event(order[i], Nobody, "Expired")]
    /\ UNCHANGED <<now, trail>>

drain_events ==
    /\ events # << >>
    /\ trail' = trail \o events
    /\ events' = << >>
    /\ UNCHANGED <<now, requests>>

\* The caller's clock.
Tick == now < MaxTime /\ now' = now + 1 /\ UNCHANGED <<requests, events, trail>>

QueueNext ==
    \/ \E id \in Ids, a \in Actors :
          \/ \E ticks \in Timeouts : enqueue(id, a, ticks)
          \/ approve(id, a) \/ deny(id, a) \/ escalate(id, a)
    \/ expire \/ drain_events \/ Tick
-----------------------------------------------------------------------------
Trail == trail \o events
About(id) == {i \in DOMAIN Trail : Trail[i].id = id}

(* A request counts as decided only on its owner's word given in time: the   *)
(* trail then holds its enqueueing and exactly one more event, the owner's   *)
(* decision, stamped before the deadline - however answers, expiry and       *)
(* draining were interleaved.                                                *)
DecisionIsTheOwners ==
    \A id \in Ids : requests[id].state \in Decided =>
        /\ Cardinality(About(id)) = 2
        /\ \E i, j \in About(id) :
              /\ i < j /\ Trail[i].state = "Pending"
              /\ Trail[j].state = requests[id].state
              /\ Trail[j].actor = requests[id].owner
              /\ Trail[j].tick < requests[id].expires_at_tick

(* The trail never claims more than the queue did: at most one outcome per   *)
(* request, in time order, and the outcome is the request's present state.   *)
(* It may claim less: a request that an answer found overdue is Expired      *)
(* without an event.                                                         *)
TrailIsTruthful ==
    /\ \A i, j \in DOMAIN Trail : i < j => Trail[i].tick <= Trail[j].tick
    /\ \A id \in Ids : \A i \in About(id) :
          Trail[i].state # "Pending" =>
              /\ Trail[i].state = requests[id].state
              /\ \A j \in About(id) : j <= i

(* What the queue says of a request is what its owner said in time, and the  *)
(* trail says the same (approve, deny, escalate, expire).                    *)
DecisionsAreTruthful == DecisionIsTheOwners /\ TrailIsTruthful
=============================================================================
