--------------------------- MODULE ChallengeSolve ---------------------------
(***************************************************************************)
(* Human takeovers and the gate in front of solving a visible challenge    *)
(* (crates/agent-runtime, TakeoverManager and attempt_solve_challenge).    *)
(* The host passes the runtime's clock as the tick, as the server does.    *)
(***************************************************************************)
EXTENDS AgentRuntime, Sequences

CONSTANTS Takeovers,   \* the ids request() hands out
          MaxAudit,    \* bound on the takeover audit log
          MaxSolves    \* bound on the solves authorised

ASSUME TakeoverAssumption == IsFiniteSet(Takeovers)   \* Uuids

VARIABLES takeovers,   \* TakeoverId -> TakeoverSession
          audit,       \* the TakeoverManager's audit log
          solves       \* history: the SolveAuditEvents returned

takeoverVars == <<takeovers, audit, solves>>

TakeoverState == {"None", "Requested", "Active", "Paused", "Completed", "Expired"}
TakeoverSession == [owner : {"Agent", "Human"}, state : TakeoverState, expires_at_tick : Nat]

TakeoversInit ==
    /\ takeovers = [t \in Takeovers |-> [owner |-> "Agent", state |-> "None",
                                         expires_at_tick |-> 0]]
    /\ audit = << >> /\ solves = {}

Event(t, state) == [takeover_id |-> t, state |-> state, tick |-> now_millis]

\* A request lasts at least one tick.
request(t, timeout_ticks) ==
    /\ takeovers[t].state = "None" /\ Len(audit) < MaxAudit
    /\ takeovers' = [takeovers EXCEPT ![t] =
            [owner |-> "Agent", state |-> "Requested",
             expires_at_tick |-> now_millis + (IF timeout_ticks = 0 THEN 1 ELSE timeout_ticks)]]
    /\ audit' = Append(audit, Event(t, "Requested"))
    /\ UNCHANGED <<runtimeVars, solves>>

\* Mutant: only a completed takeover is final.
TransitionFromExpired(t) == takeovers[t].state \notin {"None", "Completed"}

Open(t) == takeovers[t].state \notin {"None", "Completed", "Expired"}

\* transition, for accept, pause, resume and complete: any state that is not
\* final may go to any other.
transition(t, owner, state) ==
    /\ Open(t) /\ Len(audit) < MaxAudit
    /\ takeovers' = [takeovers EXCEPT ![t].owner = owner, ![t].state = state]
    /\ audit' = Append(audit, Event(t, state))
    /\ UNCHANGED <<runtimeVars, solves>>

accept(t)   == transition(t, "Human", "Active")
pause_takeover(t) == transition(t, "Human", "Paused")
resume(t)   == transition(t, "Human", "Active")
complete(t) == transition(t, "Human", "Completed")

Overdue == {t \in Takeovers : /\ takeovers[t].state \notin {"None", "Completed"}
                              /\ takeovers[t].expires_at_tick <= now_millis}

\* expire: each overdue takeover in id order; what is already final stays.
expire ==
    LET ids == {t \in Overdue : Open(t)}
    IN /\ ids # {} /\ Len(audit) + Cardinality(ids) <= MaxAudit
       /\ takeovers' = [t \in Takeovers |-> IF t \in ids
                            THEN [takeovers[t] EXCEPT !.owner = "Agent", !.state = "Expired"]
                            ELSE takeovers[t]]
       /\ \E order \in [1 .. Cardinality(ids) -> ids] :
             /\ {order[i] : i \in DOMAIN order} = ids
             /\ audit' = audit \o [i \in DOMAIN order |-> Event(order[i], "Expired")]
       /\ UNCHANGED <<runtimeVars, solves>>
-----------------------------------------------------------------------------
\* Mutant: a takeover counts as long as nobody called expire.
HumanInControlIgnoringTime(t) ==
    t # None /\ takeovers[t].owner = "Human" /\ takeovers[t].state = "Active"

HumanInControl(t) ==
    /\ t # None
    /\ takeovers[t].owner = "Human" /\ takeovers[t].state = "Active"
    /\ takeovers[t].expires_at_tick > now_millis

\* The capability_used of the audit event, or None when the gate denies.
CapabilityUsed(s, t) ==
    IF "CredentialSolve" \in sessions[s].capabilities THEN "CredentialSolve"
    ELSE IF HumanInControl(t) THEN "SolveChallenge"
    ELSE IF policy.allow_unattended_solve THEN "SolveChallenge+Unattended"
    ELSE None

\* attempt_solve_challenge, and the two click variants that add the target.
attempt_solve_challenge(s, t) ==
    /\ Cardinality(solves) < MaxSolves
    /\ require_running(s)
    /\ Allowed(s, "SolveChallenge")
    /\ CapabilityUsed(s, t) # None
    /\ solves' = solves \cup {[session |-> s, used |-> CapabilityUsed(s, t), takeover |-> t,
                               tick |-> now_millis]}
    /\ UNCHANGED <<runtimeVars, takeovers, audit>>

TakeoversNext ==
    \/ \E t \in Takeovers : \/ \E ticks \in {0, 2} : request(t, ticks)
                            \/ accept(t) \/ pause_takeover(t) \/ resume(t) \/ complete(t)
    \/ expire
    \/ \E s \in Sessions, t \in Takeovers \cup {None} : attempt_solve_challenge(s, t)
-----------------------------------------------------------------------------
About(t) == {i \in DOMAIN audit : audit[i].takeover_id = t}

(* Every solve the gate let through was covered when it happened: the        *)
(* session had the capability under the policy and time left, and it was     *)
(* solved with a broker credential, unattended under a policy that says so,  *)
(* or during a takeover that, by the audit log, a human had made active      *)
(* before and had not yet ended, and whose deadline had not passed.          *)
SolveWasAuthorised ==
    \A e \in solves :
        LET caps == sessions[e.session].capabilities
        IN /\ "SolveChallenge" \in caps \cap policy.capabilities
           /\ e.tick - sessions[e.session].started_at_millis
                  < sessions[e.session].limits.max_runtime_millis
           /\ e.used = "CredentialSolve" => "CredentialSolve" \in caps
           /\ e.used = "SolveChallenge+Unattended" => policy.allow_unattended_solve
           /\ e.used = "SolveChallenge" =>
                 /\ e.tick < takeovers[e.takeover].expires_at_tick
                 /\ \E i \in About(e.takeover) : audit[i].state = "Active" /\ audit[i].tick <= e.tick
                 /\ \A i \in About(e.takeover) :
                       audit[i].state \in {"Completed", "Expired"} => audit[i].tick >= e.tick

(* The audit log tells the whole story of a takeover: it starts with the     *)
(* request, ends in the takeover's present state, is in time order, and has  *)
(* nothing after the takeover was completed or expired.                      *)
TakeoverAuditTrail ==
    /\ \A i, j \in DOMAIN audit : i < j => audit[i].tick <= audit[j].tick
    /\ \A t \in Takeovers : takeovers[t].state # "None" =>
          \E first, last \in About(t) :
             /\ \A i \in About(t) : first <= i /\ i <= last
             /\ audit[first].state = "Requested"
             /\ audit[last].state = takeovers[t].state
             /\ \A i \in About(t) \ {last} : audit[i].state \notin {"Completed", "Expired"}

(* "the session quota still applies": a session solves no more challenges    *)
(* than it may take actions.                                                 *)
SolvesWithinQuota ==
    \A s \in Sessions : Cardinality({e \in solves : e.session = s})
                           <= sessions[s].limits.max_actions
=============================================================================
