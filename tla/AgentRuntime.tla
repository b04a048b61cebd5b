---------------------------- MODULE AgentRuntime ----------------------------
(***************************************************************************)
(* Agent sessions (crates/agent-runtime, AgentRuntime): their lifecycle,   *)
(* capabilities, quotas and run-time limit.                                *)
(*                                                                         *)
(* A call that is refused without changing anything is not a step.  Page   *)
(* data is its number of bytes.                                            *)
(***************************************************************************)
EXTENDS Integers, FiniteSets

CONSTANTS Sessions,      \* the ids open() hands out
          Policies,      \* SandboxPolicy: what it allows, unattended solving
          Grants,        \* capability sets a session may be opened with
          Limits,        \* AgentLimits
          None,
          MaxTime        \* bound on now_millis

Capability == {"Render", "ExecutePageScript", "ExecuteAgentScript",
               "SolveChallenge", "CredentialSolve"}

SandboxPolicy == [capabilities : SUBSET Capability, allow_unattended_solve : BOOLEAN]
AgentLimits   == [max_actions : Nat, max_events : Nat, max_output_bytes : Nat,
                  max_runtime_millis : Nat]

ASSUME AgentAssumption ==
    /\ Policies \subseteq SandboxPolicy /\ Grants \subseteq SUBSET Capability
    /\ Limits \subseteq AgentLimits
    /\ None \notin Nat /\ MaxTime \in Nat

VARIABLES policy, sessions, now_millis

runtimeVars == <<policy, sessions, now_millis>>

SessionState == {"Unopened", "Created", "Running", "Paused", "Cancelled"}
AgentSession == [state : SessionState, capabilities : SUBSET Capability,
                 limits : AgentLimits, actions_used : Nat, events_used : Nat,
                 output_bytes : Nat, started_at_millis : Nat \cup {None}]

NoLimits == [max_actions |-> 0, max_events |-> 0, max_output_bytes |-> 0,
             max_runtime_millis |-> 0]
Opened(state, caps, limits) ==
    [state |-> state, capabilities |-> caps, limits |-> limits, actions_used |-> 0,
     events_used |-> 0, output_bytes |-> 0, started_at_millis |-> None]

RuntimeInit ==
    /\ policy \in Policies
    /\ sessions = [s \in Sessions |-> Opened("Unopened", {}, NoLimits)]
    /\ now_millis = 0
-----------------------------------------------------------------------------
Frame == UNCHANGED <<policy, now_millis>>

open(s, caps, limits) ==
    /\ sessions[s].state = "Unopened"
    /\ sessions' = [sessions EXCEPT ![s] = Opened("Created", caps, limits)]
    /\ Frame

\* Mutant: a paused session gets a new start time when it resumes.
StartAfresh(s) ==
    /\ sessions[s].state \in {"Created", "Paused"}
    /\ sessions' = [sessions EXCEPT ![s].state = "Running",
                                    ![s].started_at_millis = now_millis]
    /\ Frame

\* start, which also resumes; the run time is not looked at here.
start(s) ==
    /\ sessions[s].state \in {"Created", "Paused"}
    /\ sessions' = [sessions EXCEPT ![s].state = "Running",
                        ![s].started_at_millis = IF @ = None THEN now_millis ELSE @]
    /\ Frame

pause(s) ==
    /\ sessions[s].state = "Running"
    /\ sessions' = [sessions EXCEPT ![s].state = "Paused"]
    /\ Frame

cancel(s) ==
    /\ sessions[s].state \notin {"Unopened", "Cancelled"}
    /\ sessions' = [sessions EXCEPT ![s].state = "Cancelled"]
    /\ Frame

Exceeded(s, now) ==
    /\ sessions[s].started_at_millis # None
    /\ now - sessions[s].started_at_millis >= sessions[s].limits.max_runtime_millis

\* require_running when it lets the caller go on ...
require_running(s) == sessions[s].state = "Running" /\ ~Exceeded(s, now_millis)

\* ... and when a call of any kind finds the run time exceeded.
RuntimeExceeded(s) ==
    /\ sessions[s].state = "Running" /\ Exceeded(s, now_millis)
    /\ sessions' = [sessions EXCEPT ![s].state = "Cancelled"]
    /\ Frame

Allowed(s, capability) ==
    capability \in sessions[s].capabilities /\ capability \in policy.capabilities

\* Mutant: the quota is compared after the action was counted.
ConsumeOneMore(s, capability) ==
    /\ require_running(s) /\ Allowed(s, capability)
    /\ sessions[s].actions_used <= sessions[s].limits.max_actions
    /\ sessions' = [sessions EXCEPT ![s].actions_used = @ + 1]
    /\ Frame

\* consume_action; query_page and evaluate_page_script are calls of it.
consume_action(s, capability) ==
    /\ require_running(s) /\ Allowed(s, capability)
    /\ sessions[s].actions_used < sessions[s].limits.max_actions
    /\ sessions' = [sessions EXCEPT ![s].actions_used = @ + 1]
    /\ Frame

\* Mutant: events are recorded for any session that has been started.
RecordAlways(s) ==
    /\ sessions[s].state \in {"Running", "Paused"}
    /\ sessions[s].events_used < sessions[s].limits.max_events
    /\ sessions' = [sessions EXCEPT ![s].events_used = @ + 1]
    /\ Frame

record_event(s) ==
    /\ require_running(s)
    /\ sessions[s].events_used < sessions[s].limits.max_events
    /\ sessions' = [sessions EXCEPT ![s].events_used = @ + 1]
    /\ Frame

\* The output quota, shared by page data and script results.
Output(s, bytes) ==
    /\ sessions[s].output_bytes + bytes <= sessions[s].limits.max_output_bytes
    /\ sessions' = [sessions EXCEPT ![s].output_bytes = @ + bytes]

capture_page_data(s, bytes) ==
    /\ require_running(s)
    /\ Output(s, bytes)
    /\ Frame

\* advance_time cancels the running sessions whose time is up.
advance_time(elapsed) ==
    /\ now_millis + elapsed <= MaxTime
    /\ now_millis' = now_millis + elapsed
    /\ sessions' = [s \in Sessions |->
            IF sessions[s].state = "Running" /\ Exceeded(s, now_millis')
            THEN [sessions[s] EXCEPT !.state = "Cancelled"] ELSE sessions[s]]
    /\ UNCHANGED policy

\* The host opens the sessions it is asked for.
RuntimeNext(asked, grants, limits) ==
    \/ \E s \in asked :
          \/ \E caps \in grants, l \in limits : open(s, caps, l)
          \/ start(s) \/ pause(s) \/ cancel(s) \/ RuntimeExceeded(s)
          \/ \E c \in {"Render", "ExecutePageScript"} : consume_action(s, c)
          \/ record_event(s)
          \/ \E b \in {1, 2} : capture_page_data(s, b)
    \/ \E elapsed \in {1, 2} : advance_time(elapsed)
-----------------------------------------------------------------------------
(* No session ever uses more than it was opened with, whichever calls draw   *)
(* on the same counter.                                                      *)
QuotasHold ==
    \A s \in Sessions :
        /\ sessions[s].actions_used <= sessions[s].limits.max_actions
        /\ sessions[s].events_used <= sessions[s].limits.max_events
        /\ sessions[s].output_bytes <= sessions[s].limits.max_output_bytes

Used(r) == <<r.actions_used, r.events_used, r.output_bytes>>

(* A session does work only while it is running and its time, counted from   *)
(* its first start, is not up: one that was paused past its deadline can be  *)
(* started again, but nothing it does then counts.  A cancelled session is   *)
(* never touched again.                                                      *)
NoWorkAfterDeadline ==
    [][\A s \in Sessions :
          LET old == sessions[s]
              new == sessions'[s]
          IN /\ Used(new) # Used(old) /\ old.state # "Unopened"
                   => /\ old.state = "Running" /\ new.state = "Running"
                      /\ now_millis - new.started_at_millis < old.limits.max_runtime_millis
             /\ old.state = "Cancelled" => new = old
             /\ old.started_at_millis # None
                   => /\ new.started_at_millis = old.started_at_millis
                      /\ new.limits = old.limits]_runtimeVars
=============================================================================
