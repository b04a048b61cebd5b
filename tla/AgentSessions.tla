--------------------------- MODULE AgentSessions ----------------------------
(***************************************************************************)
(* Agent sessions with what runs on top of them: scripts (crates/           *)
(* agent-runtime, AgentScriptRuntime), or the takeovers and the gate in     *)
(* front of solving.  The two share the sessions and nothing else, so a     *)
(* behaviour has one of them.                                               *)
(***************************************************************************)
EXTENDS ChallengeSolve

CONSTANTS MaxScripts,    \* bound on the scripts started
          Solvers,       \* the sessions opened beside takeovers
          SolverGrants, SolverLimits

ASSUME SolverAssumption ==
    /\ Solvers \subseteq Sessions
    /\ SolverGrants \subseteq SUBSET Capability /\ SolverLimits \subseteq AgentLimits

VARIABLES next_id,
          active,     \* AgentScriptId -> the session it runs for
          finished,   \* history: ids whose result was returned, and to whom
          cancelled   \* history: ids cancelled

scriptVars == <<next_id, active, finished, cancelled>>

ScriptsInit == next_id = 0 /\ active = << >> /\ finished = << >> /\ cancelled = {}

Put(f, k, v) == [i \in DOMAIN f \cup {k} |-> IF i = k THEN v ELSE f[i]]
Without(f, k) == [i \in DOMAIN f \ {k} |-> f[i]]

\* start: an empty source or provenance is refused before this.
start_script(s, timeout) ==
    /\ next_id < MaxScripts
    /\ timeout # 0 /\ timeout <= sessions[s].limits.max_runtime_millis
    /\ consume_action(s, "ExecuteAgentScript")
    /\ next_id' = next_id + 1
    /\ active' = Put(active, next_id + 1, s)
    /\ UNCHANGED <<finished, cancelled>>

\* Mutant: the owner is not compared.
FinishForeign(s, id, bytes) ==
    /\ require_running(s)
    /\ id \in DOMAIN active
    /\ Output(s, bytes) /\ Frame
    /\ active' = Without(active, id)
    /\ finished' = Put(finished, id, [owner |-> active[id], to |-> s])
    /\ UNCHANGED <<next_id, cancelled>>

\* finish takes the execution out and, when the owner is another session or
\* the output is too long, puts it back.
finish(s, id, bytes) ==
    /\ require_running(s)
    /\ id \in DOMAIN active /\ active[id] = s
    /\ Output(s, bytes) /\ Frame
    /\ active' = Without(active, id)
    /\ finished' = Put(finished, id, [owner |-> active[id], to |-> s])
    /\ UNCHANGED <<next_id, cancelled>>

cancel_script(s, id) ==
    /\ id \in DOMAIN active /\ active[id] = s
    /\ active' = Without(active, id)
    /\ cancelled' = cancelled \cup {id}
    /\ UNCHANGED <<runtimeVars, next_id, finished>>

ScriptsNext ==
    \E s \in Sessions :
       \/ \E timeout \in 0 .. MaxTime : start_script(s, timeout)
       \/ \E id \in 1 .. MaxScripts : \/ \E bytes \in {0, 1} : finish(s, id, bytes)
                                      \/ cancel_script(s, id)
-----------------------------------------------------------------------------
VARIABLE part
vars == <<part, runtimeVars, scriptVars, takeoverVars>>

Init ==
    /\ RuntimeInit /\ ScriptsInit /\ TakeoversInit
    /\ part \in {"scripts", "takeovers"}
    /\ part = "scripts" => ~policy.allow_unattended_solve  \* only the gate reads it

Next ==
    /\ \/ /\ part = "scripts"
          /\ \/ RuntimeNext(Sessions, Grants, Limits) /\ UNCHANGED scriptVars
             \/ ScriptsNext
          /\ UNCHANGED takeoverVars
       \/ /\ part = "takeovers"
          /\ \/ RuntimeNext(Solvers, SolverGrants, SolverLimits) /\ UNCHANGED takeoverVars
             \/ TakeoversNext
          /\ UNCHANGED scriptVars
    /\ UNCHANGED part

Spec == Init /\ [][Next]_vars
-----------------------------------------------------------------------------
(* Every script that was started is in exactly one place (still active, its  *)
(* result returned once, or cancelled once), whatever failed finishes and    *)
(* cancelled sessions came between; its result went to the session that      *)
(* started it; and each session paid an action for each of its scripts.      *)
ScriptConservation ==
    /\ 1 .. next_id = DOMAIN active \cup DOMAIN finished \cup cancelled
    /\ DOMAIN active \cap DOMAIN finished = {}
    /\ (DOMAIN active \cup DOMAIN finished) \cap cancelled = {}
    /\ \A id \in DOMAIN finished : finished[id].to = finished[id].owner
    /\ \A s \in Sessions :
          Cardinality({id \in DOMAIN active : active[id] = s})
              + Cardinality({id \in DOMAIN finished : finished[id].to = s})
            <= sessions[s].actions_used

(* Sessions pay for what they run, and never more than they were opened with *)
(* (consume_action, AgentScriptRuntime::start, finish and cancel).           *)
WorkIsPaidFor == QuotasHold /\ ScriptConservation
=============================================================================
