------------------------ MODULE AgentSessionsProofs -------------------------
(***************************************************************************)
(* What agent sessions, their scripts and the gate in front of solving keep *)
(* true for any number of sessions and takeovers, any policy and any quota. *)
(***************************************************************************)
EXTENDS AgentSessions, FiniteSetTheorems, SequenceTheorems, TLAPS

(* The sessions: types, quotas, and what the state of a session says of its *)
(* counters and its start time.  Quotas alone are not inductive: a session  *)
(* that is opened must not have used anything before.                       *)
SessionsInv ==
    /\ policy \in SandboxPolicy /\ now_millis \in Nat
    /\ sessions \in [Sessions -> AgentSession]
    /\ QuotasHold
    /\ \A s \in Sessions :
          /\ sessions[s].state = "Unopened" =>
                sessions[s].actions_used = 0 /\ sessions[s].started_at_millis = None
          /\ sessions[s].state = "Running" => sessions[s].started_at_millis # None

(* Steps of the session runtime, under either of its users.                 *)
RuntimeStep ==
    \/ \E s \in Sessions :
          \/ \E caps \in SUBSET Capability, l \in AgentLimits : open(s, caps, l)
          \/ start(s) \/ pause(s) \/ cancel(s) \/ RuntimeExceeded(s)
          \/ \E c \in Capability : consume_action(s, c)
          \/ record_event(s)
          \/ \E b \in Nat : Output(s, b) /\ require_running(s) /\ Frame
    \/ \E elapsed \in Nat : advance_time(elapsed)

(* No session is open to begin with.                                         *)
LEMMA SessionsInit == Init => SessionsInv
  BY AgentAssumption
  DEF Init, RuntimeInit, SessionsInv, AgentAssumption, AgentSession, Opened, NoLimits, SessionState,
      AgentLimits, QuotasHold

(* Every step of the system is, of the sessions, one of these or none.      *)
LEMMA RuntimeSteps == [Next]_vars => RuntimeStep \/ UNCHANGED runtimeVars
  <1> SUFFICES ASSUME [Next]_vars PROVE RuntimeStep \/ UNCHANGED runtimeVars
    OBVIOUS
  <1> USE DEF Capability
  <1>1. ASSUME NEW asked \in SUBSET Sessions, NEW gs \in SUBSET SUBSET Capability,
               NEW ls \in SUBSET AgentLimits, RuntimeNext(asked, gs, ls)
        PROVE  RuntimeStep
    BY <1>1 DEF RuntimeNext, RuntimeStep, capture_page_data
  <1>2. CASE RuntimeNext(Sessions, Grants, Limits)
    BY <1>1, <1>2, AgentAssumption DEF AgentAssumption
  <1>3. CASE RuntimeNext(Solvers, SolverGrants, SolverLimits)
    BY <1>1, <1>3, SolverAssumption DEF SolverAssumption
  <1>4. CASE ScriptsNext
    BY <1>4 DEF ScriptsNext, start_script, finish, cancel_script, RuntimeStep
  <1>5. CASE TakeoversNext
    BY <1>5 DEF TakeoversNext, request, accept, pause_takeover, resume, complete, transition, expire,
                attempt_solve_challenge
  <1> QED
    BY <1>2, <1>3, <1>4, <1>5 DEF Next, vars

(* A session that stays within its quotas may be replaced.                  *)
LEMMA ReplaceSession ==
    ASSUME SessionsInv, NEW s \in Sessions, NEW new \in AgentSession,
           new.actions_used <= new.limits.max_actions,
           new.events_used <= new.limits.max_events,
           new.output_bytes <= new.limits.max_output_bytes,
           new.state # "Unopened", new.state = "Running" => new.started_at_millis # None,
           sessions' = [sessions EXCEPT ![s] = new], Frame
    PROVE  SessionsInv'
  BY DEF SessionsInv, QuotasHold, Frame

(* Every call of the runtime, the scripts, the takeovers and the gate keeps  *)
(* the sessions' invariant.                                                  *)
LEMMA SessionsStep == SessionsInv /\ [Next]_vars => SessionsInv'
  <1> SUFFICES ASSUME SessionsInv, RuntimeStep \/ UNCHANGED runtimeVars PROVE SessionsInv'
    BY RuntimeSteps
  <1> USE AgentAssumption DEF AgentAssumption, AgentSession, SessionState, AgentLimits
  <1>1. CASE UNCHANGED runtimeVars
    BY <1>1 DEF runtimeVars, SessionsInv, QuotasHold
  <1>2. ASSUME NEW s \in Sessions,
               \/ \E caps \in SUBSET Capability, l \in AgentLimits : open(s, caps, l)
               \/ start(s) \/ pause(s) \/ cancel(s) \/ RuntimeExceeded(s)
               \/ \E c \in Capability : consume_action(s, c)
               \/ record_event(s)
               \/ \E b \in Nat : Output(s, b) /\ require_running(s) /\ Frame
        PROVE  SessionsInv'
    <2> DEFINE old == sessions[s]
    <2>1. /\ old \in AgentSession /\ now_millis \in Nat
          /\ old.actions_used <= old.limits.max_actions
          /\ old.events_used <= old.limits.max_events
          /\ old.output_bytes <= old.limits.max_output_bytes
          /\ old.state = "Running" => old.started_at_millis # None
      BY DEF SessionsInv, QuotasHold
    <2>2. ASSUME NEW caps \in SUBSET Capability, NEW l \in AgentLimits, open(s, caps, l)
          PROVE  SessionsInv'
      <3> DEFINE new == Opened("Created", caps, l)
      <3>1. /\ new \in AgentSession /\ new.state = "Created"
            /\ new.actions_used = 0 /\ new.events_used = 0 /\ new.output_bytes = 0
            /\ new.limits = l
        BY DEF Opened
      <3>2. sessions' = [sessions EXCEPT ![s] = new] /\ Frame
        BY <2>2 DEF open
      <3> HIDE DEF new
      <3>3. 0 <= new.limits.max_actions /\ 0 <= new.limits.max_events /\ 0 <= new.limits.max_output_bytes
        BY <3>1
      <3> QED
        BY <3>1, <3>2, <3>3, ReplaceSession
    <2>3. CASE start(s)
      <3> DEFINE at == IF old.started_at_millis = None THEN now_millis ELSE old.started_at_millis
                 new == [old EXCEPT !.state = "Running", !.started_at_millis = at]
      <3>1. sessions' = [sessions EXCEPT ![s] = new] /\ Frame
        BY <2>3 DEF start, SessionsInv
      <3>2. at \in Nat
        BY <2>1
      <3>a. [old EXCEPT !.state = "Running"] \in AgentSession
        BY <2>1
      <3>b. new = [[old EXCEPT !.state = "Running"] EXCEPT !.started_at_millis = at]
        OBVIOUS
      <3>3. /\ new \in AgentSession /\ new.state = "Running" /\ new.started_at_millis # None
            /\ new.limits = old.limits /\ new.actions_used = old.actions_used
            /\ new.events_used = old.events_used /\ new.output_bytes = old.output_bytes
        BY <2>1, <3>2, <3>a, <3>b
      <3> HIDE DEF new
      <3> QED
        BY <2>1, <3>1, <3>3, ReplaceSession
    <2>4. CASE pause(s) \/ cancel(s) \/ RuntimeExceeded(s)
      <3>1. PICK st \in {"Paused", "Cancelled"} :
               sessions' = [sessions EXCEPT ![s] = [old EXCEPT !.state = st]] /\ Frame
        BY <2>4 DEF pause, cancel, RuntimeExceeded, SessionsInv
      <3> DEFINE new == [old EXCEPT !.state = st]
      <3>2. /\ new \in AgentSession /\ new.state = st
            /\ new.limits = old.limits /\ new.actions_used = old.actions_used
            /\ new.events_used = old.events_used /\ new.output_bytes = old.output_bytes
        BY <2>1
      <3> HIDE DEF new
      <3> QED
        BY <2>1, <3>1, <3>2, ReplaceSession DEF new
    <2>5. ASSUME NEW c \in Capability, consume_action(s, c) PROVE SessionsInv'
      <3> DEFINE new == [old EXCEPT !.actions_used = old.actions_used + 1]
      <3>1. sessions' = [sessions EXCEPT ![s] = new] /\ Frame /\ old.state = "Running"
            /\ old.actions_used < old.limits.max_actions
        BY <2>5 DEF consume_action, require_running, SessionsInv
      <3>2. /\ new \in AgentSession /\ new.state = old.state
            /\ new.started_at_millis = old.started_at_millis
            /\ new.limits = old.limits /\ new.actions_used = old.actions_used + 1
            /\ new.events_used = old.events_used /\ new.output_bytes = old.output_bytes
        BY <2>1
      <3>3. new.actions_used <= new.limits.max_actions
        BY <2>1, <3>1, <3>2
      <3> HIDE DEF new
      <3> QED
        BY <2>1, <3>1, <3>2, <3>3, ReplaceSession
    <2>6. CASE record_event(s)
      <3> DEFINE new == [old EXCEPT !.events_used = old.events_used + 1]
      <3>1. sessions' = [sessions EXCEPT ![s] = new] /\ Frame /\ old.state = "Running"
            /\ old.events_used < old.limits.max_events
        BY <2>6 DEF record_event, require_running, SessionsInv
      <3>2. /\ new \in AgentSession /\ new.state = old.state
            /\ new.started_at_millis = old.started_at_millis
            /\ new.limits = old.limits /\ new.actions_used = old.actions_used
            /\ new.events_used = old.events_used + 1 /\ new.output_bytes = old.output_bytes
        BY <2>1
      <3>3. new.events_used <= new.limits.max_events
        BY <2>1, <3>1, <3>2
      <3> HIDE DEF new
      <3> QED
        BY <2>1, <3>1, <3>2, <3>3, ReplaceSession
    <2>7. ASSUME NEW b \in Nat, Output(s, b), require_running(s), Frame PROVE SessionsInv'
      <3> DEFINE new == [old EXCEPT !.output_bytes = old.output_bytes + b]
      <3>1. sessions' = [sessions EXCEPT ![s] = new] /\ old.state = "Running"
            /\ old.output_bytes + b <= old.limits.max_output_bytes
        BY <2>7 DEF Output, require_running, SessionsInv
      <3>2. /\ new \in AgentSession /\ new.state = old.state
            /\ new.started_at_millis = old.started_at_millis
            /\ new.limits = old.limits /\ new.actions_used = old.actions_used
            /\ new.events_used = old.events_used /\ new.output_bytes = old.output_bytes + b
        BY <2>1
      <3> HIDE DEF new
      <3> QED
        BY <2>1, <2>7, <3>1, <3>2, ReplaceSession
    <2> QED
      BY <1>2, <2>2, <2>3, <2>4, <2>5, <2>6, <2>7
  <1>3. ASSUME NEW elapsed \in Nat, advance_time(elapsed) PROVE SessionsInv'
    BY <1>3 DEF advance_time, SessionsInv, QuotasHold
  <1> QED
    BY <1>1, <1>2, <1>3 DEF RuntimeStep
-----------------------------------------------------------------------------
(* What one step may do to a session: it pays, it may start, and what it was *)
(* opened with stays.                                                       *)
Moves(s) ==
    LET old == sessions[s]
        new == sessions'[s]
    IN /\ old.state # "Unopened" =>
             /\ new.state # "Unopened"
             /\ new.limits = old.limits /\ new.capabilities = old.capabilities
       /\ old.started_at_millis # None => new.started_at_millis = old.started_at_millis
       /\ old.actions_used <= new.actions_used
       /\ Used(new) # Used(old) /\ old.state # "Unopened"
             => /\ old.state = "Running" /\ new.state = "Running"
                /\ new.started_at_millis = old.started_at_millis
                /\ ~Exceeded(s, now_millis)
       /\ old.state = "Cancelled" => new = old

(* What a step may do to a session: nothing, open it, or work within its     *)
(* deadline.                                                                 *)
LEMMA SessionsMove ==
    SessionsInv /\ [Next]_vars =>
        policy' = policy /\ now_millis <= now_millis' /\ \A s \in Sessions : Moves(s)
  <1> SUFFICES ASSUME SessionsInv, RuntimeStep \/ UNCHANGED runtimeVars
               PROVE  policy' = policy /\ now_millis <= now_millis' /\ \A s \in Sessions : Moves(s)
    BY RuntimeSteps
  <1> USE AgentAssumption DEF AgentAssumption, AgentSession, SessionState, AgentLimits, SessionsInv,
          Moves, Used
  <1>1. CASE UNCHANGED runtimeVars
    BY <1>1 DEF runtimeVars
  <1>2. ASSUME NEW s \in Sessions,
               \/ \E caps \in SUBSET Capability, l \in AgentLimits : open(s, caps, l)
               \/ start(s) \/ pause(s) \/ cancel(s) \/ RuntimeExceeded(s)
               \/ \E c \in Capability : consume_action(s, c)
               \/ record_event(s)
               \/ \E b \in Nat : Output(s, b) /\ require_running(s) /\ Frame
        PROVE  Frame /\ \A t \in Sessions : Moves(t)
    <2>1. ASSUME NEW t \in Sessions, t # s PROVE sessions'[t] = sessions[t]
      BY <1>2, <2>1 DEF open, start, pause, cancel, RuntimeExceeded, consume_action, record_event, Output
    <2>2. ASSUME NEW t \in Sessions, t # s PROVE Moves(t)
      BY <2>1, <2>2
    <2>3. ASSUME NEW caps \in SUBSET Capability, NEW l \in AgentLimits, open(s, caps, l)
          PROVE  Frame /\ Moves(s)
      BY <2>3 DEF open, Opened
    <2>4. CASE start(s)
      BY <2>4 DEF start
    <2>5. CASE pause(s) \/ cancel(s) \/ RuntimeExceeded(s)
      BY <2>5 DEF pause, cancel, RuntimeExceeded
    <2>6. CASE \E c \in Capability : consume_action(s, c)
      BY <2>6 DEF consume_action, require_running
    <2>7. CASE record_event(s)
      BY <2>7 DEF record_event, require_running
    <2>8. CASE \E b \in Nat : Output(s, b) /\ require_running(s) /\ Frame
      BY <2>8 DEF Output, require_running
    <2> QED
      BY <1>2, <2>2, <2>3, <2>4, <2>5, <2>6, <2>7, <2>8
  <1>3. ASSUME NEW elapsed \in Nat, advance_time(elapsed)
        PROVE  policy' = policy /\ now_millis <= now_millis' /\ \A s \in Sessions : Moves(s)
    BY <1>3 DEF advance_time
  <1> QED
    BY <1>1, <1>2, <1>3 DEF RuntimeStep, Frame

(* Work is done only by a running session with time left, and what was       *)
(* cancelled stays as it was (require_running, start, advance_time).         *)
THEOREM WorkStopsAtTheDeadline == Spec => NoWorkAfterDeadline
  <1> DEFINE A == \A s \in Sessions :
                     LET old == sessions[s]
                         new == sessions'[s]
                     IN /\ Used(new) # Used(old) /\ old.state # "Unopened"
                              => /\ old.state = "Running" /\ new.state = "Running"
                                 /\ now_millis - new.started_at_millis < old.limits.max_runtime_millis
                        /\ old.state = "Cancelled" => new = old
                        /\ old.started_at_millis # None
                              => /\ new.started_at_millis = old.started_at_millis
                                 /\ new.limits = old.limits
  <1>1. SessionsInv /\ [Next]_vars => [A]_runtimeVars
    <2> SUFFICES ASSUME SessionsInv, [Next]_vars, NEW s \in Sessions
                 PROVE  LET old == sessions[s]
                            new == sessions'[s]
                        IN /\ Used(new) # Used(old) /\ old.state # "Unopened"
                                 => /\ old.state = "Running" /\ new.state = "Running"
                                    /\ now_millis - new.started_at_millis < old.limits.max_runtime_millis
                           /\ old.state = "Cancelled" => new = old
                           /\ old.started_at_millis # None
                                 => /\ new.started_at_millis = old.started_at_millis
                                    /\ new.limits = old.limits
      OBVIOUS
    <2>1. Moves(s)
      BY SessionsMove
    <2>2. /\ sessions[s] \in AgentSession /\ now_millis \in Nat
          /\ sessions[s].state = "Unopened" => sessions[s].started_at_millis = None
          /\ sessions[s].state = "Running" => sessions[s].started_at_millis # None
      BY DEF SessionsInv
    <2> QED
      BY <2>1, <2>2, AgentAssumption DEF Moves, Exceeded, AgentSession, AgentLimits, AgentAssumption
  <1> HIDE DEF A
  <1>2. Spec => [][A]_runtimeVars
    BY <1>1, SessionsInit, SessionsStep, PTL DEF Spec
  <1> QED
    BY <1>2 DEF NoWorkAfterDeadline, A
-----------------------------------------------------------------------------
(* The scripts a session has running, and those whose result it was given.  *)
Started(s) == {id \in DOMAIN active : active[id] = s}
(* The finished scripts whose slot went back to a session.                   *)
Returned(s) == {id \in DOMAIN finished : finished[id].to = s}

ScriptsInv == next_id \in Nat /\ ScriptConservation

(* Both are finite: ids are numbers that were handed out.                   *)
LEMMA ScriptsFinite ==
    ASSUME ScriptsInv, NEW s
    PROVE  /\ IsFiniteSet(Started(s)) /\ Cardinality(Started(s)) \in Nat
           /\ IsFiniteSet(Returned(s)) /\ Cardinality(Returned(s)) \in Nat
  <1>1. IsFiniteSet(1 .. next_id)
    BY FS_Interval DEF ScriptsInv
  <1>2. Started(s) \subseteq 1 .. next_id /\ Returned(s) \subseteq 1 .. next_id
    BY DEF ScriptsInv, ScriptConservation, Started, Returned
  <1>3. IsFiniteSet(Started(s)) /\ IsFiniteSet(Returned(s))
    BY <1>1, <1>2, FS_Subset
  <1> QED
    BY <1>3, FS_CardinalityType

(* No script runs to begin with.                                             *)
LEMMA ScriptsInit0 == Init => ScriptsInv
  <1> SUFFICES ASSUME Init PROVE ScriptsInv
    OBVIOUS
  <1>1. /\ next_id = 0 /\ cancelled = {} /\ DOMAIN active = {} /\ DOMAIN finished = {}
        /\ \A s \in Sessions : sessions[s].actions_used = 0
    BY DEF Init, ScriptsInit, RuntimeInit, Opened
  <1>2. \A s \in Sessions : Started(s) = {} /\ Returned(s) = {}
    BY <1>1 DEF Started, Returned
  <1>3. \A s \in Sessions : Cardinality(Started(s)) = 0 /\ Cardinality(Returned(s)) = 0
    BY <1>2, FS_EmptySet
  <1>4. 1 .. next_id = {}
    BY <1>1
  <1> QED
    BY <1>1, <1>3, <1>4 DEF ScriptsInv, ScriptConservation, Started, Returned

(* Starting, finishing and cancelling scripts keep their accounts.           *)
LEMMA ScriptsStep == SessionsInv /\ ScriptsInv /\ [Next]_vars => ScriptsInv'
  <1> SUFFICES ASSUME SessionsInv, ScriptsInv, [Next]_vars PROVE ScriptsInv'
    OBVIOUS
  <1> DEFINE a(s) == Cardinality(Started(s))
             f(s) == Cardinality(Returned(s))
  <1>1. \A s \in Sessions :
           /\ a(s) \in Nat /\ f(s) \in Nat /\ a(s) + f(s) <= sessions[s].actions_used
           /\ sessions[s].actions_used \in Nat /\ sessions'[s].actions_used \in Nat
           /\ sessions[s].actions_used <= sessions'[s].actions_used
    <2> TAKE s \in Sessions
    <2>1. a(s) \in Nat /\ f(s) \in Nat
      BY ScriptsFinite
    <2>2. a(s) + f(s) <= sessions[s].actions_used
      BY DEF ScriptsInv, ScriptConservation, Started, Returned
    <2>3. sessions[s].actions_used \in Nat
      BY DEF SessionsInv, AgentSession
    <2>4. sessions'[s].actions_used \in Nat
      BY SessionsStep DEF SessionsInv, AgentSession
    <2>5. sessions[s].actions_used <= sessions'[s].actions_used
      BY SessionsMove DEF Moves
    <2> QED
      BY <2>1, <2>2, <2>3, <2>4, <2>5
  <1>2. CASE UNCHANGED scriptVars
    BY <1>1, <1>2 DEF scriptVars, ScriptsInv, ScriptConservation, Started, Returned
  <1>3. ASSUME NEW s \in Sessions, NEW timeout, start_script(s, timeout) PROVE ScriptsInv'
    <2> DEFINE n == next_id + 1
    <2>1. /\ n \in Nat /\ n \notin 1 .. next_id /\ next_id' = n /\ 1 .. n = (1 .. next_id) \cup {n}
          /\ DOMAIN active' = DOMAIN active \cup {n} /\ active'[n] = s
          /\ \A id \in DOMAIN active : active'[id] = active[id]
          /\ UNCHANGED <<finished, cancelled>>
      BY <1>3 DEF start_script, Put, ScriptsInv, ScriptConservation
    <2>2. n \notin DOMAIN active /\ n \notin DOMAIN finished /\ n \notin cancelled
      BY <2>1 DEF ScriptsInv, ScriptConservation
    <2>3. Started(s)' = Started(s) \cup {n} /\ n \notin Started(s)
      BY <2>1, <2>2 DEF Started
    <2>4. a(s)' = a(s) + 1
      BY <2>3, ScriptsFinite, FS_AddElement
    <2>5. \A t \in Sessions : Returned(t)' = Returned(t) /\ (t # s => Started(t)' = Started(t))
      BY <2>1, <2>2 DEF Started, Returned
    <2>6. sessions'[s].actions_used = sessions[s].actions_used + 1
      BY <1>3 DEF start_script, consume_action, SessionsInv, AgentSession
    <2>7. \A t \in Sessions : a(t)' + f(t)' <= sessions'[t].actions_used
      BY <1>1, <2>4, <2>5, <2>6
    <2> QED
      BY <2>1, <2>2, <2>7 DEF ScriptsInv, ScriptConservation, Started, Returned
  <1>4. ASSUME NEW s \in Sessions, NEW id, NEW bytes, finish(s, id, bytes) PROVE ScriptsInv'
    <2>1. /\ id \in DOMAIN active /\ active[id] = s
          /\ DOMAIN active' = DOMAIN active \ {id}
          /\ \A j \in DOMAIN active \ {id} : active'[j] = active[j]
          /\ DOMAIN finished' = DOMAIN finished \cup {id}
          /\ finished'[id].to = s /\ finished'[id].owner = s
          /\ UNCHANGED <<next_id, cancelled>>
      BY <1>4 DEF finish, Put, Without
    <2>2. id \notin DOMAIN finished /\ id \notin cancelled /\ id \in 1 .. next_id
      BY <2>1 DEF ScriptsInv, ScriptConservation
    <2>3. \A j \in DOMAIN finished : finished'[j] = finished[j]
      BY <1>4, <2>2 DEF finish, Put
    <2>4. /\ Started(s)' = Started(s) \ {id} /\ id \in Started(s)
          /\ Returned(s)' = Returned(s) \cup {id} /\ id \notin Returned(s)
      BY <2>1, <2>2, <2>3 DEF Started, Returned
    <2>5. a(s)' = a(s) - 1 /\ f(s)' = f(s) + 1
      <3>1. a(s)' = a(s) - 1
        BY <2>4, ScriptsFinite, FS_RemoveElement
      <3>2. f(s)' = f(s) + 1
        BY <2>4, ScriptsFinite, FS_AddElement
      <3> QED
        BY <3>1, <3>2
    <2>6. \A t \in Sessions : t # s => Returned(t)' = Returned(t) /\ Started(t)' = Started(t)
      BY <2>1, <2>2, <2>3 DEF Started, Returned
    <2>7. \A t \in Sessions : a(t)' + f(t)' <= sessions'[t].actions_used
      BY <1>1, <2>5, <2>6
    <2> QED
      BY <2>1, <2>2, <2>3, <2>7 DEF ScriptsInv, ScriptConservation, Started, Returned
  <1>5. ASSUME NEW s \in Sessions, NEW id, cancel_script(s, id) PROVE ScriptsInv'
    <2>1. /\ id \in DOMAIN active /\ active[id] = s
          /\ DOMAIN active' = DOMAIN active \ {id}
          /\ \A j \in DOMAIN active \ {id} : active'[j] = active[j]
          /\ cancelled' = cancelled \cup {id} /\ UNCHANGED <<next_id, finished>>
      BY <1>5 DEF cancel_script, Without
    <2>2. id \notin DOMAIN finished /\ id \in 1 .. next_id
      BY <2>1 DEF ScriptsInv, ScriptConservation
    <2>3. Started(s)' = Started(s) \ {id} /\ id \in Started(s)
      BY <2>1 DEF Started
    <2>4. a(s)' = a(s) - 1
      BY <2>3, ScriptsFinite, FS_RemoveElement
    <2>5. \A t \in Sessions : Returned(t)' = Returned(t) /\ (t # s => Started(t)' = Started(t))
      BY <2>1 DEF Started, Returned
    <2>6. \A t \in Sessions : a(t)' + f(t)' <= sessions'[t].actions_used
      BY <1>1, <2>4, <2>5
    <2> QED
      BY <2>1, <2>2, <2>6 DEF ScriptsInv, ScriptConservation, Started, Returned
  <1> QED
    BY <1>2, <1>3, <1>4, <1>5 DEF Next, vars, ScriptsNext, scriptVars

(* Every script started is active, returned once to its owner or cancelled   *)
(* once, each was paid for, and no session uses more than it was opened with *)
(* (consume_action, AgentScriptRuntime::start, finish and cancel).           *)
THEOREM ScriptsArePaidFor == Spec => []WorkIsPaidFor
  <1>1. SessionsInv /\ ScriptsInv => WorkIsPaidFor
    BY DEF SessionsInv, ScriptsInv, WorkIsPaidFor
  <1> QED
    BY <1>1, SessionsInit, SessionsStep, ScriptsInit0, ScriptsStep, PTL DEF Spec
-----------------------------------------------------------------------------
(* An entry of the takeovers' audit log.                                     *)
TakeoverEvent == [takeover_id : Takeovers, state : TakeoverState, tick : Nat]

(* The audit trail with its types: an event is not from the future, and      *)
(* nothing is said of a takeover before it was requested.                    *)
TakeoversInv ==
    /\ takeovers \in [Takeovers -> TakeoverSession] /\ audit \in Seq(TakeoverEvent)
    /\ \A i \in 1 .. Len(audit) : audit[i].tick <= now_millis
    /\ \A t \in Takeovers : takeovers[t].state = "None" => About(t) = {}
    /\ TakeoverAuditTrail

(* What a step adds to the log: one event for each takeover in T.            *)
Recorded(T, st) ==
    /\ audit' \in Seq(TakeoverEvent) /\ Len(audit) <= Len(audit')
    /\ \A i \in 1 .. Len(audit) : audit'[i] = audit[i]
    /\ \A i \in Len(audit) + 1 .. Len(audit') :
          audit'[i].tick = now_millis /\ audit'[i].state = st /\ audit'[i].takeover_id \in T
    /\ \A t \in T : \E i \in Len(audit) + 1 .. Len(audit') : audit'[i].takeover_id = t
    /\ \A i, j \in Len(audit) + 1 .. Len(audit') :
          audit'[i].takeover_id = audit'[j].takeover_id => i = j

(* The steps of the takeovers: what is requested was not known, and anything *)
(* else happens to an open takeover; deadlines are set by the request.       *)
TakeoverStep(T, st) ==
    /\ T \subseteq Takeovers /\ st \in TakeoverState \ {"None"} /\ Recorded(T, st)
    /\ takeovers' \in [Takeovers -> TakeoverSession]
    /\ \A t \in Takeovers \ T : takeovers'[t] = takeovers[t]
    /\ \A t \in T : takeovers'[t].state = st
    /\ \/ st = "Requested" /\ \A t \in T : takeovers[t].state = "None"
       \/ \A t \in T : Open(t) /\ takeovers'[t].expires_at_tick = takeovers[t].expires_at_tick
    /\ UNCHANGED <<runtimeVars, solves>>

(* One event at the end of the log.                                          *)
LEMMA OneRecorded ==
    ASSUME audit \in Seq(TakeoverEvent), now_millis \in Nat,
           NEW t \in Takeovers, NEW st \in TakeoverState,
           audit' = Append(audit, Event(t, st))
    PROVE  Recorded({t}, st)
  <1> DEFINE e == Event(t, st)
  <1>1. e \in TakeoverEvent /\ e.takeover_id = t /\ e.state = st /\ e.tick = now_millis
    BY DEF Event, TakeoverEvent
  <1> HIDE DEF e
  <1>2. audit' = Append(audit, e)
    BY DEF e
  <1>3. /\ audit' \in Seq(TakeoverEvent) /\ Len(audit') = Len(audit) + 1 /\ Len(audit) \in Nat
        /\ \A i \in 1 .. Len(audit) : audit'[i] = audit[i]
        /\ audit'[Len(audit) + 1] = e
    BY <1>1, <1>2
  <1>4. Len(audit) + 1 .. Len(audit') = {Len(audit) + 1}
    BY <1>3
  <1> QED
    BY <1>1, <1>3, <1>4 DEF Recorded

(* A function on 1 .. n is a sequence of length n.                           *)
LEMMA FunctionIsSeq ==
    ASSUME NEW S, NEW n \in Nat, NEW f \in [1 .. n -> S]
    PROVE  f \in Seq(S) /\ Len(f) = n
  <1>1. f \in Seq(S)
    BY SeqDef
  <1>2. Len(f) \in Nat /\ DOMAIN f = 1 .. Len(f)
    BY <1>1
  <1> QED
    BY <1>1, <1>2

(* expire writes one event for each takeover it ends, in some order.         *)
LEMMA ManyRecorded ==
    ASSUME audit \in Seq(TakeoverEvent), now_millis \in Nat,
           NEW ids \in SUBSET Takeovers, NEW order \in [1 .. Cardinality(ids) -> ids],
           {order[i] : i \in DOMAIN order} = ids,
           audit' = audit \o [i \in DOMAIN order |-> Event(order[i], "Expired")]
    PROVE  Recorded(ids, "Expired")
  <1> DEFINE n == Cardinality(ids)
             more == [i \in 1 .. n |-> Event(order[i], "Expired")]
  <1>1. IsFiniteSet(ids) /\ n \in Nat
    BY TakeoverAssumption, FS_Subset, FS_CardinalityType DEF TakeoverAssumption
  <1>2. Cardinality(1 .. n) = n /\ IsFiniteSet(1 .. n)
    <2> HIDE DEF n
    <2>1. n \in Int /\ 1 \in Int
      BY <1>1
    <2>2. IsFiniteSet(1 .. n) /\ Cardinality(1 .. n) = IF 1 > n THEN 0 ELSE n - 1 + 1
      BY <2>1, FS_Interval
    <2> QED
      BY <1>1, <2>2
  <1>3. order \in Surjection(1 .. n, ids)
    BY DEF Surjection
  <1>4. order \in Injection(1 .. n, ids)
    BY <1>1, <1>2, <1>3, FS_SurjSameCardinalityImpliesInj
  <1>5. \A i, j \in 1 .. n : order[i] = order[j] => i = j
    BY <1>4 DEF Injection, IsInjective
  <1>6. \A i \in 1 .. n : /\ more[i] \in TakeoverEvent /\ more[i].takeover_id = order[i]
                          /\ more[i].state = "Expired" /\ more[i].tick = now_millis
    BY DEF Event, TakeoverEvent, TakeoverState
  <1>7. more \in Seq(TakeoverEvent) /\ Len(more) = n
    BY <1>1, <1>6, FunctionIsSeq
  <1>8. audit' = audit \o more
    OBVIOUS
  <1> HIDE DEF more
  <1>9. /\ audit' \in Seq(TakeoverEvent) /\ Len(audit') = Len(audit) + n /\ Len(audit) \in Nat
        /\ \A i \in 1 .. Len(audit) : audit'[i] = audit[i]
        /\ \A i \in Len(audit) + 1 .. Len(audit) + n : audit'[i] = more[i - Len(audit)]
    <2> HIDE DEF n
    <2>1. Len(audit) \in Nat
      OBVIOUS
    <2> DEFINE all == audit \o more
    <2>2. /\ all \in Seq(TakeoverEvent) /\ Len(all) = Len(audit) + Len(more)
          /\ \A i \in 1 .. Len(audit) + Len(more) :
                all[i] = IF i <= Len(audit) THEN audit[i] ELSE more[i - Len(audit)]
      BY <1>7, ConcatProperties
    <2>3. audit' = all
      BY <1>8
    <2> HIDE DEF all
    <2>4. \A i \in 1 .. Len(audit) : i \in 1 .. Len(audit) + n /\ i <= Len(audit)
      BY <1>1, <2>1
    <2>5. \A i \in Len(audit) + 1 .. Len(audit) + n : i \in 1 .. Len(audit) + n /\ ~(i <= Len(audit))
      BY <1>1, <2>1
    <2> QED
      BY <1>7, <2>1, <2>2, <2>3, <2>4, <2>5
  <1>10. \A i \in Len(audit) + 1 .. Len(audit') : i - Len(audit) \in 1 .. n
    BY <1>1, <1>9
  <1>11. \A i \in Len(audit) + 1 .. Len(audit') :
            /\ audit'[i].takeover_id = order[i - Len(audit)]
            /\ audit'[i].tick = now_millis /\ audit'[i].state = "Expired"
    BY <1>6, <1>9, <1>10, ZenonT(60)
  <1>12. ASSUME NEW t \in ids PROVE \E i \in Len(audit) + 1 .. Len(audit') : audit'[i].takeover_id = t
    <2>1. PICK k \in 1 .. n : order[k] = t
      OBVIOUS
    <2>2. k + Len(audit) \in Len(audit) + 1 .. Len(audit') /\ (k + Len(audit)) - Len(audit) = k
      BY <1>1, <1>9
    <2> QED
      BY <1>11, <2>1, <2>2
  <1>13. ASSUME NEW i \in Len(audit) + 1 .. Len(audit'), NEW j \in Len(audit) + 1 .. Len(audit'),
                audit'[i].takeover_id = audit'[j].takeover_id
         PROVE  i = j
    <2>1. i - Len(audit) = j - Len(audit)
      BY <1>5, <1>10, <1>11, <1>13, ZenonT(60)
    <2> QED
      BY <1>9, <2>1
  <1> HIDE DEF n
  <1>14. Len(audit) <= Len(audit') /\ \A i \in 1 .. n : order[i] \in ids
    BY <1>1, <1>9 DEF n
  <1>15. \A i \in Len(audit) + 1 .. Len(audit') : audit'[i].takeover_id \in ids
    BY <1>10, <1>11, <1>14
  <1> QED
    BY <1>9, <1>11, <1>12, <1>13, <1>14, <1>15, Zenon DEF Recorded

(* Every step is, of the takeovers, one of these, a solve, or none.          *)
LEMMA TakeoverSteps ==
    ASSUME SessionsInv, TakeoversInv, [Next]_vars
    PROVE  \/ \E T, st : TakeoverStep(T, st)
           \/ \E s \in Sessions, t \in Takeovers \cup {None} : attempt_solve_challenge(s, t)
           \/ UNCHANGED takeoverVars
  <1>0. now_millis \in Nat /\ takeovers \in [Takeovers -> TakeoverSession] /\ audit \in Seq(TakeoverEvent)
    BY DEF SessionsInv, TakeoversInv
  <1>1. ASSUME NEW t \in Takeovers, NEW ticks \in {0, 2}, request(t, ticks)
        PROVE  TakeoverStep({t}, "Requested")
    <2>1. Recorded({t}, "Requested")
      BY <1>0, <1>1, OneRecorded DEF request, TakeoverState
    <2> QED
      BY <1>0, <1>1, <2>1 DEF request, TakeoverStep, TakeoverState, TakeoverSession
  <1>2. ASSUME NEW t \in Takeovers, NEW st \in {"Active", "Paused", "Completed"}, transition(t, "Human", st)
        PROVE  TakeoverStep({t}, st)
    <2>1. Recorded({t}, st)
      BY <1>0, <1>2, OneRecorded DEF transition, TakeoverState
    <2>2. takeovers' = [takeovers EXCEPT ![t] = [[takeovers[t] EXCEPT !.owner = "Human"] EXCEPT !.state = st]]
      BY <1>0, <1>2 DEF transition
    <2>3. [takeovers[t] EXCEPT !.owner = "Human"] \in TakeoverSession
      BY <1>0 DEF TakeoverSession
    <2>4. [[takeovers[t] EXCEPT !.owner = "Human"] EXCEPT !.state = st] \in TakeoverSession
      BY <2>3 DEF TakeoverSession, TakeoverState
    <2>5. takeovers'[t].state = st /\ takeovers'[t].expires_at_tick = takeovers[t].expires_at_tick
      BY <1>0, <2>2 DEF TakeoverSession
    <2> QED
      BY <1>0, <1>2, <2>1, <2>2, <2>4, <2>5 DEF transition, TakeoverStep, TakeoverState
  <1>3. ASSUME expire PROVE \E T : TakeoverStep(T, "Expired")
    <2> DEFINE ids == {t \in Overdue : Open(t)}
    <2>1. ids \in SUBSET Takeovers
      BY DEF Overdue
    <2>2. PICK order \in [1 .. Cardinality(ids) -> ids] :
             /\ {order[i] : i \in DOMAIN order} = ids
             /\ audit' = audit \o [i \in DOMAIN order |-> Event(order[i], "Expired")]
      BY <1>3 DEF expire
    <2>3. Recorded(ids, "Expired")
      BY <1>0, <2>1, <2>2, ManyRecorded
    <2>4. /\ takeovers' = [t \in Takeovers |-> IF t \in ids
                            THEN [takeovers[t] EXCEPT !.owner = "Agent", !.state = "Expired"]
                            ELSE takeovers[t]]
          /\ UNCHANGED <<runtimeVars, solves>>
      BY <1>3 DEF expire
    <2>5. \A t \in ids : Open(t)
      OBVIOUS
    <2> HIDE DEF ids
    <2>6. ASSUME NEW t \in ids
          PROVE  /\ takeovers'[t] \in TakeoverSession /\ takeovers'[t].state = "Expired"
                 /\ takeovers'[t].expires_at_tick = takeovers[t].expires_at_tick
      <3>1. takeovers'[t] = [[takeovers[t] EXCEPT !.owner = "Agent"] EXCEPT !.state = "Expired"]
        BY <2>1, <2>4
      <3>2. [takeovers[t] EXCEPT !.owner = "Agent"] \in TakeoverSession
        BY <1>0, <2>1 DEF TakeoverSession
      <3> QED
        BY <1>0, <2>1, <3>1, <3>2 DEF TakeoverSession, TakeoverState
    <2>7. \A t \in Takeovers \ ids : takeovers'[t] = takeovers[t]
      BY <2>4
    <2>8. takeovers' \in [Takeovers -> TakeoverSession]
      BY <1>0, <2>4, <2>6, <2>7
    <2>9. TakeoverStep(ids, "Expired")
      BY <2>1, <2>3, <2>4, <2>5, <2>6, <2>7, <2>8 DEF TakeoverStep, TakeoverState
    <2> QED
      BY <2>9
  <1> QED
    BY <1>1, <1>2, <1>3
    DEF Next, vars, TakeoversNext, accept, pause_takeover, resume, complete, takeoverVars

(* No takeover was requested to begin with.                                  *)
LEMMA TakeoversInit0 == Init => TakeoversInv
  <1> SUFFICES ASSUME Init PROVE TakeoversInv
    OBVIOUS
  <1>1. takeovers \in [Takeovers -> TakeoverSession] /\ \A t \in Takeovers : takeovers[t].state = "None"
    BY DEF Init, TakeoversInit, TakeoverSession, TakeoverState
  <1>2. audit \in Seq(TakeoverEvent) /\ Len(audit) = 0 /\ DOMAIN audit = {}
    BY DEF Init, TakeoversInit
  <1> QED
    BY <1>1, <1>2 DEF TakeoversInv, TakeoverAuditTrail, About

(* The trail of one takeover, after the log grew.                            *)
LEMMA TrailGrows ==
    ASSUME TakeoversInv, NEW T, NEW st, TakeoverStep(T, st), NEW t \in Takeovers
    PROVE  /\ t \notin T => About(t)' = About(t)
           /\ t \in T => \E k \in Len(audit) + 1 .. Len(audit') :
                 About(t)' = About(t) \cup {k} /\ audit'[k].state = st /\ audit'[k].tick = now_millis
           /\ \A i \in About(t) : audit'[i] = audit[i] /\ i \in 1 .. Len(audit)
  <1> USE DEF TakeoverStep, Recorded
  <1>1. /\ Len(audit) \in Nat /\ Len(audit') \in Nat /\ Len(audit) <= Len(audit')
        /\ DOMAIN audit = 1 .. Len(audit) /\ DOMAIN audit' = 1 .. Len(audit')
    BY DEF TakeoversInv
  <1>2. 1 .. Len(audit') = (1 .. Len(audit)) \cup (Len(audit) + 1 .. Len(audit'))
    BY <1>1
  <1>3. \A i \in About(t) : audit'[i] = audit[i] /\ i \in 1 .. Len(audit)
    BY <1>1 DEF About
  <1>4. ASSUME t \notin T PROVE About(t)' = About(t)
    BY <1>1, <1>2, <1>4 DEF About
  <1>5. ASSUME t \in T
        PROVE  \E k \in Len(audit) + 1 .. Len(audit') :
                 About(t)' = About(t) \cup {k} /\ audit'[k].state = st /\ audit'[k].tick = now_millis
    <2>1. PICK k \in Len(audit) + 1 .. Len(audit') : audit'[k].takeover_id = t
      BY <1>5
    <2>2. \A i \in Len(audit) + 1 .. Len(audit') : audit'[i].takeover_id = t => i = k
      BY <2>1
    <2>3. About(t)' = About(t) \cup {k}
      BY <1>1, <1>2, <2>1, <2>2 DEF About
    <2> QED
      BY <2>1, <2>3
  <1> QED
    BY <1>3, <1>4, <1>5

(* Every step of a takeover, its expiry included, is one entry of the log.   *)
LEMMA TakeoversStep == SessionsInv /\ TakeoversInv /\ [Next]_vars => TakeoversInv'
  <1> SUFFICES ASSUME SessionsInv, TakeoversInv, [Next]_vars PROVE TakeoversInv'
    OBVIOUS
  <1>0. now_millis \in Nat /\ now_millis' \in Nat /\ now_millis <= now_millis'
    BY SessionsStep, SessionsMove DEF SessionsInv
  <1>1. CASE UNCHANGED <<takeovers, audit>>
    <2>1. \A i \in 1 .. Len(audit) : audit[i].tick \in Nat
      <3>1. \A i \in 1 .. Len(audit) : audit[i] \in TakeoverEvent
        BY DEF TakeoversInv
      <3> QED
        BY <3>1 DEF TakeoverEvent
    <2>2. \A i \in 1 .. Len(audit) : audit[i].tick <= now_millis'
      BY <1>0, <2>1 DEF TakeoversInv
    <2> QED
      BY <1>1, <2>2 DEF TakeoversInv, TakeoverAuditTrail, About
  <1>2. ASSUME NEW T, NEW st, TakeoverStep(T, st) PROVE TakeoversInv'
    <2>1. /\ Len(audit) \in Nat /\ Len(audit') \in Nat /\ Len(audit) <= Len(audit')
          /\ DOMAIN audit = 1 .. Len(audit) /\ DOMAIN audit' = 1 .. Len(audit')
          /\ audit' \in Seq(TakeoverEvent) /\ takeovers' \in [Takeovers -> TakeoverSession]
          /\ now_millis' = now_millis
      BY <1>2 DEF TakeoversInv, TakeoverStep, Recorded, runtimeVars
    <2>2. \A i \in 1 .. Len(audit') :
             /\ i \in 1 .. Len(audit) => audit'[i] = audit[i]
             /\ i \notin 1 .. Len(audit) => audit'[i].tick = now_millis
      BY <1>2, <2>1 DEF TakeoverStep, Recorded
    <2>3. \A i \in 1 .. Len(audit) : audit[i].tick <= now_millis
      BY DEF TakeoversInv
    <2>4. \A i \in 1 .. Len(audit') : audit'[i].tick <= now_millis'
      BY <1>0, <2>1, <2>2, <2>3
    <2>5. ASSUME NEW i \in 1 .. Len(audit'), NEW j \in 1 .. Len(audit'), i < j
          PROVE  audit'[i].tick <= audit'[j].tick
      <3>1. CASE j \in 1 .. Len(audit)
        BY <2>1, <2>2, <2>5, <3>1 DEF TakeoversInv, TakeoverAuditTrail
      <3>2. CASE j \notin 1 .. Len(audit)
        BY <2>1, <2>2, <2>4, <3>2
      <3> QED
        BY <3>1, <3>2
    <2>6. ASSUME NEW t \in Takeovers, takeovers'[t].state = "None" PROVE About(t)' = {}
      <3>1. t \notin T /\ takeovers'[t] = takeovers[t]
        BY <1>2, <2>6 DEF TakeoverStep
      <3>2. About(t)' = About(t)
        BY <1>2, <3>1, TrailGrows
      <3> QED
        BY <2>6, <3>1, <3>2 DEF TakeoversInv
    <2>7. ASSUME NEW t \in Takeovers, takeovers'[t].state # "None"
          PROVE  \E first, last \in About(t)' :
                    /\ \A i \in About(t)' : first <= i /\ i <= last
                    /\ audit'[first].state = "Requested"
                    /\ audit'[last].state = takeovers'[t].state
                    /\ \A i \in About(t)' \ {last} : audit'[i].state \notin {"Completed", "Expired"}
      <3>1. CASE t \notin T
        <4>1. About(t)' = About(t) /\ takeovers'[t] = takeovers[t] /\ \A i \in About(t) : audit'[i] = audit[i]
          BY <1>2, <3>1, TrailGrows DEF TakeoverStep
        <4> QED
          BY <2>7, <4>1 DEF TakeoversInv, TakeoverAuditTrail
      <3>2. CASE t \in T
        <4>1. PICK k \in Len(audit) + 1 .. Len(audit') :
                 About(t)' = About(t) \cup {k} /\ audit'[k].state = st
          BY <1>2, <3>2, TrailGrows
        <4>2. \A i \in About(t) : audit'[i] = audit[i] /\ i \in 1 .. Len(audit)
          BY <1>2, TrailGrows
        <4>3. \A i \in About(t) : i < k /\ i \in Nat
          BY <2>1, <4>2
        <4>4. takeovers'[t].state = st
          BY <1>2, <3>2 DEF TakeoverStep
        <4>5. CASE takeovers[t].state = "None" /\ st = "Requested"
          <5>1. About(t)' = {k}
            BY <4>1, <4>5 DEF TakeoversInv
          <5> QED
            BY <2>1, <4>1, <4>4, <4>5, <5>1
        <4>6. CASE Open(t)
          <5>1. takeovers[t].state # "None"
            BY <4>6 DEF Open
          <5>2. PICK first \in About(t), last \in About(t) :
                    /\ \A i \in About(t) : first <= i /\ i <= last
                    /\ audit[first].state = "Requested"
                    /\ audit[last].state = takeovers[t].state
                    /\ \A i \in About(t) \ {last} : audit[i].state \notin {"Completed", "Expired"}
            BY <5>1 DEF TakeoversInv, TakeoverAuditTrail
          <5>3. \A i \in About(t) : audit'[i].state \notin {"Completed", "Expired"}
            BY <4>2, <4>6, <5>2 DEF Open
          <5>4. /\ first \in About(t)' /\ k \in About(t)'
                /\ \A i \in About(t)' : first <= i /\ i <= k
                /\ audit'[first].state = "Requested" /\ audit'[k].state = takeovers'[t].state
                /\ \A i \in About(t)' \ {k} : audit'[i].state \notin {"Completed", "Expired"}
            BY <2>1, <4>1, <4>2, <4>3, <4>4, <5>2, <5>3
          <5> QED
            BY <5>4
        <4> QED
          BY <1>2, <3>2, <4>5, <4>6 DEF TakeoverStep
      <3> QED
        BY <3>1, <3>2
    <2> QED
      BY <2>1, <2>4, <2>5, <2>6, <2>7 DEF TakeoversInv, TakeoverAuditTrail
  <1> QED
    BY <1>1, <1>2, TakeoverSteps DEF attempt_solve_challenge, takeoverVars

(* The takeover audit log tells each takeover's whole story, in order, with  *)
(* nothing after its end (TakeoverManager::request, transition, expire).     *)
THEOREM AuditTellsAll == Spec => []TakeoverAuditTrail
  <1>1. TakeoversInv => TakeoverAuditTrail
    BY DEF TakeoversInv
  <1> QED
    BY <1>1, SessionsInit, SessionsStep, TakeoversInit0, TakeoversStep, PTL DEF Spec

(* The solves, with what is needed to see that a later step cannot take an   *)
(* authorisation back: the session is open and started, the takeover known.  *)
SolvesInv ==
    /\ SolveWasAuthorised
    /\ \A e \in solves :
          /\ e.session \in Sessions /\ e.tick \in Nat /\ e.tick <= now_millis
          /\ sessions[e.session].state # "Unopened" /\ sessions[e.session].started_at_millis # None
          /\ e.used = "SolveChallenge" =>
                e.takeover \in Takeovers /\ takeovers[e.takeover].state # "None"

(* Every solve is authorised when it happens, and nothing later takes that   *)
(* back.                                                                     *)
LEMMA SolvesStep == SessionsInv /\ TakeoversInv /\ SolvesInv /\ [Next]_vars => SolvesInv'
  <1> SUFFICES ASSUME SessionsInv, TakeoversInv, SolvesInv, [Next]_vars PROVE SolvesInv'
    OBVIOUS
  <1> DEFINE Session(e) ==
                LET caps == sessions[e.session].capabilities
                IN /\ e.session \in Sessions /\ e.tick \in Nat /\ e.tick <= now_millis
                   /\ sessions[e.session].state # "Unopened"
                   /\ sessions[e.session].started_at_millis # None
                   /\ "SolveChallenge" \in caps \cap policy.capabilities
                   /\ e.tick - sessions[e.session].started_at_millis
                          < sessions[e.session].limits.max_runtime_millis
                   /\ e.used = "CredentialSolve" => "CredentialSolve" \in caps
                   /\ e.used = "SolveChallenge+Unattended" => policy.allow_unattended_solve
             Takeover(e) ==
                /\ e.takeover \in Takeovers /\ takeovers[e.takeover].state # "None"
                /\ e.tick < takeovers[e.takeover].expires_at_tick
                /\ \E i \in About(e.takeover) : audit[i].state = "Active" /\ audit[i].tick <= e.tick
                /\ \A i \in About(e.takeover) :
                      audit[i].state \in {"Completed", "Expired"} => audit[i].tick >= e.tick
  <1>0. SolvesInv <=> \A e \in solves : Session(e) /\ (e.used = "SolveChallenge" => Takeover(e))
    BY DEF SolvesInv, SolveWasAuthorised
  <1>1. SolvesInv' <=> \A e \in solves' : Session(e)' /\ (e.used = "SolveChallenge" => Takeover(e)')
    BY DEF SolvesInv, SolveWasAuthorised
  <1>2. now_millis \in Nat /\ now_millis' \in Nat /\ now_millis <= now_millis' /\ policy' = policy
    BY SessionsStep, SessionsMove DEF SessionsInv
  <1>3. ASSUME NEW e \in solves PROVE Session(e)'
    <2>1. Session(e)
      BY <1>0
    <2>2. Moves(e.session)
      BY <2>1, SessionsMove
    <2>3. /\ sessions'[e.session].state # "Unopened"
          /\ sessions'[e.session].capabilities = sessions[e.session].capabilities
          /\ sessions'[e.session].limits = sessions[e.session].limits
          /\ sessions'[e.session].started_at_millis = sessions[e.session].started_at_millis
      BY <2>1, <2>2 DEF Moves
    <2> QED
      BY <1>2, <2>1, <2>3
  <1>4. CASE UNCHANGED takeoverVars
    BY <1>0, <1>1, <1>3, <1>4 DEF takeoverVars, About
  <1>5. ASSUME NEW T, NEW st, TakeoverStep(T, st) PROVE SolvesInv'
    <2>1. ASSUME NEW e \in solves, e.used = "SolveChallenge" PROVE Takeover(e)'
      <3> DEFINE t == e.takeover
      <3>1. Takeover(e) /\ t \in Takeovers /\ e.tick \in Nat /\ e.tick <= now_millis
        BY <1>0, <2>1
      <3>2. takeovers'[t].state # "None" /\ takeovers'[t].expires_at_tick = takeovers[t].expires_at_tick
        BY <1>5, <3>1 DEF TakeoverStep
      <3>3. /\ \A i \in About(t) : i \in About(t)' /\ audit'[i] = audit[i]
            /\ \A i \in About(t)' \ About(t) : audit'[i].tick = now_millis
        BY <1>5, <3>1, TrailGrows
      <3> QED
        BY <1>2, <3>1, <3>2, <3>3
    <2> QED
      BY <1>1, <1>3, <1>5, <2>1 DEF TakeoverStep
  <1>6. ASSUME NEW s \in Sessions, NEW t \in Takeovers \cup {None}, attempt_solve_challenge(s, t)
        PROVE  SolvesInv'
    <2>1. PICK new : /\ UNCHANGED <<runtimeVars, takeovers, audit>> /\ solves' = solves \cup {new}
                     /\ new = [session |-> s, used |-> CapabilityUsed(s, t), takeover |-> t,
                               tick |-> now_millis]
      BY <1>6 DEF attempt_solve_challenge
    <2>2. ASSUME NEW e \in solves PROVE e.used = "SolveChallenge" => Takeover(e)'
      BY <1>0, <2>1 DEF About
    <2>3. new.session = s /\ new.used = CapabilityUsed(s, t) /\ new.takeover = t /\ new.tick = now_millis
      BY <2>1
    <2>4. /\ sessions[s] \in AgentSession /\ sessions[s].state = "Running"
          /\ sessions[s].started_at_millis # None /\ sessions[s].started_at_millis \in Nat
          /\ ~Exceeded(s, now_millis) /\ Allowed(s, "SolveChallenge") /\ CapabilityUsed(s, t) # None
      BY <1>6 DEF attempt_solve_challenge, require_running, SessionsInv, AgentSession
    <2>5. Session(new)
      BY <1>2, <2>3, <2>4 DEF Exceeded, Allowed, CapabilityUsed, AgentSession, AgentLimits
    <2>6. ASSUME new.used = "SolveChallenge" PROVE Takeover(new)
      <3>1. HumanInControl(t) /\ t \in Takeovers
        BY <2>3, <2>4, <2>6 DEF CapabilityUsed, HumanInControl
      <3>2. PICK first \in About(t), last \in About(t) :
               /\ audit[last].state = "Active"
               /\ \A i \in About(t) \ {last} : audit[i].state \notin {"Completed", "Expired"}
        BY <3>1 DEF TakeoversInv, TakeoverAuditTrail, HumanInControl
      <3>3. audit[last].tick <= now_millis
        BY <3>2 DEF TakeoversInv, About
      <3>4. \A i \in About(t) : audit[i].state \notin {"Completed", "Expired"}
        BY <3>2
      <3> QED
        BY <1>2, <2>3, <3>1, <3>2, <3>3, <3>4 DEF HumanInControl, TakeoversInv, TakeoverSession
    <2>7. Session(new)' /\ (new.used = "SolveChallenge" => Takeover(new)')
      BY <2>1, <2>5, <2>6 DEF runtimeVars, About
    <2> QED
      BY <1>1, <1>3, <2>1, <2>2, <2>7
  <1> QED
    BY <1>4, <1>5, <1>6, TakeoverSteps

(* Every solve was covered when it happened: by the session's capability and *)
(* time, and by a credential, the policy, or a takeover that a human held    *)
(* (attempt_solve_challenge).                                                *)
THEOREM SolvesAreAuthorised == Spec => []SolveWasAuthorised
  <1>1. Init => SolvesInv
    BY DEF Init, TakeoversInit, SolvesInv, SolveWasAuthorised
  <1>2. SolvesInv => SolveWasAuthorised
    BY DEF SolvesInv
  <1> QED
    BY <1>1, <1>2, SessionsInit, SessionsStep, TakeoversInit0, TakeoversStep, SolvesStep, PTL DEF Spec
=============================================================================
