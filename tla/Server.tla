------------------------------- MODULE Server -------------------------------
(***************************************************************************)
(* The long-running HTTP server (apps/browsai-cli/src/server.rs): one      *)
(* accept-loop thread that serves requests one at a time over a shared     *)
(* ServoEngine with a session per host, and the idle sweeper thread.       *)
(*                                                                         *)
(* The accept-loop thread advances by one engine call at a time, so a tick *)
(* of the clock and the sweeper can fall between any two of them.  A URL   *)
(* stands for its host; paging, rendering and HTTP framing are left out.   *)
(***************************************************************************)
EXTENDS ServoEngine

CONSTANTS Configs,      \* the ServerConfigs considered
          MaxIdle,      \* MAX_IDLE_PER_DOMAIN_SECONDS
          MaxTime,      \* bound on the clock
          MaxRequests,  \* bound on connections
          MaxEvents     \* bound on the native input events of one request

ServerConfig == [live : BOOLEAN, fingerprint : Identities \cup {None},
                 idle : Nat \cup {None}]

ASSUME ServerAssumption ==
    /\ Configs \subseteq ServerConfig
    /\ MaxIdle \in Nat /\ MaxTime \in Nat /\ MaxRequests \in Nat /\ MaxEvents \in Nat

VARIABLES config,
          now,            \* the clock, in seconds
          last_activity,  \* the accept thread's ServerControl
          sweeper_last,   \* last_activity of the sweeper's clone of it
          should_exit,    \* shared by both through the Arc
          active_domains,
          sessions,       \* host -> DomainSession
          exited,         \* the process has ended
          accepted,       \* history: connections accepted
          pc,             \* where the accept-loop thread is
          req             \* the request it serves

serverVars == <<config, now, last_activity, sweeper_last, should_exit, active_domains,
                sessions, exited, accepted, pc, req>>
vars == <<engineVars, serverVars>>

DomainSession == [context : Nat, page : Nat, last_used : Nat,
                  fingerprint : Identities \cup {None}]

Kinds == {"browse", "native_input", "auto_solve"}

\* events counts the native input events still to dispatch; page is 0 until
\* get_or_create_domain has answered.
Request == [kind : Kinds, host : Urls, fingerprint : Identities \cup {None},
            events : 0 .. MaxEvents, page : Nat, context : Nat]

NoRequest == [kind |-> None]

\* Between these program counters the thread works on a request without
\* waiting for its client.
Working == {"domain", "create_context", "create_page", "navigate", "dispatch",
            "settle", "snapshot", "solve", "resnapshot"}

Init ==
    /\ EngineInit
    /\ config \in Configs
    /\ now = 0 /\ last_activity = 0 /\ sweeper_last = 0
    /\ should_exit = FALSE /\ exited = FALSE
    /\ active_domains = 0 /\ sessions = << >>
    /\ accepted = 0 /\ pc = "accept" /\ req = NoRequest
-----------------------------------------------------------------------------
\* Instant::now() moves on.
Tick ==
    /\ ~exited /\ now < MaxTime
    /\ now' = now + 1
    /\ UNCHANGED <<engineVars, config, last_activity, sweeper_last, should_exit,
                   active_domains, sessions, exited, accepted, pc, req>>

\* Mutant: the counter is left to get_or_create_domain.
SweepUncounted ==
    /\ sessions' = [h \in {k \in DOMAIN sessions : now - sessions[k].last_used <= MaxIdle}
                        |-> sessions[h]]
    /\ UNCHANGED active_domains

idle_sweep ==
    LET kept == {h \in DOMAIN sessions : now - sessions[h].last_used <= MaxIdle}
    IN /\ sessions' = [h \in kept |-> sessions[h]]
       /\ active_domains' = Cardinality(kept)

(* One round of run's loop.  After should_exit the loop ends and main        *)
(* returns; otherwise idle sessions are swept, and a connection that was     *)
(* accepted is handed to handle_request, which records the activity.         *)
Accept(ok) ==
    /\ ~exited /\ pc = "accept" /\ accepted < MaxRequests
    /\ accepted' = accepted + 1
    /\ UNCHANGED <<engineVars, config, now, sweeper_last, should_exit, req>>
    /\ IF should_exit
       THEN exited' = TRUE /\ UNCHANGED <<last_activity, active_domains, sessions, pc>>
       ELSE /\ idle_sweep
            /\ UNCHANGED exited
            /\ IF ok THEN last_activity' = now /\ pc' = "read"
                     ELSE UNCHANGED <<last_activity, pc>>

\* Every way to answer or drop the request ends here.
Respond == pc' = "accept" /\ req' = NoRequest

(* handle_request has read the request and route picks its handler.  A       *)
(* broken connection, an endpoint that reads no page state, a missing or     *)
(* malformed field, and auto-solve without a live browser are all answered   *)
(* at once.  /browse, /query and /render pass on no fingerprint.             *)
Dispatch(r) ==
    /\ ~exited /\ pc = "read"
    /\ r.events > 0 <=> r.kind = "native_input"   \* at least one event
    /\ r.page = 0 /\ r.context = 0
    /\ IF r.kind = "auto_solve" /\ ~config.live
       THEN Respond
       ELSE pc' = "domain" /\ req' = r
    /\ UNCHANGED <<engineVars, config, now, last_activity, sweeper_last, should_exit,
                   active_domains, sessions, exited, accepted>>

Reject ==
    /\ ~exited /\ pc = "read"
    /\ Respond
    /\ UNCHANGED <<engineVars, config, now, last_activity, sweeper_last, should_exit,
                   active_domains, sessions, exited, accepted>>

\* Mutant: the body's fingerprint is ignored.
DaemonFingerprint(r) == config.fingerprint

FingerprintOf(r) ==
    IF r.kind # "browse" /\ r.fingerprint # None THEN r.fingerprint ELSE config.fingerprint

\* get_or_create_domain up to its release of the sessions lock.
LookUpDomain ==
    LET h == req.host
        known == h \in DOMAIN sessions
        hit == known /\ sessions[h].fingerprint = FingerprintOf(req)
    IN /\ ~exited /\ pc = "domain"
       /\ UNCHANGED <<engineVars, config, now, last_activity, sweeper_last, should_exit,
                      exited, accepted>>
       /\ \/ /\ hit
             /\ sessions' = [sessions EXCEPT ![h].last_used = now]
             /\ req' = [req EXCEPT !.page = sessions[h].page, !.context = sessions[h].context]
             /\ pc' = IF req.kind = "native_input" THEN "dispatch" ELSE "navigate"
             /\ UNCHANGED active_domains
          \/ /\ ~hit
             /\ sessions' = [k \in DOMAIN sessions \ {h} |-> sessions[k]]
             /\ active_domains' = active_domains - (IF known THEN 1 ELSE 0)
             /\ pc' = "create_context"
             /\ UNCHANGED req

ContextFor(r) ==
    [real |-> config.live, identity |-> FingerprintOf(r),
     clock |-> IF config.live THEN None ELSE 0]

CreateContext ==
    /\ ~exited /\ pc = "create_context"
    /\ create_context(ContextFor(req))
    /\ IF reply'.ok THEN pc' = "create_page" /\ req' = [req EXCEPT !.context = reply'.value]
                    ELSE Respond
    /\ UNCHANGED <<config, now, last_activity, sweeper_last, should_exit, active_domains,
                   sessions, exited, accepted>>

\* create_page, and on success the new session and the counter.
CreatePage ==
    /\ ~exited /\ pc = "create_page"
    /\ create_page(req.context)
    /\ \/ ~reply'.ok /\ Respond /\ UNCHANGED <<active_domains, sessions>>
       \/ /\ reply'.ok
          /\ sessions' = Insert(sessions, req.host,
                            [context |-> req.context, page |-> reply'.value,
                             last_used |-> now, fingerprint |-> FingerprintOf(req)])
          /\ active_domains' = active_domains + 1
          /\ req' = [req EXCEPT !.page = reply'.value]
          /\ pc' = IF req.kind = "native_input" THEN "dispatch" ELSE "navigate"
    /\ UNCHANGED <<config, now, last_activity, sweeper_last, should_exit, exited, accepted>>
-----------------------------------------------------------------------------
(* What the handlers do with the page.  A step that fails answers 500.       *)
Proceed(next) == IF reply'.ok THEN pc' = next /\ UNCHANGED req ELSE Respond

OnlyThread == UNCHANGED <<config, now, last_activity, sweeper_last, should_exit,
                          active_domains, sessions, exited, accepted>>

Navigate ==
    /\ ~exited /\ pc = "navigate"
    /\ navigate(req.page, req.host)
    /\ Proceed("settle")
    /\ OnlyThread

\* Mutant: the events go to the engine's first page.
DispatchToFirst ==
    /\ ~exited /\ pc = "dispatch"
    /\ dispatch_input(1)
    /\ Proceed("settle")
    /\ OnlyThread

\* One event of /native-input: a failure abandons the rest of the gesture.
DispatchEvent ==
    /\ ~exited /\ pc = "dispatch"
    /\ dispatch_input(req.page)
    /\ \/ ~reply'.ok /\ Respond
       \/ /\ reply'.ok
          /\ req' = [req EXCEPT !.events = @ - 1]
          /\ pc' = IF req.events = 1 THEN "settle" ELSE "dispatch"
    /\ OnlyThread

\* Mutant: waiting for a network that is never idle has no upper limit.
SettleForever ==
    /\ ~exited /\ pc = "settle"
    /\ settle(req.page)
    /\ Proceed("settle")
    /\ OnlyThread

\* wait_ms and wait_for_network_idle; snapshot_only answers here.
Settle ==
    /\ ~exited /\ pc = "settle"
    /\ settle(req.page)
    /\ Proceed("snapshot") \/ (req.kind # "auto_solve" /\ Respond)
    /\ OnlyThread

\* /native-input reports a snapshot that fails in its payload.
Snapshot ==
    /\ ~exited /\ pc = "snapshot"
    /\ snapshot(req.page)
    /\ IF req.kind = "auto_solve" THEN Proceed("solve") ELSE Respond
    /\ OnlyThread

(* solve_observed_challenges: it dispatches the events of each challenge,    *)
(* going on after one that fails, and ends in no audit event (the page had   *)
(* no challenge, or the gate denied one), which answers with the first       *)
(* snapshot, or in some, which takes another.                                *)
SolveEvent ==
    /\ ~exited /\ pc = "solve"
    /\ req.events < MaxEvents
    /\ dispatch_input(req.page)
    /\ req' = [req EXCEPT !.events = @ + 1]
    /\ UNCHANGED pc
    /\ OnlyThread

SolveDone ==
    /\ ~exited /\ pc = "solve"
    /\ Respond \/ (req.events > 0 /\ pc' = "resnapshot" /\ UNCHANGED req)
    /\ UNCHANGED engineVars
    /\ OnlyThread

Resnapshot ==
    /\ ~exited /\ pc = "resnapshot"
    /\ snapshot(req.page)
    /\ Respond
    /\ OnlyThread
-----------------------------------------------------------------------------
\* Mutant: the sweeper leaves the exit to the accept loop.
FlagOnly ==
    /\ ~exited /\ ~should_exit
    /\ config.idle # None /\ now - sweeper_last >= config.idle
    /\ should_exit' = TRUE
    /\ UNCHANGED <<engineVars, config, now, last_activity, sweeper_last, active_domains,
                   sessions, exited, accepted, pc, req>>

(* idle_loop: it compares the clock with its own copy of last_activity, made *)
(* by ServerControl::clone before the first request, sets the flag, and then *)
(* ends the process.                                                         *)
idle_loop ==
    /\ ~exited
    /\ config.idle # None /\ now - sweeper_last >= config.idle
    /\ IF should_exit THEN exited' = TRUE /\ UNCHANGED should_exit
                      ELSE should_exit' = TRUE /\ UNCHANGED exited
    /\ UNCHANGED <<engineVars, config, now, last_activity, sweeper_last, active_domains,
                   sessions, accepted, pc, req>>

Serve ==
    \/ LookUpDomain \/ CreateContext \/ CreatePage
    \/ Navigate \/ DispatchEvent \/ Settle \/ Snapshot
    \/ SolveEvent \/ SolveDone \/ Resnapshot

Next ==
    \/ Tick
    \/ \E ok \in BOOLEAN : Accept(ok)
    \/ \E r \in [kind : Kinds, host : Urls, fingerprint : Identities \cup {None},
                 events : {0, MaxEvents}, page : {0}, context : {0}] : Dispatch(r)
    \/ Reject
    \/ Serve
    \/ idle_loop

\* Time passes, the sweeper runs every second, and the accept-loop thread is
\* scheduled while it works; a client need never connect or send anything.
Spec ==
    /\ Init /\ [][Next]_vars
    /\ WF_vars(Tick) /\ WF_vars(idle_loop) /\ WF_vars(Serve)
-----------------------------------------------------------------------------
(* "gives each host its own ContextId + PageId": no two hosts share either,  *)
(* a session's page and context exist in the engine, the context carries the *)
(* session's fingerprint, and the page has only ever been sent to its host.  *)
(* active_domains, which /health reports, is their number although three     *)
(* updates keep it: the sweep stores it, an evicted fingerprint subtracts, a *)
(* new session adds, and one that could not be rebuilt does not.             *)
HostSessionsExact ==
    /\ active_domains = Cardinality(DOMAIN sessions)
    /\ \A h \in DOMAIN sessions :
        LET s == sessions[h]
        IN /\ s.page \in DOMAIN pages /\ s.context \in DOMAIN contexts
           /\ contexts[s.context].identity = s.fingerprint
           /\ contexts[s.context].real => s.page \in real_pages
           /\ pages[s.page].url \in {Blank, h}
           /\ \A g \in DOMAIN sessions \ {h} :
                 sessions[g].page # s.page /\ sessions[g].context # s.context

(* While a request is served, its host's session stays the one it was given, *)
(* under the fingerprint the request asked for: nothing sweeps or rebuilds   *)
(* it between two engine calls.                                              *)
RequestPinned ==
    pc \in Working \ {"domain", "create_context", "create_page"} =>
        /\ req.host \in DOMAIN sessions
        /\ sessions[req.host].page = req.page
        /\ contexts[sessions[req.host].context].identity =
              IF req.kind # "browse" /\ req.fingerprint # None
              THEN req.fingerprint ELSE config.fingerprint

(* At every moment of every request the sessions, the engine behind them and *)
(* the request being served agree (get_or_create_domain, idle_sweep).        *)
HostSessionsHold == HostSessionsExact /\ RequestPinned /\ LiveNeedsRuntime

(* Serving one host never changes a page of another: navigation and native   *)
(* input reach only the page of the request's own session.                   *)
HostsDontInterfere ==
    [][\A h \in DOMAIN sessions :
          pc \in Working /\ h # req.host
             => /\ h \in DOMAIN sessions' /\ sessions'[h] = sessions[h]
                /\ pages'[sessions[h].page] = pages[sessions[h].page]]_vars

(* Every request that has been read is answered or the process ends: no      *)
(* engine call waits for ever.                                               *)
RequestAnswered == (pc \in Working) ~> (pc = "accept" \/ exited)

(* A server started with --idle-shutdown-seconds that is left alone exits,   *)
(* although the accept loop is blocked and cannot look at should_exit.       *)
IdleServerExits == config.idle # None /\ <>[](pc = "accept") => <>exited

(* "exit cleanly after no request has been served for N seconds".            *)
ExitOnlyWhenIdle == exited => now - last_activity >= config.idle
=============================================================================
