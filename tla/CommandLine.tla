---------------------------- MODULE CommandLine -----------------------------
(***************************************************************************)
(* The engine under a caller of any kind, and the one-shot commands: a live *)
(* page with the waits on it and the command that drives it, the listing of *)
(* its links, and the compatibility checker.  A process runs one command,   *)
(* so a behaviour is one of a single part; the waits and the engine's calls *)
(* are looked at on their own, in more detail than a command needs.         *)
(***************************************************************************)
EXTENDS LiveSession, CheckRuns, ServoEngine

CONSTANTS MaxId,           \* bound on the contexts and pages created
          MaxNavigations,  \* bound on navigations
          MaxInputs        \* bound on the inputs a page has taken

VARIABLE part

vars == <<part, liveVars, sessionVars, listVars, checkVars, engineVars>>

Parts == {"load", "evaluate", "idle", "observe", "session", "listing", "corpus", "scheduler",
          "engine"}

Init ==
    /\ part \in Parts
    /\ LiveInit /\ SessionInit /\ CheckInit /\ EngineInit
    /\ part # "session" => command = "live-open" /\ flags = {}
    /\ part # "engine" => feature

Options == [real : {TRUE}, identity : {None}, clock : {0}]
           \cup [real : {FALSE}, identity : {None}, clock : {0, None}]

\* One request for each way the gate can answer.
GateRequests ==
    {q \in ScriptRequests :
        /\ Cardinality({x \in {1, 2, 3} : \/ x = 1 /\ ~q.capability_granted
                                          \/ x = 2 /\ ~q.provenance
                                          \/ x = 3 /\ q.timeout # "within"}) <= 1
        /\ q.timeout # "zero" /\ q.origin \in {None, CHOOSE u \in Urls : TRUE}}

\* Any operation, on ids that exist and on one that does not.
EngineNext ==
    \/ \E o \in Options : next_context < MaxId /\ create_context(o)
    \/ \E c \in 1 .. MaxId : \/ next_page < MaxId /\ create_page(c)
                             \/ advance_time(c, 2)
    \/ \E p \in 1 .. MaxId :
          \/ \E u \in Urls : next_snapshot < MaxNavigations /\ navigate(p, u)
          \/ (p \in DOMAIN pages => pages[p].inputs < MaxInputs) /\ dispatch_input(p)
          \/ snapshot(p) \/ settle(p)
          \/ \E q \in GateRequests, u \in Urls \cup {Blank} :
                evaluate_page_script_checked(p, q, u)

Next ==
    /\ \/ /\ \/ part = "load" /\ LoadNext
             \/ part = "evaluate" /\ EvaluateNext
             \/ part = "idle" /\ IdleNext
             \/ part = "observe" /\ ObserveNext
          /\ UNCHANGED <<sessionVars, listVars, checkVars, engineVars>>
       \/ part = "session" /\ SessionNext /\ UNCHANGED <<listVars, checkVars, engineVars>>
       \/ part = "listing" /\ ListNext /\ UNCHANGED <<checkVars, engineVars>>
       \/ /\ \/ part = "corpus" /\ CorpusNext
             \/ part = "scheduler" /\ SchedulerNext
          /\ UNCHANGED <<liveVars, sessionVars, listVars, engineVars>>
       \/ part = "engine" /\ EngineNext
          /\ UNCHANGED <<liveVars, sessionVars, listVars, checkVars>>
    /\ UNCHANGED part

Spec == Init /\ [][Next]_vars
=============================================================================
