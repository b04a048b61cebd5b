---------------------------- MODULE ServoEngine ----------------------------
(***************************************************************************)
(* The engine facade (crates/engine-servo, impl BrowserEngine for          *)
(* ServoEngine): contexts, pages, snapshots, native input, page script     *)
(* evaluation and the deterministic clock.                                 *)
(*                                                                         *)
(* Every operation is an action that leaves its Result in reply, so that   *)
(* a caller can be modelled one call at a time.  A URL stands for its      *)
(* origin; an identity is the fingerprint a context was created with.      *)
(* Servo itself is outside this repository: its operations may fail at any *)
(* call, and a second construction in one process always does.             *)
(***************************************************************************)
EXTENDS Integers, Sequences, FiniteSets

CONSTANTS Urls, Blank,        \* origins, and about:blank
          Identities, None,   \* profile identities, and the absent value
          MaxClock            \* bound standing for u64::MAX in saturating_add

ASSUME EngineAssumption ==
    /\ Blank \notin Urls /\ None \notin Identities
    /\ MaxClock \in Nat

VARIABLES feature,       \* built with the servo-runtime Cargo feature
          next_context, next_page, next_snapshot,
          contexts,      \* ContextId -> ContextOptions
          pages,         \* PageId -> PageRecord
          real_runtime,  \* a ServoRuntime has been constructed
          real_pages,    \* pages with a live WebView
          opts_set,      \* Servo's process-wide Opts has been initialised
          reply          \* the Result of the last operation

engineVars == <<feature, next_context, next_page, next_snapshot, contexts, pages,
                real_runtime, real_pages, opts_set, reply>>

ContextOptions == [real : BOOLEAN, identity : Identities \cup {None},
                   clock : 0 .. MaxClock \cup {None}]

PageRecord == [url : Urls \cup {Blank}, generation : Nat, snapshot_id : Nat,
               inputs : Nat]

EngineErrors == {"Unsupported", "ContextNotFound", "PageNotFound", "Other",
                 "EvaluationDenied", "MissingProvenance", "EvaluationTimeout"}

Ok(v)  == [ok |-> TRUE, value |-> v, error |-> None]
Err(e) == [ok |-> FALSE, value |-> None, error |-> e]

Replies == [ok : {TRUE}, value : Nat \cup {None}, error : {None}]
           \cup [ok : {FALSE}, value : {None}, error : EngineErrors]

\* HashMap::insert
Insert(f, k, v) == [i \in DOMAIN f \cup {k} |-> IF i = k THEN v ELSE f[i]]

NewPage == [url |-> Blank, generation |-> 0, snapshot_id |-> 0, inputs |-> 0]

EngineInit ==
    /\ feature \in BOOLEAN
    /\ next_context = 0 /\ next_page = 0 /\ next_snapshot = 0
    /\ contexts = << >> /\ pages = << >>
    /\ real_runtime = FALSE /\ real_pages = {}
    /\ opts_set = FALSE
    /\ reply = Ok(None)

---------------------------------------------------------------------------
(* ServoRuntime::new, external: it fails for want of EGL at any time, it     *)
(* may fail before or after it initialised Opts, and it panics when Opts is  *)
(* already initialised.                                                      *)
ConstructServo(ok) ==
    /\ ok => ~opts_set
    /\ opts_set' \in (IF ok \/ opts_set THEN {TRUE} ELSE BOOLEAN)

\* Mutant: the context is stored before Servo is constructed.
CreateContextStoredFirst(options) ==
    /\ UNCHANGED <<feature, next_page, next_snapshot, pages, real_pages>>
    /\ options.real => feature
    /\ next_context' = next_context + 1
    /\ contexts' = Insert(contexts, next_context + 1, options)
    /\ IF options.real /\ ~real_runtime
       THEN \E ok \in BOOLEAN :
               /\ ConstructServo(ok)
               /\ real_runtime' = ok
               /\ reply' = IF ok THEN Ok(next_context + 1) ELSE Err("Other")
       ELSE /\ reply' = Ok(next_context + 1)
            /\ UNCHANGED <<opts_set, real_runtime>>

\* create_context.  The id is consumed before the construction can fail.
create_context(options) ==
    /\ UNCHANGED <<feature, next_page, next_snapshot, pages, real_pages>>
    /\ \/ /\ options.real /\ ~feature
          /\ reply' = Err("Unsupported")
          /\ UNCHANGED <<next_context, contexts, real_runtime, opts_set>>
       \/ /\ options.real /\ feature /\ ~real_runtime
          /\ ConstructServo(FALSE)
          /\ next_context' = next_context + 1
          /\ reply' = Err("Other")
          /\ UNCHANGED <<contexts, real_runtime>>
       \/ /\ options.real => feature
          /\ IF options.real /\ ~real_runtime
             THEN ConstructServo(TRUE) /\ real_runtime' = TRUE
             ELSE UNCHANGED <<opts_set, real_runtime>>
          /\ next_context' = next_context + 1
          /\ contexts' = Insert(contexts, next_context + 1, options)
          /\ reply' = Ok(next_context + 1)

\* create_page.  The record is inserted before the WebView can fail.
create_page(c) ==
    /\ UNCHANGED <<feature, next_context, next_snapshot, contexts, real_runtime, opts_set>>
    /\ \/ /\ c \notin DOMAIN contexts
          /\ reply' = Err("ContextNotFound")
          /\ UNCHANGED <<next_page, pages, real_pages>>
       \/ /\ c \in DOMAIN contexts
          /\ next_page' = next_page + 1
          /\ pages' = Insert(pages, next_page + 1, NewPage)
          /\ \/ /\ contexts[c].real
                /\ reply' = Err("Other")
                /\ UNCHANGED real_pages
             \/ /\ real_pages' = real_pages \cup
                                 (IF contexts[c].real THEN {next_page + 1} ELSE {})
                /\ reply' = Ok(next_page + 1)

\* Mutant: the record is replaced by a fresh one.
NavigateFreshRecord(p, url) ==
    /\ next_snapshot' = next_snapshot + 1
    /\ UNCHANGED <<feature, next_context, next_page, contexts, real_runtime, real_pages, opts_set>>
    /\ p \in DOMAIN pages
    /\ pages' = [pages EXCEPT ![p] = [NewPage EXCEPT !.url = url, !.generation = 1,
                                                     !.snapshot_id = next_snapshot + 1]]
    /\ reply' = Ok(p)

\* navigate.  A snapshot id is consumed even when the page does not exist.
navigate(p, url) ==
    /\ next_snapshot' = next_snapshot + 1
    /\ UNCHANGED <<feature, next_context, next_page, contexts, real_runtime, real_pages, opts_set>>
    /\ \/ /\ p \notin DOMAIN pages
          /\ reply' = Err("PageNotFound")
          /\ UNCHANGED pages
       \/ /\ p \in DOMAIN pages
          /\ pages' = [pages EXCEPT ![p].snapshot_id = next_snapshot + 1,
                                    ![p].url = url,
                                    ![p].generation = @ + 1]
          /\ reply' = Ok(p)

\* dispatch_input.  Only what the WebView took is recorded.
dispatch_input(p) ==
    /\ UNCHANGED <<feature, next_context, next_page, next_snapshot, contexts, real_runtime,
                   real_pages, opts_set>>
    /\ \/ /\ p \notin DOMAIN pages
          /\ reply' = Err("PageNotFound")
          /\ UNCHANGED pages
       \/ /\ p \in real_pages
          /\ reply' = Err("Other")
          /\ UNCHANGED pages
       \/ /\ p \in DOMAIN pages
          /\ pages' = [pages EXCEPT ![p].inputs = @ + 1]
          /\ reply' = Ok(p)

\* snapshot, page_state and the runtime_* readers: projecting a live page may
\* fail; the snapshot carries the id of the last navigation.
snapshot(p) ==
    /\ UNCHANGED <<feature, next_context, next_page, next_snapshot, contexts, pages,
                   real_runtime, real_pages, opts_set>>
    /\ \/ p \notin DOMAIN pages /\ reply' = Err("PageNotFound")
       \/ p \in real_pages      /\ reply' = Err("Other")
       \/ p \in DOMAIN pages    /\ reply' = Ok(pages[p].snapshot_id)

\* pump_runtime followed by wait_for_network_idle, whose failures a caller
\* ignores: nothing the engine keeps is changed.
settle(p) ==
    /\ reply' = IF p \in DOMAIN pages THEN Ok(p) ELSE Err("PageNotFound")
    /\ UNCHANGED <<feature, next_context, next_page, next_snapshot, contexts, pages,
                   real_runtime, real_pages, opts_set>>

saturating_add(a, b) == IF a + b > MaxClock THEN MaxClock ELSE a + b

\* advance_time, only for a context with a deterministic clock.
advance_time(c, millis) ==
    /\ UNCHANGED <<feature, next_context, next_page, next_snapshot, pages, real_runtime,
                   real_pages, opts_set>>
    /\ \/ /\ c \notin DOMAIN contexts
          /\ reply' = Err("ContextNotFound")
          /\ UNCHANGED contexts
       \/ /\ c \in DOMAIN contexts
          /\ contexts[c].clock = None
          /\ reply' = Err("Unsupported")
          /\ UNCHANGED contexts
       \/ /\ c \in DOMAIN contexts
          /\ contexts[c].clock # None
          /\ LET clock == saturating_add(contexts[c].clock, millis)
             IN /\ contexts' = [contexts EXCEPT ![c].clock = clock]
                /\ reply' = Ok(clock)

(* evaluate_page_script_checked.  A request is its origin (None when empty),  *)
(* whether a capability was granted, whether it names a provenance and how    *)
(* its timeout compares with the maximum.  Origins compare without their port *)
(* and "www.", so an origin stands for its scheme and bare host.              *)
ScriptRequests == [origin : Urls \cup {Blank, None}, capability_granted : BOOLEAN,
                   provenance : BOOLEAN, timeout : {"zero", "within", "beyond"}]

ScriptGate(url, q) ==
    IF q.origin = None \/ ~q.capability_granted \/ q.origin # url THEN "EvaluationDenied"
    ELSE IF ~q.provenance          THEN "MissingProvenance"
    ELSE IF q.timeout # "within"   THEN "EvaluationTimeout"
    ELSE "Run"

\* The live page may already show another origin than the record does.
evaluate_page_script_checked(p, q, live) ==
    LET url  == IF p \in real_pages /\ live # Blank THEN live ELSE pages[p].url
        gate == ScriptGate(url, q)
    IN /\ UNCHANGED <<feature, next_context, next_page, next_snapshot, contexts, pages,
                      real_runtime, real_pages, opts_set>>
       /\ \/ p \notin DOMAIN pages /\ reply' = Err("PageNotFound")
          \/ p \in DOMAIN pages /\ gate # "Run" /\ reply' = Err(gate)
          \/ p \in DOMAIN pages /\ gate = "Run"
             /\ reply' \in {Ok(p), Err(IF p \in real_pages THEN "Other" ELSE "Unsupported")}
-----------------------------------------------------------------------------
(* Nothing live exists without the runtime that backs it: a context that     *)
(* asked for the real runtime and a page with a WebView are only there once  *)
(* Servo has been constructed, also after constructions that failed.         *)
LiveNeedsRuntime ==
    /\ real_pages # {} \/ (\E c \in DOMAIN contexts : contexts[c].real) => real_runtime
    /\ real_runtime => feature /\ opts_set

(* A page only moves forward: a step either leaves a page alone, records one *)
(* more input on it, or navigates it to its next generation under a snapshot *)
(* id newer than any handed out before.  It never touches two pages.         *)
PagesMoveForward ==
    [][\A p \in DOMAIN pages :
          \/ pages'[p] = pages[p]
          \/ /\ \/ pages'[p] = [pages[p] EXCEPT !.inputs = @ + 1]
                \/ /\ pages'[p].generation = pages[p].generation + 1
                   /\ pages'[p].inputs = pages[p].inputs
                   /\ \A q \in DOMAIN pages : pages'[p].snapshot_id > pages[q].snapshot_id
             /\ \A q \in DOMAIN pages \ {p} : pages'[q] = pages[q]]_engineVars
===========================================================================
