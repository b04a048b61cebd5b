---------------------------- MODULE LiveRuntime -----------------------------
(***************************************************************************)
(* A page of the real browser runtime as the adapter waits for it           *)
(* (crates/engine-servo, ServoRuntimePage): navigation, script evaluation   *)
(* and network idleness are polled under deadlines while the runtime goes   *)
(* its own way, and what the delegate observes is kept up to limits.        *)
(*                                                                          *)
(* The runtime is external: it advances when the event loop is spun.  A     *)
(* document is the number of the load it came from, 0 is about:blank.       *)
(* Time is counted in polls; the code's durations are parameters.           *)
(***************************************************************************)
EXTENDS Naturals, SequencesExt

CONSTANTS MaxLoads, MaxEvaluations,     \* bounds: loads and evaluations of a page
          LoadDeadline, SettleTicks,    \* 15 s and 10 polls
          Timeout, DocumentDeadline,    \* an evaluation's, and the 8 s it may wait for a document
          IdleTime, GraceTime, MaxWait, \* --idle-ms, --idle-grace-ms, --idle-max-ms
          MaxTime,                      \* bound on the clock
          RequestLimit, ConsoleLimit, ConsoleBytes, MessageSizes,
          MaxObserved                   \* bound on requests and messages

ASSUME LiveAssumption ==
    /\ {MaxLoads, MaxEvaluations, LoadDeadline, DocumentDeadline, IdleTime, GraceTime,
        MaxWait, MaxTime, RequestLimit, ConsoleLimit, ConsoleBytes, MaxObserved} \subseteq Nat
    /\ {SettleTicks, Timeout} \subseteq Nat \ {0} /\ MessageSizes \subseteq Nat

VARIABLES clock,
          web,       \* the runtime: document, load status, queued and running loads
          wait,      \* the wait under way, or one of kind "none"
          returned,  \* history: how the last wait ended
          slots,     \* answers of the evaluations, by number
          noise,     \* history: the last poll of an idle wait that saw activity
          seen       \* the delegate's histories, and history: what there was to see

liveVars == <<clock, web, wait, returned, slots, noise, seen>>

\* The fields of two records.
Joined(f, g) == [x \in DOMAIN f \cup DOMAIN g |-> IF x \in DOMAIN f THEN f[x] ELSE g[x]]

Waiting(kind, until) == [kind |-> kind, since |-> clock, until |-> until]
NoWait == [kind |-> "none"]

LiveInit ==
    /\ clock = 0
    /\ web = [doc |-> 0, status |-> "Complete", queue |-> << >>, loading |-> 0, issued |-> 0,
              scripts |-> {}, mutated |-> 0]
    /\ wait = NoWait /\ returned = NoWait /\ slots = << >> /\ noise = 0
    /\ seen = [requests |-> << >>, truncated |-> FALSE, console |-> << >>, all |-> << >>]
-----------------------------------------------------------------------------
(* The runtime: a queued load starts, commits (or fails to about:blank) and   *)
(* completes; a script is run.                                                *)

RuntimeSteps(w) ==
    {w}
    \cup (IF w.queue = << >> THEN {} ELSE
            {[w EXCEPT !.queue = Tail(@), !.loading = Head(w.queue), !.status = "Loading"]})
    \cup (IF w.loading = 0 THEN {} ELSE {[w EXCEPT !.doc = d, !.loading = 0] : d \in {0, w.loading}})
    \cup (IF w.loading = 0 /\ w.status = "Loading" THEN {[w EXCEPT !.status = "Complete"]} ELSE {})

\* spin_event_loop: any of it may happen, also a whole load at once.
Spun(w) == UNION {UNION {RuntimeSteps(v) : v \in RuntimeSteps(u)} : u \in RuntimeSteps(w)}

Queued(w) == [w EXCEPT !.queue = Append(@, w.issued + 1), !.issued = @ + 1]

Quiet(w) == w.queue = << >> /\ w.loading = 0 /\ w.status = "Complete"
-----------------------------------------------------------------------------
(* ServoRuntimePage::load *)

load ==
    /\ wait.kind = "none" /\ web.issued < MaxLoads /\ clock + LoadDeadline < MaxTime
    /\ web' = Queued(web)
    /\ wait' = Joined(Waiting("load", clock + LoadDeadline),
                      [saw_loading |-> web.status # "Complete", saw_nonblank |-> FALSE,
                       settled |-> 0, wanted |-> web.issued + 1, quiet |-> Quiet(web)])
    /\ UNCHANGED <<clock, returned, slots, noise, seen>>

Return(result) == wait' = NoWait /\ returned' = Joined(wait, Joined([clock |-> clock], result))

\* Mutant: a complete document at some address is taken for the one asked for.
SettlesAtOnce(w, was_loading) == w.doc # 0 /\ w.status = "Complete"

Settles(w, was_loading) == w.doc # 0 /\ was_loading /\ w.status = "Complete"

\* One turn of the loop: spin, look, sleep.
load_poll ==
    /\ wait.kind = "load" /\ clock < wait.until
    /\ \E w \in Spun(web) :
          LET nonblank == wait.saw_nonblank \/ w.doc # 0
              loading == wait.saw_loading \/ w.status # "Complete"
              settled == IF Settles(w, loading) THEN wait.settled + 1 ELSE 0
              blanked == nonblank /\ w.doc = 0 /\ w.status = "Complete"
          IN /\ web' = w
             /\ IF blanked \/ settled >= SettleTicks
                THEN Return([early |-> TRUE]) /\ clock' = clock
                ELSE /\ wait' = [wait EXCEPT !.saw_nonblank = nonblank, !.saw_loading = loading,
                                             !.settled = settled]
                     /\ clock' = clock + 1 /\ UNCHANGED returned
    /\ UNCHANGED <<slots, noise, seen>>

load_deadline ==
    /\ wait.kind = "load" /\ clock >= wait.until
    /\ Return([early |-> FALSE])
    /\ UNCHANGED <<clock, web, slots, noise, seen>>
-----------------------------------------------------------------------------
(* ServoRuntimePage::evaluate_javascript_bounded: the callback of evaluation  *)
(* n fills the slot n, whether or not anyone still waits for it.              *)

evaluate_javascript ==
    /\ wait.kind = "none" /\ Len(slots) < MaxEvaluations /\ clock + Timeout + DocumentDeadline < MaxTime
    /\ wait' = Waiting("document", clock + IF Timeout < DocumentDeadline THEN Timeout
                                                                        ELSE DocumentDeadline)
    /\ UNCHANGED <<clock, web, returned, slots, noise, seen>>

\* The script goes out once there is a document, or no time left to wait for one.
document_poll ==
    /\ wait.kind = "document"
    /\ IF clock >= wait.until \/ web.status = "Complete" \/ web.doc # 0
       THEN /\ slots' = Append(slots, << >>)
            /\ web' = [web EXCEPT !.scripts = @ \cup {Len(slots) + 1}]
            /\ wait' = Waiting("answer", clock + Timeout) /\ UNCHANGED clock
       ELSE web' \in Spun(web) /\ clock' = clock + 1 /\ UNCHANGED <<wait, slots>>
    /\ UNCHANGED <<returned, noise, seen>>

\* Mutant: one slot for all evaluations.
CalledBackShared(n) == [slots EXCEPT ![Len(slots)] = <<n>>]

CalledBack(n) == [slots EXCEPT ![n] = <<n>>]

\* Spinning runs the scripts that are due, in order, or none of them.
answer_poll ==
    /\ wait.kind = "answer"
    /\ \/ web.scripts # {} /\ LET n == Min(web.scripts)
                              IN slots' = CalledBack(n) /\ web' = [web EXCEPT !.scripts = @ \ {n}]
       \/ UNCHANGED <<slots, web>>
    /\ clock < wait.until
    /\ IF Last(slots') # << >>
       THEN Return([answer |-> Last(slots')[1], asked |-> Len(slots)]) /\ UNCHANGED clock
       ELSE clock' = clock + 1 /\ UNCHANGED <<wait, returned>>
    /\ UNCHANGED <<noise, seen>>

answer_timeout ==
    /\ wait.kind = "answer" /\ clock >= wait.until
    /\ Return([answer |-> 0])
    /\ UNCHANGED <<clock, web, slots, noise, seen>>
-----------------------------------------------------------------------------
(* ServoEngine::wait_for_network_idle_blocking *)

wait_for_network_idle ==
    /\ wait.kind = "none"
    /\ LET longest == Max({MaxWait, IdleTime + GraceTime, 1})
       IN /\ clock + longest + 1 < MaxTime
          /\ wait' = Joined(Waiting("idle", clock + longest), [idle_since |-> << >>])
    /\ noise' = clock
    /\ UNCHANGED <<clock, web, returned, slots, seen>>

\* Mutant: activity in between does not start the count again.
IdleSinceFirst(quiet, was) == IF quiet /\ was = << >> THEN <<clock>> ELSE was

IdleSince(quiet, was) == IF ~quiet THEN << >> ELSE IF was = << >> THEN <<clock>> ELSE was

\* busy: requests or images in flight, a document not complete, the scroll
\* unfinished, or a page that did not answer the poll's script.
idle_poll ==
    /\ wait.kind = "idle" /\ clock < wait.until
    /\ \E busy, mutates \in BOOLEAN :
          LET mutated == IF mutates THEN clock ELSE web.mutated
              quiet == ~busy /\ clock - mutated >= IdleTime + GraceTime
              since == IdleSince(quiet, wait.idle_since)
          IN /\ web' = [web EXCEPT !.mutated = mutated]
             /\ noise' = IF quiet THEN noise ELSE clock
             /\ IF quiet /\ clock - since[1] >= Max({IdleTime, 1})
                THEN Return([early |-> TRUE]) /\ UNCHANGED clock
                ELSE /\ wait' = [wait EXCEPT !.idle_since = since]
                     /\ clock' = clock + 1 /\ UNCHANGED returned
    /\ UNCHANGED <<slots, seen>>

idle_deadline ==
    /\ wait.kind = "idle" /\ clock >= wait.until
    /\ Return([early |-> FALSE])
    /\ UNCHANGED <<clock, web, slots, noise, seen>>
-----------------------------------------------------------------------------
(* RuntimeWebViewDelegate *)

Observed ==
    /\ Len(seen.all) < MaxObserved
    /\ UNCHANGED <<clock, web, wait, returned, slots, noise>>

load_web_resource ==
    /\ Observed
    /\ LET kept == Len(seen.requests) < RequestLimit
           n == Len(seen.all) + 1
       IN seen' = [seen EXCEPT !.all = Append(@, 0),
                               !.requests = IF kept THEN Append(@, n) ELSE @,
                               !.truncated = @ \/ ~kept]

Marker == [n |-> 0, size |-> 1]
Bytes(console) == FoldSeq(LAMBDA m, total : total + m.size, 0, console)

\* Mutant: the marker is written once, after the first loss.
MarkedOnce(console) == IF \E i \in DOMAIN console : console[i] = Marker THEN console ELSE Append(console, Marker)

Marked(console) ==
    IF console # << >> /\ Last(console) = Marker THEN console ELSE Append(console, Marker)

show_console_message(size) ==
    /\ Observed
    /\ LET n == Len(seen.all) + 1
           full == Len(seen.console) >= ConsoleLimit \/ Bytes(seen.console) + size > ConsoleBytes
       IN seen' = [seen EXCEPT !.all = Append(@, n),
                               !.console = IF full THEN Marked(@)
                                           ELSE Append(@, [n |-> n, size |-> size])]
-----------------------------------------------------------------------------
\* A script of the page navigates it.
page_navigates ==
    /\ wait.kind = "none" /\ web.issued = 0
    /\ web' = Queued(web)
    /\ UNCHANGED <<clock, wait, returned, slots, noise, seen>>

LoadNext == load \/ load_poll \/ load_deadline
EvaluateNext ==
    evaluate_javascript \/ document_poll \/ answer_poll \/ answer_timeout \/ page_navigates
IdleNext == wait_for_network_idle \/ idle_poll \/ idle_deadline
ObserveNext == load_web_resource \/ \E s \in MessageSizes : show_console_message(s)
-----------------------------------------------------------------------------
(* A wait that ends before its deadline ends for the reason it was begun: a  *)
(* load with its own document, or a blank one, never with the page before    *)
(* it (unless that one was itself still loading); an evaluation with the     *)
(* answer to its own script, even if the answers to scripts that timed out   *)
(* come in later; an idle wait after a whole idle period in which no poll    *)
(* saw activity and nothing changed the document for that and the grace.     *)
WaitsEndForTheirReason ==
    /\ returned.kind = "load" /\ returned.early /\ returned.quiet /\ wait.kind = "none"
          => web.doc \in {returned.wanted, 0}
    /\ returned.kind = "answer" /\ returned.answer # 0 => returned.answer = returned.asked
    /\ returned.kind = "idle" /\ returned.early /\ wait.kind = "none" =>
          /\ returned.clock - Max({noise, returned.since}) >= IdleTime
          /\ returned.clock - web.mutated >= IdleTime + GraceTime

(* What the page's histories leave out is announced: the recorded requests   *)
(* are the first ones, and flagged if there were more; between two recorded  *)
(* messages that did not follow one another, and after the last one, stands  *)
(* the marker.                                                               *)
LossIsAnnounced ==
    LET requests == {i \in DOMAIN seen.all : seen.all[i] = 0}
        messages == DOMAIN seen.all \ requests
        lost == {i \in messages : \A k \in DOMAIN seen.console : seen.console[k].n # i}
        console == seen.console
    IN /\ ToSet(seen.requests) \subseteq requests
       /\ \A i \in requests, j \in ToSet(seen.requests) : i < j => i \in ToSet(seen.requests)
       /\ seen.truncated <=> requests # ToSet(seen.requests)
       /\ \A i \in lost : \E k \in DOMAIN console :
             /\ console[k] = Marker
             /\ \A j \in 1 .. k - 1 : console[j].n < i
             /\ \A j \in k + 1 .. Len(console) : console[j].n = 0 \/ console[j].n > i
       /\ Len(console) <= ConsoleLimit + 1
=============================================================================
