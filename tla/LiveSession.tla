---------------------------- MODULE LiveSession -----------------------------
(***************************************************************************)
(* The commands that drive one live page from start to exit                 *)
(* (apps/browsai-cli, live-open and live-search): stages that each may fail *)
(* and end the command, snapshots taken of a page that goes on changing,    *)
(* clicks planned on a snapshot and dispatched into whatever the page is by *)
(* then, and the report at the end.  The page is LiveRuntime's; a snapshot  *)
(* is the document it shows and the number of its links.                    *)
(***************************************************************************)
EXTENDS LiveRuntime

CONSTANTS Address,       \* the address of each load; a reload has the one before
          MaxLinks,      \* bound on the links of a document
          Flags,         \* sets of the command's options in use
          MaxClicks,     \* --link-limit, or the two links live-search opens
          MaxProbes,     \* controls probed
          MaxSnapshots,  \* tries of snapshot_after_settle
          LinkSizes,     \* bytes of a listed link
          LinkLimits, LinkBytes   \* --link-limit and --link-max-bytes in use

ASSUME SessionAssumption ==
    /\ Address \in [0 .. MaxLoads -> Nat]
    /\ {MaxLinks, MaxClicks, MaxProbes, MaxSnapshots} \subseteq Nat
    /\ LinkSizes \cup LinkLimits \cup LinkBytes \subseteq Nat

VARIABLES command,   \* "live-open" or "live-search"
          flags,     \* its options
          stage,     \* what it does next; "done" and "failed" end it
          view,      \* [doc, links] the commands works from; doc 0 is also "none yet"
          tries,     \* snapshots that failed in a row
          began,     \* address at which the click loop began
          offered,   \* the links listed to be clicked
          todo,      \* targets left in the loop under way
          controls,  \* how many controls there are to probe
          clicked, probed, skipped,
          solved,    \* whether auto_solve_audit has an event
          presses,   \* history: the document each click was made for and the one it hit
          final_url, \* address read for the report, before its diagnostics
          report,    \* {} or {the JSON written}
          listing    \* the links of a page listed over several calls: sizes, cursor, answers

sessionVars == <<command, flags, stage, view, tries, began, offered, todo, controls, clicked,
                 probed, skipped, solved, presses, final_url, report>>
listVars == <<listing>>
loopVars == <<began, offered, todo, controls, clicked, probed, skipped, presses>>

SessionInit ==
    /\ command \in {"live-open", "live-search"} /\ flags \in Flags
    /\ stage = "startup"
    /\ view = [doc |-> 0, links |-> 0] /\ tries = 0 /\ began = 0 /\ offered = << >> /\ todo = << >>
    /\ controls = 0 /\ clicked = << >> /\ probed = << >> /\ skipped = << >>
    /\ solved = FALSE /\ presses = << >> /\ final_url = 0 /\ report = {}
    /\ listing = [links |-> << >>, cursor |-> 0, max_bytes |-> 0, got |-> << >>, done |-> FALSE]

Opens == command = "live-open"
Goes(from, to) == stage = from /\ stage' = to /\ UNCHANGED <<command, flags>>
OnlyPage == UNCHANGED <<clock, wait, returned, slots, noise, seen>>
Spins == web' \in Spun(web) /\ OnlyPage

\* Any call that answers an error ends the command where it stands; waiting for
\* idleness and solving only print theirs.
fails ==
    /\ stage \notin {"done", "failed", "idle", "solve"}
    /\ stage' = "failed"
    /\ UNCHANGED <<liveVars, command, flags, view, tries, loopVars, solved, final_url, report>>
-----------------------------------------------------------------------------
(* live-open, up to its snapshot *)

\* create_context, create_page and navigate; the load may still go on.
startup ==
    /\ Opens /\ Goes("startup", "pump")
    /\ web' \in Spun(Queued(web)) /\ OnlyPage
    /\ UNCHANGED <<view, tries, loopVars, solved, final_url, report>>

pump_runtime ==
    /\ Goes("pump", "idle") /\ Spins
    /\ UNCHANGED <<view, tries, loopVars, solved, final_url, report>>

network_idle ==
    /\ Goes("idle", "projection") /\ Spins
    /\ UNCHANGED <<view, tries, loopVars, solved, final_url, report>>

\* A snapshot; about:blank has no links.
Snapshots ==
    \E n \in 0 .. (IF web.doc = 0 THEN 0 ELSE MaxLinks) : view' = [doc |-> web.doc, links |-> n]

dom_projection ==
    /\ Goes("projection", IF "auto-solve" \in flags /\ ~solved THEN "solve" ELSE "links")
    /\ Snapshots
    /\ UNCHANGED <<liveVars, tries, loopVars, solved, final_url, report>>

\* Only a solve that left an audit event is followed by another snapshot; one
\* that failed after it dispatched input is not.
auto_solve_challenges ==
    /\ solved' \in BOOLEAN
    /\ Goes("solve", IF solved' THEN "projection" ELSE "links") /\ Spins
    /\ UNCHANGED <<view, tries, loopVars, final_url, report>>
-----------------------------------------------------------------------------
(* live-search, up to its snapshot *)

search_startup ==
    /\ ~Opens /\ Goes("startup", "landing")
    /\ web' \in Spun(Queued(web)) /\ OnlyPage
    /\ UNCHANGED <<view, tries, loopVars, solved, final_url, report>>

\* Up to three snapshots, the event loop pumped after each failure.
snapshot_after_settle ==
    /\ stage \in {"landing", "results"} /\ UNCHANGED <<command, flags>>
    /\ \/ /\ Snapshots /\ tries' = 0
          /\ stage' = IF stage = "landing" THEN "query" ELSE "diagnose"
          /\ UNCHANGED liveVars
       \/ /\ tries + 1 < MaxSnapshots /\ tries' = tries + 1
          /\ Spins /\ UNCHANGED <<stage, view>>
       \/ /\ tries + 1 >= MaxSnapshots /\ tries' = tries
          /\ stage' = "failed" /\ UNCHANGED <<liveVars, view>>
    /\ UNCHANGED <<loopVars, solved, final_url, report>>

\* The text box is focused, filled and submitted, and the loop pumped.
query ==
    /\ Goes("query", "results")
    /\ web' \in Spun(Queued(web)) /\ OnlyPage
    /\ UNCHANGED <<view, tries, loopVars, solved, final_url, report>>

search_diagnostics ==
    /\ Goes("diagnose", "links") /\ Spins
    /\ UNCHANGED <<view, tries, loopVars, solved, final_url, report>>
-----------------------------------------------------------------------------
FirstLinks(n) == [i \in 1 .. (IF n < MaxClicks THEN n ELSE MaxClicks) |-> i]

\* The links offered, and the clicks asked for.
link_page ==
    /\ Goes("links", "click")
    /\ began' = Address[web.doc]
    /\ offered' = IF "click" \in flags THEN FirstLinks(view.links) ELSE << >>
    /\ todo' = offered'
    /\ UNCHANGED <<liveVars, view, tries, controls, clicked, probed, skipped, solved, presses,
                   final_url, report>>

\* Three events: the event loop is spun before and after each is delivered, the
\* document of the middle one is the one pressed, and a press may navigate.
Click(hit) ==
    \E moved \in Spun(web) :
       /\ hit = moved.doc
       /\ web' \in UNION {Spun(w) : w \in {moved} \cup
                           (IF moved.issued < MaxLoads THEN {Queued(moved)} ELSE {})}
       /\ OnlyPage

Presses(loop, planned) ==
    \E hit \in 0 .. MaxLoads :
       /\ Click(hit)
       /\ presses' = Append(presses, [loop |-> loop, planned |-> planned, hit |-> hit, from |-> web.doc])

\* Mutant: the loop goes on whatever the click did.
GoesOn(address) == TRUE

StaysThere(address) == address = began

click ==
    /\ Opens /\ Goes("click", "click") /\ todo # << >>
    /\ Presses("links", view.doc)
    /\ clicked' = Append(clicked, Head(todo))
    /\ todo' = IF StaysThere(Address[web'.doc]) THEN Tail(todo) ELSE << >>
    /\ UNCHANGED <<view, tries, began, offered, controls, probed, skipped, solved, final_url, report>>

\* live-search clicks its links one after the other without looking.
open_link ==
    /\ ~Opens /\ Goes("click", "click") /\ todo # << >>
    /\ Presses("open", view.doc)
    /\ clicked' = Append(clicked, Head(todo)) /\ todo' = Tail(todo)
    /\ UNCHANGED <<view, tries, began, offered, controls, probed, skipped, solved, final_url, report>>

\* The controls to probe: the snapshot is taken anew only if links were clicked.
control_snapshot ==
    /\ Opens /\ Goes("click", "probe") /\ todo = << >>
    /\ IF {"click", "probe"} \subseteq flags THEN Snapshots ELSE UNCHANGED view
    /\ controls' \in IF "probe" \in flags THEN 0 .. MaxProbes ELSE {0}
    /\ todo' = [i \in 1 .. controls' |-> i]
    /\ UNCHANGED <<liveVars, tries, began, offered, clicked, probed, skipped, solved, presses, final_url, report>>

\* Mutant: a control that cannot be acted on ends the loop.
SkipEndsLoop ==
    /\ Goes("probe", "probe") /\ todo # << >>
    /\ \/ /\ skipped' = Append(skipped, Head(todo)) /\ todo' = << >>
          /\ UNCHANGED <<liveVars, probed, presses>>
       \/ /\ Presses("controls", view.doc) /\ probed' = Append(probed, Head(todo))
          /\ todo' = Tail(todo) /\ UNCHANGED skipped
    /\ UNCHANGED <<view, tries, began, offered, controls, clicked, solved, final_url, report>>

\* A control that cannot be acted on is skipped, one that fails ends the command.
probe ==
    /\ Goes("probe", "probe") /\ todo # << >>
    /\ \/ skipped' = Append(skipped, Head(todo)) /\ UNCHANGED <<liveVars, probed, presses>>
       \/ Presses("controls", view.doc) /\ probed' = Append(probed, Head(todo)) /\ UNCHANGED skipped
    /\ todo' = Tail(todo)
    /\ UNCHANGED <<view, tries, began, offered, controls, clicked, solved, final_url, report>>

\* The address is read first; evaluations, left out on about:blank, spin the loop.
diagnostics ==
    /\ todo = << >> /\ Goes("probe", "output")
    /\ final_url' = Address[web.doc]
    /\ IF web.doc = 0 THEN UNCHANGED liveVars ELSE Spins
    /\ UNCHANGED <<view, tries, loopVars, solved, report>>

Report == [offered |-> offered, clicked |-> clicked, probed |-> probed, skipped |-> skipped,
           final_url |-> final_url]

\* live-open writes the report and ends the process without cleaning up.
output ==
    /\ Opens /\ Goes("output", "done")
    /\ report' = {Report}
    /\ UNCHANGED <<liveVars, view, tries, loopVars, solved, final_url>>

search_output ==
    /\ ~Opens /\ todo = << >> /\ Goes("click", "done")
    /\ report' = {Report}
    /\ UNCHANGED <<liveVars, view, tries, loopVars, solved, final_url>>
-----------------------------------------------------------------------------
(* bounded_string_page: the links in pages, a call for each *)

Total(sizes) == FoldSeq(LAMBDA n, sum : n + sum, 0, sizes)

\* How many of the links that are left a page may have; time may be over sooner.
Fitting(rest, limit, max_bytes) ==
    Max({k \in 0 .. Len(rest) : /\ k <= (IF limit = 0 THEN 1 ELSE limit)
                                /\ Total(SubSeq(rest, 1, k)) <= max_bytes})

\* Mutant: the next page is where a full page would have ended.
NextByLimit(cursor, rest, limit, taken) == cursor + Min({Len(rest), IF limit = 0 THEN 1 ELSE limit})

\* A first link too large for any page is passed over.
NextIndex(cursor, rest, limit, taken) ==
    cursor + IF taken = 0 /\ rest # << >> THEN 1 ELSE taken

list_links(links, max_bytes) ==
    /\ listing.links = << >>
    /\ listing' = [listing EXCEPT !.links = links, !.max_bytes = max_bytes]
    /\ UNCHANGED <<liveVars, sessionVars>>

bounded_string_page(limit) ==
    /\ listing.links # << >> /\ ~listing.done
    /\ LET rest == SubSeq(listing.links, listing.cursor + 1, Len(listing.links))
           most == Fitting(rest, limit, listing.max_bytes)
       IN \E taken \in IF most = 0 THEN {0} ELSE 1 .. most :
             LET next == NextIndex(listing.cursor, rest, limit, taken)
             IN listing' = [listing EXCEPT
                  !.got = @ \o [i \in 1 .. taken |-> listing.cursor + i],
                  !.cursor = next, !.done = next >= Len(listing.links)]
    /\ UNCHANGED <<liveVars, sessionVars>>

ListNext ==
    \/ \E links \in TupleOf(LinkSizes, MaxLinks), b \in LinkBytes : list_links(links, b)
    \/ \E l \in LinkLimits : bounded_string_page(l)

SessionNext ==
    \/ fails \/ startup \/ pump_runtime \/ network_idle \/ dom_projection \/ auto_solve_challenges
    \/ search_startup \/ snapshot_after_settle \/ query \/ search_diagnostics \/ link_page
    \/ click \/ open_link \/ control_snapshot \/ probe \/ diagnostics \/ output \/ search_output
-----------------------------------------------------------------------------
(* live-open never starts a click after it could see that the page has gone  *)
(* elsewhere, and its report is one account of what happened: the clicks are *)
(* the first of the links offered, all of them unless the page went away;    *)
(* every control there was to probe was probed or skipped, once.             *)
ReportAddsUp ==
    /\ \A i \in DOMAIN presses : presses[i].loop = "links" => Address[presses[i].from] = began
    /\ \A r \in report :
          /\ IsPrefix(r.clicked, r.offered)
          /\ r.clicked # r.offered => Opens /\ (r.final_url # began \/ r.probed # << >>)
          /\ ToSet(r.probed) \cup ToSet(r.skipped) = 1 .. controls
          /\ Len(r.probed) + Len(r.skipped) = controls

(* live-open, after a click: "Never dispatch the remaining targets from the  *)
(* old DOM snapshot into that new browsing context."                         *)
RemainingClicksStayInTheirPage ==
    Opens => \A i, j \in DOMAIN presses :
       i < j /\ presses[i].loop = "links" /\ presses[j].loop = "links" =>
          presses[j].hit = presses[i].hit

(* Following the cursors from page to page lists the links that fit a page   *)
(* in order, each once, up to some point, and in the end all of them,        *)
(* whatever the limits and however little time there is.                     *)
LinkPagesAddUp ==
    LET fits == {i \in DOMAIN listing.links : listing.links[i] <= listing.max_bytes}
    IN /\ \A i, j \in DOMAIN listing.got : i < j => listing.got[i] < listing.got[j]
       /\ \E k \in 0 .. Len(listing.links) : /\ ToSet(listing.got) = {i \in fits : i <= k}
                                             /\ listing.done => k = Len(listing.links)

(* What the commands say they saw and did is what they saw and did           *)
(* (run_live_open, bounded_string_page).                                     *)
ReportsAddUp == ReportAddsUp /\ LinkPagesAddUp
=============================================================================
