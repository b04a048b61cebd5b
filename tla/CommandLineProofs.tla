-------------------------- MODULE CommandLineProofs --------------------------
(***************************************************************************)
(* Proofs about the commands that drive a live page, the waits on it, the   *)
(* compatibility checker and the engine under any caller.                   *)
(***************************************************************************)
EXTENDS CommandLine, FiniteSetTheorems, SequenceTheorems, WellFoundedInduction, TLAPS

(* Pages (ServoEngine) *)

(* The fields of a page's record.                                            *)
PageFields == {"url", "generation", "snapshot_id", "inputs"}

(* Pages are numbered below the counter.                                     *)
PagesInv ==
    /\ next_page \in Nat /\ next_snapshot \in Nat
    /\ DOMAIN pages \subseteq 1 .. next_page
    /\ \A p \in DOMAIN pages : /\ DOMAIN pages[p] = PageFields
                               /\ pages[p].snapshot_id \in 0 .. next_snapshot

(* What PagesMoveForward says of one step.                                   *)
PagesMove ==
    \A p \in DOMAIN pages :
       \/ pages'[p] = pages[p]
       \/ /\ \/ pages'[p] = [pages[p] EXCEPT !.inputs = @ + 1]
             \/ /\ pages'[p].generation = pages[p].generation + 1
                /\ pages'[p].inputs = pages[p].inputs
                /\ \A q \in DOMAIN pages : pages'[p].snapshot_id > pages[q].snapshot_id
          /\ \A q \in DOMAIN pages \ {p} : pages'[q] = pages[q]

(* Every operation of the engine, whoever calls it.                          *)
LEMMA EngineMoves == ASSUME PagesInv, EngineNext PROVE PagesInv' /\ PagesMove
  <1>1. CASE UNCHANGED <<pages, next_page, next_snapshot>>
    BY <1>1 DEF PagesInv, PagesMove
  <1>2. ASSUME NEW o, create_context(o) PROVE PagesInv' /\ PagesMove
    BY <1>1, <1>2 DEF create_context
  <1>3. ASSUME NEW c, create_page(c) PROVE PagesInv' /\ PagesMove
    <2>1. CASE c \in DOMAIN contexts
      <3>1. /\ next_page' = next_page + 1 /\ UNCHANGED next_snapshot
            /\ DOMAIN pages' = DOMAIN pages \cup {next_page + 1} /\ next_page + 1 \notin DOMAIN pages
            /\ \A p \in DOMAIN pages : pages'[p] = pages[p]
            /\ pages'[next_page + 1] = NewPage
        BY <1>3, <2>1 DEF create_page, PagesInv, Insert
      <3>2. DOMAIN NewPage = PageFields /\ NewPage.snapshot_id = 0
        BY DEF NewPage, PageFields
      <3> QED
        BY <3>1, <3>2 DEF PagesInv, PagesMove
    <2> QED
      BY <1>1, <1>3, <2>1 DEF create_page
  <1>4. ASSUME NEW c, NEW m, advance_time(c, m) PROVE PagesInv' /\ PagesMove
    BY <1>1, <1>4 DEF advance_time
  <1>5. ASSUME NEW p, NEW u, navigate(p, u) PROVE PagesInv' /\ PagesMove
    <2>1. next_snapshot' = next_snapshot + 1 /\ UNCHANGED next_page
      BY <1>5 DEF navigate
    <2>2. CASE UNCHANGED pages
      BY <2>1, <2>2 DEF PagesInv, PagesMove
    <2>3. CASE /\ p \in DOMAIN pages
               /\ pages' = [pages EXCEPT ![p].snapshot_id = next_snapshot + 1, ![p].url = u,
                                         ![p].generation = @ + 1]
      <3>1. /\ DOMAIN pages' = DOMAIN pages /\ \A q \in DOMAIN pages \ {p} : pages'[q] = pages[q]
            /\ DOMAIN pages'[p] = PageFields /\ pages'[p].snapshot_id = next_snapshot + 1
            /\ pages'[p].generation = pages[p].generation + 1 /\ pages'[p].inputs = pages[p].inputs
        BY <2>3 DEF PagesInv, PageFields
      <3>2. PagesInv'
        BY <2>1, <3>1 DEF PagesInv
      <3>3. \A q \in DOMAIN pages : pages'[p].snapshot_id > pages[q].snapshot_id
        BY <3>1 DEF PagesInv
      <3> QED
        BY <3>1, <3>2, <3>3 DEF PagesMove
    <2> QED
      BY <1>5, <2>2, <2>3 DEF navigate
  <1>6. ASSUME NEW p, dispatch_input(p) PROVE PagesInv' /\ PagesMove
    <2>1. UNCHANGED <<next_page, next_snapshot>>
      BY <1>6 DEF dispatch_input
    <2>2. CASE p \in DOMAIN pages /\ pages' = [pages EXCEPT ![p].inputs = @ + 1]
      <3>1. /\ DOMAIN pages' = DOMAIN pages /\ \A q \in DOMAIN pages \ {p} : pages'[q] = pages[q]
            /\ pages'[p] = [pages[p] EXCEPT !.inputs = @ + 1]
        BY <2>2
      <3>2. DOMAIN pages'[p] = PageFields /\ pages'[p].snapshot_id = pages[p].snapshot_id
        BY <2>2, <3>1 DEF PagesInv, PageFields
      <3> QED
        BY <2>1, <3>1, <3>2 DEF PagesInv, PagesMove
    <2> QED
      BY <1>1, <1>6, <2>1, <2>2 DEF dispatch_input
  <1>7. ASSUME NEW p, snapshot(p) \/ settle(p) \/ \E q, u : evaluate_page_script_checked(p, q, u)
        PROVE  PagesInv' /\ PagesMove
    BY <1>1, <1>7 DEF snapshot, settle, evaluate_page_script_checked
  <1> QED
    BY <1>2, <1>3, <1>4, <1>5, <1>6, <1>7 DEF EngineNext

(* ServoEngine: no sequence of calls, failing ones included, moves a page     *)
(* backwards, reuses a snapshot id or touches a second page.                  *)
THEOREM PagesAlwaysMoveForward == Spec => PagesMoveForward
  <1>1. Init => PagesInv
    <2> SUFFICES ASSUME Init PROVE PagesInv
      OBVIOUS
    <2>1. next_page = 0 /\ next_snapshot = 0 /\ pages = << >>
      BY DEF Init, EngineInit
    <2> QED
      BY <2>1 DEF PagesInv
  <1>2. PagesInv /\ [Next]_vars => PagesInv' /\ PagesMove
    <2> SUFFICES ASSUME PagesInv, [Next]_vars PROVE PagesInv' /\ PagesMove
      OBVIOUS
    <2>1. CASE UNCHANGED engineVars
      BY <2>1 DEF engineVars, PagesInv, PagesMove
    <2> QED
      BY <2>1, EngineMoves DEF Next, vars
  <1>3. PagesInv /\ [Next]_vars =>
          [\A p \in DOMAIN pages :
             \/ pages'[p] = pages[p]
             \/ /\ \/ pages'[p] = [pages[p] EXCEPT !.inputs = @ + 1]
                   \/ /\ pages'[p].generation = pages[p].generation + 1
                      /\ pages'[p].inputs = pages[p].inputs
                      /\ \A q \in DOMAIN pages : pages'[p].snapshot_id > pages[q].snapshot_id
                /\ \A q \in DOMAIN pages \ {p} : pages'[q] = pages[q]]_engineVars
    BY <1>2 DEF PagesMove
  <1>4. PagesInv /\ [Next]_vars => PagesInv'
    BY <1>2
  <1> QED
    BY <1>1, <1>3, <1>4, PTL DEF Spec, PagesMoveForward
-----------------------------------------------------------------------------
(* Waits (LiveRuntime) *)

(* The fields of the runtime's page, and of the waits below.                 *)
WebFields == {"doc", "status", "queue", "loading", "issued", "scripts", "mutated"}

(* How far load n has come, on a page that was quiet when it was asked for.  *)
LoadPhase(w, n, saw) ==
    \/ w.queue = <<n>> /\ w.loading = 0 /\ w.status = "Complete" /\ saw = FALSE
    \/ w.queue = << >> /\ w.loading = n /\ w.status = "Loading"
    \/ w.queue = << >> /\ w.loading = 0 /\ w.doc \in {0, n}

(* A step of the runtime takes the load on, or nothing.                      *)
LEMMA PhaseSteps ==
    ASSUME NEW w, DOMAIN w = WebFields, NEW n \in Nat \ {0}, NEW saw, LoadPhase(w, n, saw),
           NEW v \in RuntimeSteps(w)
    PROVE  DOMAIN v = WebFields /\ v.issued = w.issued /\ LoadPhase(v, n, saw)
  <1>1. CASE v = w
    BY <1>1
  <1>2. CASE w.queue # << >> /\ v = [w EXCEPT !.queue = Tail(@), !.loading = Head(w.queue), !.status = "Loading"]
    <2>3. w.queue = <<n>>
      BY <1>2 DEF LoadPhase
    <2>4. Tail(<<n>>) = << >> /\ Head(<<n>>) = n
      OBVIOUS
    <2>1. w.queue = <<n>> /\ Tail(w.queue) = << >> /\ Head(w.queue) = n
      BY <2>3, <2>4
    <2>2. /\ DOMAIN v = WebFields /\ v.issued = w.issued /\ v.status = "Loading"
          /\ v.queue = Tail(w.queue) /\ v.loading = Head(w.queue)
      BY <1>2 DEF WebFields
    <2> QED
      BY <2>1, <2>2 DEF LoadPhase
  <1>3. CASE w.loading # 0 /\ v \in {[w EXCEPT !.doc = d, !.loading = 0] : d \in {0, w.loading}}
    BY <1>3 DEF LoadPhase, WebFields
  <1>4. CASE w.loading = 0 /\ w.status = "Loading" /\ v = [w EXCEPT !.status = "Complete"]
    BY <1>4 DEF LoadPhase, WebFields
  <1> QED
    BY <1>1, <1>2, <1>3, <1>4 DEF RuntimeSteps

(* Spinning the event loop takes the load on, by any number of its steps.    *)
LEMMA PhaseSpins ==
    ASSUME NEW w, DOMAIN w = WebFields, NEW n \in Nat \ {0}, NEW saw, LoadPhase(w, n, saw), NEW v \in Spun(w)
    PROVE  DOMAIN v = WebFields /\ v.issued = w.issued /\ LoadPhase(v, n, saw)
  <1>1. PICK u \in RuntimeSteps(w) : \E x \in RuntimeSteps(u) : v \in RuntimeSteps(x)
    BY DEF Spun
  <1>4. PICK x \in RuntimeSteps(u) : v \in RuntimeSteps(x)
    BY <1>1
  <1>2. DOMAIN u = WebFields /\ u.issued = w.issued /\ LoadPhase(u, n, saw)
    BY PhaseSteps
  <1>3. DOMAIN x = WebFields /\ x.issued = w.issued /\ LoadPhase(x, n, saw)
    BY <1>2, PhaseSteps
  <1> QED
    BY <1>3, <1>4, PhaseSteps

(* Spinning leaves the page a page and issues no load.                       *)
LEMMA Spins0 ==
    ASSUME NEW w, DOMAIN w = WebFields, NEW v \in Spun(w)
    PROVE  DOMAIN v = WebFields /\ v.issued = w.issued
  <1>1. ASSUME NEW a, DOMAIN a = WebFields, NEW b \in RuntimeSteps(a) PROVE DOMAIN b = WebFields /\ b.issued = a.issued
    BY <1>1 DEF RuntimeSteps, WebFields
  <1>2. PICK u \in RuntimeSteps(w) : \E x \in RuntimeSteps(u) : v \in RuntimeSteps(x)
    BY DEF Spun
  <1>5. PICK x \in RuntimeSteps(u) : v \in RuntimeSteps(x)
    BY <1>2
  <1>3. DOMAIN u = WebFields /\ u.issued = w.issued
    BY <1>1
  <1>4. DOMAIN x = WebFields /\ x.issued = w.issued
    BY <1>1, <1>3
  <1> QED
    BY <1>1, <1>4, <1>5

(* The fields of a load that is under way.                                   *)
LoadFields == {"kind", "since", "until", "saw_loading", "saw_nonblank", "settled", "wanted", "quiet"}

(* What a load knows of its document.                                        *)
LoadsInv ==
    /\ DOMAIN web = WebFields /\ web.issued \in Nat
    /\ wait.kind \in {"none", "load"} /\ returned.kind \in {"none", "load"}
    /\ wait.kind = "load" =>
          /\ DOMAIN wait = LoadFields /\ wait.settled \in Nat /\ wait.wanted \in Nat \ {0}
          /\ wait.quiet => LoadPhase(web, wait.wanted, wait.saw_loading)
    /\ returned.kind = "load" /\ returned.early /\ returned.quiet /\ wait.kind = "none"
          => web.doc \in {returned.wanted, 0}

(* What is left of a wait that is over.                                      *)
LEMMA LoadReturns ==
    ASSUME DOMAIN wait = LoadFields, NEW early, Return([early |-> early])
    PROVE  /\ wait'.kind = "none" /\ returned'.kind = wait.kind /\ returned'.early = early
           /\ returned'.quiet = wait.quiet /\ returned'.wanted = wait.wanted
  BY DEF Return, Joined, NoWait, LoadFields

(* ServoRuntimePage::load, from the request to its return.                   *)
LEMMA LoadSteps == ASSUME LoadsInv, LoadNext PROVE LoadsInv'
  <1>1. CASE load
    <2>1. DOMAIN web' = WebFields /\ web'.issued = web.issued + 1
          /\ web'.queue = Append(web.queue, web.issued + 1)
          /\ web'.loading = web.loading /\ web'.status = web.status
      BY <1>1 DEF load, LoadsInv, Queued, WebFields
    <2>2. /\ DOMAIN wait' = LoadFields /\ wait'.kind = "load" /\ wait'.settled = 0
          /\ wait'.wanted = web.issued + 1 /\ wait'.quiet = Quiet(web)
          /\ wait'.saw_loading = (web.status # "Complete")
      BY <1>1 DEF load, Joined, Waiting, LoadFields
    <2>3. ASSUME Quiet(web) PROVE LoadPhase(web', wait'.wanted, wait'.saw_loading)
      <3>1. web.queue = << >> /\ web.loading = 0 /\ web.status = "Complete"
        BY <2>3 DEF Quiet
      <3>2. Append(<< >>, web.issued + 1) = <<web.issued + 1>>
        OBVIOUS
      <3>3. wait'.saw_loading = FALSE
        BY <2>2, <3>1
      <3> QED
        BY <2>1, <2>2, <3>1, <3>2, <3>3 DEF LoadPhase
    <2>4. wait'.quiet => Quiet(web)
      BY <2>2
    <2>5. web.issued + 1 \in Nat \ {0} /\ UNCHANGED returned
      BY <1>1 DEF LoadsInv, load
    <2> QED
      BY <2>1, <2>2, <2>3, <2>4, <2>5 DEF LoadsInv
  <1>2. CASE load_poll
    <2>1. PICK w \in Spun(web) :
             LET nonblank == wait.saw_nonblank \/ w.doc # 0
                 loading == wait.saw_loading \/ w.status # "Complete"
                 settled == IF Settles(w, loading) THEN wait.settled + 1 ELSE 0
                 blanked == nonblank /\ w.doc = 0 /\ w.status = "Complete"
             IN /\ web' = w
                /\ IF blanked \/ settled >= SettleTicks
                   THEN Return([early |-> TRUE]) /\ clock' = clock
                   ELSE /\ wait' = [wait EXCEPT !.saw_nonblank = nonblank, !.saw_loading = loading,
                                                !.settled = settled]
                        /\ clock' = clock + 1 /\ UNCHANGED returned
      BY <1>2 DEF load_poll
    <2> DEFINE loading == wait.saw_loading \/ w.status # "Complete"
               settled == IF Settles(w, loading) THEN wait.settled + 1 ELSE 0
    <2>2. /\ wait.kind = "load" /\ DOMAIN wait = LoadFields /\ wait.settled \in Nat
          /\ wait.wanted \in Nat \ {0} /\ SettleTicks \in Nat \ {0} /\ DOMAIN web = WebFields
      BY <1>2, LiveAssumption DEF load_poll, LoadsInv
    <2>3. DOMAIN web' = WebFields /\ web'.issued \in Nat
      BY <2>1, <2>2, Spins0 DEF LoadsInv
    <2>4. wait.quiet => LoadPhase(w, wait.wanted, wait.saw_loading)
      BY <2>2, PhaseSpins DEF LoadsInv
    <2>5. CASE /\ (w.doc = 0 /\ w.status = "Complete") \/ settled >= SettleTicks
               /\ Return([early |-> TRUE])
      <3>1. ASSUME wait.quiet PROVE w.doc \in {wait.wanted, 0}
        <4>1. CASE w.doc = 0
          BY <4>1
        <4>2. CASE settled >= SettleTicks
          <5>1. Settles(w, loading)
            BY <2>2, <4>2
          <5>2. w.status = "Complete" /\ loading
            BY <5>1 DEF Settles
          <5>3. wait.saw_loading # FALSE
            BY <5>2
          <5> QED
            BY <2>2, <2>4, <3>1, <5>2, <5>3 DEF LoadPhase
        <4> QED
          BY <2>5, <4>1, <4>2
      <3>2. /\ wait'.kind = "none" /\ returned'.kind = "load" /\ returned'.quiet = wait.quiet
            /\ returned'.wanted = wait.wanted
        BY <2>2, <2>5, LoadReturns
      <3> QED
        BY <2>1, <2>3, <3>1, <3>2 DEF LoadsInv
    <2>6. CASE /\ \E nonblank : wait' = [wait EXCEPT !.saw_nonblank = nonblank, !.saw_loading = loading,
                                                     !.settled = settled]
               /\ UNCHANGED returned
      <3>1. /\ DOMAIN wait' = LoadFields /\ wait'.kind = "load" /\ wait'.settled = settled
            /\ wait'.wanted = wait.wanted /\ wait'.quiet = wait.quiet /\ wait'.saw_loading = loading
        BY <2>2, <2>6 DEF LoadFields
      <3>2. settled \in Nat
        BY <2>2
      <3>3. ASSUME wait.quiet PROVE LoadPhase(w, wait.wanted, loading)
        <4>1. LoadPhase(w, wait.wanted, wait.saw_loading)
          BY <2>4, <3>3
        <4>2. wait.saw_loading = FALSE /\ w.status = "Complete" => loading = FALSE
          OBVIOUS
        <4> QED
          BY <4>1, <4>2 DEF LoadPhase
      <3> HIDE DEF loading, settled
      <3>4. wait'.quiet => LoadPhase(web', wait'.wanted, wait'.saw_loading)
        BY <2>1, <3>1, <3>3
      <3> QED
        BY <2>2, <2>3, <2>6, <3>1, <3>2, <3>4 DEF LoadsInv
    <2> QED
      BY <2>1, <2>5, <2>6
  <1>3. CASE load_deadline
    <2>1. wait.kind = "load" /\ DOMAIN wait = LoadFields /\ UNCHANGED web /\ Return([early |-> FALSE])
      BY <1>3 DEF load_deadline, LoadsInv
    <2>2. wait'.kind = "none" /\ returned'.kind = "load" /\ returned'.early = FALSE
      BY <2>1, LoadReturns
    <2> QED
      BY <2>1, <2>2 DEF LoadsInv
  <1> QED
    BY <1>1, <1>2, <1>3 DEF LoadNext

(* What an evaluation knows of its script.                                   *)
EvaluationsInv ==
    /\ \E S : slots \in Seq(S)
    /\ \A n \in DOMAIN slots : slots[n] # << >> => slots[n] = <<n>>
    /\ wait.kind \in {"none", "document", "answer"} /\ returned.kind \in {"none", "answer"}
    /\ wait.kind = "answer" => DOMAIN wait = {"kind", "since", "until"} /\ slots # << >>
    /\ returned.kind = "answer" /\ returned.answer # 0 => returned.answer = returned.asked

(* evaluate_javascript_bounded, with answers that come too late.             *)
LEMMA EvaluationSteps == ASSUME EvaluationsInv, EvaluateNext PROVE EvaluationsInv'
  <1>1. CASE evaluate_javascript \/ page_navigates
    <2>1. UNCHANGED <<slots, returned>> /\ (wait' = wait \/ wait'.kind = "document")
      BY <1>1 DEF evaluate_javascript, page_navigates, Waiting
    <2> QED
      BY <2>1 DEF EvaluationsInv
  <1>2. CASE document_poll
    <2>1. CASE UNCHANGED <<wait, slots, returned>>
      BY <2>1 DEF EvaluationsInv
    <2>2. CASE slots' = Append(slots, << >>) /\ wait' = Waiting("answer", clock + Timeout) /\ UNCHANGED returned
      <3>1. PICK S : slots \in Seq(S)
        BY DEF EvaluationsInv
      <3> DEFINE T == S \cup {<< >>}
      <3>2. slots \in Seq(T) /\ << >> \in T
        BY <3>1
      <3> HIDE DEF T
      <3>3. /\ slots' \in Seq(T) /\ Len(slots') = Len(slots) + 1 /\ DOMAIN slots' = 1 .. Len(slots) + 1
            /\ Len(slots) \in Nat /\ DOMAIN slots = 1 .. Len(slots)
            /\ \A i \in DOMAIN slots : slots'[i] = slots[i]
            /\ slots'[Len(slots) + 1] = << >>
        BY <2>2, <3>2
      <3>4. slots' # << >>
        BY <3>3
      <3>5. \A n \in DOMAIN slots' : slots'[n] # << >> => slots'[n] = <<n>>
        <4>1. \A n \in DOMAIN slots' : n \in DOMAIN slots \/ n = Len(slots) + 1
          BY <3>3
        <4> QED
          BY <3>3, <4>1 DEF EvaluationsInv
      <3>6. DOMAIN wait' = {"kind", "since", "until"} /\ wait'.kind = "answer"
        BY <2>2 DEF Waiting
      <3> QED
        BY <2>2, <3>3, <3>4, <3>5, <3>6 DEF EvaluationsInv
    <2> QED
      BY <1>2, <2>1, <2>2 DEF document_poll
  <1>3. CASE answer_poll
    <2>1. PICK S : slots \in Seq(S)
      BY DEF EvaluationsInv
    <2> DEFINE T == S \cup {<<n>> : n \in DOMAIN slots}
               m == Len(slots)
    <2>2. /\ slots' \in Seq(T) /\ Len(slots') = m /\ m \in Nat /\ m \in DOMAIN slots
          /\ DOMAIN slots' = DOMAIN slots /\ \A n \in DOMAIN slots : slots'[n] = slots[n] \/ slots'[n] = <<n>>
      <3>1. slots \in Seq(T) /\ m \in Nat /\ m \in DOMAIN slots /\ DOMAIN slots = 1 .. m
        BY <1>3, <2>1 DEF EvaluationsInv, answer_poll
      <3>2. CASE UNCHANGED slots
        BY <3>1, <3>2
      <3>3. ASSUME NEW n, slots' = [slots EXCEPT ![n] = <<n>>]
            PROVE  /\ slots' \in Seq(T) /\ Len(slots') = m /\ DOMAIN slots' = DOMAIN slots
                   /\ \A i \in DOMAIN slots : slots'[i] = slots[i] \/ slots'[i] = <<i>>
        <4>1. n \in DOMAIN slots => <<n>> \in T
          OBVIOUS
        <4> HIDE DEF T, m
        <4>2. slots \in [1 .. m -> T]
          BY <3>1, LenProperties DEF m
        <4>3. slots' \in [1 .. m -> T]
          BY <3>1, <3>3, <4>1, <4>2
        <4>4. slots' \in Seq(T)
          BY <3>1, <4>3, SeqDef
        <4>5. DOMAIN slots' = 1 .. m
          BY <4>3
        <4>6. Len(slots') \in Nat /\ DOMAIN slots' = 1 .. Len(slots')
          BY <4>4, LenProperties
        <4>7. Len(slots') = m
          BY <3>1, <4>5, <4>6
        <4>8. ASSUME NEW i \in DOMAIN slots PROVE slots'[i] = slots[i] \/ slots'[i] = <<i>>
          BY <3>1, <3>3, <4>2
        <4> QED
          BY <3>1, <4>4, <4>5, <4>7, <4>8
      <3> HIDE DEF T, m
      <3> QED
        BY <1>3, <3>1, <3>2, <3>3 DEF answer_poll, CalledBack
    <2>3. \A n \in DOMAIN slots' : slots'[n] # << >> => slots'[n] = <<n>>
      BY <2>2 DEF EvaluationsInv
    <2>4. slots' # << >> /\ DOMAIN wait = {"kind", "since", "until"} /\ wait.kind = "answer"
      BY <1>3, <2>2 DEF answer_poll, EvaluationsInv
    <2>5. CASE Last(slots') # << >> /\ Return([answer |-> Last(slots')[1], asked |-> Len(slots)])
      <3>1. Last(slots') = <<m>>
        BY <2>2, <2>3, <2>5 DEF Last
      <3>2. /\ wait'.kind = "none" /\ returned'.kind = "answer" /\ returned'.answer = Last(slots')[1]
            /\ returned'.asked = Len(slots)
        BY <2>4, <2>5 DEF Return, Joined, NoWait
      <3>3. returned'.answer = returned'.asked
        BY <3>1, <3>2
      <3> QED
        BY <2>2, <2>3, <3>2, <3>3 DEF EvaluationsInv
    <2>6. CASE UNCHANGED <<wait, returned>>
      BY <2>2, <2>3, <2>4, <2>6 DEF EvaluationsInv
    <2> QED
      BY <1>3, <2>5, <2>6 DEF answer_poll
  <1>4. CASE answer_timeout
    <2>1. DOMAIN wait = {"kind", "since", "until"} /\ wait.kind = "answer" /\ Return([answer |-> 0]) /\ UNCHANGED slots
      BY <1>4 DEF answer_timeout, EvaluationsInv
    <2>2. wait'.kind = "none" /\ returned'.kind = "answer" /\ returned'.answer = 0
      BY <2>1 DEF Return, Joined, NoWait
    <2> QED
      BY <2>1, <2>2 DEF EvaluationsInv
  <1> QED
    BY <1>1, <1>2, <1>3, <1>4 DEF EvaluateNext

(* The larger of two times.                                                  *)
LEMMA MaxOfTwo ==
    ASSUME NEW a \in Int, NEW b \in Int
    PROVE  Max({a, b}) \in {a, b} /\ Max({a, b}) >= a /\ Max({a, b}) >= b
  <1>1. \E x \in {a, b} : \A y \in {a, b} : x >= y
    <2>1. CASE a >= b
      BY <2>1
    <2>2. CASE b >= a
      BY <2>2
    <2> QED
      BY <2>1, <2>2
  <1>2. Max({a, b}) \in {a, b} /\ \A y \in {a, b} : Max({a, b}) >= y
    BY <1>1 DEF Max
  <1> QED
    BY <1>2

(* The fields of a wait for idleness.                                        *)
IdleFields == {"kind", "since", "until", "idle_since"}

(* What an idle wait knows of the polls it has made.                         *)
IdleInv ==
    /\ DOMAIN web = WebFields /\ clock \in Nat /\ noise \in Nat
    /\ wait.kind \in {"none", "idle"} /\ returned.kind \in {"none", "idle"}
    /\ wait.kind = "idle" =>
          /\ DOMAIN wait = IdleFields /\ wait.since \in Nat /\ wait.since <= noise /\ noise <= clock
          /\ wait.idle_since = << >> \/ \E t \in Nat : wait.idle_since = <<t>> /\ noise <= t /\ t <= clock
    /\ returned.kind = "idle" /\ returned.early /\ wait.kind = "none" =>
          /\ returned.clock - Max({noise, returned.since}) >= IdleTime
          /\ returned.clock - web.mutated >= IdleTime + GraceTime

(* What is left of an idle wait that is over.                                *)
LEMMA IdleReturns ==
    ASSUME DOMAIN wait = IdleFields, wait.kind = "idle", NEW early, Return([early |-> early])
    PROVE  /\ wait'.kind = "none" /\ returned'.kind = "idle" /\ returned'.early = early
           /\ returned'.clock = clock /\ returned'.since = wait.since
  BY DEF Return, Joined, NoWait, IdleFields

(* wait_for_network_idle_blocking, whatever the page does in between.        *)
LEMMA IdleSteps == ASSUME IdleInv, IdleNext PROVE IdleInv'
  <1>1. CASE wait_for_network_idle
    <2>1. PICK until : /\ wait' = Joined(Waiting("idle", until), [idle_since |-> << >>])
                       /\ noise' = clock /\ UNCHANGED <<clock, web, returned>>
      BY <1>1 DEF wait_for_network_idle
    <2>2. DOMAIN wait' = IdleFields /\ wait'.kind = "idle" /\ wait'.since = clock /\ wait'.idle_since = << >>
      BY <2>1 DEF Joined, Waiting, IdleFields
    <2> QED
      BY <2>1, <2>2 DEF IdleInv
  <1>2. CASE idle_poll
    <2>1. PICK busy \in BOOLEAN, mutates \in BOOLEAN :
            LET mutated == IF mutates THEN clock ELSE web.mutated
                quiet == ~busy /\ clock - mutated >= IdleTime + GraceTime
                since == IdleSince(quiet, wait.idle_since)
            IN /\ web' = [web EXCEPT !.mutated = mutated]
               /\ noise' = IF quiet THEN noise ELSE clock
               /\ IF quiet /\ clock - since[1] >= Max({IdleTime, 1})
                  THEN Return([early |-> TRUE]) /\ UNCHANGED clock
                  ELSE /\ wait' = [wait EXCEPT !.idle_since = since]
                       /\ clock' = clock + 1 /\ UNCHANGED returned
      BY <1>2 DEF idle_poll
    <2> DEFINE mutated == IF mutates THEN clock ELSE web.mutated
               quiet == ~busy /\ clock - mutated >= IdleTime + GraceTime
               since == IdleSince(quiet, wait.idle_since)
    <2>2. /\ DOMAIN wait = IdleFields /\ wait.kind = "idle" /\ clock \in Nat /\ noise \in Nat
          /\ wait.since \in Nat /\ wait.since <= noise /\ noise <= clock /\ IdleTime \in Nat
          /\ wait.idle_since = << >> \/ \E t \in Nat : wait.idle_since = <<t>> /\ noise <= t /\ t <= clock
      BY <1>2, LiveAssumption DEF idle_poll, IdleInv
    <2>3. DOMAIN web' = WebFields /\ web'.mutated = mutated
      BY <2>1 DEF IdleInv, WebFields
    <2>4. /\ quiet => noise' = noise /\ \E t \in Nat : since = <<t>> /\ noise <= t /\ t <= clock
          /\ ~quiet => noise' = clock /\ since = << >>
      <3>1. ASSUME quiet PROVE noise' = noise /\ \E t \in Nat : since = <<t>> /\ noise <= t /\ t <= clock
        <4>1. noise' = noise /\ since = IF wait.idle_since = << >> THEN <<clock>> ELSE wait.idle_since
          BY <2>1, <3>1 DEF IdleSince
        <4> HIDE DEF since
        <4> QED
          BY <2>2, <4>1
      <3>2. ASSUME ~quiet PROVE noise' = clock /\ since = << >>
        BY <2>1, <3>2 DEF IdleSince
      <3> QED
        BY <3>1, <3>2
    <2>5. CASE quiet /\ clock - since[1] >= Max({IdleTime, 1}) /\ Return([early |-> TRUE]) /\ UNCHANGED clock
      <3>1. PICK t \in Nat : since = <<t>> /\ noise <= t /\ t <= clock
        BY <2>4, <2>5
      <3>2. clock - t >= IdleTime
        <4> HIDE DEF mutated, quiet, since
        <4> DEFINE longest == Max({IdleTime, 1})
        <4>1. since[1] = t
          BY <3>1
        <4>2. longest >= IdleTime /\ longest \in Int
          <5>1. IdleTime \in Int /\ 1 \in Int
            BY <2>2
          <5>2. longest \in {IdleTime, 1} /\ longest >= IdleTime
            BY <5>1, MaxOfTwo, Zenon
          <5> QED
            BY <5>1, <5>2
        <4>3. clock - t >= longest
          BY <2>5, <4>1
        <4> HIDE DEF longest
        <4> QED
          BY <2>2, <4>2, <4>3
      <3>3. Max({noise, wait.since}) <= noise /\ Max({noise, wait.since}) \in Nat
        <4>1. noise \in Int /\ wait.since \in Int
          BY <2>2
        <4>2. Max({noise, wait.since}) \in {noise, wait.since}
          BY <4>1, MaxOfTwo, Zenon
        <4> QED
          BY <2>2, <4>2
      <3>4. clock - Max({noise, wait.since}) >= IdleTime
        <4> DEFINE latest == Max({noise, wait.since})
        <4>1. latest <= noise /\ latest \in Nat
          BY <3>3
        <4> HIDE DEF latest, mutated, quiet, since
        <4>2. clock - latest >= IdleTime
          BY <2>2, <3>1, <3>2, <4>1
        <4> QED
          BY <4>2 DEF latest
      <3>5. /\ wait'.kind = "none" /\ returned'.kind = "idle" /\ returned'.clock = clock
            /\ returned'.since = wait.since
        BY <2>2, <2>5, IdleReturns
      <3>6. noise' = noise /\ clock - mutated >= IdleTime + GraceTime
        BY <2>4, <2>5
      <3> HIDE DEF mutated, quiet, since
      <3> QED
        BY <2>2, <2>3, <2>5, <3>4, <3>5, <3>6 DEF IdleInv
    <2>6. CASE wait' = [wait EXCEPT !.idle_since = since] /\ clock' = clock + 1 /\ UNCHANGED returned
      <3> HIDE DEF mutated, quiet, since
      <3>1. /\ DOMAIN wait' = IdleFields /\ wait'.kind = "idle" /\ wait'.since = wait.since
            /\ wait'.idle_since = since
        BY <2>2, <2>6 DEF IdleFields
      <3>2. /\ noise' \in Nat /\ wait.since <= noise' /\ noise' <= clock'
            /\ since = << >> \/ \E t \in Nat : since = <<t>> /\ noise' <= t /\ t <= clock'
        BY <2>2, <2>4, <2>6
      <3> QED
        BY <2>2, <2>3, <2>6, <3>1, <3>2 DEF IdleInv
    <2> QED
      BY <2>1, <2>5, <2>6
  <1>3. CASE idle_deadline
    <2>1. DOMAIN wait = IdleFields /\ wait.kind = "idle" /\ Return([early |-> FALSE]) /\ UNCHANGED <<clock, web, noise>>
      BY <1>3 DEF idle_deadline, IdleInv
    <2>2. wait'.kind = "none" /\ returned'.kind = "idle" /\ returned'.early = FALSE
      BY <2>1, IdleReturns
    <2> QED
      BY <2>1, <2>2 DEF IdleInv
  <1> QED
    BY <1>1, <1>2, <1>3 DEF IdleNext

(* The three kinds of waits together.                                        *)
WaitsInv ==
    /\ part = "load" => LoadsInv
    /\ part = "evaluate" => EvaluationsInv
    /\ part = "idle" => IdleInv
    /\ part \notin {"load", "evaluate", "idle"} => returned.kind = "none"

(* ServoRuntimePage::load, evaluate_javascript_bounded and                   *)
(* wait_for_network_idle_blocking: for all deadlines, however the runtime    *)
(* gets on between two polls, a wait that ends early ends for its reason.    *)
THEOREM WaitsAlwaysEndForTheirReason == Spec => []WaitsEndForTheirReason
  <1>1. Init => WaitsInv
    <2> SUFFICES ASSUME Init PROVE WaitsInv
      OBVIOUS
    <2>1. /\ clock = 0 /\ noise = 0 /\ slots = << >> /\ wait = [kind |-> "none"] /\ returned = [kind |-> "none"]
          /\ DOMAIN web = WebFields /\ web.issued = 0
      BY DEF Init, LiveInit, WebFields, NoWait
    <2>2. wait.kind = "none" /\ returned.kind = "none" /\ slots \in Seq({}) /\ DOMAIN slots = {}
      BY <2>1
    <2> QED
      BY <2>1, <2>2 DEF WaitsInv, LoadsInv, EvaluationsInv, IdleInv
  <1>2. WaitsInv /\ [Next]_vars => WaitsInv'
    <2> SUFFICES ASSUME WaitsInv, [Next]_vars PROVE WaitsInv'
      OBVIOUS
    <2>1. CASE UNCHANGED <<part, liveVars>>
      BY <2>1 DEF WaitsInv, LoadsInv, EvaluationsInv, IdleInv, liveVars
    <2>2. CASE part = "load" /\ LoadNext /\ UNCHANGED part
      BY <2>2, LoadSteps DEF WaitsInv
    <2>3. CASE part = "evaluate" /\ EvaluateNext /\ UNCHANGED part
      BY <2>3, EvaluationSteps DEF WaitsInv
    <2>4. CASE part = "idle" /\ IdleNext /\ UNCHANGED part
      BY <2>4, IdleSteps DEF WaitsInv
    <2>5. CASE part = "observe" /\ ObserveNext /\ UNCHANGED part
      <3>1. UNCHANGED returned
        BY <2>5 DEF ObserveNext, load_web_resource, show_console_message, Observed
      <3> QED
        BY <2>5, <3>1 DEF WaitsInv
    <2>6. CASE part = "session" /\ SessionNext /\ UNCHANGED part
      <3>1. UNCHANGED returned
        BY <2>6 DEF SessionNext, liveVars, OnlyPage, Spins, Presses, Click, fails, startup, pump_runtime,
                    network_idle, dom_projection, auto_solve_challenges, search_startup,
                    snapshot_after_settle, query, search_diagnostics, link_page, click, open_link,
                    control_snapshot, probe, diagnostics, output, search_output
      <3> QED
        BY <2>6, <3>1 DEF WaitsInv
    <2>7. CASE part = "listing" /\ ListNext /\ UNCHANGED part
      <3>1. UNCHANGED returned
        BY <2>7 DEF ListNext, list_links, bounded_string_page, liveVars
      <3> QED
        BY <2>7, <3>1 DEF WaitsInv
    <2> QED
      BY <2>1, <2>2, <2>3, <2>4, <2>5, <2>6, <2>7 DEF Next, vars
  <1>3. WaitsInv => WaitsEndForTheirReason
    <2> SUFFICES ASSUME WaitsInv PROVE WaitsEndForTheirReason
      OBVIOUS
    <2>1. CASE part = "load"
      BY <2>1 DEF WaitsInv, LoadsInv, WaitsEndForTheirReason
    <2>2. CASE part = "evaluate"
      BY <2>2 DEF WaitsInv, EvaluationsInv, WaitsEndForTheirReason
    <2>3. CASE part = "idle"
      BY <2>3 DEF WaitsInv, IdleInv, WaitsEndForTheirReason
    <2> QED
      BY <2>1, <2>2, <2>3 DEF WaitsInv, WaitsEndForTheirReason
  <1> QED
    BY <1>1, <1>2, <1>3, PTL DEF Spec

(* What a page's histories leave out *)

(* The places of the requests among what was observed.                       *)
RequestsOf(all) == {i \in DOMAIN all : all[i] = 0}

(* The recorded requests are the first ones, and flagged if there were more. *)
RequestsKept(all, requests, truncated) ==
    /\ all \in Seq(Nat) /\ requests \in Seq(Nat) /\ truncated \in BOOLEAN
    /\ ToSet(requests) \subseteq RequestsOf(all)
    /\ \A i \in RequestsOf(all), j \in ToSet(requests) : i < j => i \in ToSet(requests)
    /\ truncated <=> RequestsOf(all) # ToSet(requests)
    /\ truncated => Len(requests) >= RequestLimit

(* Console messages by number and size.                                      *)
Messages == [n : Nat, size : Nat]

(* The messages that the console does not have.                              *)
Lost(all, console) ==
    {i \in DOMAIN all \ RequestsOf(all) : \A k \in DOMAIN console : console[k].n # i}

(* The marker in the console that stands for message i, which was lost.      *)
StandsFor(k, i, console) ==
    /\ console[k] = Marker
    /\ \A j \in 1 .. k - 1 : console[j].n < i
    /\ \A j \in k + 1 .. Len(console) : console[j].n = 0 \/ console[j].n > i

(* Every lost message has its marker; a full history ends with one.          *)
MessagesTold(all, console) ==
    /\ all \in Seq(Nat) /\ console \in Seq(Messages)
    /\ \A k \in DOMAIN console : console[k].n <= Len(all)
    /\ \A i \in Lost(all, console) : \E k \in DOMAIN console : StandsFor(k, i, console)
    /\ Len(console) <= ConsoleLimit + 1
    /\ Len(console) = ConsoleLimit + 1 => console[Len(console)] = Marker

(* Appending x to a sequence, element by element.                            *)
LEMMA Appended ==
    ASSUME NEW S, NEW s \in Seq(S), NEW x \in S
    PROVE  /\ Append(s, x) \in Seq(S) /\ Len(s) \in Nat /\ Len(Append(s, x)) = Len(s) + 1
           /\ DOMAIN s = 1 .. Len(s) /\ DOMAIN Append(s, x) = 1 .. Len(s) + 1
           /\ \A i \in DOMAIN s : Append(s, x)[i] = s[i]
           /\ Append(s, x)[Len(s) + 1] = x
           /\ ToSet(Append(s, x)) = ToSet(s) \cup {x}
  <1>1. /\ Append(s, x) \in Seq(S) /\ Len(s) \in Nat /\ Len(Append(s, x)) = Len(s) + 1
        /\ DOMAIN s = 1 .. Len(s) /\ DOMAIN Append(s, x) = 1 .. Len(s) + 1
        /\ \A i \in DOMAIN s : Append(s, x)[i] = s[i]
        /\ Append(s, x)[Len(s) + 1] = x
    OBVIOUS
  <1>2. DOMAIN Append(s, x) = DOMAIN s \cup {Len(s) + 1}
    BY <1>1
  <1>3. ToSet(Append(s, x)) = ToSet(s) \cup {x}
    BY <1>1, <1>2 DEF ToSet
  <1> QED
    BY <1>1, <1>3

(* One more request, or one more of something else, is there to see.         *)
LEMMA MoreToSee ==
    ASSUME NEW all \in Seq(Nat), NEW x \in Nat
    PROVE  /\ Append(all, x) \in Seq(Nat) /\ Len(all) \in Nat /\ Len(Append(all, x)) = Len(all) + 1
           /\ DOMAIN all = 1 .. Len(all) /\ DOMAIN Append(all, x) = 1 .. Len(all) + 1
           /\ x = 0 => RequestsOf(Append(all, x)) = RequestsOf(all) \cup {Len(all) + 1}
           /\ x # 0 => RequestsOf(Append(all, x)) = RequestsOf(all)
           /\ RequestsOf(all) \subseteq 1 .. Len(all)
  <1>1. /\ Append(all, x) \in Seq(Nat) /\ Len(all) \in Nat /\ Len(Append(all, x)) = Len(all) + 1
        /\ DOMAIN all = 1 .. Len(all) /\ DOMAIN Append(all, x) = 1 .. Len(all) + 1
        /\ \A i \in DOMAIN all : Append(all, x)[i] = all[i]
        /\ Append(all, x)[Len(all) + 1] = x
    BY Appended
  <1>2. DOMAIN Append(all, x) = DOMAIN all \cup {Len(all) + 1} /\ Len(all) + 1 \notin DOMAIN all
    BY <1>1
  <1> QED
    BY <1>1, <1>2 DEF RequestsOf

(* A request is recorded, or left out and flagged.                           *)
LEMMA RequestSeen ==
    ASSUME NEW all, NEW requests, NEW truncated, RequestsKept(all, requests, truncated)
    PROVE  LET kept == Len(requests) < RequestLimit
               n == Len(all) + 1
           IN RequestsKept(Append(all, 0), IF kept THEN Append(requests, n) ELSE requests,
                           truncated \/ ~kept)
  <1> DEFINE n == Len(all) + 1
  <1>1. /\ all \in Seq(Nat) /\ requests \in Seq(Nat) /\ truncated \in BOOLEAN /\ RequestLimit \in Nat
        /\ Len(requests) \in Nat
    BY LiveAssumption DEF RequestsKept
  <1>2. /\ Append(all, 0) \in Seq(Nat) /\ n \in Nat /\ Len(all) \in Nat
        /\ RequestsOf(Append(all, 0)) = RequestsOf(all) \cup {n} /\ RequestsOf(all) \subseteq 1 .. Len(all)
    BY <1>1, MoreToSee
  <1>3. ToSet(requests) \subseteq RequestsOf(all) /\ n \notin RequestsOf(all)
        /\ \A i \in RequestsOf(all) : i < n /\ i \in Nat
    BY <1>2 DEF RequestsKept
  <1> HIDE DEF n
  <1>4. CASE Len(requests) < RequestLimit
    <2>1. ~truncated /\ RequestsOf(all) = ToSet(requests)
      BY <1>1, <1>4 DEF RequestsKept
    <2>2. Append(requests, n) \in Seq(Nat) /\ ToSet(Append(requests, n)) = ToSet(requests) \cup {n}
      BY <1>1, <1>2, Appended
    <2>3. RequestsKept(Append(all, 0), Append(requests, n), truncated)
      BY <1>1, <1>2, <1>3, <2>1, <2>2 DEF RequestsKept
    <2> QED
      BY <1>1, <1>4, <2>1, <2>3 DEF n
  <1>5. CASE ~(Len(requests) < RequestLimit)
    <2>1. ToSet(requests) # RequestsOf(Append(all, 0))
      BY <1>2, <1>3
    <2>2. Len(requests) >= RequestLimit
      BY <1>1, <1>5
    <2>3. \A i \in RequestsOf(Append(all, 0)), j \in ToSet(requests) : i < j => i \in ToSet(requests)
      <3>1. \A j \in ToSet(requests) : ~(n < j)
        BY <1>2, <1>3
      <3> QED
        BY <1>2, <3>1 DEF RequestsKept
    <2>4. RequestsKept(Append(all, 0), requests, TRUE)
      BY <1>1, <1>2, <1>3, <2>1, <2>2, <2>3 DEF RequestsKept
    <2> QED
      BY <1>5, <2>4 DEF n
  <1> QED
    BY <1>4, <1>5

(* A console message leaves the recorded requests what they are.             *)
LEMMA RequestsStayKept ==
    ASSUME NEW all, NEW requests, NEW truncated, RequestsKept(all, requests, truncated),
           NEW x \in Nat \ {0}
    PROVE  RequestsKept(Append(all, x), requests, truncated)
  <1>1. all \in Seq(Nat)
    BY DEF RequestsKept
  <1>2. Append(all, x) \in Seq(Nat) /\ RequestsOf(Append(all, x)) = RequestsOf(all)
    BY <1>1, MoreToSee
  <1> QED
    BY <1>2 DEF RequestsKept

(* A request leaves what the console tells what it is.                       *)
LEMMA MessagesStayTold ==
    ASSUME NEW all, NEW console, MessagesTold(all, console)
    PROVE  MessagesTold(Append(all, 0), console)
  <1>1. all \in Seq(Nat) /\ console \in Seq(Messages)
    BY DEF MessagesTold
  <1>2. /\ Append(all, 0) \in Seq(Nat) /\ Len(all) \in Nat /\ Len(Append(all, 0)) = Len(all) + 1
        /\ DOMAIN all = 1 .. Len(all) /\ DOMAIN Append(all, 0) = 1 .. Len(all) + 1
        /\ RequestsOf(Append(all, 0)) = RequestsOf(all) \cup {Len(all) + 1}
    BY <1>1, MoreToSee
  <1>3. DOMAIN Append(all, 0) \ RequestsOf(Append(all, 0)) = DOMAIN all \ RequestsOf(all)
    BY <1>2
  <1>4. Lost(Append(all, 0), console) = Lost(all, console)
    BY <1>3 DEF Lost
  <1>5. ASSUME NEW k \in DOMAIN console PROVE console[k].n \in Nat
    <2>1. console[k] \in Messages
      BY <1>1
    <2> QED
      BY <2>1 DEF Messages
  <1>6. \A k \in DOMAIN console : console[k].n <= Len(Append(all, 0))
    BY <1>2, <1>5 DEF MessagesTold
  <1> QED
    BY <1>2, <1>4, <1>6, Zenon DEF MessagesTold

(* The marker ends a history of the console.                                 *)
LEMMA MarkedLast ==
    ASSUME NEW console \in Seq(Messages)
    PROVE  /\ console # << >> /\ Last(console) = Marker => Marked(console) = console
           /\ console = << >> \/ Last(console) # Marker => Marked(console) = Append(console, Marker)
           /\ Marker \in Messages /\ Marker.n = 0
  BY DEF Marked, Marker, Messages

(* A message is recorded, or lost where a marker says so.                    *)
LEMMA MessageSeen ==
    ASSUME NEW all, NEW console, MessagesTold(all, console), NEW size \in Nat, NEW full \in BOOLEAN,
           ~full => Len(console) < ConsoleLimit
    PROVE  LET n == Len(all) + 1
           IN MessagesTold(Append(all, n), IF full THEN Marked(console)
                                                   ELSE Append(console, [n |-> n, size |-> size]))
  <1> DEFINE n == Len(all) + 1
             more == Append(all, n)
             L == Len(console)
  <1>1. /\ all \in Seq(Nat) /\ console \in Seq(Messages) /\ ConsoleLimit \in Nat /\ L \in Nat
        /\ DOMAIN console = 1 .. L
    BY LiveAssumption DEF MessagesTold
  <1>2. Len(all) \in Nat /\ n \in Nat /\ n # 0
    BY <1>1
  <1>3. /\ more \in Seq(Nat) /\ Len(more) = n /\ DOMAIN all = 1 .. Len(all) /\ DOMAIN more = 1 .. n
        /\ RequestsOf(more) = RequestsOf(all) /\ RequestsOf(all) \subseteq 1 .. Len(all)
    BY <1>1, <1>2, MoreToSee
  <1>4. /\ \A k \in 1 .. L : console[k].n \in Nat /\ console[k].n < n
        /\ DOMAIN more \ RequestsOf(more) = (DOMAIN all \ RequestsOf(all)) \cup {n}
    <2>1. ASSUME NEW k \in 1 .. L PROVE console[k].n \in Nat /\ console[k].n < n
      <3>1. console[k] \in Messages /\ k \in DOMAIN console
        BY <1>1
      <3>2. console[k].n <= Len(all)
        BY <3>1 DEF MessagesTold
      <3>3. console[k].n \in Nat
        BY <3>1 DEF Messages
      <3> HIDE DEF L
      <3> QED
        BY <1>2, <3>2, <3>3
    <2> QED
      BY <1>2, <1>3, <2>1
  <1>5. /\ \A i \in Lost(all, console) : i \in Nat /\ i < n /\ i # 0
        /\ \A i \in Lost(all, console) : \E k \in 1 .. L : StandsFor(k, i, console)
    <2>1. \A i \in Lost(all, console) : i \in 1 .. Len(all)
      BY <1>3 DEF Lost
    <2>2. \A i \in Lost(all, console) : \E k \in 1 .. L : StandsFor(k, i, console)
      BY <1>1 DEF MessagesTold
    <2> QED
      BY <1>2, <2>1, <2>2
  <1> HIDE DEF n, more, L
  <1>6. CASE ~full
    <2> DEFINE m == [n |-> n, size |-> size]
               told == Append(console, m)
    <2>1. m \in Messages /\ m.n = n
      BY <1>2 DEF Messages
    <2> HIDE DEF m
    <2>2. /\ told \in Seq(Messages) /\ Len(told) = L + 1 /\ DOMAIN told = 1 .. L + 1
          /\ \A k \in 1 .. L : told[k] = console[k]
          /\ told[L + 1] = m
      BY <1>1, <2>1, Appended DEF L
    <2> HIDE DEF told
    <2>3. Lost(more, told) \subseteq Lost(all, console)
      <3> SUFFICES ASSUME NEW i \in Lost(more, told) PROVE i \in Lost(all, console)
        OBVIOUS
      <3>1. i # n
        BY <1>1, <2>1, <2>2 DEF Lost
      <3>2. i \in DOMAIN all \ RequestsOf(all)
        BY <1>4, <3>1 DEF Lost
      <3>3. \A k \in DOMAIN console : console[k].n # i
        BY <1>1, <2>2 DEF Lost
      <3> QED
        BY <3>2, <3>3 DEF Lost
    <2>4. ASSUME NEW i \in Lost(more, told) PROVE \E k \in DOMAIN told : StandsFor(k, i, told)
      <3>1. i \in Nat /\ i < n
        BY <1>5, <2>3
      <3>2. PICK k \in 1 .. L : StandsFor(k, i, console)
        BY <1>5, <2>3
      <3>3. told[k] = Marker /\ \A j \in 1 .. k - 1 : told[j].n < i
        BY <1>1, <2>2, <3>2 DEF StandsFor
      <3>4. ASSUME NEW j \in k + 1 .. Len(told) PROVE told[j].n = 0 \/ told[j].n > i
        <4>1. CASE j \in 1 .. L
          BY <1>1, <2>2, <3>2, <4>1 DEF StandsFor, L
        <4>2. CASE j = L + 1
          BY <1>2, <2>1, <2>2, <3>1, <4>2
        <4> QED
          BY <1>1, <2>2, <4>1, <4>2
      <3>5. StandsFor(k, i, told) /\ k \in DOMAIN told
        BY <1>1, <2>2, <3>3, <3>4 DEF StandsFor
      <3> QED
        BY <3>5
    <2>5. ASSUME NEW k \in DOMAIN told PROVE told[k].n <= n
      <3>1. k \in 1 .. L \/ k = L + 1
        BY <1>1, <2>2
      <3>2. CASE k \in 1 .. L
        <4>1. told[k].n = console[k].n
          BY <2>2, <3>2
        <4>2. console[k].n \in Nat /\ console[k].n < n
          BY <1>4, <3>2
        <4> QED
          BY <1>2, <4>1, <4>2
      <3>3. CASE k = L + 1
        BY <1>2, <2>1, <2>2, <3>3
      <3> QED
        BY <3>1, <3>2, <3>3
    <2>6. Len(told) <= ConsoleLimit + 1 /\ Len(told) # ConsoleLimit + 1
      BY <1>1, <1>6, <2>2 DEF L
    <2>7. MessagesTold(more, told)
      BY <1>3, <2>2, <2>4, <2>5, <2>6 DEF MessagesTold
    <2> QED
      BY <1>6, <2>7 DEF told, m, more, n
  <1>7. CASE full
    <2>1. PICK told : told = Marked(console)
      OBVIOUS
    <2>2. PICK k \in DOMAIN told :
             /\ told \in Seq(Messages) /\ DOMAIN told = 1 .. k /\ Len(told) = k /\ told[k] = Marker
             /\ k \in Nat /\ k <= L + 1 /\ L <= k /\ \A j \in 1 .. L : told[j] = console[j]
             /\ k <= ConsoleLimit + 1 /\ \A j \in L + 1 .. k : j = k
      <3>1. CASE console # << >> /\ Last(console) = Marker
        <4>1. told = console /\ console[L] = Marker /\ L \in DOMAIN console
          BY <1>1, <2>1, <3>1, MarkedLast DEF Last, L
        <4>2. L <= ConsoleLimit + 1
          BY DEF MessagesTold, L
        <4>3. DOMAIN told = 1 .. L /\ Len(told) = L
          BY <1>1, <4>1 DEF L
        <4>4. L \in DOMAIN told /\ \A j \in L + 1 .. L : j = L
          BY <1>1, <4>1, <4>3
        <4> QED
          BY <1>1, <4>1, <4>2, <4>3, <4>4
      <3>2. CASE console = << >> \/ Last(console) # Marker
        <4>1. told = Append(console, Marker) /\ Marker \in Messages
          BY <1>1, <2>1, <3>2, MarkedLast
        <4>2. /\ told \in Seq(Messages) /\ Len(told) = L + 1 /\ DOMAIN told = 1 .. L + 1
              /\ \A j \in 1 .. L : told[j] = console[j]
              /\ told[L + 1] = Marker
          BY <1>1, <4>1, Appended DEF L
        <4>3. L <= ConsoleLimit
          <5>1. CASE console = << >>
            BY <1>1, <5>1 DEF L
          <5>2. CASE Last(console) # Marker
            <6>1. L <= ConsoleLimit + 1 /\ (L = ConsoleLimit + 1 => Last(console) = Marker)
              BY Zenon DEF MessagesTold, Last, L
            <6> QED
              BY <1>1, <5>2, <6>1
          <5> QED
            BY <3>2, <5>1, <5>2
        <4>4. L + 1 \in DOMAIN told
          BY <1>1, <4>2
        <4>5. \A j \in L + 1 .. L + 1 : j = L + 1
          BY <1>1
        <4>6. /\ L + 1 \in Nat /\ L + 1 <= L + 1 /\ L <= L + 1 /\ L + 1 <= ConsoleLimit + 1
          BY <1>1, <4>3
        <4> QED
          BY <4>2, <4>4, <4>5, <4>6
      <3> QED
        BY <3>1, <3>2
    <2>3. Marker.n = 0
      BY <1>1, MarkedLast
    <2>4. \A j \in 1 .. k : told[j].n \in Nat /\ told[j].n < n
      BY <1>1, <1>2, <1>4, <2>2, <2>3
    <2>5. ASSUME NEW i \in Lost(more, told) PROVE \E j \in DOMAIN told : StandsFor(j, i, told)
      <3>1. CASE i = n
        <4>1. \A j \in 1 .. k - 1 : told[j].n < n
          BY <2>2, <2>4
        <4> QED
          BY <2>2, <3>1, <4>1 DEF StandsFor
      <3>2. CASE i # n
        <4>1. i \in Lost(all, console)
          BY <1>1, <1>4, <2>2, <3>2 DEF Lost
        <4>2. PICK j \in 1 .. L : StandsFor(j, i, console)
          BY <1>5, <4>1
        <4>3. told[j] = Marker /\ \A h \in 1 .. j - 1 : told[h].n < i
          BY <1>1, <2>2, <4>2 DEF StandsFor
        <4>4. ASSUME NEW h \in j + 1 .. Len(told) PROVE told[h].n = 0 \/ told[h].n > i
          <5>1. CASE h \in 1 .. L
            BY <1>1, <2>2, <4>2, <5>1 DEF StandsFor, L
          <5>2. CASE h = k
            BY <2>2, <2>3, <5>2
          <5> QED
            BY <1>1, <2>2, <5>1, <5>2
        <4>5. StandsFor(j, i, told) /\ j \in DOMAIN told
          BY <1>1, <2>2, <4>3, <4>4 DEF StandsFor
        <4> QED
          BY <4>5
      <3> QED
        BY <3>1, <3>2
    <2>6. \A j \in DOMAIN told : told[j].n <= n
      BY <1>2, <2>2, <2>4
    <2>7. MessagesTold(more, told)
      BY <1>1, <1>3, <2>2, <2>5, <2>6 DEF MessagesTold
    <2> QED
      BY <1>7, <2>1, <2>7 DEF more, n
  <1> QED
    BY <1>6, <1>7

(* The histories of requests and console messages.                           *)
SeenInv ==
    /\ DOMAIN seen = {"requests", "truncated", "console", "all"}
    /\ RequestsKept(seen.all, seen.requests, seen.truncated)
    /\ MessagesTold(seen.all, seen.console)

(* load_web_resource and show_console_message keep both histories.           *)
LEMMA ObserveSteps == ASSUME SeenInv, ObserveNext PROVE SeenInv'
  <1>1. CASE load_web_resource
    <2> DEFINE kept == Len(seen.requests) < RequestLimit
               n == Len(seen.all) + 1
    <2>1. /\ DOMAIN seen' = {"requests", "truncated", "console", "all"}
          /\ seen'.all = Append(seen.all, 0) /\ seen'.console = seen.console
          /\ seen'.requests = IF kept THEN Append(seen.requests, n) ELSE seen.requests
          /\ seen'.truncated = (seen.truncated \/ ~kept)
      BY <1>1 DEF load_web_resource, SeenInv
    <2>2. RequestsKept(Append(seen.all, 0), IF kept THEN Append(seen.requests, n) ELSE seen.requests,
                       seen.truncated \/ ~kept)
      BY RequestSeen DEF SeenInv
    <2>3. MessagesTold(Append(seen.all, 0), seen.console)
      BY MessagesStayTold DEF SeenInv
    <2> HIDE DEF kept, n
    <2> QED
      BY <2>1, <2>2, <2>3, Zenon DEF SeenInv
  <1>2. CASE \E s \in MessageSizes : show_console_message(s)
    <2>1. PICK s \in MessageSizes : show_console_message(s)
      BY <1>2
    <2> DEFINE n == Len(seen.all) + 1
    <2>2. PICK full \in BOOLEAN :
             full = (Len(seen.console) >= ConsoleLimit \/ Bytes(seen.console) + s > ConsoleBytes)
      OBVIOUS
    <2>3. /\ DOMAIN seen' = {"requests", "truncated", "console", "all"}
          /\ seen'.all = Append(seen.all, n) /\ seen'.requests = seen.requests
          /\ seen'.truncated = seen.truncated
          /\ seen'.console = IF full THEN Marked(seen.console)
                             ELSE Append(seen.console, [n |-> n, size |-> s])
      BY <2>1, <2>2 DEF show_console_message, SeenInv
    <2>4. s \in Nat /\ n \in Nat \ {0} /\ (~full => Len(seen.console) < ConsoleLimit)
      <3>1. seen.all \in Seq(Nat) /\ seen.console \in Seq(Messages) /\ ConsoleLimit \in Nat /\ s \in Nat
        BY LiveAssumption DEF SeenInv, MessagesTold
      <3>2. Len(seen.all) \in Nat /\ Len(seen.console) \in Nat
        BY <3>1
      <3>3. ~full => ~(Len(seen.console) >= ConsoleLimit)
        BY <2>2
      <3> QED
        BY <3>1, <3>2, <3>3
    <2>5. RequestsKept(Append(seen.all, n), seen.requests, seen.truncated)
      BY <2>4, RequestsStayKept DEF SeenInv
    <2>6. MessagesTold(Append(seen.all, n), IF full THEN Marked(seen.console)
                                            ELSE Append(seen.console, [n |-> n, size |-> s]))
      BY <2>4, MessageSeen DEF SeenInv
    <2> HIDE DEF n
    <2> QED
      BY <2>3, <2>5, <2>6, Zenon DEF SeenInv
  <1> QED
    BY <1>1, <1>2 DEF ObserveNext

(* What the page's histories leave out is announced, in every run.           *)
THEOREM LossIsAlwaysAnnounced == Spec => []LossIsAnnounced
  <1>1. Init => SeenInv
    <2> SUFFICES ASSUME Init PROVE SeenInv
      OBVIOUS
    <2>1. seen = [requests |-> << >>, truncated |-> FALSE, console |-> << >>, all |-> << >>]
      BY DEF Init, LiveInit
    <2>2. /\ DOMAIN seen = {"requests", "truncated", "console", "all"} /\ seen.requests = << >>
          /\ seen.truncated = FALSE /\ seen.console = << >> /\ seen.all = << >>
      BY <2>1
    <2>3. RequestsOf(<< >>) = {} /\ ToSet(<< >>) = {} /\ Lost(<< >>, << >>) = {}
      BY DEF RequestsOf, ToSet, Lost
    <2>4. RequestsKept(<< >>, << >>, FALSE)
      BY <2>3 DEF RequestsKept
    <2>5. MessagesTold(<< >>, << >>)
      <3>1. Len(<< >>) <= ConsoleLimit + 1 /\ Len(<< >>) # ConsoleLimit + 1
        BY LiveAssumption
      <3>2. << >> \in Seq(Nat) /\ << >> \in Seq(Messages) /\ DOMAIN << >> = {}
        OBVIOUS
      <3> QED
        BY <2>3, <3>1, <3>2, Zenon DEF MessagesTold
    <2> QED
      BY <2>2, <2>4, <2>5 DEF SeenInv
  <1>2. SeenInv /\ [Next]_vars => SeenInv'
    <2> SUFFICES ASSUME SeenInv, [Next]_vars PROVE SeenInv'
      OBVIOUS
    <2>1. CASE UNCHANGED seen
      BY <2>1 DEF SeenInv
    <2>2. CASE ObserveNext
      BY <2>2, ObserveSteps
    <2>3. LoadNext \/ EvaluateNext \/ IdleNext => UNCHANGED seen
      BY DEF LoadNext, EvaluateNext, IdleNext, load, load_poll, load_deadline, evaluate_javascript,
             document_poll, answer_poll, answer_timeout, page_navigates, wait_for_network_idle,
             idle_poll, idle_deadline
    <2>4. SessionNext => UNCHANGED seen
      BY DEF SessionNext, liveVars, OnlyPage, Spins, Presses, Click, fails, startup, pump_runtime,
             network_idle, dom_projection, auto_solve_challenges, search_startup,
             snapshot_after_settle, query, search_diagnostics, link_page, click, open_link,
             control_snapshot, probe, diagnostics, output, search_output
    <2>5. ListNext => UNCHANGED seen
      BY DEF ListNext, list_links, bounded_string_page, liveVars
    <2> QED
      BY <2>1, <2>2, <2>3, <2>4, <2>5 DEF Next, vars, liveVars
  <1>3. SeenInv => LossIsAnnounced
    <2> SUFFICES ASSUME SeenInv PROVE LossIsAnnounced
      OBVIOUS
    <2> DEFINE requests == {i \in DOMAIN seen.all : seen.all[i] = 0}
               console == seen.console
               lost == {i \in DOMAIN seen.all \ requests : \A k \in DOMAIN console : console[k].n # i}
    <2>1. requests = RequestsOf(seen.all) /\ lost = Lost(seen.all, console)
      BY DEF RequestsOf, Lost
    <2>2. /\ ToSet(seen.requests) \subseteq requests
          /\ \A i \in requests, j \in ToSet(seen.requests) : i < j => i \in ToSet(seen.requests)
          /\ seen.truncated <=> requests # ToSet(seen.requests)
      BY <2>1 DEF SeenInv, RequestsKept
    <2>3. /\ \A i \in lost : \E k \in DOMAIN console :
                /\ console[k] = Marker
                /\ \A j \in 1 .. k - 1 : console[j].n < i
                /\ \A j \in k + 1 .. Len(console) : console[j].n = 0 \/ console[j].n > i
          /\ Len(console) <= ConsoleLimit + 1
      BY <2>1, Zenon DEF SeenInv, MessagesTold, StandsFor
    <2> HIDE DEF requests, console, lost
    <2> QED
      BY <2>2, <2>3, Zenon DEF LossIsAnnounced, requests, console, lost
  <1> QED
    BY <1>1, <1>2, <1>3, PTL DEF Spec

(* Check runs that are stored and compared *)

(* A site that passed has a result for each subsystem, one that failed has   *)
(* one failure, and any other neither.                                       *)
Told(result) ==
    /\ result.subsystems = IF result.status = "Pass" THEN Subsystems ELSE {}
    /\ DOMAIN result.failures = IF result.status = "Fail" THEN {1} ELSE {}

(* A run with a sequence of results.                                         *)
IsRun(r) ==
    /\ DOMAIN r = {"id", "state", "sites"}
    /\ \E S : r.sites \in Seq(S)
    /\ \A i \in DOMAIN r.sites : Told(r.sites[i])

(* With unique ids the results by id are the results of the sites, and each  *)
(* site is found under its own id.                                           *)
LEMMA SitesById ==
    ASSUME NEW r, IsRun(r), UniqueIds(r)
    PROVE  /\ \A i, j \in DOMAIN r.sites : r.sites[i].site.id = r.sites[j].site.id => i = j
           /\ DOMAIN ById(r) = {r.sites[i].site.id : i \in DOMAIN r.sites}
           /\ \A i \in DOMAIN r.sites : ById(r)[r.sites[i].site.id] = r.sites[i]
           /\ IsFiniteSet(DOMAIN r.sites)
  <1>1. PICK n \in Nat : n = Len(r.sites) /\ DOMAIN r.sites = 1 .. n
    BY DEF IsRun
  <1> DEFINE D == DOMAIN ById(r)
             f == [i \in 1 .. n |-> r.sites[i].site.id]
  <1>2. D = {r.sites[i].site.id : i \in 1 .. n}
    BY <1>1 DEF ById
  <1>3. f \in Surjection(1 .. n, D)
    BY <1>2 DEF Surjection
  <1>4. IsFiniteSet(1 .. n) /\ Cardinality(1 .. n) = n
    BY FS_Interval
  <1>5. Cardinality(D) = n
    BY <1>1 DEF UniqueIds
  <1> HIDE DEF D, f
  <1>6. f \in Injection(1 .. n, D)
    BY <1>3, <1>4, <1>5, FS_Surjection
  <1>7. \A i, j \in 1 .. n : f[i] = f[j] => i = j
    BY <1>6 DEF Injection, IsInjective
  <1>8. \A i \in 1 .. n : f[i] = r.sites[i].site.id
    BY DEF f
  <1>9. ASSUME NEW i \in 1 .. n PROVE ById(r)[r.sites[i].site.id] = r.sites[i]
    <2>1. {j \in DOMAIN r.sites : r.sites[j].site.id = r.sites[i].site.id} = {i}
      BY <1>1, <1>7, <1>8
    <2>2. Max({i}) = i
      BY DEF Max
    <2>3. r.sites[i].site.id \in {r.sites[j].site.id : j \in DOMAIN r.sites}
      BY <1>1
    <2>4. ById(r)[r.sites[i].site.id]
            = r.sites[Max({j \in DOMAIN r.sites : r.sites[j].site.id = r.sites[i].site.id})]
      BY <2>3 DEF ById
    <2> QED
      BY <2>1, <2>2, <2>4
  <1> QED
    BY <1>1, <1>2, <1>4, <1>7, <1>8, <1>9 DEF D

(* The results, and the ids, with a status in S.                             *)
SitesWith(r, S) == {i \in DOMAIN r.sites : r.sites[i].status \in S}
IdsWith(r, S) == {id \in DOMAIN ById(r) : ById(r)[id].status \in S}

(* Counting the sites of a status is counting the ids of that status.        *)
LEMMA SitesCounted ==
    ASSUME NEW r, IsRun(r), UniqueIds(r), NEW S
    PROVE  Cardinality(SitesWith(r, S)) = Cardinality(IdsWith(r, S))
  <1> DEFINE A == SitesWith(r, S)
             B == IdsWith(r, S)
             g == [i \in A |-> r.sites[i].site.id]
  <1>1. /\ \A i, j \in DOMAIN r.sites : r.sites[i].site.id = r.sites[j].site.id => i = j
        /\ DOMAIN ById(r) = {r.sites[i].site.id : i \in DOMAIN r.sites}
        /\ \A i \in DOMAIN r.sites : ById(r)[r.sites[i].site.id] = r.sites[i]
        /\ IsFiniteSet(DOMAIN r.sites)
    BY SitesById
  <1>2. A \in SUBSET DOMAIN r.sites
    BY DEF SitesWith
  <1>3. IsFiniteSet(A)
    BY <1>1, <1>2, FS_Subset
  <1>4. \A i \in A : r.sites[i].site.id \in B
    BY <1>1 DEF SitesWith, IdsWith
  <1>5. \A b \in B : \E i \in A : r.sites[i].site.id = b
    BY <1>1 DEF SitesWith, IdsWith
  <1> HIDE DEF A, B
  <1>6. g \in Bijection(A, B)
    <2>1. g \in [A -> B]
      BY <1>4
    <2>2. \A i, j \in A : g[i] = g[j] => i = j
      BY <1>1, <1>2
    <2>3. \A b \in B : \E i \in A : g[i] = b
      BY <1>5
    <2> HIDE DEF g
    <2> QED
      BY <2>1, <2>2, <2>3 DEF Bijection, Injection, Surjection, IsInjective
  <1>7. Cardinality(B) = Cardinality(A)
    BY <1>3, <1>6, FS_Bijection DEF ExistsBijection
  <1> QED
    BY <1>7 DEF A, B

(* The subsystems and failures of a run's sites, as its summary counts them. *)
SubsystemPasses(r) ==
    [s \in UNION {r.sites[i].subsystems : i \in DOMAIN r.sites} |->
        Cardinality({i \in DOMAIN r.sites : s \in r.sites[i].subsystems})]
Failing(r) == UNION {{i} \X DOMAIN r.sites[i].failures : i \in DOMAIN r.sites}

(* Every site that failed has one failure.                                   *)
LEMMA FailuresCounted ==
    ASSUME NEW r, IsRun(r) PROVE Cardinality(Failing(r)) = Cardinality(SitesWith(r, {"Fail"}))
  <1> DEFINE A == SitesWith(r, {"Fail"})
             B == Failing(r)
             g == [i \in A |-> <<i, 1>>]
  <1>1. PICK S : r.sites \in Seq(S)
    BY DEF IsRun
  <1>2. DOMAIN r.sites = 1 .. Len(r.sites) /\ Len(r.sites) \in Nat
    BY <1>1
  <1>3. IsFiniteSet(A)
    <2>1. A \in SUBSET (1 .. Len(r.sites))
      BY <1>2 DEF SitesWith
    <2>2. IsFiniteSet(1 .. Len(r.sites))
      BY <1>2, FS_Interval
    <2> QED
      BY <2>1, <2>2, FS_Subset
  <1>4. \A i \in DOMAIN r.sites : DOMAIN r.sites[i].failures = IF i \in A THEN {1} ELSE {}
    BY DEF IsRun, Told, SitesWith
  <1>5. A \subseteq DOMAIN r.sites
    BY DEF SitesWith
  <1> HIDE DEF A
  <1>6. \A b : b \in B <=> \E i \in A : b = <<i, 1>>
    BY <1>4, <1>5 DEF Failing
  <1> HIDE DEF B
  <1>7. g \in Bijection(A, B)
    <2>1. g \in [A -> B] /\ (\A i, j \in A : g[i] = g[j] => i = j) /\ \A b \in B : \E i \in A : g[i] = b
      BY <1>6
    <2> HIDE DEF g
    <2> QED
      BY <2>1 DEF Bijection, Injection, Surjection, IsInjective
  <1>8. Cardinality(B) = Cardinality(A)
    BY <1>3, <1>7, FS_Bijection DEF ExistsBijection
  <1> QED
    BY <1>8 DEF A, B

(* Every subsystem passed at the sites that passed.                          *)
LEMMA PassesCounted ==
    ASSUME NEW r, IsRun(r)
    PROVE  SubsystemPasses(r) = [s \in (IF SitesWith(r, {"Pass"}) = {} THEN {} ELSE Subsystems) |->
                                    Cardinality(SitesWith(r, {"Pass"}))]
  <1> DEFINE A == SitesWith(r, {"Pass"})
             U == UNION {r.sites[i].subsystems : i \in DOMAIN r.sites}
  <1>1. \A i \in DOMAIN r.sites : r.sites[i].subsystems = IF i \in A THEN Subsystems ELSE {}
    BY DEF IsRun, Told, SitesWith
  <1>2. A \subseteq DOMAIN r.sites
    BY DEF SitesWith
  <1> HIDE DEF A
  <1>3. U = IF A = {} THEN {} ELSE Subsystems
    BY <1>1, <1>2
  <1>4. ASSUME NEW s \in Subsystems PROVE {i \in DOMAIN r.sites : s \in r.sites[i].subsystems} = A
    BY <1>1, <1>2
  <1>5. SubsystemPasses(r) = [s \in U |-> Cardinality({i \in DOMAIN r.sites : s \in r.sites[i].subsystems})]
    BY DEF SubsystemPasses
  <1> HIDE DEF U
  <1> QED
    BY <1>3, <1>4, <1>5 DEF A

(* What the summary of a run says in terms of its sites.                     *)
LEMMA Summarised ==
    ASSUME NEW r
    PROVE  LET statuses == {r.sites[i].status : i \in DOMAIN r.sites} \ {Unset}
           IN /\ RunSummary(r) =
                   [scheduled |-> Len(r.sites),
                    tested |-> Cardinality(SitesWith(r, statuses)),
                    statuses |-> [s \in statuses |-> Cardinality(SitesWith(r, {s}))],
                    subsystem_passes |-> SubsystemPasses(r),
                    failures |-> Cardinality(Failing(r)),
                    fingerprints |-> Cardinality(Fingerprints(r))]
              /\ CoverageSummary(r) = Cardinality(SitesWith(r, {"Pass", "PassWithWarnings"}))
  <1> DEFINE statuses == {r.sites[i].status : i \in DOMAIN r.sites} \ {Unset}
  <1>1. SitesWith(r, statuses) = {i \in DOMAIN r.sites : r.sites[i].status # Unset}
    BY DEF SitesWith
  <1>2. \A s : SitesWith(r, {s}) = {i \in DOMAIN r.sites : r.sites[i].status = s}
    BY DEF SitesWith
  <1>3. SitesWith(r, {"Pass", "PassWithWarnings"}) = {i \in DOMAIN r.sites : Passed(r.sites[i].status)}
    BY DEF SitesWith, Passed
  <1>4. Count(DOMAIN r.sites, LAMBDA i : r.sites[i].status # Unset) = Cardinality(SitesWith(r, statuses))
    BY <1>1 DEF Count
  <1>5. [s \in statuses |-> Count(DOMAIN r.sites, LAMBDA i : r.sites[i].status = s)]
          = [s \in statuses |-> Cardinality(SitesWith(r, {s}))]
    BY <1>2 DEF Count
  <1>6. CoverageSummary(r) = Cardinality(SitesWith(r, {"Pass", "PassWithWarnings"}))
    BY <1>3 DEF CoverageSummary, Count
  <1>7. [s \in UNION {r.sites[i].subsystems : i \in DOMAIN r.sites} |->
            Count(DOMAIN r.sites, LAMBDA i : s \in r.sites[i].subsystems)] = SubsystemPasses(r)
    BY DEF Count, SubsystemPasses
  <1> QED
    BY <1>4, <1>5, <1>6, <1>7, Zenon DEF RunSummary, Failing

(* Two runs with unique ids between which compare_runs finds nothing count   *)
(* the same sites.                                                           *)
LEMMA SameCounts ==
    ASSUME NEW before, NEW after, IsRun(before), IsRun(after), UniqueIds(before), UniqueIds(after),
           \A d \in Range(compare_runs(before, after)) : d = {}
    PROVE  RunSummary(before) = RunSummary(after) /\ CoverageSummary(before) = CoverageSummary(after)
  <1> DEFINE left == ById(before)
             right == ById(after)
             diff == compare_runs(before, after)
             Found(r) == {r.sites[i].status : i \in DOMAIN r.sites} \ {Unset}
  <1>1. /\ DOMAIN diff = {"added_sites", "removed_sites", "status_changes", "new_fingerprints",
                          "resolved_fingerprints"}
        /\ diff.added_sites = DOMAIN right \ DOMAIN left
        /\ diff.removed_sites = DOMAIN left \ DOMAIN right
        /\ diff.status_changes
             = {id \in DOMAIN left \cap DOMAIN right : left[id].status # right[id].status}
        /\ diff.new_fingerprints = Fingerprints(after) \ Fingerprints(before)
        /\ diff.resolved_fingerprints = Fingerprints(before) \ Fingerprints(after)
    BY DEF compare_runs
  <1> HIDE DEF diff, left, right
  <1>2. /\ diff.added_sites = {} /\ diff.removed_sites = {} /\ diff.status_changes = {}
        /\ diff.new_fingerprints = {} /\ diff.resolved_fingerprints = {}
    BY <1>1 DEF Range, diff
  <1>3. DOMAIN left = DOMAIN right /\ \A id \in DOMAIN left : left[id].status = right[id].status
    BY <1>1, <1>2
  <1>4. Fingerprints(before) = Fingerprints(after)
    BY <1>1, <1>2
  <1>5. ASSUME NEW S PROVE Cardinality(SitesWith(before, S)) = Cardinality(SitesWith(after, S))
    <2>1. IdsWith(before, S) = IdsWith(after, S)
      BY <1>3 DEF IdsWith, left, right
    <2> QED
      BY <2>1, SitesCounted
  <1>6. Len(before.sites) = Len(after.sites)
    BY <1>3 DEF UniqueIds, left, right
  <1>7. Found(before) = Found(after)
    <2>1. ASSUME NEW r, IsRun(r), UniqueIds(r)
          PROVE  Found(r) = {ById(r)[id].status : id \in DOMAIN ById(r)} \ {Unset}
      <3>1. /\ DOMAIN ById(r) = {r.sites[i].site.id : i \in DOMAIN r.sites}
            /\ \A i \in DOMAIN r.sites : ById(r)[r.sites[i].site.id] = r.sites[i]
        BY <2>1, SitesById
      <3>2. \A i \in DOMAIN r.sites : \E id \in DOMAIN ById(r) : r.sites[i].status = ById(r)[id].status
        BY <3>1
      <3>3. \A id \in DOMAIN ById(r) : \E i \in DOMAIN r.sites : r.sites[i].status = ById(r)[id].status
        BY <3>1
      <3> QED
        BY <3>2, <3>3
    <2>2. {left[id].status : id \in DOMAIN left} = {right[id].status : id \in DOMAIN right}
      BY <1>3
    <2> HIDE DEF Found
    <2> QED
      BY <2>1, <2>2 DEF left, right
  <1>8. /\ RunSummary(before) =
             [scheduled |-> Len(before.sites),
              tested |-> Cardinality(SitesWith(before, Found(before))),
              statuses |-> [s \in Found(before) |-> Cardinality(SitesWith(before, {s}))],
              subsystem_passes |-> SubsystemPasses(before), failures |-> Cardinality(Failing(before)),
              fingerprints |-> Cardinality(Fingerprints(before))]
        /\ RunSummary(after) =
             [scheduled |-> Len(after.sites),
              tested |-> Cardinality(SitesWith(after, Found(after))),
              statuses |-> [s \in Found(after) |-> Cardinality(SitesWith(after, {s}))],
              subsystem_passes |-> SubsystemPasses(after), failures |-> Cardinality(Failing(after)),
              fingerprints |-> Cardinality(Fingerprints(after))]
    BY Summarised, Zenon
  <1>9. Cardinality(Failing(before)) = Cardinality(Failing(after))
    BY <1>5, FailuresCounted
  <1>10. SubsystemPasses(before) = SubsystemPasses(after)
    <2>1. "Pass" # Unset
      BY CheckAssumption DEF Statuses
    <2>2. \A r : SitesWith(r, {"Pass"}) = {} <=> "Pass" \notin Found(r)
      BY <2>1 DEF SitesWith
    <2>3. SitesWith(before, {"Pass"}) = {} <=> SitesWith(after, {"Pass"}) = {}
      BY <1>7, <2>2
    <2> HIDE DEF Found
    <2> QED
      BY <1>5, <2>3, PassesCounted
  <1> HIDE DEF Found
  <1>11. [s \in Found(before) |-> Cardinality(SitesWith(before, {s}))]
          = [s \in Found(after) |-> Cardinality(SitesWith(after, {s}))]
    BY <1>5, <1>7
  <1>12. RunSummary(before) = RunSummary(after)
    BY <1>4, <1>5, <1>6, <1>7, <1>8, <1>11, <1>9, <1>10
  <1>13. CoverageSummary(before) = CoverageSummary(after)
    BY <1>5, Summarised
  <1> QED
    BY <1>12, <1>13

(* A file of the store: absent, torn or a run.                               *)
IsStored(file) == file \in {Unset, Torn} \/ IsRun(file)

(* A result of a site whose turn has not come.                               *)
Untouched(result) ==
    "status" \in DOMAIN result /\ result.subsystems = {} /\ DOMAIN result.failures = {}

(* Every file is one of these, and the sites from index on are still to come. *)
FilesInv ==
    /\ \A id \in Runs : id \in DOMAIN files /\ DOMAIN files[id] = {"json", "tmp"}
    /\ \A id \in Runs : IsStored(files[id].json) /\ IsStored(files[id].tmp)
    /\ checking # "none" => IsRun(run)
    /\ checking = "running" =>
          index \in Nat /\ \A i \in DOMAIN run.sites : i >= index => Untouched(run.sites[i])

(* What run_site leaves of a site.                                           *)
LEMMA SkippedTold == ASSUME NEW result, Untouched(result) PROVE Told(Skipped(result))
  <1>1. /\ Skipped(result).status = "Skipped"
        /\ Skipped(result).subsystems = result.subsystems /\ Skipped(result).failures = result.failures
    BY DEF Skipped, Untouched
  <1> QED
    BY <1>1 DEF Told, Untouched

(* What run_site makes of the executor's answer.                             *)
LEMMA OutcomeTold ==
    ASSUME NEW site, NEW state, NEW o \in Outcomes PROVE Told(SiteResult(site, state, o))
  <1>1. \/ o.status = "Pass" /\ o.subsystems = Subsystems /\ o.failures = << >>
        \/ o.status = "Fail" /\ o.subsystems = {} /\ \E f : o.failures = <<f>>
    BY DEF Outcomes
  <1>2. DOMAIN << >> = {} /\ \A f : DOMAIN <<f>> = {1}
    OBVIOUS
  <1> QED
    BY <1>1, <1>2 DEF SiteResult, Told

(* check corpus, with a crash at any point.                                  *)
LEMMA CorpusSteps == ASSUME FilesInv, CorpusNext PROVE FilesInv'
  <1>1. CASE \E id \in Runs, sites \in Corpora : begin(id, sites)
    <2>1. PICK id \in Runs, sites \in Corpora : begin(id, sites)
      BY <1>1
    <2> DEFINE S == {SiteResult(site, "Pending", Untested) : site \in ToSet(sites)}
               results == [i \in DOMAIN sites |-> SiteResult(sites[i], "Pending", Untested)]
    <2>2. sites \in Seq(ToSet(sites))
      BY CheckAssumption
    <2>3. \A i \in DOMAIN sites : sites[i] \in ToSet(sites)
      BY DEF ToSet
    <2>4. results \in Seq(S)
      <3>1. DOMAIN sites = 1 .. Len(sites) /\ Len(sites) \in Nat
        BY <2>2
      <3>2. results \in [1 .. Len(sites) -> S]
        BY <2>3, <3>1
      <3> QED
        BY <3>1, <3>2, SeqDef
    <2>5. DOMAIN run' = {"id", "state", "sites"} /\ run'.sites = results
      BY <2>1 DEF begin, new
    <2>6. \A i \in DOMAIN results : Told(results[i]) /\ Untouched(results[i])
      BY CheckAssumption DEF SiteResult, Untested, Told, Untouched, Statuses
    <2>7. UNCHANGED files /\ index' = 1
      BY <2>1 DEF begin
    <2> HIDE DEF results
    <2>8. IsRun(run')
      BY <2>4, <2>5, <2>6 DEF IsRun
    <2> QED
      BY <2>5, <2>6, <2>7, <2>8 DEF FilesInv
  <1>2. CASE run_site
    <2>1. /\ DOMAIN run = {"id", "state", "sites"} /\ index \in DOMAIN run.sites /\ UNCHANGED files
          /\ checking = "running" /\ index \in Nat /\ index' = index + 1 /\ UNCHANGED checking
          /\ \A i \in DOMAIN run.sites : i >= index => Untouched(run.sites[i])
          /\ \A i \in DOMAIN run.sites : Told(run.sites[i])
      BY <1>2 DEF run_site, FilesInv, IsRun
    <2>2. PICK result : Told(result) /\ run' = [run EXCEPT !.sites[index] = result]
      <3>1. PICK o \in Outcomes : run' = [run EXCEPT !.sites[index] =
                IF ~run.sites[index].site.enabled THEN Skipped(run.sites[index])
                ELSE SiteResult(run.sites[index].site, IF Passed(o.status) THEN "Complete" ELSE "Failed", o)]
        BY <1>2, Zenon DEF run_site
      <3>2. Untouched(run.sites[index])
        BY <2>1
      <3>3. Told(Skipped(run.sites[index]))
        BY <3>2, SkippedTold
      <3>4. Told(SiteResult(run.sites[index].site, IF Passed(o.status) THEN "Complete" ELSE "Failed", o))
        BY OutcomeTold
      <3> QED
        BY <3>1, <3>3, <3>4
    <2>3. PICK S : run.sites \in Seq(S)
      BY <2>1 DEF FilesInv, IsRun
    <2>4. DOMAIN run' = {"id", "state", "sites"} /\ run'.sites = [run.sites EXCEPT ![index] = result]
      BY <2>1, <2>2
    <2>5. run'.sites \in Seq(S \cup {result})
      <3>1. DOMAIN run.sites = 1 .. Len(run.sites) /\ Len(run.sites) \in Nat
        BY <2>3
      <3>2. run.sites \in [1 .. Len(run.sites) -> S \cup {result}]
        BY <2>3, <3>1
      <3>3. run'.sites \in [1 .. Len(run.sites) -> S \cup {result}]
        BY <2>4, <3>2
      <3> QED
        BY <3>1, <3>3, SeqDef
    <2>6. \A i \in DOMAIN run'.sites : i \in DOMAIN run.sites
                                       /\ run'.sites[i] = IF i = index THEN result ELSE run.sites[i]
      BY <2>4
    <2>7. IsRun(run')
      BY <2>1, <2>2, <2>4, <2>5, <2>6 DEF IsRun
    <2>8. ASSUME NEW i \in DOMAIN run'.sites, i >= index' PROVE Untouched(run'.sites[i])
      <3>1. DOMAIN run.sites = 1 .. Len(run.sites) /\ Len(run.sites) \in Nat
        BY <2>3
      <3>2. i \in DOMAIN run.sites /\ i \in Nat /\ i >= index + 1
        BY <2>1, <2>6, <2>8, <3>1
      <3>3. i >= index /\ i # index
        BY <2>1, <3>2
      <3> QED
        BY <2>1, <2>6, <3>2, <3>3
    <2>9. index' \in Nat
      BY <2>1
    <2> QED
      BY <2>1, <2>7, <2>8, <2>9 DEF FilesInv
  <1>3. CASE save_begin
    <2>1. /\ run' = [run EXCEPT !.state = "Complete"] /\ files' = [files EXCEPT ![run.id].tmp = Torn]
          /\ IsRun(run) /\ checking' = "saving"
      BY <1>3 DEF save_begin, FilesInv
    <2>2. DOMAIN run' = {"id", "state", "sites"} /\ run'.sites = run.sites
      BY <2>1 DEF IsRun
    <2>3. IsRun(run')
      BY <2>1, <2>2 DEF IsRun
    <2>4. \A id \in Runs : /\ id \in DOMAIN files' /\ DOMAIN files'[id] = {"json", "tmp"}
                           /\ files'[id].json = files[id].json
                           /\ files'[id].tmp \in {files[id].tmp, Torn}
      BY <2>1 DEF FilesInv
    <2> QED
      BY <2>1, <2>3, <2>4 DEF FilesInv, IsStored
  <1>4. CASE save_written
    <2>1. /\ files' = [files EXCEPT ![run.id].tmp = run] /\ IsRun(run) /\ UNCHANGED run
          /\ checking' = "written"
      BY <1>4 DEF save_written, FilesInv
    <2>2. \A id \in Runs : /\ id \in DOMAIN files' /\ DOMAIN files'[id] = {"json", "tmp"}
                           /\ files'[id].json = files[id].json
                           /\ files'[id].tmp \in {files[id].tmp, run}
      BY <2>1 DEF FilesInv
    <2> QED
      BY <2>1, <2>2 DEF FilesInv, IsStored
  <1>5. CASE save_rename
    <2>1. /\ files' = [files EXCEPT ![run.id] = [json |-> @.tmp, tmp |-> Unset]]
          /\ checking' = "none"
      BY <1>5 DEF save_rename
    <2>2. \A id \in Runs : /\ id \in DOMAIN files' /\ DOMAIN files'[id] = {"json", "tmp"}
                           /\ files'[id].json \in {files[id].json, files[id].tmp}
                           /\ files'[id].tmp \in {files[id].tmp, Unset}
      BY <2>1 DEF FilesInv
    <2> QED
      BY <2>1, <2>2 DEF FilesInv, IsStored
  <1>6. CASE crash
    BY <1>6 DEF crash, FilesInv
  <1> QED
    BY <1>1, <1>2, <1>3, <1>4, <1>5, <1>6 DEF CorpusNext

(* Two stored runs between which the comparison finds nothing count the same *)
(* sites, wherever the commands that stored them crashed (compare_runs).     *)
THEOREM ComparisonsMissNothing == Spec => []ComparisonMissesNothing
  <1>1. Init => FilesInv
    <2> SUFFICES ASSUME Init PROVE FilesInv
      OBVIOUS
    <2>1. checking = "none" /\ files = [r \in Runs |-> [json |-> Unset, tmp |-> Unset]]
      BY DEF Init, CheckInit
    <2> QED
      BY <2>1 DEF FilesInv, IsStored
  <1>2. FilesInv /\ [Next]_vars => FilesInv'
    <2> SUFFICES ASSUME FilesInv, [Next]_vars PROVE FilesInv'
      OBVIOUS
    <2>1. CASE UNCHANGED corpusVars
      BY <2>1 DEF FilesInv, corpusVars
    <2>2. CASE CorpusNext
      BY <2>2, CorpusSteps
    <2>3. CASE SchedulerNext
      <3>1. UNCHANGED corpusVars
        BY <2>3 DEF SchedulerNext, from_run, next_batch, executed
      <3> QED
        BY <2>1, <3>1
    <2> QED
      BY <2>1, <2>2, <2>3 DEF Next, vars, checkVars
  <1>3. FilesInv => ComparisonMissesNothing
    <2> SUFFICES ASSUME FilesInv,
                        NEW a \in {id \in Runs : load_run(id) \notin {Unset, Torn}},
                        NEW b \in {id \in Runs : load_run(id) \notin {Unset, Torn}},
                        UniqueIds(load_run(a)), UniqueIds(load_run(b)),
                        \A d \in Range(compare_runs(load_run(a), load_run(b))) : d = {}
                 PROVE  /\ RunSummary(load_run(a)) = RunSummary(load_run(b))
                        /\ CoverageSummary(load_run(a)) = CoverageSummary(load_run(b))
      BY Zenon DEF ComparisonMissesNothing
    <2>1. IsRun(load_run(a)) /\ IsRun(load_run(b))
      BY DEF FilesInv, IsStored, load_run
    <2> QED
      BY <2>1, SameCounts
  <1> QED
    BY <1>1, <1>2, <1>3, PTL DEF Spec
(* A set of numbers that is not empty has a smallest one.                    *)
LEMMA LeastNumber ==
    ASSUME NEW T, T \subseteq Nat, T # {}
    PROVE  \E x \in T : \A y \in T : x <= y
  <1> DEFINE R == {ss \in Nat \X Nat : ss[1] < ss[2]}
  <1>1. IsWellFoundedOn(R, Nat)
    BY NatLessThanWellFounded DEF OpToRel
  <1> HIDE DEF R
  <1>2. PICK x \in T : \A y \in T : <<y, x>> \notin R
    BY <1>1, WFMin
  <1>3. \A y \in T : ~(y < x)
    BY <1>2 DEF R
  <1> QED
    BY <1>3

(* The step of the sum over a function that FoldFunction takes.              *)
Summing(fun, S, h) ==
    [s \in SUBSET S |-> IF s = {} THEN 0
                        ELSE LET x == CHOOSE y \in s : TRUE IN fun[x] + h[s \ {x}]]

(* FoldFunction adds up a function for which a sum of every part is known.   *)
LEMMA SumIs ==
    ASSUME NEW fun, IsFiniteSet(DOMAIN fun), NEW g, g = Summing(fun, DOMAIN fun, g)
    PROVE  FoldFunction(LAMBDA a, b : a + b, 0, fun) = g[DOMAIN fun]
  <1> DEFINE S == DOMAIN fun
             iter == CHOOSE h : h = Summing(fun, S, h)
  <1>1. FoldFunction(LAMBDA a, b : a + b, 0, fun) = iter[S]
    BY Zenon DEF FoldFunction, FoldFunctionOnSet, MapThenFoldSet, Summing
  <1>2. iter = Summing(fun, S, iter)
    OBVIOUS
  <1> HIDE DEF iter, S
  <1> DEFINE T == {Cardinality(s) : s \in {u \in SUBSET S : iter[u] # g[u]}}
  <1>3. \A s \in SUBSET S : IsFiniteSet(s) /\ Cardinality(s) \in Nat
    BY FS_Subset, FS_CardinalityType DEF S
  <1>4. T = {}
    <2> SUFFICES ASSUME T # {} PROVE FALSE
      OBVIOUS
    <2>1. T \subseteq Nat
      BY <1>3
    <2>2. PICK least \in T : \A y \in T : least <= y
      <3> HIDE DEF T
      <3> QED
        BY <2>1, LeastNumber
    <2>3. PICK s \in SUBSET S : iter[s] # g[s] /\ Cardinality(s) = least
      BY <2>2
    <2> DEFINE x == CHOOSE y \in s : TRUE
    <2>4. /\ iter[s] = IF s = {} THEN 0 ELSE fun[x] + iter[s \ {x}]
          /\ g[s] = IF s = {} THEN 0 ELSE fun[x] + g[s \ {x}]
      BY <1>2 DEF Summing, S
    <2>5. s # {} /\ x \in s
      BY <2>3, <2>4
    <2> HIDE DEF x
    <2>6. s \ {x} \in SUBSET S /\ Cardinality(s \ {x}) = Cardinality(s) - 1
      BY <1>3, <2>5, FS_RemoveElement
    <2>7. iter[s \ {x}] # g[s \ {x}]
      BY <2>3, <2>4, <2>5
    <2>8. Cardinality(s \ {x}) \in T
      BY <2>6, <2>7
    <2> HIDE DEF T
    <2> QED
      BY <1>3, <2>2, <2>3, <2>6, <2>8
  <1>5. iter[S] = g[S]
    <2>1. S \in SUBSET S
      OBVIOUS
    <2> QED
      BY <1>4, <2>1
  <1> QED
    BY <1>1, <1>5 DEF S

(* The counts of a run's statuses add up to the sites that have one.         *)
LEMMA CountsAddUp ==
    ASSUME NEW r, r \in CheckRun
    PROVE  LET statuses == {r.sites[i].status : i \in DOMAIN r.sites} \ {Unset}
           IN FoldFunction(LAMBDA a, b : a + b, 0, [s \in statuses |-> Cardinality(SitesWith(r, {s}))])
                = Cardinality(SitesWith(r, statuses))
  <1> DEFINE statuses == {r.sites[i].status : i \in DOMAIN r.sites} \ {Unset}
             fun == [s \in statuses |-> Cardinality(SitesWith(r, {s}))]
             g == [S \in SUBSET statuses |-> Cardinality(SitesWith(r, S))]
  <1>1. PICK n \in Nat : DOMAIN r.sites = 1 .. n /\ \A i \in 1 .. n : r.sites[i] \in SiteResults
    BY DEF CheckRun
  <1>2. IsFiniteSet(DOMAIN r.sites)
    BY <1>1, FS_Interval
  <1>3. statuses \in SUBSET Statuses
    BY <1>1 DEF SiteResults
  <1>4. IsFiniteSet(Statuses)
    <2>1. Statuses = {"Pass"} \cup {"Fail"} \cup {"Skipped"}
      BY DEF Statuses
    <2>2. IsFiniteSet({"Pass"}) /\ IsFiniteSet({"Fail"}) /\ IsFiniteSet({"Skipped"})
      BY FS_Singleton
    <2> QED
      BY <2>1, <2>2, FS_Union
  <1>5. IsFiniteSet(statuses)
    BY <1>3, <1>4, FS_Subset
  <1> HIDE DEF statuses
  <1>6. ASSUME NEW S \in SUBSET statuses, S # {}
        PROVE  LET x == CHOOSE y \in S : TRUE
               IN Cardinality(SitesWith(r, S)) = fun[x] + Cardinality(SitesWith(r, S \ {x}))
    <2> DEFINE x == CHOOSE y \in S : TRUE
    <2>1. x \in S
      BY <1>6
    <2> HIDE DEF x
    <2>2. fun[x] = Cardinality(SitesWith(r, {x}))
      BY <2>1
    <2>3. SitesWith(r, S) = SitesWith(r, {x}) \cup SitesWith(r, S \ {x})
      BY <2>1 DEF SitesWith
    <2>4. SitesWith(r, {x}) \cap SitesWith(r, S \ {x}) = {}
      BY DEF SitesWith
    <2>5. /\ SitesWith(r, {x}) \in SUBSET DOMAIN r.sites
          /\ SitesWith(r, S \ {x}) \in SUBSET DOMAIN r.sites
      BY DEF SitesWith
    <2>6. IsFiniteSet(SitesWith(r, {x})) /\ IsFiniteSet(SitesWith(r, S \ {x}))
      BY <1>2, <2>5, FS_Subset
    <2>7. /\ Cardinality(SitesWith(r, S)) =
                Cardinality(SitesWith(r, {x})) + Cardinality(SitesWith(r, S \ {x}))
                   - Cardinality(SitesWith(r, {x}) \cap SitesWith(r, S \ {x}))
      BY <2>3, <2>6, FS_Union
    <2>8. Cardinality(SitesWith(r, {x}) \cap SitesWith(r, S \ {x})) = 0
      BY <2>4, FS_EmptySet
    <2>9. Cardinality(SitesWith(r, {x})) \in Nat /\ Cardinality(SitesWith(r, S \ {x})) \in Nat
      BY <2>6, FS_CardinalityType
    <2>10. Cardinality(SitesWith(r, S)) =
                Cardinality(SitesWith(r, {x})) + Cardinality(SitesWith(r, S \ {x}))
      BY <2>7, <2>8, <2>9
    <2> HIDE DEF fun
    <2> QED
      BY <2>2, <2>10 DEF x
  <1>7. SitesWith(r, {}) = {} /\ Cardinality({}) = 0
    BY FS_EmptySet DEF SitesWith
  <1>8. DOMAIN fun = statuses
    OBVIOUS
  <1>9. g = Summing(fun, statuses, g)
    <2> SUFFICES ASSUME NEW S \in SUBSET statuses
                 PROVE  g[S] = IF S = {} THEN 0
                               ELSE LET x == CHOOSE y \in S : TRUE IN fun[x] + g[S \ {x}]
      BY Zenon DEF Summing
    <2> DEFINE x == CHOOSE y \in S : TRUE
    <2>1. g[S] = Cardinality(SitesWith(r, S)) /\ g[S \ {x}] = Cardinality(SitesWith(r, S \ {x}))
      OBVIOUS
    <2> HIDE DEF g, fun
    <2>2. CASE S = {}
      BY <1>7, <2>1, <2>2
    <2>3. CASE S # {}
      BY <1>6, <2>1, <2>3
    <2> QED
      BY <2>2, <2>3
  <1>10. g[statuses] = Cardinality(SitesWith(r, statuses))
    OBVIOUS
  <1> HIDE DEF g, fun
  <1>11. FoldFunction(LAMBDA a, b : a + b, 0, fun) = g[statuses]
    BY <1>5, <1>8, <1>9, SumIs
  <1> QED
    BY <1>10, <1>11 DEF fun, statuses

(* A result that is there: what pending_site_indices leaves out.             *)
Settled(result) == result.status # Unset /\ result.state \in {"Complete", "Failed"}

(* A run that is worked off.                                                 *)
Finished(r) == r \in CheckRun /\ \A i \in DOMAIN r.sites : Settled(r.sites[i])

(* The summary of a finished run.                                            *)
LEMMA FinishedRuns ==
    ASSUME NEW r, Finished(r)
    PROVE  /\ r # Torn /\ pending_site_indices(r) = {}
           /\ RunSummary(r).tested = RunSummary(r).scheduled
           /\ FoldFunction(LAMBDA a, b : a + b, 0, RunSummary(r).statuses) = RunSummary(r).tested
  <1> DEFINE statuses == {r.sites[i].status : i \in DOMAIN r.sites} \ {Unset}
             counts == [s \in statuses |-> Cardinality(SitesWith(r, {s}))]
  <1>1. r \in CheckRun /\ r # Torn
    BY CheckAssumption DEF Finished
  <1>2. pending_site_indices(r) = {}
    BY DEF pending_site_indices, Finished, Settled
  <1>3. PICK n \in Nat : n = Len(r.sites) /\ DOMAIN r.sites = 1 .. n
    BY <1>1 DEF CheckRun
  <1>4. SitesWith(r, statuses) = 1 .. n
    BY <1>3 DEF SitesWith, Finished, Settled
  <1>5. Cardinality(1 .. n) = n
    BY FS_Interval
  <1>6. RunSummary(r) = [scheduled |-> Len(r.sites), tested |-> Cardinality(SitesWith(r, statuses)),
                         statuses |-> counts, subsystem_passes |-> SubsystemPasses(r),
                         failures |-> Cardinality(Failing(r)), fingerprints |-> Cardinality(Fingerprints(r))]
    BY Summarised, Zenon
  <1>7. FoldFunction(LAMBDA a, b : a + b, 0, counts) = Cardinality(SitesWith(r, statuses))
    BY <1>1, CountsAddUp
  <1> HIDE DEF counts, statuses
  <1>8. /\ RunSummary(r).tested = Cardinality(SitesWith(r, statuses))
        /\ RunSummary(r).scheduled = Len(r.sites) /\ RunSummary(r).statuses = counts
    BY <1>6
  <1> QED
    BY <1>1, <1>2, <1>3, <1>4, <1>5, <1>7, <1>8

(* The run under way and the files of those before it.                       *)
CorpusInv ==
    /\ checking \in {"none", "running", "saving", "written"}
    /\ \A id \in Runs : id \in DOMAIN files /\ DOMAIN files[id] = {"json", "tmp"}
    /\ checking # "none" => run \in CheckRun /\ index \in Nat
    /\ checking = "running" => \A i \in DOMAIN run.sites : i < index => Settled(run.sites[i])
    /\ checking \in {"saving", "written"} => Finished(run)
    /\ checking = "written" => files[run.id].tmp = run
    /\ \A id \in Runs : files[id].json # Unset => Finished(files[id].json)

(* One site run, or skipped, has its result.                                 *)
LEMMA SiteSettled ==
    ASSUME NEW result \in SiteResults, NEW o \in Outcomes
    PROVE  LET new_result == IF ~result.site.enabled THEN Skipped(result)
                             ELSE SiteResult(result.site,
                                             IF Passed(o.status) THEN "Complete" ELSE "Failed", o)
           IN new_result \in SiteResults /\ Settled(new_result)
  <1>1. Unset \notin Statuses /\ {"Pass", "Fail", "Skipped"} = Statuses
    BY CheckAssumption DEF Statuses
  <1>2. /\ Skipped(result) \in SiteResults /\ Skipped(result).status = "Skipped"
        /\ Skipped(result).state = "Complete"
    BY <1>1 DEF Skipped, SiteResults
  <1>3. o.status \in {"Pass", "Fail"} /\ o.subsystems \in SUBSET Subsystems /\ o.failures \in Seq(FailureRecords)
    <2>1. CASE o = [status |-> "Pass", subsystems |-> Subsystems, failures |-> << >>]
      BY <2>1
    <2>2. ASSUME NEW c \in Categories, NEW e \in Errors,
                 o = [status |-> "Fail", subsystems |-> {}, failures |-> <<FailureRecord(c, e)>>]
          PROVE  o.status = "Fail" /\ o.subsystems = {} /\ o.failures \in Seq(FailureRecords)
      <3>1. FailureRecord(c, e) \in FailureRecords
        BY DEF FailureRecord, FailureRecords
      <3> QED
        BY <2>2, <3>1
    <2> QED
      BY <2>1, <2>2 DEF Outcomes
  <1> DEFINE state == IF Passed(o.status) THEN "Complete" ELSE "Failed"
             ran == SiteResult(result.site, state, o)
  <1>4. ran \in SiteResults /\ ran.status = o.status /\ ran.state \in {"Complete", "Failed"}
    BY <1>1, <1>3 DEF SiteResult, SiteResults
  <1> HIDE DEF ran
  <1>5. Settled(ran) /\ Settled(Skipped(result))
    BY <1>1, <1>2, <1>3, <1>4 DEF Settled
  <1> QED
    BY <1>2, <1>4, <1>5, Zenon DEF ran

(* check corpus: every site in turn, then the whole run to a file.           *)
LEMMA CorpusFinishes == ASSUME CorpusInv, CorpusNext PROVE CorpusInv'
  <1>1. CASE \E id \in Runs, sites \in Corpora : begin(id, sites)
    <2>1. PICK id \in Runs, sites \in Corpora : begin(id, sites)
      BY <1>1
    <2> DEFINE results == [i \in DOMAIN sites |-> SiteResult(sites[i], "Pending", Untested)]
    <2>2. DOMAIN sites = 1 .. Len(sites) /\ Len(sites) \in Nat
      BY CheckAssumption
    <2>3. ASSUME NEW i \in DOMAIN sites PROVE SiteResult(sites[i], "Pending", Untested) \in SiteResults
      <3>1. sites[i] \in UNION {ToSet(s) : s \in Corpora}
        BY DEF ToSet
      <3> QED
        BY <3>1 DEF SiteResult, SiteResults, Untested
    <2>4. results \in Seq(SiteResults)
      <3>1. results \in [1 .. Len(sites) -> SiteResults]
        BY <2>2, <2>3
      <3> QED
        BY <2>2, <3>1, SeqDef
    <2>5. run' = [id |-> id, state |-> "Running", sites |-> results]
      BY <2>1 DEF begin, new
    <2>6. run' \in CheckRun /\ run'.sites = results /\ DOMAIN results = 1 .. Len(sites)
      BY <2>2, <2>4, <2>5 DEF CheckRun
    <2>7. \A i \in DOMAIN run'.sites : ~(i < 1)
      BY <2>2, <2>6
    <2>8. checking' = "running" /\ index' = 1 /\ UNCHANGED files
      BY <2>1 DEF begin
    <2> HIDE DEF results
    <2> QED
      BY <2>6, <2>7, <2>8 DEF CorpusInv
  <1>2. CASE run_site
    <2>1. /\ checking = "running" /\ index \in DOMAIN run.sites /\ run \in CheckRun /\ index \in Nat
          /\ index' = index + 1 /\ UNCHANGED <<checking, files>>
      BY <1>2 DEF run_site, CorpusInv
    <2>2. /\ run.sites \in Seq(SiteResults) /\ DOMAIN run.sites = 1 .. Len(run.sites)
          /\ Len(run.sites) \in Nat /\ run.sites[index] \in SiteResults
      <3>1. run.sites \in Seq(SiteResults)
        BY <2>1 DEF CheckRun
      <3> QED
        BY <2>1, <3>1
    <2>3. PICK result \in SiteResults : Settled(result) /\ run' = [run EXCEPT !.sites[index] = result]
      <3>1. PICK o \in Outcomes : run' = [run EXCEPT !.sites[index] =
                IF ~run.sites[index].site.enabled THEN Skipped(run.sites[index])
                ELSE SiteResult(run.sites[index].site, IF Passed(o.status) THEN "Complete" ELSE "Failed", o)]
        BY <1>2, Zenon DEF run_site
      <3> QED
        BY <2>2, <3>1, SiteSettled
    <2>4. run' \in CheckRun /\ run'.sites = [run.sites EXCEPT ![index] = result]
      <3>1. run.sites \in [1 .. Len(run.sites) -> SiteResults]
        BY <2>2
      <3>2. [run.sites EXCEPT ![index] = result] \in [1 .. Len(run.sites) -> SiteResults]
        BY <3>1
      <3>3. [run.sites EXCEPT ![index] = result] \in Seq(SiteResults)
        BY <2>2, <3>2, SeqDef
      <3> QED
        BY <2>1, <2>3, <3>3 DEF CheckRun
    <2>5. DOMAIN run'.sites = DOMAIN run.sites
      BY <2>4
    <2>6. ASSUME NEW i \in DOMAIN run'.sites, i < index + 1 PROVE Settled(run'.sites[i])
      <3>1. CASE i = index
        BY <2>1, <2>3, <2>4, <3>1
      <3>2. CASE i < index
        <4>1. run'.sites[i] = run.sites[i]
          BY <2>1, <2>2, <2>4, <2>5, <3>2
        <4> QED
          BY <2>1, <2>5, <3>2, <4>1 DEF CorpusInv
      <3>3. i \in Nat
        BY <2>2, <2>5
      <3> QED
        BY <2>1, <2>6, <3>1, <3>2, <3>3
    <2> QED
      BY <2>1, <2>4, <2>6 DEF CorpusInv
  <1>3. CASE save_begin
    <2>1. /\ checking = "running" /\ checking' = "saving" /\ index > Len(run.sites) /\ run \in CheckRun
          /\ run' = [run EXCEPT !.state = "Complete"] /\ files' = [files EXCEPT ![run.id].tmp = Torn]
          /\ index' = index /\ index \in Nat
      BY <1>3 DEF save_begin, CorpusInv
    <2>2. run' \in CheckRun /\ run'.sites = run.sites
      BY <2>1 DEF CheckRun
    <2>3. DOMAIN run.sites = 1 .. Len(run.sites) /\ Len(run.sites) \in Nat
      BY <2>1 DEF CheckRun
    <2>4. \A i \in DOMAIN run.sites : i < index
      BY <2>1, <2>3
    <2>5. Finished(run')
      BY <2>1, <2>2, <2>4 DEF Finished, CorpusInv
    <2>6. \A id \in Runs : /\ id \in DOMAIN files' /\ DOMAIN files'[id] = {"json", "tmp"}
                           /\ files'[id].json = files[id].json
      BY <2>1 DEF CorpusInv
    <2> QED
      BY <2>1, <2>2, <2>5, <2>6 DEF CorpusInv
  <1>4. CASE save_written
    <2>1. /\ checking = "saving" /\ checking' = "written" /\ UNCHANGED <<run, index>> /\ Finished(run)
          /\ files' = [files EXCEPT ![run.id].tmp = run] /\ run \in CheckRun /\ index \in Nat
      BY <1>4 DEF save_written, CorpusInv
    <2>2. run.id \in Runs
      BY <2>1 DEF CheckRun
    <2>3. \A id \in Runs : /\ id \in DOMAIN files' /\ DOMAIN files'[id] = {"json", "tmp"}
                           /\ files'[id].json = files[id].json
      BY <2>1 DEF CorpusInv
    <2>4. files'[run.id].tmp = run
      BY <2>1, <2>2 DEF CorpusInv
    <2> QED
      BY <2>1, <2>3, <2>4 DEF CorpusInv
  <1>5. CASE save_rename
    <2>1. /\ checking = "written" /\ checking' = "none" /\ Finished(run) /\ files[run.id].tmp = run
          /\ files' = [files EXCEPT ![run.id] = [json |-> @.tmp, tmp |-> Unset]]
      BY <1>5 DEF save_rename, CorpusInv
    <2>2. \A id \in Runs : /\ id \in DOMAIN files' /\ DOMAIN files'[id] = {"json", "tmp"}
                           /\ files'[id].json \in {files[id].json, run}
      BY <2>1 DEF CorpusInv
    <2> QED
      BY <2>1, <2>2 DEF CorpusInv
  <1>6. CASE crash
    BY <1>6 DEF crash, CorpusInv
  <1> QED
    BY <1>1, <1>2, <1>3, <1>4, <1>5, <1>6 DEF CorpusNext

(* The scheduler *)

(* An execution that the scheduler has handed out or will.                   *)
ScheduledSites == [index : Nat, attempt : Nat]

(* The executions that wait or fly.                                          *)
Awaiting == ToSet(queue) \cup flying

(* A scheduled site is pending, in one place, and carries the number of the  *)
(* attempts there were; a site that is not scheduled any more has had all    *)
(* its attempts, or a failure that is not retried.                           *)
SchedulerInv ==
    /\ queue \in Seq(ScheduledSites) /\ flying \subseteq ScheduledSites
    /\ pending \subseteq DOMAIN attempts
    /\ \A i \in DOMAIN attempts : /\ DOMAIN attempts[i] = {"count", "failure"} /\ attempts[i].count \in Nat
                                  /\ attempts[i].count <= MaxAttempts + 1
                                  /\ attempts[i].count > 0 => i \in pending
    /\ \A s \in Awaiting : /\ s.index \in pending /\ s.attempt = attempts[s.index].count
                           /\ s.attempt <= MaxAttempts
    /\ \A j, k \in DOMAIN queue : queue[j].index = queue[k].index => j = k
    /\ \A s, t \in flying : s.index = t.index => s = t
    /\ \A j \in DOMAIN queue, s \in flying : queue[j].index # s.index
    /\ \A i \in pending : \/ \E s \in Awaiting : s.index = i
                          \/ attempts[i].count = MaxAttempts + 1
                          \/ attempts[i].count > 0 /\ attempts[i].failure \notin Transient

(* What the invariant says of every site (SitesAreSettled).                  *)
LEMMA SchedulerSettles == ASSUME SchedulerInv PROVE SitesAreSettled
  <1>1. ASSUME NEW i PROVE Cardinality({s \in Awaiting : s.index = i}) <= 1
    <2> DEFINE A == {s \in Awaiting : s.index = i}
    <2>1. \A s, t \in A : s = t
      BY DEF Awaiting, ToSet, SchedulerInv
    <2>2. CASE A = {}
      BY <2>2, FS_EmptySet
    <2>3. ASSUME NEW s \in A PROVE Cardinality(A) <= 1
      <3>1. A = {s}
        BY <2>1
      <3> HIDE DEF A
      <3> QED
        BY <3>1, FS_Singleton, SMTT(30)
    <2> QED
      BY <2>2, <2>3
  <1> QED
    BY <1>1, Zenon DEF SchedulerInv, SitesAreSettled, Awaiting

(* from_run: the pending sites, in order, each for the first time.           *)
LEMMA FromRun ==
    ASSUME SchedulerInv, NEW r, NEW n \in Nat, DOMAIN r.sites = 1 .. n, from_run(r)
    PROVE  SchedulerInv'
  <1> DEFINE P == pending_site_indices(r)
  <1>1. P \in SUBSET (1 .. n)
    BY DEF pending_site_indices
  <1> HIDE DEF P
  <1>2. PICK c \in Nat : IsFiniteSet(P) /\ Cardinality(P) = c
    <2>1. IsFiniteSet(1 .. n)
      BY FS_Interval
    <2> QED
      BY <1>1, <2>1, FS_Subset, FS_CardinalityType
  <1>3. PICK order \in [1 .. c -> P] :
           /\ \A i, j \in 1 .. c : i < j => order[i] < order[j]
           /\ queue' = [i \in 1 .. c |-> ScheduledSite(order[i], 0)]
    BY <1>2 DEF from_run, P
  <1>4. /\ pending' = P /\ flying' = flying /\ pending = {}
        /\ attempts' = [i \in 1 .. n |-> [count |-> 0, failure |-> Unset]]
    BY DEF from_run, P
  <1>5. \A i, j \in 1 .. c : order[i] = order[j] => i = j
    <2> SUFFICES ASSUME NEW i \in 1 .. c, NEW j \in 1 .. c, order[i] = order[j], i # j PROVE FALSE
      OBVIOUS
    <2>1. order[i] \in P /\ order[j] \in P
      OBVIOUS
    <2>2. order[i] \in 1 .. n /\ order[j] \in 1 .. n
      BY <1>1, <2>1
    <2>3. ~(order[i] < order[j]) /\ ~(order[j] < order[i])
      BY <2>2
    <2>4. i < j \/ j < i
      OBVIOUS
    <2> QED
      BY <1>3, <2>3, <2>4
  <1>6. \A p \in P : \E i \in 1 .. c : order[i] = p
    <2>1. order \in Injection(1 .. c, P)
      BY <1>5 DEF Injection, IsInjective
    <2>2. Cardinality(1 .. c) = c
      <3>1. 1 \in Int /\ c \in Int
        OBVIOUS
      <3>2. Cardinality(1 .. c) = IF 1 > c THEN 0 ELSE c - 1 + 1
        BY <3>1, FS_Interval, Zenon
      <3> QED
        BY <3>2
    <2>3. order \in Surjection(1 .. c, P)
      BY <1>2, <2>1, <2>2, FS_Injection
    <2> QED
      BY <2>3 DEF Surjection
  <1>7. flying = {}
    BY <1>4 DEF SchedulerInv, Awaiting
  <1>8. \A i \in 1 .. c : /\ queue'[i] = [index |-> order[i], attempt |-> 0] /\ queue'[i] \in ScheduledSites
                          /\ queue'[i].index = order[i] /\ queue'[i].attempt = 0
    BY <1>1, <1>3 DEF ScheduledSite, ScheduledSites
  <1>9. DOMAIN queue' = 1 .. c /\ queue' \in Seq(ScheduledSites)
    <2>1. queue' \in [1 .. c -> ScheduledSites]
      BY <1>3, <1>8
    <2> QED
      BY <2>1, SeqDef
  <1>10. \A s \in ToSet(queue') \cup flying' : \E i \in 1 .. c : s = queue'[i]
    BY <1>4, <1>7, <1>9 DEF ToSet
  <1>11. \A i \in 1 .. c : queue'[i] \in ToSet(queue')
    BY <1>9 DEF ToSet
  <1>12. \A i \in 1 .. n : /\ DOMAIN attempts'[i] = {"count", "failure"} /\ attempts'[i].count = 0
    BY <1>4
  <1>13. DOMAIN attempts' = 1 .. n
    BY <1>4
  <1>14. MaxAttempts \in Nat
    BY CheckAssumption
  <1>15. \A s \in Awaiting' : s.index \in P /\ s.attempt = attempts'[s.index].count /\ s.attempt <= MaxAttempts
    <2> SUFFICES ASSUME NEW s \in Awaiting'
                 PROVE  s.index \in P /\ s.attempt = attempts'[s.index].count /\ s.attempt <= MaxAttempts
      OBVIOUS
    <2>1. PICK i \in 1 .. c : s = queue'[i]
      BY <1>10 DEF Awaiting
    <2>2. s.index = order[i] /\ s.attempt = 0 /\ order[i] \in P
      BY <1>8, <2>1
    <2>3. attempts'[order[i]].count = 0
      BY <1>1, <1>12, <2>2
    <2> QED
      BY <1>14, <2>2, <2>3
  <1>16. \A i \in P : \E s \in Awaiting' : s.index = i
    BY <1>6, <1>8, <1>11 DEF Awaiting
  <1>17. \A j, k \in 1 .. c : queue'[j].index = queue'[k].index => j = k
    BY <1>5, <1>8, ZenonT(60)
  <1>18. \A i \in DOMAIN attempts' :
            /\ DOMAIN attempts'[i] = {"count", "failure"} /\ attempts'[i].count \in Nat
            /\ attempts'[i].count <= MaxAttempts + 1 /\ ~(attempts'[i].count > 0)
    BY <1>12, <1>13, <1>14
  <1> QED
    BY <1>1, <1>4, <1>7, <1>9, <1>13, <1>15, <1>16, <1>17, <1>18, Zenon DEF SchedulerInv

(* next_batch: the first of the queue go to workers.                         *)
LEMMA NextBatch == ASSUME SchedulerInv, next_batch PROVE SchedulerInv'
  <1>1. PICK c : /\ c = Min({Max({Workers, 1}), Len(queue)})
                 /\ flying' = flying \cup {queue[i] : i \in 1 .. c}
                 /\ queue' = SubSeq(queue, c + 1, Len(queue))
                 /\ UNCHANGED <<attempts, pending>> /\ queue # << >>
    BY DEF next_batch
  <1> DEFINE L == Len(queue)
  <1>2. queue \in Seq(ScheduledSites) /\ L \in Nat /\ DOMAIN queue = 1 .. L /\ L # 0
    BY <1>1 DEF SchedulerInv
  <1>3. c \in Nat /\ c <= L
    <2> DEFINE w == Max({Workers, 1})
    <2>1. w \in Nat
      <3>1. Workers \in Int /\ 1 \in Int /\ Workers \in Nat
        BY CheckAssumption
      <3>2. w \in {Workers, 1}
        BY <3>1, MaxOfTwo, Zenon
      <3> QED
        BY <3>1, <3>2
    <2> HIDE DEF w, L
    <2>2. \E x \in {w, L} : \A y \in {w, L} : x <= y
      BY <1>2, <2>1
    <2>3. Min({w, L}) \in {w, L} /\ \A y \in {w, L} : Min({w, L}) <= y
      BY <2>2 DEF Min
    <2>4. c = Min({w, L})
      BY <1>1 DEF w, L
    <2> QED
      BY <1>2, <2>1, <2>3, <2>4
  <1> HIDE DEF L
  <1>4. /\ queue' \in Seq(ScheduledSites) /\ DOMAIN queue' = 1 .. L - c
        /\ \A i \in 1 .. L - c : queue'[i] = queue[i + c] /\ i + c \in 1 .. L
    <2>1. queue' = SubSeq(queue, c + 1, L) /\ c + 1 \in 1 .. L + 1
      BY <1>1, <1>2, <1>3 DEF L
    <2>2. /\ queue' \in Seq(ScheduledSites)
          /\ Len(queue') = IF c + 1 <= L THEN L - (c + 1) + 1 ELSE 0
          /\ \A i \in 1 .. L - (c + 1) + 1 : queue'[i] = queue[(c + 1) + i - 1]
      <3>1. \A i \in c + 1 .. L : i \in 1 .. Len(queue)
        BY <1>2, <1>3 DEF L
      <3>2. c + 1 \in Int /\ L \in Int
        BY <1>2, <1>3
      <3> QED
        BY <1>2, <2>1, <3>1, <3>2, SubSeqProperties
    <2>3. DOMAIN queue' = 1 .. L - c
      <3>1. Len(queue') = L - c
        BY <1>2, <1>3, <2>2
      <3> QED
        BY <2>2, <3>1
    <2>4. ASSUME NEW i \in 1 .. L - c PROVE queue'[i] = queue[i + c] /\ i + c \in 1 .. L
      <3>1. i \in 1 .. L - (c + 1) + 1 /\ (c + 1) + i - 1 = i + c /\ i + c \in 1 .. L
        BY <1>2, <1>3, <2>4
      <3> QED
        BY <2>2, <3>1
    <2> QED
      BY <2>2, <2>3, <2>4
  <1>5. \A i \in 1 .. c : i \in 1 .. L
    BY <1>2, <1>3
  <1>6. \A s \in flying' : s \in flying \/ \E i \in 1 .. c : s = queue[i]
    BY <1>1
  <1>7. \A s \in Awaiting' : s \in Awaiting
    BY <1>2, <1>4, <1>5, <1>6 DEF Awaiting, ToSet
  <1>8. \A s \in Awaiting : s \in Awaiting'
    <2> SUFFICES ASSUME NEW j \in 1 .. L PROVE queue[j] \in Awaiting'
      BY <1>1, <1>2 DEF Awaiting, ToSet
    <2>1. CASE j \in 1 .. c
      BY <1>1, <2>1 DEF Awaiting
    <2>2. CASE ~(j \in 1 .. c)
      <3>1. j - c \in 1 .. L - c /\ (j - c) + c = j
        BY <1>2, <1>3, <2>2
      <3>2. queue'[j - c] = queue[j]
        BY <1>4, <3>1
      <3> QED
        BY <1>4, <3>1, <3>2 DEF Awaiting, ToSet
    <2> QED
      BY <2>1, <2>2
  <1>9. flying' \subseteq ScheduledSites
    BY <1>2, <1>5, <1>6 DEF SchedulerInv
  <1>10. ASSUME NEW j \in DOMAIN queue', NEW k \in DOMAIN queue', queue'[j].index = queue'[k].index
         PROVE  j = k
    <2>1. j + c = k + c
      BY <1>2, <1>4, <1>10 DEF SchedulerInv
    <2> QED
      BY <1>2, <1>3, <1>4, <2>1
  <1>11. ASSUME NEW s \in flying', NEW t \in flying', s.index = t.index PROVE s = t
    BY <1>2, <1>5, <1>6, <1>11 DEF SchedulerInv
  <1>12. ASSUME NEW j \in DOMAIN queue', NEW s \in flying' PROVE queue'[j].index # s.index
    <2>1. queue'[j] = queue[j + c] /\ j + c \in 1 .. L
      BY <1>4
    <2>2. CASE s \in flying
      BY <1>2, <2>1, <2>2 DEF SchedulerInv
    <2>3. ASSUME NEW i \in 1 .. c, s = queue[i] PROVE queue'[j].index # s.index
      <3>1. j + c # i
        BY <1>2, <1>3, <1>4
      <3> QED
        BY <1>2, <1>5, <2>1, <2>3, <3>1 DEF SchedulerInv
    <2> QED
      BY <1>6, <2>2, <2>3
  <1> QED
    BY <1>1, <1>4, <1>7, <1>8, <1>9, <1>10, <1>11, <1>12, Zenon DEF SchedulerInv

(* executed: a worker is back, and the site is put back or given up.         *)
LEMMA Executed ==
    ASSUME SchedulerInv, NEW site \in flying, NEW failure, executed(site, failure)
    PROVE  SchedulerInv'
  <1> DEFINE i == site.index
             again == ScheduledSite(site.index, site.attempt + 1)
  <1>1. /\ flying' = flying \ {site} /\ pending' = pending
        /\ queue' = IF should_retry(site.attempt, failure) THEN Append(queue, again) ELSE queue
        /\ attempts' = [attempts EXCEPT ![i] = [count |-> @.count + 1, failure |-> failure]]
    BY DEF executed, retry
  <1>2. /\ site \in ScheduledSites /\ i \in pending /\ i \in DOMAIN attempts /\ MaxAttempts \in Nat
        /\ attempts[i].count \in Nat /\ site.attempt = attempts[i].count /\ site.attempt <= MaxAttempts
        /\ queue \in Seq(ScheduledSites)
    BY CheckAssumption DEF SchedulerInv, Awaiting
  <1>3. site.attempt \in Nat /\ i \in Nat
    BY <1>2 DEF ScheduledSites
  <1>4. /\ again \in ScheduledSites /\ again.index = i /\ again.attempt = site.attempt + 1
    BY <1>3 DEF ScheduledSite, ScheduledSites
  <1>5. /\ DOMAIN attempts' = DOMAIN attempts
        /\ attempts'[i] = [count |-> attempts[i].count + 1, failure |-> failure]
        /\ \A j \in DOMAIN attempts \ {i} : attempts'[j] = attempts[j]
    BY <1>1, <1>2
  <1>6. /\ DOMAIN attempts'[i] = {"count", "failure"} /\ attempts'[i].count = site.attempt + 1
        /\ attempts'[i].failure = failure
    BY <1>2, <1>5
  <1> HIDE DEF i, again
  <1>7. ASSUME NEW j \in DOMAIN attempts'
        PROVE  /\ DOMAIN attempts'[j] = {"count", "failure"} /\ attempts'[j].count \in Nat
               /\ attempts'[j].count <= MaxAttempts + 1
               /\ attempts'[j].count > 0 => j \in pending'
    <2>1. CASE j = i
      BY <1>1, <1>2, <1>3, <1>6, <2>1
    <2>2. CASE j # i
      BY <1>1, <1>5, <2>2 DEF SchedulerInv
    <2> QED
      BY <2>1, <2>2
  <1>8. \A s \in flying' : s \in flying /\ s.index # i
    BY <1>1 DEF SchedulerInv, i
  <1>9. \A k \in DOMAIN queue : queue[k].index # i
    BY DEF SchedulerInv, i
  <1>10. \A s \in Awaiting : s # site => s.index # i
    BY <1>1, <1>8, <1>9 DEF Awaiting, ToSet
  <1>11. \A s \in Awaiting : s # site => s \in Awaiting'
    <2>1. ToSet(queue) \subseteq ToSet(queue')
      <3>1. CASE queue' = queue
        BY <3>1
      <3>2. CASE queue' = Append(queue, again)
        BY <1>2, <1>4, <3>2, Appended
      <3> QED
        BY <1>1, <3>1, <3>2
    <2> QED
      BY <1>1, <2>1 DEF Awaiting
  <1>12. ASSUME NEW s \in Awaiting, s # site
         PROVE  /\ s.index \in pending' /\ s.attempt = attempts'[s.index].count
                /\ s.attempt <= MaxAttempts
    <2>1. s.index # i /\ s.index \in pending
      BY <1>10, <1>12 DEF SchedulerInv
    <2>2. attempts'[s.index] = attempts[s.index]
      BY <1>5, <2>1 DEF SchedulerInv
    <2> QED
      BY <1>1, <2>1, <2>2 DEF SchedulerInv
  <1>13. ASSUME NEW j \in pending', j # i
         PROVE  \/ \E s \in Awaiting' : s.index = j
                \/ attempts'[j].count = MaxAttempts + 1
                \/ attempts'[j].count > 0 /\ attempts'[j].failure \notin Transient
    <2>1. j \in pending /\ attempts'[j] = attempts[j]
      BY <1>1, <1>5, <1>13 DEF SchedulerInv
    <2>2. ASSUME NEW s \in Awaiting, s.index = j PROVE \E u \in Awaiting' : u.index = j
      <3>1. s # site
        BY <1>13, <2>2 DEF i
      <3> QED
        BY <1>11, <2>2, <3>1
    <2> QED
      BY <2>1, <2>2 DEF SchedulerInv
  <1>14. flying' \subseteq ScheduledSites /\ pending' \subseteq DOMAIN attempts'
    BY <1>1, <1>5 DEF SchedulerInv
  <1>15. \A s, u \in flying' : s.index = u.index => s = u
    BY <1>8 DEF SchedulerInv
  <1>16. CASE should_retry(site.attempt, failure)
    <2>1. /\ queue' \in Seq(ScheduledSites) /\ Len(queue) \in Nat /\ DOMAIN queue = 1 .. Len(queue)
          /\ DOMAIN queue' = 1 .. Len(queue) + 1
          /\ \A k \in DOMAIN queue : queue'[k] = queue[k]
          /\ queue'[Len(queue) + 1] = again /\ ToSet(queue') = ToSet(queue) \cup {again}
      BY <1>1, <1>2, <1>4, <1>16, Appended
    <2>2. \A k \in DOMAIN queue' : k \in DOMAIN queue \/ k = Len(queue) + 1
      BY <2>1
    <2>3. again.attempt <= MaxAttempts
      BY <1>2, <1>3, <1>4, <1>16 DEF should_retry
    <2>4. ASSUME NEW s \in Awaiting'
          PROVE  /\ s.index \in pending' /\ s.attempt = attempts'[s.index].count
                 /\ s.attempt <= MaxAttempts
      <3>1. CASE s = again
        BY <1>1, <1>2, <1>4, <1>6, <2>3, <3>1
      <3>2. CASE s # again
        <4>1. s \in Awaiting /\ s # site
          BY <1>1, <1>9, <2>1, <3>2 DEF Awaiting, ToSet, i
        <4> QED
          BY <1>12, <4>1
      <3> QED
        BY <3>1, <3>2
    <2>5. \A j, k \in DOMAIN queue' : queue'[j].index = queue'[k].index => j = k
      BY <1>4, <1>9, <2>1, <2>2 DEF SchedulerInv
    <2>6. \A j \in DOMAIN queue', s \in flying' : queue'[j].index # s.index
      BY <1>4, <1>8, <2>1, <2>2 DEF SchedulerInv
    <2>7. \E s \in Awaiting' : s.index = i
      BY <1>4, <2>1 DEF Awaiting
    <2>8. \A j \in pending' : \/ \E s \in Awaiting' : s.index = j
                              \/ attempts'[j].count = MaxAttempts + 1
                              \/ attempts'[j].count > 0 /\ attempts'[j].failure \notin Transient
      BY <1>13, <2>7
    <2> QED
      BY <1>7, <1>14, <1>15, <2>1, <2>4, <2>5, <2>6, <2>8, Zenon DEF SchedulerInv
  <1>17. CASE ~should_retry(site.attempt, failure)
    <2>1. queue' = queue
      BY <1>1, <1>17
    <2>2. ASSUME NEW s \in Awaiting'
          PROVE  /\ s.index \in pending' /\ s.attempt = attempts'[s.index].count
                 /\ s.attempt <= MaxAttempts
      <3>1. s \in Awaiting /\ s # site
        BY <1>1, <1>9, <2>1 DEF Awaiting, ToSet, i
      <3> QED
        BY <1>12, <3>1
    <2>3. attempts'[i].count = MaxAttempts + 1 \/ (attempts'[i].count > 0 /\ attempts'[i].failure \notin Transient)
      <3>1. CASE ~(site.attempt < MaxAttempts)
        <4>1. site.attempt = MaxAttempts
          BY <1>2, <1>3, <3>1
        <4> QED
          BY <1>6, <4>1
      <3>2. CASE failure \notin Transient
        <4>1. attempts'[i].count > 0
          BY <1>3, <1>6
        <4> QED
          BY <1>6, <3>2, <4>1
      <3> QED
        BY <1>17, <3>1, <3>2 DEF should_retry
    <2>4. \A j \in pending' : \/ \E s \in Awaiting' : s.index = j
                              \/ attempts'[j].count = MaxAttempts + 1
                              \/ attempts'[j].count > 0 /\ attempts'[j].failure \notin Transient
      BY <1>13, <2>3
    <2>5. \A j \in DOMAIN queue, s \in flying' : queue[j].index # s.index
      BY <1>8 DEF SchedulerInv
    <2> QED
      BY <1>7, <1>14, <1>15, <2>1, <2>2, <2>4, <2>5, Zenon DEF SchedulerInv
  <1> QED
    BY <1>16, <1>17

(* A stored check run went to its end, wherever a command crashed, and the   *)
(* scheduler loses and repeats no site (RunStore::save, RunScheduler).       *)
THEOREM RunsAreAlwaysSettled == Spec => []RunsAreSettled
  <1>1. Init => CorpusInv /\ SchedulerInv
    <2> SUFFICES ASSUME Init PROVE CorpusInv /\ SchedulerInv
      OBVIOUS
    <2>1. /\ checking = "none" /\ files = [r \in Runs |-> [json |-> Unset, tmp |-> Unset]]
          /\ queue = << >> /\ flying = {} /\ attempts = << >> /\ pending = {}
      BY DEF Init, CheckInit
    <2>2. CorpusInv
      BY <2>1 DEF CorpusInv
    <2>3. queue \in Seq(ScheduledSites) /\ DOMAIN queue = {} /\ DOMAIN attempts = {} /\ Awaiting = {}
      BY <2>1 DEF Awaiting, ToSet
    <2>4. SchedulerInv
      BY <2>1, <2>3 DEF SchedulerInv
    <2> QED
      BY <2>2, <2>4
  <1>2. CorpusInv /\ SchedulerInv /\ [Next]_vars => (CorpusInv /\ SchedulerInv)'
    <2> SUFFICES ASSUME CorpusInv, SchedulerInv, [Next]_vars PROVE (CorpusInv /\ SchedulerInv)'
      OBVIOUS
    <2>1. UNCHANGED corpusVars => CorpusInv'
      BY DEF CorpusInv, corpusVars
    <2>2. UNCHANGED schedulerVars => SchedulerInv'
      BY DEF SchedulerInv, Awaiting, schedulerVars
    <2>3. CASE UNCHANGED checkVars
      BY <2>1, <2>2, <2>3 DEF checkVars
    <2>4. CASE CorpusNext
      <3>1. UNCHANGED schedulerVars
        BY <2>4 DEF CorpusNext, begin, run_site, save_begin, save_written, save_rename, crash
      <3> QED
        BY <2>2, <2>4, <3>1, CorpusFinishes
    <2>5. CASE SchedulerNext
      <3>1. UNCHANGED corpusVars
        BY <2>5 DEF SchedulerNext, from_run, next_batch, executed
      <3>2. ASSUME NEW sites \in Corpora, NEW r \in Resumable(sites), from_run(r) PROVE SchedulerInv'
        <4>1. DOMAIN r.sites = DOMAIN sites
          BY <3>2 DEF Resumable, new
        <4>2. PICK n \in Nat : DOMAIN sites = 1 .. n
          BY CheckAssumption
        <4> QED
          BY <3>2, <4>1, <4>2, FromRun
      <3> QED
        BY <2>1, <2>5, <3>1, <3>2, NextBatch, Executed DEF SchedulerNext
    <2> QED
      BY <2>3, <2>4, <2>5 DEF Next, vars
  <1>3. CorpusInv /\ SchedulerInv => RunsAreSettled
    <2> SUFFICES ASSUME CorpusInv, SchedulerInv PROVE RunsAreSettled
      OBVIOUS
    <2>1. ASSUME NEW id \in Runs, load_run(id) # Unset
          PROVE  /\ load_run(id) # Torn /\ pending_site_indices(load_run(id)) = {}
                 /\ RunSummary(load_run(id)).tested = RunSummary(load_run(id)).scheduled
                 /\ FoldFunction(LAMBDA a, b : a + b, 0, RunSummary(load_run(id)).statuses)
                      = RunSummary(load_run(id)).tested
      <3>1. Finished(load_run(id))
        BY <2>1 DEF CorpusInv, load_run
      <3> QED
        BY <3>1, FinishedRuns
    <2>2. StoredRunsAreFinished
      BY <2>1, Zenon DEF StoredRunsAreFinished
    <2> QED
      BY <2>2, SchedulerSettles DEF RunsAreSettled
  <1> QED
    BY <1>1, <1>2, <1>3, PTL DEF Spec


(* FoldFunction has a sum of every part of a finite function to numbers.     *)
LEMMA SumExists ==
    ASSUME NEW S, IsFiniteSet(S), NEW fun \in [S -> Nat]
    PROVE  \E g \in [SUBSET S -> Nat] : g = Summing(fun, S, g)
  <1> DEFINE Small(n) == {s \in SUBSET S : Cardinality(s) <= n}
             Sums(g, n) == \A s \in Small(n) :
                              g[s] = IF s = {} THEN 0
                                     ELSE fun[CHOOSE y \in s : TRUE] + g[s \ {CHOOSE y \in s : TRUE}]
             T == {n \in Nat : ~ \E g \in [Small(n) -> Nat] : Sums(g, n)}
  <1>1. \A s \in SUBSET S : IsFiniteSet(s) /\ Cardinality(s) \in Nat /\ Cardinality(s) <= Cardinality(S)
    BY FS_Subset, FS_CardinalityType
  <1>2. ASSUME NEW s \in SUBSET S, s # {}
        PROVE  LET x == CHOOSE y \in s : TRUE
               IN x \in S /\ s \ {x} \in SUBSET S /\ Cardinality(s \ {x}) = Cardinality(s) - 1
    <2> DEFINE x == CHOOSE y \in s : TRUE
    <2>1. x \in s
      BY <1>2
    <2> HIDE DEF x
    <2>2. Cardinality(s \ {x}) = Cardinality(s) - 1
      BY <1>1, <2>1, FS_RemoveElement
    <2> QED
      BY <2>1, <2>2 DEF x
  <1>3. T = {}
    <2> SUFFICES ASSUME T # {} PROVE FALSE
      OBVIOUS
    <2>1. T \subseteq Nat
      OBVIOUS
    <2>2. PICK n \in T : \A m \in T : n <= m
      <3> HIDE DEF T
      <3> QED
        BY <2>1, LeastNumber
    <2>3. ASSUME NEW h \in [Small(n - 1) -> Nat], n # 0, Sums(h, n - 1) PROVE FALSE
      <3> DEFINE g == [s \in Small(n) |->
                         IF s = {} THEN 0 ELSE fun[CHOOSE y \in s : TRUE] + h[s \ {CHOOSE y \in s : TRUE}]]
      <3>1. ASSUME NEW s \in Small(n), s # {}
            PROVE  LET x == CHOOSE y \in s : TRUE
                   IN /\ x \in S /\ s \ {x} \in Small(n - 1) /\ s \ {x} \in Small(n)
        BY <1>1, <1>2, <2>2, <3>1
      <3>2. \A s \in Small(n - 1) : s \in Small(n)
        BY <1>1, <2>2
      <3> HIDE DEF Small
      <3>3. g \in [Small(n) -> Nat]
        BY <3>1
      <3>4. \A s \in Small(n - 1) : g[s] = h[s]
        BY <2>3, <3>2
      <3>5. Sums(g, n)
        <4> SUFFICES ASSUME NEW s \in Small(n)
                     PROVE  g[s] = IF s = {} THEN 0
                                   ELSE fun[CHOOSE y \in s : TRUE] + g[s \ {CHOOSE y \in s : TRUE}]
          OBVIOUS
        <4>1. g[s] = IF s = {} THEN 0
                     ELSE fun[CHOOSE y \in s : TRUE] + h[s \ {CHOOSE y \in s : TRUE}]
          OBVIOUS
        <4> HIDE DEF g
        <4> QED
          BY <3>1, <3>4, <4>1
      <3> HIDE DEF g, Sums
      <3> QED
        BY <2>2, <3>3, <3>5
    <2>4. CASE n = 0
      <3> DEFINE g == [s \in Small(0) |-> 0]
      <3>1. \A s \in Small(0) : s = {}
        BY <1>1, FS_EmptySet
      <3>2. g \in [Small(0) -> Nat] /\ Sums(g, 0)
        BY <3>1
      <3> HIDE DEF g, Sums, Small
      <3> QED
        BY <2>2, <2>4, <3>2
    <2>5. CASE n # 0
      <3>0. n \in Nat
        BY <2>1, <2>2
      <3>1. n - 1 \in Nat /\ n - 1 \notin T
        <4> HIDE DEF T
        <4> QED
          BY <2>2, <2>5, <3>0
      <3> HIDE DEF Sums, Small
      <3> QED
        BY <2>3, <2>5, <3>1
    <2> QED
      BY <2>4, <2>5
  <1>4. Small(Cardinality(S)) = SUBSET S
    BY <1>1
  <1>5. Cardinality(S) \in Nat
    BY FS_CardinalityType
  <1>6. PICK g \in [SUBSET S -> Nat] : Sums(g, Cardinality(S))
    <2> HIDE DEF Sums, Small
    <2> QED
      BY <1>3, <1>4, <1>5
  <1>7. g = Summing(fun, S, g)
    <2>1. \A s \in SUBSET S : g[s] = IF s = {} THEN 0
                                     ELSE fun[CHOOSE y \in s : TRUE] + g[s \ {CHOOSE y \in s : TRUE}]
      BY <1>4, <1>6
    <2> QED
      BY <2>1 DEF Summing
  <1> QED
    BY <1>7

(* The sum of a finite function to numbers is no less than any of them, and  *)
(* that of a single number is the number.                                    *)
LEMMA SumBounds ==
    ASSUME NEW S, IsFiniteSet(S), NEW fun \in [S -> Nat]
    PROVE  LET sum == FoldFunction(LAMBDA a, b : a + b, 0, fun)
           IN /\ sum \in Nat /\ \A x \in S : fun[x] <= sum
              /\ S = {} => sum = 0
              /\ \A x : S = {x} => sum = fun[x]
  <1>1. PICK g \in [SUBSET S -> Nat] : g = Summing(fun, S, g)
    BY SumExists
  <1>2. DOMAIN fun = S /\ FoldFunction(LAMBDA a, b : a + b, 0, fun) = g[S]
    <2>1. DOMAIN fun = S
      OBVIOUS
    <2> QED
      BY <1>1, <2>1, SumIs
  <1>3. \A s \in SUBSET S : g[s] = IF s = {} THEN 0
                                   ELSE fun[CHOOSE y \in s : TRUE] + g[s \ {CHOOSE y \in s : TRUE}]
    BY <1>1, Zenon DEF Summing
  <1>4. \A s \in SUBSET S : g[s] \in Nat
    OBVIOUS
  <1> DEFINE T == {Cardinality(s) : s \in {u \in SUBSET S : \E x \in u : fun[x] > g[u]}}
  <1>5. \A s \in SUBSET S : IsFiniteSet(s) /\ Cardinality(s) \in Nat
    BY FS_Subset, FS_CardinalityType
  <1>6. T = {}
    <2> SUFFICES ASSUME T # {} PROVE FALSE
      OBVIOUS
    <2>1. T \subseteq Nat
      BY <1>5
    <2>2. PICK least \in T : \A m \in T : least <= m
      <3> HIDE DEF T
      <3> QED
        BY <2>1, LeastNumber
    <2>3a. PICK s \in SUBSET S : (\E x \in s : fun[x] > g[s]) /\ Cardinality(s) = least
      BY <2>2
    <2>3. PICK x \in s : fun[x] > g[s] /\ Cardinality(s) = least
      BY <2>3a
    <2>4. PICK y \in s : g[s] = fun[y] + g[s \ {y}]
      BY <1>3, <2>3
    <2>5. s \ {y} \in SUBSET S /\ Cardinality(s \ {y}) = Cardinality(s) - 1
      BY <1>5, <2>4, FS_RemoveElement
    <2>6. fun[x] \in Nat /\ fun[y] \in Nat /\ g[s \ {y}] \in Nat
      BY <1>4, <2>3, <2>4, <2>5
    <2>7. x # y /\ fun[x] > g[s \ {y}]
      BY <2>3, <2>4, <2>6
    <2>8. Cardinality(s \ {y}) \in T
      BY <2>5, <2>7
    <2> HIDE DEF T
    <2> QED
      BY <1>5, <2>2, <2>3, <2>5, <2>8
  <1>7. \A x \in S : fun[x] <= g[S]
    <2>1. \A x \in S : ~(fun[x] > g[S])
      BY <1>6
    <2>2. g[S] \in Nat
      BY <1>4
    <2> QED
      BY <2>1, <2>2
  <1>8. S = {} => g[S] = 0
    BY <1>3
  <1>9. ASSUME NEW x, S = {x} PROVE g[S] = fun[x]
    <2>1. (CHOOSE y \in S : TRUE) = x /\ S # {}
      BY <1>9
    <2>2. g[S] = fun[x] + g[S \ {x}]
      BY <1>3, <2>1
    <2>3. S \ {x} = {} /\ {} \in SUBSET S
      BY <1>9
    <2>4. g[{}] = 0
      BY <1>3, <2>3
    <2>5. fun[x] \in Nat
      BY <1>9
    <2>6. g[S \ {x}] = 0
      BY <2>3, <2>4, Zenon
    <2> HIDE DEF T
    <2> QED
      BY <2>2, <2>5, <2>6
  <1> QED
    BY <1>2, <1>4, <1>7, <1>8, <1>9
-----------------------------------------------------------------------------
(* Listings and reports (LiveSession) *)

(* The size of a page of links: no less than that of any of them.            *)
LEMMA TotalOf ==
    ASSUME NEW s \in Seq(Nat)
    PROVE  /\ Total(s) \in Nat /\ \A i \in 1 .. Len(s) : s[i] <= Total(s)
           /\ Len(s) = 0 => Total(s) = 0
           /\ Len(s) = 1 => Total(s) = s[1]
  <1> DEFINE S == 1 .. Len(s)
  <1>1. Len(s) \in Nat /\ s \in [S -> Nat]
    BY LenProperties
  <1>2. IsFiniteSet(S)
    <2>1. 1 \in Int /\ Len(s) \in Int
      BY <1>1
    <2> QED
      BY <2>1, FS_Interval, Zenon
  <1>3. (Len(s) = 0 => S = {}) /\ (Len(s) = 1 => S = {1})
    BY <1>1
  <1> HIDE DEF S
  <1>4. LET sum == FoldFunction(LAMBDA a, b : a + b, 0, s)
        IN /\ sum \in Nat /\ \A x \in S : s[x] <= sum
           /\ S = {} => sum = 0
           /\ \A x : S = {x} => sum = s[x]
    BY <1>1, <1>2, SumBounds, Zenon
  <1>5. Total(s) = FoldFunction(LAMBDA a, b : a + b, 0, s)
    BY DEF Total, FoldSeq
  <1> HIDE DEF Total
  <1>6. /\ Total(s) \in Nat /\ \A x \in S : s[x] <= Total(s)
        /\ S = {} => Total(s) = 0
        /\ \A x : S = {x} => Total(s) = s[x]
    BY <1>4, <1>5, Zenon
  <1> QED
    BY <1>3, <1>6, Zenon DEF S

(* The largest of numbers up to a bound.                                     *)
LEMMA LargestNumber ==
    ASSUME NEW n \in Nat, NEW T, T \subseteq 0 .. n, T # {}
    PROVE  Max(T) \in T /\ \A y \in T : y <= Max(T)
  <1> DEFINE U == {n - y : y \in T}
  <1>1. U \subseteq Nat /\ U # {}
    <2>1. \A y \in T : n - y \in Nat
      OBVIOUS
    <2> QED
      BY <2>1
  <1>2. PICK u \in U : \A v \in U : u <= v
    <2> HIDE DEF U
    <2> QED
      BY <1>1, LeastNumber
  <1>3. PICK x \in T : u = n - x
    BY <1>2
  <1>4. \A y \in T : x >= y
    <2> SUFFICES ASSUME NEW y \in T PROVE x >= y
      OBVIOUS
    <2>1. u <= n - y
      BY <1>2
    <2> QED
      BY <1>3, <2>1
  <1>5. Max(T) \in T /\ \A y \in T : Max(T) >= y
    BY <1>4 DEF Max
  <1> HIDE DEF U
  <1> QED
    BY <1>5

(* A page takes only links that fit, and takes none only if the next one     *)
(* does not fit.                                                             *)
LEMMA PageFits ==
    ASSUME NEW rest \in Seq(Nat), NEW limit \in Nat, NEW max_bytes \in Nat
    PROVE  LET most == Fitting(rest, limit, max_bytes)
           IN /\ most \in 0 .. Len(rest)
              /\ \A i \in 1 .. most : rest[i] <= max_bytes
              /\ most = 0 /\ Len(rest) > 0 => rest[1] > max_bytes
  <1> DEFINE T == {k \in 0 .. Len(rest) : /\ k <= (IF limit = 0 THEN 1 ELSE limit)
                                          /\ Total(SubSeq(rest, 1, k)) <= max_bytes}
             most == Max(T)
  <1>1. Len(rest) \in Nat
    BY LenProperties
  <1>2. ASSUME NEW k \in 0 .. Len(rest)
        PROVE  /\ SubSeq(rest, 1, k) \in Seq(Nat) /\ Len(SubSeq(rest, 1, k)) = k
               /\ \A i \in 1 .. k : SubSeq(rest, 1, k)[i] = rest[i]
    <2>1. 1 \in Int /\ k \in Int /\ \A i \in 1 .. k : rest[i] \in Nat
      BY <1>1, ElementOfSeq
    <2> HIDE DEF T, most
    <2> QED
      BY <2>1, SubSeqProperties
  <1>3. ASSUME NEW k \in T PROVE \A i \in 1 .. k : rest[i] <= max_bytes
    <2> SUFFICES ASSUME NEW i \in 1 .. k PROVE rest[i] <= max_bytes
      OBVIOUS
    <2>1. /\ Total(SubSeq(rest, 1, k)) \in Nat /\ SubSeq(rest, 1, k)[i] <= Total(SubSeq(rest, 1, k))
      BY <1>2, TotalOf
    <2>2. rest[i] \in Nat
      BY <1>1, ElementOfSeq
    <2> QED
      BY <1>2, <2>1, <2>2
  <1>4. 0 \in T
    <2>1. 0 \in 0 .. Len(rest)
      BY <1>1
    <2>2. SubSeq(rest, 1, 0) \in Seq(Nat) /\ Len(SubSeq(rest, 1, 0)) = 0
      BY <1>2, <2>1
    <2>3. Total(SubSeq(rest, 1, 0)) = 0
      BY <2>2, TotalOf
    <2> QED
      BY <2>1, <2>3
  <1>5. Len(rest) > 0 /\ rest[1] <= max_bytes => 1 \in T
    <2> SUFFICES ASSUME Len(rest) > 0, rest[1] <= max_bytes PROVE 1 \in T
      OBVIOUS
    <2>1. 1 \in 0 .. Len(rest)
      BY <1>1
    <2>2. /\ SubSeq(rest, 1, 1) \in Seq(Nat) /\ Len(SubSeq(rest, 1, 1)) = 1
          /\ SubSeq(rest, 1, 1)[1] = rest[1]
      BY <1>2, <2>1
    <2>3. Total(SubSeq(rest, 1, 1)) = rest[1]
      BY <2>2, TotalOf
    <2> QED
      BY <2>1, <2>3
  <1>6. T \subseteq 0 .. Len(rest) /\ T # {}
    BY <1>4
  <1>7. Fitting(rest, limit, max_bytes) = Max(T)
    BY Zenon DEF Fitting
  <1> HIDE DEF T
  <1>8. most \in T /\ \A y \in T : y <= most
    BY <1>1, <1>6, LargestNumber
  <1>9. Len(rest) > 0 => rest[1] \in Nat
    BY <1>1, ElementOfSeq
  <1> HIDE DEF most
  <1>10. /\ most \in 0 .. Len(rest) /\ \A i \in 1 .. most : rest[i] <= max_bytes
         /\ most = 0 /\ Len(rest) > 0 => rest[1] > max_bytes
    BY <1>3, <1>5, <1>6, <1>8, <1>9
  <1> QED
    BY <1>7, <1>10, Zenon DEF most

(* The links of the pages so far: in order, and those up to the cursor that  *)
(* fit a page.                                                               *)
ListingInv ==
    /\ DOMAIN listing = {"links", "cursor", "max_bytes", "got", "done"}
    /\ listing.links \in Seq(Nat) /\ listing.max_bytes \in Nat
    /\ listing.cursor \in 0 .. Len(listing.links)
    /\ listing.got \in Seq(Nat)
    /\ \A i, j \in DOMAIN listing.got : i < j => listing.got[i] < listing.got[j]
    /\ ToSet(listing.got) = {i \in 1 .. listing.cursor : listing.links[i] <= listing.max_bytes}
    /\ listing.done => listing.cursor = Len(listing.links)
    /\ listing.links = << >> => listing.got = << >> /\ ~listing.done
    /\ listing.links # << >> /\ ~listing.done => listing.cursor < Len(listing.links)

(* Numbers beyond all those listed, in order, go at the end of the list.     *)
LEMMA ListedFurther ==
    ASSUME NEW got \in Seq(Nat), NEW c \in Nat, NEW n \in Nat,
           \A i, j \in DOMAIN got : i < j => got[i] < got[j],
           \A i \in ToSet(got) : i <= c
    PROVE  LET all == got \o [i \in 1 .. n |-> c + i]
           IN /\ all \in Seq(Nat) /\ ToSet(all) = ToSet(got) \cup (c + 1 .. c + n)
              /\ \A i, j \in DOMAIN all : i < j => all[i] < all[j]
  <1> DEFINE more == [i \in 1 .. n |-> c + i]
             all == got \o more
             l == Len(got)
  <1>1. more \in Seq(Nat) /\ Len(more) = n /\ \A i \in 1 .. n : more[i] = c + i
    <2>1. more \in [1 .. n -> Nat]
      OBVIOUS
    <2>2. more \in Seq(Nat)
      BY <2>1, SeqDef
    <2> QED
      BY <2>2
  <1> HIDE DEF more
  <1>2. /\ all \in Seq(Nat) /\ Len(all) = l + n
        /\ \A i \in 1 .. l + n : all[i] = IF i <= l THEN got[i] ELSE more[i - l]
    BY <1>1, ConcatProperties
  <1>3. l \in Nat /\ DOMAIN got = 1 .. l /\ DOMAIN all = 1 .. l + n
    BY <1>2, LenProperties
  <1> HIDE DEF all
  <1>4. \A i \in 1 .. l : all[i] = got[i] /\ got[i] \in Nat /\ got[i] <= c
    <2>1. \A i \in 1 .. l : got[i] \in Nat /\ got[i] \in ToSet(got)
      BY <1>3, ElementOfSeq DEF ToSet
    <2> QED
      BY <1>2, <1>3, <2>1
  <1>5. \A i \in l + 1 .. l + n : all[i] = c + (i - l)
    <2> SUFFICES ASSUME NEW i \in l + 1 .. l + n PROVE all[i] = c + (i - l)
      OBVIOUS
    <2>1. i - l \in 1 .. n /\ i \in 1 .. l + n /\ ~(i <= l)
      BY <1>3
    <2> HIDE DEF l
    <2> QED
      BY <1>1, <1>2, <2>1
  <1> HIDE DEF l
  <1>6. \A i \in 1 .. l + n : i \in 1 .. l \/ i \in l + 1 .. l + n
    BY <1>3
  <1>7. ASSUME NEW i \in DOMAIN all, NEW j \in DOMAIN all, i < j PROVE all[i] < all[j]
    <2>1. CASE j \in 1 .. l
      <3>1. i \in 1 .. l
        BY <1>3, <1>7, <2>1
      <3> QED
        BY <1>3, <1>4, <1>7, <2>1, <3>1
    <2>2. CASE i \in 1 .. l /\ j \in l + 1 .. l + n
      BY <1>3, <1>4, <1>5, <2>2
    <2>3. CASE i \in l + 1 .. l + n /\ j \in l + 1 .. l + n
      BY <1>3, <1>5, <1>7, <2>3
    <2> QED
      BY <1>3, <1>6, <2>1, <2>2, <2>3
  <1>8. ToSet(all) = ToSet(got) \cup (c + 1 .. c + n)
    <2>1. ASSUME NEW x \in ToSet(all) PROVE x \in ToSet(got) \cup (c + 1 .. c + n)
      <3>1. PICK i \in 1 .. l + n : x = all[i]
        BY <1>3, <2>1 DEF ToSet
      <3>2. CASE i \in 1 .. l
        BY <1>3, <1>4, <3>1, <3>2 DEF ToSet
      <3>3. CASE i \in l + 1 .. l + n
        BY <1>3, <1>5, <3>1, <3>3
      <3> QED
        BY <1>6, <3>2, <3>3
    <2>2. ASSUME NEW x \in ToSet(got) PROVE x \in ToSet(all)
      <3>1. PICK i \in 1 .. l : x = got[i]
        BY <1>3, <2>2 DEF ToSet
      <3>2. i \in DOMAIN all
        BY <1>3
      <3> QED
        BY <1>4, <3>1, <3>2 DEF ToSet
    <2>3. ASSUME NEW x \in c + 1 .. c + n PROVE x \in ToSet(all)
      <3>1. (x - c) + l \in l + 1 .. l + n /\ (x - c) + l \in DOMAIN all
        BY <1>3
      <3>2. all[(x - c) + l] = x
        BY <1>3, <1>5, <3>1
      <3> QED
        BY <3>1, <3>2 DEF ToSet
    <2> QED
      BY <2>1, <2>2, <2>3
  <1> QED
    BY <1>2, <1>7, <1>8 DEF all, more

(* Every page, whatever its limit and the time it had.                       *)
LEMMA ListingSteps == ASSUME ListingInv, ListNext PROVE ListingInv'
  <1>1. ASSUME NEW links \in TupleOf(LinkSizes, MaxLinks), NEW b \in LinkBytes, list_links(links, b)
        PROVE  ListingInv'
    <2>1. links \in Seq(Nat) /\ b \in Nat
      <3>1. MaxLinks \in Nat /\ LinkSizes \subseteq Nat /\ LinkBytes \subseteq Nat
        BY SessionAssumption
      <3>2. links \in [1 .. MaxLinks -> Nat]
        BY <3>1 DEF TupleOf
      <3> QED
        BY <3>1, <3>2, SeqDef
    <2>2. /\ listing.links = << >> /\ DOMAIN listing' = DOMAIN listing
          /\ listing'.links = links /\ listing'.max_bytes = b /\ listing'.cursor = listing.cursor
          /\ listing'.got = listing.got /\ listing'.done = listing.done
      BY <1>1 DEF list_links, ListingInv
    <2>3. listing.cursor = 0 /\ listing.got = << >> /\ ~listing.done
      BY <2>2 DEF ListingInv
    <2>4. Len(links) \in Nat /\ (links # << >> => 0 < Len(links))
      BY <2>1
    <2>5. ToSet(listing'.got) = {i \in 1 .. listing'.cursor : listing'.links[i] <= listing'.max_bytes}
      <3>1. ToSet(<< >>) = {}
        BY DEF ToSet
      <3> QED
        BY <2>2, <2>3, <3>1
    <2> QED
      BY <2>1, <2>2, <2>3, <2>4, <2>5 DEF ListingInv
  <1>2. ASSUME NEW limit \in LinkLimits, bounded_string_page(limit) PROVE ListingInv'
    <2> DEFINE c == listing.cursor
               n == Len(listing.links)
               rest == SubSeq(listing.links, c + 1, n)
               most == Fitting(rest, limit, listing.max_bytes)
    <2>1. limit \in Nat /\ n \in Nat /\ c \in 0 .. n /\ c < n
      BY <1>2, SessionAssumption DEF bounded_string_page, ListingInv
    <2>2. /\ rest \in Seq(Nat) /\ Len(rest) = n - c
          /\ \A i \in 1 .. n - c : rest[i] = listing.links[c + i]
      <3>1. \A i \in 1 .. n : listing.links[i] \in Nat
        BY ElementOfSeq DEF ListingInv
      <3> HIDE DEF c, n
      <3>2. c + 1 \in Int /\ n \in Int /\ \A i \in c + 1 .. n : listing.links[i] \in Nat
        BY <2>1, <3>1
      <3>3. /\ SubSeq(listing.links, c + 1, n) \in Seq(Nat)
            /\ Len(SubSeq(listing.links, c + 1, n)) = n - (c + 1) + 1
            /\ \A i \in 1 .. n - (c + 1) + 1 :
                  SubSeq(listing.links, c + 1, n)[i] = listing.links[c + 1 + i - 1]
        BY <2>1, <3>2, SubSeqProperties
      <3> QED
        BY <2>1, <3>3
    <2>3. PICK taken \in IF most = 0 THEN {0} ELSE 1 .. most :
             listing' = [listing EXCEPT
                  !.got = @ \o [i \in 1 .. taken |-> listing.cursor + i],
                  !.cursor = NextIndex(c, rest, limit, taken),
                  !.done = NextIndex(c, rest, limit, taken) >= Len(listing.links)]
      BY <1>2, Zenon DEF bounded_string_page
    <2> DEFINE next == NextIndex(c, rest, limit, taken)
    <2>4. /\ DOMAIN listing' = DOMAIN listing /\ listing'.links = listing.links
          /\ listing'.max_bytes = listing.max_bytes /\ listing'.cursor = next
          /\ listing'.got = listing.got \o [i \in 1 .. taken |-> c + i]
          /\ listing'.done = (next >= n)
      <3> HIDE DEF most, rest
      <3> QED
        BY <2>3 DEF ListingInv
    <2>5. /\ most \in 0 .. n - c
          /\ \A i \in 1 .. most : rest[i] <= listing.max_bytes
          /\ most = 0 => rest[1] > listing.max_bytes
      <3>1. listing.max_bytes \in Nat
        BY DEF ListingInv
      <3> HIDE DEF rest
      <3>2. /\ most \in 0 .. Len(rest)
            /\ \A i \in 1 .. most : rest[i] <= listing.max_bytes
            /\ most = 0 /\ Len(rest) > 0 => rest[1] > listing.max_bytes
        BY <2>1, <2>2, <3>1, PageFits, Zenon
      <3>3. Len(rest) > 0
        BY <2>1, <2>2
      <3> HIDE DEF most
      <3> QED
        BY <2>2, <3>2, <3>3
    <2>6. rest # << >>
      <3> HIDE DEF rest
      <3>1. Len(rest) > 0
        BY <2>1, <2>2
      <3> QED
        BY <3>1
    <2> HIDE DEF rest, most
    <2>7. /\ taken \in 0 .. n - c /\ next = c + (IF taken = 0 THEN 1 ELSE taken)
          /\ taken = 0 => most = 0
          /\ taken <= most
      BY <2>1, <2>3, <2>5, <2>6 DEF NextIndex
    <2> HIDE DEF next
    <2>8. \A i \in 1 .. taken : listing.links[c + i] <= listing.max_bytes
      <3> SUFFICES ASSUME NEW i \in 1 .. taken PROVE listing.links[c + i] <= listing.max_bytes
        OBVIOUS
      <3>1. i \in 1 .. most /\ i \in 1 .. n - c
        BY <2>1, <2>5, <2>7
      <3> QED
        BY <2>2, <2>5, <3>1
    <2>9. taken = 0 => listing.links[c + 1] > listing.max_bytes
      <3>1. 1 \in 1 .. n - c
        BY <2>1
      <3> QED
        BY <2>2, <2>5, <2>7, <3>1
    <2>10. /\ listing.got \in Seq(Nat) /\ \A i \in ToSet(listing.got) : i <= c
           /\ \A i, j \in DOMAIN listing.got : i < j => listing.got[i] < listing.got[j]
           /\ ToSet(listing.got) = {i \in 1 .. c : listing.links[i] <= listing.max_bytes}
      BY <2>1 DEF ListingInv
    <2> DEFINE all == listing.got \o [i \in 1 .. taken |-> c + i]
    <2>11. /\ all \in Seq(Nat) /\ ToSet(all) = ToSet(listing.got) \cup (c + 1 .. c + taken)
           /\ \A i, j \in DOMAIN all : i < j => all[i] < all[j]
      <3>1. c \in Nat /\ taken \in Nat
        BY <2>1, <2>7
      <3> HIDE DEF c
      <3> QED
        BY <2>10, <3>1, ListedFurther, Zenon
    <2> HIDE DEF all
    <2>12. ToSet(all) = {i \in 1 .. next : listing.links[i] <= listing.max_bytes}
      <3>1. \A i \in c + 1 .. c + taken : listing.links[i] <= listing.max_bytes
        <4> SUFFICES ASSUME NEW i \in c + 1 .. c + taken PROVE listing.links[i] <= listing.max_bytes
          OBVIOUS
        <4>1. i - c \in 1 .. taken /\ c + (i - c) = i
          BY <2>1, <2>7
        <4> QED
          BY <2>8, <4>1
      <3>2. CASE taken = 0
        <4>1. listing.links[c + 1] \in Nat /\ listing.max_bytes \in Nat
          BY <2>1, ElementOfSeq DEF ListingInv
        <4>2. next = c + 1 /\ ~(listing.links[c + 1] <= listing.max_bytes) /\ c + 1 .. c + taken = {}
          BY <2>1, <2>7, <2>9, <3>2, <4>1
        <4>3. \A i \in 1 .. c + 1 : i \in 1 .. c \/ i = c + 1
          BY <2>1
        <4>4. \A i \in 1 .. c : i \in 1 .. c + 1
          BY <2>1
        <4> HIDE DEF c, n
        <4> QED
          BY <2>10, <2>11, <4>2, <4>3, <4>4
      <3>3. CASE taken # 0
        <4>1. next = c + taken
          BY <2>7, <3>3
        <4>2. \A i : i \in 1 .. c + taken <=> i \in 1 .. c \/ i \in c + 1 .. c + taken
          BY <2>1, <2>7
        <4> HIDE DEF c, n
        <4> QED
          BY <2>10, <2>11, <3>1, <4>1, <4>2
      <3> QED
        BY <3>2, <3>3
    <2>13. next \in 0 .. n
      BY <2>1, <2>7
    <2>14. listing'.got = all
      BY <2>4 DEF all
    <2>15. /\ DOMAIN listing' = {"links", "cursor", "max_bytes", "got", "done"}
           /\ listing'.links \in Seq(Nat) /\ listing'.max_bytes \in Nat
           /\ listing'.links # << >>
      BY <1>2, <2>4 DEF ListingInv, bounded_string_page
    <2>16. /\ listing'.cursor \in 0 .. Len(listing'.links)
           /\ listing'.done => listing'.cursor = Len(listing'.links)
           /\ ~listing'.done => listing'.cursor < Len(listing'.links)
      <3>1. Len(listing'.links) = n /\ listing'.cursor = next
        BY <2>4
      <3>2. listing'.done <=> next >= n
        BY <2>4, Zenon
      <3>3. (next >= n => next = n) /\ (~(next >= n) => next < n)
        BY <2>1, <2>13
      <3> HIDE DEF n
      <3> QED
        BY <2>13, <3>1, <3>2, <3>3, Zenon
    <2>17. ToSet(listing'.got) = {i \in 1 .. listing'.cursor : listing'.links[i] <= listing'.max_bytes}
      BY <2>4, <2>12, <2>14
    <2>18. /\ listing'.got \in Seq(Nat)
           /\ \A i, j \in DOMAIN listing'.got : i < j => listing'.got[i] < listing'.got[j]
      BY <2>11, <2>14
    <2> QED
      BY <2>15, <2>16, <2>17, <2>18 DEF ListingInv
  <1> QED
    BY <1>1, <1>2 DEF ListNext

(* The invariant says what LinkPagesAddUp does.                              *)
LEMMA ListingAddsUp == ASSUME ListingInv PROVE LinkPagesAddUp
  <1> DEFINE fits == {i \in DOMAIN listing.links : listing.links[i] <= listing.max_bytes}
             k == listing.cursor
  <1>1. /\ DOMAIN listing.links = 1 .. Len(listing.links) /\ Len(listing.links) \in Nat
        /\ k \in 0 .. Len(listing.links)
    BY LenProperties DEF ListingInv
  <1>2. {i \in fits : i <= k} = {i \in 1 .. k : listing.links[i] <= listing.max_bytes}
    BY <1>1
  <1>3. /\ ToSet(listing.got) = {i \in fits : i <= k}
        /\ listing.done => k = Len(listing.links)
        /\ \A i, j \in DOMAIN listing.got : i < j => listing.got[i] < listing.got[j]
    BY <1>2 DEF ListingInv
  <1> QED
    BY <1>1, <1>3, Zenon DEF LinkPagesAddUp

(* The numbers after d, m of them: the links or controls left to do.         *)
From(d, m) == [i \in 1 .. m |-> d + i]

(* What From is as a sequence.                                               *)
LEMMA FromIs ==
    ASSUME NEW d \in Nat, NEW m \in Nat
    PROVE  /\ From(d, m) \in Seq(Nat) /\ Len(From(d, m)) = m
           /\ \A i \in 1 .. m : From(d, m)[i] = d + i
           /\ From(d, m) = << >> <=> m = 0
  <1>1. From(d, m) \in [1 .. m -> Nat]
    BY DEF From
  <1>2. From(d, m) \in Seq(Nat)
    BY <1>1, SeqDef
  <1>3. DOMAIN From(d, m) = 1 .. m /\ \A i \in 1 .. m : From(d, m)[i] = d + i
    BY DEF From
  <1>4. Len(From(d, m)) = m
    BY <1>2, <1>3, LenProperties
  <1>5. m = 0 => From(d, m) = << >>
    BY <1>2, <1>4
  <1>6. From(d, m) = << >> => m = 0
    BY <1>4
  <1> QED
    BY <1>2, <1>3, <1>4, <1>5, <1>6

(* Taking the first number off.                                              *)
LEMMA FromSteps ==
    ASSUME NEW d \in Nat, NEW m \in Nat \ {0}
    PROVE  Head(From(d, m)) = d + 1 /\ Tail(From(d, m)) = From(d + 1, m - 1)
  <1> DEFINE s == From(d, m)
             t == From(d + 1, m - 1)
  <1>1. /\ s \in Seq(Nat) /\ Len(s) = m /\ s # << >> /\ \A i \in 1 .. m : s[i] = d + i
        /\ t \in Seq(Nat) /\ Len(t) = m - 1 /\ \A i \in 1 .. m - 1 : t[i] = d + 1 + i
    <2>1. d + 1 \in Nat /\ m - 1 \in Nat
      OBVIOUS
    <2> QED
      BY <2>1, FromIs
  <1> HIDE DEF s, t
  <1>2. Head(s) = d + 1
    BY <1>1
  <1>3. /\ Tail(s) \in Seq(Nat) /\ Len(Tail(s)) = m - 1
        /\ \A i \in 1 .. m - 1 : Tail(s)[i] = s[i + 1]
    BY <1>1, HeadTailProperties
  <1>4. \A i \in 1 .. m - 1 : Tail(s)[i] = t[i]
    BY <1>1, <1>3
  <1>5. Tail(s) = t
    BY <1>1, <1>3, <1>4, SeqEqual
  <1> QED
    BY <1>2, <1>5 DEF s, t

(* The numbers from 1, in order.                                             *)
LEMMA FirstNumbers ==
    ASSUME NEW n \in Nat
    PROVE  From(0, n) \in Seq(Nat) /\ Len(From(0, n)) = n /\ \A i \in 1 .. n : From(0, n)[i] = i
  <1>1. From(0, n) \in Seq(Nat) /\ Len(From(0, n)) = n /\ \A i \in 1 .. n : From(0, n)[i] = 0 + i
    BY FromIs
  <1> QED
    BY <1>1

(* One number more at the end.                                               *)
LEMMA FromGrows ==
    ASSUME NEW c \in Nat
    PROVE  Append(From(0, c), c + 1) = From(0, c + 1)
  <1> DEFINE s == From(0, c)
             t == From(0, c + 1)
  <1>1. /\ s \in Seq(Nat) /\ Len(s) = c /\ \A i \in 1 .. c : s[i] = i
        /\ t \in Seq(Nat) /\ Len(t) = c + 1 /\ \A i \in 1 .. c + 1 : t[i] = i
    BY FirstNumbers
  <1> HIDE DEF s, t
  <1>2. /\ Append(s, c + 1) \in Seq(Nat) /\ Len(Append(s, c + 1)) = c + 1
        /\ \A i \in 1 .. c : Append(s, c + 1)[i] = s[i]
        /\ Append(s, c + 1)[c + 1] = c + 1
    BY <1>1, AppendProperties
  <1>3. \A i \in 1 .. c + 1 : Append(s, c + 1)[i] = t[i]
    BY <1>1, <1>2
  <1> QED
    BY <1>1, <1>2, <1>3, SeqEqual DEF s, t

(* The clicks made are the first of the links offered.                       *)
ClickedSome(off, cl) == \E k, c \in Nat : c <= k /\ off = From(0, k) /\ cl = From(0, c)

(* ... while the loop goes on: the links left are the others, unless the     *)
(* page at hand is no longer the one of the loop's beginning.                *)
Clicking(off, cl, td, at, start, cmd) ==
    \E k, c \in Nat :
       /\ c <= k /\ off = From(0, k) /\ cl = From(0, c)
       /\ \/ td = From(c, k - c) /\ (cmd = "live-open" /\ td # << >> => at = start)
          \/ td = << >> /\ cmd = "live-open" /\ at # start

(* One click more of those offered.                                          *)
LEMMA ClickedOne ==
    ASSUME NEW off, NEW cl, NEW td, NEW at, NEW start, NEW cmd, NEW there,
           Clicking(off, cl, td, at, start, cmd), td # << >>
    PROVE  /\ cmd = "live-open" =>
                /\ at = start
                /\ Clicking(off, Append(cl, Head(td)), IF there = start THEN Tail(td) ELSE << >>,
                            there, start, cmd)
           /\ cmd # "live-open" => Clicking(off, Append(cl, Head(td)), Tail(td), there, start, cmd)
  <1>1. PICK k \in Nat, c \in Nat :
           /\ c <= k /\ off = From(0, k) /\ cl = From(0, c) /\ td = From(c, k - c)
           /\ cmd = "live-open" => at = start
    BY DEF Clicking
  <1>2. k - c \in Nat \ {0}
    <2>1. k - c \in Nat
      BY <1>1
    <2> QED
      BY <1>1, <2>1, FromIs
  <1>3. Head(td) = c + 1 /\ Tail(td) = From(c + 1, k - (c + 1))
    <2>1. (k - c) - 1 = k - (c + 1)
      OBVIOUS
    <2> QED
      BY <1>1, <1>2, <2>1, FromSteps
  <1>4. Append(cl, Head(td)) = From(0, c + 1) /\ c + 1 \in Nat /\ c + 1 <= k
    <2>1. Append(cl, Head(td)) = From(0, c + 1)
      BY <1>1, <1>3, FromGrows
    <2>2. c + 1 \in Nat /\ c + 1 <= k
      BY <1>1, <1>2
    <2> QED
      BY <2>1, <2>2
  <1>5. ASSUME cmd = "live-open" => there = start
        PROVE  Clicking(off, Append(cl, Head(td)), Tail(td), there, start, cmd)
    BY <1>1, <1>3, <1>4, <1>5, Zenon DEF Clicking
  <1>6. ASSUME cmd = "live-open", there # start
        PROVE  Clicking(off, Append(cl, Head(td)), << >>, there, start, cmd)
    BY <1>1, <1>4, <1>6, Zenon DEF Clicking
  <1>7. CASE there = start
    <2>1. (IF there = start THEN Tail(td) ELSE << >>) = Tail(td)
      BY <1>7
    <2> QED
      BY <1>1, <1>5, <1>7, <2>1
  <1>8. CASE there # start
    <2>1. (IF there = start THEN Tail(td) ELSE << >>) = << >>
      BY <1>8
    <2> QED
      BY <1>1, <1>5, <1>6, <1>8, <2>1
  <1> QED
    BY <1>7, <1>8

(* When the loop ends every link was clicked or the page went away.          *)
LEMMA ClicksOver ==
    ASSUME NEW off, NEW cl, NEW td, NEW at, NEW start, NEW cmd,
           Clicking(off, cl, td, at, start, cmd), td = << >>
    PROVE  ClickedSome(off, cl) /\ (cl # off => cmd = "live-open" /\ at # start)
  <1>1. PICK k \in Nat, c \in Nat :
           /\ c <= k /\ off = From(0, k) /\ cl = From(0, c)
           /\ \/ td = From(c, k - c) /\ (cmd = "live-open" /\ td # << >> => at = start)
              \/ td = << >> /\ cmd = "live-open" /\ at # start
    BY Zenon DEF Clicking
  <1>2. td = From(c, k - c) => k = c
    <2>1. k - c \in Nat
      BY <1>1
    <2> QED
      BY <2>1, FromIs
  <1> QED
    BY <1>1, <1>2 DEF ClickedSome

(* What was clicked are the first of those offered.                          *)
LEMMA ClickedPrefix == ASSUME NEW off, NEW cl, ClickedSome(off, cl) PROVE IsPrefix(cl, off)
  <1>1. PICK k \in Nat, c \in Nat : c <= k /\ off = From(0, k) /\ cl = From(0, c)
    BY DEF ClickedSome
  <1>2. /\ off \in Seq(Nat) /\ Len(off) = k /\ \A i \in 1 .. k : off[i] = i
        /\ cl \in Seq(Nat) /\ Len(cl) = c /\ \A i \in 1 .. c : cl[i] = i
    BY <1>1, FirstNumbers
  <1>3. ASSUME NEW s, \A i \in 1 .. c : s[i] = i
        PROVE  /\ SubSeq(s, 1, c) \in Seq(Nat) /\ Len(SubSeq(s, 1, c)) = c
               /\ \A i \in 1 .. c : SubSeq(s, 1, c)[i] = i
    <2>1. 1 \in Int /\ c \in Int /\ \A i \in 1 .. c : s[i] \in Nat
      BY <1>3
    <2> QED
      BY <1>3, <2>1, SubSeqProperties
  <1>4. \A i \in 1 .. c : off[i] = i
    BY <1>1, <1>2
  <1>5. SubSeq(cl, 1, c) = SubSeq(off, 1, c)
    BY <1>2, <1>3, <1>4, SeqEqual
  <1> QED
    BY <1>1, <1>2, <1>5 DEF IsPrefix

(* Each of the first n controls was probed or skipped, once.                 *)
Accounted(pr, sk, n) ==
    /\ pr \in Seq(Nat) /\ sk \in Seq(Nat) /\ ToSet(pr) \cup ToSet(sk) = 1 .. n
    /\ Len(pr) + Len(sk) = n

(* The controls probed and skipped so far are those before the ones left.    *)
Probing(pr, sk, td, n) == \E d, m \in Nat : td = From(d, m) /\ Accounted(pr, sk, d) /\ d + m = n

(* One control more, probed or skipped.                                      *)
LEMMA ProbedOne ==
    ASSUME NEW pr, NEW sk, NEW td, NEW n, Probing(pr, sk, td, n), td # << >>
    PROVE  /\ Probing(Append(pr, Head(td)), sk, Tail(td), n) /\ Append(pr, Head(td)) # << >>
           /\ Probing(pr, Append(sk, Head(td)), Tail(td), n)
  <1>1. PICK d \in Nat, m \in Nat : td = From(d, m) /\ Accounted(pr, sk, d) /\ d + m = n
    BY DEF Probing
  <1>2. m # 0
    BY <1>1, FromIs
  <1>3. Head(td) = d + 1 /\ Tail(td) = From(d + 1, m - 1) /\ m - 1 \in Nat /\ d + 1 \in Nat
    <2>1. m \in Nat \ {0}
      BY <1>2
    <2>2. Head(td) = d + 1 /\ Tail(td) = From(d + 1, m - 1)
      BY <1>1, <2>1, FromSteps
    <2>3. m - 1 \in Nat /\ d + 1 \in Nat
      BY <2>1
    <2> QED
      BY <2>2, <2>3
  <1>4. ASSUME NEW s \in Seq(Nat)
        PROVE  /\ Append(s, d + 1) \in Seq(Nat) /\ Append(s, d + 1) # << >>
               /\ ToSet(Append(s, d + 1)) = ToSet(s) \cup {d + 1}
               /\ Len(Append(s, d + 1)) = Len(s) + 1 /\ Len(s) \in Nat
    <2>1. /\ Append(s, d + 1) \in Seq(Nat) /\ Append(s, d + 1) # << >>
          /\ Len(Append(s, d + 1)) = Len(s) + 1 /\ Len(s) \in Nat
          /\ DOMAIN Append(s, d + 1) = 1 .. Len(s) + 1 /\ DOMAIN s = 1 .. Len(s)
          /\ \A i \in 1 .. Len(s) : Append(s, d + 1)[i] = s[i]
          /\ Append(s, d + 1)[Len(s) + 1] = d + 1
      BY AppendProperties, LenProperties
    <2>2. \A i : i \in 1 .. Len(s) + 1 <=> i \in 1 .. Len(s) \/ i = Len(s) + 1
      BY <2>1
    <2> QED
      BY <2>1, <2>2 DEF ToSet
  <1>5. /\ pr \in Seq(Nat) /\ sk \in Seq(Nat) /\ ToSet(pr) \cup ToSet(sk) = 1 .. d
        /\ Len(pr) + Len(sk) = d
    BY <1>1 DEF Accounted
  <1>6. 1 .. d + 1 = (1 .. d) \cup {d + 1}
    OBVIOUS
  <1>7. PICK P, S, D : P = ToSet(pr) /\ S = ToSet(sk) /\ D = 1 .. d
    OBVIOUS
  <1>8. (P \cup {d + 1}) \cup S = D \cup {d + 1} /\ P \cup (S \cup {d + 1}) = D \cup {d + 1}
    BY <1>5, <1>7
  <1>9. PICK a \in Nat, b \in Nat : a = Len(pr) /\ b = Len(sk) /\ a + b = d
    BY <1>4, <1>5
  <1>10. (a + 1) + b = d + 1 /\ a + (b + 1) = d + 1
    BY <1>9
  <1>11. Accounted(Append(pr, d + 1), sk, d + 1)
    <2>1. ToSet(Append(pr, d + 1)) \cup ToSet(sk) = 1 .. d + 1
      BY <1>4, <1>5, <1>6, <1>7, <1>8, Zenon
    <2>2. Len(Append(pr, d + 1)) + Len(sk) = d + 1
      BY <1>4, <1>5, <1>9, <1>10, Zenon
    <2> QED
      BY <1>4, <1>5, <2>1, <2>2 DEF Accounted
  <1>12. Accounted(pr, Append(sk, d + 1), d + 1)
    <2>1. ToSet(pr) \cup ToSet(Append(sk, d + 1)) = 1 .. d + 1
      BY <1>4, <1>5, <1>6, <1>7, <1>8, Zenon
    <2>2. Len(pr) + Len(Append(sk, d + 1)) = d + 1
      BY <1>4, <1>5, <1>9, <1>10, Zenon
    <2> QED
      BY <1>4, <1>5, <2>1, <2>2 DEF Accounted
  <1>13. (d + 1) + (m - 1) = n
    BY <1>1
  <1> QED
    BY <1>3, <1>4, <1>5, <1>11, <1>12, <1>13, Zenon DEF Probing

(* When none is left, each has been probed or skipped.                       *)
LEMMA ProbesOver ==
    ASSUME NEW pr, NEW sk, NEW n, Probing(pr, sk, << >>, n) PROVE Accounted(pr, sk, n)
  <1>1. PICK d \in Nat, m \in Nat : << >> = From(d, m) /\ Accounted(pr, sk, d) /\ d + m = n
    BY DEF Probing
  <1>2. m = 0
    BY <1>1, FromIs
  <1> QED
    BY <1>1, <1>2

(* The stages before the click loop.                                         *)
Early == {"startup", "pump", "idle", "projection", "solve", "landing", "query", "results",
          "diagnose", "links"}

(* What the command knows by stage.                                          *)
SessionInv ==
    /\ part # "session" => stage = "startup"
    /\ view.links \in Nat /\ \E S : presses \in Seq(S)
    /\ \A i \in DOMAIN presses : presses[i].loop = "links" => Address[presses[i].from] = began
    /\ stage \in Early =>
          presses = << >> /\ clicked = << >> /\ probed = << >> /\ skipped = << >> /\ controls = 0
    /\ stage = "click" =>
          /\ Clicking(offered, clicked, todo, Address[web.doc], began, command)
          /\ probed = << >> /\ skipped = << >> /\ controls = 0
    /\ stage \in {"probe", "output", "done"} =>
          /\ ClickedSome(offered, clicked)
          /\ clicked # offered => Opens
    /\ stage = "probe" =>
          /\ Probing(probed, skipped, todo, controls)
          /\ clicked # offered => Address[web.doc] # began \/ probed # << >>
    /\ stage \in {"output", "done"} =>
          /\ clicked # offered => final_url # began \/ probed # << >>
          /\ Accounted(probed, skipped, controls)
    /\ report \subseteq {Report} /\ (report # {} => stage = "done")

(* The numbers from 1, as an explicit function.                              *)
LEMMA CountedFrom == ASSUME NEW n \in Nat PROVE [i \in 1 .. n |-> i] = From(0, n)
  BY DEF From

(* A press is one more, of the loop it was made in.                          *)
LEMMA PressesGrow ==
    ASSUME SessionInv, NEW loop, NEW planned, Presses(loop, planned), UNCHANGED began,
           loop = "links" => Address[web.doc] = began
    PROVE  /\ \E S : presses' \in Seq(S)
           /\ \A i \in DOMAIN presses' : presses'[i].loop = "links" => Address[presses'[i].from] = began'
  <1>1. PICK hit \in 0 .. MaxLoads :
           presses' = Append(presses, [loop |-> loop, planned |-> planned, hit |-> hit, from |-> web.doc])
    BY DEF Presses
  <1>2. PICK S : presses \in Seq(S)
    BY DEF SessionInv
  <1> DEFINE e == [loop |-> loop, planned |-> planned, hit |-> hit, from |-> web.doc]
             T == S \cup {e}
  <1>3. e.loop = loop /\ e.from = web.doc /\ presses' = Append(presses, e)
    BY <1>1
  <1> HIDE DEF e
  <1>4. presses \in Seq(T) /\ e \in T
    BY <1>2, SeqMonotonic
  <1> HIDE DEF T
  <1>5. /\ presses' \in Seq(T) /\ Len(presses') = Len(presses) + 1 /\ Len(presses) \in Nat
        /\ DOMAIN presses = 1 .. Len(presses) /\ DOMAIN presses' = 1 .. Len(presses) + 1
        /\ \A i \in 1 .. Len(presses) : presses'[i] = presses[i]
        /\ presses'[Len(presses) + 1] = e
    BY <1>3, <1>4, AppendProperties, LenProperties
  <1>6. ASSUME NEW i \in DOMAIN presses', presses'[i].loop = "links"
        PROVE  Address[presses'[i].from] = began'
    <2>1. CASE i = Len(presses) + 1
      BY <1>3, <1>5, <1>6, <2>1
    <2>2. CASE i \in 1 .. Len(presses)
      BY <1>5, <1>6, <2>2 DEF SessionInv
    <2> QED
      BY <1>5, <2>1, <2>2
  <1> QED
    BY <1>5, <1>6

(* Every stage of a command keeps the invariant.                             *)
LEMMA SessionSteps == ASSUME SessionInv, SessionNext, part = "session", UNCHANGED part PROVE SessionInv'
  <1> DEFINE Kept == UNCHANGED <<presses, began>>
  <1>0. view'.links \in Nat
    <2>1. view' = view \/ Snapshots
      BY DEF SessionNext, fails, startup, pump_runtime, network_idle, dom_projection,
             auto_solve_challenges, search_startup, snapshot_after_settle, query, search_diagnostics,
             link_page, click, open_link, control_snapshot, probe, diagnostics, output, search_output
    <2>2. MaxLinks \in Nat
      BY SessionAssumption
    <2> QED
      BY <2>1, <2>2 DEF SessionInv, Snapshots
  <1>1. stage # "done" => report = {}
    BY DEF SessionInv
  <1>2. Kept => /\ \E S : presses' \in Seq(S)
                /\ \A i \in DOMAIN presses' : presses'[i].loop = "links" => Address[presses'[i].from] = began'
    BY DEF SessionInv
  <1>3. ASSUME stage \in Early, stage' \in Early \cup {"failed"}, UNCHANGED <<loopVars, report>>
        PROVE  SessionInv'
    <2>1. UNCHANGED <<presses, began, clicked, probed, skipped, controls>> /\ report = {} /\ report' = {}
      BY <1>1, <1>3 DEF loopVars, Early
    <2> QED
      BY <1>0, <1>2, <1>3, <2>1 DEF SessionInv, Early
  <1>4. CASE fails
    <2>1. stage' = "failed" /\ report' = {} /\ Kept
      BY <1>1, <1>4 DEF fails, loopVars
    <2> QED
      BY <1>0, <1>2, <2>1 DEF SessionInv, Early
  <1>5. CASE startup \/ pump_runtime \/ network_idle \/ dom_projection \/ auto_solve_challenges
    BY <1>3, <1>5 DEF startup, pump_runtime, network_idle, dom_projection, auto_solve_challenges, Goes, Early
  <1>6. CASE search_startup \/ snapshot_after_settle \/ query \/ search_diagnostics
    BY <1>3, <1>6 DEF search_startup, snapshot_after_settle, query, search_diagnostics, Goes, Early
  <1>7. CASE link_page
    <2>1. /\ stage = "links" /\ stage' = "click" /\ UNCHANGED <<command, web, report, presses>>
          /\ began' = Address[web.doc] /\ todo' = offered'
          /\ UNCHANGED <<clicked, probed, skipped, controls>>
      BY <1>7 DEF link_page, Goes, liveVars
    <2>2. /\ presses = << >> /\ clicked = << >> /\ probed = << >> /\ skipped = << >> /\ report = {}
          /\ controls = 0
      BY <1>1, <2>1 DEF SessionInv, Early
    <2>3. \E k \in Nat : offered' = From(0, k)
      <3>1. offered' = << >> \/ offered' = FirstLinks(view.links)
        BY <1>7 DEF link_page
      <3>2. << >> = From(0, 0)
        BY FromIs
      <3>3. view.links \in Nat
        BY DEF SessionInv
      <3>4. \E k \in Nat : FirstLinks(view.links) = [i \in 1 .. k |-> i]
        BY <3>3, SessionAssumption DEF FirstLinks
      <3> QED
        BY <3>1, <3>2, <3>4, CountedFrom
    <2>4. PICK k \in Nat : offered' = From(0, k)
      BY <2>3
    <2>5. Clicking(offered', clicked', todo', Address[web'.doc], began', command')
      <3>1. << >> = From(0, 0) /\ k - 0 = k /\ 0 <= k /\ 0 \in Nat
        BY FromIs
      <3>2. clicked' = From(0, 0) /\ todo' = From(0, k - 0) /\ Address[web'.doc] = began'
        BY <2>1, <2>2, <2>4, <3>1
      <3> QED
        BY <2>4, <3>1, <3>2, Zenon DEF Clicking
    <2>6. presses' = << >> /\ \E S : presses' \in Seq(S)
      BY <2>1, <2>2
    <2> QED
      BY <1>0, <2>1, <2>2, <2>5, <2>6 DEF SessionInv, Early
  <1>8. CASE click
    <2>1. /\ Opens /\ stage = "click" /\ stage' = "click" /\ UNCHANGED <<command, report, began>>
          /\ todo # << >> /\ Presses("links", view.doc)
          /\ clicked' = Append(clicked, Head(todo))
          /\ todo' = IF Address[web'.doc] = began THEN Tail(todo) ELSE << >>
          /\ UNCHANGED <<offered, probed, skipped, controls>>
      BY <1>8 DEF click, Goes, StaysThere
    <2>2. /\ Clicking(offered, clicked, todo, Address[web.doc], began, command)
          /\ probed = << >> /\ skipped = << >> /\ controls = 0 /\ report = {}
      BY <1>1, <2>1 DEF SessionInv
    <2>3. /\ Address[web.doc] = began
          /\ Clicking(offered, Append(clicked, Head(todo)),
                      IF Address[web'.doc] = began THEN Tail(todo) ELSE << >>,
                      Address[web'.doc], began, command)
      <3>1. command = "live-open"
        BY <2>1 DEF Opens
      <3>2. PICK there : there = Address[web'.doc]
        OBVIOUS
      <3>3. PICK at : at = Address[web.doc]
        OBVIOUS
      <3>4. Clicking(offered, clicked, todo, at, began, command) /\ todo # << >>
        BY <2>1, <2>2, <3>3
      <3>5. /\ at = began
            /\ Clicking(offered, Append(clicked, Head(todo)),
                        IF there = began THEN Tail(todo) ELSE << >>, there, began, command)
        BY <3>1, <3>4, ClickedOne, Zenon
      <3> QED
        BY <3>2, <3>3, <3>5
    <2>4. Clicking(offered', clicked', todo', Address[web'.doc], began', command')
      BY <2>1, <2>3
    <2>5. /\ \E S : presses' \in Seq(S)
          /\ \A i \in DOMAIN presses' : presses'[i].loop = "links" => Address[presses'[i].from] = began'
      BY <2>1, <2>3, PressesGrow
    <2> QED
      BY <1>0, <2>1, <2>2, <2>4, <2>5 DEF SessionInv, Early
  <1>9. CASE open_link
    <2>1. /\ ~Opens /\ stage = "click" /\ stage' = "click" /\ UNCHANGED <<command, report, began>>
          /\ todo # << >> /\ Presses("open", view.doc)
          /\ clicked' = Append(clicked, Head(todo)) /\ todo' = Tail(todo)
          /\ UNCHANGED <<offered, probed, skipped, controls>>
      BY <1>9 DEF open_link, Goes
    <2>2. /\ Clicking(offered, clicked, todo, Address[web.doc], began, command)
          /\ probed = << >> /\ skipped = << >> /\ controls = 0 /\ report = {}
      BY <1>1, <2>1 DEF SessionInv
    <2>3. Clicking(offered, Append(clicked, Head(todo)), Tail(todo), Address[web'.doc], began, command)
      <3>1. command # "live-open"
        BY <2>1 DEF Opens
      <3>2. PICK there : there = Address[web'.doc]
        OBVIOUS
      <3>3. PICK at : at = Address[web.doc]
        OBVIOUS
      <3>4. Clicking(offered, clicked, todo, at, began, command) /\ todo # << >>
        BY <2>1, <2>2, <3>3
      <3>5. Clicking(offered, Append(clicked, Head(todo)), Tail(todo), there, began, command)
        BY <3>1, <3>4, ClickedOne, Zenon
      <3> QED
        BY <3>2, <3>5
    <2>4. Clicking(offered', clicked', todo', Address[web'.doc], began', command')
      BY <2>1, <2>3
    <2>5. /\ \E S : presses' \in Seq(S)
          /\ \A i \in DOMAIN presses' : presses'[i].loop = "links" => Address[presses'[i].from] = began'
      BY <2>1, PressesGrow
    <2> QED
      BY <1>0, <2>1, <2>2, <2>4, <2>5 DEF SessionInv, Early
  <1>10. CASE control_snapshot
    <2>1. /\ Opens /\ stage = "click" /\ stage' = "probe" /\ UNCHANGED <<command, report, web>> /\ Kept
          /\ todo = << >> /\ UNCHANGED <<offered, clicked, probed, skipped>>
      BY <1>10 DEF control_snapshot, Goes, liveVars
    <2>2. PICK n \in Nat : todo' = [i \in 1 .. n |-> i] /\ controls' = n
      BY <1>10, SessionAssumption DEF control_snapshot
    <2>3. /\ Clicking(offered, clicked, todo, Address[web.doc], began, command)
          /\ probed = << >> /\ skipped = << >> /\ controls = 0 /\ report = {}
      BY <1>1, <2>1 DEF SessionInv
    <2>4. ClickedSome(offered, clicked) /\ (clicked # offered => Address[web.doc] # began)
      BY <2>1, <2>3, ClicksOver
    <2>5. ClickedSome(offered', clicked') /\ (clicked' # offered' => Opens' /\ Address[web'.doc] # began')
      BY <2>1, <2>4 DEF Opens
    <2>6. Probing(probed', skipped', todo', controls')
      <3>1. todo' = From(0, n) /\ controls' = n /\ 0 + n = n /\ 0 \in Nat
        BY <2>2, CountedFrom
      <3>2. /\ probed' = << >> /\ skipped' = << >> /\ << >> \in Seq(Nat) /\ ToSet(<< >>) = {}
            /\ Len(<< >>) + Len(<< >>) = 0 /\ 1 .. 0 = {}
        BY <2>1, <2>3 DEF ToSet
      <3>3. Accounted(probed', skipped', 0)
        BY <3>2 DEF Accounted
      <3> QED
        BY <3>1, <3>3, Zenon DEF Probing
    <2> QED
      BY <1>0, <1>2, <2>1, <2>3, <2>5, <2>6 DEF SessionInv, Early
  <1>11. CASE probe
    <2>1. /\ stage = "probe" /\ stage' = "probe" /\ UNCHANGED <<command, report, began>> /\ todo # << >>
          /\ todo' = Tail(todo) /\ UNCHANGED <<offered, clicked, controls>>
      BY <1>11 DEF probe, Goes
    <2>2. /\ Probing(probed, skipped, todo, controls) /\ ClickedSome(offered, clicked) /\ report = {}
          /\ clicked # offered => Opens
          /\ clicked # offered => Address[web.doc] # began \/ probed # << >>
      BY <1>1, <2>1 DEF SessionInv
    <2>3. CASE skipped' = Append(skipped, Head(todo)) /\ UNCHANGED <<liveVars, probed, presses>>
      <3>1. UNCHANGED <<web, probed>> /\ Kept
        BY <2>1, <2>3 DEF liveVars
      <3>2. Probing(probed', skipped', todo', controls')
        BY <2>1, <2>2, <2>3, <3>1, ProbedOne
      <3>4. /\ ClickedSome(offered', clicked')
            /\ clicked' # offered' => Opens' /\ (Address[web'.doc] # began' \/ probed' # << >>)
        BY <2>1, <2>2, <3>1 DEF Opens
      <3> QED
        BY <1>0, <1>2, <2>1, <2>2, <3>1, <3>2, <3>4 DEF SessionInv, Early
    <2>4. CASE Presses("controls", view.doc) /\ probed' = Append(probed, Head(todo)) /\ UNCHANGED skipped
      <3>1. Probing(probed', skipped', todo', controls') /\ probed' # << >>
        BY <2>1, <2>2, <2>4, ProbedOne
      <3>3. ClickedSome(offered', clicked') /\ (clicked' # offered' => Opens')
        BY <2>1, <2>2 DEF Opens
      <3>4. /\ \E S : presses' \in Seq(S)
            /\ \A i \in DOMAIN presses' : presses'[i].loop = "links" => Address[presses'[i].from] = began'
        BY <2>1, <2>4, PressesGrow
      <3> QED
        BY <1>0, <2>1, <2>2, <3>1, <3>3, <3>4 DEF SessionInv, Early
    <2> QED
      BY <1>11, <2>3, <2>4 DEF probe
  <1>12. CASE diagnostics
    <2>1. /\ stage = "probe" /\ stage' = "output" /\ final_url' = Address[web.doc] /\ Kept
          /\ UNCHANGED <<command, report, offered, clicked, probed, skipped, controls>> /\ todo = << >>
      BY <1>12 DEF diagnostics, Goes, loopVars
    <2>2. /\ Accounted(probed, skipped, controls) /\ ClickedSome(offered, clicked) /\ report = {}
          /\ clicked # offered => Opens
          /\ clicked # offered => Address[web.doc] # began \/ probed # << >>
      BY <1>1, <2>1, ProbesOver DEF SessionInv
    <2>3. /\ ClickedSome(offered', clicked') /\ Accounted(probed', skipped', controls')
          /\ clicked' # offered' => Opens' /\ (final_url' # began' \/ probed' # << >>)
      BY <2>1, <2>2 DEF Opens
    <2> QED
      BY <1>0, <1>2, <2>1, <2>2, <2>3 DEF SessionInv, Early
  <1>13. CASE output
    <2>1. /\ stage = "output" /\ stage' = "done" /\ report' = {Report} /\ Kept
          /\ UNCHANGED <<command, final_url, offered, clicked, probed, skipped, controls>>
      BY <1>13 DEF output, Goes, loopVars
    <2>2. Report' = Report
      BY <2>1 DEF Report
    <2>3. /\ ClickedSome(offered', clicked') /\ Accounted(probed', skipped', controls')
          /\ clicked' # offered' => Opens' /\ (final_url' # began' \/ probed' # << >>)
      BY <2>1 DEF SessionInv, Opens
    <2> QED
      BY <1>0, <1>2, <2>1, <2>2, <2>3 DEF SessionInv, Early
  <1>14. CASE search_output
    <2>1. /\ ~Opens /\ todo = << >> /\ stage = "click" /\ stage' = "done" /\ report' = {Report} /\ Kept
          /\ UNCHANGED <<command, final_url, offered, clicked, probed, skipped, controls>>
      BY <1>14 DEF search_output, Goes, loopVars
    <2>2. Report' = Report
      BY <2>1 DEF Report
    <2>3. /\ Clicking(offered, clicked, todo, Address[web.doc], began, command)
          /\ probed = << >> /\ skipped = << >> /\ controls = 0
      BY <2>1 DEF SessionInv
    <2>4. ClickedSome(offered, clicked) /\ clicked = offered
      BY <2>1, <2>3, ClicksOver DEF Opens
    <2>5. Accounted(probed', skipped', controls')
      <3>1. ToSet(<< >>) = {} /\ << >> \in Seq(Nat) /\ Len(<< >>) + Len(<< >>) = 0 /\ 1 .. 0 = {}
        BY DEF ToSet
      <3> QED
        BY <2>1, <2>3, <3>1 DEF Accounted
    <2>6. ClickedSome(offered', clicked') /\ clicked' = offered'
      BY <2>1, <2>4
    <2> QED
      BY <1>0, <1>2, <2>1, <2>2, <2>5, <2>6 DEF SessionInv, Early
  <1> QED
    BY <1>4, <1>5, <1>6, <1>7, <1>8, <1>9, <1>10, <1>11, <1>12, <1>13, <1>14 DEF SessionNext

(* What live-open and live-search report is what they did, in an order and   *)
(* on a page they checked, and the pages of a listing miss and repeat no     *)
(* link that fits (run_live_open, run_live_search, bounded_string_page).     *)
THEOREM ReportsAlwaysAddUp == Spec => []ReportsAddUp
  <1>1. Init => SessionInv /\ ListingInv
    <2> SUFFICES ASSUME Init PROVE SessionInv /\ ListingInv
      OBVIOUS
    <2>1. /\ stage = "startup" /\ presses = << >> /\ clicked = << >> /\ probed = << >>
          /\ skipped = << >> /\ controls = 0 /\ report = {} /\ view = [doc |-> 0, links |-> 0]
          /\ listing = [links |-> << >>, cursor |-> 0, max_bytes |-> 0, got |-> << >>, done |-> FALSE]
      BY DEF Init, SessionInit
    <2>2. SessionInv
      BY <2>1 DEF SessionInv, Early
    <2>3. ListingInv
      <3>1. ToSet(<< >>) = {} /\ << >> \in Seq(Nat) /\ Len(<< >>) = 0 /\ DOMAIN << >> = {}
        BY DEF ToSet
      <3> QED
        BY <2>1, <3>1 DEF ListingInv
    <2> QED
      BY <2>2, <2>3
  <1>2. SessionInv /\ ListingInv /\ [Next]_vars => (SessionInv /\ ListingInv)'
    <2> SUFFICES ASSUME SessionInv, ListingInv, [Next]_vars PROVE (SessionInv /\ ListingInv)'
      OBVIOUS
    <2>1. UNCHANGED listVars => ListingInv'
      BY DEF ListingInv, listVars
    <2>2. ASSUME UNCHANGED <<sessionVars, part>>, UNCHANGED web \/ part # "session" PROVE SessionInv'
      <3>1. UNCHANGED <<stage, presses, began, clicked, probed, skipped, offered, todo, controls, command,
                        final_url, report, view>>
        BY <2>2 DEF sessionVars
      <3>2. UNCHANGED <<part, Report, Opens>>
        BY <2>2, <3>1 DEF Report, Opens
      <3>3. CASE UNCHANGED web
        BY <3>1, <3>2, <3>3 DEF SessionInv
      <3>4. CASE part # "session"
        BY <3>1, <3>2, <3>4 DEF SessionInv, Early
      <3> QED
        BY <2>2, <3>3, <3>4
    <2>3. CASE UNCHANGED vars
      BY <2>1, <2>2, <2>3 DEF vars, liveVars
    <2>4. CASE /\ part \in {"load", "evaluate", "idle", "observe"} /\ UNCHANGED part
               /\ UNCHANGED <<sessionVars, listVars>>
      BY <2>1, <2>2, <2>4
    <2>5. CASE part = "session" /\ SessionNext /\ UNCHANGED <<part, listVars>>
      BY <2>1, <2>5, SessionSteps
    <2>6. CASE part = "listing" /\ ListNext /\ UNCHANGED part
      <3>1. UNCHANGED sessionVars
        BY <2>6 DEF ListNext, list_links, bounded_string_page
      <3> QED
        BY <2>2, <2>6, <3>1, ListingSteps
    <2>7. CASE UNCHANGED <<part, liveVars, sessionVars, listVars>>
      BY <2>1, <2>2, <2>7 DEF liveVars
    <2> QED
      BY <2>3, <2>4, <2>5, <2>6, <2>7 DEF Next
  <1>3. SessionInv /\ ListingInv => ReportsAddUp
    <2> SUFFICES ASSUME SessionInv, ListingInv PROVE ReportsAddUp
      OBVIOUS
    <2>1. ASSUME NEW r \in report
          PROVE  /\ IsPrefix(r.clicked, r.offered)
                 /\ r.clicked # r.offered => Opens /\ (r.final_url # began \/ r.probed # << >>)
                 /\ ToSet(r.probed) \cup ToSet(r.skipped) = 1 .. controls
                 /\ Len(r.probed) + Len(r.skipped) = controls
      <3>1. r = Report /\ stage = "done"
        BY <2>1 DEF SessionInv
      <3>2. /\ r.clicked = clicked /\ r.offered = offered /\ r.probed = probed /\ r.skipped = skipped
            /\ r.final_url = final_url
        BY <3>1 DEF Report
      <3>3. /\ ClickedSome(offered, clicked) /\ Accounted(probed, skipped, controls)
            /\ clicked # offered => Opens /\ (final_url # began \/ probed # << >>)
        BY <3>1 DEF SessionInv
      <3> QED
        BY <3>2, <3>3, ClickedPrefix DEF Accounted
    <2>2. ReportAddsUp
      BY <2>1 DEF ReportAddsUp, SessionInv
    <2> QED
      BY <2>2, ListingAddsUp DEF ReportsAddUp
  <1> QED
    BY <1>1, <1>2, <1>3, PTL DEF Spec
=============================================================================
