---------------------------- MODULE ServerProofs ----------------------------
(***************************************************************************)
(* Proofs about the long-running HTTP server and the engine it shares       *)
(* between the hosts.                                                       *)
(***************************************************************************)
EXTENDS Server, FiniteSetTheorems, TLAPS

(* What the engine keeps: ids are counted up and never reused.               *)
EngineInv ==
    /\ next_context \in Nat /\ next_page \in Nat
    /\ DOMAIN contexts \subseteq 1 .. next_context
    /\ DOMAIN pages \subseteq 1 .. next_page
    /\ \A p \in DOMAIN pages : DOMAIN pages[p] = {"url", "generation", "snapshot_id", "inputs"}
    /\ LiveNeedsRuntime

(* The session of one host.                                                  *)
SessionSound(h) ==
    LET s == sessions[h]
    IN /\ DOMAIN s = {"context", "page", "last_used", "fingerprint"}
       /\ s.page \in DOMAIN pages /\ s.context \in DOMAIN contexts
       /\ contexts[s.context].identity = s.fingerprint
       /\ contexts[s.context].real => s.page \in real_pages
       /\ pages[s.page].url \in {Blank, h}

(* Two hosts share nothing.                                                  *)
SessionsApart(g, h) ==
    sessions[g].page # sessions[h].page /\ sessions[g].context # sessions[h].context

(* Sessions have pages of their own, of contexts with their fingerprint.     *)
SessionsInv ==
    /\ IsFiniteSet(DOMAIN sessions) /\ active_domains = Cardinality(DOMAIN sessions)
    /\ \A h \in DOMAIN sessions : SessionSound(h)
    /\ \A g, h \in DOMAIN sessions : g # h => SessionsApart(g, h)

(* Where a request works on a session.                                       *)
Pinned == {"navigate", "dispatch", "settle", "snapshot", "solve", "resnapshot"}

(* What the accept-loop thread may rely on from one engine call to the next. *)
RequestInv ==
    /\ pc \in Working =>
          DOMAIN req = {"kind", "host", "fingerprint", "events", "page", "context"}
    /\ pc \in {"create_context", "create_page"} => req.host \notin DOMAIN sessions
    /\ pc = "create_page" =>
          /\ req.context \in DOMAIN contexts
          /\ contexts[req.context].identity = FingerprintOf(req)
          /\ \A h \in DOMAIN sessions : sessions[h].context # req.context
    /\ pc \in Pinned =>
          /\ req.host \in DOMAIN sessions
          /\ sessions[req.host].page = req.page
          /\ sessions[req.host].fingerprint = FingerprintOf(req)

(* Engine, sessions and request together.                                    *)
ServerInv == EngineInv /\ SessionsInv /\ RequestInv

(* The part of the inductive invariant that the run checks.                  *)
LEMMA ServerInvHolds == ServerInv => HostSessionsHold
  <1> SUFFICES ASSUME ServerInv PROVE HostSessionsHold
    OBVIOUS
  <1>1. HostSessionsExact
    BY DEF ServerInv, SessionsInv, SessionSound, SessionsApart, HostSessionsExact
  <1>2. RequestPinned
    BY DEF ServerInv, SessionsInv, SessionSound, RequestInv, RequestPinned, Working, Pinned, FingerprintOf
  <1> QED
    BY <1>1, <1>2 DEF ServerInv, EngineInv, HostSessionsHold
-----------------------------------------------------------------------------
(* The engine's operations *)

(* No call takes a context or a page away, and none touches another page.    *)
OnlyPage(p0) ==
    /\ \A c \in DOMAIN contexts : c \in DOMAIN contexts' /\ contexts'[c] = contexts[c]
    /\ real_pages \subseteq real_pages'
    /\ \A p \in DOMAIN pages : p \in DOMAIN pages' /\ (p # p0 => pages'[p] = pages[p])

(* A new context has a fresh id; a failed call leaves no context behind.     *)
LEMMA ContextCreated ==
    ASSUME EngineInv, NEW o, create_context(o)
    PROVE  /\ EngineInv' /\ OnlyPage(0) /\ UNCHANGED pages
           /\ reply'.ok => /\ reply'.value \notin DOMAIN contexts /\ reply'.value \in DOMAIN contexts'
                           /\ contexts'[reply'.value] = o
  <1>1. CASE /\ UNCHANGED <<contexts, real_runtime>> /\ (opts_set => opts_set') /\ reply'.ok = FALSE
             /\ next_context' \in {next_context, next_context + 1}
    <2>1. next_context' \in Nat /\ DOMAIN contexts' \subseteq 1 .. next_context' /\ UNCHANGED <<pages, next_page, real_pages>>
      BY <1>1 DEF EngineInv, create_context
    <2>2. LiveNeedsRuntime'
      <3>1. UNCHANGED feature
        BY DEF create_context
      <3> QED
        BY <1>1, <2>1, <3>1 DEF EngineInv, LiveNeedsRuntime
    <2> QED
      BY <1>1, <2>1, <2>2 DEF EngineInv, OnlyPage
  <1>2. CASE /\ next_context' = next_context + 1 /\ contexts' = Insert(contexts, next_context + 1, o)
             /\ reply' = Ok(next_context + 1)
    <2>1. /\ next_context' \in Nat /\ DOMAIN contexts' \subseteq 1 .. next_context' /\ UNCHANGED <<pages, next_page, real_pages>>
          /\ next_context + 1 \notin DOMAIN contexts /\ reply'.value = next_context + 1
          /\ DOMAIN contexts' = DOMAIN contexts \cup {next_context + 1}
          /\ \A c \in DOMAIN contexts : contexts'[c] = contexts[c]
          /\ contexts'[next_context + 1] = o
      BY <1>2 DEF EngineInv, create_context, Insert, Ok
    <2>2. LiveNeedsRuntime'
      BY <1>2, <2>1, ZenonT(60) DEF EngineInv, LiveNeedsRuntime, create_context, ConstructServo, Err, Ok
    <2> QED
      BY <1>2, <2>1, <2>2 DEF EngineInv, OnlyPage
  <1>3. (\E e : reply' = Err(e)) => reply'.ok = FALSE
    BY DEF Err
  <1>4. ConstructServo(FALSE) => (opts_set => opts_set')
    BY DEF ConstructServo
  <1>5. \/ /\ UNCHANGED <<contexts, real_runtime>> /\ (opts_set => opts_set') /\ \E e : reply' = Err(e)
           /\ next_context' \in {next_context, next_context + 1}
        \/ /\ next_context' = next_context + 1 /\ contexts' = Insert(contexts, next_context + 1, o)
           /\ reply' = Ok(next_context + 1)
    BY <1>4 DEF create_context
  <1> QED
    BY <1>1, <1>2, <1>3, <1>5

(* A new page has a fresh id and is blank.                                   *)
LEMMA PageCreated ==
    ASSUME EngineInv, NEW c, create_page(c)
    PROVE  /\ EngineInv' /\ OnlyPage(0) /\ UNCHANGED contexts
           /\ \A p \in DOMAIN pages : pages'[p] = pages[p]
           /\ reply'.ok => /\ c \in DOMAIN contexts
                           /\ reply'.value \notin DOMAIN pages /\ reply'.value \in DOMAIN pages'
                           /\ pages'[reply'.value].url = Blank
                           /\ contexts[c].real => reply'.value \in real_pages'
  <1>1. CASE c \notin DOMAIN contexts
    BY <1>1 DEF create_page, EngineInv, LiveNeedsRuntime, OnlyPage, Err
  <1>2. CASE c \in DOMAIN contexts
    <2>1. /\ next_page' = next_page + 1 /\ UNCHANGED <<contexts, next_context>>
          /\ DOMAIN pages' = DOMAIN pages \cup {next_page + 1} /\ next_page + 1 \notin DOMAIN pages
          /\ \A p \in DOMAIN pages : pages'[p] = pages[p]
          /\ pages'[next_page + 1] = NewPage
      BY <1>2 DEF create_page, EngineInv, Insert
    <2>2. \/ reply'.ok = FALSE /\ real_pages' = real_pages /\ contexts[c].real
          \/ /\ reply'.ok = TRUE /\ reply'.value = next_page + 1
             /\ real_pages' = real_pages \cup (IF contexts[c].real THEN {next_page + 1} ELSE {})
      BY <1>2 DEF create_page, Ok, Err
    <2>3. LiveNeedsRuntime'
      BY <1>2, <2>2 DEF create_page, EngineInv, LiveNeedsRuntime
    <2>4. EngineInv'
      BY <2>1, <2>3 DEF EngineInv, NewPage
    <2> QED
      BY <1>2, <2>1, <2>2, <2>4 DEF OnlyPage, NewPage
  <1> QED
    BY <1>1, <1>2

(* navigate sends its own page to the URL.                                   *)
LEMMA Navigated ==
    ASSUME EngineInv, NEW p, NEW url, navigate(p, url)
    PROVE  /\ EngineInv' /\ OnlyPage(p)
           /\ \A q \in DOMAIN pages : pages'[q].url = pages[q].url \/ (q = p /\ pages'[q].url = url)
  <1>2. UNCHANGED <<contexts, next_context, next_page, real_runtime, real_pages, feature, opts_set>>
    BY DEF navigate
  <1>3. LiveNeedsRuntime'
    BY <1>2 DEF EngineInv, LiveNeedsRuntime
  <1>4. CASE UNCHANGED pages
    BY <1>2, <1>3, <1>4 DEF EngineInv, OnlyPage
  <1>5. CASE p \in DOMAIN pages /\ pages' = [pages EXCEPT ![p].snapshot_id = next_snapshot + 1, ![p].url = url,
                                                         ![p].generation = @ + 1]
    <2>1. /\ DOMAIN pages' = DOMAIN pages /\ \A q \in DOMAIN pages \ {p} : pages'[q] = pages[q]
          /\ DOMAIN pages'[p] = {"url", "generation", "snapshot_id", "inputs"} /\ pages'[p].url = url
      BY <1>5 DEF EngineInv
    <2>2. EngineInv' /\ OnlyPage(p)
      BY <1>2, <1>3, <1>5, <2>1 DEF EngineInv, OnlyPage
    <2> QED
      BY <2>1, <2>2
  <1> QED
    BY <1>4, <1>5 DEF navigate

(* dispatch_input leaves the URL to the page.                                *)
LEMMA InputDispatched ==
    ASSUME EngineInv, NEW p, dispatch_input(p)
    PROVE  EngineInv' /\ OnlyPage(p) /\ \A q \in DOMAIN pages : pages'[q].url = pages[q].url
  <1>2. UNCHANGED <<contexts, next_context, next_page, real_runtime, real_pages, feature, opts_set>>
    BY DEF dispatch_input
  <1>3. LiveNeedsRuntime'
    BY <1>2 DEF EngineInv, LiveNeedsRuntime
  <1>4. CASE UNCHANGED pages
    BY <1>2, <1>3, <1>4 DEF EngineInv, OnlyPage
  <1>5. CASE p \in DOMAIN pages /\ pages' = [pages EXCEPT ![p].inputs = @ + 1]
    <2>1. /\ DOMAIN pages' = DOMAIN pages /\ \A q \in DOMAIN pages \ {p} : pages'[q] = pages[q]
          /\ DOMAIN pages'[p] = {"url", "generation", "snapshot_id", "inputs"}
          /\ pages'[p].url = pages[p].url
      BY <1>5 DEF EngineInv
    <2> QED
      BY <1>2, <1>3, <1>5, <2>1 DEF EngineInv, OnlyPage
  <1> QED
    BY <1>4, <1>5 DEF dispatch_input

(* A call that only reads.                                                   *)
LEMMA OnlyRead ==
    ASSUME EngineInv,
           UNCHANGED <<feature, next_context, next_page, contexts, pages, real_runtime, real_pages, opts_set>>
    PROVE  EngineInv' /\ OnlyPage(0) /\ \A q \in DOMAIN pages : pages'[q].url = pages[q].url
  <1>1. LiveNeedsRuntime'
    BY DEF EngineInv, LiveNeedsRuntime
  <1> QED
    BY <1>1 DEF EngineInv, OnlyPage
-----------------------------------------------------------------------------
(* The sessions and the request *)

(* What HostsDontInterfere says of one step.                                 *)
OthersStay ==
    \A h \in DOMAIN sessions :
       pc \in Working /\ h # req.host
          => /\ h \in DOMAIN sessions' /\ sessions'[h] = sessions[h]
             /\ pages'[sessions[h].page] = pages[sessions[h].page]

(* An engine call that sends pages nowhere but to their host.                *)
LEMMA SessionsKept ==
    ASSUME SessionsInv, UNCHANGED <<sessions, active_domains>>, NEW p0, OnlyPage(p0),
           \A h \in DOMAIN sessions : pages'[sessions[h].page].url \in {Blank, h}
    PROVE  SessionsInv'
  <1>1. ASSUME NEW h \in DOMAIN sessions PROVE SessionSound(h)'
    <2>1. SessionSound(h)
      BY DEF SessionsInv
    <2> QED
      BY <2>1 DEF SessionSound, OnlyPage
  <1>2. ASSUME NEW g \in DOMAIN sessions, NEW h \in DOMAIN sessions, g # h PROVE SessionsApart(g, h)'
    BY <1>2 DEF SessionsInv, SessionsApart
  <1> QED
    BY <1>1, <1>2 DEF SessionsInv

(* A step of a handler on the page of its session.                           *)
LEMMA PageWork ==
    ASSUME ServerInv, pc \in Pinned, OnlyThread, EngineInv', NEW p0 \in {0, req.page}, OnlyPage(p0),
           \A q \in DOMAIN pages : pages'[q].url = pages[q].url \/ (q = req.page /\ pages'[q].url = req.host),
           \/ pc' = "accept"
           \/ /\ pc' \in Pinned /\ DOMAIN req' = DOMAIN req /\ req'.host = req.host /\ req'.kind = req.kind
              /\ req'.page = req.page /\ req'.fingerprint = req.fingerprint
    PROVE  ServerInv' /\ OthersStay
  <1>1. /\ DOMAIN req = {"kind", "host", "fingerprint", "events", "page", "context"}
        /\ req.host \in DOMAIN sessions /\ sessions[req.host].page = req.page
        /\ sessions[req.host].fingerprint = FingerprintOf(req)
    BY DEF ServerInv, RequestInv, Pinned, Working
  <1>2. UNCHANGED <<sessions, active_domains, config>>
    BY DEF OnlyThread
  <1>3. ASSUME NEW h \in DOMAIN sessions
        PROVE  /\ sessions[h].page \in DOMAIN pages /\ 0 \notin DOMAIN pages
               /\ pages[sessions[h].page].url \in {Blank, h}
               /\ h # req.host => sessions[h].page # req.page
    BY <1>1 DEF ServerInv, SessionsInv, SessionSound, SessionsApart, EngineInv
  <1>4. SessionsInv'
    <2>1. ASSUME NEW h \in DOMAIN sessions PROVE pages'[sessions[h].page].url \in {Blank, h}
      BY <1>3
    <2> QED
      BY <1>2, <2>1, SessionsKept DEF ServerInv
  <1>5. RequestInv'
    <2>1. CASE pc' = "accept"
      BY <2>1 DEF RequestInv, Working, Pinned
    <2>2. CASE /\ pc' \in Pinned /\ DOMAIN req' = DOMAIN req /\ req'.host = req.host /\ req'.kind = req.kind
               /\ req'.page = req.page /\ req'.fingerprint = req.fingerprint
      <3>1. FingerprintOf(req)' = FingerprintOf(req)
        BY <1>2, <2>2 DEF FingerprintOf
      <3>2. pc' \notin {"create_context", "create_page"}
        BY <2>2 DEF Pinned
      <3> QED
        BY <1>1, <1>2, <2>2, <3>1, <3>2 DEF RequestInv
    <2> QED
      BY <2>1, <2>2
  <1>6. OthersStay
    <2>1. ASSUME NEW h \in DOMAIN sessions, h # req.host
          PROVE  pages'[sessions[h].page] = pages[sessions[h].page]
      BY <1>3, <2>1 DEF OnlyPage
    <2> QED
      BY <1>2, <2>1 DEF OthersStay
  <1> QED
    BY <1>4, <1>5, <1>6 DEF ServerInv

(* The handlers, from the session they were given to their answer.           *)
LEMMA HandlerSteps ==
    ASSUME ServerInv,
           Navigate \/ DispatchEvent \/ Settle \/ Snapshot \/ SolveEvent \/ SolveDone \/ Resnapshot
    PROVE  ServerInv' /\ OthersStay
  <1>1. EngineInv /\ (pc \in Pinned =>
             DOMAIN req = {"kind", "host", "fingerprint", "events", "page", "context"})
    BY DEF ServerInv, RequestInv, Pinned, Working
  <1>2. ASSUME NEW next \in Pinned, Proceed(next)
        PROVE  \/ pc' = "accept"
               \/ /\ pc' \in Pinned /\ DOMAIN req' = DOMAIN req /\ req'.host = req.host /\ req'.kind = req.kind
                  /\ req'.page = req.page /\ req'.fingerprint = req.fingerprint
    BY <1>2 DEF Proceed, Respond
  <1>3. CASE Navigate
    <2>1. pc \in Pinned /\ OnlyThread /\ "settle" \in Pinned
      BY <1>3 DEF Navigate, Pinned
    <2> QED
      BY <1>1, <1>2, <1>3, <2>1, Navigated, PageWork DEF Navigate
  <1>4. CASE DispatchEvent
    <2>1. pc \in Pinned /\ OnlyThread
      BY <1>4 DEF DispatchEvent, Pinned
    <2>2. \/ pc' = "accept"
          \/ /\ pc' \in Pinned /\ DOMAIN req' = DOMAIN req /\ req'.host = req.host /\ req'.kind = req.kind
             /\ req'.page = req.page /\ req'.fingerprint = req.fingerprint
      BY <1>1, <1>4 DEF DispatchEvent, Respond, Pinned
    <2> QED
      BY <1>1, <1>4, <2>1, <2>2, InputDispatched, PageWork DEF DispatchEvent
  <1>5. CASE Settle \/ Snapshot \/ Resnapshot
    <2>1. pc \in Pinned /\ OnlyThread
      BY <1>5 DEF Settle, Snapshot, Resnapshot, Pinned
    <2>2. \/ pc' = "accept"
          \/ /\ pc' \in Pinned /\ DOMAIN req' = DOMAIN req /\ req'.host = req.host /\ req'.kind = req.kind
             /\ req'.page = req.page /\ req'.fingerprint = req.fingerprint
      BY <1>2, <1>5 DEF Settle, Snapshot, Resnapshot, Respond, Pinned
    <2>3. UNCHANGED <<feature, next_context, next_page, contexts, pages, real_runtime, real_pages, opts_set>>
      BY <1>5 DEF Settle, Snapshot, Resnapshot, settle, snapshot
    <2> QED
      BY <1>1, <2>1, <2>2, <2>3, OnlyRead, PageWork
  <1>6. CASE SolveEvent
    <2>1. pc \in Pinned /\ OnlyThread /\ pc' = pc
      BY <1>6 DEF SolveEvent, Pinned
    <2>2. /\ DOMAIN req' = DOMAIN req /\ req'.host = req.host /\ req'.kind = req.kind
          /\ req'.page = req.page /\ req'.fingerprint = req.fingerprint
      BY <1>1, <1>6, <2>1 DEF SolveEvent
    <2> QED
      BY <1>1, <1>6, <2>1, <2>2, InputDispatched, PageWork DEF SolveEvent
  <1>7. CASE SolveDone
    <2>1. pc \in Pinned /\ OnlyThread /\ UNCHANGED engineVars
      BY <1>7 DEF SolveDone, Pinned
    <2>2. \/ pc' = "accept"
          \/ pc' \in Pinned /\ req' = req
      BY <1>7 DEF SolveDone, Respond, Pinned
    <2> QED
      BY <1>1, <2>1, <2>2, OnlyRead, PageWork DEF engineVars
  <1> QED
    BY <1>3, <1>4, <1>5, <1>6, <1>7

(* A sweep, an eviction: some sessions go, the others stay as they are.      *)
LEMMA SessionsDropped ==
    ASSUME SessionsInv, DOMAIN sessions' \subseteq DOMAIN sessions,
           \A h \in DOMAIN sessions' : sessions'[h] = sessions[h],
           active_domains' = Cardinality(DOMAIN sessions'), UNCHANGED <<contexts, pages, real_pages>>
    PROVE  SessionsInv'
  <1>1. IsFiniteSet(DOMAIN sessions')
    BY FS_Subset DEF SessionsInv
  <1>2. ASSUME NEW h \in DOMAIN sessions' PROVE SessionSound(h)'
    <2>1. SessionSound(h) /\ sessions'[h] = sessions[h]
      BY DEF SessionsInv
    <2> QED
      BY <2>1 DEF SessionSound
  <1>3. ASSUME NEW g \in DOMAIN sessions', NEW h \in DOMAIN sessions', g # h PROVE SessionsApart(g, h)'
    BY <1>3 DEF SessionsInv, SessionsApart
  <1> QED
    BY <1>1, <1>2, <1>3 DEF SessionsInv

(* The engine is left alone.                                                 *)
LEMMA EngineKept == ASSUME EngineInv, UNCHANGED engineVars PROVE EngineInv' /\ UNCHANGED <<contexts, pages, real_pages>>
  BY OnlyRead DEF engineVars

(* get_or_create_domain, its look-up.                                        *)
LEMMA DomainLookedUp == ASSUME ServerInv, LookUpDomain PROVE ServerInv' /\ OthersStay
  <1> DEFINE h == req.host
  <1>1. /\ EngineInv' /\ UNCHANGED <<contexts, pages, real_pages, config>> /\ pc = "domain"
        /\ DOMAIN req = {"kind", "host", "fingerprint", "events", "page", "context"}
    BY EngineKept DEF ServerInv, LookUpDomain, RequestInv, Working
  <1>2. CASE h \in DOMAIN sessions /\ sessions[h].fingerprint = FingerprintOf(req)
    <2>1. /\ sessions' = [sessions EXCEPT ![h].last_used = now] /\ UNCHANGED active_domains
          /\ req' = [req EXCEPT !.page = sessions[h].page, !.context = sessions[h].context]
          /\ pc' \in {"dispatch", "navigate"}
      BY <1>2 DEF LookUpDomain
    <2>2. DOMAIN sessions[h] = {"context", "page", "last_used", "fingerprint"}
      BY <1>2 DEF ServerInv, SessionsInv, SessionSound
    <2>3. /\ DOMAIN sessions' = DOMAIN sessions /\ \A g \in DOMAIN sessions : g # h => sessions'[g] = sessions[g]
          /\ DOMAIN sessions'[h] = DOMAIN sessions[h] /\ sessions'[h].page = sessions[h].page
          /\ sessions'[h].context = sessions[h].context /\ sessions'[h].fingerprint = sessions[h].fingerprint
      BY <1>2, <2>1, <2>2
    <2>4. \A g \in DOMAIN sessions : /\ DOMAIN sessions'[g] = DOMAIN sessions[g]
                                     /\ sessions'[g].page = sessions[g].page
                                     /\ sessions'[g].context = sessions[g].context
                                     /\ sessions'[g].fingerprint = sessions[g].fingerprint
      BY <2>3
    <2>5. ASSUME NEW g \in DOMAIN sessions PROVE SessionSound(g)'
      <3>1. SessionSound(g)
        BY DEF ServerInv, SessionsInv
      <3> QED
        BY <1>1, <2>4, <3>1 DEF SessionSound
    <2>6. ASSUME NEW f \in DOMAIN sessions, NEW g \in DOMAIN sessions, f # g PROVE SessionsApart(f, g)'
      BY <2>4, <2>6 DEF ServerInv, SessionsInv, SessionsApart
    <2>7. SessionsInv'
      BY <2>1, <2>3, <2>5, <2>6 DEF ServerInv, SessionsInv
    <2>8. /\ DOMAIN req' = DOMAIN req /\ req'.host = req.host /\ req'.kind = req.kind
          /\ req'.fingerprint = req.fingerprint /\ req'.page = sessions[h].page
      BY <1>1, <2>1
    <2>9. FingerprintOf(req)' = FingerprintOf(req)
      BY <1>1, <2>8 DEF FingerprintOf
    <2>10. RequestInv'
      BY <1>1, <1>2, <2>1, <2>3, <2>8, <2>9 DEF RequestInv
    <2> QED
      BY <1>1, <2>3, <2>7, <2>10 DEF ServerInv, OthersStay
  <1>3. CASE ~(h \in DOMAIN sessions /\ sessions[h].fingerprint = FingerprintOf(req))
    <2>1. /\ sessions' = [k \in DOMAIN sessions \ {h} |-> sessions[k]]
          /\ active_domains' = active_domains - (IF h \in DOMAIN sessions THEN 1 ELSE 0)
          /\ pc' = "create_context" /\ UNCHANGED req
      BY <1>3 DEF LookUpDomain
    <2>2. DOMAIN sessions' = DOMAIN sessions \ {h} /\ \A g \in DOMAIN sessions' : sessions'[g] = sessions[g]
      BY <2>1
    <2>3. active_domains' = Cardinality(DOMAIN sessions')
      <3>1. /\ IsFiniteSet(DOMAIN sessions) /\ active_domains = Cardinality(DOMAIN sessions)
            /\ Cardinality(DOMAIN sessions) \in Nat
        BY FS_CardinalityType DEF ServerInv, SessionsInv
      <3>2. CASE h \in DOMAIN sessions
        BY <2>1, <2>2, <3>1, <3>2, FS_RemoveElement
      <3>3. CASE h \notin DOMAIN sessions
        <4>1. DOMAIN sessions' = DOMAIN sessions
          BY <2>2, <3>3
        <4> QED
          BY <2>1, <3>1, <3>3, <4>1
      <3> QED
        BY <3>2, <3>3
    <2>4. SessionsInv'
      BY <1>1, <2>2, <2>3, SessionsDropped DEF ServerInv
    <2>5. RequestInv'
      BY <1>1, <2>1, <2>2 DEF RequestInv, Pinned
    <2> QED
      BY <1>1, <2>2, <2>4, <2>5 DEF ServerInv, OthersStay
  <1> QED
    BY <1>2, <1>3

(* get_or_create_domain, its new context: no session has it yet.             *)
LEMMA ContextMade == ASSUME ServerInv, CreateContext PROVE ServerInv' /\ OthersStay
  <1>1. /\ EngineInv' /\ OnlyPage(0) /\ UNCHANGED pages
        /\ reply'.ok => /\ reply'.value \notin DOMAIN contexts /\ reply'.value \in DOMAIN contexts'
                        /\ contexts'[reply'.value] = ContextFor(req)
    BY ContextCreated DEF ServerInv, CreateContext
  <1>2. /\ UNCHANGED <<sessions, active_domains, config>> /\ req.host \notin DOMAIN sessions
        /\ DOMAIN req = {"kind", "host", "fingerprint", "events", "page", "context"}
    BY DEF CreateContext, ServerInv, RequestInv, Working
  <1>3. SessionsInv'
    <2>1. \A h \in DOMAIN sessions : pages'[sessions[h].page].url \in {Blank, h}
      BY <1>1 DEF ServerInv, SessionsInv, SessionSound
    <2> QED
      BY <1>1, <1>2, <2>1, SessionsKept DEF ServerInv
  <1>4. RequestInv'
    <2>1. CASE pc' = "accept"
      BY <2>1 DEF RequestInv, Working, Pinned
    <2>2. CASE reply'.ok /\ pc' = "create_page" /\ req' = [req EXCEPT !.context = reply'.value]
      <3>1. /\ DOMAIN req' = DOMAIN req /\ req'.host = req.host /\ req'.kind = req.kind
            /\ req'.fingerprint = req.fingerprint /\ req'.context = reply'.value
        BY <1>2, <2>2
      <3>2. FingerprintOf(req)' = FingerprintOf(req)
        BY <1>2, <3>1 DEF FingerprintOf
      <3>3. contexts'[req'.context].identity = FingerprintOf(req)
        BY <1>1, <2>2, <3>1 DEF ContextFor
      <3>4. \A h \in DOMAIN sessions : sessions[h].context # reply'.value
        BY <1>1, <2>2 DEF ServerInv, SessionsInv, SessionSound
      <3> QED
        BY <1>1, <1>2, <2>2, <3>1, <3>2, <3>3, <3>4 DEF RequestInv, Pinned
    <2> QED
      BY <2>1, <2>2 DEF CreateContext, Respond
  <1> QED
    BY <1>1, <1>2, <1>3, <1>4 DEF ServerInv, OthersStay

(* get_or_create_domain, its new page and the session for both.              *)
LEMMA PageMade == ASSUME ServerInv, CreatePage PROVE ServerInv' /\ OthersStay
  <1>0. PICK c, h : c = req.context /\ h = req.host
    OBVIOUS
  <1>1. /\ EngineInv' /\ OnlyPage(0) /\ UNCHANGED contexts
        /\ \A p \in DOMAIN pages : pages'[p] = pages[p]
        /\ reply'.ok => /\ c \in DOMAIN contexts
                        /\ reply'.value \notin DOMAIN pages /\ reply'.value \in DOMAIN pages'
                        /\ pages'[reply'.value].url = Blank
                        /\ contexts[c].real => reply'.value \in real_pages'
    BY <1>0, PageCreated DEF ServerInv, CreatePage
  <1>2. /\ UNCHANGED config /\ h \notin DOMAIN sessions
        /\ DOMAIN req = {"kind", "host", "fingerprint", "events", "page", "context"}
        /\ contexts[c].identity = FingerprintOf(req) /\ \A g \in DOMAIN sessions : sessions[g].context # c
    BY <1>0 DEF CreatePage, ServerInv, RequestInv, Working
  <1>3. \A g \in DOMAIN sessions : /\ sessions[g].page \in DOMAIN pages
                                   /\ pages'[sessions[g].page] = pages[sessions[g].page]
                                   /\ pages'[sessions[g].page].url \in {Blank, g}
    BY <1>1 DEF ServerInv, SessionsInv, SessionSound
  <1>4. CASE pc' = "accept" /\ UNCHANGED <<active_domains, sessions>>
    <2>1. SessionsInv'
      BY <1>1, <1>3, <1>4, SessionsKept DEF ServerInv
    <2>2. RequestInv'
      BY <1>4 DEF RequestInv, Working, Pinned
    <2> QED
      BY <1>1, <1>3, <1>4, <2>1, <2>2 DEF ServerInv, OthersStay
  <1>5. CASE /\ reply'.ok /\ active_domains' = active_domains + 1
             /\ sessions' = Insert(sessions, h, [context |-> c, page |-> reply'.value, last_used |-> now,
                                                 fingerprint |-> FingerprintOf(req)])
             /\ req' = [req EXCEPT !.page = reply'.value] /\ pc' \in {"dispatch", "navigate"}
    <2>1. /\ DOMAIN sessions' = DOMAIN sessions \cup {h} /\ \A g \in DOMAIN sessions : sessions'[g] = sessions[g]
          /\ DOMAIN sessions'[h] = {"context", "page", "last_used", "fingerprint"}
          /\ sessions'[h].context = c /\ sessions'[h].page = reply'.value
          /\ sessions'[h].fingerprint = FingerprintOf(req)
      BY <1>2, <1>5 DEF Insert
    <2>2. IsFiniteSet(DOMAIN sessions') /\ active_domains' = Cardinality(DOMAIN sessions')
      <3>1. IsFiniteSet(DOMAIN sessions) /\ active_domains = Cardinality(DOMAIN sessions)
        BY DEF ServerInv, SessionsInv
      <3> QED
        BY <1>2, <1>5, <2>1, <3>1, FS_AddElement
    <2>3. ASSUME NEW g \in DOMAIN sessions PROVE SessionSound(g)' /\ SessionsApart(g, h)' /\ SessionsApart(h, g)'
      <3>1. SessionSound(g) /\ g # h
        BY <1>2 DEF ServerInv, SessionsInv
      <3>2. SessionSound(g)'
        BY <1>1, <1>3, <2>1, <3>1 DEF SessionSound, OnlyPage
      <3>3. sessions'[g].page # sessions'[h].page /\ sessions'[g].context # sessions'[h].context
        BY <1>1, <1>2, <1>3, <1>5, <2>1
      <3> QED
        BY <3>2, <3>3 DEF SessionsApart
    <2>4. SessionSound(h)'
      BY <1>1, <1>2, <1>5, <2>1 DEF SessionSound
    <2>5. ASSUME NEW f \in DOMAIN sessions, NEW g \in DOMAIN sessions, f # g PROVE SessionsApart(f, g)'
      BY <2>1, <2>5 DEF ServerInv, SessionsInv, SessionsApart
    <2>6. SessionsInv'
      BY <2>1, <2>2, <2>3, <2>4, <2>5 DEF SessionsInv
    <2>7. /\ DOMAIN req' = DOMAIN req /\ req'.host = req.host /\ req'.kind = req.kind
          /\ req'.fingerprint = req.fingerprint /\ req'.page = reply'.value
      BY <1>2, <1>5
    <2>8. FingerprintOf(req)' = FingerprintOf(req)
      BY <1>2, <2>7 DEF FingerprintOf
    <2>9. RequestInv'
      BY <1>0, <1>2, <1>5, <2>1, <2>7, <2>8 DEF RequestInv
    <2> QED
      BY <1>0, <1>1, <1>3, <2>1, <2>6, <2>9 DEF ServerInv, OthersStay
  <1> QED
    BY <1>0, <1>4, <1>5 DEF CreatePage, Respond

(* Every step of the server's threads.                                       *)
LEMMA ServerSteps == ServerInv /\ [Next]_vars => ServerInv' /\ OthersStay
  <1> SUFFICES ASSUME ServerInv, [Next]_vars PROVE ServerInv' /\ OthersStay
    OBVIOUS
  <1>1. CASE UNCHANGED <<engineVars, config, active_domains, sessions, pc, req>>
    <2>1. EngineInv' /\ UNCHANGED <<contexts, pages, real_pages>>
      BY <1>1, EngineKept DEF ServerInv
    <2>2. SessionsInv'
      BY <1>1, <2>1, SessionsDropped DEF ServerInv, SessionsInv
    <2>3. RequestInv'
      BY <1>1, <2>1 DEF ServerInv, RequestInv, FingerprintOf
    <2> QED
      BY <1>1, <2>1, <2>2, <2>3 DEF ServerInv, OthersStay
  <1>2. ASSUME NEW ok, Accept(ok), ~should_exit PROVE ServerInv' /\ OthersStay
    <2>1. EngineInv' /\ UNCHANGED <<contexts, pages, real_pages>>
      BY <1>2, EngineKept DEF ServerInv, Accept
    <2>2. /\ DOMAIN sessions' \subseteq DOMAIN sessions
          /\ \A h \in DOMAIN sessions' : sessions'[h] = sessions[h]
          /\ active_domains' = Cardinality(DOMAIN sessions')
      BY <1>2 DEF Accept, idle_sweep
    <2>3. pc = "accept" /\ pc' \in {"accept", "read"}
      BY <1>2 DEF Accept
    <2>4. SessionsInv'
      BY <2>1, <2>2, SessionsDropped DEF ServerInv
    <2>5. RequestInv' /\ OthersStay
      BY <2>3 DEF RequestInv, OthersStay, Working, Pinned
    <2> QED
      BY <2>1, <2>4, <2>5 DEF ServerInv
  <1>3. CASE Reject \/ \E r \in [kind : Kinds, host : Urls, fingerprint : Identities \cup {None},
                                 events : {0, MaxEvents}, page : {0}, context : {0}] : Dispatch(r)
    <2>1. UNCHANGED <<engineVars, active_domains, sessions>> /\ pc = "read"
      BY <1>3 DEF Reject, Dispatch
    <2>2. EngineInv' /\ UNCHANGED <<contexts, pages, real_pages>>
      BY <2>1, EngineKept DEF ServerInv
    <2>3. SessionsInv'
      BY <2>1, <2>2, SessionsDropped DEF ServerInv, SessionsInv
    <2>4. \/ pc' = "accept"
          \/ /\ pc' = "domain"
             /\ req' \in [kind : Kinds, host : Urls, fingerprint : Identities \cup {None},
                          events : {0, MaxEvents}, page : {0}, context : {0}]
      BY <1>3 DEF Reject, Dispatch, Respond
    <2>5. pc' = "accept" \/ (pc' = "domain" /\ DOMAIN req' = {"kind", "host", "fingerprint", "events", "page", "context"})
      BY <2>4
    <2>6. RequestInv' /\ OthersStay
      BY <2>1, <2>5 DEF RequestInv, OthersStay, Working, Pinned
    <2> QED
      BY <2>2, <2>3, <2>6 DEF ServerInv
  <1>4. CASE Serve
    BY <1>4, DomainLookedUp, ContextMade, PageMade, HandlerSteps DEF Serve
  <1>5. CASE Tick \/ idle_loop
    BY <1>1, <1>5 DEF Tick, idle_loop
  <1>6. ASSUME NEW ok, Accept(ok), should_exit PROVE ServerInv' /\ OthersStay
    BY <1>1, <1>6 DEF Accept
  <1>7. CASE UNCHANGED vars
    BY <1>1, <1>7 DEF vars, serverVars
  <1> QED
    BY <1>2, <1>3, <1>4, <1>5, <1>6, <1>7 DEF Next

(* At the start there are no sessions and no request.                        *)
LEMMA ServerInitially == Init => ServerInv
  <1> SUFFICES ASSUME Init PROVE ServerInv
    OBVIOUS
  <1>1. /\ contexts = << >> /\ pages = << >> /\ sessions = << >> /\ active_domains = 0 /\ pc = "accept"
        /\ real_pages = {} /\ real_runtime = FALSE /\ next_context = 0 /\ next_page = 0
    BY DEF Init, EngineInit
  <1>2. DOMAIN contexts = {} /\ DOMAIN pages = {} /\ DOMAIN sessions = {}
    BY <1>1
  <1>3. EngineInv
    BY <1>1, <1>2 DEF EngineInv, LiveNeedsRuntime
  <1>4. SessionsInv
    BY <1>1, <1>2, FS_EmptySet DEF SessionsInv
  <1>5. RequestInv
    BY <1>1 DEF RequestInv, Working, Pinned
  <1> QED
    BY <1>3, <1>4, <1>5 DEF ServerInv

(* server.rs, get_or_create_domain and idle_sweep: whatever the hosts, their  *)
(* fingerprints, the requests and the failures of the engine, each host has a *)
(* context and a page of its own with the fingerprint asked for, the counter  *)
(* of /health is their number, and the session of the request being served    *)
(* stays in place until it is answered.                                       *)
THEOREM HostSessionsAlwaysHold == Spec => []HostSessionsHold
  <1>1. Spec => Init /\ [][Next]_vars
    BY PTL DEF Spec
  <1> QED
    BY <1>1, ServerInitially, ServerSteps, ServerInvHolds, PTL

(* server.rs: a request never changes the session of another host nor the    *)
(* page behind it, however its engine calls interleave with the clock and    *)
(* the sweeper.                                                              *)
THEOREM HostsNeverInterfere == Spec => HostsDontInterfere
  <1>1. Spec => Init /\ [][Next]_vars
    BY PTL DEF Spec
  <1>2. ServerInv /\ [Next]_vars =>
          [\A h \in DOMAIN sessions :
             pc \in Working /\ h # req.host
                => /\ h \in DOMAIN sessions' /\ sessions'[h] = sessions[h]
                   /\ pages'[sessions[h].page] = pages[sessions[h].page]]_vars
    BY ServerSteps DEF OthersStay
  <1>3. ServerInv /\ [Next]_vars => ServerInv'
    BY ServerSteps
  <1> QED
    BY <1>1, <1>2, <1>3, ServerInitially, PTL DEF HostsDontInterfere
=============================================================================
