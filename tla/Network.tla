------------------------------ MODULE Network -------------------------------
(***************************************************************************)
(* The network stack (crates/network) with the cookie jar (crates/cookies), *)
(* the HTTP cache (crates/cache) and the service workers                    *)
(* (crates/service-worker) that fetch consults and updates.                 *)
(*                                                                          *)
(* A party is a (profile, top-level site) pair.  What servers answer is the *)
(* routing table.  A host is the sequence of its labels and a path that of  *)
(* its segments; a response is told by its body, a number.  fetch is one     *)
(* call and one step; its ends are actions of their own.  log keeps, for    *)
(* every request, the events and the audit it left, so that what later      *)
(* requests get can be explained by earlier ones.                           *)
(***************************************************************************)
EXTENDS Naturals, SequencesExt

CONSTANTS Parties,
          Urls,                     \* records with scheme, host and path
          SiteOf(_),                \* host of a party's top-level site
          RouteTables,              \* what servers answer at first ...
          Changes,                  \* ... and later: (method, url, response) triples
          Requests,                 \* what parties ask for
          Configs,                  \* NetworkConfigs with the limits
          Scopes,                   \* URLs that service workers are registered for
          MaxRequests, MaxTime      \* bounds; Configs have a max_requests of their own

ASSUME NetworkAssumption == /\ MaxRequests \in Nat /\ MaxTime \in Nat
                            /\ \A c \in Configs : c.max_requests \in Nat

VARIABLES config,
          routes,         \* (method, url) -> response
          cookies,        \* (party, domain, name) -> Cookie
          cache,          \* (party, url) -> response
          registrations,  \* scope -> WorkerState
          responses,      \* url -> what a service worker answers
          metrics,
          now,
          jar,            \* Option of the cookie snapshot last exported
          log             \* history: one entry per request

netVars == <<config, routes, cookies, cache, registrations, responses, metrics, now, jar, log>>

NetPut(f, k, v) == [i \in DOMAIN f \cup {k} |-> IF i = k THEN v ELSE f[i]]

NetworkInit ==
    /\ config \in Configs /\ routes \in RouteTables
    /\ cookies = << >> /\ cache = << >> /\ now = 0 /\ jar = {} /\ log = << >>
    /\ registrations = << >> /\ responses = << >>
    /\ metrics = [started |-> 0, completed |-> 0, failed |-> 0, bytes |-> 0]
-----------------------------------------------------------------------------
\* Cookie::matches_at; a cookie with a domain goes to all of its hosts.
matches(cookie, url) ==
    /\ IF cookie.host_only THEN url.host = cookie.domain ELSE IsSuffix(cookie.domain, url.host)
    /\ IsPrefix(cookie.path, url.path)
    /\ cookie.secure => url.scheme = "https"

matches_at(cookie, url, same_site) ==
    /\ matches(cookie, url)
    /\ \A t \in cookie.expires : t > now
    /\ CASE cookie.same_site \in {"strict", "lax"} -> same_site
         [] cookie.same_site = "none" -> cookie.secure
         [] OTHER -> TRUE

header_for(party, url) ==
    {k \in DOMAIN cookies : k[1] = party
                            /\ matches_at(cookies[k], url, SiteOf(party) = url.host)}

\* The Set-Cookie of a response as Cookie::parse reads it now.
Parsed(c, url) ==
    [domain |-> IF c.domain = {} THEN url.host ELSE CHOOSE d \in c.domain : TRUE,
     host_only |-> c.domain = {}, path |-> c.path, secure |-> c.secure, same_site |-> c.same_site,
     expires |-> {now + age : age \in c.max_age}]

purge_expired ==
    /\ cookies' = Restrict(cookies, {k \in DOMAIN cookies : \A t \in cookies[k].expires : t > now})
    /\ cookies' # cookies
    /\ UNCHANGED <<config, routes, cache, registrations, responses, metrics, now, jar, log>>

export_cookie_snapshot ==
    /\ jar' = {cookies}
    /\ UNCHANGED <<config, routes, cookies, cache, registrations, responses, metrics, now, log>>

restore_cookie_snapshot ==
    /\ \E c \in jar : cookies' = c
    /\ UNCHANGED <<config, routes, cache, registrations, responses, metrics, now, jar, log>>
-----------------------------------------------------------------------------
scope_contains(scope, url) ==
    /\ scope.scheme = url.scheme /\ scope.host = url.host
    /\ IsPrefix(scope.path, url.path)

WorkerFrame == UNCHANGED <<config, routes, cookies, cache, metrics, now, jar, log>>

register(scope) ==
    /\ registrations' = NetPut(registrations, scope, "Activated")
    /\ UNCHANGED responses /\ WorkerFrame

ValidTransitions ==
    {"Installing", "Installed", "Activating", "Activated"} \X {"Redundant"}
    \cup {<<"Installing", "Installed">>, <<"Installed", "Activating">>,
          <<"Activating", "Activated">>}

transition(scope, next) ==
    /\ scope \in DOMAIN registrations
    /\ <<registrations[scope], next>> \in ValidTransitions
    /\ registrations' = [registrations EXCEPT ![scope] = next]
    /\ UNCHANGED responses /\ WorkerFrame

\* All responses in the scope go, those of a worker with a scope inside too.
unregister(scope) ==
    /\ scope \in DOMAIN registrations
    /\ registrations' = Restrict(registrations, DOMAIN registrations \ {scope})
    /\ responses' = Restrict(responses, {u \in DOMAIN responses : ~scope_contains(scope, u)})
    /\ WorkerFrame

intercept(url, size) ==
    /\ responses' = NetPut(responses, url, [size |-> size])
    /\ UNCHANGED registrations /\ WorkerFrame

\* ServiceWorkerRegistry::fetch answers, if any activated worker controls it.
Intercepted(url) ==
    /\ config.service_workers_enabled
    /\ \E s \in DOMAIN registrations : registrations[s] = "Activated" /\ scope_contains(s, url)
    /\ url \in DOMAIN responses
-----------------------------------------------------------------------------
\* The checks of fetch_worker and fetch before a request starts, in order.
Rejection(req) ==
    IF req.worker /\ ~config.workers_enabled THEN {"WorkersDisabled"}
    ELSE IF metrics.started >= config.max_requests THEN {"RequestLimit"}
    ELSE IF req.url.scheme \notin {"http", "https"} THEN {"UnsupportedScheme"}
    ELSE IF /\ req.url.scheme = "https" /\ config.trusted # {}
            /\ req.url.host \notin config.trusted THEN {"UntrustedCertificate"}
    ELSE IF req.method = "" THEN {"InvalidMethod"}
    ELSE {}

RouteFor(method, url) ==
    IF config.proxy # {} /\ (\E p \in config.proxy : <<method, p>> \in DOMAIN routes)
    THEN {routes[<<method, p>>] : p \in config.proxy}
    ELSE {routes[k] : k \in {<<method, url>>} \cap DOMAIN routes}

\* The loop of fetch: what is found at the end of the redirects, and where.
Chased(method, url) ==
    LET chase[left \in 0..config.max_redirects] ==
          [u \in Urls |->
             IF RouteFor(method, u) = {} THEN [error |-> {"NoRoute"}, url |-> u]
             ELSE LET r == CHOOSE r \in RouteFor(method, u) : TRUE
                  IN IF r.status # 302 \/ r.location = {}
                     THEN [error |-> {}, url |-> u, response |-> r]
                     ELSE IF left = 0 THEN [error |-> {"RedirectLimit"}, url |-> u]
                     ELSE chase[left - 1][CHOOSE l \in r.location : TRUE]]
    IN chase[config.max_redirects][url]

Starts(req) == Len(log) < MaxRequests /\ Rejection(req) = {}

Entry(req, source, body, url, events, audit) ==
    [req |-> req, source |-> source, body |-> body, url |-> url, events |-> events,
     audit |-> audit, at |-> now, stored |-> {}, sent |-> header_for(req.party, req.url)]

Record(entry) == log' = Append(log, entry)

\* Mutant: the response is cached under the URL that was asked for.
CachedAsAsked(req, url, r) ==
    LET key == <<req.party, req.url>>
    IN IF req.method # "GET" THEN Restrict(cache, DOMAIN cache \ {key})
       ELSE IF r.status < 400 THEN NetPut(cache, key, r) ELSE cache

\* The cache after a response from the final URL.
CacheAfter(req, url, r) ==
    LET key == <<req.party, url>>
    IN IF req.method # "GET" THEN Restrict(cache, DOMAIN cache \ {key})
       ELSE IF r.status < 400 THEN NetPut(cache, key, r) ELSE cache

FetchFrame == UNCHANGED <<config, routes, registrations, responses, now, jar>>

Done == <<"RequestStarted", "ResponseReceived", "Timing", "RequestCompleted">>

Completes(size) ==
    metrics' = [metrics EXCEPT !.started = @ + 1, !.completed = @ + 1, !.bytes = @ + size]

Rejected(req) ==
    /\ Len(log) < MaxRequests /\ Rejection(req) # {}
    /\ Record([Entry(req, "none", {}, req.url, << >>, <<"Failed">>) EXCEPT !.sent = {}])
    /\ UNCHANGED <<cookies, cache, metrics>> /\ FetchFrame

\* Mutant: a timeout is reported but not counted.
TimeoutUncounted(req) ==
    /\ Starts(req) /\ config.timeout = 0
    /\ metrics' = [metrics EXCEPT !.started = @ + 1]
    /\ Record(Entry(req, "none", {}, req.url, <<"RequestStarted", "RequestFailed">>, <<"Failed">>))
    /\ UNCHANGED <<cookies, cache>> /\ FetchFrame

TimesOut(req) ==
    /\ Starts(req) /\ config.timeout = 0
    /\ metrics' = [metrics EXCEPT !.started = @ + 1, !.failed = @ + 1]
    /\ Record(Entry(req, "none", {}, req.url, <<"RequestStarted", "RequestFailed">>, <<"Failed">>))
    /\ UNCHANGED <<cookies, cache>> /\ FetchFrame

WorkerAnswers(req) ==
    /\ Starts(req) /\ config.timeout > 0 /\ Intercepted(req.url)
    /\ Completes(responses[req.url].size)
    /\ Record(Entry(req, "worker", {}, req.url, Done, <<"Completed">>))
    /\ UNCHANGED <<cookies, cache>> /\ FetchFrame

CacheAnswers(req) ==
    /\ Starts(req) /\ config.timeout > 0 /\ ~Intercepted(req.url)
    /\ req.method = "GET" /\ <<req.party, req.url>> \in DOMAIN cache
    /\ LET hit == cache[<<req.party, req.url>>]
       IN /\ Completes(hit.size)
          /\ Record(Entry(req, "cache", {hit.body}, req.url, Done, <<"Completed">>))
    /\ UNCHANGED <<cookies, cache>> /\ FetchFrame

\* None of the above answers: the request goes out.
GoesOut(req) ==
    /\ Starts(req) /\ config.timeout > 0 /\ ~Intercepted(req.url)
    /\ ~(req.method = "GET" /\ <<req.party, req.url>> \in DOMAIN cache)

RouteFails(req) ==
    /\ GoesOut(req)
    /\ LET end == Chased(req.method, req.url)
           large == end.error = {} /\ end.response.size > config.max_response_bytes
       IN /\ end.error # {} \/ large
          /\ Record(Entry(req, "none", {}, end.url,
                          IF large THEN <<"RequestStarted", "RequestFailed">>
                                   ELSE <<"RequestStarted", "Timing", "RequestFailed">>,
                          <<"Failed">>))
    /\ metrics' = [metrics EXCEPT !.started = @ + 1, !.failed = @ + 1]
    /\ UNCHANGED <<cookies, cache>> /\ FetchFrame

\* The cookies, then the cache, are brought up to date at the final URL.
RouteAnswers(req) ==
    /\ GoesOut(req)
    /\ LET end == Chased(req.method, req.url)
       IN /\ end.error = {} /\ end.response.size <= config.max_response_bytes
          /\ LET r == end.response
                 new == {Parsed(c, end.url) : c \in r.set_cookie}
                 keys == {<<req.party, c.domain, "name">> : c \in new}
             IN /\ cookies' = [k \in DOMAIN cookies \cup keys |->
                                 IF k \in keys THEN CHOOSE c \in new : k[2] = c.domain
                                 ELSE cookies[k]]
                /\ cache' = CacheAfter(req, end.url, r)
                /\ Completes(r.size)
                /\ Record([Entry(req, "route", {r.body}, end.url,
                                 IF req.method = "GET" THEN Done
                                 ELSE <<"RequestStarted", "Mutation">> \o Tail(Done),
                                 IF new = {} THEN <<"Completed">>
                                             ELSE <<"CookieStored", "Completed">>)
                             EXCEPT !.stored = {[key |-> <<req.party, c.domain, "name">>,
                                                 expires |-> c.expires] : c \in new}])
    /\ FetchFrame

fetch(req) ==
    \/ Rejected(req) \/ TimesOut(req) \/ WorkerAnswers(req) \/ CacheAnswers(req)
    \/ RouteFails(req) \/ RouteAnswers(req)

invalidate_cache(party, urls) ==
    /\ cache' = Restrict(cache, DOMAIN cache \ ({party} \X urls))
    /\ cache' # cache
    /\ UNCHANGED <<config, routes, cookies, registrations, responses, metrics, now, jar, log>>

\* A server starts to answer something else.
route(method, url, response) ==
    /\ routes' = NetPut(routes, <<method, url>>, response)
    /\ UNCHANGED <<config, cookies, cache, registrations, responses, metrics, now, jar, log>>

NetworkTick ==
    /\ now < MaxTime /\ now' = now + 1
    /\ UNCHANGED <<config, routes, cookies, cache, registrations, responses, metrics, jar, log>>

NetworkNext ==
    \/ \E req \in Requests : fetch(req)
    \/ \E c \in Changes : route(c[1], c[2], c[3])
    \/ \E p \in Parties :
          \/ \E u \in Urls : invalidate_cache(p, {u})
          \/ invalidate_cache(p, Urls)
    \/ purge_expired
    \/ export_cookie_snapshot
    \/ restore_cookie_snapshot
    \/ NetworkTick

\* The same with service workers, while cookies and caches are left alone.
WorkersNext ==
    \/ \E req \in Requests : fetch(req)
    \/ \E s \in Scopes :
          \/ register(s)
          \/ \E next \in {"Activated", "Redundant"} : transition(s, next)
          \/ unregister(s)
    \/ \E u \in Urls : intercept(u, 1)
-----------------------------------------------------------------------------
(* Every request that starts ends once, in the metrics as in the events and  *)
(* the audit, whichever of worker, cache, server or failure ends it; one     *)
(* that is rejected leaves an audit entry and is counted nowhere; and no     *)
(* more start than the limit allows.                                         *)
EveryRequestAccounted ==
    LET Ended(last) == {i \in DOMAIN log : log[i].events # << >> /\ Last(log[i].events) = last}
    IN /\ metrics.completed = Cardinality(Ended("RequestCompleted"))
       /\ metrics.failed = Cardinality(Ended("RequestFailed"))
       /\ metrics.started = metrics.completed + metrics.failed
       /\ metrics.started <= config.max_requests
       /\ \A i \in DOMAIN log :
             (Last(log[i].audit) = "Completed") <=> i \in Ended("RequestCompleted")

(* What a party is answered from the cache a server answered the same party  *)
(* at that very URL, and no change of the party's to it was answered since;  *)
(* the cookies it sends were set by answers to the same party and are not    *)
(* over - whatever redirects, purges and restored snapshots came between.    *)
NothingCrossesParties ==
    \A i \in DOMAIN log :
       LET e == log[i]
           Earlier == {j \in 1..(i - 1) : log[j].req.party = e.req.party /\ log[j].source = "route"}
       IN /\ e.source = "cache" =>
                \E j \in Earlier :
                   /\ log[j].req.method = "GET" /\ log[j].url = e.req.url /\ log[j].body = e.body
                   /\ \A k \in Earlier : k > j /\ log[k].url = e.req.url => log[k].req.method = "GET"
          /\ \A c \in e.sent : \E j \in Earlier : \E s \in log[j].stored :
                s.key = c /\ \A t \in s.expires : t > e.at

(* Requests add up and stay apart (NetworkStack::fetch and fetch_worker).    *)
RequestsHold == EveryRequestAccounted /\ NothingCrossesParties
=============================================================================
