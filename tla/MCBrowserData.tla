--------------------------- MODULE MCBrowserData ----------------------------
EXTENDS BrowserData, TLC

CONSTANTS work, home

App == [scheme |-> "https", host |-> <<"app", "example">>, path |-> <<"p">>]
Top == [scheme |-> "https", host |-> <<"example">>, path |-> << >>]

MCUrls == {App, Top}
MCScopes == {App, [App EXCEPT !.path = << >>]}
MCSiteOf(party) == IF party = work THEN Top.host ELSE App.host

Ok(body, size, set_cookie) ==
    [status |-> 200, location |-> {}, set_cookie |-> set_cookie, size |-> size, body |-> body]
Redirect(to) == [status |-> 302, location |-> {to}, set_cookie |-> {}, size |-> 0, body |-> 0]

\* For the whole domain during one second, and for the host as long as it is asked
\* for by the same site.
Wide == [domain |-> {<<"example">>}, path |-> << >>, secure |-> TRUE, same_site |-> "",
         max_age |-> {1}]
Strict == [domain |-> {}, path |-> << >>, secure |-> FALSE, same_site |-> "strict",
           max_age |-> {}]

\* A redirect to a page with a cookie, a form with another, and nothing else.
MCRouteTables ==
    {<<"GET", Top>> :> Redirect(App) @@ <<"GET", App>> :> Ok(1, 1, {Wide})
        @@ <<"POST", App>> :> Ok(0, 0, {Strict})}
MCChanges == {<<"GET", App, Ok(2, 1, {})>>}

Ask(party, method, url) == [party |-> party, method |-> method, url |-> url, worker |-> FALSE]
MCRequests ==
    {Ask(work, "GET", App), Ask(work, "GET", Top), Ask(work, "POST", App), Ask(home, "GET", App),
     [Ask(home, "POST", Top) EXCEPT !.worker = TRUE], Ask(home, "", App)}

Plain == [timeout |-> 1, max_requests |-> 3, max_redirects |-> 1, max_response_bytes |-> 1,
          trusted |-> {}, proxy |-> {}, workers_enabled |-> TRUE,
          service_workers_enabled |-> TRUE]
MCConfigs ==
    {Plain,
     [Plain EXCEPT !.timeout = 0, !.workers_enabled = FALSE],
     [Plain EXCEPT !.max_requests = 1, !.max_redirects = 0, !.trusted = {Top.host}],
     [Plain EXCEPT !.max_requests = 1, !.max_response_bytes = 0, !.proxy = {App},
                   !.service_workers_enabled = FALSE]}
MCDefaultLimits == [profiles |-> 2, history |-> 2, autocomplete |-> 2, extensions |-> 0]
MCLimitChoices == {[profiles |-> 1, history |-> 1, autocomplete |-> 1, extensions |-> 1]}

\* A file of version 1 knows a user agent only, holds more than its limits
\* allow, offers an entry twice and names a profile that is gone.
MCOldFile ==
    [version |-> 1, profiles |-> 1 :> [generation |-> 0, past |-> Past(FALSE, {}),
        config |-> [Config(Identity("firefox", "linux", {}, ""), 2) EXCEPT
                      !.history = <<1, 1, 1>>, !.autocomplete = <<1, 1>>]],
     selected |-> {2}, limits |-> MCDefaultLimits]

MCVariants == {FirefoxDesktop}
MCGiven ==
    {Config(Identity("chrome", "linux", {"firefox"}, "linux"), 0), Config(SafariIos, 2)}
MCOffered ==
    {Fingerprint(Identity("edge", "windows", {"chrome"}, "windows"), "", 8, 8, 0, 24),
     Fingerprint(Identity("safari", "ios", {}, "mac"), "chrome", 8, 8, 5, 24)}
MCStartUrls == {[doc |-> "a", fragment |-> ""]}
MCTabUrls == MCStartUrls \cup {[doc |-> "a", fragment |-> "top"], [doc |-> "b", fragment |-> ""]}

\* The first tab goes through a history, the second one never navigates.
MCMaxTabGeneration == (1 :> 2 @@ 2 :> 0)

\* Both tabs claim the foreground, and the active one may not be in the file.
MCStale == {[active |-> 2, claims |-> {1, 2}]}

\* No operation prefers a profile.
MCSymmetry == Permutations(Owners)
=============================================================================
