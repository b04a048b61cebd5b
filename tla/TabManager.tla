------------------------------ MODULE TabManager ------------------------------
(***************************************************************************)
(* The tabs of a workspace and the one in the foreground (crates/tabs),    *)
(* each with its navigation state: the page shown, the session history and *)
(* the load status (crates/navigation).  A URL is a document (origin, path *)
(* and query) and a fragment; user names in a URL are left out.  Rust's    *)
(* history[index] is history[index + 1] here.                              *)
(*                                                                         *)
(* A TabId is a fresh random Uuid; the map is ordered by it, so open may   *)
(* hand out any number not handed out before and "the next tab" is the     *)
(* smallest one.                                                           *)
(***************************************************************************)
EXTENDS Naturals, Sequences, FiniteSets, FiniteSetsExt

CONSTANTS TabUrls,        \* records [doc, fragment]
          TabIds,         \* a set of numbers
          Owners,
          StartUrls,      \* the pages tabs are opened with
          NoTab,          \* Option::None of the active tab
          Stale,          \* out of date: an active tab, and those whose flags claim it
          MaxTabGeneration, \* bound, per tab, on the generation it navigates from
          MaxSavedGeneration  \* the same for tabs that are written to a file

ASSUME TabAssumption == /\ TabIds \subseteq Nat /\ NoTab \notin TabIds
                        /\ MaxTabGeneration \in [TabIds -> Nat] /\ MaxSavedGeneration \in Nat
                        /\ StartUrls \subseteq TabUrls
                        /\ Stale \subseteq [active : TabIds \cup {NoTab}, claims : SUBSET TabIds]

VARIABLES tabs,     \* TabId -> Tab, for the open tabs
          active,   \* Option<TabId>
          repaired, \* history: no file has brought stale flags that still stand
          opened,   \* history: every TabId handed out
          tabFile   \* the three first as last written, in a checkpoint or alone

tabVars == <<tabs, active, repaired, opened, tabFile>>

NavigationStatus == {"Idle", "Loading", "Stopped", "Failed"}

NavigationState ==
    [current : TabUrls, history : Seq(TabUrls), index : Nat, status : NavigationStatus,
     generation : Nat]

NewNavigation(url) ==
    [current |-> url, history |-> <<url>>, index |-> 0, status |-> "Idle", generation |-> 0]

\* Mutant: the entries after the current one are kept when a page is pushed.
PushedOntoTheEnd(nav, url) ==
    [nav EXCEPT !.history = Append(nav.history, url), !.index = nav.index + 1]

\* A new document: what was ahead of the current entry is forgotten.
Pushed(nav, url) ==
    [nav EXCEPT !.history = Append(SubSeq(nav.history, 1, nav.index + 1), url),
                !.index = nav.index + 1]

\* The URL already shown, or another fragment of it: the entry is rewritten.
Replaced(nav, url) == [nav EXCEPT !.history[nav.index + 1] = url]

start(nav, url) ==
    [IF nav.current.doc = url.doc THEN Replaced(nav, url) ELSE Pushed(nav, url)
        EXCEPT !.current = url, !.status = "Loading", !.generation = nav.generation + 1]

complete(nav) == [nav EXCEPT !.status = "Idle"]
fail(nav)     == [nav EXCEPT !.status = "Failed"]
reload(nav)   == [nav EXCEPT !.status = "Loading", !.generation = nav.generation + 1]
stop(nav)     == IF nav.status = "Loading" THEN [nav EXCEPT !.status = "Stopped"] ELSE nav

can_back(nav)    == nav.index > 0
can_forward(nav) == nav.index + 1 < Len(nav.history)

\* Mutant: traversing the history is not a navigation of its own.
TraversedUnnumbered(nav, index) ==
    [nav EXCEPT !.index = index, !.current = nav.history[index + 1], !.status = "Loading"]

\* back and forward: the entry at the index becomes the page shown.
Traversed(nav, index) ==
    [nav EXCEPT !.index = index, !.current = nav.history[index + 1], !.status = "Loading",
                !.generation = nav.generation + 1]

back(nav)    == Traversed(nav, nav.index - 1)
forward(nav) == Traversed(nav, nav.index + 1)
-----------------------------------------------------------------------------
\* background is always ~active, and execution the policy that goes with it.
Flags(isActive) ==
    [active |-> isActive, background |-> ~isActive,
     execution |-> IF isActive THEN "foreground" ELSE "background"]

AnyFlags == [active : BOOLEAN, background : BOOLEAN, execution : {"foreground", "background"}]

Tab == [profile : Owners, navigation : NavigationState, generation : Nat, flags : AnyFlags]

Manager(ts, a, r) == [tabs |-> ts, active |-> a, repaired |-> r]

TabsInit ==
    /\ tabs = << >> /\ active = NoTab /\ repaired = TRUE /\ opened = {}
    /\ tabFile = Manager(<< >>, NoTab, TRUE)

\* The first tab becomes the active one.
open_tab(id, profile, url) ==
    /\ id \notin opened
    /\ active' = IF active = NoTab THEN id ELSE active
    /\ tabs' = [t \in DOMAIN tabs \cup {id} |->
          IF t # id THEN tabs[t]
          ELSE [profile |-> profile, navigation |-> NewNavigation(url), generation |-> 0,
                flags |-> Flags(active = NoTab)]]
    /\ opened' = opened \cup {id}
    /\ UNCHANGED <<repaired, tabFile>>

\* A navigation through the manager: TabManager::navigate, back and forward
\* complete it and number it.
Navigated(id, nav) ==
    /\ tabs[id].navigation.generation < MaxTabGeneration[id]
    /\ tabs' = [tabs EXCEPT ![id].navigation = complete(nav), ![id].generation = @ + 1]
    /\ UNCHANGED <<active, repaired, opened, tabFile>>

navigate(id, url)  == id \in DOMAIN tabs /\ Navigated(id, start(tabs[id].navigation, url))
navigate_back(id)  == /\ id \in DOMAIN tabs /\ can_back(tabs[id].navigation)
                      /\ Navigated(id, back(tabs[id].navigation))
navigate_forward(id) == /\ id \in DOMAIN tabs /\ can_forward(tabs[id].navigation)
                        /\ Navigated(id, forward(tabs[id].navigation))

\* Through get_mut a caller drives the tab's NavigationState by itself; the
\* tab's own generation does not follow.
get_mut(id) ==
    /\ id \in DOMAIN tabs
    /\ LET nav == tabs[id].navigation
       IN /\ nav.generation < MaxTabGeneration[id]
          /\ \E new \in {complete(nav), fail(nav), stop(nav), reload(nav)}
                        \cup {start(nav, url) : url \in TabUrls}
                        \cup {back(n) : n \in {n \in {nav} : can_back(n)}}
                        \cup {forward(n) : n \in {n \in {nav} : can_forward(n)}} :
                tabs' = [tabs EXCEPT ![id].navigation = new]
    /\ UNCHANGED <<active, repaired, opened, tabFile>>

\* Every tab goes to the background except this one.
Activated(ts, id) == [t \in DOMAIN ts |-> [ts[t] EXCEPT !.flags = Flags(t = id)]]

activate(id) ==
    /\ id \in DOMAIN tabs
    /\ tabs' = Activated(tabs, id) /\ active' = id /\ repaired' = TRUE
    /\ UNCHANGED <<opened, tabFile>>

\* Option: the first key of the map.
FirstKey(S) == IF S = {} THEN NoTab ELSE Min(S)

Without(ts, id) == [t \in DOMAIN ts \ {id} |-> ts[t]]

\* Closing the active tab, which may not be there, brings the next one to the
\* foreground.
close(id) ==
    /\ id \in DOMAIN tabs \/ active = id
    /\ LET rest == Without(tabs, id)
           next == FirstKey(DOMAIN rest)
       IN IF active = id
          THEN tabs' = Activated(rest, next) /\ active' = next /\ repaired' = TRUE
          ELSE tabs' = rest /\ UNCHANGED <<active, repaired>>
    /\ UNCHANGED <<opened, tabFile>>

\* to_json, and the part of a checkpoint that is the manager's.
save_tabs ==
    /\ \A t \in DOMAIN tabs : tabs[t].navigation.generation <= MaxSavedGeneration
    /\ tabFile' = Manager(tabs, active, repaired)
    /\ UNCHANGED <<tabs, active, repaired, opened>>

\* What a file may hold: the manager as it is or as it was when last written - other
\* tabs, older pages and generations - with the active tab and the flags it had, or
\* with stale ones.
Aged(m, old) ==
    Manager([t \in DOMAIN m.tabs |-> [m.tabs[t] EXCEPT !.flags = Flags(t \in old.claims)]],
            old.active, FALSE)

Files == LET written == {Manager(tabs, active, repaired), tabFile}
         IN written \cup {Aged(m, old) : m \in written, old \in Stale}

\* normalize_active: an unknown active tab is replaced by the first one, and
\* all flags are recomputed (Loaded).
Normalized(ts, a) == IF a \in DOMAIN ts THEN a ELSE FirstKey(DOMAIN ts)

\* Mutant: what was persisted is taken as it is.
LoadedAsIs(stale, a) == [active |-> Normalized(stale, a), tabs |-> stale]

Loaded(stale, a) ==
    [active |-> Normalized(stale, a), tabs |-> Activated(stale, Normalized(stale, a))]

restore_tabs(m) ==
    /\ active' = Loaded(m.tabs, m.active).active /\ tabs' = Loaded(m.tabs, m.active).tabs
    /\ repaired' = TRUE
    /\ UNCHANGED <<opened, tabFile>>

TabsNext ==
    \/ \E id \in TabIds :
          \/ \E p \in Owners, url \in StartUrls : open_tab(id, p, url)
          \/ \E url \in TabUrls : navigate(id, url)
          \/ navigate_back(id) \/ navigate_forward(id) \/ get_mut(id)
          \/ activate(id) \/ close(id)
    \/ save_tabs
    \/ \E m \in Files : restore_tabs(m)
-----------------------------------------------------------------------------
InOrder(m) ==
    /\ m.active = NoTab <=> DOMAIN m.tabs = {}
    /\ m.active # NoTab => m.active \in DOMAIN m.tabs
    /\ \A t \in DOMAIN m.tabs : m.tabs[t].flags = Flags(t = m.active)

(* As long as there are tabs exactly one is in the foreground, it is the one *)
(* the manager calls active, and only it runs under the foreground policy -  *)
(* after any sequence of opens, closes and switches.  Where a checkpoint     *)
(* brings stale flags, which from_checkpoint does not repair, this is so     *)
(* again from the next switch, close of the active tab or from_json on.      *)
OneForegroundTab == repaired => InOrder(Manager(tabs, active, repaired))

(* The history entry at the index is the page shown, back undoes forward and *)
(* forward undoes back, and a page pushed leaves nothing to go forward to:   *)
(* going back from it leads to the page left - whatever mix of new pages,    *)
(* fragment changes, reloads, back and forward led there.                    *)
BackAndForwardUndo ==
    \A t \in DOMAIN tabs :
        LET nav == tabs[t].navigation
        IN /\ nav.history[nav.index + 1] = nav.current
           /\ can_back(nav) => forward(back(nav)).current = nav.current
           /\ can_forward(nav) => back(forward(nav)).current = nav.current
           /\ \A url \in TabUrls : url.doc # nav.current.doc =>
                 /\ ~can_forward(start(nav, url))
                 /\ back(start(nav, url)).current = nav.current

SamePages(ts, us) ==
    /\ DOMAIN ts = DOMAIN us
    /\ \A t \in DOMAIN ts : /\ ts[t].navigation = us[t].navigation
                            /\ ts[t].generation = us[t].generation

(* A tab's numbers tell pages apart, from one restore to the next: a step    *)
(* that does not bring back the tabs of a file, all of them with the pages   *)
(* and numbers they had, changes no page without a new navigation generation *)
(* and takes back none.  The tab's own count never runs ahead of the         *)
(* navigations, also after a restore.                                        *)
PageChangesAreNumbered ==
    [][/\ \/ SamePages(tabs', tabFile.tabs)
          \/ \A t \in DOMAIN tabs \cap DOMAIN tabs' :
                LET old == tabs[t].navigation  new == tabs'[t].navigation
                IN /\ new.generation >= old.generation
                   /\ new.current # old.current => new.generation > old.generation
       /\ \A t \in DOMAIN tabs' : tabs'[t].generation <= tabs'[t].navigation.generation]_tabVars
=============================================================================
