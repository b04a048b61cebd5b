------------------------------- MODULE Workspace -------------------------------
(***************************************************************************)
(* A workspace: the tabs of one profile, the windows that show them, and   *)
(* the checkpoint it is restored from (crates/workspace).  The field tabs  *)
(* is public: callers open and close tabs directly on the TabManager.      *)
(***************************************************************************)
EXTENDS TabManager

CONSTANTS WindowIds,   \* a set of numbers: fresh Uuids, ordered
          LockNames,       \* the members the sets locks and permissions may have
          MaxShownGeneration  \* MaxTabGeneration for a workspace with windows

ASSUME WorkspaceAssumption == WindowIds \subseteq Nat /\ MaxShownGeneration \in Nat

VARIABLES profile,     \* the workspace's profile
          windows,     \* WindowId -> Window, for the open windows
          created,     \* history: every WindowId handed out
          names        \* the sets locks and permissions, which no operation combines

workspaceVars == <<tabVars, profile, windows, created, names>>

Window == [tabs : Seq(TabIds), focused : BOOLEAN]

WorkspaceInit ==
    /\ TabsInit
    /\ profile \in Owners
    /\ windows = << >> /\ created = {} /\ names = {}

create_window(w) ==
    /\ w \notin created
    /\ windows' = [x \in DOMAIN windows \cup {w} |->
          IF x # w THEN windows[x] ELSE [tabs |-> << >>, focused |-> DOMAIN windows = {}]]
    /\ created' = created \cup {w}
    /\ UNCHANGED <<tabVars, profile, names>>

Attachable(t) == t \in DOMAIN tabs /\ tabs[t].profile = profile

Shown(t) == {w \in DOMAIN windows : \E i \in DOMAIN windows[w].tabs : windows[w].tabs[i] = t}

\* Mutant: only the window itself is searched for the tab.
FreeInWindow(w, t) == w \notin Shown(t)

Free(w, t) == Shown(t) = {}

attach_tab(w, t) ==
    /\ Attachable(t) /\ Free(w, t)
    /\ w \in DOMAIN windows
    /\ windows' = [windows EXCEPT ![w].tabs = Append(@, t)]
    /\ UNCHANGED <<tabVars, profile, created, names>>

Focused(ws, w) == [x \in DOMAIN ws |-> [ws[x] EXCEPT !.focused = (x = w)]]

focus_window(w) ==
    /\ w \in DOMAIN windows
    /\ windows' = Focused(windows, w)
    /\ UNCHANGED <<tabVars, profile, created, names>>

\* Mutant: the focus is not handed on.
CloseWithFocus(w) ==
    /\ w \in DOMAIN windows
    /\ windows' = [x \in DOMAIN windows \ {w} |-> windows[x]]
    /\ UNCHANGED <<tabVars, profile, created, names>>

\* The focus of a closed window goes to the first of the others.
close_window(w) ==
    /\ w \in DOMAIN windows
    /\ LET rest == [x \in DOMAIN windows \ {w} |-> windows[x]]
       IN windows' = IF windows[w].focused /\ DOMAIN rest # {}
                     THEN Focused(rest, Min(DOMAIN rest)) ELSE rest
    /\ UNCHANGED <<tabVars, profile, created, names>>

\* acquire_lock and grant_permission; release_lock and revoke_permission.
acquire(n) == n \notin names /\ names' = names \cup {n}
             /\ UNCHANGED <<tabVars, profile, windows, created>>
release(n) == n \in names /\ names' = names \ {n}
             /\ UNCHANGED <<tabVars, profile, windows, created>>

checkpoint ==
    [profile |-> profile, tabs |-> Manager(tabs, active, repaired), windows |-> windows,
     names |-> names]

\* Every place in the windows of a checkpoint where a tab is listed.
Places(c) == {p \in (DOMAIN c.windows) \X (1 .. Cardinality(TabIds)) :
                  p[2] \in DOMAIN c.windows[p[1]].tabs}
TabAt(c, p) == c.windows[p[1]].tabs[p[2]]
FocusedIn(c) == {w \in DOMAIN c.windows : c.windows[w].focused}

\* Mutant: a checkpoint without windows must have a focused one too.
FocusValidAlways(c) == Cardinality(FocusedIn(c)) = 1

FocusValid(c) == DOMAIN c.windows # {} => Cardinality(FocusedIn(c)) = 1

Valid(c, expected_profile) ==
    /\ c.profile = expected_profile
    /\ \A t \in DOMAIN c.tabs.tabs : c.tabs.tabs[t].profile = expected_profile
    /\ \A p \in Places(c) : /\ TabAt(c, p) \in DOMAIN c.tabs.tabs
                            /\ \A q \in Places(c) : TabAt(c, p) = TabAt(c, q) => p = q
    /\ FocusValid(c)

\* What a file may hold: tabs of now or of before, with windows that were edited,
\* damaged or are out of date, written before there were locks.
Layouts == UNION {[W -> [tabs : {<< >>} \cup {<<t>> : t \in opened}, focused : BOOLEAN]] :
                  W \in SUBSET created}

Document(m, ws) == [checkpoint EXCEPT !.tabs = m, !.windows = ws, !.names = {}]

\* The tabs are taken as they are: normalize_active is for from_json only.
from_checkpoint(c) ==
    /\ Valid(c, profile)
    /\ tabs' = c.tabs.tabs /\ active' = c.tabs.active /\ repaired' = c.tabs.repaired
    /\ windows' = c.windows /\ names' = c.names
    /\ UNCHANGED <<opened, tabFile, profile, created>>

Shallow ==
    created' # {} => \A t \in DOMAIN tabs' : tabs'[t].navigation.generation <= MaxShownGeneration

LocksNext == \E n \in LockNames : acquire(n) \/ release(n)

WorkspaceNext ==
    \/ TabsNext /\ UNCHANGED <<profile, windows, created, names>> /\ Shallow
    \/ \E w \in WindowIds : \/ create_window(w) /\ Shallow
                            \/ focus_window(w) \/ close_window(w)
                            \/ \E t \in TabIds : attach_tab(w, t)
    \/ \E m \in Files, ws \in Layouts : from_checkpoint(Document(m, ws)) /\ Shallow
-----------------------------------------------------------------------------
(* Exactly one window has the focus as long as there is one, also after the  *)
(* focused window was closed or a checkpoint restored.                       *)
OneFocusedWindow ==
    DOMAIN windows # {} =>
        \E w \in DOMAIN windows : \A x \in DOMAIN windows : windows[x].focused <=> x = w

(* Tabs and windows both have one that counts, after any sequence of calls.  *)
FocusIsSingle == OneForegroundTab /\ OneFocusedWindow

(* A tab is listed in one place, and no window shows a tab of another        *)
(* profile - also when windows come and go, checkpoints are restored, and    *)
(* tabs that were closed come back with an older file.                       *)
ShownOnceInItsProfile ==
    \A p, q \in Places(checkpoint) :
        LET t == TabAt(checkpoint, p)
        IN /\ t = TabAt(checkpoint, q) => p = q
           /\ t \in DOMAIN tabs => tabs[t].profile = profile

(* "workspace_checkpoint_round_trips": what a workspace saves of itself it   *)
(* accepts again - unless a caller went behind its back and opened a tab of  *)
(* another profile, or closed a tab that a window still lists.               *)
CheckpointRoundTrips ==
    (\A t \in DOMAIN tabs : tabs[t].profile = profile)
        /\ (\A t \in opened \ DOMAIN tabs : Shown(t) = {})
    => Valid(checkpoint, profile)

(* Tabs, windows and checkpoints stay in step through any sequence of calls  *)
(* on the workspace and, behind its back, on its tabs.                       *)
WorkspaceHolds == FocusIsSingle /\ ShownOnceInItsProfile /\ CheckpointRoundTrips
=============================================================================
