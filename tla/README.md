# BrowsAI: a TLA+ verification development

BrowsAI is a browser for software agents. A Rust workspace of about fifty crates
wraps the Servo engine: a facade with contexts and pages, a multi-process
supervisor with message routing, an agent runtime with capabilities and quotas,
brokers for secrets and permissions, profile-partitioned storage, crash recovery,
and three hosts, of which the long-running HTTP server is the one with behaviour
of its own. This directory holds TLA+ models of its stateful core, the TLC
configurations that check them, and TLAPS proofs.

Contents: [inventory](#inventory) · [hard behaviours](#hard-behaviours) ·
[modules](#modules-and-the-code-they-model) · [runs](#runs) ·
[disagreements](#disagreements-with-the-documentation) · [fairness](#fairness) ·
[proofs](#proofs) · [limits](#what-is-only-model-checked-and-what-is-not-modelled) ·
[plan](#plan)

To repeat a check, in this directory: `tlc -workers 2 -config MCServer.cfg MCServer`
for a run and `tlapm ProcessSupervisorProofs.tla` for a proof. `PROJECT.json` lists
the runs, the source lines behind every definition, the hazards, and, for each
property, a mutated definition under which TLC reports the property violated.

## Inventory

Paths are relative to `src/`. *State* is what survives a call; *operations* are
the ones that change it.

### Modelled

| Component | State | Operations | What makes it correct |
|---|---|---|---|
| IPC channel and router, `crates/ipc` | bounded queue, next sequence number | validate, send, receive, cancel, reconnect | every number is delivered, cancelled or queued, once and in order; refusals consume nothing |
| Process topology and supervisor, `crates/process-model` | state per kind, child handles, remembered launches, a channel per route | launch, poll, stop, restart_after_crash, route, receive | one live process per kind; handles, states and launches agree; messages survive restarts |
| Engine facade, `crates/engine-servo`, `engine-api` | contexts, pages, id counters, the Servo runtime | create_context, create_page, navigate, dispatch_input, snapshot, evaluate script, advance_time, pump/settle | nothing live without a runtime; snapshot ids order navigations; a call touches one page |
| Live page runtime, `crates/engine-servo` | the load under way, bounded histories of requests, console messages and errors | load, evaluate, wait for idle, observe | a wait ends for the reason it reports; what a full history drops is announced |
| HTTP server, `apps/browsai-cli/src/server.rs` | session per host, session counter, activity times, exit flag | accept, sweep, each endpoint's engine calls, the idle sweeper thread | hosts are isolated; a session is pinned to its fingerprint; requests end; an idle server exits |
| Command line, `apps/browsai-cli/src/main.rs` | one live page, the snapshot last taken, the planned clicks, the report | live-open, live-search, the listing of links, the check commands | the report adds up over every early exit; the pages of a listing add up to the list |
| Compatibility checker, `crates/compatibility-check` | runs, results per site, stored runs, the scheduler | run, save, load, compare; next, finish, retry | a stored run is finished; every enabled site is settled; a comparison misses nothing |
| Checkpoint file store, `crates/recovery` | the file, its backups, the lock file | save (lock, write, rotate, copy, rename, unlock), restore_backup | one saver; the file is replaced as a whole; a crash loses no checkpoint; who can removes the lock again |
| Agent sessions, scripts, takeovers, solve gate, `crates/agent-runtime` | sessions with usage counters and start time, active scripts, takeovers and their audit log | open, start, pause, cancel, consume, record, capture, advance_time, script start/finish/cancel, takeover request/accept/pause/resume/complete/expire, attempt_solve_challenge | quotas and deadlines hold; scripts are conserved; a solve was authorised; the log tells the story |
| Page tree, `crates/dom-observer`, `layout-observer`, `semantic-compiler`, `diff`, `state`, `frames` | nodes with references, boxes, the compiled tree, frames | insert, move, remove, update, compile, diff, apply, page, frame attach/navigate/detach | trees stay trees, or at least hang together; references are exact; a consumer's copy follows the differences; pages add up |
| Action planner and native input, `crates/action-planner`, `input` | a plan and the events dispatched so far | plan, plan_at_generation, execute, replay | a press lands where it was planned; no button or key stays down after a gesture that succeeds |
| Confirmation queue and policy, `crates/transactions` | requests with owner and deadline, undrained events | enqueue, approve, deny, escalate, expire, drain_events | only the owner decides, in time, once; the trail is truthful |
| Journals, `crates/event-observer`, `audit`, `diff`, `state` | bounded change and difference streams, numbered trace, hash-chained journal, snapshot store | publish, drain, append, retain, save, restore | a loss is reported once; retention keeps the chain verifiable; numbers never repeat |
| Permissions and capability broker, `crates/permissions`, `sandbox` | grants with expiry, pending requests | set, check, revoke, request, purge, restore | a revoked or expired grant never answers Allow again; every use was permitted at the time |
| Secret broker and vaults, `crates/secret-store`, `credentials`, `password-vault`, `payment-vault`, `identity-vault`, `totp`, `webauthn` | sealed secrets, capabilities with purpose, expiry and one-time use, an item index per vault | store, update, grant, revoke, with_secret, snapshot, restore; save, fill, remove, register, assert | one-time capabilities are spent once; the trace has every use; items and secrets correspond; only the current secret is disclosed |
| Downloads, uploads, clipboard, `crates/downloads`, `uploads`, `clipboard` | transfer records, gesture tokens | begin/authorize, progress, complete, cancel, quarantine, read, write | no finished transfer moves; a gesture is used once |
| Stores, `crates/storage`, `indexeddb`, `cache` | profile- and origin-partitioned maps, quotas, generations, transactions | set, remove, clone, clear, begin, put, delete, commit, abort, save, restore | quotas hold over all paths; a generation tells a change; aborts change nothing |
| Network, cookies, service workers, `crates/network`, `cookies`, `service-worker` | routes, cookie jar, cache, registrations, metrics, event and audit logs | fetch, fetch_worker, register, cookie set/expire | redirects and requests are bounded; every request is accounted for; no cookie or cached body crosses parties |
| Profiles and fingerprints, `crates/profiles`, `fingerprint` | profiles, limits, history, selection, catalogue | create, update, apply_fingerprint, select, delete, set_limits, record, to_json, from_json | limits in force are kept to; the selection exists; an identity that was checked is coherent |
| Navigation, tabs, workspace, `crates/navigation`, `tabs`, `workspace` | history and index per tab, active tab, windows, locks and permissions | navigate, back, forward, reload, stop, open, close, activate, create/focus/close window, attach_tab, checkpoint, restore | one foreground tab, one focused window, a tab shown once and in its profile, histories undo, page changes are numbered |

### Not modelled

| Component | Why |
|---|---|
| Agent protocol and page text, `crates/agent-protocol`, `page-text` | queries and a Markdown rendering of one snapshot: functions of a tree, mostly formatting and string matching |
| The other observers (`challenge-observer`, `css-observer`, `runtime-observer`, `shadow-dom`, `api-discovery`) and representations (`structural-ir`, `semantic-ir`, `application-ir`) | each extracts facts from one page at one moment by string matching; no state |
| WebSockets, `crates/network` | connections that share nothing with fetch; a state of their own worth a later model |
| File broker, `crates/file-broker` | path arithmetic over the operating system's tree |
| Metrics and logging | counters and an export that nothing reads |
| Desktop and headless hosts, conformance fixtures | argument parsing around one sequence of engine calls |

### How they interact

The server calls the engine facade, one call after the other, for the page of the
request's host; a sweeper thread shares only a flag with it and may end the
process between any two of these calls. `/auto-solve` asks the agent runtime's
gate before it dispatches input. The commands drive a live page the same way,
without a second thread: what races them is the page itself. The supervisor
routes messages between child processes over IPC channels, which it keeps when
a child dies. The planner asks the policy, dispatches input, and leaves the
confirmation to a queue that it never reads. The vaults each own a secret
broker; transfers and clipboard reads ask the permission broker. A fetch uses
the cookie jar, the cache and the worker registrations of the stack it belongs
to. A workspace owns a tab manager, which owns one navigation history per tab;
the `tabs` field is public, so callers change tabs without the workspace seeing
it. Workspaces, sessions and stores are persisted through checkpoints which the
file store keeps on disk, possibly for several processes.

## Hard behaviours

- **Interleaving.** Little of BrowsAI is multi-threaded, and what is has been
  modelled: the accept loop against the sweeper; processes that share a checkpoint
  file; the supervisor against children that exit when they like.
- **Failure in the middle.** `stop` drops a handle before `kill` can fail,
  `restart_after_crash` changes the topology before the spawn, `create_page`
  inserts a record before its WebView exists, a fingerprint change evicts a
  session before its replacement is created, `finish` takes a script out before
  its checks.
- **Crash and restart.** Between any two file-system calls of a save; between the
  two ends of a channel.
- **Deadlines that nobody watches.** Takeovers, confirmations and session run
  times pass without an event; the next call must notice.
- **Stale documents.** Tab managers, workspaces, permissions, secrets, stores,
  journals and profiles are restored from files older than the state they replace.
  What such a file says may be stale in itself: two tabs that claim the foreground, an
  active tab that is gone, entries over the limit, an entry offered twice.
- **Data taken as it is given.** A node is inserted with the children it names, a
  checkpoint's tabs are not repaired, a configuration is not cleared of repetitions.
  Invariants that the operations keep are then not there to begin with.
- **A page that moves on.** Between planning and dispatch, between two clicks,
  between a load that is begun and the load that is reported, the page changes.
- **Bounded records.** Streams, histories and snapshot stores forget; their
  readers must learn that they did.
- **Limits.** Channel capacity, quotas, backup retention, attempts, saturating
  clocks, and limits of 0, which here mean "none" and there "no limit".

`PROJECT.json` lists each of these hazards at its line with the properties that
would catch it.

## Modules and the code they model

A call that is refused and changes nothing is either a step that leaves the
answer in `result` or `reply` (where a caller depends on the answer) or no step.
Definitions named `Mutant: ...` in their comment are not part of a model; they are
the deliberate bugs against which the properties are tested.

Most crates share no state with each other. Small components therefore share a
composed module (`Processes`, `AgentSessions`, `AgentPage`, `Authority`,
`BrowserData`, `CommandLine`) with a variable `part` that `Init` chooses: a
behaviour is one of a single part, the other variables keep their initial values,
and one run checks the properties of all of them without the product of their
states. Where components do interact (server and engine, planner and page,
vault and broker, transfer and permission, fetch with cookies, cache and workers,
workspace and tabs, command and live page) they are in one part.

**Processes.** **`Ipc`** (operators only) is the router's `validate` and the pure
functions of a channel. A payload is the one fact the router looks for: whether it
has a raw secret field, and whether a handshake has the current version.
**`IpcChannel`** is one channel used by its two ends, with `cancel` and `reconnect`;
**`ProcessSupervisor`** composes a channel per route with the lifecycle of the
children. `child[k]` is the handle and what the process behind it is doing, which
the supervisor learns only from `poll`; `orphans` are live processes whose handle
was dropped. **`Fleet`** is the abstract specification, what the supervisor promises
without handles, error paths and sequence numbers: at most one process of a kind,
and per route a bounded first-in first-out inbox that only lawful messages enter.
The end of `ProcessSupervisor` instantiates it: `running[k]` counts the live child and
the orphan, and `inbox[r]` looks up what was accepted under the sequence number of each
queued envelope, so that a number stamped wrongly breaks the mapping.

**Server.** **`ServoEngine`** is the facade. Each operation leaves its `Result` in
`reply`, so a caller can be modelled one call at a time. Servo is external: any call
on a live page may fail, and a second construction in a process always does, because
Servo's options are process-wide. A URL stands for its origin. **`Server`** extends
it. `pc` says which engine call of which handler comes next; `sweeper_last` is the
copy of `last_activity` that `ServerControl::clone` makes. `/browse`, `/query` and
`/render` share one handler shape ("browse") and pass on no fingerprint;
`/native-input` dispatches a gesture event by event; `/auto-solve` settles, takes a
snapshot, and dispatches. Framing, paging and rendering are left out.

**Recovery.** **`FileRecoveryStore`** has one action per file-system call, a program
counter per process, and a `Crash` that can fall between any two. A file is a
checkpoint, absent, or torn (what a copy has not finished). `restore_backup` takes no
lock, as in the code. `save` ignores an error of the removal of its lock file
(`recovery/src/lib.rs:292`), so `Unlock` may leave it. History variables record what the
last save replaced, whether something failed or was restored, and whether a saver left
its lock file behind, by dying or because it could not be removed.

**Agent sessions.** **`AgentRuntime`** is the session map and its clock;
**`ChallengeSolve`** adds the takeovers and the gate, **`AgentSessions`** the script
runtime. Page data is its length. The host passes the runtime's clock as the
takeovers' tick, as the server does.

**The agent's page.** **`PageTree`** is the observed document with its layout, the
compiled tree, a consumer that follows the differences or reads the tree in pages,
and the frame tree. `InsertNode` takes a node with the children it names (`Brought`), as
`RawDocument::apply` does, and `grafted` remembers that one did. Links may then be
missing, doubled or circular: `Subtree` passes over children that are not there,
`Ends` says that its recursion ends, and a removal or compilation that would overflow
the stack or panic is no step. **`ActionPlanning`** plans on it and dispatches the events of a
plan one by one while the page may change in between and any dispatch may fail.
**`Journals`** are the streams, the trace, the journal and the snapshot store, each
with the file it is saved to. **`ConfirmationQueue`** is the queue with the caller's
clock and the journal into which the caller drains the events.

**Authority.** **`SecretBroker`** seals a record under a key (a record opens with the
key it was sealed with, nothing else is said of the cipher) and counts its events;
**`Vaults`** are its callers, one after the other over the same broker state, because
each owns one. **`Permissions`** is the manager and the capability broker;
**`Transfers`** adds downloads, uploads and the clipboard, whose permissions are
granted, revoked, expire and are restored in between.

**Browser data.** **`ProfileStores`** are storage namespaces, databases and caches;
a value is its length, a cache entry its number. **`Network`** is one stack with its
jar, cache and workers: a host is its sequence of labels, because cookie domains match
suffixes, a path a sequence of segments, and a route table says what the
other side answers. **`Profiles`** tells user agents, brands and platforms apart by what
the consistency checks read in them. **`TabManager`** is the map of tabs with one history each, including a caller that
drives a history through `get_mut` and the restoration of stale JSON; a
URL is a document and a fragment, because `start` compares without the fragment. `tabFile`
is the manager as last written: restores bring back other tabs, older pages and older
generations, with the active tab and flags of that time or stale ones (`Files`).
**`Workspace`** composes it with windows and checkpoints; `from_json` of a manager repairs
stale flags (`Loaded`), `from_checkpoint` takes them as they are, and `repaired` remembers
which was last. Locks and permissions are two sets of names that no operation
combines, so one set stands for both; they are exercised in a part of their own. In
**`Profiles`** the history variable `past` of a profile counts the entries recorded with a
`max_entries` of 0, which trims nothing.

**Command line.** **`LiveRuntime`** is a page of the real runtime as the adapter polls
it: time is counted in polls, the runtime advances when the event loop is spun and
otherwise goes its own way. **`LiveSession`** is `live-open` and `live-search` stage by
stage over it, and the listing of links. **`CheckRuns`** is the checker with its store
and scheduler. `CommandLine` also holds the engine facade under an arbitrary caller.

**`MC*`** modules give the constants their values. **`*Proofs`** hold the theorems.

## Runs

State counts are TLC's distinct states.

| Run | Checks | Bounds, and why they are enough |
|---|---|---|
| `supervisor` (118 746) | `OneProcessPerKind`, `HandlesMatchTopology`, `ExactlyOnceInOrder`, `ImplementsFleet` with failing spawn, kill and wait and children that exit at any time; `ChannelConserves` under cancels and reconnections | host, broker and renderer with their two production routes, so both directions between two supervised kinds exist; queues of 2, one route with 3 messages, so that it is full and refilled. The single channel has capacity 3 and 5 numbers: it wraps, and a cancel hits front, middle and end. The theorems remove the supervisor's bounds |
| `server` (137 966) | `HostSessionsHold`, `HostsDontInterfere`, `RequestAnswered`, `IdleServerExits` | two hosts and two requests of every kind: the second request meets the first one's session on the same host or another, kept, swept, or pinned to another fingerprint; sweep limit 1 s, shutdown 2 s, clock 2 s |
| `recovery_store` (248 917) | `OneSaver`, `CrashKeepsPrevious`, `MainReplacedWhole`, `LockReleased` | two processes, three checkpoints, retention 3: the rotation loop runs twice, so a crash can fall between two of its renames; any system call may fail, the removal of the lock too |
| `agent_sessions` (1.39 million) | `WorkIsPaidFor`, `NoWorkAfterDeadline`; `SolveWasAuthorised`, `TakeoverAuditTrail` | two sessions, so a script may be finished by the wrong one; quotas of 1 and 2; two takeovers (symmetric) with four audit entries: a whole life of one with another overlapping; policies with and without unattended solving |
| `agent_page` (840 690) | `DocumentIsSound`, `ConsumersSeeTheTree`, `GesturesAreClean`, `DecisionsAreTruthful`, `RecordsAreKept`, `DrainIsHonest` | three nodes (a chain, or two children that change places) with one of two texts, the given one or another set later; nodes that come without children or naming the second node, which is then missing, a sibling's, themselves or above them; boxes that overlap, hide and let through, two compilations between which everything may change; streams of capacity 0 and 2 with five publications; confirmations with timeouts 0 (raised to 1) and 2 before, at and after their deadline |
| `authority` (0.95 million) | `SecretsHold`, `CurrentSecretOnly`; `PermissionsHold`, `TransferLifecycle` | two secrets, two capabilities, two profiles, two keys (a restore under the right one and a wrong one), lifetimes none, 0 and 1; transfers of 0, 2 and 3 bytes against a limit of 2 |
| `browser_data` (515 408) | `StoresWithinLimits`, `StoresChangeWhole`; `RequestsHold`; `ProfilesHold`; `WorkspaceHolds`, `BackAndForwardUndo`, `PageChangesAreNumbered` | three namespaces with a quota that one entry fills and two exceed; two parties, a redirect, a domain cookie that expires and a same-site one, a route that changes, limits of 0 and 1, three requests: store, hit and expiry; two profiles at their limits, `max_entries` 0, 1 and 2, a file of version 1 that offers an entry twice; two tabs, windows and owners (symmetric), one tab with two navigations of its own, both written to a file before their navigations (`MaxSavedGeneration`) and restored after them, with stale flags; in a workspace with windows the tabs do not navigate (`MaxShownGeneration`), which windows do not look at |
| `command_line` (321 915) | `WaitsEndForTheirReason`, `LossIsAnnounced`, `ReportsAddUp`, `RunsAreSettled`, `ComparisonMissesNothing`, `PagesMoveForward` | three loads, one of them a reload that keeps the address; histories of 2 and 4 with 6 observations; corpora with a disabled and a repeated site, two runs to compare and two error texts, two workers, two attempts; two contexts and two pages with one shared navigation counter |
| `server_exit`, `solve_quota`, `profile_identity`, `live_clicks` | a violation each, see the next section | |

`CHECK_DEADLOCK FALSE` is set where a behaviour ends because a named bound, the
command's end or the process's exit is reached; `supervisor` never stops. A property
whose name ends in *Hold* or speaks for several parts is a conjunction of named
parts, and `PROJECT.json` has a mutant for each.

What the less obvious properties say:

- `OneProcessPerKind`. A kind whose process survived a failed `kill` still counts
  as occupied, though its handle is gone: only the state that `stop` did not get
  to update keeps `launch` from starting a second process.
- `HostSessionsHold`. The active hosts are exactly those with a session, each with a
  page of its own; a request works on the session it started with, and on one with the
  fingerprint it asked for; nothing is live without a runtime.
- `CrashKeepsPrevious`. With at least two backups, a crash anywhere in a save
  leaves the checkpoint before the last one in some backup. It does not
  cover saves that *fail* after their rotation (each pushes the oldest
  backup out) or files after a restore; its premise names both.
- `RequestAnswered`. A request ends with an answer or with the process. That the process
  may end in the middle of a request is thereby allowed, since the code allows it;
  when it may end at all is `IdleServerExits` and the violated `ExitOnlyWhenIdle`.
- `LockReleased`. The lock file is removed after every outcome of a save, errors
  included, unless its saver dies or the removal itself fails. Then it stays, and every
  later `save` answers `LockHeld`: the code has no owner or age to break it by, and
  `save` may have answered `Ok`.
- `DocumentIsSound`. As long as nodes come without children the document is one tree.
  When one brings children nobody checks them (`dom-observer/src/lib.rs:211-232`), and
  links may go anywhere; but whatever they are, `Rooted` holds: every node has a parent
  that is there and lists it, so a removal leaves nothing behind that cannot be reached.
- `NoWorkAfterDeadline`. `start` resumes a paused session without looking at its
  deadline; no counter may move afterwards.
- `DecisionsAreTruthful`. The trail never claims an outcome the queue did not have,
  but it may lack one (see below).
- `ConsumersSeeTheTree`. Whoever applies every difference has the tree that was
  compiled, and the pages read against one snapshot are that snapshot, whatever was
  compiled since.
- `GesturesAreClean`. A press lands on the node it was planned for unless the page
  changed after the plan was made, and every plan releases what it pressed. Two hazards
  are limits of this promise and not covered by it: a page that moves between plan and
  press, and a failed dispatch that leaves buttons and keys down, which nothing in the
  planner releases. The code does nothing about either.
- `DrainIsHonest`. A drain without loss is exactly what was published since the last
  one, in order; a loss is always announced, and what comes with it is the newest part
  of what was published.
- `SecretsHold`. Restoring a snapshot brings back a capability that was spent after
  it; within one life of a broker it is spent once.
- `ProfilesHold`. A profile keeps no more than its limits allow, but for entries that
  came on top with a `max_entries` of 0. Entries that were recorded are offered once;
  a configuration or file that offers one twice is taken as it is.
- `OneForegroundTab` (in `WorkspaceHolds`). Exactly the active tab is in the foreground,
  until a checkpoint brings stale flags, and again from the next switch, closing of the
  active tab or `from_json` on.
- `PageChangesAreNumbered`. From one restore to the next no page changes without a new
  navigation generation. A restore brings back the tabs of the file, all of them with the
  numbers they had then, and later navigations use those numbers again for other pages.
- `ReportsAddUp`. The clicks reported are the first of the links offered, all of them unless
  the page went away; every control there was to probe is probed or skipped, once.
- `ComparisonMissesNothing`. The comparison looks at statuses and at the set of
  fingerprints, so it is shown of two complete runs that what it calls equal have the
  same summary and coverage, failures and results of subsystems included.
- `CheckpointRoundTrips` (in `WorkspaceHolds`). A workspace accepts its own checkpoint,
  provided no caller closed a tab that a window still lists or opened one of another
  profile.

## Disagreements with the documentation

Four are shown by runs that TLC ends with a counterexample:

- `server_exit`. `server.rs:13-14` promises to "exit cleanly after no request has
  been served for `N` seconds". The sweeper works on a clone whose `last_activity`
  is a copy (`server.rs:86`), so the process ends N seconds after its start,
  requests or not, possibly in the middle of one.
- `solve_quota`. `sandbox/src/lib.rs:145` says of unattended solving that
  the session "quota still applies". `attempt_solve_challenge` looks at no quota.
- `profile_identity`. `docs/profile-schema.md:56-58` calls it impossible that a profile's
  user agent and brands disagree. The migration of a version 1 file fills in Chrome's
  brands whatever the user agent (`profiles/src/lib.rs:758`), and reading a file runs no
  consistency check.
- `live_clicks`. The comment at `main.rs:811` says the remaining targets are never
  dispatched into a new page. The loop compares the address right after a click; a
  navigation that arrives later, or a reload, is not seen.

Others were met while modelling and are part of the models, without a run of
their own:

- Eviction of an idle host drops the session only; its context and page stay in the
  engine, which has no operation to remove them, while `docs/server.md:469-471` says
  that the process "does not grow without bound".
- A confirmation answered at or after its deadline expires without an event
  (`transactions/src/lib.rs:143`), while `tests/policy.rs:54` speaks of
  "replayable events". An approval changes nothing in the planner, which does not
  ask the queue.
- Every difference between two compilations replaces all surviving nodes, because a
  node carries the generation of its compilation.
- A redirect is followed without repeating what was done for the first URL: the cookie
  header and the certificate check are not made again.
- `max_attempts` of the scheduler allows one execution more than its name says.
  A run over a corpus is saved only when it has ended; a crash loses all of it. Its
  failures carry the run id "run-single-site".
- A load that begins while the previous one is still loading may return with the
  previous document.
- `ProfileManager::create` does not look at `max_profiles`. With a `max_entries` of 0
  `record_history` and `record_autocomplete` take the smaller of it and the limit, which
  is 0, as no limit at all (`profiles/src/lib.rs:299-305`, 324-330). `set_limits` and
  `from_json` change profiles without a new generation. The comment of
  `apply_fingerprint` names a field that does not exist.
- `TabManager::from_json` repairs the active tab so that "recovery cannot produce multiple
  focused tabs" (`tabs/src/lib.rs:171-172`). A workspace's checkpoint brings its tabs by
  another way, without that repair (`workspace/src/lib.rs:175-218`).
- An inserted node keeps the children it names, whether they are there or not. The
  compiler expects them to be there and the links to have no circle; it panics or
  overflows the stack otherwise.
- A lock file that cannot be removed after a save is left without notice
  (`recovery/src/lib.rs:292`).
- Closing a tab through the public `tabs` field leaves its id in a window; the
  workspace's own checkpoint is then rejected (`workspace/src/lib.rs:46`, 197).
- After a failed respawn `restart_after_crash` answers `UnknownProcess` for a kind
  that is defined (`process-model/src/lib.rs:311`; the error's text is at 190).
- A failed Servo construction is tried again by every later `create_context`
  (`engine-servo/src/lib.rs:2173`), while `server.rs:22-23` reckons with one call.
- `/browse` accepts a `fingerprint` field (`docs/server.md:21`) that its handler
  does not read (`server.rs:1101`).

## Fairness

- `Server`: weak fairness of `Tick` (time passes), of `idle_loop` (a thread that
  wakes every second) and of `Serve` (the accept-loop thread while it works; each
  engine call returns, its waits being bounded by the code's timeouts). No
  fairness of `Accept`, `Dispatch` or `Reject`: a client need never connect, nor send
  what it announced. A client that connects and sends nothing therefore blocks the
  model as it blocks the server (`server.rs:301` reads without a timeout);
  no property denies it.
- `FileRecoveryStore`: weak fairness of each process's steps inside `save` (a
  process that does not crash is scheduled). `Crash` may always come first.
- The other specifications are safety only and assume none: nothing obliges a caller
  to make another call, or an external page to answer before its deadline.

## Proofs

`tlapm` checks every proof to its leaves. They use no assumption but the named
`ASSUME`s of the modules, which TLC evaluates in the runs. The assumptions say what
the constants are (numbers are numbers, bounds are natural numbers, an "absent" value is
no ordinary one); the ones that say more are listed with the proofs that use them. None
bounds a clock, a count, a queue or a set to what a run uses: the sets of hosts, pages,
sessions, secrets, profiles, URLs and the rest are arbitrary, and finite only where the
text below says so.

Every safety property of every passing run is a theorem; liveness is not (next section). The module of a proof extends the composed module, so a theorem speaks of the same
`Spec` that TLC runs. The proofs have one shape: an invariant that is inductive, one lemma
per operation that says what the operation does to it, and a last step in temporal logic.

**`ProcessSupervisorProofs`**, from `SupervisorAssumption` (routes connect kinds,
restart policies and envelopes have their types, channels have room for at least
one message), for every topology, message set and bound:

- `OneProcess`, `HandlesMatch`: from `LifecycleInv`, the lifecycle types together
  with `OneProcessPerKind` and `HandlesMatchTopology`. Neither is inductive alone: that
  an orphan's kind stays occupied needs that the handle dropped by `stop` belonged to
  a Running kind, and that `restart_after_crash` cannot double an orphan needs that a
  Crashed kind has none.
- `ExactlyOnce`: from `MessagingInv`, the messaging types with the property itself.
  `SendInStep` and `ReceiveInStep` isolate the sequence arithmetic: appending to the
  queue appends to received ++ queued, and moving the head leaves that
  concatenation alone.
- `SupervisorImplementsFleet`: initial states map to initial states of `Fleet`, and every
  step to one of its steps or to a stutter, from both invariants. A supervisor action is
  often several abstract ones or none: a failed kill leaves the process, a refused message
  leaves the inbox. `SupervisorInProcesses` carries the result over to the composed
  specification in which a single channel is exercised beside the supervisor.
- `ChannelsConserve`: numbers that were cancelled, received and queued are those that were
  stamped, each in one of the three, across any reconnection.

**`ServerProofs`**, for any hosts, fingerprints and limits:

- `HostSessionsAlwaysHold`: from `ServerInv`, in three parts. `EngineInv`: contexts and pages
  are numbered below their counters, so that an id handed out is new. `SessionsInv`: every
  session has a page and a context of its own. `RequestInv`: what the handler holds at
  each of its engine calls; between `create_context` and `create_page` it owns a
  context that no session has, which is why a sweep or an eviction in between does no harm.
- `HostsNeverInterfere`: no engine call changes a page that belongs to another host's session.

**`FileRecoveryStoreProofs`**, from `RecoveryAssumption` (retention is a natural
number, absent and torn files are no checkpoints), for any set of processes
and any retention, also 0 and 1:

- `MutualExclusion`, `ReplacedWhole`: from `IInv`, the type invariant, `OneSaver` and
  `HoldsCheckpoint`. The last says that whoever is about to rename holds
  a whole checkpoint, also a restorer that read a backup which is being
  rotated meanwhile, and where the rotation's index stands; without it `MainReplacedWhole`
  does not follow and the index could leave the slots.
- `CrashKeeps`: the checkpoint before the last one is in some backup after a crash
  anywhere. The invariant says, for each program counter of a saver, in which slot it is
  then: while the rotation moves it from `bak0` to `bak1`, between the copy of the file to
  `bak0` and the rename, and after it.

**`AgentSessionsProofs`**, for any sessions, limits, grants and scripts:

- `ScriptsArePaidFor`: from `SessionsInv` (counters within the limits; a session that was never
  opened has used nothing) and `ScriptsInv` (every script id is active, finished or cancelled,
  and a finished one was returned to its own session).
- `WorkStopsAtTheDeadline`: an action property of the same invariant.
- `AuditTellsAll`: from `TakeoversInv`. For each state of a takeover, the sequence of its
  entries in the log is the life that leads to it, and ticks in the log do not decrease.
  `TakeoverAssumption` makes the set of takeovers finite.
- `SolvesAreAuthorised`: from `SolvesInv`, which ties each recorded solve to the policy, the
  session and the takeover that allowed it, none of which can be taken back.

**`AgentPageProofs`**, for any nodes, plans, queues and capacities:

- `ConfirmationsAreTruthful`: from `QueueInv`. A request that is pending has exactly its
  request event in the trail, and one that is not has exactly one outcome after it, if the
  outcome is one the queue tells; ticks along the trail do not decrease. `ConfirmationAssumption`
  makes the set of request ids finite.
- `PressesHitTheirTarget`: from `GestureInv`: where each plan stands (`UnderWay`), which
  buttons and keys are down at that point, and that the target has not moved as long as
  `unmoved` says so.
- `DocumentStaysSound`: from `DocumentInv`, for any children that nodes bring. A document
  whose nodes came without any is a tree (`TreeWith`):
  some function tells how far each node is from the root, one more than its parent, and
  parents and children say the same. The distance is what a removal needs: nobody is below
  himself, so the subtree that goes leaves its parent and all outside it alone
  (`SubtreeHangs`), and no node is as far away as there are nodes, so the recursion of
  `Subtree`, which goes that deep, misses nothing (`SubtreeIs`). The same lemmas serve the
  frames. Of any document `RootedWith` says that the ways up end: each node is one further
  from the root than its parent, which lists it. The end of a removal's recursion means
  that all the removed nodes lead to goes too, so who stays has a parent that stays
  (`RemovalSpares`). References are never ahead of the document (`ReferencesInv`). `PageAssumption` has an
  absent id that is none of the ids, and at least one frame.
- `ConsumersSeeAll`: from `ConsumersInv`. Where keys are unique the map by key is a bijection
  (`KeyedIs`), so removing and adding what the difference names makes one tree of the other
  (`DifferenceApplies`). What a reader has are the first nodes of the tree it began with, which is
  the current one as long as the generations agree; a page takes at least one node
  (`TakenIs`), so it gets on.
- `RecordsAreAlwaysKept`: from `RecordsInv`: numbers in a trace or journal are consecutive
  (in a snapshot store, without repetition), each record is linked to the one before, and what
  retention left is a suffix; the same holds of the file that may be read back.
- `DrainsAreHonest`: from `ChangesInv` and `DiffsInv`. What a stream retains are consecutive
  numbers up to the last publication; a difference list is cut at increasing points, and the
  number dropped is the length of the gap.

**`AuthorityProofs`**, for any secrets, capabilities, lifetimes and permissions:

- `SecretsAlwaysHold`, `VaultsOpenCurrentSecrets`: from `CapabilitiesInv` (uses of a capability
  within one life of the broker, and what a restore forgot), `ItemsInv` (items and secrets
  correspond, in the vault and in the snapshot that may be restored), `AuditInv` and
  `ReleasesInv` (uses = drained + undrained events).
- `PermissionsAlwaysHold`: from `ManagerInv` (grants, decisions and the trail of calls say the
  same, in memory and in the file) and `BrokerInv` (a capability's decision and expiry are those
  of the last call about it).
- `TransfersMoveForward`: from `TransfersInv`.

**`BrowserDataProofs`**, for any tabs, windows, stores, requests and profiles:

- `WorkspaceAlwaysHolds`, `HistoryUndoes`, `PagesAreNumbered`: from `TabsInv`, which speaks of
  the tabs and of those last written alike, and `WindowsInv`. `TabAssumption` has stale
  flags and active tabs be any; in particular nothing is assumed of the age of a file.
- `StoresAlwaysChangeWhole`: from `StoresInv`.
- `StoresStayWithinLimits`: from `StorageInv`, `DatabaseInv` and `CachesInv`, each of which also
  speaks of the file that may be read back. The sums that the quotas are about are taken by
  `MapThenSumSet` in an order it chooses; `AddsAnyOrder` shows that any order gives the same,
  and `TotalFacts`, that taking an entry away takes its length away. `StoresAssumption` makes the
  set of store names finite, and the tables of entries are shown to be.
- `RequestsAlwaysHold`: from `RequestsInv`: metrics, events and audit count the same requests,
  and whatever is in a cache or a jar came from an answer to its own party.
  `NetworkAssumption` has a limit of requests in every configuration.
- `ProfilesAlwaysHold`: from `ManagerGood`. `ProfilesAssumption` has any configurations, also
  some that offer an entry twice, and any `max_entries`, also 0; it says that the identities
  in the file of version 1 were not checked by the consistency check, which did not exist.

**`CommandLineProofs`**, for any waits, limits, corpora and links:

- `PagesAlwaysMoveForward`: from `PagesInv`.
- `WaitsAlwaysEndForTheirReason`: from `WaitsInv`, one part per kind of wait: what the polls
  made so far have seen, and how long each counter has stood.
- `LossIsAlwaysAnnounced`: from `SeenInv`: what was observed is what is held, what was dropped,
  and what the marker stands for.
- `ReportsAlwaysAddUp`: from `SessionInv`, what the command knows at each of its stages, and
  `ListingInv`, the links of the pages so far. Probed, skipped and remaining controls are,
  at every point of the loop, those there were, each once. The sum of the clicks per outcome is shown equal
  to the clicks attempted (`SumIs`, `SumExists`).
- `RunsAreAlwaysSettled`: from `CorpusInv` and `SchedulerInv`: a scheduled site is
  in one place and carries the number of its attempts. `CheckAssumption` says that a corpus is
  a finite sequence and that the marks for missing and torn are no runs.
- `ComparisonsMissNothing`: from `FilesInv`, about any two stored runs. Each site of a stored
  run failed with one failure or passed with all subsystems (`OutcomeTold`), which is
  why equal statuses make equal sums.

Induction. The library's induction theorems take an operator and cannot be used with these
provers. Where a proof needs induction over numbers it argues with a least counterexample
(`LeastNumber`) or with a set in the place of the predicate (`UpTo`, `PartByPart`), and where it
needs that a recursive function exists it builds one (`RecursionExists`, `FoldExists`). The few
lemmas of this kind are repeated in the modules that need them.

What the proofs changed. Most operators could be reasoned about as they were. Some were
restated, to the same effect: filters of sequences as recursive functions (`OthersThan`,
`Rejection`), a `CASE` with overlapping arms as one without (`Events` of the planner), the
property of an idle wait, which spoke of a wait after its end, and that of a
listing's pages, which counted where it now compares.

## What is only model-checked, and what is not modelled

Only by TLC, on the instances above:

- liveness (`RequestAnswered`, `IdleServerExits`, `LockReleased`), which the prover does not
  reach.

Left out inside modelled components: Servo and the scripts that read a page's tree
out of it; the payloads of the engine's readers; HTTP framing and response bodies; the
agent sessions' memory map; generated mouse trajectories (floating-point curves); the
action history, a plain list; titles of history entries; file names and MIME types of
transfers; the event lists of the stores; the layout of reports; card and seed formats;
which role a node gets in the compiled tree; the in-memory `RecoveryStore` and the
recovery plan; default headers, locales and viewports of profiles. Unmodelled components
and why are in the inventory. Random ids (`Uuid`) are fresh members of a set, ordered
where the code iterates over a `BTreeMap`.

## Plan

Models that are left: WebSocket connections; the recovery plan and the in-memory store;
`FileRecoveryStore` as an atomic register while no backup is restored, and `Server` as
one independent session per host, each as an abstract specification like `Fleet`.
