------------------------- MODULE ProcessSupervisor -------------------------
(***************************************************************************)
(* ProcessTopology and ProcessSupervisor (crates/process-model): the       *)
(* lifecycle of the child processes and the channels between them.         *)
(*                                                                         *)
(* The supervisor is called from one thread; what interleaves with it is   *)
(* the operating system: a child exits at any moment, a spawn, a kill or a *)
(* wait fails.  child[k] is the handle the supervisor holds and what the   *)
(* process behind it is doing; orphans holds the kinds with a live process *)
(* whose handle was dropped.  accepted and received are the history of     *)
(* each channel.                                                           *)
(***************************************************************************)
EXTENDS Ipc

CONSTANTS Kinds,        \* the process kinds of the topology
          Routes,       \* the directed edges of the topology
          RestartPolicy,\* kind -> restart policy
          Ids,          \* request ids
          Envelopes,    \* the messages callers pass to route
          ChannelBound, \* IpcChannel::bounded(128) in route
          MaxMessages   \* bound, per route, on the messages accepted

ASSUME SupervisorAssumption ==
    /\ Routes \subseteq Kinds \X Kinds
    /\ RestartPolicy \in [Kinds -> {"Never", "OnFailure", "Always"}]
    /\ Envelopes \subseteq IpcEnvelope(Ids)
    /\ ChannelBound \in Nat \ {0}
    /\ MaxMessages \in [Routes -> Nat]

VARIABLES state,     \* ProcessSpec.state of each kind
          child,     \* children: the handle held, and its process
          launches,  \* the kinds with a remembered ProcessLaunch
          channels,  \* one IpcChannel per route
          orphans, accepted, received,
          result     \* what the last call returned

lifecycle == <<state, child, launches, orphans>>
messaging == <<channels, accepted, received>>
vars == <<state, child, launches, orphans, channels, accepted, received, result>>

ProcessState == {"Starting", "Running", "Stopping", "Crashed", "Stopped"}
Handle == {"none", "alive", "exited"}

Errors == {"UnknownProcess", "AlreadyRunning", "HostLaunchDenied", "Spawn",
           "NoLaunchSpec"} \cup IpcError

Results == [op : {"new", "launch", "poll", "stop", "restart", "route", "receive"},
            out : {"Ok", "Empty"} \cup Errors]

Stamps == [sequence : Nat, request_id : Ids]

Returned(op, out) == result' = [op |-> op, out |-> out]

\* ProcessTopology::production: the routes between the fourteen kinds.
ProductionRoutes ==
         ({"Host"} \X { "BrowserBroker", "CredentialBroker", "ProfileManager",
                        "PermissionManager", "Network", "FileBroker",
                        "DownloadBroker", "Audit", "WorkspaceManager",
                        "AgentRuntime", "Compositor" })
    \cup ({"BrowserBroker"} \X { "Renderer", "Network", "ProfileManager",
                                 "PermissionManager", "Audit", "WorkspaceManager" })
    \cup ({"WorkspaceManager"} \X {"Audit", "BrowserBroker"})
    \cup ({"AgentRuntime"} \X { "WorkspaceManager", "BrowserBroker",
                                "PermissionManager", "FileBroker", "DownloadBroker" })
    \cup ({"Renderer"} \X {"Worker", "BrowserBroker"})
    \cup {<<"Compositor", "Renderer">>}

\* Only the host restarts whatever happens; nothing is launched with Never.
ProductionRestart ==
    [k \in ProcessKind |-> IF k = "Host" THEN "Always" ELSE "OnFailure"]

Init ==
    /\ state    = [k \in Kinds |-> "Starting"]
    /\ child    = [k \in Kinds |-> "none"]
    /\ launches = {}
    /\ orphans  = {}
    /\ channels = [r \in Routes |-> Bounded(ChannelBound)]
    /\ accepted = [r \in Routes |-> << >>]
    /\ received = [r \in Routes |-> << >>]
    /\ result   = [op |-> "new", out |-> "Ok"]

---------------------------------------------------------------------------
HasChild(k) == child[k] # "none"

\* Mutant: only the handle counts.
OccupiedByHandle(k) == HasChild(k)

Occupied(k) == HasChild(k) \/ state[k] = "Running"

\* The spawn of launch: the three maps change together, or none does.
Spawned(k) ==
    /\ launches' = launches \cup {k}
    /\ child'    = [child EXCEPT ![k] = "alive"]
    /\ state'    = [state EXCEPT ![k] = "Running"]

\* ProcessSupervisor::launch.  A topology defines every ProcessKind, so the
\* UnknownProcess answer of the code has no case here.
launch(k) ==
    /\ UNCHANGED <<orphans, messaging>>
    /\ \/ /\ k = "Host"
          /\ Returned("launch", "HostLaunchDenied")
          /\ UNCHANGED <<state, child, launches>>
       \/ /\ k \in Kinds \ {"Host"} /\ Occupied(k)
          /\ Returned("launch", "AlreadyRunning")
          /\ UNCHANGED <<state, child, launches>>
       \/ /\ k \in Kinds \ {"Host"} /\ ~Occupied(k)
          /\ \/ Spawned(k) /\ Returned("launch", "Ok")
             \/ /\ Returned("launch", "Spawn")
                /\ UNCHANGED <<state, child, launches>>

\* Mutant: an exited child is marked crashed but its handle is kept.
PollKeepsHandle(k) ==
    /\ HasChild(k)
    /\ state' = [state EXCEPT ![k] = IF child[k] = "exited" THEN "Crashed" ELSE @]
    /\ Returned("poll", "Ok")
    /\ UNCHANGED <<child, launches, orphans, messaging>>

\* ProcessSupervisor::poll.  try_wait itself may fail, which changes nothing.
poll(k) ==
    /\ UNCHANGED <<launches, orphans, messaging>>
    /\ \/ /\ ~HasChild(k)
          /\ Returned("poll", "UnknownProcess")
          /\ UNCHANGED <<state, child>>
       \/ /\ HasChild(k)
          /\ Returned("poll", "Spawn")
          /\ UNCHANGED <<state, child>>
       \/ /\ child[k] = "alive"
          /\ Returned("poll", "Empty")
          /\ UNCHANGED <<state, child>>
       \/ /\ child[k] = "exited"
          /\ child' = [child EXCEPT ![k] = "none"]
          /\ state' = [state EXCEPT ![k] = "Crashed"]
          /\ Returned("poll", "Ok")

\* ProcessSupervisor::stop.  The handle leaves children before kill and wait
\* can fail, and a failure returns before launches and state are updated.
stop(k) ==
    /\ UNCHANGED messaging
    /\ \/ /\ ~HasChild(k)
          /\ Returned("stop", "UnknownProcess")
          /\ UNCHANGED lifecycle
       \/ /\ HasChild(k)
          /\ child' = [child EXCEPT ![k] = "none"]
          /\ \/ /\ launches' = launches \ {k}
                /\ state' = [state EXCEPT ![k] = "Stopped"]
                /\ Returned("stop", "Ok")
                /\ UNCHANGED orphans
             \/ \* kill failed on a live process
                /\ child[k] = "alive"
                /\ orphans' = orphans \cup {k}
                /\ Returned("stop", "Spawn")
                /\ UNCHANGED <<state, launches>>
             \/ \* killed, but wait failed
                /\ Returned("stop", "Spawn")
                /\ UNCHANGED <<state, launches, orphans>>

\* ProcessTopology::restart_after_crash lets this kind go.
Restartable(k) == state[k] = "Crashed" /\ RestartPolicy[k] # "Never"

\* ProcessSupervisor::restart_after_crash.  The topology is set to Starting
\* before launch, and a failed spawn leaves it there.
restart_after_crash(k) ==
    /\ UNCHANGED <<orphans, messaging>>
    /\ \/ /\ HasChild(k)
          /\ Returned("restart", "AlreadyRunning")
          /\ UNCHANGED <<state, child, launches>>
       \/ /\ ~HasChild(k) /\ k \notin launches
          /\ Returned("restart", "NoLaunchSpec")
          /\ UNCHANGED <<state, child, launches>>
       \/ /\ ~HasChild(k) /\ k \in launches /\ ~Restartable(k)
          /\ Returned("restart", "UnknownProcess")
          /\ UNCHANGED <<state, child, launches>>
       \/ /\ ~HasChild(k) /\ k \in launches /\ Restartable(k)
          /\ \/ Spawned(k) /\ Returned("restart", "Ok")
             \/ /\ state' = [state EXCEPT ![k] = "Starting"]
                /\ Returned("restart", "Spawn")
                /\ UNCHANGED <<child, launches>>

\* ProcessSupervisor::route: validate, then send on the edge's channel (which
\* the code creates on first use; an unused channel is an empty one).
route(m) ==
    LET r == <<m.source, m.destination>>
        verdict == Validate(Routes, m)
    IN /\ UNCHANGED <<lifecycle, received>>
       /\ \/ /\ verdict # "Ok"
             /\ Returned("route", verdict)
             /\ UNCHANGED <<channels, accepted>>
          \/ /\ verdict = "Ok" /\ Backpressure(channels[r])
             /\ Returned("route", "Backpressure")
             /\ UNCHANGED <<channels, accepted>>
          \/ /\ verdict = "Ok" /\ ~Backpressure(channels[r])
             /\ Len(accepted[r]) < MaxMessages[r]
             /\ channels' = [channels EXCEPT ![r] = Send(@, m.request_id)]
             /\ accepted' = [accepted EXCEPT ![r] = Append(@, m)]
             /\ Returned("route", "Ok")

\* Mutant: the message is looked at and left in the queue.
ReceivePeeks(r) ==
    /\ channels[r].queue # << >>
    /\ received' = [received EXCEPT ![r] = Append(@, Head(channels[r].queue))]
    /\ Len(received[r]) < Len(accepted[r])
    /\ Returned("receive", "Ok")
    /\ UNCHANGED <<lifecycle, accepted, channels>>

\* ProcessSupervisor::receive
receive(r) ==
    /\ UNCHANGED <<lifecycle, accepted>>
    /\ \/ /\ channels[r].queue = << >>
          /\ Returned("receive", "Empty")
          /\ UNCHANGED <<channels, received>>
       \/ /\ channels[r].queue # << >>
          /\ channels' = [channels EXCEPT ![r] = Receive(@)]
          /\ received' = [received EXCEPT ![r] = Append(@, Head(channels[r].queue))]
          /\ Returned("receive", "Ok")

\* A child process exits by itself; the supervisor learns of it from poll.
Exit(k) ==
    /\ child[k] = "alive"
    /\ child' = [child EXCEPT ![k] = "exited"]
    /\ UNCHANGED <<state, launches, orphans, messaging, result>>

\* A process nobody supervises any more exits.
OrphanExit(k) ==
    /\ k \in orphans
    /\ orphans' = orphans \ {k}
    /\ UNCHANGED <<state, child, launches, messaging, result>>

Next ==
    \/ \E k \in Kinds : \/ launch(k) \/ poll(k) \/ stop(k)
                        \/ restart_after_crash(k) \/ Exit(k) \/ OrphanExit(k)
    \/ \E m \in Envelopes : route(m)
    \/ \E r \in Routes : receive(r)

Spec == Init /\ [][Next]_vars

---------------------------------------------------------------------------
TypeOK ==
    /\ state    \in [Kinds -> ProcessState]
    /\ child    \in [Kinds -> Handle]
    /\ launches \subseteq Kinds
    /\ orphans  \subseteq Kinds
    /\ channels \in [Routes -> [capacity : {ChannelBound}, next_sequence : Nat,
                                queue : Seq(Stamps)]]
    /\ accepted \in [Routes -> Seq(Envelopes)]
    /\ received \in [Routes -> Seq(Stamps)]
    /\ result   \in Results

(* A process of a kind is alive at most once.  The danger is stop: it drops *)
(* the handle of a process it failed to kill, and only the state it forgot   *)
(* to update keeps launch from starting a second one.                        *)
OneProcessPerKind ==
    \A k \in orphans : ~HasChild(k) /\ Occupied(k)

(* A handle is only held for a Running kind whose launch is remembered, and  *)
(* a Crashed kind has no handle and can be restarted from its remembered     *)
(* launch: restart_after_crash of a crashed process never lacks its spec.    *)
HandlesMatchTopology ==
    \A k \in Kinds :
        /\ HasChild(k) => state[k] = "Running" /\ k \in launches
        /\ state[k] = "Crashed" => ~HasChild(k) /\ k \in launches
        /\ state[k] = "Stopped" => ~HasChild(k) /\ k \notin launches

(* Across crashes, restarts and stops of either end a channel delivers what  *)
(* route accepted exactly once and in order, numbered from zero: what was    *)
(* received followed by what is queued is what was accepted.                 *)
ExactlyOnceInOrder ==
    \A r \in Routes :
        /\ Len(accepted[r]) = Len(received[r]) + Len(channels[r].queue)
        /\ channels[r].next_sequence = Len(accepted[r])
        /\ Len(channels[r].queue) <= ChannelBound
        /\ \A i \in 1 .. Len(accepted[r]) :
               (received[r] \o channels[r].queue)[i] =
                   [sequence |-> i - 1, request_id |-> accepted[r][i].request_id]
---------------------------------------------------------------------------
(* The supervisor as an implementation of Fleet. *)

\* What may cross a route, in one sentence; Validate finds out in three checks.
Lawful ==
    {m \in Envelopes :
        /\ m.currentVersion
        /\ <<m.source, m.destination>> \in Routes
        /\ m.payload.type = "Handshake" => m.payload.currentVersion
        /\ m.payload.type \in {"Request", "Response"} => ~m.payload.rawSecret}

\* Processes count while they are alive, with or without a handle.
Alive(k) == (IF child[k] = "alive" THEN 1 ELSE 0) + (IF k \in orphans THEN 1 ELSE 0)
Running == [k \in Kinds |-> Alive(k)]

\* The sequence number stamped on a queued message tells which one it is.
Waiting(acc, queue) == [i \in DOMAIN queue |-> acc[queue[i].sequence + 1]]
Inbox == [r \in Routes |-> Waiting(accepted[r], channels[r].queue)]

Promise == INSTANCE Fleet WITH Bound <- ChannelBound, running <- Running, inbox <- Inbox

(* Every step of the supervisor and of the operating system is a step of the *)
(* promise or none of it: a launch, also one after a failed stop or crash,   *)
(* never starts a second process of a kind, route lets only lawful messages  *)
(* into a queue with room, and receive hands over the oldest one.            *)
ImplementsFleet == Promise!Spec
===========================================================================
