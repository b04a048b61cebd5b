------------------------------- MODULE Ipc -------------------------------
(***************************************************************************)
(* The message layer between BrowsAI's processes (crates/ipc): what a      *)
(* router lets through and what a bounded channel does with a message.     *)
(* Everything here is a pure operator; IpcChannel.tla and                  *)
(* ProcessSupervisor.tla give it state.                                    *)
(*                                                                         *)
(* An envelope keeps the fields the router and the channel look at.  A     *)
(* body is reduced to whether contains_raw_secret_field finds a secret key *)
(* in it, a version to whether it is the router's own.                     *)
(***************************************************************************)
EXTENDS Naturals, Sequences

\* enum ProcessKind
ProcessKind ==
    { "Host", "BrowserBroker", "CredentialBroker", "ProfileManager",
      "PermissionManager", "Network", "FileBroker", "DownloadBroker", "Audit",
      "WorkspaceManager", "Renderer", "Worker", "AgentRuntime", "Compositor" }

\* enum IpcMessage, with the body's contents reduced to "has a raw secret".
IpcMessage ==
         [type : {"Handshake"}, currentVersion : BOOLEAN]
    \cup [type : {"Request", "Response"}, rawSecret : BOOLEAN]
    \cup [type : {"Cancel", "CrashNotice"}]

\* struct IpcEnvelope as its sender fills it in.
IpcEnvelope(Ids) ==
    [ currentVersion : BOOLEAN,
      request_id     : Ids,
      source         : ProcessKind,
      destination    : ProcessKind,
      payload        : IpcMessage ]

IpcError == {"Unauthorized", "VersionMismatch", "Backpressure", "RawSecretPayload"}

RawSecret(m) == /\ m.payload.type \in {"Request", "Response"}
                /\ m.payload.rawSecret

BadHandshake(m) == /\ m.payload.type = "Handshake"
                   /\ ~m.payload.currentVersion

\* Mutant: bodies are not searched for secrets.
ValidateRouteOnly(allowed, m) ==
    IF ~m.currentVersion \/ BadHandshake(m)            THEN "VersionMismatch"
    ELSE IF <<m.source, m.destination>> \notin allowed THEN "Unauthorized"
    ELSE "Ok"

\* IpcRouter::validate: the first check that fails names the error.
Validate(allowed, m) ==
    IF ~m.currentVersion \/ BadHandshake(m)            THEN "VersionMismatch"
    ELSE IF <<m.source, m.destination>> \notin allowed THEN "Unauthorized"
    ELSE IF RawSecret(m)                               THEN "RawSecretPayload"
    ELSE "Ok"

---------------------------------------------------------------------------
(* struct IpcChannel: the queue holds each message with the sequence number *)
(* the channel stamped on it.                                               *)

Bounded(capacity) ==
    [ capacity      |-> IF capacity = 0 THEN 1 ELSE capacity,
      next_sequence |-> 0,
      queue         |-> << >> ]

\* IpcChannel::send refuses exactly here.
Backpressure(ch) == Len(ch.queue) >= ch.capacity

Stamped(ch, id) == [sequence |-> ch.next_sequence, request_id |-> id]

\* Mutant: the counter is not advanced.
SendUnnumbered(ch, id) == [ch EXCEPT !.queue = Append(@, Stamped(ch, id))]

Send(ch, id) ==
    [ch EXCEPT !.next_sequence = @ + 1,
               !.queue         = Append(@, Stamped(ch, id))]

Receive(ch) == [ch EXCEPT !.queue = Tail(@)]

\* Mutant: the wrong ones are kept.
CancelOthers(ch, id) ==
    [ch EXCEPT !.queue = SelectSeq(@, LAMBDA m : m.request_id = id)]

\* VecDeque::retain: the messages of other requests, in their order.
Without(queue, id) ==
    LET kept[i \in 0 .. Len(queue)] ==
          IF i = 0 THEN << >>
          ELSE IF queue[i].request_id = id THEN kept[i - 1] ELSE Append(kept[i - 1], queue[i])
    IN kept[Len(queue)]

Cancel(ch, id) == [ch EXCEPT !.queue = Without(@, id)]

Reconnect(ch) == [ch EXCEPT !.queue = << >>, !.next_sequence = 0]
==========================================================================
