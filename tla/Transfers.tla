----------------------------- MODULE Transfers ------------------------------
(***************************************************************************)
(* What permissions are asked for: downloads (crates/downloads), uploads    *)
(* (crates/uploads) and the clipboard (crates/clipboard).  user says whose   *)
(* life this is; they share nothing but the permissions, and "broker" is    *)
(* the user of the CapabilityBroker.                                        *)
(***************************************************************************)
EXTENDS Permissions, FiniteSetsExt

CONSTANTS Ids,       \* fresh Uuids of handles and of gesture tokens
          Sizes,     \* sizes that pages announce
          Chunks,    \* sizes of a step of progress
          MaxBytes   \* what the caller of begin accepts

ASSUME TransferAssumption == Sizes \subseteq Nat /\ Chunks \subseteq Nat /\ MaxBytes \in Nat

VARIABLES user,
          handles,    \* id -> handle that begin or authorize returned
          transfers,  \* id -> DownloadRecord or UploadRecord
          clipboard,  \* subject -> the value kept for it, by who wrote it
          gestures,   \* outstanding user gestures
          permitted        \* history: what the trail said when a permission was used

transferVars == <<handles, transfers>>
clipboardVars == <<clipboard, gestures>>
allTransferVars == <<permissionVars, brokerVars, ticks, user, transferVars, clipboardVars, permitted>>

Finished == {"Completed", "Cancelled", "Quarantined"}

TransfersInit ==
    /\ PermissionInit
    /\ user \in {"download", "upload", "clipboard", "broker"}
    /\ handles = << >> /\ transfers = << >> /\ clipboard = << >> /\ gestures = {} /\ permitted = {}

Authority == UNCHANGED <<permissionVars, brokerVars, ticks, user>>
-----------------------------------------------------------------------------
\* Mutant: what is not denied is taken for granted.
HoldUnlessDenied(id, s, bytes, permission) ==
    /\ id \notin DOMAIN handles
    /\ check(<<s, permission>>) # "Denied"
    /\ bytes <= MaxBytes
    /\ handles' = WithKey(handles, id, [subject |-> s, bytes |-> bytes])
    /\ permitted' = permitted \cup {Told(<<s, permission>>)}
    /\ Authority /\ UNCHANGED <<transfers, clipboardVars>>

\* A fresh handle for what is permitted now and not too large.
Hold(id, s, bytes, permission) ==
    /\ id \notin DOMAIN handles
    /\ check(<<s, permission>>) = "Granted"
    /\ bytes <= MaxBytes
    /\ handles' = WithKey(handles, id, [subject |-> s, bytes |-> bytes])
    /\ permitted' = permitted \cup {Told(<<s, permission>>)}
    /\ Authority /\ UNCHANGED <<transfers, clipboardVars>>

Move(id, record) ==
    /\ transfers' = WithKey(transfers, id, record)
    /\ Authority /\ UNCHANGED <<handles, clipboardVars, permitted>>

Underway(id) == id \in DOMAIN transfers /\ transfers[id].state \notin Finished

\* Mutant: the state is not looked at again once the bytes are counted.
AdvanceOnly(id, n) ==
    [state |-> "InProgress", received |-> Min({transfers[id].received + n, handles[id].bytes})]

Advanced(id, n) ==
    LET received == Min({transfers[id].received + n, handles[id].bytes})
    IN [state |-> IF received = handles[id].bytes THEN "Completed" ELSE "InProgress",
        received |-> received]

begin(id, s, bytes) == user = "download" /\ Hold(id, s, bytes, "Downloads")

\* A handle is added whenever its holder likes, and again if it likes.
add(id) ==
    /\ user = "download" /\ id \in DOMAIN handles
    /\ Move(id, [state |-> "Pending", received |-> 0])

progress(id, n) == user = "download" /\ Underway(id) /\ Move(id, Advanced(id, n))

cancel(id) ==
    /\ user = "download" /\ Underway(id)
    /\ Move(id, [transfers[id] EXCEPT !.state = "Cancelled"])

\* A quarantined download may be quarantined again.
quarantine(id) ==
    /\ user = "download"
    /\ id \in DOMAIN transfers /\ transfers[id].state \notin {"Completed", "Cancelled"}
    /\ Move(id, [transfers[id] EXCEPT !.state = "Quarantined"])

\* Uploads are the same without a quarantine.
authorize(id, s, bytes) == user = "upload" /\ Hold(id, s, bytes, "Uploads")

upload_add(id) ==
    /\ user = "upload" /\ id \in DOMAIN handles
    /\ Move(id, [state |-> "Pending", received |-> 0])

upload_progress(id, n) == user = "upload" /\ Underway(id) /\ Move(id, Advanced(id, n))

upload_cancel(id) ==
    /\ user = "upload" /\ Underway(id)
    /\ Move(id, [transfers[id] EXCEPT !.state = "Cancelled"])
-----------------------------------------------------------------------------
write(s) ==
    /\ user = "clipboard" /\ check(<<s, "ClipboardWrite">>) = "Granted"
    /\ clipboard' = WithKey(clipboard, s, s)
    /\ permitted' = permitted \cup {Told(<<s, "ClipboardWrite">>)}
    /\ Authority /\ UNCHANGED <<transferVars, gestures>>

issue_user_gesture(g) ==
    /\ user = "clipboard" /\ g \notin gestures /\ g \notin DOMAIN handles
    /\ gestures' = gestures \cup {g}
    /\ Authority /\ UNCHANGED <<transferVars, clipboard, permitted>>

\* The gesture is spent before the permission is looked at; handles keeps
\* which reads were answered, and for whom.
read_with_gesture(g, s) ==
    /\ g \in gestures /\ gestures' = gestures \ {g}
    /\ IF check(<<s, "ClipboardRead">>) = "Granted"
       THEN /\ handles' = WithKey(handles, g, [subject |-> s, bytes |-> 0])
            /\ permitted' = permitted \cup {Told(<<s, "ClipboardRead">>)}
       ELSE UNCHANGED <<handles, permitted>>
    /\ Authority /\ UNCHANGED <<transfers, clipboard>>
-----------------------------------------------------------------------------
\* What its user may ask the PermissionManager for, here.
Wanted == CASE user = "download" -> {"Downloads"} [] user = "upload" -> {"Uploads"}
            [] user = "clipboard" -> {"ClipboardRead", "ClipboardWrite"} [] OTHER -> {}

Others == UNCHANGED <<user, transferVars, clipboardVars, permitted>>

Decisions ==
    /\ \/ \E s \in Subjects, p \in Wanted :
             \/ \E granted \in BOOLEAN : set(<<s, p>>, granted)
             \/ \E lifetime \in GrantLifetimes : grant_for(<<s, p>>, lifetime)
             \/ revoke_permission(<<s, p>>)
       \/ purge_expired
       \/ to_json /\ Wanted # {}
       \/ from_json
       \/ PermissionTick
    /\ Others

Capabilities ==
    /\ user = "broker"
    /\ \E s \in Subjects, o \in Places, c \in {"Render", "SolveChallenge"} :
          \/ \E lifetime \in GrantLifetimes, policy \in {renderer(o), agent, autonomous_agent} :
                grant(policy, s, c, lifetime)
          \/ deny(s, c)
          \/ revoke_capability(s, c)
    /\ Others

TransfersNext ==
    \/ Decisions
    \/ Capabilities
    \/ \E id \in Ids, s \in Subjects :
          \/ \E bytes \in Sizes : begin(id, s, bytes) \/ authorize(id, s, bytes)
          \/ read_with_gesture(id, s)
    \/ \E id \in Ids :
          \/ add(id) \/ upload_add(id)
          \/ \E n \in Chunks : progress(id, n) \/ upload_progress(id, n)
          \/ cancel(id) \/ upload_cancel(id)
          \/ quarantine(id)
          \/ issue_user_gesture(id)
    \/ \E s \in Subjects : write(s)

-----------------------------------------------------------------------------
(* A permission is used only while the events say that it is granted: no     *)
(* purge, restore or expiry in between lets a download, an upload or the     *)
(* clipboard pass on a stale answer.  What was begun may end after the       *)
(* permission is gone.                                                       *)
UsesWerePermitted == permitted \subseteq {"Granted"}

(* A transfer moves forward to one end: it counts no more than was announced,*)
(* progress that counts the last of it completes it and nothing else does    *)
(* (one of no bytes too waits for its first progress), and it does not go on *)
(* once it is complete, cancelled or quarantined, unless its handle is added *)
(* anew.                                                                     *)
TransferLifecycle ==
    [][\A id \in DOMAIN transfers :
          LET old == transfers[id]  new == transfers'[id]
          IN old # new /\ ~(new.state = "Pending" /\ new.received = 0) =>
                /\ old.state \notin Finished
                /\ new.received \in old.received..handles[id].bytes
                /\ new.state = "InProgress" => new.received < handles[id].bytes
                /\ new.state = "Completed" => new.received = handles[id].bytes]_allTransferVars

(* Manager and broker answer as they were told, and what acts on an answer   *)
(* acts on the present one (check, request, begin, authorize).               *)
PermissionsHold == AnswersFollowEvents /\ CapabilityFollowsCalls /\ UsesWerePermitted
=============================================================================
