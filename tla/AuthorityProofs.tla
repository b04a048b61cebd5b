-------------------------- MODULE AuthorityProofs ---------------------------
(***************************************************************************)
(* What the two authorities, the transfers and the vaults keep true for any *)
(* subjects, lifetimes, sizes, secrets and capabilities.                    *)
(***************************************************************************)
EXTENDS Authority, FiniteSetTheorems, TLAPS

(* The grants, the decisions and the last events say the same of a key: a    *)
(* key has a grant just when it was granted last, and is then also decided;  *)
(* a decision without a grant is a denial.                                   *)
SayTheSame(g, d, t) ==
    \A k : /\ k \in DOMAIN g <=> k \in DOMAIN t /\ t[k].event = "Granted"
           /\ k \in DOMAIN g => /\ g[k] = t[k].expires
                                /\ k \in DOMAIN d /\ d[k] = "Granted"
           /\ k \in DOMAIN d /\ k \notin DOMAIN g =>
                 d[k] = "Denied" /\ k \in DOMAIN t /\ t[k].event = "Denied"
           /\ k \in DOMAIN t /\ t[k].event = "Denied" => k \in DOMAIN d

(* What from_json makes of the entries that to_json wrote.                   *)
ReadDecisions(e) == [k \in DOMAIN e |-> e[k].decision]
(* The grants of the entries that have one.                                  *)
ReadGrants(e) == [k \in {k \in DOMAIN e : e[k].grant # {}} |-> CHOOSE g \in e[k].grant : TRUE]

(* The manager's maps, in memory and in its file, follow the events it       *)
(* emitted.                                                                  *)
ManagerInv ==
    /\ SayTheSame(grants, decisions, trail)
    /\ \A s \in saved : SayTheSame(ReadGrants(s.entries), ReadDecisions(s.entries), s.trail)

(* The invariant says what AnswersFollowEvents does.                         *)
LEMMA ManagerAnswers == ManagerInv => AnswersFollowEvents
  BY DEF ManagerInv, SayTheSame, AnswersFollowEvents, check, Told

(* Every decision, purge, tick, save and restore keeps the manager's         *)
(* invariant.                                                                *)
LEMMA ManagerStep == ManagerInv /\ [Next]_vars => ManagerInv'
  <1> SUFFICES ASSUME ManagerInv, [Next]_vars PROVE ManagerInv'
    OBVIOUS
  <1>1. CASE UNCHANGED permissionVars
    BY <1>1 DEF permissionVars, ManagerInv
  <1>2. ASSUME NEW k, NEW granted_now \in BOOLEAN, set(k, granted_now) PROVE ManagerInv'
    BY <1>2 DEF set, Decide, WithKey, WithoutKeys, Restrict, ManagerInv, SayTheSame
  <1>3. ASSUME NEW k, NEW lifetime, grant_for(k, lifetime) PROVE ManagerInv'
    BY <1>3 DEF grant_for, Decide, WithKey, ManagerInv, SayTheSame
  <1>4. ASSUME NEW k, revoke_permission(k) PROVE ManagerInv'
    BY <1>4 DEF revoke_permission, Decide, WithKey, WithoutKeys, Restrict, ManagerInv, SayTheSame
  <1>5. CASE purge_expired
    BY <1>5 DEF purge_expired, WithoutKeys, Restrict, ManagerInv, SayTheSame
  <1>6. CASE to_json
    <2> DEFINE e == [k \in DOMAIN grants \cup DOMAIN decisions |->
                        [decision |-> IF k \in DOMAIN decisions THEN decisions[k] ELSE "Granted",
                         grant |-> IF k \in DOMAIN grants THEN {grants[k]} ELSE {}]]
    <2>1. saved' = {[trail |-> trail, entries |-> e]} /\ UNCHANGED <<grants, decisions, trail>>
      BY <1>6 DEF to_json
    <2>2. /\ DOMAIN ReadGrants(e) = DOMAIN grants
          /\ \A k \in DOMAIN grants : ReadGrants(e)[k] = grants[k]
      BY DEF ReadGrants
    <2>3. /\ DOMAIN ReadDecisions(e) = DOMAIN decisions
          /\ \A k \in DOMAIN decisions : ReadDecisions(e)[k] = decisions[k]
      BY DEF ReadDecisions, ManagerInv, SayTheSame
    <2> HIDE DEF e
    <2>4. SayTheSame(ReadGrants(e), ReadDecisions(e), trail)
      BY <2>2, <2>3 DEF ManagerInv, SayTheSame
    <2> QED
      BY <2>1, <2>4 DEF ManagerInv
  <1>7. CASE from_json
    BY <1>7 DEF from_json, ManagerInv, ReadGrants, ReadDecisions
  <1> QED
    BY <1>1, <1>2, <1>3, <1>4, <1>5, <1>6, <1>7
    DEF Next, vars, TransfersNext, Decisions, PermissionTick, Capabilities, grant, deny,
        revoke_capability, begin, authorize, Hold, read_with_gesture, add, upload_add, progress,
        upload_progress, cancel, upload_cancel, quarantine, Move, issue_user_gesture, write, Authority,
        allTransferVars, vaultVars
-----------------------------------------------------------------------------
(* What the broker keeps is what the last call for it asked.                *)
BrokerInv ==
    /\ ticks \in Nat /\ DOMAIN capabilities = DOMAIN asked
    /\ \A k \in DOMAIN asked :
          LET a == asked[k]
              d == capabilities[k]
          IN /\ a.at \in Nat /\ a.at <= ticks /\ a.for \in SUBSET Nat
             /\ \/ a.call = "deny" /\ d.decision = "Denied" /\ d.expires = {}
                \/ /\ a.call = "grant" /\ d.decision = "Granted"
                   /\ d.expires = {a.at + (IF t = 0 THEN 1 ELSE t) : t \in a.for}

(* The invariant says what CapabilityFollowsCalls does.                      *)
LEMMA BrokerAnswers == BrokerInv => CapabilityFollowsCalls
  <1> SUFFICES ASSUME BrokerInv, NEW s \in Subjects, NEW c \in Capability, NEW policy_asked,
                      allows(policy_asked, s, c), <<s, c>> \in DOMAIN asked
               PROVE  LET a == asked[<<s, c>>]
                          answer == request(policy_asked, s, c)
                      IN /\ a.call = "deny" <=> answer = "Denied"
                         /\ a.call = "grant" /\ (a.at = ticks \/ a.for = {}) => answer = "Granted"
                         /\ a.call = "grant" /\ (\E t \in a.for : a.at + t <= ticks) /\ a.at # ticks
                               => answer = "Prompt"
    BY DEF CapabilityFollowsCalls, request, BrokerInv
  <1> DEFINE a == asked[<<s, c>>]
             d == capabilities[<<s, c>>]
  <1>1. /\ ticks \in Nat /\ a.at \in Nat /\ a.at <= ticks /\ a.for \in SUBSET Nat
        /\ \/ a.call = "deny" /\ d.decision = "Denied" /\ d.expires = {}
           \/ /\ a.call = "grant" /\ d.decision = "Granted"
              /\ d.expires = {a.at + (IF t = 0 THEN 1 ELSE t) : t \in a.for}
    BY DEF BrokerInv
  <1>2. request(policy_asked, s, c) = IF Over(d.expires) THEN "Prompt" ELSE d.decision
    BY DEF request, BrokerInv
  <1> DEFINE answer == request(policy_asked, s, c)
  <1> SUFFICES /\ a.call = "deny" <=> answer = "Denied"
               /\ a.call = "grant" /\ (a.at = ticks \/ a.for = {}) => answer = "Granted"
               /\ a.call = "grant" /\ (\E t \in a.for : a.at + t <= ticks) /\ a.at # ticks
                     => answer = "Prompt"
    OBVIOUS
  <1> HIDE DEF a, d, answer
  <1>3. answer = IF Over(d.expires) THEN "Prompt" ELSE d.decision
    BY <1>2 DEF answer
  <1>4. CASE a.call = "deny"
    BY <1>1, <1>3, <1>4 DEF Over
  <1>5. CASE a.call = "grant"
    <2>1. Over(d.expires) <=> \E t \in a.for : a.at + (IF t = 0 THEN 1 ELSE t) <= ticks
      BY <1>1, <1>5 DEF Over
    <2>2. a.at = ticks \/ a.for = {} => ~Over(d.expires)
      BY <1>1, <2>1
    <2>3. (\E t \in a.for : a.at + t <= ticks) /\ a.at # ticks => Over(d.expires)
      BY <1>1, <2>1
    <2> QED
      BY <1>1, <1>3, <1>5, <2>2, <2>3
  <1> QED
    BY <1>1, <1>4, <1>5

(* A call that is remembered as it is carried out.                          *)
LEMMA LastCall ==
    ASSUME BrokerInv, NEW k, NEW call, NEW made,
           capabilities' = WithKey(capabilities, k, made), asked' = WithKey(asked, k, call),
           ticks' = ticks, call.at = ticks, call.for \in SUBSET Nat,
           \/ call.call = "deny" /\ made.decision = "Denied" /\ made.expires = {}
           \/ /\ call.call = "grant" /\ made.decision = "Granted"
              /\ made.expires = {ticks + (IF t = 0 THEN 1 ELSE t) : t \in call.for}
    PROVE  BrokerInv'
  <1>1. /\ DOMAIN asked' = DOMAIN asked \cup {k} /\ DOMAIN capabilities' = DOMAIN capabilities \cup {k}
        /\ asked'[k] = call /\ capabilities'[k] = made
        /\ \A j \in DOMAIN asked \ {k} : asked'[j] = asked[j] /\ capabilities'[j] = capabilities[j]
    BY DEF WithKey, BrokerInv
  <1> QED
    BY <1>1 DEF BrokerInv

(* Every call of the capability broker keeps its invariant.                  *)
LEMMA BrokerStep == BrokerInv /\ [Next]_vars => BrokerInv'
  <1> SUFFICES ASSUME BrokerInv, [Next]_vars PROVE BrokerInv'
    OBVIOUS
  <1>1. CASE UNCHANGED <<brokerVars, ticks>>
    BY <1>1 DEF brokerVars, BrokerInv
  <1>2. CASE PermissionTick
    BY <1>2 DEF PermissionTick, brokerVars, BrokerInv
  <1>3. ASSUME NEW p, NEW s, NEW c, NEW lifetime \in SUBSET Nat, grant(p, s, c, lifetime) PROVE BrokerInv'
    <2> DEFINE key_asked == <<s, c>>
               call == [call |-> "grant", at |-> ticks, for |-> lifetime]
               made == [decision |-> "Granted",
                        expires |-> {ticks + (IF t = 0 THEN 1 ELSE t) : t \in lifetime}]
    <2>1. /\ capabilities' = WithKey(capabilities, key_asked, made)
          /\ asked' = WithKey(asked, key_asked, call) /\ ticks' = ticks
      BY <1>3 DEF grant
    <2>2. /\ call.call = "grant" /\ call.at = ticks /\ call.for = lifetime
          /\ made.decision = "Granted"
          /\ made.expires = {ticks + (IF t = 0 THEN 1 ELSE t) : t \in lifetime}
      OBVIOUS
    <2> HIDE DEF key_asked, call, made
    <2> QED
      BY <2>1, <2>2, LastCall
  <1>4. ASSUME NEW s, NEW c, deny(s, c) PROVE BrokerInv'
    <2> DEFINE key_asked == <<s, c>>
               call == [call |-> "deny", at |-> ticks, for |-> {}]
               made == [decision |-> "Denied", expires |-> {}]
    <2>1. /\ capabilities' = WithKey(capabilities, key_asked, made)
          /\ asked' = WithKey(asked, key_asked, call) /\ ticks' = ticks
      BY <1>4 DEF deny
    <2>2. /\ call.call = "deny" /\ call.at = ticks /\ call.for = {}
          /\ made.decision = "Denied" /\ made.expires = {}
      OBVIOUS
    <2> HIDE DEF key_asked, call, made
    <2> QED
      BY <2>1, <2>2, LastCall
  <1>5. ASSUME NEW s, NEW c, revoke_capability(s, c) PROVE BrokerInv'
    BY <1>5 DEF revoke_capability, WithoutKeys, Restrict, BrokerInv
  <1> QED
    BY <1>1, <1>2, <1>3, <1>4, <1>5, PermissionAssumption
    DEF Next, vars, TransfersNext, Decisions, Capabilities, set, grant_for, revoke_permission,
        purge_expired, to_json, from_json, begin, authorize, Hold, read_with_gesture, add, upload_add, progress,
        upload_progress, cancel, upload_cancel, quarantine, Move, issue_user_gesture, write, Authority,
        allTransferVars, vaultVars, PermissionAssumption

(* Whatever begins asks the manager in the same step.                        *)
LEMMA UsesStep == ManagerInv /\ UsesWerePermitted /\ [Next]_vars => UsesWerePermitted'
  <1> SUFFICES ASSUME AnswersFollowEvents, UsesWerePermitted, [Next]_vars PROVE UsesWerePermitted'
    BY ManagerAnswers
  <1>1. \A s \in Subjects, p \in Permission : check(<<s, p>>) = "Granted" => Told(<<s, p>>) = "Granted"
    BY DEF AnswersFollowEvents, PermissionKey
  <1> QED
    BY <1>1
    DEF UsesWerePermitted, Permission, Next, vars, TransfersNext, Decisions, Capabilities, Others,
        begin, authorize, Hold, read_with_gesture, add, upload_add, progress,
        upload_progress, cancel, upload_cancel, quarantine, Move, issue_user_gesture, write,
        allTransferVars, vaultVars

(* PermissionManager and CapabilityBroker answer as they were told through   *)
(* any decisions, expiries, purges, saves and restores, and downloads,       *)
(* uploads and the clipboard act on the present answer only.                 *)
THEOREM PermissionsAlwaysHold == Spec => []PermissionsHold
  <1>1. Init => ManagerInv /\ BrokerInv /\ UsesWerePermitted
    BY DEF Init, TransfersInit, PermissionInit, ManagerInv, SayTheSame, BrokerInv, UsesWerePermitted
  <1>2. ManagerInv /\ BrokerInv /\ UsesWerePermitted => PermissionsHold
    BY ManagerAnswers, BrokerAnswers DEF PermissionsHold
  <1> QED
    BY <1>1, <1>2, ManagerStep, BrokerStep, UsesStep, PTL DEF Spec
-----------------------------------------------------------------------------
(* A download or an upload.                                                  *)
TransferRecord == [state : {"Pending", "InProgress"} \cup Finished, received : Nat]

(* A transfer has a handle and counted no more than the handle allows; the   *)
(* clipboard, whose reads are also kept under handles, has no transfers.     *)
TransfersInv ==
    /\ gestures # {} => user = "clipboard"
    /\ DOMAIN transfers # {} => user # "clipboard"
    /\ \A id \in DOMAIN handles : handles[id].bytes \in Nat
    /\ \A id \in DOMAIN transfers :
          /\ id \in DOMAIN handles /\ transfers[id] \in TransferRecord
          /\ transfers[id].received <= handles[id].bytes

(* What progress makes of a record.                                          *)
LEMMA AdvancedRecord ==
    ASSUME TransfersInv, NEW id \in DOMAIN transfers, NEW n \in Nat
    PROVE  /\ Advanced(id, n) \in TransferRecord
           /\ Advanced(id, n).received \in transfers[id].received .. handles[id].bytes
           /\ Advanced(id, n).state = "InProgress" => Advanced(id, n).received < handles[id].bytes
           /\ Advanced(id, n).state = "Completed" => Advanced(id, n).received = handles[id].bytes
  <1> DEFINE total == transfers[id].received + n
             all == handles[id].bytes
             received == Min({total, all})
  <1>1. transfers[id].received \in Nat /\ total \in Nat /\ all \in Nat /\ transfers[id].received <= all
    BY DEF TransfersInv, TransferRecord
  <1>2. received = IF total <= all THEN total ELSE all
    <2>1. \E x \in {total, all} : \A y \in {total, all} : x <= y
      BY <1>1
    <2>2. received \in {total, all} /\ \A y \in {total, all} : received <= y
      BY <2>1 DEF Min
    <2> QED
      BY <1>1, <2>2
  <1>3. received \in transfers[id].received .. all /\ received \in Nat
    BY <1>1, <1>2
  <1>4. Advanced(id, n) = [state |-> IF received = all THEN "Completed" ELSE "InProgress",
                           received |-> received]
    BY DEF Advanced
  <1> HIDE DEF received
  <1> QED
    BY <1>1, <1>3, <1>4 DEF TransferRecord, Finished

(* The steps that touch handles and transfers: a record moves on, a handle   *)
(* is made, or only the gestures change.                                     *)
RecordMoves(id, r) ==
    /\ user # "clipboard" /\ id \in DOMAIN handles /\ r \in TransferRecord
    /\ r.received <= handles[id].bytes
    /\ id \in DOMAIN transfers =>
          \/ r.state = "Pending" /\ r.received = 0
          \/ r = transfers[id]
          \/ /\ transfers[id].state \notin Finished
             /\ r.received \in transfers[id].received .. handles[id].bytes
             /\ r.state = "InProgress" => r.received < handles[id].bytes
             /\ r.state = "Completed" => r.received = handles[id].bytes
    /\ transfers' = WithKey(transfers, id, r)
    /\ UNCHANGED <<user, handles, gestures>>

(* The transfer is made anew.                                                *)
HandleMade(id, r) ==
    /\ id \notin DOMAIN handles \/ user = "clipboard"
    /\ r.bytes \in Nat /\ handles' = WithKey(handles, id, r)
    /\ gestures' \subseteq gestures /\ UNCHANGED <<user, transfers>>

(* What a step may do to a transfer.                                         *)
TransferStep ==
    \/ \E id, r : RecordMoves(id, r) \/ HandleMade(id, r)
    \/ /\ gestures' # {} => user = "clipboard" \/ gestures # {}
       /\ UNCHANGED <<user, handles, transfers>>

(* Every operation does one of these.                                        *)
LEMMA TransferSteps ==
    ASSUME TransfersInv, [Next]_vars
    PROVE  TransferStep
  <1>1. ASSUME NEW id, NEW s, NEW bytes \in Nat, NEW permission, Hold(id, s, bytes, permission)
        PROVE  TransferStep
    <2> DEFINE r == [subject |-> s, bytes |-> bytes]
    <2>1. r.bytes \in Nat /\ id \notin DOMAIN handles /\ handles' = WithKey(handles, id, r)
          /\ UNCHANGED <<user, transfers, gestures>>
      BY <1>1 DEF Hold, Authority, clipboardVars
    <2> HIDE DEF r
    <2> QED
      BY <2>1 DEF TransferStep, HandleMade
  <1>2. ASSUME NEW id, NEW s, read_with_gesture(id, s) PROVE TransferStep
    <2>1. CASE UNCHANGED handles
      BY <1>2, <2>1 DEF read_with_gesture, Authority, TransferStep, TransfersInv
    <2>2. CASE check(<<s, "ClipboardRead">>) = "Granted"
      <3> DEFINE r == [subject |-> s, bytes |-> 0]
      <3>1. r.bytes \in Nat /\ user = "clipboard" /\ handles' = WithKey(handles, id, r)
            /\ UNCHANGED <<user, transfers>> /\ gestures' \subseteq gestures
        BY <1>2, <2>2 DEF read_with_gesture, Authority, TransfersInv
      <3> HIDE DEF r
      <3> QED
        BY <3>1 DEF TransferStep, HandleMade
    <2> QED
      BY <1>2, <2>1, <2>2 DEF read_with_gesture
  <1>3. ASSUME NEW id, add(id) \/ upload_add(id) PROVE TransferStep
    <2> DEFINE r == [state |-> "Pending", received |-> 0]
    <2>1. r \in TransferRecord /\ r.state = "Pending" /\ r.received = 0
      BY DEF TransferRecord
    <2>2. /\ user # "clipboard" /\ id \in DOMAIN handles /\ transfers' = WithKey(transfers, id, r)
          /\ UNCHANGED <<user, handles, gestures>>
      BY <1>3 DEF add, upload_add, Move, Authority, clipboardVars
    <2>3. r.received <= handles[id].bytes
      BY <2>1, <2>2 DEF TransfersInv
    <2> HIDE DEF r
    <2> QED
      BY <2>1, <2>2, <2>3 DEF TransferStep, RecordMoves
  <1>4. ASSUME NEW id, NEW n \in Nat, progress(id, n) \/ upload_progress(id, n) PROVE TransferStep
    <2> DEFINE r == Advanced(id, n)
    <2>1. /\ user # "clipboard" /\ id \in DOMAIN transfers /\ transfers[id].state \notin Finished
          /\ transfers' = WithKey(transfers, id, r) /\ UNCHANGED <<user, handles, gestures>>
      BY <1>4 DEF progress, upload_progress, Underway, Move, Authority, clipboardVars
    <2>2. /\ r \in TransferRecord /\ r.received \in transfers[id].received .. handles[id].bytes
          /\ r.state = "InProgress" => r.received < handles[id].bytes
          /\ r.state = "Completed" => r.received = handles[id].bytes
      BY <2>1, AdvancedRecord
    <2>3. /\ id \in DOMAIN handles /\ handles[id].bytes \in Nat /\ transfers[id].received \in Nat
      BY <2>1 DEF TransfersInv, TransferRecord
    <2> HIDE DEF r
    <2>4. r.received <= handles[id].bytes
      BY <2>2, <2>3
    <2> QED
      BY <2>1, <2>2, <2>3, <2>4 DEF TransferStep, RecordMoves
  <1>5. ASSUME NEW id, NEW st \in {"Cancelled", "Quarantined"},
               user # "clipboard", id \in DOMAIN transfers,
               transfers[id].state \notin Finished \/ transfers[id].state = st,
               Move(id, [transfers[id] EXCEPT !.state = st])
        PROVE  TransferStep
    <2> DEFINE r == [transfers[id] EXCEPT !.state = st]
    <2>1. transfers[id] \in TransferRecord /\ id \in DOMAIN handles /\ handles[id].bytes \in Nat
          /\ transfers[id].received <= handles[id].bytes
      BY <1>5 DEF TransfersInv
    <2>2. r \in TransferRecord /\ r.state = st /\ r.received = transfers[id].received
      BY <2>1 DEF TransferRecord, Finished
    <2>3. transfers[id].state = st => r = transfers[id]
      BY <2>1 DEF TransferRecord
    <2>4. transfers' = WithKey(transfers, id, r) /\ UNCHANGED <<user, handles, gestures>>
      BY <1>5 DEF Move, Authority, clipboardVars
    <2> HIDE DEF r
    <2>5. r.received \in transfers[id].received .. handles[id].bytes /\ r.received <= handles[id].bytes
      BY <2>1, <2>2 DEF TransferRecord
    <2> QED
      BY <1>5, <2>1, <2>2, <2>3, <2>4, <2>5 DEF TransferStep, RecordMoves
  <1>6. ASSUME NEW id, cancel(id) \/ upload_cancel(id) \/ quarantine(id) PROVE TransferStep
    BY <1>5, <1>6 DEF cancel, upload_cancel, quarantine, Underway, Finished
  <1>7. ASSUME NEW g, issue_user_gesture(g) PROVE TransferStep
    BY <1>7 DEF issue_user_gesture, Authority, transferVars, TransferStep
  <1>8. CASE UNCHANGED <<user, handles, transfers, gestures>>
    BY <1>8 DEF TransferStep
  <1> QED
    BY <1>1, <1>2, <1>3, <1>4, <1>6, <1>7, <1>8, TransferAssumption
    DEF Next, vars, TransfersNext, Decisions, Capabilities, Others, begin, authorize, write, Authority,
        allTransferVars, transferVars, clipboardVars, vaultVars, TransferAssumption

(* Every step keeps the records well formed.                                 *)
LEMMA TransfersStep == TransfersInv /\ [Next]_vars => TransfersInv'
  <1> SUFFICES ASSUME TransfersInv, TransferStep PROVE TransfersInv'
    BY TransferSteps
  <1>1. ASSUME NEW id, NEW r, RecordMoves(id, r) PROVE TransfersInv'
    BY <1>1 DEF RecordMoves, TransfersInv, WithKey
  <1>2. ASSUME NEW id, NEW r, HandleMade(id, r) PROVE TransfersInv'
    BY <1>2 DEF HandleMade, TransfersInv, WithKey
  <1>3. CASE (gestures' # {} => user = "clipboard" \/ gestures # {}) /\ UNCHANGED <<user, handles, transfers>>
    BY <1>3 DEF TransfersInv
  <1> QED
    BY <1>1, <1>2, <1>3 DEF TransferStep

(* Downloads and uploads move forward to one end (DownloadManager and        *)
(* UploadManager: add, progress, cancel, quarantine).                        *)
THEOREM TransfersMoveForward == Spec => TransferLifecycle
  <1> DEFINE A == \A id \in DOMAIN transfers :
                    LET old == transfers[id]  new == transfers'[id]
                    IN old # new /\ ~(new.state = "Pending" /\ new.received = 0) =>
                          /\ old.state \notin Finished
                          /\ new.received \in old.received..handles[id].bytes
                          /\ new.state = "InProgress" => new.received < handles[id].bytes
                          /\ new.state = "Completed" => new.received = handles[id].bytes
  <1>1. Init => TransfersInv
    BY DEF Init, TransfersInit, TransfersInv
  <1>2. TransfersInv /\ [Next]_vars => [A]_allTransferVars
    <2> SUFFICES ASSUME TransfersInv, TransferStep PROVE A
      BY TransferSteps
    <2>1. ASSUME NEW id, NEW r, RecordMoves(id, r) PROVE A
      BY <2>1 DEF RecordMoves, WithKey
    <2> QED
      BY <2>1 DEF TransferStep, HandleMade
  <1> HIDE DEF A
  <1>3. Spec => [][A]_allTransferVars
    BY <1>1, <1>2, TransfersStep, PTL DEF Spec
  <1> QED
    BY <1>3 DEF TransferLifecycle, A
-----------------------------------------------------------------------------
(* The capabilities: which there are, what they were used for, and that the  *)
(* snapshot knows of no spent one that the broker does not.                  *)
CapabilitiesInv ==
    /\ events \in Nat /\ journal \in Nat /\ IsFiniteSet(DOMAIN granted)
    /\ DOMAIN uses = DOMAIN granted /\ DOMAIN forgotten = DOMAIN granted
    /\ \A r \in DOMAIN granted : uses[r] \in Nat /\ forgotten[r] \in Nat
    /\ consumed \subseteq DOMAIN granted
    /\ snapshot # None => snapshot.consumed \subseteq consumed
    /\ asserted \in [Challenges -> Nat]
    /\ OneTimeSpentOnce

(* The steps of the broker, whichever vault takes them.                      *)
BrokerDoes ==
    \/ \E r, h, p, o, u, once, l : grant_for_with_consent(r, h, p, o, u, once, l)
    \/ \E r, p, o : with_secret(r, p, o)
    \/ drain_events
    \/ export_snapshot(items)
    \/ \E k : from_snapshot(k)
    \/ UNCHANGED <<events, journal, granted, uses, forgotten, consumed, snapshot>>

(* What a step may do to the challenges of WebAuthn.                         *)
PasskeysDo ==
    \/ \E c \in Challenges : /\ c \notin challenges /\ asserted[c] = 0
                             /\ challenges' = challenges \cup {c} /\ asserted' = asserted
    \/ \E c \in Challenges : complete_assertion(c)
    \/ UNCHANGED <<challenges, asserted>>

(* Every call of every vault is a call of its broker.                        *)
LEMMA VaultSteps == [Next]_vars => BrokerDoes /\ PasskeysDo
  <1> SUFFICES ASSUME [Next]_vars PROVE BrokerDoes /\ PasskeysDo
    OBVIOUS
  <1> USE DEF secretVars, keyVars, itemVars, Frame
  <1>1. CASE Direct
    BY <1>1 DEF Direct, BrokerDoes, PasskeysDo, store, revoke, set_policy, Tick
  <1>2. ASSUME NEW i, NEW p, NEW o,
               save_password(i, p, o) \/ add_card(i, p, o) \/ create(i, p, o) \/ save_seed(i, p, o)
        PROVE  BrokerDoes /\ PasskeysDo
    BY <1>2 DEF save_password, add_card, create, save_seed, AddItem, BrokerDoes, PasskeysDo
  <1>3. ASSUME NEW i, NEW p, NEW o,
               register(i, p, o) \/ \E c \in Challenges : begin_assertion(c, i, p, o)
        PROVE  BrokerDoes /\ PasskeysDo
    BY <1>3 DEF register, begin_assertion, BrokerDoes, PasskeysDo
  <1>4. ASSUME NEW r, NEW i, NEW p, NEW o,
               \/ grant_password(r, i, p, o) \/ authorize_with_confirmation(r, i, p, o)
               \/ \E f \in Fields : authorize_field(r, i, f, p, o)
               \/ capability(r, i, p, o)
        PROVE  BrokerDoes /\ PasskeysDo
    BY <1>4 DEF grant_password, authorize_with_confirmation, authorize_field, capability, GrantItem,
                BrokerDoes, PasskeysDo
  <1>5. ASSUME NEW r, NEW p, NEW o,
               \/ with_password(r, p, o) \/ with_card_number(r, p, o)
               \/ with_field(r, p, o) \/ with_code(r, p, o)
        PROVE  BrokerDoes /\ PasskeysDo
    BY <1>5 DEF with_password, with_card_number, with_field, with_code, BrokerDoes, PasskeysDo
  <1>6. ASSUME NEW i, NEW h, update_password(i, h) PROVE BrokerDoes /\ PasskeysDo
    BY <1>6 DEF update_password, BrokerDoes, PasskeysDo
  <1>7. ASSUME NEW c \in Challenges, complete_assertion(c) PROVE BrokerDoes /\ PasskeysDo
    BY <1>7 DEF complete_assertion, BrokerDoes, PasskeysDo
  <1>8. CASE (drain_events /\ UNCHANGED <<vault, itemVars, keyVars>>) \/ export \/ \E k \in Keys : restore(k)
    BY <1>8 DEF export, restore, BrokerDoes, PasskeysDo
  <1>9. CASE UNCHANGED vaultVars
    BY <1>9 DEF vaultVars, BrokerDoes, PasskeysDo
  <1> QED
    BY <1>1, <1>2, <1>3, <1>4, <1>5, <1>6, <1>7, <1>8, <1>9 DEF Next, vars, VaultsNext

(* Grants, uses, revocations, exports and restores keep the capabilities'    *)
(* invariant.                                                                *)
LEMMA CapabilitiesStep == CapabilitiesInv /\ [Next]_vars => CapabilitiesInv'
  <1> SUFFICES ASSUME CapabilitiesInv, BrokerDoes, PasskeysDo PROVE CapabilitiesInv'
    BY VaultSteps
  <1> DEFINE Honoured == \A r \in DOMAIN granted : granted[r].one_time =>
                            uses[r] = forgotten[r] + (IF r \in consumed THEN 1 ELSE 0)
             Answered == /\ asserted \in [Challenges -> Nat]
                         /\ \A c \in Challenges : asserted[c] + (IF c \in challenges THEN 1 ELSE 0) <= 1
             Held == /\ events \in Nat /\ journal \in Nat /\ IsFiniteSet(DOMAIN granted)
                     /\ DOMAIN uses = DOMAIN granted /\ DOMAIN forgotten = DOMAIN granted
                     /\ \A r \in DOMAIN granted : uses[r] \in Nat /\ forgotten[r] \in Nat
                     /\ consumed \subseteq DOMAIN granted
                     /\ snapshot # None => snapshot.consumed \subseteq consumed
                     /\ Honoured
  <1>1. Answered'
    BY DEF PasskeysDo, complete_assertion, CapabilitiesInv, OneTimeSpentOnce
  <1>2. Held
    BY DEF CapabilitiesInv, OneTimeSpentOnce
  <1>3. ASSUME NEW r, NEW h, NEW p, NEW o, NEW u, NEW once, NEW l,
               grant_for_with_consent(r, h, p, o, u, once, l)
        PROVE  Held'
    <2>1. IsFiniteSet(DOMAIN granted \cup {r})
      BY <1>2, FS_AddElement
    <2>2. r \notin DOMAIN granted /\ r \notin consumed
      BY <1>2, <1>3 DEF grant_for_with_consent
    <2>3. /\ DOMAIN granted' = DOMAIN granted \cup {r}
          /\ \A x \in DOMAIN granted : granted'[x] = granted[x]
          /\ uses' = Put(uses, r, 0) /\ forgotten' = Put(forgotten, r, 0)
          /\ UNCHANGED <<consumed, events, journal, snapshot>>
      BY <1>3, <2>2 DEF grant_for_with_consent, Put, Frame
    <2>4. /\ DOMAIN uses' = DOMAIN uses \cup {r} /\ DOMAIN forgotten' = DOMAIN forgotten \cup {r}
          /\ uses'[r] = 0 /\ forgotten'[r] = 0
          /\ \A x \in DOMAIN granted : uses'[x] = uses[x] /\ forgotten'[x] = forgotten[x]
      BY <1>2, <2>2, <2>3 DEF Put
    <2> QED
      BY <1>2, <2>1, <2>2, <2>3, <2>4
  <1>4. ASSUME NEW r, NEW p, NEW o, with_secret(r, p, o) PROVE Held'
    BY <1>2, <1>4 DEF with_secret, Presented, Spent, Frame
  <1>5. ASSUME drain_events PROVE Held'
    BY <1>2, <1>5 DEF drain_events
  <1>6. ASSUME export_snapshot(items) PROVE Held'
    BY <1>2, <1>6 DEF export_snapshot
  <1>7. ASSUME NEW k, from_snapshot(k) PROVE Held'
    BY <1>2, <1>7 DEF from_snapshot
  <1>8. ASSUME UNCHANGED <<events, journal, granted, uses, forgotten, consumed, snapshot>> PROVE Held'
    BY <1>2, <1>8
  <1>9. Held'
    BY <1>3, <1>4, <1>5, <1>6, <1>7, <1>8 DEF BrokerDoes
  <1> QED
    BY <1>1, <1>9 DEF CapabilitiesInv, OneTimeSpentOnce
-----------------------------------------------------------------------------
(* An item of a vault.                                                       *)
ItemRecord == [profile : Profiles, origin : Origins,
               handles : UNION {[F -> Handles] : F \in SUBSET (Fields \cup {"secret"})}]

(* Items and records belong together: an item's secrets are in the broker    *)
(* and are no other item's, and in a vault every record is some item's.      *)
Kept(its, recs, held, v) ==
    /\ DOMAIN recs \subseteq held
    /\ v = "direct" => DOMAIN its = {}
    /\ \A i \in DOMAIN its :
          /\ its[i] \in ItemRecord
          /\ v # "identity" => DOMAIN its[i].handles = {"secret"}
          /\ \A f \in DOMAIN its[i].handles :
                /\ its[i].handles[f] \in DOMAIN recs
                /\ recs[its[i].handles[f]].profile = its[i].profile
                /\ recs[its[i].handles[f]].origin = its[i].origin
    /\ \A i, j \in DOMAIN its : \A f \in DOMAIN its[i].handles, g \in DOMAIN its[j].handles :
          its[i].handles[f] = its[j].handles[g] => i = j /\ f = g
    /\ v # "direct" => \A h \in DOMAIN recs :
          \E i \in DOMAIN its : \E f \in DOMAIN its[i].handles : its[i].handles[f] = h

(* Items and secrets correspond, in memory and in the snapshot.              *)
ItemsInv ==
    /\ Kept(items, records, stored, vault)
    /\ snapshot # None => Kept(snapshot.extra, snapshot.records, stored, vault)

(* Saving more secrets leaves what is kept together as it is.                *)
LEMMA KeptStays ==
    ASSUME NEW its, NEW recs, NEW v, NEW held, NEW more, Kept(its, recs, held, v), held \subseteq more
    PROVE  Kept(its, recs, more, v)
  BY DEF Kept

(* A new item with fresh handles keeps them together ...                     *)
LEMMA AddKeeps ==
    ASSUME NEW i, NEW fields \in SUBSET (Fields \cup {"secret"}), NEW p \in Profiles, NEW o \in Origins,
           ItemsInv, vault # "direct", vault # "identity" => fields = {"secret"},
           AddItem(i, fields, p, o)
    PROVE  ItemsInv'
  <1>1. PICK handed \in [fields -> Handles \ stored] :
           LET new == {handed[f] : f \in fields}
           IN /\ \A f, g \in fields : handed[f] = handed[g] => f = g
              /\ items' = Put(items, i, [profile |-> p, origin |-> o, handles |-> handed])
              /\ records' = [h \in DOMAIN records \cup new |->
                               IF h \in new THEN Sealed(p, o) ELSE records[h]]
              /\ stored' = stored \cup new
    BY DEF AddItem
  <1> DEFINE new == {handed[f] : f \in fields}
             item == [profile |-> p, origin |-> o, handles |-> handed]
  <1>2. UNCHANGED <<vault, snapshot>> /\ i \notin DOMAIN items
    BY DEF AddItem, Frame
  <1>3. /\ item.profile = p /\ item.origin = o /\ item.handles = handed /\ DOMAIN handed = fields
        /\ item \in ItemRecord
    <2>1. handed \in [fields -> Handles]
      OBVIOUS
    <2>2. handed \in UNION {[F -> Handles] : F \in SUBSET (Fields \cup {"secret"})}
      BY <2>1
    <2> QED
      BY <2>2 DEF ItemRecord
  <1>4. Sealed(p, o).profile = p /\ Sealed(p, o).origin = o
    BY DEF Sealed
  <1>5. /\ DOMAIN items' = DOMAIN items \cup {i} /\ items'[i] = item
        /\ \A j \in DOMAIN items : items'[j] = items[j]
    BY <1>1, <1>2 DEF Put
  <1>6. /\ DOMAIN records' = DOMAIN records \cup new
        /\ \A f \in fields : handed[f] \in new /\ records'[handed[f]] = Sealed(p, o)
        /\ stored' = stored \cup new /\ \A h \in new : h \notin stored /\ \E f \in fields : handed[f] = h
    BY <1>1
  <1>7. \A h \in DOMAIN records : h \notin new /\ records'[h] = records[h]
    BY <1>1, <1>6 DEF ItemsInv, Kept
  <1> HIDE DEF new, item
  <1>8. Kept(items, records, stored, vault)'
    <2>1. ASSUME NEW j \in DOMAIN items'
          PROVE  /\ items'[j] \in ItemRecord
                 /\ vault # "identity" => DOMAIN items'[j].handles = {"secret"}
                 /\ \A f \in DOMAIN items'[j].handles :
                       /\ items'[j].handles[f] \in DOMAIN records'
                       /\ records'[items'[j].handles[f]].profile = items'[j].profile
                       /\ records'[items'[j].handles[f]].origin = items'[j].origin
      <3>1. CASE j = i
        BY <1>3, <1>4, <1>5, <1>6, <3>1
      <3>2. CASE j # i
        BY <1>5, <1>6, <1>7, <2>1, <3>2 DEF ItemsInv, Kept
      <3> QED
        BY <3>1, <3>2
    <2>2. ASSUME NEW j \in DOMAIN items', NEW k \in DOMAIN items',
                 NEW f \in DOMAIN items'[j].handles, NEW g \in DOMAIN items'[k].handles,
                 items'[j].handles[f] = items'[k].handles[g]
          PROVE  j = k /\ f = g
      <3>1. \A m \in DOMAIN items : \A x \in DOMAIN items[m].handles : items[m].handles[x] \notin new
        BY <1>7 DEF ItemsInv, Kept
      <3>2. CASE j = i /\ k = i
        BY <1>1, <1>3, <1>5, <2>2, <3>2
      <3>3. CASE j = i /\ k # i
        BY <1>3, <1>5, <1>6, <2>2, <3>1, <3>3
      <3>4. CASE j # i /\ k = i
        BY <1>3, <1>5, <1>6, <2>2, <3>1, <3>4
      <3>5. CASE j # i /\ k # i
        BY <1>5, <2>2, <3>5, SMTT(60) DEF ItemsInv, Kept
      <3> QED
        BY <3>2, <3>3, <3>4, <3>5
    <2>3. ASSUME NEW h \in DOMAIN records'
          PROVE  \E j \in DOMAIN items' : \E f \in DOMAIN items'[j].handles : items'[j].handles[f] = h
      <3>1. CASE h \in new
        BY <1>3, <1>5, <1>6, <3>1
      <3>2. CASE h \in DOMAIN records
        BY <1>5, <3>2 DEF ItemsInv, Kept
      <3> QED
        BY <1>6, <3>1, <3>2
    <2>4. DOMAIN records' \subseteq stored'
      BY <1>6 DEF ItemsInv, Kept
    <2> QED
      BY <1>2, <2>1, <2>2, <2>3, <2>4 DEF Kept
  <1>9. snapshot' # None => Kept(snapshot'.extra, snapshot'.records, stored', vault')
    BY <1>2, <1>6, KeptStays DEF ItemsInv
  <1> QED
    BY <1>8, <1>9 DEF ItemsInv

(* ... and so does a new password under a fresh handle.                      *)
LEMMA UpdateKeeps ==
    ASSUME NEW i, NEW h \in Handles, ItemsInv, update_password(i, h)
    PROVE  ItemsInv'
  <1> DEFINE old == items[i].handles["secret"]
             seal == Sealed(items[i].profile, items[i].origin)
  <1>1. /\ vault = "password" /\ i \in DOMAIN items /\ h \notin stored
        /\ records' = Drop(Put(records, h, seal), old)
        /\ stored' = stored \cup {h}
        /\ items' = [items EXCEPT ![i].handles["secret"] = h]
        /\ UNCHANGED <<vault, snapshot>>
    BY DEF update_password, Frame
  <1>2. /\ items[i] \in ItemRecord /\ DOMAIN items[i].handles = {"secret"}
        /\ old \in DOMAIN records /\ h \notin DOMAIN records /\ h # old
    BY <1>1 DEF ItemsInv, Kept
  <1>3. /\ DOMAIN items' = DOMAIN items
        /\ \A j \in DOMAIN items \ {i} : items'[j] = items[j]
        /\ items'[i] = [items[i] EXCEPT !.handles = [items[i].handles EXCEPT !["secret"] = h]]
    BY <1>1
  <1>4. /\ [items[i].handles EXCEPT !["secret"] = h] \in [{"secret"} -> Handles]
        /\ [items[i].handles EXCEPT !["secret"] = h]["secret"] = h
    BY <1>2 DEF ItemRecord
  <1>5. [items[i].handles EXCEPT !["secret"] = h]
             \in UNION {[F -> Handles] : F \in SUBSET (Fields \cup {"secret"})}
    BY <1>4
  <1>6. /\ items'[i].profile = items[i].profile /\ items'[i].origin = items[i].origin
        /\ items'[i].handles = [items[i].handles EXCEPT !["secret"] = h]
        /\ items'[i] \in ItemRecord
    BY <1>2, <1>3, <1>5 DEF ItemRecord
  <1>7. DOMAIN items'[i].handles = {"secret"} /\ items'[i].handles["secret"] = h
    BY <1>4, <1>6
  <1>8. /\ DOMAIN records' = (DOMAIN records \cup {h}) \ {old}
        /\ records'[h] = seal
        /\ \A x \in DOMAIN records \ {old} : records'[x] = records[x]
    BY <1>1, <1>2 DEF Drop, Put
  <1>9. seal.profile = items[i].profile /\ seal.origin = items[i].origin
    BY DEF Sealed
  <1>10. \A j \in DOMAIN items \ {i} : \A f \in DOMAIN items[j].handles :
            items[j].handles[f] \in DOMAIN records \ {old}
    BY <1>1, <1>2 DEF ItemsInv, Kept
  <1> HIDE DEF old, seal
  <1>11. Kept(items, records, stored, vault)'
    <2>1. ASSUME NEW j \in DOMAIN items'
          PROVE  /\ items'[j] \in ItemRecord
                 /\ DOMAIN items'[j].handles = {"secret"}
                 /\ \A f \in DOMAIN items'[j].handles :
                       /\ items'[j].handles[f] \in DOMAIN records'
                       /\ records'[items'[j].handles[f]].profile = items'[j].profile
                       /\ records'[items'[j].handles[f]].origin = items'[j].origin
      <3>1. CASE j = i
        BY <1>2, <1>6, <1>7, <1>8, <1>9, <3>1
      <3>2. CASE j # i
        BY <1>1, <1>3, <1>8, <1>10, <2>1, <3>2 DEF ItemsInv, Kept
      <3> QED
        BY <3>1, <3>2
    <2>2. ASSUME NEW j \in DOMAIN items', NEW k \in DOMAIN items',
                 NEW f \in DOMAIN items'[j].handles, NEW g \in DOMAIN items'[k].handles,
                 items'[j].handles[f] = items'[k].handles[g]
          PROVE  j = k /\ f = g
      <3>0. \A m \in DOMAIN items \ {i} : \A x \in DOMAIN items'[m].handles : items'[m].handles[x] # h
        BY <1>2, <1>3, <1>10
      <3>1. CASE j = i /\ k = i
        BY <1>7, <3>1
      <3>2. CASE j = i /\ k # i
        <4>1. k \in DOMAIN items \ {i} /\ items'[j].handles[f] = h
          BY <1>3, <1>7, <3>2
        <4> QED
          BY <2>2, <3>0, <4>1
      <3>3. CASE j # i /\ k = i
        <4>1. j \in DOMAIN items \ {i} /\ items'[k].handles[g] = h
          BY <1>3, <1>7, <3>3
        <4> QED
          BY <2>2, <3>0, <4>1
      <3>4. CASE j # i /\ k # i
        BY <1>3, <2>2, <3>4 DEF ItemsInv, Kept
      <3> QED
        BY <3>1, <3>2, <3>3, <3>4
    <2>3. ASSUME NEW x \in DOMAIN records'
          PROVE  \E j \in DOMAIN items' : \E f \in DOMAIN items'[j].handles : items'[j].handles[f] = x
      <3>1. CASE x = h
        BY <1>1, <1>3, <1>7, <3>1
      <3>2. CASE x \in DOMAIN records /\ x # old
        <4>1. PICK j \in DOMAIN items : \E f \in DOMAIN items[j].handles : items[j].handles[f] = x
          BY <1>1, <3>2 DEF ItemsInv, Kept
        <4>2. j # i
          BY <1>2, <3>2, <4>1 DEF old
        <4> QED
          BY <1>3, <4>1, <4>2
      <3> QED
        BY <1>8, <3>1, <3>2
    <2>4. DOMAIN records' \subseteq stored'
      BY <1>1, <1>8 DEF ItemsInv, Kept
    <2> QED
      BY <1>1, <2>1, <2>2, <2>3, <2>4, SMTT(60) DEF Kept
  <1>12. stored \subseteq stored' /\ UNCHANGED <<vault, snapshot>>
    BY <1>1
  <1>13. snapshot' # None => Kept(snapshot'.extra, snapshot'.records, stored', vault')
    BY <1>12, KeptStays DEF ItemsInv
  <1> QED
    BY <1>11, <1>13 DEF ItemsInv

(* Every call of a vault keeps items and secrets corresponding.              *)
LEMMA ItemsStep == ItemsInv /\ [Next]_vars => ItemsInv'
  <1> SUFFICES ASSUME ItemsInv, [Next]_vars PROVE ItemsInv'
    OBVIOUS
  <1> USE DEF secretVars, keyVars, itemVars, Frame
  <1>1. CASE UNCHANGED <<items, records, stored, vault, snapshot>>
    BY <1>1 DEF ItemsInv
  <1>2. CASE Direct
    <2>1. /\ vault = "direct" /\ UNCHANGED <<vault, items, snapshot>>
          /\ stored \subseteq stored' /\ (DOMAIN records \subseteq stored => DOMAIN records' \subseteq stored')
      BY <1>2, ZenonT(60) DEF Direct, store, revoke, grant_for_with_consent, with_secret, set_policy, Tick, Put, Drop
    <2> QED
      BY <2>1 DEF ItemsInv, Kept
  <1>3. ASSUME NEW i, NEW p \in Profiles, NEW o \in Origins,
               save_password(i, p, o) \/ add_card(i, p, o) \/ create(i, p, o) \/ save_seed(i, p, o)
        PROVE  ItemsInv'
    <2>1. PICK fields \in SUBSET (Fields \cup {"secret"}) :
             /\ AddItem(i, fields, p, o) /\ vault # "direct"
             /\ vault # "identity" => fields = {"secret"}
      BY <1>3 DEF save_password, add_card, create, save_seed
    <2> QED
      BY <2>1, AddKeeps
  <1>4. ASSUME NEW i, NEW h \in Handles, update_password(i, h) PROVE ItemsInv'
    BY <1>4, UpdateKeeps
  <1>5. CASE export
    <2>1. /\ UNCHANGED <<items, records, stored, vault>>
          /\ snapshot' = [records |-> records, consumed |-> consumed, policy |-> policy, extra |-> items]
      BY <1>5 DEF export, export_snapshot
    <2>2. snapshot'.records = records /\ snapshot'.extra = items
      BY <2>1
    <2> QED
      BY <2>1, <2>2 DEF ItemsInv
  <1>6. ASSUME NEW k, restore(k) PROVE ItemsInv'
    BY <1>6 DEF restore, from_snapshot, ItemsInv
  <1>7. ASSUME NEW r, NEW i, NEW p, NEW o,
               \/ grant_password(r, i, p, o) \/ authorize_with_confirmation(r, i, p, o)
               \/ \E f \in Fields : authorize_field(r, i, f, p, o)
               \/ capability(r, i, p, o)
               \/ with_password(r, p, o) \/ with_card_number(r, p, o)
               \/ with_field(r, p, o) \/ with_code(r, p, o)
               \/ register(i, p, o) \/ \E c \in Challenges : begin_assertion(c, i, p, o)
        PROVE  ItemsInv'
    BY <1>1, <1>7 DEF grant_password, authorize_with_confirmation, authorize_field, capability, GrantItem,
                grant_for_with_consent, with_password, with_card_number, with_field, with_code,
                with_secret, register, begin_assertion
  <1>8. ASSUME NEW c, complete_assertion(c) PROVE ItemsInv'
    BY <1>1, <1>8 DEF complete_assertion
  <1>9. CASE drain_events /\ UNCHANGED <<vault, itemVars, keyVars>>
    BY <1>1, <1>9 DEF drain_events
  <1>10. CASE UNCHANGED vaultVars
    BY <1>1, <1>10 DEF vaultVars
  <1> QED
    BY <1>2, <1>3, <1>4, <1>5, <1>6, <1>7, <1>8, <1>9, <1>10 DEF Next, vars, VaultsNext

(* What a vault that audits has written down; it is never restored.         *)
AuditInv ==
    /\ AuditIsComplete
    /\ vault \notin {"direct", "password"} => snapshot = None
    /\ audit \in [{"added", "authorized", "released"} -> Nat]
    /\ vault \in {"payment", "identity"} => IsFiniteSet(DOMAIN items)

(* Every call of an auditing vault keeps its audit in step with the broker.  *)
LEMMA AuditStep == CapabilitiesInv /\ ItemsInv /\ AuditInv /\ [Next]_vars => AuditInv'
  <1> SUFFICES ASSUME CapabilitiesInv, ItemsInv, AuditInv, [Next]_vars PROVE AuditInv'
    OBVIOUS
  <1> USE DEF secretVars, keyVars, itemVars, Frame
  <1>0. /\ events \in Nat /\ journal \in Nat /\ IsFiniteSet(DOMAIN granted)
        /\ audit \in [{"added", "authorized", "released"} -> Nat]
    BY DEF CapabilitiesInv, AuditInv
  <1>1. CASE UNCHANGED <<vault, audit, journal, events, granted, items, snapshot>>
    BY <1>1 DEF AuditInv, AuditIsComplete
  <1>2. CASE Direct
    <2>1. vault = "direct" /\ UNCHANGED <<vault, audit>>
      BY <1>2 DEF Direct
    <2> QED
      BY <2>1 DEF AuditInv, AuditIsComplete
  <1>3. ASSUME NEW i, NEW p, NEW o, save_password(i, p, o) \/ save_seed(i, p, o) PROVE AuditInv'
    <2>1. vault \in {"password", "totp"} /\ UNCHANGED <<vault, audit, snapshot>>
      BY <1>3 DEF save_password, save_seed, AddItem
    <2> QED
      BY <2>1 DEF AuditInv, AuditIsComplete
  <1>4. ASSUME NEW i, NEW p, NEW o, add_card(i, p, o) \/ create(i, p, o) PROVE AuditInv'
    <2>1. /\ vault \in {"payment", "identity"} /\ i \notin DOMAIN items /\ DOMAIN items' = DOMAIN items \cup {i}
          /\ UNCHANGED <<vault, journal, events, granted, snapshot>>
          /\ audit' = [audit EXCEPT !["added"] = @ + 1]
      BY <1>4 DEF add_card, create, AddItem, Record, Put
    <2>2. IsFiniteSet(DOMAIN items') /\ Cardinality(DOMAIN items') = Cardinality(DOMAIN items) + 1
      BY <2>1, FS_AddElement DEF AuditInv
    <2>3. /\ audit' \in [{"added", "authorized", "released"} -> Nat]
          /\ audit'["added"] = audit["added"] + 1
          /\ audit'["released"] = audit["released"] /\ audit'["authorized"] = audit["authorized"]
      BY <1>0, <2>1
    <2> QED
      BY <2>1, <2>2, <2>3 DEF AuditInv, AuditIsComplete
  <1>5. ASSUME NEW r, NEW i, NEW p, NEW o, grant_password(r, i, p, o) \/ capability(r, i, p, o)
        PROVE  AuditInv'
    <2>1. vault \in {"password", "totp"} /\ UNCHANGED <<vault, audit, snapshot>>
      BY <1>5 DEF grant_password, capability, GrantItem, grant_for_with_consent
    <2> QED
      BY <2>1 DEF AuditInv, AuditIsComplete
  <1>6. ASSUME NEW r, NEW i, NEW p, NEW o,
               authorize_with_confirmation(r, i, p, o) \/ \E f \in Fields : authorize_field(r, i, f, p, o)
        PROVE  AuditInv'
    <2>1. /\ vault \in {"payment", "identity"} /\ r \notin DOMAIN granted
          /\ DOMAIN granted' = DOMAIN granted \cup {r}
          /\ UNCHANGED <<vault, journal, events, items, snapshot>>
          /\ audit' = [audit EXCEPT !["authorized"] = @ + 1]
      BY <1>6 DEF authorize_with_confirmation, authorize_field, GrantItem, grant_for_with_consent, Record, Put
    <2>2. Cardinality(DOMAIN granted') = Cardinality(DOMAIN granted) + 1
      BY <1>0, <2>1, FS_AddElement
    <2>3. /\ audit' \in [{"added", "authorized", "released"} -> Nat]
          /\ audit'["authorized"] = audit["authorized"] + 1
          /\ audit'["released"] = audit["released"] /\ audit'["added"] = audit["added"]
      BY <1>0, <2>1
    <2> QED
      BY <2>1, <2>2, <2>3 DEF AuditInv, AuditIsComplete
  <1>7. ASSUME NEW r, NEW p, NEW o, with_password(r, p, o) \/ with_code(r, p, o) PROVE AuditInv'
    <2>1. vault \in {"password", "totp"} /\ UNCHANGED <<vault, audit, snapshot>>
      BY <1>7 DEF with_password, with_code, with_secret
    <2> QED
      BY <2>1 DEF AuditInv, AuditIsComplete
  <1>8. ASSUME NEW r, NEW p, NEW o, with_card_number(r, p, o) \/ with_field(r, p, o) PROVE AuditInv'
    <2>1. /\ vault \in {"payment", "identity"} /\ events' = events + 1
          /\ UNCHANGED <<vault, journal, granted, items, snapshot>>
      BY <1>8 DEF with_card_number, with_field, with_secret
    <2>2. audit' = [audit EXCEPT !["released"] = @ + 1]
      <3>1. CASE with_field(r, p, o)
        BY <3>1 DEF with_field, Record
      <3>2. CASE with_card_number(r, p, o)
        <4>1. vault = "payment" /\ granted[r].handle \in DOMAIN records
          BY <3>2 DEF with_card_number, with_secret, Opens
        <4>2. \E i \in DOMAIN items : items[i].handles["secret"] = granted[r].handle
          BY <4>1 DEF ItemsInv, Kept
        <4> QED
          BY <3>2, <4>2 DEF with_card_number, Record
      <3> QED
        BY <1>8, <3>1, <3>2
    <2>3. /\ audit' \in [{"added", "authorized", "released"} -> Nat]
          /\ audit'["released"] = audit["released"] + 1
          /\ audit'["authorized"] = audit["authorized"] /\ audit'["added"] = audit["added"]
      BY <1>0, <2>2
    <2> QED
      BY <1>0, <2>1, <2>3 DEF AuditInv, AuditIsComplete
  <1>9. ASSUME NEW i, NEW h, update_password(i, h) PROVE AuditInv'
    BY <1>9 DEF update_password, AuditInv, AuditIsComplete
  <1>10. CASE drain_events /\ UNCHANGED <<vault, itemVars, keyVars>>
    BY <1>0, <1>10 DEF drain_events, AuditInv, AuditIsComplete
  <1>11. CASE export
    BY <1>11 DEF export, export_snapshot, AuditInv, AuditIsComplete
  <1>12. ASSUME NEW k, restore(k) PROVE AuditInv'
    BY <1>12 DEF restore, from_snapshot, AuditInv, AuditIsComplete
  <1>13. ASSUME NEW i, NEW p, NEW o, register(i, p, o) \/ \E c \in Challenges : begin_assertion(c, i, p, o)
         PROVE  AuditInv'
    BY <1>1, <1>13 DEF register, begin_assertion
  <1>14. ASSUME NEW c, complete_assertion(c) PROVE AuditInv'
    BY <1>1, <1>14 DEF complete_assertion
  <1>15. CASE UNCHANGED vaultVars
    BY <1>1, <1>15 DEF vaultVars
  <1> QED
    BY <1>2, <1>3, <1>4, <1>5, <1>6, <1>7, <1>8, <1>9, <1>10, <1>11, <1>12, <1>13, <1>14, <1>15
    DEF Next, vars, VaultsNext

(* A vault starts empty.                                                     *)
LEMMA VaultsStart == Init => CapabilitiesInv /\ ItemsInv /\ AuditInv
  <1> SUFFICES ASSUME Init PROVE CapabilitiesInv /\ ItemsInv /\ AuditInv
    OBVIOUS
  <1>1. /\ DOMAIN granted = {} /\ DOMAIN uses = {} /\ DOMAIN forgotten = {} /\ DOMAIN items = {}
        /\ DOMAIN records = {} /\ consumed = {} /\ events = 0 /\ journal = 0 /\ snapshot = None
        /\ challenges = {} /\ asserted = [c \in Challenges |-> 0]
        /\ audit = [a \in {"added", "authorized", "released"} |-> 0]
    BY DEF Init, VaultsInit, SecretInit
  <1>2. IsFiniteSet({}) /\ Cardinality({}) = 0
    BY FS_EmptySet
  <1> QED
    BY <1>1, <1>2 DEF CapabilitiesInv, OneTimeSpentOnce, ItemsInv, Kept, AuditInv, AuditIsComplete

(* Each release is one more element of Releases.                            *)
ReleasesInv == IsFiniteSet(Releases) /\ journal + events = Cardinality(Releases)

(* Every release is traced.                                                  *)
LEMMA ReleasesStep == CapabilitiesInv /\ ReleasesInv /\ [Next]_vars => ReleasesInv'
  <1> SUFFICES ASSUME CapabilitiesInv, ReleasesInv, BrokerDoes PROVE ReleasesInv'
    BY VaultSteps
  <1>0. /\ events \in Nat /\ journal \in Nat /\ DOMAIN uses = DOMAIN granted
        /\ \A r \in DOMAIN uses : uses[r] \in Nat
    BY DEF CapabilitiesInv
  <1>1. ASSUME NEW r, NEW p, NEW o, with_secret(r, p, o) PROVE ReleasesInv'
    <2> DEFINE new == <<r, uses[r] + 1>>
    <2>1. r \in DOMAIN uses /\ uses' = [uses EXCEPT ![r] = @ + 1] /\ events' = events + 1 /\ journal' = journal
      BY <1>0, <1>1 DEF with_secret, Presented, Frame
    <2>2. \A q, n : <<q, n>> \in Releases <=> q \in DOMAIN uses /\ n \in 1 .. uses[q]
      BY DEF Releases
    <2>3. \A q, n : <<q, n>> \in Releases' <=> q \in DOMAIN uses' /\ n \in 1 .. uses'[q]
      BY DEF Releases
    <2>4. 1 .. uses'[r] = (1 .. uses[r]) \cup {uses[r] + 1} /\ uses[r] + 1 \notin 1 .. uses[r]
      BY <1>0, <2>1
    <2>5. /\ DOMAIN uses' = DOMAIN uses /\ \A q \in DOMAIN uses : q # r => uses'[q] = uses[q]
      BY <2>1
    <2>6. \A x : x \in Releases' <=> x \in Releases \cup {new}
      <3>1. \A x : x \in Releases \cup Releases' \cup {new} => x = <<x[1], x[2]>>
        BY DEF Releases
      <3>2. ASSUME NEW q, NEW n
            PROVE  <<q, n>> \in Releases' <=> <<q, n>> \in Releases \/ (q = r /\ n = uses[r] + 1)
        <4>1. CASE q = r
          BY <2>1, <2>2, <2>3, <2>4, <2>5, <4>1
        <4>2. CASE q # r
          BY <2>2, <2>3, <2>5, <4>2
        <4> QED
          BY <4>1, <4>2
      <3> QED
        BY <3>1, <3>2
    <2>7. Releases' = Releases \cup {new} /\ new \notin Releases
      BY <2>2, <2>4, <2>6
    <2> HIDE DEF new
    <2>8. IsFiniteSet(Releases') /\ Cardinality(Releases') = Cardinality(Releases) + 1
      BY <2>7, FS_AddElement DEF ReleasesInv
    <2> QED
      BY <1>0, <2>1, <2>8 DEF ReleasesInv
  <1>2. ASSUME UNCHANGED uses, journal' + events' = journal + events PROVE ReleasesInv'
    BY <1>2 DEF ReleasesInv, Releases
  <1>3. ASSUME NEW r, NEW h, NEW p, NEW o, NEW u, NEW once, NEW l,
               grant_for_with_consent(r, h, p, o, u, once, l)
        PROVE  ReleasesInv'
    <2>1. /\ r \notin DOMAIN uses /\ DOMAIN uses' = DOMAIN uses \cup {r} /\ uses'[r] = 0
          /\ \A q \in DOMAIN uses : uses'[q] = uses[q]
          /\ UNCHANGED <<journal, events>>
      BY <1>0, <1>3 DEF grant_for_with_consent, Put, Frame
    <2>2. 1 .. uses'[r] = {}
      BY <2>1
    <2>3. Releases' = Releases
      BY <2>1, <2>2 DEF Releases
    <2> QED
      BY <2>1, <2>3 DEF ReleasesInv
  <1> QED
    BY <1>0, <1>1, <1>2, <1>3 DEF BrokerDoes, drain_events, export_snapshot, from_snapshot

(* A one-time capability is honoured once, and once more for each restore    *)
(* that forgot it; every item has its own secret in the broker; and nothing  *)
(* leaves the broker without a trace (with_secret, grant_for_with_consent,   *)
(* revoke, from_snapshot, and the vaults on top).                            *)
THEOREM SecretsAlwaysHold == Spec => []SecretsHold
  <1>1. Init => ReleasesInv
    <2> SUFFICES ASSUME Init PROVE ReleasesInv
      OBVIOUS
    <2>1. Releases = {} /\ journal + events = 0
      BY DEF Init, VaultsInit, SecretInit, Releases
    <2> QED
      BY <2>1, FS_EmptySet DEF ReleasesInv
  <1>2. CapabilitiesInv /\ ItemsInv /\ AuditInv /\ ReleasesInv => SecretsHold
    BY DEF CapabilitiesInv, ItemsInv, Kept, AuditInv, ReleasesInv, ItemsHaveSecrets, TraceIsComplete, SecretsHold
  <1> QED
    BY <1>1, <1>2, VaultsStart, CapabilitiesStep, ItemsStep, AuditStep, ReleasesStep, PTL DEF Spec

(* A vault hands out what its item holds now (with_secret under the vaults). *)
THEOREM VaultsOpenCurrentSecrets == Spec => CurrentSecretOnly
  <1> DEFINE A == \A r \in DOMAIN granted : uses'[r] > uses[r] /\ vault # "direct" =>
                     \E i \in DOMAIN items : \E f \in DOMAIN items[i].handles :
                        /\ items[i].handles[f] = granted[r].handle
                        /\ items[i].profile = granted[r].profile /\ items[i].origin = granted[r].origin
  <1>1. CapabilitiesInv /\ ItemsInv /\ [Next]_vars => [A]_vaultVars
    <2> SUFFICES ASSUME CapabilitiesInv, ItemsInv, BrokerDoes,
                        NEW r \in DOMAIN granted, uses'[r] > uses[r], vault # "direct"
                 PROVE  \E i \in DOMAIN items : \E f \in DOMAIN items[i].handles :
                           /\ items[i].handles[f] = granted[r].handle
                           /\ items[i].profile = granted[r].profile /\ items[i].origin = granted[r].origin
      BY VaultSteps
    <2>1. uses[r] \in Nat /\ DOMAIN uses = DOMAIN granted /\ uses'[r] # uses[r]
      BY DEF CapabilitiesInv
    <2>2. \E q, p, o : with_secret(q, p, o)
      BY <2>1 DEF BrokerDoes, grant_for_with_consent, Put, drain_events, export_snapshot, from_snapshot
    <2>3. Opens(r)
      BY <2>1, <2>2 DEF with_secret
    <2> DEFINE h == granted[r].handle
    <2>4. /\ h \in DOMAIN records
          /\ records[h].profile = granted[r].profile /\ records[h].origin = granted[r].origin
      BY <2>3 DEF Opens
    <2> QED
      BY <2>4 DEF ItemsInv, Kept
  <1> HIDE DEF A
  <1>2. Spec => [][A]_vaultVars
    BY <1>1, VaultsStart, CapabilitiesStep, ItemsStep, PTL DEF Spec
  <1> QED
    BY <1>2 DEF CurrentSecretOnly, A
=============================================================================
