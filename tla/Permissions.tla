---------------------------- MODULE Permissions -----------------------------
(***************************************************************************)
(* The two authorities a page or an agent asks: PermissionManager           *)
(* (crates/permissions), which keeps grants and decisions in separate maps  *)
(* and is saved to and restored from JSON, and CapabilityBroker             *)
(* (crates/sandbox), whose answers also depend on the policy of the process *)
(* that asks.                                                               *)
(*                                                                          *)
(* A subject is a (profile, origin) pair.  Origins are compared as (scheme, *)
(* host, port) tuples, so a subject stands for every URL of its origin.  Of *)
(* the events the last one of every key is kept, drained or not: trail.     *)
(* An Option is a set with at most one element.                             *)
(***************************************************************************)
EXTENDS Naturals, Functions

CONSTANTS Subjects,
          Places,         \* the subjects that a renderer's policy may be made for
          GrantLifetimes,      \* Options of a number of seconds or ticks
          MaxTicks

ASSUME PermissionAssumption == MaxTicks \in Nat /\ GrantLifetimes \subseteq SUBSET Nat

Permission == {"Downloads", "Uploads", "ClipboardRead", "ClipboardWrite"}
PermissionKey == Subjects \X Permission

VARIABLES grants,     \* PermissionKey -> Option of the expiry
          decisions,  \* PermissionKey -> "Granted" or "Denied"
          ticks,
          saved,      \* Option of the PermissionWires last written, with the trail
          trail,      \* history: PermissionKey -> last event and the grant's expiry
          capabilities,  \* CapabilityBroker.decisions
          asked          \* history: the last call for each capability

permissionVars == <<grants, decisions, saved, trail>>
brokerVars == <<capabilities, asked>>

WithKey(f, k, v) == [i \in DOMAIN f \cup {k} |-> IF i = k THEN v ELSE f[i]]
WithoutKeys(f, K) == Restrict(f, DOMAIN f \ K)

PermissionInit ==
    /\ grants = << >> /\ decisions = << >> /\ ticks = 0 /\ saved = {} /\ trail = << >>
    /\ capabilities = << >> /\ asked = << >>

Over(expires) == \E t \in expires : t <= ticks

check(k) ==
    IF k \in DOMAIN grants THEN IF Over(grants[k]) THEN "Prompt" ELSE "Granted"
    ELSE IF k \in DOMAIN decisions THEN decisions[k] ELSE "Prompt"
-----------------------------------------------------------------------------
Decide(k, event, expires) == trail' = WithKey(trail, k, [event |-> event, expires |-> expires])

set(k, granted) ==
    /\ grants' = IF granted THEN WithKey(grants, k, {}) ELSE WithoutKeys(grants, {k})
    /\ decisions' = WithKey(decisions, k, IF granted THEN "Granted" ELSE "Denied")
    /\ Decide(k, IF granted THEN "Granted" ELSE "Denied", {})
    /\ UNCHANGED <<ticks, saved, brokerVars>>

grant_for(k, lifetime) ==
    LET expires == {ticks + t : t \in lifetime}
    IN /\ grants' = WithKey(grants, k, expires)
       /\ decisions' = WithKey(decisions, k, "Granted")
       /\ Decide(k, "Granted", expires)
       /\ UNCHANGED <<ticks, saved, brokerVars>>

revoke_permission(k) ==
    /\ grants' = WithoutKeys(grants, {k}) /\ decisions' = WithoutKeys(decisions, {k})
    /\ Decide(k, "Revoked", {})
    /\ UNCHANGED <<ticks, saved, brokerVars>>

\* Mutant: only the grant is purged.
PurgeKeepsDecision ==
    LET expired == {k \in DOMAIN grants : Over(grants[k])}
    IN /\ expired # {}
       /\ grants' = WithoutKeys(grants, expired)
       /\ trail' = [k \in DOMAIN trail |->
                      IF k \in expired THEN [event |-> "Expired", expires |-> {}] ELSE trail[k]]
       /\ UNCHANGED <<decisions, ticks, saved, brokerVars>>

purge_expired ==
    LET expired == {k \in DOMAIN grants : Over(grants[k])}
    IN /\ expired # {}
       /\ grants' = WithoutKeys(grants, expired)
       /\ decisions' = WithoutKeys(decisions, {k \in expired \cap DOMAIN decisions :
                                            decisions[k] = "Granted"})
       /\ trail' = [k \in DOMAIN trail \cup expired |->
                      IF k \in expired THEN [event |-> "Expired", expires |-> {}] ELSE trail[k]]
       /\ UNCHANGED <<ticks, saved, brokerVars>>

\* One PermissionWire for every key of either map.
to_json ==
    /\ saved' = {[trail |-> trail, entries |->
          [k \in DOMAIN grants \cup DOMAIN decisions |->
             [decision |-> IF k \in DOMAIN decisions THEN decisions[k] ELSE "Granted",
              grant |-> IF k \in DOMAIN grants THEN {grants[k]} ELSE {}]]]}
    /\ UNCHANGED <<grants, decisions, ticks, trail, brokerVars>>

\* The manager is gone and a new one is read back.
from_json ==
    \E s \in saved :
       LET e == s.entries
       IN /\ decisions' = [k \in DOMAIN e |-> e[k].decision]
          /\ grants' = [k \in {k \in DOMAIN e : e[k].grant # {}} |-> CHOOSE g \in e[k].grant : TRUE]
          /\ trail' = s.trail
          /\ UNCHANGED <<ticks, saved, brokerVars>>

PermissionTick == /\ ticks < MaxTicks /\ ticks' = ticks + 1
        /\ UNCHANGED <<permissionVars, brokerVars>>
-----------------------------------------------------------------------------
\* Policies of the processes that ask the CapabilityBroker; an empty set of
\* allowed origins allows all of them.
Capability == {"Render", "ReadNetwork", "WriteNetwork", "ExecuteAgentScript", "SolveChallenge"}

renderer(origin) == [capabilities |-> {"Render", "ReadNetwork", "WriteNetwork"},
                     allowed_origins |-> {origin}]
agent == [capabilities |-> {"ExecuteAgentScript", "Render"}, allowed_origins |-> {}]
autonomous_agent == [agent EXCEPT !.capabilities = @ \cup {"SolveChallenge"}]

allows(policy, scope, capability) ==
    /\ capability \in policy.capabilities
    /\ policy.allowed_origins # {} => scope \in policy.allowed_origins

request(policy, scope, capability) ==
    IF ~allows(policy, scope, capability) THEN "Denied"
    ELSE IF <<scope, capability>> \in DOMAIN capabilities
         THEN LET d == capabilities[<<scope, capability>>]
              IN IF Over(d.expires) THEN "Prompt" ELSE d.decision
         ELSE "Prompt"

\* Mutant: a lifetime of no ticks is not rounded up.
GrantNotRounded(policy, scope, capability, lifetime) ==
    /\ allows(policy, scope, capability)
    /\ capabilities' = WithKey(capabilities, <<scope, capability>>,
                           [decision |-> "Granted", expires |-> {ticks + t : t \in lifetime}])
    /\ asked' = WithKey(asked, <<scope, capability>>, [call |-> "grant", at |-> ticks, for |-> lifetime])
    /\ UNCHANGED <<permissionVars, ticks>>

grant(policy, scope, capability, lifetime) ==
    /\ allows(policy, scope, capability)
    /\ capabilities' = WithKey(capabilities, <<scope, capability>>,
          [decision |-> "Granted",
           expires |-> {ticks + (IF t = 0 THEN 1 ELSE t) : t \in lifetime}])
    /\ asked' = WithKey(asked, <<scope, capability>>, [call |-> "grant", at |-> ticks, for |-> lifetime])
    /\ UNCHANGED <<permissionVars, ticks>>

deny(scope, capability) ==
    /\ capabilities' = WithKey(capabilities, <<scope, capability>>,
                           [decision |-> "Denied", expires |-> {}])
    /\ asked' = WithKey(asked, <<scope, capability>>, [call |-> "deny", at |-> ticks, for |-> {}])
    /\ UNCHANGED <<permissionVars, ticks>>

revoke_capability(scope, capability) ==
    /\ capabilities' = WithoutKeys(capabilities, {<<scope, capability>>})
    /\ asked' = WithoutKeys(asked, {<<scope, capability>>})
    /\ UNCHANGED <<permissionVars, ticks>>
-----------------------------------------------------------------------------
\* What the last event of a key says the answer is.
Told(k) ==
    IF k \notin DOMAIN trail THEN "Prompt"
    ELSE CASE trail[k].event = "Denied" -> "Denied"
           [] trail[k].event = "Granted" /\ ~Over(trail[k].expires) -> "Granted"
           [] OTHER -> "Prompt"

(* The answers of check follow the events the manager emitted: through any   *)
(* order of decisions, expiries, purges, saves and restores the two maps say *)
(* Granted exactly for a key whose last event granted it and whose grant is  *)
(* not over, and a purge turns no expired grant into a decision without end. *)
AnswersFollowEvents == \A k \in PermissionKey : check(k) = Told(k)

(* Under every policy that allows it a capability answers as the last call   *)
(* for it asked: a grant holds in the tick it is made, whatever its lifetime,*)
(* ends when that is over and leaves a prompt, a denial stays, and a policy  *)
(* that does not allow it is denied even what is granted.                    *)
CapabilityFollowsCalls ==
    \A s \in Subjects, o \in Places, c \in Capability :
       \A policy \in {renderer(o), agent, autonomous_agent} :
          LET answer == request(policy, s, c)
          IN IF ~allows(policy, s, c) THEN answer = "Denied"
             ELSE IF <<s, c>> \notin DOMAIN asked THEN answer = "Prompt"
             ELSE LET a == asked[<<s, c>>]
                  IN /\ a.call = "deny" <=> answer = "Denied"
                     /\ a.call = "grant" /\ (a.at = ticks \/ a.for = {}) => answer = "Granted"
                     /\ a.call = "grant" /\ (\E t \in a.for : a.at + t <= ticks) /\ a.at # ticks
                           => answer = "Prompt"
=============================================================================
