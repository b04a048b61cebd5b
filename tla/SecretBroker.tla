---------------------------- MODULE SecretBroker ----------------------------
(***************************************************************************)
(* The capability-scoped secret broker (crates/secret-store): records under *)
(* fresh handles, capabilities that are used once or until they expire,     *)
(* revocation, and a snapshot from which a broker is restored after a       *)
(* crash.                                                                   *)
(*                                                                          *)
(* A sealed record remembers the key it was encrypted with; another key     *)
(* does not open it.  Of the events the broker emits those that say that a  *)
(* secret was released are kept, by their number; a store, a grant, a       *)
(* revocation and an expiry show in the records, the capabilities and the   *)
(* clock.  A call that answers an error and changes nothing else is not a   *)
(* step.                                                                    *)
(***************************************************************************)
EXTENDS Naturals, FiniteSets

CONSTANTS Handles, Refs,       \* fresh Uuids of secrets and of capabilities
          Profiles, Origins,
          Purposes, Lifetimes, \* what callers ask for; a lifetime may be None
          SecretPolicies,      \* issuance policies
          Keys,
          None,
          MaxTime, MaxUses     \* bounds on the clock and on uses of a capability

ASSUME SecretAssumption ==
    /\ None \notin Nat /\ Lifetimes \subseteq Nat \cup {None}
    /\ MaxTime \in Nat /\ MaxUses \in Nat

VARIABLES key, policy,
          records,    \* SecretHandle -> SecretRecord
          consumed,   \* references of spent one-time capabilities
          events,     \* number of undrained Released events
          now,        \* now_seconds()
          snapshot,   \* the SecretStoreSnapshot last exported, or None
          granted,    \* the capabilities callers hold: reference -> capability
          uses,       \* history: how often each was honoured
          forgotten,  \* history: uses that a restore has undone
          journal,    \* history: number of them drained or lost
          stored      \* history: handles given out

secretVars == <<key, policy, records, consumed, events, now, snapshot, granted, uses,
                forgotten, journal, stored>>

SecretPolicy == [allowed_purposes : SUBSET Purposes \cup {None},
                 max_lifetime_seconds : Nat \cup {None}]
Unrestricted == [allowed_purposes |-> None, max_lifetime_seconds |-> None]

Put(f, k, v) == [i \in DOMAIN f \cup {k} |-> IF i = k THEN v ELSE f[i]]
Drop(f, k) == [i \in DOMAIN f \ {k} |-> f[i]]

SecretInit ==
    /\ key = (CHOOSE k \in Keys : TRUE) /\ policy = Unrestricted
    /\ records = << >> /\ consumed = {} /\ events = 0 /\ now = 0
    /\ snapshot = None /\ granted = << >> /\ uses = << >> /\ forgotten = << >>
    /\ journal = 0 /\ stored = {}
-----------------------------------------------------------------------------
Frame == UNCHANGED <<key, policy, now, snapshot, journal>>

Sealed(profile, origin) == [profile |-> profile, origin |-> origin, key |-> key]

store(h, profile, origin) ==
    /\ h \notin stored
    /\ records' = Put(records, h, Sealed(profile, origin))
    /\ stored' = stored \cup {h}
    /\ UNCHANGED <<consumed, events, granted, uses, forgotten>> /\ Frame

\* What grant_for_with_consent asks before it issues a capability.
Grantable(h, profile, origin, purpose, lifetime) ==
    /\ h \in DOMAIN records
    /\ records[h].profile = profile /\ records[h].origin = origin
    /\ policy.allowed_purposes # None => purpose \in policy.allowed_purposes
    /\ policy.max_lifetime_seconds # None /\ lifetime # None
          => lifetime <= policy.max_lifetime_seconds

\* grant, grant_with_consent and grant_for are calls of this with consent.
grant_for_with_consent(r, h, profile, origin, purpose, one_time, lifetime) ==
    /\ r \notin DOMAIN granted
    /\ Grantable(h, profile, origin, purpose, lifetime)
    /\ granted' = Put(granted, r, [handle |-> h, profile |-> profile, origin |-> origin,
                                   one_time |-> one_time,
                                   expires |-> IF lifetime = None THEN None ELSE now + lifetime])
    /\ uses' = Put(uses, r, 0) /\ forgotten' = Put(forgotten, r, 0)
    /\ UNCHANGED <<records, consumed, events, stored>> /\ Frame

revoke(h) ==
    /\ h \in DOMAIN records
    /\ records' = Drop(records, h)
    /\ UNCHANGED <<consumed, events, granted, uses, forgotten, stored>> /\ Frame

\* The checks of with_secret that come before the expiry ...
Presented(r, profile, origin) ==
    /\ r \in DOMAIN granted
    /\ granted[r].profile = profile /\ granted[r].origin = origin
    /\ ~(granted[r].one_time /\ r \in consumed)

Expired(r) == granted[r].expires # None /\ granted[r].expires <= now

\* ... and those that come after it, the last one that the record opens.
Opens(r) ==
    LET h == granted[r].handle
    IN /\ h \in DOMAIN records
       /\ records[h].profile = granted[r].profile /\ records[h].origin = granted[r].origin
       /\ records[h].key = key

\* Mutant: the capability is spent after use only if it can expire.
SpentIfExpiring(r) ==
    consumed' = IF granted[r].one_time /\ granted[r].expires # None THEN consumed \cup {r}
                                                                    ELSE consumed

Spent(r) == consumed' = IF granted[r].one_time THEN consumed \cup {r} ELSE consumed

with_secret(r, profile, origin) ==
    /\ Presented(r, profile, origin) /\ ~Expired(r) /\ Opens(r)
    /\ uses[r] < MaxUses
    /\ uses' = [uses EXCEPT ![r] = @ + 1]
    /\ Spent(r)
    /\ events' = events + 1
    /\ UNCHANGED <<records, granted, forgotten, stored>> /\ Frame

set_policy(p) ==
    /\ policy' = p
    /\ UNCHANGED <<key, records, consumed, events, now, snapshot, granted, uses, forgotten,
                   journal, stored>>

drain_events ==
    /\ events > 0
    /\ journal' = journal + events /\ events' = 0
    /\ UNCHANGED <<key, policy, records, consumed, now, snapshot, granted, uses, forgotten,
                   stored>>

\* extra is what the owner of the broker saves along with it.
export_snapshot(extra) ==
    /\ snapshot' = [records |-> records, consumed |-> consumed, policy |-> policy,
                    extra |-> extra]
    /\ UNCHANGED <<key, policy, records, consumed, events, now, granted, uses, forgotten,
                   journal, stored>>

\* The broker is gone and a new one is made of the snapshot; events that were
\* not drained are gone with it.
from_snapshot(k) ==
    /\ snapshot # None
    /\ key' = k
    /\ records' = snapshot.records /\ consumed' = snapshot.consumed
    /\ policy' = snapshot.policy
    /\ events' = 0 /\ journal' = journal + events
    /\ forgotten' = [r \in DOMAIN forgotten |->
            forgotten[r] + (IF r \in consumed \ snapshot.consumed THEN 1 ELSE 0)]
    /\ UNCHANGED <<now, snapshot, granted, uses, stored>>

Tick ==
    /\ now < MaxTime /\ now' = now + 1
    /\ UNCHANGED <<key, policy, records, consumed, events, snapshot, granted, uses, forgotten,
                   journal, stored>>
=============================================================================
