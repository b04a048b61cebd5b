------------------------------- MODULE Vaults -------------------------------
(***************************************************************************)
(* The brokers that keep their secrets in a SecretBroker of their own:      *)
(* passwords (crates/credentials and password-vault), cards (payment-vault),*)
(* identity fields (identity-vault) and one-time-password seeds (totp); and *)
(* the passkeys of crates/webauthn, which keep none.  vault says which one  *)
(* this is; "direct" is a caller that uses the SecretBroker by itself.      *)
(***************************************************************************)
EXTENDS SecretBroker

CONSTANTS Items,       \* fresh ids of credentials, cards, identities, seeds
          Fields,      \* names of identity fields
          Challenges   \* fresh WebAuthn challenges

VARIABLES vault,
          items,       \* id -> record with a handle per field
          audit,       \* PaymentAuditEvents or IdentityAuditEvents, by action
          passkeys,    \* PasskeyHandle -> PasskeyRecord
          challenges,  \* outstanding challenges
          asserted     \* history: assertions completed, per challenge

itemVars == <<items, audit>>
keyVars == <<passkeys, challenges, asserted>>
vaultVars == <<secretVars, vault, itemVars, keyVars>>

VaultKind == {"direct", "password", "payment", "identity", "totp", "webauthn"}

Record(action) == audit' = [audit EXCEPT ![action] = @ + 1]

VaultsInit ==
    /\ SecretInit
    /\ vault \in VaultKind
    /\ items = << >>
    /\ audit = [a \in {"added", "authorized", "released"} |-> 0]
    /\ passkeys = << >> /\ challenges = {} /\ asserted = [c \in Challenges |-> 0]
-----------------------------------------------------------------------------
\* A new item with one stored secret per field.
AddItem(i, fields, profile, origin) ==
    /\ i \notin DOMAIN items
    /\ \E handles \in [fields -> Handles \ stored] :
          /\ \A f, g \in fields : handles[f] = handles[g] => f = g
          /\ items' = Put(items, i, [profile |-> profile, origin |-> origin,
                                     handles |-> handles])
          /\ LET new == {handles[f] : f \in fields}
             IN /\ records' = [h \in DOMAIN records \cup new |->
                                 IF h \in new THEN Sealed(profile, origin) ELSE records[h]]
                /\ stored' = stored \cup new
    /\ UNCHANGED <<consumed, events, granted, uses, forgotten, vault, keyVars>> /\ Frame

save_password(i, profile, origin) ==
    /\ vault = "password" /\ AddItem(i, {"secret"}, profile, origin)
    /\ UNCHANGED audit

add_card(i, profile, merchant_origin) ==
    /\ vault = "payment" /\ AddItem(i, {"secret"}, profile, merchant_origin)
    /\ Record("added")

create(i, profile, origin) ==
    /\ vault = "identity" /\ AddItem(i, Fields, profile, origin)
    /\ Record("added")

save_seed(i, profile, origin) ==
    /\ vault = "totp" /\ AddItem(i, {"secret"}, profile, origin)
    /\ UNCHANGED audit

\* Mutant: the old password stays in the broker.
UpdateKeepsOld(i, h) ==
    /\ vault = "password" /\ i \in DOMAIN items /\ h \notin stored
    /\ records' = Put(records, h, Sealed(items[i].profile, items[i].origin))
    /\ stored' = stored \cup {h}
    /\ items' = [items EXCEPT ![i].handles["secret"] = h]
    /\ UNCHANGED <<consumed, events, granted, uses, forgotten, audit, vault, keyVars>> /\ Frame

\* Mutant: the credential keeps the revoked handle.
UpdateUnlinked(i, h) ==
    /\ vault = "password" /\ i \in DOMAIN items /\ h \notin stored
    /\ records' = Drop(Put(records, h, Sealed(items[i].profile, items[i].origin)),
                       items[i].handles["secret"])
    /\ stored' = stored \cup {h}
    /\ UNCHANGED <<consumed, events, granted, uses, forgotten, items, audit, vault, keyVars>>
    /\ Frame

\* update_password: the new secret is stored, then the old handle revoked.
update_password(i, h) ==
    /\ vault = "password" /\ i \in DOMAIN items /\ h \notin stored
    /\ LET old == items[i].handles["secret"]
       IN records' = Drop(Put(records, h, Sealed(items[i].profile, items[i].origin)), old)
    /\ stored' = stored \cup {h}
    /\ items' = [items EXCEPT ![i].handles["secret"] = h]
    /\ UNCHANGED <<consumed, events, granted, uses, forgotten, audit, vault, keyVars>> /\ Frame

\* A one-time grant that does not expire, if the item is the caller's.
GrantItem(r, i, f, profile, origin) ==
    /\ i \in DOMAIN items /\ f \in DOMAIN items[i].handles
    /\ items[i].profile = profile /\ items[i].origin = origin
    /\ grant_for_with_consent(r, items[i].handles[f], profile, origin,
                              CHOOSE p \in Purposes : TRUE, TRUE, None)
    /\ UNCHANGED <<vault, items, keyVars>>

\* authorize_password and its forms with consent; without it nothing happens.
grant_password(r, i, profile, origin) ==
    /\ vault = "password" /\ GrantItem(r, i, "secret", profile, origin)
    /\ UNCHANGED audit

authorize_with_confirmation(r, i, profile, origin) ==
    /\ vault = "payment" /\ GrantItem(r, i, "secret", profile, origin)
    /\ Record("authorized")

authorize_field(r, i, f, profile, origin) ==
    /\ vault = "identity" /\ GrantItem(r, i, f, profile, origin)
    /\ Record("authorized")

capability(r, i, profile, origin) ==
    /\ vault = "totp" /\ GrantItem(r, i, "secret", profile, origin)
    /\ UNCHANGED audit

with_password(r, profile, origin) ==
    /\ vault = "password" /\ with_secret(r, profile, origin)
    /\ UNCHANGED <<vault, itemVars, keyVars>>

\* Mutant: what was released is not recorded.
ReleaseUnrecorded(r, profile, origin) ==
    /\ vault = "payment" /\ with_secret(r, profile, origin)
    /\ UNCHANGED <<vault, itemVars, keyVars>>

\* Recorded for the instrument that has the capability's handle now.
with_card_number(r, profile, origin) ==
    /\ vault = "payment" /\ with_secret(r, profile, origin)
    /\ IF \E i \in DOMAIN items : items[i].handles["secret"] = granted[r].handle
       THEN Record("released") ELSE UNCHANGED audit
    /\ UNCHANGED <<vault, items, keyVars>>

\* The vault panics if no identity has the handle: ItemsHaveSecrets.
with_field(r, profile, origin) ==
    /\ vault = "identity" /\ with_secret(r, profile, origin)
    /\ Record("released")
    /\ UNCHANGED <<vault, items, keyVars>>

\* The capability is spent before the seed is known to yield a code.
with_code(r, profile, origin) ==
    /\ vault = "totp" /\ with_secret(r, profile, origin)
    /\ UNCHANGED <<vault, itemVars, keyVars>>

\* CredentialBroker::export_snapshot and from_snapshot.
export == /\ vault \in {"direct", "password"}
          /\ export_snapshot(items)
          /\ UNCHANGED <<vault, itemVars, keyVars>>

restore(k) == /\ from_snapshot(k)
              /\ items' = snapshot.extra
              /\ UNCHANGED <<vault, audit, keyVars>>
-----------------------------------------------------------------------------
register(i, profile, origin) ==
    /\ vault = "webauthn" /\ i \notin DOMAIN passkeys
    /\ passkeys' = Put(passkeys, i, [profile |-> profile, rp_origin |-> origin])
    /\ UNCHANGED <<secretVars, vault, itemVars, challenges, asserted>>

\* Challenges are fresh: c has never been handed out.
begin_assertion(c, i, profile, origin) ==
    /\ i \in DOMAIN passkeys
    /\ passkeys[i].profile = profile /\ passkeys[i].rp_origin = origin
    /\ c \notin challenges /\ asserted[c] = 0
    /\ challenges' = challenges \cup {c}
    /\ UNCHANGED <<secretVars, vault, itemVars, passkeys, asserted>>

complete_assertion(c) ==
    /\ c \in challenges
    /\ challenges' = challenges \ {c}
    /\ asserted' = [asserted EXCEPT ![c] = @ + 1]
    /\ UNCHANGED <<secretVars, vault, itemVars, passkeys>>
-----------------------------------------------------------------------------
Direct ==
    /\ vault = "direct"
    /\ \/ \E h \in Handles, p \in Profiles, o \in Origins : store(h, p, o)
       \/ \E h \in Handles : revoke(h)
       \/ \E r \in Refs, h \in Handles, p \in Profiles, o \in Origins, u \in Purposes,
             once \in BOOLEAN, l \in Lifetimes : grant_for_with_consent(r, h, p, o, u, once, l)
       \/ \E r \in Refs, p \in Profiles, o \in Origins :
             with_secret(r, p, o)
       \/ \E p \in SecretPolicies \ {policy} : set_policy(p)
       \/ Tick
    /\ UNCHANGED <<vault, itemVars, keyVars>>

VaultsNext ==
    \/ Direct
    \/ \E i \in Items, p \in Profiles, o \in Origins :
          \/ save_password(i, p, o) \/ add_card(i, p, o) \/ create(i, p, o) \/ save_seed(i, p, o)
          \/ register(i, p, o)
          \/ \E c \in Challenges : begin_assertion(c, i, p, o)
    \/ \E r \in Refs, i \in Items, p \in Profiles, o \in Origins :
          \/ grant_password(r, i, p, o)
          \/ authorize_with_confirmation(r, i, p, o)
          \/ \E f \in Fields : authorize_field(r, i, f, p, o)
          \/ capability(r, i, p, o)
    \/ \E r \in Refs, p \in Profiles, o \in Origins :
          \/ with_password(r, p, o) \/ with_card_number(r, p, o)
          \/ with_field(r, p, o) \/ with_code(r, p, o)
    \/ \E i \in Items, h \in Handles : update_password(i, h)
    \/ \E c \in Challenges : complete_assertion(c)
    \/ drain_events /\ UNCHANGED <<vault, itemVars, keyVars>>
    \/ export
    \/ \E k \in Keys : restore(k)

-----------------------------------------------------------------------------
(* A vault hands out what its item holds now: a capability granted before an *)
(* update or a restore opens neither the replaced secret nor anyone else's,  *)
(* and only for the profile and origin the item belongs to.                  *)
CurrentSecretOnly ==
    [][\A r \in DOMAIN granted : uses'[r] > uses[r] /\ vault # "direct" =>
          \E i \in DOMAIN items : \E f \in DOMAIN items[i].handles :
             /\ items[i].handles[f] = granted[r].handle
             /\ items[i].profile = granted[r].profile /\ items[i].origin = granted[r].origin]_vaultVars

(* A vault that audits has an entry of its own for every release, every      *)
(* grant and every item (payment-vault and identity-vault).                  *)
AuditIsComplete ==
    vault \in {"payment", "identity"} => /\ audit.released = journal + events
                  /\ audit.authorized = Cardinality(DOMAIN granted)
                  /\ audit.added = Cardinality(DOMAIN items)

\* The releases there were: the first use of each capability, its second ...
Releases == UNION {{<<r, n>> : n \in 1 .. uses[r]} : r \in DOMAIN uses}

(* Nothing is released without leaving a trace: what was drained, lost in a  *)
(* restore and still waits in the broker adds up to what happened, and the   *)
(* vault's own audit with it.                                                *)
TraceIsComplete ==
    /\ journal + events = Cardinality(Releases)
    /\ AuditIsComplete

(* Every item has its own secret in the broker: updates, restores and        *)
(* revocations never leave one whose secret is gone or is another item's.    *)
ItemsHaveSecrets ==
    /\ \A i \in DOMAIN items : \A f \in DOMAIN items[i].handles :
          /\ items[i].handles[f] \in DOMAIN records
          /\ records[items[i].handles[f]].profile = items[i].profile
          /\ records[items[i].handles[f]].origin = items[i].origin
    /\ \A i, j \in DOMAIN items :
       \A f \in DOMAIN items[i].handles, g \in DOMAIN items[j].handles :
          items[i].handles[f] = items[j].handles[g] => i = j /\ f = g

(* A one-time capability is honoured once - and once more for every restore  *)
(* from a snapshot that was exported before its use and so forgot it.  The   *)
(* spent set alone must tell, whatever was revoked, drained or expired since.*)
(* A WebAuthn challenge is answered at most once.                            *)
OneTimeSpentOnce ==
    /\ \A r \in DOMAIN granted : granted[r].one_time =>
          uses[r] = forgotten[r] + (IF r \in consumed THEN 1 ELSE 0)
    /\ \A c \in Challenges : asserted[c] + (IF c \in challenges THEN 1 ELSE 0) <= 1

(* A secret belongs to one item, leaves the broker as often as it may, and   *)
(* never without a trace (with_secret, grant_for_with_consent, revoke).      *)
SecretsHold == OneTimeSpentOnce /\ TraceIsComplete /\ ItemsHaveSecrets
=============================================================================
