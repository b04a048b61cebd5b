------------------------------ MODULE Profiles ------------------------------
(***************************************************************************)
(* ProfileManager (crates/profiles) and the FingerprintCatalog it takes     *)
(* identities from (crates/fingerprint).  A user agent is told by what      *)
(* detect_user_agent_family and detect_user_agent_platform read in it, a    *)
(* brand list by the families it names, a platform by the word the checks   *)
(* look for, the extensions by their number.  Locale, viewport and the like *)
(* are not told apart: no check reads them.                                 *)
(***************************************************************************)
EXTENDS Naturals, Sequences, Functions, FiniteSetsExt

CONSTANTS ProfileIds,      \* numbers, for the order of the identifiers
          Visits,          \* history and autocomplete entries
          DefaultLimits,   \* ProfileLimits::default
          LimitChoices,    \* what set_limits is given
          Bounds,          \* max_entries of the record calls
          Variants,        \* variants profiles are made from
          Offered,         \* fingerprints a host inserts
          Applied,         \* FingerprintIds profiles are given
          Given,           \* configurations a host writes into a profile
          OldFile,         \* the ProfileManagerWire found on disk
          MaxConfigs,      \* bound on the profiles' generations together
          MaxSaved         \* the same for profiles that are saved

ProfileLimits == [profiles : Nat, history : Nat, autocomplete : Nat, extensions : Nat]

\* What a profile has been through, as history: whether only checked identities were
\* written to it, how many entries were recorded with a max_entries of 0 since limits
\* were last applied to it, the autocomplete entries recorded in its configuration.
Past(vetted, recorded) ==
    [vetted |-> vetted, history |-> 0, autocomplete |-> 0, recorded |-> recorded]

\* The version that wrote the old file checked no identity.
ASSUME ProfilesAssumption ==
    /\ ProfileIds \subseteq Nat /\ MaxConfigs \in Nat /\ MaxSaved \in Nat
    /\ Bounds \subseteq Nat
    /\ LimitChoices \cup {DefaultLimits, OldFile.limits} \subseteq ProfileLimits
    /\ OldFile.version \in Nat /\ OldFile.selected \in {{}} \cup {{id} : id \in ProfileIds}
    /\ DOMAIN OldFile.profiles \subseteq ProfileIds
    /\ \A c \in Given \cup {OldFile.profiles[id].config : id \in DOMAIN OldFile.profiles} :
          /\ c = [identity |-> c.identity, history |-> c.history,
                  autocomplete |-> c.autocomplete, extensions |-> c.extensions]
          /\ c.history \in Seq(Visits) /\ c.autocomplete \in Seq(Visits) /\ c.extensions \in Nat
    /\ \A id \in DOMAIN OldFile.profiles :
          LET p == OldFile.profiles[id]
          IN p = [generation |-> p.generation, config |-> p.config, past |-> Past(FALSE, {})]

VARIABLES profiles,     \* id -> Profile
          selected,     \* Option<ProfileId>
          limits,       \* ProfileLimits
          profileFile,  \* the ProfileManagerWire last written
          catalog       \* FingerprintId -> Fingerprint

profileVars == <<profiles, selected, limits, profileFile, catalog>>
-----------------------------------------------------------------------------
Identity(family, os, brands, platform) ==
    [family |-> family, os |-> os, brands |-> brands, platform |-> platform]

ProfileConfig == Identity("", "", {"chrome"}, "linux")  \* no user agent

ChromeDesktop == Identity("chrome", "linux", {"chrome"}, "linux")
FirefoxDesktop == Identity("firefox", "linux", {}, "linux")
SafariDesktop == Identity("safari", "macos", {}, "mac")
ChromeAndroid == Identity("chrome", "android", {"chrome"}, "linux")
SafariIos == Identity("safari", "ios", {}, "iphone")

ProfileVariant == {ChromeDesktop, FirefoxDesktop, SafariDesktop, ChromeAndroid, SafariIos}

Fingerprint(identity, webgl, cores, memory, touch, depth) ==
    [identity |-> identity, webgl |-> webgl, cores |-> cores, memory |-> memory,
     touch |-> touch, depth |-> depth]

\* The rest of the catalog repeats the first two with other viewports and hardware.
default_catalog_entries ==
    [chrome_linux |-> Fingerprint(ChromeDesktop, "chrome", 8, 8, 0, 24),
     firefox_linux |-> Fingerprint(FirefoxDesktop, "chrome", 8, 8, 0, 24),
     safari_macos |-> Fingerprint(SafariDesktop, "chrome", 10, 16, 0, 30),
     chrome_android |-> Fingerprint(ChromeAndroid, "chrome", 8, 8, 5, 24),
     safari_ios |-> Fingerprint(SafariIos, "chrome", 6, 4, 5, 24),
     chrome_1600 |-> Fingerprint(ChromeDesktop, "chrome", 12, 32, 0, 24),
     firefox_832 |-> Fingerprint(FirefoxDesktop, "chrome", 16, 32, 0, 24)]

\* The families whose brands a user agent of the family may not carry.
Foreign(family) ==
    CASE family \in {"chrome", "edge"} -> {"firefox", "safari"}
      [] family = "firefox" -> {"chrome", "safari"}
      [] family = "safari" -> {"chrome", "firefox"}
      [] OTHER -> {}

Platforms(os) ==
    CASE os = "android" -> {"android", "linux"}
      [] os = "ios" -> {"iphone", "ipad", "ios"}
      [] os = "macos" -> {"mac"}
      [] OTHER -> {os}

check_profile_consistency(i) ==
    /\ i.brands \cap Foreign(i.family) = {}
    /\ i.os # "" => i.platform \in Platforms(i.os)

\* 5 touch points or more are a touch device.
navigator_is_consistent(f) ==
    /\ f.touch >= 5 => f.cores <= 8 /\ f.memory <= 16
    /\ f.depth <= 32
    /\ f.touch < 5 => /\ f.identity.platform \notin {"iphone", "ipad", "android"}
                      /\ f.identity.os # "android"

\* Mutant: the platform is left to the navigator check.
PlatformUnchecked(f) ==
    /\ f.identity.brands \cap Foreign(f.identity.family) = {}
    /\ f.identity.family \in {"chrome", "edge"} => f.webgl \in {"chrome", ""}
    /\ navigator_is_consistent(f)

is_consistent(f) ==
    /\ f.identity.brands \cap Foreign(f.identity.family) = {}
    /\ f.identity.os # "" => f.identity.platform \in Platforms(f.identity.os)
    /\ f.identity.family \in {"chrome", "edge"} => f.webgl \in {"chrome", ""}
    /\ navigator_is_consistent(f)

insert_fingerprint(id, f) ==
    /\ is_consistent(f)
    /\ catalog' = [x \in DOMAIN catalog \cup {id} |-> IF x = id THEN f ELSE catalog[x]]
    /\ UNCHANGED <<profiles, selected, limits, profileFile>>
-----------------------------------------------------------------------------
Newest(s, n) == IF n > 0 /\ Len(s) > n THEN SubSeq(s, Len(s) - n + 1, Len(s)) ELSE s

\* A limit of zero is no limit.
normalize_config(c, l) ==
    [c EXCEPT !.history = Newest(@, l.history),
              !.autocomplete = Newest(@, l.autocomplete),
              !.extensions = IF l.extensions > 0 THEN Min({@, l.extensions}) ELSE @]

Config(identity, extensions) ==
    [identity |-> identity, history |-> << >>, autocomplete |-> << >>,
     extensions |-> extensions]

Profile(identity) ==
    [generation |-> 0, config |-> Config(identity, 0), past |-> Past(TRUE, {})]

Trimmed(p, l) ==
    [p EXCEPT !.config = normalize_config(@, l), !.past = Past(@.vetted, @.recorded)]

First(ids) == IF ids = {} THEN {} ELSE {Min(ids)}

ProfilesInit ==
    /\ profiles = << >> /\ selected = {}
    /\ limits = DefaultLimits
    /\ profileFile = OldFile
    /\ catalog = default_catalog_entries

\* A new identifier is random: any that is not in use.
Insert(identity) ==
    \E id \in ProfileIds \ DOMAIN profiles :
       /\ profiles' = [i \in DOMAIN profiles \cup {id} |->
                         IF i = id THEN Profile(identity) ELSE profiles[i]]
       /\ selected' = IF selected = {} THEN {id} ELSE selected
       /\ UNCHANGED <<limits, profileFile, catalog>>

Room == Cardinality(DOMAIN profiles) < limits.profiles

create_profile == Insert(ProfileConfig)  \* does not look at max_profiles

try_create == Room /\ Insert(ProfileConfig)

create_with_variant(variant) == Room /\ Insert(variant)

set_limits(l) ==
    /\ limits' = l
    /\ profiles' = [id \in DOMAIN profiles |-> Trimmed(profiles[id], l)]
    /\ UNCHANGED <<selected, profileFile, catalog>>

\* Mutant: the selection stays when its profile goes.
DeleteKeepsSelection(id) ==
    /\ id \in DOMAIN profiles
    /\ profiles' = Restrict(profiles, DOMAIN profiles \ {id})
    /\ UNCHANGED <<selected, limits, profileFile, catalog>>

delete_profile(id) ==
    /\ id \in DOMAIN profiles
    /\ profiles' = Restrict(profiles, DOMAIN profiles \ {id})
    /\ selected' = IF selected = {id} THEN First(DOMAIN profiles \ {id}) ELSE selected
    /\ UNCHANGED <<limits, profileFile, catalog>>

select(id) ==
    /\ id \in DOMAIN profiles
    /\ selected' = {id}
    /\ UNCHANGED <<profiles, limits, profileFile, catalog>>

ConfigsWritten == MapThenSumSet(LAMBDA id : profiles[id].generation, DOMAIN profiles)

Changed(id, config, past) ==
    /\ id \in DOMAIN profiles
    /\ ConfigsWritten < MaxConfigs
    /\ profiles' = [profiles EXCEPT ![id] =
                      [generation |-> @.generation + 1, config |-> config, past |-> past]]
    /\ UNCHANGED <<selected, limits, profileFile, catalog>>

update_config(id, config) == Changed(id, normalize_config(config, limits), Past(FALSE, {}))

try_update_config(id, config) ==
    /\ check_profile_consistency(config.identity)
    /\ Changed(id, normalize_config(config, limits), Past(TRUE, {}))

\* History, extensions and autocomplete of the profile go with its old identity.
apply_fingerprint(id, fingerprint) ==
    /\ fingerprint \in DOMAIN catalog
    /\ is_consistent(catalog[fingerprint])
    /\ try_update_config(id, Config(catalog[fingerprint].identity, 0))

\* Recorded with a max_entries of 0 an entry comes on top of whatever is kept.
Untrimmed(n, bound) == IF bound = 0 THEN n + 1 ELSE 0

record_history(id, visit, bound) ==
    LET p == profiles[id]
    IN /\ id \in DOMAIN profiles
       /\ Changed(id,
             [p.config EXCEPT !.history = Newest(Append(@, visit), Min({bound, limits.history}))],
             [p.past EXCEPT !.history = Untrimmed(@, bound)])

\* Vec::retain: the other entries in their order.
OthersThan(entry, entries) ==
    LET kept[i \in 0 .. Len(entries)] ==
          IF i = 0 THEN << >>
          ELSE IF entries[i] = entry THEN kept[i - 1] ELSE Append(kept[i - 1], entries[i])
    IN kept[Len(entries)]

record_autocomplete(id, entry, bound) ==
    LET p == profiles[id]
    IN /\ id \in DOMAIN profiles
       /\ Changed(id,
             [p.config EXCEPT !.autocomplete =
                Newest(Append(OthersThan(entry, @), entry), Min({bound, limits.autocomplete}))],
             [p.past EXCEPT !.autocomplete = Untrimmed(@, bound),
                            !.recorded = @ \cup {entry}])

save_profiles ==
    /\ ConfigsWritten <= MaxSaved
    /\ profileFile' = [version |-> 2, profiles |-> profiles, selected |-> selected,
                       limits |-> limits]
    /\ UNCHANGED <<profiles, selected, limits, catalog>>

\* What a file of version 1 leaves empty is filled with the defaults.
migrate_v1_to_v2(i) ==
    [i EXCEPT !.platform = IF @ = "" THEN ProfileConfig.platform ELSE @,
              !.brands = IF @ = {} THEN ProfileConfig.brands ELSE @]

restore_profiles ==
    LET wire == profileFile
        Loaded(p) == IF wire.version < 2
                     THEN [p EXCEPT !.config.identity = migrate_v1_to_v2(@)] ELSE p
        ids == DOMAIN wire.profiles
    IN /\ wire.version <= 2
       /\ profiles' = [id \in ids |-> Trimmed(Loaded(wire.profiles[id]), wire.limits)]
       /\ selected' = IF wire.selected \cap ids # {} THEN wire.selected ELSE First(ids)
       /\ limits' = wire.limits
       /\ UNCHANGED <<profileFile, catalog>>
-----------------------------------------------------------------------------
ProfilesNext ==
    \/ create_profile \/ try_create
    \/ \E v \in Variants \cap ProfileVariant : create_with_variant(v)
    \/ \E l \in LimitChoices : set_limits(l)
    \/ \E id \in ProfileIds :
          \/ delete_profile(id) \/ select(id)
          \/ \E c \in Given : update_config(id, c) \/ try_update_config(id, c)
          \/ \E f \in Applied : apply_fingerprint(id, f)
          \/ \E v \in Visits, b \in Bounds :
                record_history(id, v, b) \/ record_autocomplete(id, v, b)
    \/ \E f \in Offered : insert_fingerprint("host", f)
    \/ save_profiles \/ restore_profiles

WithinLimits(c, past, l) ==
    /\ l.history = 0 \/ Len(c.history) <= l.history + past.history
    /\ l.autocomplete = 0 \/ Len(c.autocomplete) <= l.autocomplete + past.autocomplete
    /\ l.extensions = 0 \/ c.extensions <= l.extensions

OfferedOnce(entries, recorded) ==
    \A i, j \in DOMAIN entries : entries[i] = entries[j] /\ entries[i] \in recorded => i = j

\* Some profile is selected as long as there is one, also after the selected one was
\* deleted or a file named one that is gone (delete, from_json).  A profile keeps no
\* more than the limits in force allow, but for the entries that were recorded with a
\* max_entries of 0, which trims nothing, since limits were last applied to it; and an
\* autocomplete entry that was recorded is offered once, whatever the configuration
\* that was written or read before offers twice (record_history, record_autocomplete,
\* normalize_config).
LimitsAndSelectionHold ==
    /\ selected \subseteq DOMAIN profiles /\ (selected = {} => profiles = << >>)
    /\ \A id \in DOMAIN profiles :
          LET c == profiles[id].config
              past == profiles[id].past
          IN WithinLimits(c, past, limits) /\ OfferedOnce(c.autocomplete, past.recorded)

\* A profile that only checked calls have written presents one browser, and the two
\* copies of the check agree: what the catalog holds is never refused by the profile it
\* is applied to (Fingerprint::is_consistent, check_profile_consistency).
CheckedIdentitiesAreCoherent ==
    /\ \A id \in DOMAIN profiles :
          profiles[id].past.vetted => check_profile_consistency(profiles[id].config.identity)
    /\ \A f \in DOMAIN catalog : check_profile_consistency(catalog[f].identity)

\* A ProfileManager is in order after any calls, saves and migrations.
ProfilesHold == LimitsAndSelectionHold /\ CheckedIdentitiesAreCoherent

\* The brands of a profile are never those of another family than its user agent's,
\* as long as only checked calls and old files fill it.
IdentityCoherentByConstruction ==
    \A id \in DOMAIN profiles :
       LET i == profiles[id].config.identity
       IN i.brands \cap Foreign(i.family) = {}
=============================================================================
