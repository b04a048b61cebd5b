----------------------------- MODULE CheckRuns ------------------------------
(***************************************************************************)
(* The compatibility checker (crates/compatibility-check) and the check     *)
(* commands that drive it (apps/browsai-cli): a corpus is run site by site, *)
(* the finished run is saved and reported, any step may crash the process,  *)
(* and stored runs are read back and compared.  The scheduler, which other  *)
(* drivers use, hands out sites to workers and retries what failed for a    *)
(* transient reason.                                                        *)
(***************************************************************************)
EXTENDS Naturals, SequencesExt

CONSTANTS Corpora,      \* contents of sites files: sequences of [id, enabled]
          Runs,         \* ids of runs, one for each command
          Errors,       \* texts of engine errors, normalized
          Workers, MaxAttempts,
          Unset, Torn   \* no status or file; a file not wholly written

\* What the check commands write of the categories and statuses there are.
Categories == {"Engine", "Navigation", "Snapshot"}
Statuses == {"Pass", "Fail", "Skipped"}
Subsystems == {"Engine", "AgentTree", "StructuralIr", "SemanticIr"}

FailureRecords == [category : Categories, fingerprint : Categories \X Errors]

\* subsystems has those with a result: the commands record Pass only.
SiteResults ==
    [site : UNION {ToSet(sites) : sites \in Corpora}, state : {"Pending", "Complete", "Failed"},
     status : Statuses \cup {Unset}, subsystems : SUBSET Subsystems, failures : Seq(FailureRecords)]

CheckRun == [id : Runs, state : {"Pending", "Running", "Complete"}, sites : Seq(SiteResults)]

ASSUME CheckAssumption ==
    /\ Workers \in Nat /\ MaxAttempts \in Nat
    /\ \A sites \in Corpora : sites \in Seq(ToSet(sites))
    /\ Unset \notin Statuses /\ Unset \notin CheckRun /\ Torn \notin CheckRun

VARIABLES checking,        \* of the corpus command under way, "none" if there is none
          run,          \* its CheckRun
          index,        \* the site it is at
          files,        \* what is in the directory of each run
          queue,        \* RunScheduler::queue
          flying,       \* sites handed to workers
          attempts,     \* history: how often each site was executed, and its last failure
          pending       \* history: the sites the scheduler was made for

corpusVars == <<checking, run, index, files>>
schedulerVars == <<queue, flying, attempts, pending>>
checkVars == <<corpusVars, schedulerVars>>

SiteResult(site, state, o) ==
    [site |-> site, state |-> state, status |-> o.status, subsystems |-> o.subsystems,
     failures |-> o.failures]

Untested == [status |-> Unset, subsystems |-> {}, failures |-> << >>]

CheckInit ==
    /\ checking = "none" /\ run = Unset /\ index = 0
    /\ files = [r \in Runs |-> [json |-> Unset, tmp |-> Unset]]
    /\ queue = << >> /\ flying = {} /\ attempts = << >> /\ pending = {}
-----------------------------------------------------------------------------
(* check corpus *)

new(id, sites) ==
    [id |-> id, state |-> "Pending",
     sites |-> [i \in DOMAIN sites |-> SiteResult(sites[i], "Pending", Untested)]]

pending_site_indices(r) == {i \in DOMAIN r.sites : r.sites[i].state \in {"Pending", "RetryPending"}}

\* load_sites_csv read the corpus; a file it refuses ends the command at once.
begin(id, sites) ==
    /\ checking = "none" /\ files[id] = [json |-> Unset, tmp |-> Unset]
    /\ run' = [new(id, sites) EXCEPT !.state = "Running"]
    /\ checking' = "running" /\ index' = 1
    /\ UNCHANGED <<files, schedulerVars>>

\* The fingerprint stands for the hash of category and text.
FailureRecord(category, error) ==
    [category |-> category, fingerprint |-> <<category, error>>]

\* BrowserSiteExecutor::execute: the first engine call that fails fails the site.
Outcomes ==
    {[status |-> "Fail", subsystems |-> {}, failures |-> <<FailureRecord(c, e)>>] :
        c \in Categories, e \in Errors}
    \cup {[status |-> "Pass", subsystems |-> Subsystems, failures |-> << >>]}

Passed(status) == status \in {"Pass", "PassWithWarnings"}

Skipped(result) == [result EXCEPT !.state = "Complete", !.status = "Skipped"]

run_site ==
    /\ checking = "running" /\ index \in DOMAIN run.sites
    /\ LET result == run.sites[index]
       IN \E o \in Outcomes :
             run' = [run EXCEPT !.sites[index] =
                IF ~result.site.enabled THEN Skipped(result)
                ELSE SiteResult(result.site, IF Passed(o.status) THEN "Complete" ELSE "Failed", o)]
    /\ index' = index + 1
    /\ UNCHANGED <<checking, files, schedulerVars>>

\* RunStore::save: the temporary file is there before it is whole.
save_begin ==
    /\ checking = "running" /\ index > Len(run.sites)
    /\ run' = [run EXCEPT !.state = "Complete"]
    /\ files' = [files EXCEPT ![run.id].tmp = Torn]
    /\ checking' = "saving"
    /\ UNCHANGED <<index, schedulerVars>>

\* Mutant: the file is not written beside the old one.
SaveInPlace ==
    /\ checking = "saving"
    /\ files' = [files EXCEPT ![run.id].json = Torn]
    /\ checking' = "written"
    /\ UNCHANGED <<run, index, schedulerVars>>

save_written ==
    /\ checking = "saving"
    /\ files' = [files EXCEPT ![run.id].tmp = run]
    /\ checking' = "written"
    /\ UNCHANGED <<run, index, schedulerVars>>

\* Renamed; the reports are written and the command is over.
save_rename ==
    /\ checking = "written"
    /\ files' = [files EXCEPT ![run.id] = [json |-> @.tmp, tmp |-> Unset]]
    /\ checking' = "none" /\ run' = Unset /\ index' = 0
    /\ UNCHANGED schedulerVars

\* The process dies, or an I/O error ends the command.
crash ==
    /\ checking # "none"
    /\ checking' = "none" /\ run' = Unset /\ index' = 0
    /\ UNCHANGED <<files, schedulerVars>>

\* RunStore::load, for the report command.
load_run(id) == files[id].json
-----------------------------------------------------------------------------
(* Reports and comparisons of stored runs *)

Count(S, P(_)) == Cardinality({x \in S : P(x)})

Fingerprints(r) ==
    UNION {{f.fingerprint : f \in ToSet(r.sites[i].failures)} : i \in DOMAIN r.sites}

RunSummary(r) ==
    [scheduled |-> Len(r.sites),
     tested |-> Count(DOMAIN r.sites, LAMBDA i : r.sites[i].status # Unset),
     statuses |-> [s \in {r.sites[i].status : i \in DOMAIN r.sites} \ {Unset} |->
                      Count(DOMAIN r.sites, LAMBDA i : r.sites[i].status = s)],
     subsystem_passes |-> [s \in UNION {r.sites[i].subsystems : i \in DOMAIN r.sites} |->
                              Count(DOMAIN r.sites, LAMBDA i : s \in r.sites[i].subsystems)],
     failures |-> Cardinality(UNION {{i} \X DOMAIN r.sites[i].failures : i \in DOMAIN r.sites}),
     fingerprints |-> Cardinality(Fingerprints(r))]

\* CoverageSummary counts the sites that passed, with or without warnings.
CoverageSummary(r) == Count(DOMAIN r.sites, LAMBDA i : Passed(r.sites[i].status))

\* The results by site id: of two with the same id the last.
ById(r) ==
    [id \in {r.sites[i].site.id : i \in DOMAIN r.sites} |->
        r.sites[Max({i \in DOMAIN r.sites : r.sites[i].site.id = id})]]

\* Mutant: only sites of both runs are looked at.
CompareCommon(before, after) ==
    LET left == ById(before) right == ById(after)
    IN [added_sites |-> {}, removed_sites |-> {},
        status_changes |-> {id \in DOMAIN left \cap DOMAIN right : left[id].status # right[id].status},
        new_fingerprints |-> Fingerprints(after) \ Fingerprints(before),
        resolved_fingerprints |-> Fingerprints(before) \ Fingerprints(after)]

compare_runs(before, after) ==
    LET left == ById(before) right == ById(after)
    IN [added_sites |-> DOMAIN right \ DOMAIN left, removed_sites |-> DOMAIN left \ DOMAIN right,
        status_changes |-> {id \in DOMAIN left \cap DOMAIN right : left[id].status # right[id].status},
        new_fingerprints |-> Fingerprints(after) \ Fingerprints(before),
        resolved_fingerprints |-> Fingerprints(before) \ Fingerprints(after)]
-----------------------------------------------------------------------------
(* RunScheduler *)

ScheduledSite(i, n) == [index |-> i, attempt |-> n]

\* A run read back, of which some sites are settled.
from_run(r) ==
    /\ pending = {} /\ pending_site_indices(r) # {}
    /\ pending' = pending_site_indices(r)
    /\ \E order \in [1 .. Cardinality(pending') -> pending'] :
          /\ \A i, j \in DOMAIN order : i < j => order[i] < order[j]
          /\ queue' = [i \in DOMAIN order |-> ScheduledSite(order[i], 0)]
    /\ attempts' = [i \in DOMAIN r.sites |-> [count |-> 0, failure |-> Unset]]
    /\ UNCHANGED <<corpusVars, flying>>

next_batch ==
    /\ queue # << >>
    /\ LET count == Min({Max({Workers, 1}), Len(queue)})
       IN /\ flying' = flying \cup {queue[i] : i \in 1 .. count}
          /\ queue' = SubSeq(queue, count + 1, Len(queue))
    /\ UNCHANGED <<corpusVars, attempts, pending>>

Transient == {"Timeout", "Hang", "Crash"}

should_retry(attempt, failure) == attempt < MaxAttempts /\ failure \in Transient

\* Mutant: the attempt that failed is put back as it was.
RetryUncounted(site, failure) ==
    queue' = IF should_retry(site.attempt, failure) THEN Append(queue, site) ELSE queue

retry(site, failure) ==
    queue' = IF should_retry(site.attempt, failure)
             THEN Append(queue, ScheduledSite(site.index, site.attempt + 1)) ELSE queue

\* A worker is back with a result; workers are back in any order.
executed(site, failure) ==
    /\ site \in flying /\ flying' = flying \ {site}
    /\ retry(site, failure)
    /\ attempts' = [attempts EXCEPT ![site.index] = [count |-> @.count + 1, failure |-> failure]]
    /\ UNCHANGED <<corpusVars, pending>>

CorpusNext ==
    \/ \E id \in Runs, sites \in Corpora : begin(id, sites)
    \/ run_site \/ save_begin \/ save_written \/ save_rename \/ crash

Resumable(sites) ==
    {[new(CHOOSE r \in Runs : TRUE, sites) EXCEPT
        !.sites = [i \in DOMAIN sites |-> SiteResult(sites[i], states[i], Untested)]] :
           states \in [DOMAIN sites -> {"Pending", "RetryPending", "Complete", "Failed"}]}

SchedulerNext ==
    \/ \E sites \in Corpora : \E r \in Resumable(sites) : from_run(r)
    \/ next_batch
    \/ \E site \in flying, failure \in {"Timeout", "Snapshot", Unset} : executed(site, failure)
-----------------------------------------------------------------------------
(* What the report command reads is a run that went to its end: whole, with  *)
(* a result for every site - the summary's tested sites are the scheduled    *)
(* ones and its statuses add up - wherever the commands before it crashed.   *)
StoredRunsAreFinished ==
    \A id \in Runs : load_run(id) # Unset =>
       /\ load_run(id) # Torn
       /\ LET s == RunSummary(load_run(id))
          IN /\ pending_site_indices(load_run(id)) = {}
             /\ s.tested = s.scheduled
             /\ FoldFunction(LAMBDA a, b : a + b, 0, s.statuses) = s.tested

UniqueIds(r) == Cardinality(DOMAIN ById(r)) = Len(r.sites)

(* Two stored runs between which the comparison finds nothing have the same  *)
(* summary and coverage, if their site ids are unique: although it looks at  *)
(* statuses and at the set of fingerprints only, no failure and no result of *)
(* a subsystem is more or less without it.                                   *)
ComparisonMissesNothing ==
    \A a, b \in {id \in Runs : load_run(id) \notin {Unset, Torn}} :
       LET before == load_run(a) after == load_run(b)
       IN /\ UniqueIds(before) /\ UniqueIds(after)
          /\ \A d \in Range(compare_runs(before, after)) : d = {}
          => RunSummary(before) = RunSummary(after) /\ CoverageSummary(before) = CoverageSummary(after)

(* Every pending site is executed, no other one is, none is with two workers *)
(* at once, and none more often than the retries allow, which is one time    *)
(* more than MaxAttempts; a site is given up after a transient failure only  *)
(* when they are used up.                                                    *)
SitesAreSettled ==
    LET scheduled == ToSet(queue) \cup flying
    IN /\ \A i \in DOMAIN attempts :
             /\ attempts[i].count <= MaxAttempts + 1
             /\ attempts[i].count > 0 => i \in pending
             /\ Cardinality({s \in scheduled : s.index = i}) <= 1
       /\ \A i \in pending : \/ \E s \in scheduled : s.index = i
                             \/ attempts[i].count = MaxAttempts + 1
                             \/ attempts[i].count > 0 /\ attempts[i].failure \notin Transient

(* A check run is worked off without losing or repeating a site, and only    *)
(* what was worked off is stored (RunScheduler, RunStore::save).             *)
RunsAreSettled == StoredRunsAreFinished /\ SitesAreSettled
=============================================================================
