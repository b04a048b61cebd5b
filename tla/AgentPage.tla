----------------------------- MODULE AgentPage ------------------------------
(***************************************************************************)
(* What an agent's work on a page is made of: the page's tree and frames,   *)
(* planned actions and their confirmation, and the records they leave.      *)
(* The crates share no state beyond what ActionPlanning composes, so a      *)
(* behaviour is one of a single part.                                       *)
(***************************************************************************)
EXTENDS Journals, ActionPlanning, ConfirmationQueue

VARIABLE part
vars == <<part, journalVars, pageVars, planVars, queueVars>>

Parts == {"changes", "diffs", "trace", "audit", "snapshots", "document", "copy", "paging",
          "frames", "planning", "confirmation"}

Init ==
    /\ part \in Parts
    /\ JournalsInit /\ PageInit /\ PlanInit /\ QueueInit
    /\ part # "planning" => policy = CHOOSE p \in Policies : TRUE
    /\ part \notin {"changes", "diffs", "snapshots"} => \A c \in Capacities : stream.capacity >= c

Next ==
    /\ \/ /\ \/ part = "changes" /\ StreamNext
             \/ part = "diffs" /\ DiffStreamNext
             \/ part = "trace" /\ TraceNext
             \/ part = "audit" /\ AuditNext
             \/ part = "snapshots" /\ SnapshotNext
          /\ UNCHANGED <<pageVars, planVars, queueVars>>
       \/ /\ \/ part = "document" /\ DocumentNext
             \/ part = "copy" /\ DiffNext
             \/ part = "paging" /\ PagingNext
             \/ part = "frames" /\ FrameNext
          /\ UNCHANGED <<journalVars, planVars, queueVars>>
       \/ part = "planning" /\ PlanNext /\ UNCHANGED <<journalVars, queueVars>>
       \/ part = "confirmation" /\ QueueNext /\ UNCHANGED <<journalVars, pageVars, planVars>>
    /\ UNCHANGED part

Spec == Init /\ [][Next]_vars
=============================================================================
