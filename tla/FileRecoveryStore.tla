-------------------------- MODULE FileRecoveryStore --------------------------
(***************************************************************************)
(* The checkpoint file of crates/recovery: save under a lock file with     *)
(* rotated backups and an atomic rename, and restore_backup, which takes   *)
(* no lock.  Several processes use one path; each may crash between any    *)
(* two file-system calls, and each call may fail.                          *)
(*                                                                         *)
(* A file's content is a checkpoint, Absent, or Torn for what a copy has   *)
(* not finished writing, which load and restore_backup reject.  Temporary  *)
(* files have unique names and are seen by nobody else.                    *)
(***************************************************************************)
EXTENDS Integers, FiniteSets

CONSTANTS Processes, Checkpoints,
          Absent, Torn,       \* no file; a file that does not parse
          Retention           \* RecoveryFileOptions::backup_retention

ASSUME RecoveryAssumption ==
    /\ Retention \in Nat
    /\ Absent \notin Checkpoints /\ Torn \notin Checkpoints /\ Absent # Torn

VARIABLES main,     \* content of path
          bak,      \* content of path.bak0, path.bak1, ...
          lock,     \* path.lock exists
          pc,       \* where each process is in save or restore_backup
          pending,  \* what each process is about to rename onto path
          index,    \* loop variable of rotate_backups
          source,   \* the file fs::copy has opened
          previous, \* history: what the last finished save replaced
          failed,   \* history: a save has returned an error after its lock
          restored, \* history: a backup was restored
          left      \* history: the lock file was left behind by its saver

vars == <<main, bak, lock, pc, pending, index, source, previous, failed, restored, left>>

Slots == 0 .. Retention - 1
File  == Checkpoints \cup {Absent, Torn}

\* save_locked runs between taking the lock file and removing it.
Saving == {"write", "rotate", "copy", "copying", "rename", "unlock"}
Savers == {p \in Processes : pc[p] \in Saving}

Init ==
    /\ main = Absent /\ bak = [i \in Slots |-> Absent] /\ lock = FALSE
    /\ pc = [p \in Processes |-> "idle"]
    /\ pending = [p \in Processes |-> Absent]
    /\ index = [p \in Processes |-> 0]
    /\ source = [p \in Processes |-> Absent]
    /\ previous = Absent
    /\ failed = FALSE /\ restored = FALSE /\ left = FALSE

Goto(p, l) == pc' = [pc EXCEPT ![p] = l]

\* The call returns and its local variables are gone.
Return(p) ==
    /\ Goto(p, "idle")
    /\ pending' = [pending EXCEPT ![p] = Absent]
    /\ index' = [index EXCEPT ![p] = 0]
    /\ source' = [source EXCEPT ![p] = Absent]

History == <<previous, failed, restored, left>>
-----------------------------------------------------------------------------
\* Mutant: the lock file is opened with create instead of create_new.
LockShared(p, c) ==
    /\ pc[p] = "idle"
    /\ lock' = TRUE
    /\ pending' = [pending EXCEPT ![p] = c]
    /\ Goto(p, "write")
    /\ UNCHANGED <<main, bak, index, source, History>>

\* save, lock: LockHeld, which changes nothing, while the file exists.
Lock(p, c) ==
    /\ pc[p] = "idle" /\ ~lock
    /\ lock' = TRUE
    /\ pending' = [pending EXCEPT ![p] = c]
    /\ Goto(p, "write")
    /\ UNCHANGED <<main, bak, index, source, History>>

\* Mutant: path is copied over bak0 without moving the older backups.
WriteSkipsRotation(p) ==
    /\ pc[p] = "write"
    /\ index' = index
    /\ Goto(p, IF main = Absent \/ Retention = 0 THEN "rename" ELSE "copy")
    /\ UNCHANGED <<main, bak, lock, pending, source, History>>

\* The temporary file is written and synced; an existing path is rotated.
Write(p) ==
    /\ pc[p] = "write"
    /\ index' = [index EXCEPT ![p] = IF Retention = 0 THEN 0 ELSE Retention - 1]
    /\ Goto(p, IF main = Absent \/ Retention = 0 THEN "rename"
               ELSE IF Retention = 1 THEN "copy" ELSE "rotate")
    /\ UNCHANGED <<main, bak, lock, pending, source, History>>

\* One iteration of rotate_backups: bak(i-1) is renamed to bak(i).
Rotate(p) ==
    LET i == index[p]
    IN /\ pc[p] = "rotate"
       /\ bak' = IF bak[i - 1] = Absent THEN bak
                 ELSE [bak EXCEPT ![i] = bak[i - 1], ![i - 1] = Absent]
       /\ index' = [index EXCEPT ![p] = i - 1]
       /\ Goto(p, IF i = 1 THEN "copy" ELSE "rotate")
       /\ UNCHANGED <<main, lock, pending, source, History>>

\* fs::copy opens path and truncates bak0 ...
CopyOpen(p) ==
    /\ pc[p] = "copy"
    /\ source' = [source EXCEPT ![p] = main]
    /\ bak' = [bak EXCEPT ![0] = Torn]
    /\ Goto(p, "copying")
    /\ UNCHANGED <<main, lock, pending, index, History>>

\* ... and fills it.
CopyFill(p) ==
    /\ pc[p] = "copying"
    /\ bak' = [bak EXCEPT ![0] = source[p]]
    /\ Goto(p, "rename")
    /\ UNCHANGED <<main, lock, pending, index, source, History>>

\* Mutant: the checkpoint is written into path itself.
WriteInPlace(p) ==
    /\ pc[p] = "rename"
    /\ main' \in {pending[p], Torn}
    /\ previous' = main
    /\ Goto(p, "unlock")
    /\ UNCHANGED <<bak, lock, pending, index, source, failed, restored, left>>

\* The atomic rename of the temporary file onto path.
Rename(p) ==
    /\ pc[p] = "rename"
    /\ main' = pending[p]
    /\ previous' = main
    /\ Goto(p, "unlock")
    /\ UNCHANGED <<bak, lock, pending, index, source, failed, restored, left>>

\* save drops the lock and removes its file, whatever save_locked returned;
\* that the file cannot be removed goes unnoticed.
Unlock(p) ==
    /\ pc[p] = "unlock"
    /\ \/ lock' = FALSE /\ UNCHANGED left
       \/ left' = TRUE /\ UNCHANGED lock
    /\ Return(p)
    /\ UNCHANGED <<main, bak, previous, failed, restored>>

\* Mutant: an error returns from save with the lock file in place.
FailKeepsLock(p) ==
    /\ pc[p] \in Saving \ {"unlock"}
    /\ failed' = TRUE
    /\ Return(p)
    /\ UNCHANGED <<main, bak, lock, previous, restored, left>>

\* An unsupported version, an invalid state or a failed call ends save_locked.
Fail(p) ==
    /\ pc[p] \in Saving \ {"unlock"}
    /\ failed' = TRUE
    /\ Goto(p, "unlock")
    /\ UNCHANGED <<main, bak, lock, pending, index, source, previous, restored, left>>
-----------------------------------------------------------------------------
(* restore_backup reads and validates bak0, writes a temporary file and      *)
(* renames it onto path; a missing or torn backup changes nothing.           *)
RestoreRead(p) ==
    /\ pc[p] = "idle"
    /\ 0 \in Slots /\ bak[0] \in Checkpoints
    /\ pending' = [pending EXCEPT ![p] = bak[0]]
    /\ Goto(p, "restoring")
    /\ UNCHANGED <<main, bak, lock, index, source, History>>

RestoreRename(p) ==
    /\ pc[p] = "restoring"
    /\ main' = pending[p]
    /\ restored' = TRUE
    /\ Return(p)
    /\ UNCHANGED <<bak, lock, previous, failed, left>>

RestoreFail(p) ==
    /\ pc[p] = "restoring"
    /\ Return(p)
    /\ UNCHANGED <<main, bak, lock, History>>

\* The process dies; the file system keeps what it has, the lock file too.
Crash(p) ==
    /\ pc[p] # "idle"
    /\ left' = (left \/ p \in Savers)
    /\ Return(p)
    /\ UNCHANGED <<main, bak, lock, previous, failed, restored>>

Step(p) == \/ Write(p) \/ Rotate(p) \/ CopyOpen(p) \/ CopyFill(p) \/ Rename(p)
           \/ Unlock(p) \/ Fail(p)

Next ==
    \E p \in Processes :
        \/ \E c \in Checkpoints : Lock(p, c)
        \/ Step(p)
        \/ RestoreRead(p) \/ RestoreRename(p) \/ RestoreFail(p)
        \/ Crash(p)

\* A process that has started to save is scheduled.
Fairness == \A p \in Processes : WF_vars(Step(p))

Spec == Init /\ [][Next]_vars /\ Fairness
-----------------------------------------------------------------------------
TypeOK ==
    /\ main \in File
    /\ bak \in [Slots -> File] /\ lock \in BOOLEAN
    /\ pc \in [Processes -> Saving \cup {"idle", "restoring"}]
    /\ pending \in [Processes -> File]
    /\ index \in [Processes -> Slots \cup {0}]
    /\ source \in [Processes -> File]
    /\ previous \in File
    /\ failed \in BOOLEAN /\ restored \in BOOLEAN /\ left \in BOOLEAN

(* The lock file admits one process to save_locked at a time, also after     *)
(* errors and crashes of others, and with a lock file left behind.           *)
OneSaver ==
    /\ \A p, q \in Savers : p = q
    /\ Savers # {} => lock

(* Once a checkpoint was saved, path holds a complete checkpoint at every    *)
(* moment: whatever crashes or fails, and although restore_backup takes no   *)
(* lock, it is only ever replaced as a whole.                                *)
MainReplacedWhole == [][main' # main => main' \in Checkpoints]_vars

(* A crash at any point of a save, in the middle of the rotation too, leaves *)
(* the checkpoint before the last one in some backup.  (A save that fails    *)
(* after its rotation does push the oldest backup out.)                      *)
CrashKeepsPrevious ==
    Retention >= 2 /\ previous # Absent /\ ~failed /\ ~restored
        => \E i \in Slots : bak[i] = previous

(* Unless its saver dies or cannot remove it, every lock file is removed     *)
(* again, also after an error.                                               *)
LockReleased == [](lock => <>(~lock \/ left))
=============================================================================
