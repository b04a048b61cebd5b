----------------------- MODULE FileRecoveryStoreProofs -----------------------
(* The lock admits one saver and path is only replaced as a whole, for any   *)
(* set of processes and any number of backups.                               *)
EXTENDS FileRecoveryStore, TLAPS

(* A process that is about to rename a temporary file holds a checkpoint in  *)
(* it, and one that fills a backup has opened a path that exists.            *)
HoldsCheckpoint ==
    \A p \in Processes :
        /\ pc[p] \in (Saving \ {"unlock"}) \cup {"restoring"} => pending[p] \in Checkpoints
        /\ pc[p] = "rotate" => index[p] \in Slots /\ index[p] >= 1

(* The inductive invariant of the simple properties.                         *)
IInv == TypeOK /\ OneSaver /\ HoldsCheckpoint

USE DEF Saving, Savers

(* The invariant holds before anything was saved.                            *)
LEMMA InitIInv == Init => IInv
BY RecoveryAssumption DEF Init, IInv, TypeOK, OneSaver, HoldsCheckpoint, File, Slots

(* The arithmetic of the rotation's loop.                                    *)
LEMMA RotationIndex == \A i \in Slots : i >= 1 /\ i # 1 => i - 1 \in Slots /\ i - 1 >= 1
BY RecoveryAssumption DEF Slots

(* Which backup indices exist.                                               *)
LEMMA SlotsFacts == /\ Slots \subseteq Int
                    /\ \A i \in Slots : i >= 1 => i - 1 \in Slots
                    /\ Retention # 0 => 0 \in Slots /\ Retention - 1 \in Slots
                    /\ Retention # 0 /\ Retention # 1 => Retention - 1 >= 1
BY RecoveryAssumption DEF Slots

(* Type correctness is preserved, given where the rotation stands.           *)
LEMMA TypeStep == IInv /\ [Next]_vars => TypeOK'
<1> SUFFICES ASSUME IInv, [Next]_vars PROVE TypeOK'
    OBVIOUS
<1> USE SlotsFacts, RecoveryAssumption DEF IInv, TypeOK, HoldsCheckpoint, File, Goto, History
<1>1. CASE UNCHANGED vars
    BY <1>1 DEF vars
<1>2. ASSUME NEW p \in Processes, NEW c \in Checkpoints, Lock(p, c) PROVE TypeOK'
    BY <1>2 DEF Lock
<1>3. ASSUME NEW p \in Processes, Write(p) PROVE TypeOK'
    BY <1>3 DEF Write
<1>4. ASSUME NEW p \in Processes, Rotate(p) PROVE TypeOK'
    BY <1>4 DEF Rotate
<1>5. ASSUME NEW p \in Processes, CopyOpen(p) \/ CopyFill(p) PROVE TypeOK'
    BY <1>5 DEF CopyOpen, CopyFill
<1>6. ASSUME NEW p \in Processes, Rename(p) \/ Unlock(p) \/ Fail(p) PROVE TypeOK'
    BY <1>6 DEF Rename, Unlock, Fail, Return
<1>7. ASSUME NEW p \in Processes, RestoreRead(p) \/ RestoreRename(p) \/ RestoreFail(p) PROVE TypeOK'
    BY <1>7 DEF RestoreRead, RestoreRename, RestoreFail, Return
<1>8. ASSUME NEW p \in Processes, Crash(p) PROVE TypeOK'
    BY <1>8 DEF Crash, Return
<1>9. QED
    BY <1>1, <1>2, <1>3, <1>4, <1>5, <1>6, <1>7, <1>8 DEF Next, Step

(* A process enters save_locked only through Lock, when nobody is inside;    *)
(* the lock file goes away only in the hands of the one that leaves.         *)
LEMMA OneSaverStep == IInv /\ [Next]_vars => OneSaver'
<1> SUFFICES ASSUME IInv, [Next]_vars PROVE OneSaver'
    OBVIOUS
<1> USE DEF IInv, TypeOK, OneSaver, Goto
<1>1. CASE UNCHANGED vars
    BY <1>1 DEF vars
<1>2. ASSUME NEW p \in Processes, NEW c \in Checkpoints, Lock(p, c) PROVE OneSaver'
    BY <1>2 DEF Lock
<1>3. ASSUME NEW p \in Processes, Write(p) \/ Rotate(p) \/ CopyOpen(p) \/ CopyFill(p) PROVE OneSaver'
    BY <1>3 DEF Write, Rotate, CopyOpen, CopyFill
<1>4. ASSUME NEW p \in Processes, Rename(p) \/ Fail(p) PROVE OneSaver'
    BY <1>4 DEF Rename, Fail
<1>5. ASSUME NEW p \in Processes, Unlock(p) PROVE OneSaver'
    BY <1>5 DEF Unlock, Return
<1>6. ASSUME NEW p \in Processes, RestoreRead(p) \/ RestoreRename(p) \/ RestoreFail(p) PROVE OneSaver'
    BY <1>6 DEF RestoreRead, RestoreRename, RestoreFail, Return
<1>7. ASSUME NEW p \in Processes, Crash(p) PROVE OneSaver'
    BY <1>7 DEF Crash, Return
<1>8. QED
    BY <1>1, <1>2, <1>3, <1>4, <1>5, <1>6, <1>7 DEF Next, Step

(* Every way to reach a rename goes through Lock or RestoreRead.             *)
LEMMA HoldsCheckpointStep == IInv /\ [Next]_vars => HoldsCheckpoint'
<1> SUFFICES ASSUME IInv, [Next]_vars PROVE HoldsCheckpoint'
    OBVIOUS
<1> USE SlotsFacts, RecoveryAssumption DEF IInv, TypeOK, HoldsCheckpoint, Goto
<1>1. CASE UNCHANGED vars
    BY <1>1 DEF vars
<1>2. ASSUME NEW p \in Processes, NEW c \in Checkpoints, Lock(p, c) PROVE HoldsCheckpoint'
    BY <1>2 DEF Lock
<1>3. ASSUME NEW p \in Processes, Write(p) PROVE HoldsCheckpoint'
    BY <1>3 DEF Write
<1>4. ASSUME NEW p \in Processes, Rotate(p) PROVE HoldsCheckpoint'
  <2>1. /\ index[p] \in Slots /\ index[p] >= 1
        /\ index' = [index EXCEPT ![p] = index[p] - 1]
        /\ pc' = [pc EXCEPT ![p] = IF index[p] = 1 THEN "copy" ELSE "rotate"]
        /\ UNCHANGED pending
    BY <1>4 DEF Rotate
  <2>2. index[p] # 1 => index[p] - 1 \in Slots /\ index[p] - 1 >= 1
    BY <2>1, RotationIndex
  <2>3. pc[p] = "rotate"
    BY <1>4 DEF Rotate
  <2>4. ASSUME NEW q \in Processes, q # p
        PROVE  pc'[q] = pc[q] /\ pending'[q] = pending[q] /\ index'[q] = index[q]
    BY <2>1, <2>4
  <2>5. pc'[p] = (IF index[p] = 1 THEN "copy" ELSE "rotate") /\ index'[p] = index[p] - 1
    BY <2>1
  <2>6. pending'[p] \in Checkpoints
    BY <2>1, <2>3
  <2>7. pc'[p] = "rotate" => index'[p] \in Slots /\ index'[p] >= 1
    BY <2>2, <2>5
  <2>8. QED
    BY <2>4, <2>6, <2>7
<1>5. ASSUME NEW p \in Processes, CopyOpen(p) \/ CopyFill(p) PROVE HoldsCheckpoint'
    BY <1>5 DEF CopyOpen, CopyFill
<1>6. ASSUME NEW p \in Processes, Rename(p) \/ Unlock(p) \/ Fail(p) PROVE HoldsCheckpoint'
    BY <1>6 DEF Rename, Unlock, Fail, Return
<1>7. ASSUME NEW p \in Processes, RestoreRead(p) \/ RestoreRename(p) \/ RestoreFail(p) PROVE HoldsCheckpoint'
    BY <1>7 DEF RestoreRead, RestoreRename, RestoreFail, Return
<1>8. ASSUME NEW p \in Processes, Crash(p) PROVE HoldsCheckpoint'
    BY <1>8 DEF Crash, Return
<1>9. QED
    BY <1>1, <1>2, <1>3, <1>4, <1>5, <1>6, <1>7, <1>8 DEF Next, Step

(* The three parts together are inductive.                                   *)
LEMMA Inductive == Spec => []IInv
<1>1. IInv /\ [Next]_vars => IInv'
    BY TypeStep, OneSaverStep, HoldsCheckpointStep DEF IInv
<1>2. QED
    BY InitIInv, <1>1, PTL DEF Spec

(* For every set of processes, whatever crashes or fails, at most one        *)
(* process is inside save_locked, and the lock file exists while it is.      *)
THEOREM MutualExclusion == Spec => []OneSaver
<1>1. IInv => OneSaver
    BY DEF IInv
<1>2. QED
    BY Inductive, <1>1, PTL

(* The type invariant of the checkpoint store, for every retention.          *)
THEOREM TypeCorrect == Spec => []TypeOK
<1>1. IInv => TypeOK
    BY DEF IInv
<1>2. QED
    BY Inductive, <1>1, PTL

(* A step that changes path replaces it by a complete checkpoint, for every  *)
(* number of concurrent savers and restorers: path never becomes torn and,   *)
(* once it exists, never disappears.                                         *)
THEOREM ReplacedWhole == Spec => MainReplacedWhole
<1>1. IInv /\ [Next]_vars => [main' # main => main' \in Checkpoints]_vars
    BY DEF IInv, HoldsCheckpoint, Next, Step, Lock, Write, Rotate, CopyOpen, CopyFill, Rename,
           Unlock, Fail, RestoreRead, RestoreRename, RestoreFail, Crash, vars
<1>2. QED
    BY Inductive, <1>1, PTL DEF Spec, MainReplacedWhole

-----------------------------------------------------------------------------
(* Where the checkpoint before the last one is at each point of a save, as   *)
(* long as no save failed and nothing was restored: in bak0 until the        *)
(* rotation moves it to bak1, which it leaves alone, and from the rename on  *)
(* the copy of path is it.  After a crash the lock file stays, and the       *)
(* backups with it.                                                          *)
BackupsKept ==
    Retention >= 2 /\ ~failed /\ ~restored =>
        /\ \A p \in Processes :
              /\ pc[p] = "copying" => source[p] = main
              /\ pc[p] = "rename" => main \in {Absent, bak[0]}
        /\ previous # Absent =>
              /\ main # Absent
              /\ ~lock => bak[0] = previous
              /\ \A p \in Processes :
                    /\ pc[p] \in {"write", "rotate", "unlock"} => bak[0] = previous
                    /\ pc[p] \in {"copy", "copying", "rename"} => bak[1] = previous
              /\ bak[0] = previous \/ bak[1] = previous

(* Nothing was saved yet.                                                    *)
LEMMA InitBackups == Init => BackupsKept
BY RecoveryAssumption DEF Init, BackupsKept

(* One step of one process keeps the checkpoint, or counts as a failure or a *)
(* restore.                                                                  *)
LEMMA BackupsStep == IInv /\ IInv' /\ BackupsKept /\ [Next]_vars => BackupsKept'
<1> SUFFICES ASSUME IInv, IInv', BackupsKept, [Next]_vars, Retention >= 2, ~failed', ~restored'
             PROVE  BackupsKept'
    BY DEF BackupsKept
<1>s. Retention \in Nat /\ 0 \in Slots /\ 1 \in Slots
    BY RecoveryAssumption DEF Slots
<1> USE <1>s, RecoveryAssumption DEF IInv, TypeOK, HoldsCheckpoint, File, Goto, History, BackupsKept
<1>1. CASE UNCHANGED vars
    BY <1>1 DEF vars
<1>2. ASSUME NEW p \in Processes, NEW c \in Checkpoints, Lock(p, c) PROVE BackupsKept'
    BY <1>2 DEF Lock, OneSaver
<1>3. ASSUME NEW p \in Processes, Write(p) PROVE BackupsKept'
    BY <1>3 DEF Write, OneSaver
<1>4. ASSUME NEW p \in Processes, Rotate(p) PROVE BackupsKept'
    BY <1>4 DEF Rotate, OneSaver
<1>5. ASSUME NEW p \in Processes, CopyOpen(p) PROVE BackupsKept'
    BY <1>5 DEF CopyOpen, OneSaver
<1>6. ASSUME NEW p \in Processes, CopyFill(p) PROVE BackupsKept'
    BY <1>6 DEF CopyFill, OneSaver
<1>7. ASSUME NEW p \in Processes, Rename(p) PROVE BackupsKept'
    BY <1>7 DEF Rename, OneSaver
<1>8. ASSUME NEW p \in Processes, Unlock(p) PROVE BackupsKept'
    BY <1>8 DEF Unlock, OneSaver, Return
<1>9. ASSUME NEW p \in Processes, Fail(p) \/ RestoreRename(p) PROVE BackupsKept'
    BY <1>9 DEF Fail, RestoreRename
<1>10. ASSUME NEW p \in Processes, RestoreRead(p) \/ RestoreFail(p) \/ Crash(p) PROVE BackupsKept'
    BY <1>10 DEF RestoreRead, RestoreFail, Crash, Return
<1>11. QED
    BY <1>1, <1>2, <1>3, <1>4, <1>5, <1>6, <1>7, <1>8, <1>9, <1>10 DEF Next, Step

(* With at least two backups a crash anywhere in a save leaves the           *)
(* checkpoint before the last one in some backup, for any number of          *)
(* processes and backups.                                                    *)
THEOREM CrashKeeps == Spec => []CrashKeepsPrevious
<1>1. BackupsKept => CrashKeepsPrevious
    BY RecoveryAssumption DEF BackupsKept, CrashKeepsPrevious, Slots
<1>2. QED
    BY Inductive, InitBackups, BackupsStep, <1>1, PTL DEF Spec
=============================================================================
