---------------------------- MODULE BackupProofs ----------------------------
(***************************************************************************)
(* Proofs about Backup, for any versions and any number of failing writes  *)
(* and restarts, as long as a clean-up and a backup do not overlap         *)
(* (~Overlap).  That a completed update is backed up also needs that the   *)
(* application leaves a package alone that its backup removes (~Twice).    *)
(***************************************************************************)
EXTENDS Backup, TLAPS

\* The steps of the worker's commands.
CommandSteps ==
  {"p_add", "r_add", "r_begin", "r_again", "r_record", "r_install", "r_remove", "r_fail", "r_done",
   "s_begin", "s_remove"}

FileState == {"none", "torn", "ok"}

\* Where each thread may be, and which of them holds backup_lock.
Flow ==
  /\ pc \in [Threads -> {"idle"} \cup CommandSteps \cup BackupSteps \cup ConfirmSteps]
  /\ pc["app"] \in {"idle"} \cup BackupSteps
  /\ pc["runner"] \in {"idle"} \cup ConfirmSteps
  /\ backup_lock \in Threads \cup {None}
  /\ \A t \in Threads : pc[t] \in BackupSteps \ {"b_lock"} <=> backup_lock = t

\* The values on the disk and on the device, and those that a thread works with.
Values ==
  /\ installed \in Versions
  /\ kind \in [Versions -> {"full", "delta", "prepared"}]
  /\ download \subseteq Versions /\ rebuilt \subseteq Versions
  /\ backup \in [Versions -> {"none", "part", "whole"}]
  /\ temp \in [state : FileState, entries : SUBSET Entry]
  /\ manifest \in [state : FileState, entries : SUBSET Versions]
  /\ record \in Versions \cup {None}
  /\ kept \subseteq Versions /\ owed \in Versions \cup {None}
  /\ cleanup_ok_after_update \in BOOLEAN

Locals ==
  /\ target \in [Threads -> Versions \cup {None}] /\ named \in [Threads -> Versions \cup {None}]
  /\ from \in [Threads -> Places \cup {None}]
  /\ doc \in [Threads -> SUBSET Versions]
  /\ sound \in [Threads -> {"ok", "nothing", "failed"}]

\* What a step needs to have.
Needs ==
  /\ \A t \in Threads : pc[t] \notin {"idle", "s_begin"} => target[t] \in Versions
  /\ pc["worker"] = "s_begin" => record \in Versions
  /\ pc["worker"] \in {"p_add", "r_add", "r_again"} => from["worker"] \in Places

Control == Flow /\ Values /\ Locals /\ Needs

\* Worker and runner take turns; the application makes no backup during a clean-up, or
\* when one is due.
Turns ==
  /\ pc["worker"] = "idle" \/ pc["runner"] = "idle"
  /\ cleanup_ok_after_update => pc["app"] = "idle"
  /\ \A t \in Threads : pc[t] \in ConfirmSteps => pc["app"] = "idle"

\* What a backup has achieved at each of its steps.
BackupAt(t) ==
  /\ pc[t] \in {"b_link", "b_copy"} /\ sound[t] = "ok" =>
       \/ from[t] = "download" /\ target[t] \in download
       \/ from[t] = "rebuilt" /\ target[t] \in rebuilt
  /\ pc[t] \in {"b_copy", "b_copied", "b_add"} => target[t] \notin kept
  /\ pc[t] = "b_add" /\ sound[t] = "ok" => backup[target[t]] = "whole"
  /\ pc[t] = "b_write" => target[t] \in doc[t] /\ kept \subseteq doc[t]
                          /\ backup[target[t]] = "whole" /\ manifest.state = "torn"
  /\ pc[t] = "b_unlock" /\ sound[t] = "ok" => Restorable(target[t])

\* What a clean-up has achieved at each of its steps.
CleanupAt(t) ==
  /\ pc[t] = "c_loop" => kept \subseteq {target[t]} /\ doc[t] = manifest.entries
  /\ pc[t] = "c_write" => kept \subseteq doc[t] \cap {target[t]} /\ manifest.state = "torn"
  /\ pc[t] = "c_tidy" =>
       /\ kept \subseteq doc[t] \cap {target[t]}
       /\ manifest.state # "torn" => manifest.entries = doc[t] /\ doc[t] \subseteq {target[t]}

\* A backup that was made is whole, and listed when nobody writes the manifest.
KeptWhole ==
  \A v \in kept : backup[v] = "whole" /\ (~Writing => v \in manifest.entries)

Stored ==
  /\ \A t \in Threads : BackupAt(t) /\ CleanupAt(t)
  /\ KeptWhole
  /\ OnlyConfirmedLeft

\* The backup that is owed belongs to the worker's command or resume, and its package
\* is still there.
OwedSource ==
  owed # None =>
    /\ pc["worker"] \in {"r_remove", "s_begin"} \cup BackupSteps
    /\ owed = installed /\ HasSource(owed)
    /\ pc["worker"] = "s_begin" => owed = record
    /\ pc["worker"] # "s_begin" => owed = target["worker"]
    /\ pc["worker"] \notin {"r_remove", "s_begin", "b_lock", "b_lookup"} => sound["worker"] # "nothing"

\* A record is there from its save until the end of the installation or of the resume.
Recorded ==
  record # None =>
    /\ pc["worker"] \in {"r_install", "r_remove", "r_done", "s_begin", "s_remove"} \cup BackupSteps
    /\ pc["worker"] \in {"r_install", "r_remove"} \cup BackupSteps => record = target["worker"]

\* What the application backs up next to a command is the version that was on the device
\* when the command began, or the one it has installed, and for the latter the backup
\* leaves the package where it is.
Spared ==
  pc["app"] # "idle" =>
    /\ pc["worker"] \in {"r_add", "r_begin", "r_again", "r_record", "r_install"} =>
         target["app"] = installed
    /\ pc["worker"] \notin {"idle", "p_add"} /\ target["app"] = installed /\ backup_source =>
         TempPlace(installed) # "rebuilt"

Owing ==
  /\ OwedSource /\ Recorded /\ Spared
  /\ pc["worker"] \in {"r_again", "r_record", "r_install"} => installed # target["worker"]
  /\ pc["worker"] = "r_add" => from["worker"] = "download"

BackupInv == Control /\ Turns /\ Stored

-----------------------------------------------------------------------------
\* The temp manifest names a place or none (get_pkg_file_manifest).
LEMMA TempPlaceType ==
  ASSUME temp \in [state : FileState, entries : SUBSET Entry], NEW v \in Versions
  PROVE  TempPlace(v) \in Places \cup {None}
<1> DEFINE es == {e \in temp.entries : e.version = v}
<1>1. CASE es = {}
  BY <1>1 DEF TempPlace
<1>2. CASE es # {}
  <2>1. PICK e \in es : TRUE
    BY <1>2
  <2>2. (CHOOSE x \in es : TRUE) \in es
    BY <2>1
  <2>3. (CHOOSE x \in es : TRUE) \in Entry
    BY <2>2
  <2> QED BY <1>2, <2>3 DEF TempPlace, Entry
<1> QED BY <1>1, <1>2

\* prepare_install_action gives a place or none.
LEMMA PreparedPlaceType ==
  ASSUME NEW v, NEW place \in Places \cup {None}
  PROVE  PreparedPlace(v, place) \in Places \cup {None}
BY DEF PreparedPlace, Places

\* The temp manifest stays well formed (add_pkg_file_manifest).
LEMMA TempAddType ==
  ASSUME temp \in [state : FileState, entries : SUBSET Entry],
         target["worker"] \in Versions, from["worker"] \in Places, TempAdd
  PROVE  temp' \in [state : FileState, entries : SUBSET Entry]
<1>1. [version |-> target["worker"], place |-> from["worker"]] \in Entry
  BY DEF Entry
<1> QED BY <1>1 DEF TempAdd, AddEntry, Manifest, TornManifest, FileState

\* Each thread goes through the steps of its operation, and backup_lock is held by the
\* one at work between lock and unlock.
LEMMA FlowStep ==
  ASSUME Flow, BackupNext
  PROVE  Flow'
<1> USE BackupAssumption
    DEF Goto, Return, Flow, CommandSteps, BackupSteps, ConfirmSteps, Threads, config, comp,
        disk, locals, ghosts, bounds
<1>1. ASSUME NEW v \in Versions, NEW given \in BOOLEAN, PrepareUpdate(v, given) PROVE Flow'
  BY <1>1 DEF PrepareUpdate, WorkerFree
<1>2. ASSUME NEW m \in Versions, NEW v \in Versions, ReadyUpdate(m, v) PROVE Flow'
  BY <1>2 DEF ReadyUpdate, WorkerFree
<1>3. ASSUME NEW m \in Versions, NEW k \in Versions, ConfirmUpdate(m, k) PROVE Flow'
  BY <1>3 DEF ConfirmUpdate
<1>4. CASE ConfirmSkip
  BY <1>4 DEF ConfirmSkip
<1>5. CASE BackupCall
  BY <1>5 DEF BackupCall
<1>6. CASE PrepareAdd
  BY <1>6 DEF PrepareAdd
<1>7. CASE ReadyAdd
  BY <1>7 DEF ReadyAdd
<1>8. CASE ReadyBegin
  BY <1>8 DEF ReadyBegin, BackupOrNot
<1>9. CASE RollbackAdd
  BY <1>9 DEF RollbackAdd
<1>10. CASE RecordSave
  BY <1>10 DEF RecordSave
<1>11. CASE Install
  BY <1>11 DEF Install
<1>12. CASE RecordRemove
  BY <1>12 DEF RecordRemove, BackupOrNot
<1>13. CASE ReadyFailed
  BY <1>13 DEF ReadyFailed
<1>14. CASE ReadyDone
  BY <1>14 DEF ReadyDone
<1>15. CASE ResumeBegin
  BY <1>15 DEF ResumeBegin, ResumedCompleted
<1>16. CASE ResumeRemove
  BY <1>16 DEF ResumeRemove
<1>17. ASSUME NEW t \in {"worker", "app"}, BackupLock(t) PROVE Flow'
  BY <1>17 DEF BackupLock
<1>18. ASSUME NEW t \in {"worker", "app"}, BackupLookup(t) PROVE Flow'
  BY <1>18 DEF BackupLookup
<1>19. ASSUME NEW t \in {"worker", "app"}, BackupLink(t) PROVE Flow'
  BY <1>19 DEF BackupLink
<1>20. ASSUME NEW t \in {"worker", "app"}, BackupCopy(t) PROVE Flow'
  BY <1>20 DEF BackupCopy
<1>21. ASSUME NEW t \in {"worker", "app"}, BackupCopied(t) PROVE Flow'
  BY <1>21 DEF BackupCopied
<1>22. ASSUME NEW t \in {"worker", "app"}, BackupAdd(t) PROVE Flow'
  BY <1>22 DEF BackupAdd
<1>23. ASSUME NEW t \in {"worker", "app"}, BackupWrite(t) PROVE Flow'
  BY <1>23 DEF BackupWrite, SaveWrite
<1>24. ASSUME NEW t \in {"worker", "app"}, BackupUnlock(t) PROVE Flow'
  BY <1>24 DEF BackupUnlock, Released
<1>25. ASSUME NEW t \in {"worker", "runner"}, ConfirmRead(t) PROVE Flow'
  BY <1>25 DEF ConfirmRead
<1>26. ASSUME NEW t \in {"worker", "runner"}, ConfirmLoop(t) PROVE Flow'
  <2>1. pc' = [pc EXCEPT ![t] = "c_write"] \/ pc' = [pc EXCEPT ![t] = "c_tidy"]
    BY <1>26 DEF ConfirmLoop
  <2> QED BY <1>26, <2>1 DEF ConfirmLoop
<1>27. ASSUME NEW t \in {"worker", "runner"}, ConfirmWrite(t) PROVE Flow'
  BY <1>27 DEF ConfirmWrite, SaveWrite
<1>28. ASSUME NEW t \in {"worker", "runner"}, ConfirmTidy(t) PROVE Flow'
  BY <1>28 DEF ConfirmTidy
<1>29. ASSUME NEW t \in {"worker", "runner"}, ConfirmEnd(t) PROVE Flow'
  BY <1>29 DEF ConfirmEnd
<1>30. CASE Crash
  BY <1>30 DEF Crash
<1> QED BY <1>1, <1>2, <1>3, <1>4, <1>5, <1>6, <1>7, <1>8, <1>9, <1>10, <1>11, <1>12, <1>13, <1>14,
    <1>15, <1>16, <1>17, <1>18, <1>19, <1>20, <1>21, <1>22, <1>23, <1>24, <1>25, <1>26, <1>27,
    <1>28, <1>29, <1>30
  DEF BackupNext, WorkerStep, BackupStep, ConfirmStep

\* Each step has what the next one needs.
LEMMA NeedsStep ==
  ASSUME Flow, Values, Locals, Needs, BackupNext
  PROVE  Needs'
<1> USE BackupAssumption
    DEF Goto, Return, Set, Flow, CommandSteps, BackupSteps, ConfirmSteps, Threads, config, comp,
        disk, locals, ghosts, bounds, Needs, Locals
<1>1. ASSUME NEW v \in Versions, NEW given \in BOOLEAN, PrepareUpdate(v, given) PROVE Needs'
  BY <1>1, PreparedPlaceType DEF PrepareUpdate, WorkerFree, Places
<1>2. ASSUME NEW m \in Versions, NEW v \in Versions, ReadyUpdate(m, v) PROVE Needs'
  BY <1>2 DEF ReadyUpdate, WorkerFree, Places, Values
<1>3. ASSUME NEW m \in Versions, NEW k \in Versions, ConfirmUpdate(m, k) PROVE Needs'
  BY <1>3 DEF ConfirmUpdate
<1>4. CASE ConfirmSkip
  BY <1>4 DEF ConfirmSkip
<1>5. CASE BackupCall
  BY <1>5 DEF BackupCall, Values
<1>6. CASE PrepareAdd
  BY <1>6 DEF PrepareAdd
<1>7. CASE ReadyAdd
  BY <1>7 DEF ReadyAdd
<1>8. CASE ReadyBegin
  BY <1>8, PreparedPlaceType DEF ReadyBegin, BackupOrNot, RollbackPlace, Places
<1>9. CASE RollbackAdd
  BY <1>9 DEF RollbackAdd
<1>10. CASE RecordSave
  BY <1>10 DEF RecordSave
<1>11. CASE Install
  BY <1>11 DEF Install
<1>12. CASE RecordRemove
  BY <1>12 DEF RecordRemove, BackupOrNot
<1>13. CASE ReadyFailed
  BY <1>13 DEF ReadyFailed
<1>14. CASE ReadyDone
  BY <1>14 DEF ReadyDone
<1>15. CASE ResumeBegin
  BY <1>15 DEF ResumeBegin, ResumedCompleted
<1>16. CASE ResumeRemove
  BY <1>16 DEF ResumeRemove
<1>17. ASSUME NEW t \in {"worker", "app"}, BackupLock(t) PROVE Needs'
  BY <1>17 DEF BackupLock
<1>18. ASSUME NEW t \in {"worker", "app"}, BackupLookup(t) PROVE Needs'
  BY <1>18 DEF BackupLookup
<1>19. ASSUME NEW t \in {"worker", "app"}, BackupLink(t) PROVE Needs'
  BY <1>19 DEF BackupLink
<1>20. ASSUME NEW t \in {"worker", "app"}, BackupCopy(t) PROVE Needs'
  BY <1>20 DEF BackupCopy
<1>21. ASSUME NEW t \in {"worker", "app"}, BackupCopied(t) PROVE Needs'
  BY <1>21 DEF BackupCopied
<1>22. ASSUME NEW t \in {"worker", "app"}, BackupAdd(t) PROVE Needs'
  BY <1>22 DEF BackupAdd
<1>23. ASSUME NEW t \in {"worker", "app"}, BackupWrite(t) PROVE Needs'
  BY <1>23 DEF BackupWrite, SaveWrite
<1>24. ASSUME NEW t \in {"worker", "app"}, BackupUnlock(t) PROVE Needs'
  BY <1>24 DEF BackupUnlock
<1>25. ASSUME NEW t \in {"worker", "runner"}, ConfirmRead(t) PROVE Needs'
  BY <1>25 DEF ConfirmRead
<1>26. ASSUME NEW t \in {"worker", "runner"}, ConfirmLoop(t) PROVE Needs'
  BY <1>26 DEF ConfirmLoop
<1>27. ASSUME NEW t \in {"worker", "runner"}, ConfirmWrite(t) PROVE Needs'
  BY <1>27 DEF ConfirmWrite, SaveWrite
<1>28. ASSUME NEW t \in {"worker", "runner"}, ConfirmTidy(t) PROVE Needs'
  BY <1>28 DEF ConfirmTidy
<1>29. ASSUME NEW t \in {"worker", "runner"}, ConfirmEnd(t) PROVE Needs'
  BY <1>29 DEF ConfirmEnd
<1>30. CASE Crash
  BY <1>30 DEF Crash, Values
<1> QED BY <1>1, <1>2, <1>3, <1>4, <1>5, <1>6, <1>7, <1>8, <1>9, <1>10, <1>11, <1>12, <1>13, <1>14,
    <1>15, <1>16, <1>17, <1>18, <1>19, <1>20, <1>21, <1>22, <1>23, <1>24, <1>25, <1>26, <1>27,
    <1>28, <1>29, <1>30
  DEF BackupNext, WorkerStep, BackupStep, ConfirmStep

\* What a thread works with keeps its type.
LEMMA LocalsStep ==
  ASSUME Flow, Values, Locals, Needs, BackupNext
  PROVE  Locals'
<1> USE BackupAssumption DEF Return, Set, Locals, Threads, config, comp, disk, locals, ghosts,
    bounds
<1>1. ASSUME NEW v \in Versions, NEW given \in BOOLEAN, PrepareUpdate(v, given) PROVE Locals'
  BY <1>1, PreparedPlaceType DEF PrepareUpdate, Places
<1>2. ASSUME NEW m \in Versions, NEW v \in Versions, ReadyUpdate(m, v) PROVE Locals'
  BY <1>2, TempPlaceType DEF ReadyUpdate, ParsedPlaces, Places, Values
<1>3. ASSUME NEW m \in Versions, NEW k \in Versions, ConfirmUpdate(m, k) PROVE Locals'
  BY <1>3 DEF ConfirmUpdate
<1>4. CASE ConfirmSkip
  BY <1>4 DEF ConfirmSkip
<1>5. CASE BackupCall
  BY <1>5 DEF BackupCall, Values
<1>6. CASE PrepareAdd
  BY <1>6 DEF PrepareAdd
<1>7. CASE ReadyAdd
  BY <1>7 DEF ReadyAdd
<1>8. CASE ReadyBegin
  BY <1>8, PreparedPlaceType DEF ReadyBegin, RollbackPlace, Places
<1>9. CASE RollbackAdd
  BY <1>9 DEF RollbackAdd
<1>10. CASE RecordSave
  BY <1>10 DEF RecordSave
<1>11. CASE Install
  BY <1>11 DEF Install
<1>12. CASE RecordRemove
  BY <1>12 DEF RecordRemove
<1>13. CASE ReadyFailed
  BY <1>13 DEF ReadyFailed
<1>14. CASE ReadyDone
  BY <1>14 DEF ReadyDone
<1>15. CASE ResumeBegin
  BY <1>15 DEF ResumeBegin, Values
<1>16. CASE ResumeRemove
  BY <1>16 DEF ResumeRemove
<1>17. ASSUME NEW t \in {"worker", "app"}, BackupLock(t) PROVE Locals'
  BY <1>17 DEF BackupLock
<1>18. ASSUME NEW t \in {"worker", "app"}, BackupLookup(t) PROVE Locals'
  BY <1>18, TempPlaceType DEF BackupLookup, Needs, Values, Places
<1>19. ASSUME NEW t \in {"worker", "app"}, BackupLink(t) PROVE Locals'
  BY <1>19 DEF BackupLink
<1>20. ASSUME NEW t \in {"worker", "app"}, BackupCopy(t) PROVE Locals'
  BY <1>20 DEF BackupCopy
<1>21. ASSUME NEW t \in {"worker", "app"}, BackupCopied(t) PROVE Locals'
  BY <1>21 DEF BackupCopied
<1>22. ASSUME NEW t \in {"worker", "app"}, BackupAdd(t) PROVE Locals'
  BY <1>22 DEF BackupAdd, Values, Needs, WithEntry
<1>23. ASSUME NEW t \in {"worker", "app"}, BackupWrite(t) PROVE Locals'
  BY <1>23 DEF BackupWrite, SaveWrite
<1>24. ASSUME NEW t \in {"worker", "app"}, BackupUnlock(t) PROVE Locals'
  BY <1>24 DEF BackupUnlock
<1>25. ASSUME NEW t \in {"worker", "runner"}, ConfirmRead(t) PROVE Locals'
  BY <1>25 DEF ConfirmRead, Values
<1>26. ASSUME NEW t \in {"worker", "runner"}, ConfirmLoop(t) PROVE Locals'
  BY <1>26 DEF ConfirmLoop
<1>27. ASSUME NEW t \in {"worker", "runner"}, ConfirmWrite(t) PROVE Locals'
  BY <1>27 DEF ConfirmWrite, SaveWrite
<1>28. ASSUME NEW t \in {"worker", "runner"}, ConfirmTidy(t) PROVE Locals'
  BY <1>28 DEF ConfirmTidy
<1>29. ASSUME NEW t \in {"worker", "runner"}, ConfirmEnd(t) PROVE Locals'
  BY <1>29 DEF ConfirmEnd
<1>30. CASE Crash
  BY <1>30 DEF Crash
<1> QED BY <1>1, <1>2, <1>3, <1>4, <1>5, <1>6, <1>7, <1>8, <1>9, <1>10, <1>11, <1>12, <1>13, <1>14,
    <1>15, <1>16, <1>17, <1>18, <1>19, <1>20, <1>21, <1>22, <1>23, <1>24, <1>25, <1>26, <1>27,
    <1>28, <1>29, <1>30
  DEF BackupNext, WorkerStep, BackupStep, ConfirmStep

\* The disk and the device keep their types.
LEMMA ValuesStep ==
  ASSUME Flow, Values, Locals, Needs, BackupNext
  PROVE  Values'
<1> USE BackupAssumption DEF Set, Values, Threads, config, comp, disk, locals, ghosts, bounds,
        Manifest, NoManifest, TornManifest, FileState
<1>1. ASSUME NEW v \in Versions, NEW given \in BOOLEAN, PrepareUpdate(v, given) PROVE Values'
  BY <1>1 DEF PrepareUpdate, Needs
<1>2. ASSUME NEW m \in Versions, NEW v \in Versions, ReadyUpdate(m, v) PROVE Values'
  BY <1>2 DEF ReadyUpdate, Needs
<1>3. ASSUME NEW m \in Versions, NEW k \in Versions, ConfirmUpdate(m, k) PROVE Values'
  BY <1>3 DEF ConfirmUpdate, Needs
<1>4. CASE ConfirmSkip
  BY <1>4 DEF ConfirmSkip, Needs
<1>5. CASE BackupCall
  BY <1>5 DEF BackupCall, Needs
<1>6. CASE PrepareAdd
  BY <1>6, TempAddType DEF PrepareAdd, Needs
<1>7. CASE ReadyAdd
  BY <1>7, TempAddType DEF ReadyAdd, Needs
<1>8. CASE ReadyBegin
  BY <1>8 DEF ReadyBegin, BackupOrNot, Owes, Needs
<1>9. CASE RollbackAdd
  BY <1>9, TempAddType DEF RollbackAdd, Needs
<1>10. CASE RecordSave
  BY <1>10 DEF RecordSave, Needs
<1>11. CASE Install
  BY <1>11 DEF Install, Owes, Needs
<1>12. CASE RecordRemove
  BY <1>12 DEF RecordRemove, BackupOrNot
<1>13. CASE ReadyFailed
  BY <1>13 DEF ReadyFailed, Needs
<1>14. CASE ReadyDone
  BY <1>14 DEF ReadyDone, Needs
<1>15. CASE ResumeBegin
  BY <1>15 DEF ResumeBegin, ResumedCompleted, Owes, Needs
<1>16. CASE ResumeRemove
  BY <1>16 DEF ResumeRemove, Needs
<1>17. ASSUME NEW t \in {"worker", "app"}, BackupLock(t) PROVE Values'
  BY <1>17 DEF BackupLock, Needs
<1>18. ASSUME NEW t \in {"worker", "app"}, BackupLookup(t) PROVE Values'
  BY <1>18 DEF BackupLookup, Needs
<1>19. ASSUME NEW t \in {"worker", "app"}, BackupLink(t) PROVE Values'
  BY <1>19 DEF BackupLink, Needs
<1>20. ASSUME NEW t \in {"worker", "app"}, BackupCopy(t) PROVE Values'
  BY <1>20 DEF BackupCopy, Needs
<1>21. ASSUME NEW t \in {"worker", "app"}, BackupCopied(t) PROVE Values'
  BY <1>21 DEF BackupCopied, Needs
<1>22. ASSUME NEW t \in {"worker", "app"}, BackupAdd(t) PROVE Values'
  BY <1>22 DEF BackupAdd, Needs
<1>23. ASSUME NEW t \in {"worker", "app"}, BackupWrite(t) PROVE Values'
  BY <1>23 DEF BackupWrite, SaveWrite, Locals
<1>24. ASSUME NEW t \in {"worker", "app"}, BackupUnlock(t) PROVE Values'
  BY <1>24 DEF BackupUnlock, Needs
<1>25. ASSUME NEW t \in {"worker", "runner"}, ConfirmRead(t) PROVE Values'
  BY <1>25 DEF ConfirmRead, Needs
<1>26. ASSUME NEW t \in {"worker", "runner"}, ConfirmLoop(t) PROVE Values'
  BY <1>26 DEF ConfirmLoop, Needs
<1>27. ASSUME NEW t \in {"worker", "runner"}, ConfirmWrite(t) PROVE Values'
  BY <1>27 DEF ConfirmWrite, SaveWrite, Locals
<1>28. ASSUME NEW t \in {"worker", "runner"}, ConfirmTidy(t) PROVE Values'
  BY <1>28 DEF ConfirmTidy, SubdirsExcept
<1>29. ASSUME NEW t \in {"worker", "runner"}, ConfirmEnd(t) PROVE Values'
  BY <1>29 DEF ConfirmEnd, Needs
<1>30. CASE Crash
  <2>1. pc["worker"] = "r_install" => target["worker"] \in Versions
    BY DEF Needs
  <2>2. installed' \in Versions
    BY <1>30, <2>1 DEF Crash
  <2>3. temp' \in [state : FileState, entries : SUBSET Entry]
    BY <1>30 DEF Crash
  <2> QED BY <1>30, <2>2, <2>3 DEF Crash
<1> QED BY <1>1, <1>2, <1>3, <1>4, <1>5, <1>6, <1>7, <1>8, <1>9, <1>10, <1>11, <1>12, <1>13, <1>14,
    <1>15, <1>16, <1>17, <1>18, <1>19, <1>20, <1>21, <1>22, <1>23, <1>24, <1>25, <1>26, <1>27,
    <1>28, <1>29, <1>30
  DEF BackupNext, WorkerStep, BackupStep, ConfirmStep

\* The invariant includes the types that the run checks.
LEMMA ControlTypes ==
  ASSUME Control
  PROVE  BackupTypeOK
BY DEF Control, Flow, Values, Locals, BackupTypeOK, FileState

-----------------------------------------------------------------------------
\* Steps at which a thread has no part in the files of the backup.
Quiet == {"idle", "b_lock", "b_lookup", "c_read", "c_none"} \cup CommandSteps

\* Worker and runner take turns, and the application waits for them (WorkerFree,
\* BackupCall, ConfirmUpdate).
LEMMA TurnsStep ==
  ASSUME ~Overlap, Flow, Values, Turns, BackupNext
  PROVE  Turns'
<1> USE DEF Goto, Return, Flow, CommandSteps, BackupSteps, ConfirmSteps, Threads, config, comp,
        disk, locals, ghosts, bounds, Turns, Values
<1>1. ASSUME NEW v \in Versions, NEW given \in BOOLEAN, PrepareUpdate(v, given) PROVE Turns'
  BY <1>1 DEF PrepareUpdate, WorkerFree
<1>2. ASSUME NEW m \in Versions, NEW v \in Versions, ReadyUpdate(m, v) PROVE Turns'
  BY <1>2 DEF ReadyUpdate, WorkerFree
<1>3. ASSUME NEW m \in Versions, NEW k \in Versions, ConfirmUpdate(m, k) PROVE Turns'
  BY <1>3 DEF ConfirmUpdate
<1>4. CASE ConfirmSkip
  BY <1>4 DEF ConfirmSkip
<1>5. CASE BackupCall
  BY <1>5 DEF BackupCall
<1>6. CASE PrepareAdd
  BY <1>6 DEF PrepareAdd
<1>7. CASE ReadyAdd
  BY <1>7 DEF ReadyAdd
<1>8. CASE ReadyBegin
  BY <1>8 DEF ReadyBegin, BackupOrNot
<1>9. CASE RollbackAdd
  BY <1>9 DEF RollbackAdd
<1>10. CASE RecordSave
  BY <1>10 DEF RecordSave
<1>11. CASE Install
  BY <1>11 DEF Install
<1>12. CASE RecordRemove
  BY <1>12 DEF RecordRemove, BackupOrNot
<1>13. CASE ReadyFailed
  BY <1>13 DEF ReadyFailed
<1>14. CASE ReadyDone
  BY <1>14 DEF ReadyDone
<1>15. CASE ResumeBegin
  BY <1>15 DEF ResumeBegin, ResumedCompleted
<1>16. CASE ResumeRemove
  BY <1>16 DEF ResumeRemove
<1>17. ASSUME NEW t \in {"worker", "app"}, BackupLock(t) PROVE Turns'
  BY <1>17 DEF BackupLock
<1>18. ASSUME NEW t \in {"worker", "app"}, BackupLookup(t) PROVE Turns'
  BY <1>18 DEF BackupLookup
<1>19. ASSUME NEW t \in {"worker", "app"}, BackupLink(t) PROVE Turns'
  BY <1>19 DEF BackupLink
<1>20. ASSUME NEW t \in {"worker", "app"}, BackupCopy(t) PROVE Turns'
  BY <1>20 DEF BackupCopy
<1>21. ASSUME NEW t \in {"worker", "app"}, BackupCopied(t) PROVE Turns'
  BY <1>21 DEF BackupCopied
<1>22. ASSUME NEW t \in {"worker", "app"}, BackupAdd(t) PROVE Turns'
  BY <1>22 DEF BackupAdd
<1>23. ASSUME NEW t \in {"worker", "app"}, BackupWrite(t) PROVE Turns'
  BY <1>23 DEF BackupWrite, SaveWrite
<1>24. ASSUME NEW t \in {"worker", "app"}, BackupUnlock(t) PROVE Turns'
  BY <1>24 DEF BackupUnlock
<1>25. ASSUME NEW t \in {"worker", "runner"}, ConfirmRead(t) PROVE Turns'
  BY <1>25 DEF ConfirmRead
<1>26. ASSUME NEW t \in {"worker", "runner"}, ConfirmLoop(t) PROVE Turns'
  <2>1. pc' = [pc EXCEPT ![t] = "c_write"] \/ pc' = [pc EXCEPT ![t] = "c_tidy"]
    BY <1>26 DEF ConfirmLoop
  <2> QED BY <1>26, <2>1 DEF ConfirmLoop
<1>27. ASSUME NEW t \in {"worker", "runner"}, ConfirmWrite(t) PROVE Turns'
  BY <1>27 DEF ConfirmWrite, SaveWrite
<1>28. ASSUME NEW t \in {"worker", "runner"}, ConfirmTidy(t) PROVE Turns'
  BY <1>28 DEF ConfirmTidy
<1>29. ASSUME NEW t \in {"worker", "runner"}, ConfirmEnd(t) PROVE Turns'
  BY <1>29 DEF ConfirmEnd
<1>30. CASE Crash
  BY <1>30 DEF Crash
<1> QED BY <1>1, <1>2, <1>3, <1>4, <1>5, <1>6, <1>7, <1>8, <1>9, <1>10, <1>11, <1>12, <1>13, <1>14,
    <1>15, <1>16, <1>17, <1>18, <1>19, <1>20, <1>21, <1>22, <1>23, <1>24, <1>25, <1>26, <1>27,
    <1>28, <1>29, <1>30
  DEF BackupNext, WorkerStep, BackupStep, ConfirmStep

\* Only one thread at a time works on the files of the backup.
LEMMA OneAtWork ==
  ASSUME Flow, Turns, NEW t \in Threads, pc[t] \in (BackupSteps \ {"b_lock"}) \cup ConfirmSteps,
         NEW u \in Threads \ {t}
  PROVE  pc[u] \in Quiet
<1> USE DEF Flow, Turns, Threads, BackupSteps, ConfirmSteps, CommandSteps, Quiet
<1>1. CASE pc[t] \in ConfirmSteps
  BY <1>1
<1>2. CASE pc[t] \in BackupSteps \ {"b_lock"}
  BY <1>2
<1> QED BY <1>1, <1>2

\* A step that leaves the files of the backup alone.
LEMMA QuietStep ==
  ASSUME Stored, UNCHANGED <<backup, manifest, kept>>,
         download \subseteq download', rebuilt \subseteq rebuilt',
         \A u \in Threads :
           \/ pc[u] \in Quiet /\ pc'[u] \in Quiet
           \/ /\ pc'[u] = pc[u] /\ target'[u] = target[u] /\ from'[u] = from[u]
              /\ doc'[u] = doc[u] /\ sound'[u] = sound[u]
  PROVE  Stored'
<1> USE DEF Quiet, CommandSteps
<1>1. ASSUME NEW u \in Threads PROVE BackupAt(u)'
  BY <1>1 DEF Stored, BackupAt, Restorable
<1>2. ASSUME NEW u \in Threads PROVE CleanupAt(u)'
  BY <1>2 DEF Stored, CleanupAt
<1>3. Writing' = Writing
  BY DEF Writing
<1>4. KeptWhole'
  BY <1>3 DEF Stored, KeptWhole
<1>5. OnlyConfirmedLeft'
  BY DEF Stored, OnlyConfirmedLeft
<1> QED BY <1>1, <1>2, <1>4, <1>5 DEF Stored

\* What the thread at work has to establish.
WorkDone(t) ==
  /\ BackupAt(t) /\ CleanupAt(t)
  /\ \A v \in kept : backup[v] = "whole"
  /\ pc[t] \notin {"b_write", "c_write"} => kept \subseteq manifest.entries
  /\ pc[t] = "c_temp" /\ manifest.state # "torn" =>
       \A v \in Versions \ {target[t]} : backup[v] = "none" /\ v \notin manifest.entries

LEMMA WorkStored ==
  ASSUME NEW t \in Threads, WorkDone(t)', \A u \in Threads \ {t} : pc'[u] \in Quiet
  PROVE  Stored'
<1> USE DEF Quiet, CommandSteps
<1>1. ASSUME NEW u \in Threads PROVE BackupAt(u)'
  BY <1>1 DEF WorkDone, BackupAt
<1>2. ASSUME NEW u \in Threads PROVE CleanupAt(u)'
  BY <1>2 DEF WorkDone, CleanupAt
<1>3. KeptWhole'
  BY DEF WorkDone, KeptWhole, Writing
<1>4. OnlyConfirmedLeft'
  BY DEF WorkDone, OnlyConfirmedLeft
<1> QED BY <1>1, <1>2, <1>3, <1>4 DEF Stored

LEMMA StoredWork ==
  ASSUME Flow, Turns, Stored, NEW t \in Threads,
         pc[t] \in (BackupSteps \ {"b_lock"}) \cup ConfirmSteps
  PROVE  WorkDone(t)
<1>1. \A u \in Threads \ {t} : pc[u] \in Quiet
  BY OneAtWork
<1>2. pc[t] \notin {"b_write", "c_write"} => ~Writing
  BY <1>1 DEF Writing, Quiet, CommandSteps
<1> QED BY <1>2 DEF Stored, WorkDone, KeptWhole, OnlyConfirmedLeft

\* A step of a backup or of a clean-up, by the thread at work.
LEMMA WorkStep ==
  ASSUME Control, Turns, NEW t \in Threads, WorkDone(t), BackupStep(t) \/ ConfirmStep(t)
  PROVE  WorkDone(t)'
<1> USE BackupAssumption
    DEF Goto, Return, Set, BackupAt, CleanupAt, Restorable, Control, Needs, Values, Locals, Flow,
        Manifest, NoManifest, TornManifest, FileState, Places, config, comp, disk, locals, ghosts,
            bounds,
        BackupSteps, ConfirmSteps, CommandSteps
<1>1. CASE BackupLookup(t)
  BY <1>1, TempPlaceType DEF BackupLookup, WorkDone, Exists
<1>2. CASE BackupLink(t)
  BY <1>2 DEF BackupLink, WorkDone, Exists
<1>3. CASE BackupCopy(t)
  BY <1>3 DEF BackupCopy, WorkDone, Exists
<1>4. CASE BackupCopied(t)
  BY <1>4 DEF BackupCopied, WorkDone
<1>5. CASE BackupAdd(t)
  BY <1>5 DEF BackupAdd, WorkDone, WithEntry
<1>6. CASE BackupWrite(t)
  BY <1>6 DEF BackupWrite, WorkDone, SaveWrite
<1>7. CASE BackupUnlock(t)
  BY <1>7 DEF BackupUnlock, WorkDone
<1>8. CASE ConfirmRead(t)
  BY <1>8 DEF ConfirmRead, WorkDone
<1>9. CASE ConfirmLoop(t)
  BY <1>9 DEF ConfirmLoop, WorkDone
<1>10. CASE ConfirmWrite(t)
  BY <1>10 DEF ConfirmWrite, WorkDone, SaveWrite
<1>11. CASE ConfirmTidy(t)
  BY <1>11 DEF ConfirmTidy, WorkDone, SubdirsExcept
<1>12. CASE ConfirmEnd(t)
  BY <1>12 DEF ConfirmEnd, WorkDone
<1> QED BY <1>1, <1>2, <1>3, <1>4, <1>5, <1>6, <1>7, <1>8, <1>9, <1>10, <1>11, <1>12 DEF BackupStep,
    ConfirmStep

\* A step of the thread at work keeps the files of the backup in order.
LEMMA WorkedStored ==
  ASSUME Control, Turns, Stored, NEW t \in Threads, BackupStep(t) \/ ConfirmStep(t)
  PROVE  Stored'
<1> USE DEF BackupSteps, ConfirmSteps
<1>1. pc[t] \in (BackupSteps \ {"b_lock"}) \cup ConfirmSteps
  BY DEF BackupStep, ConfirmStep, BackupLookup, BackupLink, BackupCopy, BackupCopied, BackupAdd,
         BackupWrite, BackupUnlock, ConfirmRead, ConfirmLoop, ConfirmWrite, ConfirmTidy, ConfirmEnd
<1>2. \A u \in Threads \ {t} : pc'[u] = pc[u]
  BY DEF BackupStep, ConfirmStep, BackupLookup, BackupLink, BackupCopy, BackupCopied, BackupAdd,
         BackupWrite, BackupUnlock, ConfirmRead, ConfirmLoop, ConfirmWrite, ConfirmTidy, ConfirmEnd,
         SaveWrite, Goto, Return, Control, Flow
<1>3. \A u \in Threads \ {t} : pc'[u] \in Quiet
  BY <1>1, <1>2, OneAtWork DEF Control
<1>4. WorkDone(t)'
  BY <1>1, StoredWork, WorkStep DEF Control
<1> QED BY <1>3, <1>4, WorkStored

\* No step of any thread, and no restart, damages what the backup has.
LEMMA StoredStep ==
  ASSUME Control, Turns, Stored, BackupNext
  PROVE  Stored'
<1> USE BackupAssumption
    DEF Goto, Return, Set, Control, Flow, Locals, Quiet, CommandSteps, Threads, config, comp,
        disk, locals, ghosts, bounds
<1>1. ASSUME NEW v \in Versions, NEW given \in BOOLEAN, PrepareUpdate(v, given) PROVE Stored'
  BY <1>1, QuietStep DEF PrepareUpdate, WorkerFree
<1>2. ASSUME NEW m \in Versions, NEW v \in Versions, ReadyUpdate(m, v) PROVE Stored'
  BY <1>2, QuietStep DEF ReadyUpdate, WorkerFree
<1>3. ASSUME NEW m \in Versions, NEW k \in Versions, ConfirmUpdate(m, k) PROVE Stored'
  BY <1>3, QuietStep DEF ConfirmUpdate
<1>4. CASE ConfirmSkip
  BY <1>4, QuietStep DEF ConfirmSkip
<1>5. CASE BackupCall
  BY <1>5, QuietStep DEF BackupCall
<1>6. CASE PrepareAdd
  BY <1>6, QuietStep DEF PrepareAdd
<1>7. CASE ReadyAdd
  BY <1>7, QuietStep DEF ReadyAdd
<1>8. CASE ReadyBegin
  BY <1>8, QuietStep DEF ReadyBegin, BackupOrNot
<1>9. CASE RollbackAdd
  BY <1>9, QuietStep DEF RollbackAdd
<1>10. CASE RecordSave
  BY <1>10, QuietStep DEF RecordSave
<1>11. CASE Install
  BY <1>11, QuietStep DEF Install
<1>12. CASE RecordRemove
  BY <1>12, QuietStep DEF RecordRemove, BackupOrNot
<1>13. CASE ReadyFailed
  BY <1>13, QuietStep DEF ReadyFailed
<1>14. CASE ReadyDone
  BY <1>14, QuietStep DEF ReadyDone
<1>15. CASE ResumeBegin
  BY <1>15, QuietStep DEF ResumeBegin, ResumedCompleted
<1>16. CASE ResumeRemove
  BY <1>16, QuietStep DEF ResumeRemove
<1>17. ASSUME NEW t \in {"worker", "app"}, BackupLock(t) PROVE Stored'
  BY <1>17, QuietStep DEF BackupLock
<1>18. ASSUME NEW t \in {"worker", "app"}, BackupLookup(t) PROVE Stored'
  BY <1>18, WorkedStored DEF BackupStep
<1>19. ASSUME NEW t \in {"worker", "app"}, BackupLink(t) PROVE Stored'
  BY <1>19, WorkedStored DEF BackupStep
<1>20. ASSUME NEW t \in {"worker", "app"}, BackupCopy(t) PROVE Stored'
  BY <1>20, WorkedStored DEF BackupStep
<1>21. ASSUME NEW t \in {"worker", "app"}, BackupCopied(t) PROVE Stored'
  BY <1>21, WorkedStored DEF BackupStep
<1>22. ASSUME NEW t \in {"worker", "app"}, BackupAdd(t) PROVE Stored'
  BY <1>22, WorkedStored DEF BackupStep
<1>23. ASSUME NEW t \in {"worker", "app"}, BackupWrite(t) PROVE Stored'
  BY <1>23, WorkedStored DEF BackupStep
<1>24. ASSUME NEW t \in {"worker", "app"}, BackupUnlock(t) PROVE Stored'
  BY <1>24, WorkedStored DEF BackupStep
<1>25. ASSUME NEW t \in {"worker", "runner"}, ConfirmRead(t) PROVE Stored'
  BY <1>25, WorkedStored DEF ConfirmStep
<1>26. ASSUME NEW t \in {"worker", "runner"}, ConfirmLoop(t) PROVE Stored'
  BY <1>26, WorkedStored DEF ConfirmStep
<1>27. ASSUME NEW t \in {"worker", "runner"}, ConfirmWrite(t) PROVE Stored'
  BY <1>27, WorkedStored DEF ConfirmStep
<1>28. ASSUME NEW t \in {"worker", "runner"}, ConfirmTidy(t) PROVE Stored'
  BY <1>28, WorkedStored DEF ConfirmStep
<1>29. ASSUME NEW t \in {"worker", "runner"}, ConfirmEnd(t) PROVE Stored'
  BY <1>29, WorkedStored DEF ConfirmStep
<1>30. CASE Crash
  <2>1. \A u \in Threads : pc'[u] \in {"idle", "s_begin"}
    BY <1>30 DEF Crash
  <2>2. \A u \in Threads : BackupAt(u)' /\ CleanupAt(u)'
    BY <2>1 DEF BackupAt, CleanupAt
  <2>3. OnlyConfirmedLeft'
    BY <2>1 DEF OnlyConfirmedLeft
  <2>4. Writing => manifest.state = "torn"
    BY DEF Writing, Stored, BackupAt, CleanupAt
  <2>5. KeptWhole'
    BY <1>30, <2>4 DEF Crash, Stored, KeptWhole
  <2> QED BY <2>2, <2>3, <2>5 DEF Stored
<1> QED BY <1>1, <1>2, <1>3, <1>4, <1>5, <1>6, <1>7, <1>8, <1>9, <1>10, <1>11, <1>12, <1>13, <1>14,
    <1>15, <1>16, <1>17, <1>18, <1>19, <1>20, <1>21, <1>22, <1>23, <1>24, <1>25, <1>26, <1>27,
    <1>28, <1>29, <1>30
  DEF BackupNext, WorkerStep, BackupStep, ConfirmStep

-----------------------------------------------------------------------------
\* A package in the temp manifest stays one that can be backed up.
LEMMA SourceKept ==
  ASSUME UNCHANGED <<temp, kind>>, download \subseteq download',
         NEW v, HasSource(v), v \in rebuilt => v \in rebuilt'
  PROVE  HasSource(v)'
<1>1. TempPlace(v)' = TempPlace(v)
  BY DEF TempPlace
<1> QED BY <1>1 DEF HasSource, IsDelta, Exists

LEMMA PlaceKept ==
  ASSUME UNCHANGED temp
  PROVE  \A v : TempPlace(v)' = TempPlace(v)
BY DEF TempPlace

\* An entry added to the temp manifest changes the place of its version only.
LEMMA AddedPlace ==
  ASSUME temp \in [state : FileState, entries : SUBSET Entry],
         target["worker"] \in Versions, from["worker"] \in Places, TempAdd, NEW w \in Versions
  PROVE  TempPlace(w)' \in {None, IF w = target["worker"] THEN from["worker"] ELSE TempPlace(w)}
<1> DEFINE v == target["worker"]
           p == from["worker"]
           new == [version |-> v, place |-> p]
<1>1. CASE temp' = TornManifest
  BY <1>1 DEF TempPlace, TornManifest
<1>2. CASE temp' = AddEntry(temp, v, p)
  <2>1. temp'.entries = {e \in temp.entries : e.version # v} \cup {new}
    BY <1>2 DEF AddEntry, Manifest
  <2>2. CASE w = v
    <3>1. {e \in temp'.entries : e.version = w} = {new}
      BY <2>1, <2>2
    <3>2. (CHOOSE e \in {new} : TRUE) = new
      OBVIOUS
    <3> QED BY <2>2, <3>1, <3>2 DEF TempPlace
  <2>3. CASE w # v
    <3>1. {e \in temp'.entries : e.version = w} = {e \in temp.entries : e.version = w}
      BY <2>1, <2>3
    <3> QED BY <2>3, <3>1 DEF TempPlace
  <2> QED BY <2>2, <2>3
<1> QED BY <1>1, <1>2 DEF TempAdd

\* The package of an owed backup stays there until the worker copies it, and the backup is
\* then made or fails (handler_backup_actions, ua_backup_package).
LEMMA OwingStep ==
  ASSUME ~Overlap, ~Twice, Control, Turns, Stored, Owing, BackupNext
  PROVE  Owing'
<1> USE BackupAssumption
    DEF Goto, Return, Set, Control, Flow, Locals, Needs, Turns, CommandSteps, BackupSteps,
        ConfirmSteps,
        Threads, config, comp, disk, locals, ghosts, bounds, Owing,
        OwedSource, Recorded, Spared
<1>1. ASSUME NEW v \in Versions, NEW given \in BOOLEAN, PrepareUpdate(v, given) PROVE Owing'
  BY <1>1, SourceKept, PlaceKept DEF PrepareUpdate, WorkerFree
<1>2. ASSUME NEW m \in Versions, NEW v \in Versions, ReadyUpdate(m, v) PROVE Owing'
  BY <1>2, SourceKept, PlaceKept DEF ReadyUpdate, WorkerFree
<1>3. ASSUME NEW m \in Versions, NEW k \in Versions, ConfirmUpdate(m, k) PROVE Owing'
  BY <1>3, SourceKept, PlaceKept DEF ConfirmUpdate
<1>4. CASE ConfirmSkip
  BY <1>4, SourceKept, PlaceKept DEF ConfirmSkip
<1>5. CASE BackupCall
  BY <1>5, SourceKept, PlaceKept DEF BackupCall
<1>6. CASE PrepareAdd
  BY <1>6, SourceKept, PlaceKept DEF PrepareAdd
<1>7. CASE ReadyAdd
  <2>1. TempPlace(installed)' \in {None, "download", TempPlace(installed)}
    BY <1>7, AddedPlace DEF ReadyAdd, Values, Places
  <2>2. owed = None /\ record = None
    BY <1>7 DEF ReadyAdd
  <2>3. TempPlace(installed)' = "rebuilt" => TempPlace(installed) = "rebuilt"
    BY <2>1 DEF Places
  <2> QED BY <1>7, <2>2, <2>3 DEF ReadyAdd
<1>8. CASE ReadyBegin
  <2> DEFINE v == target["worker"]
  <2>1. owed = None /\ record = None
    BY <1>8 DEF ReadyBegin
  <2>2. CASE installed = v
    <3>1. UNCHANGED <<temp, kind, download, rebuilt, installed, record, target, sound>>
      BY <1>8, <2>2 DEF ReadyBegin, Places
    <3>2. \A w : HasSource(w) => HasSource(w)'
      BY <3>1, SourceKept
    <3>3. \/ pc' = [pc EXCEPT !["worker"] = "b_lock"] /\ owed' = Owes(v)
          \/ pc' = [pc EXCEPT !["worker"] = "r_done"] /\ owed' = None
      BY <1>8, <2>2 DEF ReadyBegin, BackupOrNot
    <3>4. owed' # None => owed' = v /\ HasSource(owed)'
      <4>1. CASE owed' = v /\ HasSource(v)
        BY <3>2, <4>1
      <4> QED BY <3>3, <4>1 DEF Owes
    <3>5. OwedSource'
      BY <1>8, <2>1, <2>2, <3>1, <3>3, <3>4
    <3>6. Spared'
      BY <1>8, <2>2, <3>1, <3>3, PlaceKept DEF ReadyBegin
    <3> QED BY <1>8, <2>1, <3>1, <3>3, <3>5, <3>6 DEF ReadyBegin
  <2>3. CASE installed # v
    BY <1>8, <2>1, <2>3, PlaceKept DEF ReadyBegin
  <2> QED BY <2>2, <2>3
<1>9. CASE RollbackAdd
  <2>1. TempPlace(installed)' \in {None, TempPlace(installed)}
    BY <1>9, AddedPlace DEF RollbackAdd, Values
  <2>2. owed = None /\ record = None
    BY <1>9 DEF RollbackAdd
  <2>3. TempPlace(installed)' = "rebuilt" => TempPlace(installed) = "rebuilt"
    BY <2>1 DEF Places
  <2> QED BY <1>9, <2>2, <2>3 DEF RollbackAdd
<1>10. CASE RecordSave
  BY <1>10, SourceKept, PlaceKept DEF RecordSave
<1>11. CASE Install
  BY <1>11, SourceKept, PlaceKept DEF Install, Owes
<1>12. CASE RecordRemove
  BY <1>12, SourceKept, PlaceKept DEF RecordRemove, BackupOrNot
<1>13. CASE ReadyFailed
  <2>1. TempPlace(installed)' \in {None, TempPlace(installed)}
    <3>1. CASE temp' = temp
      BY <1>13, <3>1, PlaceKept DEF ReadyFailed
    <3>2. CASE temp' = NoManifest
      BY <3>2 DEF TempPlace, NoManifest
    <3> QED BY <1>13, <3>1, <3>2 DEF ReadyFailed
  <2>2. TempPlace(installed)' = "rebuilt" => TempPlace(installed) = "rebuilt"
    BY <2>1 DEF Places
  <2> QED BY <1>13, <2>2 DEF ReadyFailed
<1>14. CASE ReadyDone
  BY <1>14, SourceKept, PlaceKept DEF ReadyDone
<1>15. CASE ResumeBegin
  BY <1>15, SourceKept, PlaceKept DEF ResumeBegin, ResumedCompleted, Owes
<1>16. CASE ResumeRemove
  BY <1>16, SourceKept, PlaceKept DEF ResumeRemove
<1>17. ASSUME NEW t \in {"worker", "app"}, BackupLock(t) PROVE Owing'
  BY <1>17, SourceKept, PlaceKept DEF BackupLock
<1>18. ASSUME NEW t \in {"worker", "app"}, BackupLookup(t) PROVE Owing'
  <2>1. ASSUME t = "worker", owed # None PROVE sound'[t] = "ok"
    BY <1>18, <2>1 DEF BackupLookup, HasSource, Exists, Places
  <2>2. UNCHANGED <<temp, kind, download, rebuilt, installed, record, target, owed>>
    BY <1>18 DEF BackupLookup
  <2>3. owed # None => HasSource(owed)'
    BY <2>2, SourceKept
  <2>4. /\ pc[t] = "b_lookup"
        /\ pc' = [pc EXCEPT ![t] = "b_unlock"] \/ pc' = [pc EXCEPT ![t] = "b_link"]
        /\ \A u \in Threads \ {t} : sound'[u] = sound[u] /\ from'[u] = from[u]
        /\ UNCHANGED backup_source
    BY <1>18 DEF BackupLookup
  <2>5. OwedSource'
    BY <1>18, <2>1, <2>2, <2>3, <2>4
  <2>6. Spared'
    BY <1>18, <2>2, <2>4, PlaceKept
  <2> QED BY <1>18, <2>2, <2>4, <2>5, <2>6
<1>19. ASSUME NEW t \in {"worker", "app"}, BackupLink(t) PROVE Owing'
  BY <1>19, SourceKept, PlaceKept DEF BackupLink
<1>20. ASSUME NEW t \in {"worker", "app"}, BackupCopy(t) PROVE Owing'
  BY <1>20, SourceKept, PlaceKept DEF BackupCopy
<1>21. ASSUME NEW t \in {"worker", "app"}, BackupCopied(t) PROVE Owing'
  BY <1>21, SourceKept, PlaceKept DEF BackupCopied
<1>22. ASSUME NEW t \in {"worker", "app"}, BackupAdd(t) PROVE Owing'
  BY <1>22, SourceKept, PlaceKept DEF BackupAdd
<1>23. ASSUME NEW t \in {"worker", "app"}, BackupWrite(t) PROVE Owing'
  BY <1>23, SourceKept, PlaceKept DEF BackupWrite, SaveWrite
<1>24. ASSUME NEW t \in {"worker", "app"}, BackupUnlock(t) PROVE Owing'
  <2>1. /\ UNCHANGED <<temp, kind, download, installed, record, backup_source>>
        /\ pc[t] = "b_unlock" /\ pc' = [pc EXCEPT ![t] = IF t = "worker" THEN "r_done" ELSE "idle"]
        /\ target'["worker"] = target["worker"] /\ sound'["worker"] = sound["worker"]
        /\ from'["worker"] = from["worker"]
        /\ t = "worker" => target' = target
    BY <1>24 DEF BackupUnlock
  <2>2. CASE t = "worker"
    <3>1. owed # None => Restorable(owed) \/ sound[t] = "failed"
      BY <1>24, <2>1, <2>2 DEF Stored, BackupAt
    <3>2. owed' = None
      BY <1>24, <2>1, <2>2, <3>1 DEF BackupUnlock
    <3> QED BY <2>1, <2>2, <3>2, PlaceKept
  <2>3. CASE t = "app"
    <3>1. owed' = owed
      BY <1>24, <2>3 DEF BackupUnlock
    <3>2. owed # None => HasSource(owed)'
      <4>1. CASE owed \in rebuilt => owed \in rebuilt'
        BY <2>1, <3>1, <4>1, SourceKept
      <4>2. CASE owed # None /\ owed \in rebuilt /\ owed \notin rebuilt'
        <5>1. owed = target["app"] /\ backup_source
          BY <1>24, <2>3, <4>2 DEF BackupUnlock
        <5>2. TempPlace(owed) # "rebuilt"
          BY <2>1, <2>3, <4>2, <5>1
        <5> QED BY <2>1, <3>1, <4>2, <5>2, PlaceKept DEF HasSource, IsDelta, Exists
      <4> QED BY <4>1, <4>2
    <3>3. OwedSource'
      BY <2>1, <2>3, <3>1, <3>2
    <3>4. Spared'
      BY <2>1, <2>3
    <3> QED BY <2>1, <2>3, <3>3, <3>4
  <2> QED BY <1>24, <2>2, <2>3
<1>25. ASSUME NEW t \in {"worker", "runner"}, ConfirmRead(t) PROVE Owing'
  BY <1>25, SourceKept, PlaceKept DEF ConfirmRead
<1>26. ASSUME NEW t \in {"worker", "runner"}, ConfirmLoop(t) PROVE Owing'
  BY <1>26, SourceKept, PlaceKept DEF ConfirmLoop
<1>27. ASSUME NEW t \in {"worker", "runner"}, ConfirmWrite(t) PROVE Owing'
  BY <1>27, SourceKept, PlaceKept DEF ConfirmWrite, SaveWrite
<1>28. ASSUME NEW t \in {"worker", "runner"}, ConfirmTidy(t) PROVE Owing'
  BY <1>28, SourceKept, PlaceKept DEF ConfirmTidy
<1>29. ASSUME NEW t \in {"worker", "runner"}, ConfirmEnd(t) PROVE Owing'
  BY <1>29, SourceKept, PlaceKept DEF ConfirmEnd
<1>30. CASE Crash
  BY <1>30, SourceKept, PlaceKept DEF Crash
<1> QED BY <1>1, <1>2, <1>3, <1>4, <1>5, <1>6, <1>7, <1>8, <1>9, <1>10, <1>11, <1>12, <1>13, <1>14,
    <1>15, <1>16, <1>17, <1>18, <1>19, <1>20, <1>21, <1>22, <1>23, <1>24, <1>25, <1>26, <1>27,
    <1>28, <1>29, <1>30
  DEF BackupNext, WorkerStep, BackupStep, ConfirmStep

-----------------------------------------------------------------------------
\* The inductive invariant holds at the start.
LEMMA BackupStart ==
  ASSUME BackupInit
  PROVE  BackupInv
<1> USE BackupAssumption
    DEF BackupInit, CommandSteps, BackupSteps, ConfirmSteps, Threads, NoManifest, Manifest,
        FileState
<1>1. Flow
  BY DEF Flow
<1>2. manifest \in [state : FileState, entries : SUBSET Versions]
  OBVIOUS
<1>3. temp \in [state : FileState, entries : SUBSET Entry]
  OBVIOUS
<1>4. Values
  BY <1>2, <1>3 DEF Values
<1>5. Locals /\ Needs /\ Turns
  BY DEF Locals, Needs, Turns
<1>6. \A t \in Threads : BackupAt(t) /\ CleanupAt(t)
  BY DEF BackupAt, CleanupAt
<1>7. KeptWhole /\ OnlyConfirmedLeft
  BY DEF KeptWhole, OnlyConfirmedLeft
<1> QED BY <1>1, <1>4, <1>5, <1>6, <1>7 DEF BackupInv, Control, Stored

LEMMA BackupStutter ==
  ASSUME BackupInv, UNCHANGED vars
  PROVE  BackupInv'
<1> USE DEF vars, config, comp, disk, locals, ghosts, bounds
<1>1. Control'
  BY DEF BackupInv, Control, Flow, Values, Locals, Needs
<1>2. Turns'
  BY DEF BackupInv, Turns
<1>3. Stored'
  <2>1. \A t \in Threads : BackupAt(t)' /\ CleanupAt(t)'
    BY DEF BackupInv, Stored, BackupAt, CleanupAt, Restorable
  <2>2. KeptWhole' /\ OnlyConfirmedLeft'
    BY DEF BackupInv, Stored, KeptWhole, OnlyConfirmedLeft, Writing
  <2> QED BY <2>1, <2>2 DEF Stored
<1> QED BY <1>1, <1>2, <1>3 DEF BackupInv

\* BackupInv is an invariant of every backup without overlapping clean-up.
THEOREM BackupInvariant ==
  ASSUME ~Overlap
  PROVE  BackupSpec => []BackupInv
<1>1. BackupInit => BackupInv
  BY BackupStart
<1>2. BackupInv /\ [BackupNext]_vars => BackupInv'
  BY BackupStutter, FlowStep, NeedsStep, LocalsStep, ValuesStep, TurnsStep, StoredStep
     DEF BackupInv, Control
<1> QED BY <1>1, <1>2, PTL DEF BackupSpec

\* The variables keep their types and backup_lock is held by the thread at work, on every
\* path of handler_backup_actions.
THEOREM BackupTypes ==
  ASSUME ~Overlap
  PROVE  BackupSpec => []BackupTypeOK
<1>1. BackupInv => BackupTypeOK
  BY ControlTypes DEF BackupInv
<1> QED BY <1>1, BackupInvariant, PTL

\* A backup that was made (handler_backup_actions, ua_backup_package) can be restored until
\* it is made anew, another version is confirmed or a write of the manifest fails.
THEOREM BackupsAreKept ==
  ASSUME ~Overlap
  PROVE  BackupSpec => []BackupKept
<1>1. BackupInv => BackupKept
  BY DEF BackupInv, Stored, KeptWhole, BackupKept, Restorable
<1> QED BY <1>1, BackupInvariant, PTL

\* remove_old_backup leaves the confirmed version only, of what earlier crashes and failures
\* left too, unless the manifest cannot be read or written.
THEOREM CleanupIsComplete ==
  ASSUME ~Overlap
  PROVE  BackupSpec => []OnlyConfirmedLeft
<1>1. BackupInv => OnlyConfirmedLeft
  BY DEF BackupInv, Stored
<1> QED BY <1>1, BackupInvariant, PTL

\* Between commands no backup is owed, and the package of an owed one is still there.
LEMMA OwingInvariant ==
  ASSUME ~Overlap, ~Twice
  PROVE  BackupSpec => []Owing
<1>1. BackupInit => Owing
  BY BackupAssumption DEF BackupInit, Owing, OwedSource, Recorded, Spared, Threads
<1>2. BackupInv /\ Owing /\ [BackupNext]_vars => Owing'
  <2>1. CASE BackupNext
    BY <2>1, OwingStep DEF BackupInv
  <2>2. ASSUME Owing, UNCHANGED vars PROVE Owing'
    <3>1. \A v : HasSource(v) => HasSource(v)'
      BY <2>2, SourceKept DEF vars, disk, config
    <3> QED BY <2>2, <3>1, PlaceKept DEF Owing, OwedSource, Recorded, Spared,
              vars, disk, config, locals, ghosts
  <2> QED BY <2>1, <2>2
<1> QED BY <1>1, <1>2, BackupInvariant, PTL DEF BackupSpec

\* When a ready-update or a resume is over, the version it reported as completed, from a
\* package that was there, has its backup, unless a write failed (process_ready_update,
\* update_resume_from_reboot): as long as the application does not call ua_backup_package
\* for a reconstructed package that the backup removes (backup_source).
THEOREM CompletedUpdateIsBackedUp ==
  ASSUME ~Overlap, ~Twice
  PROVE  BackupSpec => []CompletedIsBackedUp
<1>1. Owing => CompletedIsBackedUp
  BY DEF Owing, OwedSource, CompletedIsBackedUp, BackupSteps
<1> QED BY <1>1, OwingInvariant, PTL
=============================================================================
