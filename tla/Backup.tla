------------------------------- MODULE Backup -------------------------------
(***************************************************************************)
(* The backup of one package: the file of each version under backup_dir    *)
(* and the manifest that lists them (handler_backup_actions,               *)
(* backup_package, add_pkg_file_manifest, remove_old_backup), at the grain *)
(* of single changes to the disk.  A step may fail, the process may end    *)
(* between any two of them, and three threads take part: the worker        *)
(* (prepare-update, ready-update, or the resume after a restart), the      *)
(* runner (confirm-update) and the application (ua_backup_package).        *)
(*                                                                         *)
(* Package files of a version have one base name, and the DMC keeps what   *)
(* it has downloaded.                                                      *)
(***************************************************************************)
EXTENDS FiniteSets, Integers

CONSTANTS
  Versions,
  InitialVersion,  \* the version on the device at the start
  None,
  Overlap,         \* may a command begin during ua_backup_package, or a confirm-update
                   \* clean up during a backup?
  Twice,           \* may ua_backup_package be called for a package whose backup removes it?
  MaxFaults,       \* bound: failing writes
  MaxCrashes       \* bound: restarts

Threads == {"worker", "runner", "app"}

\* Where a manifest entry says that the package is: the DMC's download, the
\* result of a delta reconstruction (cache/delta), or the backup.
Places == {"download", "rebuilt", "backup"}

ASSUME BackupAssumption ==
  /\ InitialVersion \in Versions /\ None \notin Versions \cup Threads \cup Places
  /\ Overlap \in BOOLEAN /\ Twice \in BOOLEAN /\ MaxFaults \in Nat /\ MaxCrashes \in Nat

\* An entry of the temp manifest.
Entry == [version : Versions, place : Places]

\* A manifest file: missing, cut off while it was written, or readable.
NoManifest == [state |-> "none", entries |-> {}]
TornManifest == [state |-> "torn", entries |-> {}]
Manifest(s) == [state |-> "ok", entries |-> s]

VARIABLES
  installed,        \* the version that on_get_version reports
  kind,             \* what the DMC's package of each version is
  download,         \* versions whose package the DMC has downloaded
  rebuilt,          \* versions with a file in cache/delta
  backup,           \* the file of each version in the backup directory
  temp,             \* the temp manifest in the cache
  manifest,         \* the backup manifest
  record,           \* the resume record: the version being installed
  backup_source,    \* ua_intl.delta and backup_source = 1
  stage, cleanup_ok_after_update,
  backup_lock,
  pc,               \* each thread's step
  named, target,    \* the version of its command, and the one to install, back up or keep
  from,             \* update_file_info.file, or src_file while a backup is made
  doc,              \* the document read from a manifest, to be saved
  kept,             \* versions whose backup was made, and not given up since
  sound,            \* whether a thread's backup has a package to copy, and no step failed
  owed,             \* the version reported COMPLETED whose backup is still to be made
  faults, crashes

disk    == <<download, rebuilt, backup, temp, manifest, record>>
config  == <<kind, backup_source>>
comp    == <<stage, cleanup_ok_after_update>>
locals  == <<named, target, from, doc, sound>>
ghosts  == <<kept, owed>>
bounds  == <<faults, crashes>>
vars    == <<installed, disk, config, comp, backup_lock, pc, locals, ghosts, bounds>>

BackupInit ==
  /\ installed = InitialVersion
  /\ kind \in [Versions -> {"full", "delta", "prepared"}] /\ kind[InitialVersion] = "full"
  /\ download = {} /\ rebuilt = {}
  /\ manifest \in {NoManifest, Manifest({InitialVersion})}
  /\ backup = [v \in Versions |-> IF v \in manifest.entries THEN "whole" ELSE "none"]
  /\ temp = NoManifest /\ record = None
  /\ backup_source \in BOOLEAN
  /\ stage = "UNKNOWN" /\ cleanup_ok_after_update = FALSE
  /\ backup_lock = None
  /\ pc = [t \in Threads |-> "idle"]
  /\ named = [t \in Threads |-> None] /\ target = [t \in Threads |-> None]
  /\ from = [t \in Threads |-> None] /\ doc = [t \in Threads |-> {}]
  /\ sound = [t \in Threads |-> "nothing"]
  /\ kept = manifest.entries /\ owed = None
  /\ faults = 0 /\ crashes = 0

Goto(t, step) == pc' = [pc EXCEPT ![t] = step]

\* The handler returns.
Return(t) ==
  /\ Goto(t, "idle")
  /\ named' = [named EXCEPT ![t] = None] /\ target' = [target EXCEPT ![t] = None]
  /\ from' = [from EXCEPT ![t] = None] /\ doc' = [doc EXCEPT ![t] = {}]
  /\ sound' = [sound EXCEPT ![t] = "nothing"]

Set(f, t, x) == [f EXCEPT ![t] = x]

\* A write that fails, or not, within the bound.
Fault == faults < MaxFaults /\ faults' = faults + 1

Restorable(v) == v \in manifest.entries /\ backup[v] = "whole"

\* The file of an entry exists.
Exists(v, place) ==
  CASE place = "download" -> v \in download
    [] place = "rebuilt"  -> v \in rebuilt
    [] place = "backup"   -> backup[v] # "none"
    [] OTHER              -> FALSE

\* is_delta_package and is_prepared_delta_package of the file of an entry.
IsDelta(v, place) == place = "download" /\ v \in download /\ kind[v] # "full"
IsPrepared(v, place) == IsDelta(v, place) /\ kind[v] = "prepared"

\* get_pkg_file_manifest of the temp manifest.
TempPlace(v) ==
  LET es == {e \in temp.entries : e.version = v}
  IN  IF es = {} THEN None ELSE (CHOOSE e \in es : TRUE).place

\* add_pkg_file_manifest replaces the entry of the version; a file that cannot be
\* read counts as empty.
AddEntry(m, v, place) ==
  Manifest({e \in m.entries : e.version # v} \cup {[version |-> v, place |-> place]})

-----------------------------------------------------------------------------
(***************************************************************************)
(* prepare-update, on the worker.                                          *)
(***************************************************************************)
\* The runner dispatches commands, and a busy worker takes none.
WorkerFree ==
  /\ pc["worker"] = "idle" /\ pc["runner"] = "idle"
  /\ ~Overlap => pc["app"] = "idle"

\* prepare_install_action: the package is verified, a delta is applied to the backup
\* of the installed version.  The place of the package to install; None on failure.
PreparedPlace(v, place) ==
  CASE place = "download" /\ kind[v] = "delta" -> IF Restorable(installed) THEN "rebuilt" ELSE None
    [] place = "backup" /\ backup[v] # "whole" -> None
    [] OTHER -> place

\* process_prepare_update up to the temp manifest.  The message names the file that the
\* DMC has downloaded, or the backup is looked up; on_prepare_install may refuse.
PrepareUpdate(v, given) ==
  LET place == IF given THEN "download" ELSE IF v \in manifest.entries THEN "backup" ELSE None
      p == PreparedPlace(v, place)
  IN  /\ WorkerFree
      /\ download' = IF given THEN download \cup {v} ELSE download
      /\ rebuilt' = IF p = "rebuilt" THEN rebuilt \cup {v} ELSE rebuilt
      /\ \/ UNCHANGED <<stage, pc, target, from>>
         \/ /\ p # None
            /\ stage' = "PREPARE_UPDATE_STARTED"
            /\ target' = Set(target, "worker", v)
            /\ from' = Set(from, "worker", p)
            /\ Goto("worker", "p_add")
      /\ UNCHANGED <<installed, backup, temp, manifest, record, config, cleanup_ok_after_update,
                     backup_lock, named, doc, sound, ghosts, bounds>>

\* add_pkg_file_manifest on the temp manifest; what it returns is ignored.
TempAdd ==
  \/ temp' = AddEntry(temp, target["worker"], from["worker"]) /\ UNCHANGED faults
  \/ Fault /\ temp' = TornManifest

PrepareAdd ==
  /\ pc["worker"] = "p_add"
  /\ TempAdd
  /\ stage' = "PREPARE_UPDATE_DONE"
  /\ Return("worker")
  /\ UNCHANGED <<installed, download, rebuilt, backup, manifest, record, config,
                 cleanup_ok_after_update, backup_lock, ghosts, crashes>>

-----------------------------------------------------------------------------
(***************************************************************************)
(* ready-update, on the worker.                                            *)
(***************************************************************************)
\* update_parse_json_ready_update: the package in the temp manifest, else the one
\* named in the message, else in the backup; or the message does not list the version.
ParsedPlaces(v) ==
  IF TempPlace(v) # None THEN {TempPlace(v)}
  ELSE {None} \cup (IF v \in download THEN {"download"}
                    ELSE IF v \in manifest.entries THEN {"backup"} ELSE {})

\* The temp manifest has a package to back up.
HasSource(v) ==
  LET p == TempPlace(v)
  IN  p \in {"download", "rebuilt"} /\ ~IsDelta(v, p) /\ Exists(v, p)

\* What INSTALL_COMPLETED promises.
Owes(v) == IF HasSource(v) THEN v ELSE None

\* After a completed update a backup is made, with w as the version it is owed for,
\* except of a prepared delta and when the application has disabled rollback.
BackupOrNot(v, place, w) ==
  \/ ~IsPrepared(v, place) /\ owed' = w /\ Goto("worker", "b_lock")
  \/ owed' = None /\ Goto("worker", "r_done")

\* A command for version m, or with v # m for the rollback to v.
ReadyUpdate(m, v) ==
  /\ WorkerFree
  /\ \E place \in ParsedPlaces(v) :
       /\ from' = Set(from, "worker", place)
       /\ Goto("worker", IF TempPlace(v) = None /\ place = "download" THEN "r_add" ELSE "r_begin")
  /\ named' = Set(named, "worker", m) /\ target' = Set(target, "worker", v)
  /\ UNCHANGED <<installed, disk, config, comp, backup_lock, doc, sound, ghosts, bounds>>

ReadyAdd ==
  /\ pc["worker"] = "r_add"
  /\ TempAdd
  /\ Goto("worker", "r_begin")
  /\ UNCHANGED <<installed, download, rebuilt, backup, manifest, record, config, comp,
                 backup_lock, locals, ghosts, crashes>>

\* update_get_rollback_package and prepare_install_action.
RollbackPlace(v) ==
  PreparedPlace(v, IF v \in download THEN "download"
                   ELSE IF v \in manifest.entries /\ backup[v] # "none" THEN "backup" ELSE None)

\* The command is taken up: a rollback looks for its package, which on_prepare_install
\* may refuse; no file is named when its version is the one on the device.
ReadyBegin ==
  LET v == target["worker"]
      rollback == v # named["worker"]
      place == IF ~rollback THEN from["worker"]
               ELSE IF installed = v THEN None ELSE RollbackPlace(v)
  IN  /\ pc["worker"] = "r_begin"
      /\ stage' = "READY_UPDATE_STARTED"
      /\ from' = Set(from, "worker", place)
      /\ rebuilt' = IF place = "rebuilt" /\ rollback THEN rebuilt \cup {v} ELSE rebuilt
      /\ IF installed = v THEN BackupOrNot(v, place, Owes(v))
         ELSE /\ UNCHANGED owed
              /\ \/ place # None /\ Goto("worker", IF rollback THEN "r_again" ELSE "r_record")
                 \/ (place = None \/ rollback) /\ Goto("worker", "r_fail")
      /\ UNCHANGED <<installed, download, backup, temp, manifest, record, config,
                     cleanup_ok_after_update, backup_lock, named, target, doc, sound, kept, bounds>>

\* The rollback's package goes to the temp manifest; none is installed from a prepared delta.
RollbackAdd ==
  /\ pc["worker"] = "r_again"
  /\ TempAdd
  /\ Goto("worker", IF IsPrepared(target["worker"], from["worker"]) THEN "r_fail" ELSE "r_record")
  /\ UNCHANGED <<installed, download, rebuilt, backup, manifest, record, config, comp,
                 backup_lock, locals, ghosts, crashes>>

RecordSave ==
  /\ pc["worker"] = "r_record"
  /\ record' = target["worker"]
  /\ Goto("worker", "r_install")
  /\ UNCHANGED <<installed, download, rebuilt, backup, temp, manifest, config, comp, backup_lock,
                 locals, ghosts, bounds>>

\* A package that the application can install.
Usable(v, place) ==
  \/ place = "download" /\ v \in download
  \/ place = "rebuilt" /\ v \in rebuilt
  \/ place = "backup" /\ backup[v] = "whole"

\* pre_update_action and on_install: the device changes and this is reported, or not.
Install ==
  LET v == target["worker"]
  IN  /\ pc["worker"] = "r_install"
      /\ \/ /\ Usable(v, from["worker"])
            /\ installed' = v
            /\ owed' = Owes(v)
         \/ UNCHANGED <<installed, owed>>
      /\ Goto("worker", "r_remove")
      /\ UNCHANGED <<disk, config, comp, backup_lock, locals, kept, bounds>>

\* The record goes; a backup follows, unless the application has disabled rollback.
RecordRemove ==
  LET v == target["worker"]
  IN  /\ pc["worker"] = "r_remove"
      /\ record' = None
      /\ IF installed = v THEN BackupOrNot(v, from["worker"], owed)
         ELSE Goto("worker", "r_fail") /\ UNCHANGED owed
      /\ UNCHANGED <<installed, download, rebuilt, backup, temp, manifest, config, comp, backup_lock,
                     locals, kept, bounds>>

\* After a failure the temp manifest goes, unless the DMC is asked to try again.
ReadyFailed ==
  /\ pc["worker"] = "r_fail"
  /\ temp' \in {temp, NoManifest}
  /\ Goto("worker", "r_done")
  /\ UNCHANGED <<installed, download, rebuilt, backup, manifest, record, config, comp, backup_lock,
                 locals, ghosts, bounds>>

\* The stage; then the clean-up for a confirm-update that was skipped meanwhile.  A
\* resume has no such clean-up and leaves the flag; its record is still there.
ReadyDone ==
  /\ pc["worker"] = "r_done"
  /\ \/ /\ record # None
        /\ stage' = "READY_UPDATE_DONE"
        /\ Goto("worker", "s_remove") /\ UNCHANGED locals
     \/ /\ record = None /\ cleanup_ok_after_update
        /\ stage' = "CONFIRM_UPDATE_STARTED"
        /\ Goto("worker", "c_read") /\ UNCHANGED locals
     \/ /\ record = None /\ ~cleanup_ok_after_update
        /\ stage' = "READY_UPDATE_DONE"
        /\ Return("worker")
  /\ UNCHANGED <<installed, disk, config, cleanup_ok_after_update, backup_lock, ghosts, bounds>>

-----------------------------------------------------------------------------
(***************************************************************************)
(* update_resume_from_reboot                                               *)
(***************************************************************************)
\* Mutant: a resume leaves the backup to the application.
ResumedCompletedOnly == owed' = Owes(record) /\ Goto("worker", "r_done")

\* The version of the record is on the device: status and backup.
ResumedCompleted == owed' = Owes(record) /\ Goto("worker", "b_lock")

\* The record is loaded, with the stage of the ready-update that it was saved in.
ResumeBegin ==
  /\ pc["worker"] = "s_begin"
  /\ stage' = "READY_UPDATE_STARTED"
  /\ target' = Set(target, "worker", record)
  /\ IF installed = record
     THEN ResumedCompleted
     ELSE UNCHANGED owed /\ Goto("worker", "r_done")
  /\ UNCHANGED <<installed, disk, config, cleanup_ok_after_update, backup_lock, named, from, doc,
                 sound, kept, bounds>>

ResumeRemove ==
  /\ pc["worker"] = "s_remove"
  /\ record' = None
  /\ Return("worker")
  /\ UNCHANGED <<installed, download, rebuilt, backup, temp, manifest, config, comp, backup_lock,
                 ghosts, bounds>>

-----------------------------------------------------------------------------
(***************************************************************************)
(* handler_backup_actions with backup_package, on the worker or, from      *)
(* ua_backup_package, on a thread of the application.                      *)
(***************************************************************************)
\* The steps of a clean-up and of a backup.
ConfirmSteps == {"c_read", "c_loop", "c_write", "c_tidy", "c_temp", "c_none"}
BackupSteps == {"b_lock", "b_lookup", "b_link", "b_copy", "b_copied", "b_add", "b_write", "b_unlock"}

\* ua_backup_package for the version on the device; without an entry in the temp
\* manifest it would do nothing.
BackupCall ==
  /\ pc["app"] = "idle" /\ TempPlace(installed) # None
  /\ ~Overlap => ~cleanup_ok_after_update /\ \A t \in Threads : pc[t] \notin ConfirmSteps
  /\ Twice \/ ~backup_source \/ TempPlace(installed) # "rebuilt"
  /\ target' = Set(target, "app", installed)
  /\ Goto("app", "b_lock")
  /\ UNCHANGED <<installed, disk, config, comp, backup_lock, named, from, doc, sound, ghosts, bounds>>

BackupLock(t) ==
  /\ pc[t] = "b_lock" /\ backup_lock = None
  /\ backup_lock' = t
  /\ Goto(t, "b_lookup")
  /\ UNCHANGED <<installed, disk, config, comp, locals, ghosts, bounds>>

\* Which file to copy.  There is nothing to do without an entry in the temp manifest,
\* for a delta and for a package that was taken from the backup; that the backup
\* exists is not noticed otherwise, since hashes of two kinds are compared.
BackupLookup(t) ==
  LET v == target[t]
      p == TempPlace(v)
      src == IF backup_source /\ v \in rebuilt THEN "rebuilt" ELSE p
  IN  /\ pc[t] = "b_lookup"
      /\ IF p \in {None, "backup"} \/ IsDelta(v, p)
         THEN /\ sound' = Set(sound, t, "nothing")
              /\ from' = Set(from, t, None)
              /\ Goto(t, "b_unlock")
         ELSE /\ sound' = Set(sound, t, IF Exists(v, src) THEN "ok" ELSE "nothing")
              /\ from' = Set(from, t, src)
              /\ Goto(t, "b_link")
      /\ UNCHANGED <<installed, disk, config, comp, backup_lock, named, target, doc, ghosts, bounds>>

\* make_file_hard_link: an old file is removed, then linking may fail, for one because
\* the cache is on another file system.
BackupLink(t) ==
  LET v == target[t]
  IN  /\ pc[t] = "b_link"
      /\ \/ /\ Exists(v, from[t])
            /\ backup' = Set(backup, v, "whole")
            /\ Goto(t, "b_add")
         \/ /\ backup' = Set(backup, v, "none")
            /\ Goto(t, "b_copy")
      /\ kept' = kept \ {v}
      /\ UNCHANGED <<installed, download, rebuilt, temp, manifest, record, config, comp,
                     backup_lock, locals, owed, bounds>>

\* copy_file opens the files, then copies.
BackupCopy(t) ==
  LET v == target[t]
  IN  /\ pc[t] = "b_copy"
      /\ IF Exists(v, from[t])
         THEN backup' = Set(backup, v, "part") /\ Goto(t, "b_copied")
         ELSE UNCHANGED backup /\ Goto(t, "b_unlock")
      /\ UNCHANGED <<installed, download, rebuilt, temp, manifest, record, config, comp,
                     backup_lock, locals, ghosts, bounds>>

\* The copy fails, with an error or with one that fclose reports and nobody looks at.
BackupCopied(t) ==
  /\ pc[t] = "b_copied"
  /\ \/ /\ backup' = Set(backup, target[t], "whole")
        /\ Goto(t, "b_add")
        /\ UNCHANGED <<sound, faults>>
     \/ /\ Fault
        /\ sound' = Set(sound, t, "failed")
        /\ Goto(t, "b_add") \/ Goto(t, "b_unlock")
        /\ UNCHANGED backup
  /\ UNCHANGED <<installed, download, rebuilt, temp, manifest, record, config, comp,
                 backup_lock, named, target, from, doc, ghosts, crashes>>

\* Mutant: a new document each time, as for a manifest that cannot be read.
WithEntryNew(m, v) == {v}

\* The document read from the manifest, empty if it cannot be read, with an entry for v.
WithEntry(m, v) == m.entries \cup {v}

\* add_pkg_file_manifest: the document, with an entry for a file that has the hash, and
\* xmlSaveFormatFileEnc opens the manifest for writing, which empties it.
BackupAdd(t) ==
  /\ pc[t] = "b_add"
  /\ IF backup[target[t]] = "whole"
     THEN /\ doc' = Set(doc, t, WithEntry(manifest, target[t]))
          /\ manifest' = TornManifest
          /\ Goto(t, "b_write")
     ELSE /\ Goto(t, "b_unlock")
          /\ UNCHANGED <<doc, manifest>>
  /\ UNCHANGED <<installed, download, rebuilt, backup, temp, record, config, comp, backup_lock,
                 named, target, from, sound, ghosts, bounds>>

\* The document is written, or only a part of it.
SaveWrite(t, next, failed) ==
  \/ /\ manifest' = Manifest(doc[t])
     /\ Goto(t, next)
     /\ UNCHANGED <<sound, kept, faults>>
  \/ /\ Fault
     /\ sound' = Set(sound, t, "failed")
     /\ kept' = {}
     /\ Goto(t, failed)
     /\ UNCHANGED manifest

BackupWrite(t) ==
  /\ pc[t] = "b_write"
  /\ SaveWrite(t, "b_unlock", "b_unlock")
  /\ UNCHANGED <<installed, download, rebuilt, backup, temp, record, config, comp, backup_lock,
                 named, target, from, doc, owed, crashes>>

\* Mutant: the lock is not released when nothing was copied.
ReleasedOnCopy(t) == IF sound[t] = "nothing" THEN backup_lock ELSE None

\* pthread_mutex_unlock at the end of handler_backup_actions, on every path.
Released(t) == None

\* The reconstructed file is removed, whether or not the backup was made.  Only the
\* worker's own backup, the last one of its command, settles what is owed.
BackupUnlock(t) ==
  /\ pc[t] = "b_unlock"
  /\ rebuilt' = IF backup_source /\ from[t] = "rebuilt" THEN rebuilt \ {target[t]} ELSE rebuilt
  /\ backup_lock' = Released(t)
  /\ kept' = IF sound[t] = "ok" THEN kept \cup {target[t]} ELSE kept
  /\ owed' = IF t = "worker" /\ owed = target[t] /\ (Restorable(owed) \/ sound[t] = "failed")
             THEN None ELSE owed
  /\ IF t = "worker" THEN Goto(t, "r_done") /\ UNCHANGED locals ELSE Return(t)
  /\ UNCHANGED <<installed, download, backup, temp, manifest, record, config, comp, bounds>>

-----------------------------------------------------------------------------
(***************************************************************************)
(* process_confirm_update with remove_old_backup, which does not take      *)
(* backup_lock: on the runner, or on the worker after a ready-update.      *)
(***************************************************************************)
\* The stages in which a confirm-update is not skipped.
UpdateOver == stage \in {"READY_UPDATE_DONE", "UNKNOWN"}

\* The message for version m; k is the version to keep, m or its rollback version.
ConfirmUpdate(m, k) ==
  /\ pc["runner"] = "idle" /\ UpdateOver
  /\ ~Overlap => pc["app"] = "idle" /\ pc["worker"] = "idle"
  /\ stage' = "CONFIRM_UPDATE_STARTED"
  /\ named' = Set(named, "runner", m) /\ target' = Set(target, "runner", k)
  /\ Goto("runner", "c_read")
  /\ UNCHANGED <<installed, disk, config, cleanup_ok_after_update, backup_lock, from, doc, sound,
                 ghosts, bounds>>

\* A message that is skipped in the middle of a ready-update leaves a flag.
ConfirmSkip ==
  /\ pc["runner"] = "idle" /\ ~UpdateOver
  /\ ~Overlap => pc["app"] = "idle"
  /\ cleanup_ok_after_update' = (cleanup_ok_after_update \/ stage = "READY_UPDATE_STARTED")
  /\ UNCHANGED <<installed, disk, config, stage, backup_lock, pc, locals, ghosts, bounds>>

\* Nothing without a temp manifest; a backup manifest that cannot be read is left alone.
ConfirmRead(t) ==
  /\ pc[t] = "c_read"
  /\ IF temp.state = "none" \/ manifest.state = "torn"
     THEN /\ Goto(t, IF temp.state = "none" THEN "c_none" ELSE "c_temp")
          /\ UNCHANGED <<doc, kept>>
     ELSE /\ doc' = Set(doc, t, manifest.entries)
          /\ kept' = kept \cap {target[t]}
          /\ Goto(t, "c_loop")
  /\ UNCHANGED <<installed, disk, config, comp, backup_lock, named, target, from, sound, owed, bounds>>

\* Every other version: its directory and its entry go, the manifest is opened to be saved.
ConfirmLoop(t) ==
  LET others == doc[t] \ {target[t]}
  IN  /\ pc[t] = "c_loop"
      /\ \/ \E v \in others :
              /\ backup' = Set(backup, v, "none")
              /\ doc' = Set(doc, t, doc[t] \ {v})
              /\ manifest' = TornManifest
              /\ Goto(t, "c_write")
         \/ /\ others = {}
            /\ Goto(t, "c_tidy")
            /\ UNCHANGED <<backup, doc, manifest>>
      /\ UNCHANGED <<installed, download, rebuilt, temp, record, config, comp,
                     backup_lock, named, target, from, sound, ghosts, bounds>>

ConfirmWrite(t) ==
  /\ pc[t] = "c_write"
  /\ SaveWrite(t, "c_loop", "c_tidy")
  /\ UNCHANGED <<installed, download, rebuilt, backup, temp, record, config, comp, backup_lock,
                 named, target, from, doc, owed, crashes>>

\* Mutant: no directories are removed.
SubdirsListed(v) == backup

\* remove_subdirs_except
SubdirsExcept(v) == [w \in Versions |-> IF w = v THEN backup[w] ELSE "none"]

\* An empty manifest is removed, and remove_subdirs_except takes what no entry named.
ConfirmTidy(t) ==
  /\ pc[t] = "c_tidy"
  /\ manifest' = IF doc[t] = {} THEN NoManifest ELSE manifest
  /\ backup' = SubdirsExcept(target[t])
  /\ Goto(t, "c_temp")
  /\ UNCHANGED <<installed, download, rebuilt, temp, record, config, comp, backup_lock, locals,
                 ghosts, bounds>>

\* The temp manifest and the reconstructed file; with no temp manifest only the latter.
ConfirmEnd(t) ==
  /\ pc[t] \in {"c_temp", "c_none"}
  /\ temp' = IF pc[t] = "c_temp" THEN NoManifest ELSE temp
  /\ rebuilt' = rebuilt \ {named[t]}
  /\ stage' = "CONFIRM_UPDATE_DONE"
  /\ cleanup_ok_after_update' = (t = "runner" /\ cleanup_ok_after_update)
  /\ Return(t)
  /\ UNCHANGED <<installed, download, backup, manifest, record, config, backup_lock, ghosts, bounds>>

-----------------------------------------------------------------------------
\* The process ends: a manifest that is being written is cut off, a device that is
\* being installed may have changed.  A record leads to a resume.
Crash ==
  /\ crashes < MaxCrashes /\ crashes' = crashes + 1
  /\ temp' \in {temp} \cup (IF pc["worker"] \in {"p_add", "r_add", "r_again"}
                            THEN {TornManifest} ELSE {})
  /\ installed' \in {installed} \cup
       (IF pc["worker"] = "r_install" /\ Usable(target["worker"], from["worker"])
        THEN {target["worker"]} ELSE {})
  /\ stage' = "UNKNOWN" /\ cleanup_ok_after_update' = FALSE
  /\ backup_lock' = None
  /\ pc' = [t \in Threads |-> IF t = "worker" /\ record # None THEN "s_begin" ELSE "idle"]
  /\ named' = [t \in Threads |-> None] /\ target' = [t \in Threads |-> None]
  /\ from' = [t \in Threads |-> None] /\ doc' = [t \in Threads |-> {}]
  /\ sound' = [t \in Threads |-> "nothing"]
  /\ kept' = IF manifest.state = "torn" THEN {} ELSE kept
  /\ owed' = IF record = None THEN None ELSE owed
  /\ UNCHANGED <<download, rebuilt, backup, manifest, record, config, faults>>

WorkerStep ==
  \/ PrepareAdd
  \/ ReadyAdd \/ ReadyBegin \/ RollbackAdd \/ RecordSave \/ Install \/ RecordRemove
  \/ ReadyFailed \/ ReadyDone
  \/ ResumeBegin \/ ResumeRemove

BackupStep(t) ==
  \/ BackupLookup(t) \/ BackupLink(t) \/ BackupCopy(t) \/ BackupCopied(t)
  \/ BackupAdd(t) \/ BackupWrite(t) \/ BackupUnlock(t)

ConfirmStep(t) ==
  \/ ConfirmRead(t) \/ ConfirmLoop(t) \/ ConfirmWrite(t)
  \/ ConfirmTidy(t) \/ ConfirmEnd(t)

BackupNext ==
  \/ \E v \in Versions, given \in BOOLEAN : PrepareUpdate(v, given)
  \/ \E m \in Versions, v \in Versions : ReadyUpdate(m, v)
  \/ \E m \in Versions, k \in Versions : ConfirmUpdate(m, k)
  \/ ConfirmSkip
  \/ BackupCall
  \/ WorkerStep
  \/ \E t \in {"worker", "app"} : BackupLock(t) \/ BackupStep(t)
  \/ \E t \in {"worker", "runner"} : ConfirmStep(t)
  \/ Crash

BackupSpec == BackupInit /\ [][BackupNext]_vars

-----------------------------------------------------------------------------
\* Every variable keeps its type, and backup_lock is held by the thread at work.
BackupTypeOK ==
  /\ installed \in Versions
  /\ kind \in [Versions -> {"full", "delta", "prepared"}]
  /\ download \subseteq Versions /\ rebuilt \subseteq Versions
  /\ backup \in [Versions -> {"none", "part", "whole"}]
  /\ temp.state \in {"none", "torn", "ok"} /\ temp.entries \subseteq Entry
  /\ manifest.state \in {"none", "torn", "ok"} /\ manifest.entries \subseteq Versions
  /\ record \in Versions \cup {None}
  /\ target \in [Threads -> Versions \cup {None}] /\ named \in [Threads -> Versions \cup {None}]
  /\ from \in [Threads -> Places \cup {None}]
  /\ doc \in [Threads -> SUBSET Versions]
  /\ sound \in [Threads -> {"ok", "nothing", "failed"}]
  /\ kept \subseteq Versions /\ owed \in Versions \cup {None}
  /\ \A t \in Threads : pc[t] \in BackupSteps \ {"b_lock"} <=> backup_lock = t

\* A manifest is being written.
Writing == \E t \in Threads : pc[t] \in {"b_write", "c_write"}

\* A backup that was made can be restored until it is made anew, another version is
\* confirmed or a write of the manifest fails: whatever a crash has left behind, and
\* whoever makes a backup at the same time.
BackupKept == ~Writing => \A v \in kept : Restorable(v)

\* After the clean-up of a confirm-update only the confirmed version takes up space,
\* and what earlier crashes and failures left is gone too, unless the manifest cannot be
\* read or written: remove_old_backup then gives up.
OnlyConfirmedLeft ==
  \A t \in Threads : pc[t] = "c_temp" /\ manifest.state # "torn" =>
    \A v \in Versions \ {target[t]} : backup[v] = "none" /\ v \notin manifest.entries

\* "libua performs the same backup automatically after successful installation": when
\* a ready-update or a resume is over, the version that it reported as completed is
\* restorable, by the worker's own backup and whatever the application does meanwhile.
\* The package has to be there to be copied when the status is sent; a failing write, or
\* a restart after the record was removed, ends the promise.
CompletedIsBackedUp == pc["worker"] = "idle" => owed = None
=============================================================================
