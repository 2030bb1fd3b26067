------------------------------ MODULE Updater ------------------------------
(***************************************************************************)
(* The decisions of updater.c: what one ready-update command makes of the  *)
(* answers its callbacks give.  The operators are pure: they take the      *)
(* command, the packages at hand and the callbacks' answers, and return    *)
(* what the code does with them.  UpdateAgent performs the result.         *)
(***************************************************************************)
EXTENDS Naturals, Sequences

CONSTANTS
  Versions,   \* versions of a package
  None,       \* an absent JSON property, a NULL pointer
  MaxRetry    \* ua_cfg_t.max_retry

ASSUME NoneAssumption == None \notin Versions
ASSUME MaxRetryAssumption == MaxRetry \in Nat

\* update_rollback_t
RollbackTypes == {"URB_NONE", "URB_DMC_INITIATED_WITH_UA_INTENT",
                  "URB_DMC_INITIATED_NO_UA_INTENT", "URB_UA_INITIATED"}

(***************************************************************************)
(* The part of an update-status message that the DMC acts on: the state,   *)
(* the rollback version it names (if any) and terminal-failure.            *)
(***************************************************************************)
Status(st, rb, term) == [st |-> st, rb |-> rb, term |-> term]

StatusType == [st   : {"READY", "COMPLETED", "FAILED", "ROLLBACK"},
               rb   : Versions \cup {None},
               term : BOOLEAN]

(***************************************************************************)
(* The callbacks' answers during one ready-update:                         *)
(*   approved   on_pre_install and the DMC's answer to INSTALL_IN_PROGRESS *)
(*   installs   on_install returned INSTALL_COMPLETED                      *)
(*   prepares   prepare_install_action of a rollback package succeeded     *)
(*   delta      the rollback package is a prepared (standalone) delta      *)
(*   rb_type    the package's rollback type after on_install, which may    *)
(*              call ua_set_rollback_type                                  *)
(***************************************************************************)
Answers == [approved : BOOLEAN, installs : BOOLEAN, prepares : BOOLEAN,
            delta : BOOLEAN, rb_type : RollbackTypes]

\* add_pkg_file_manifest: a manifest (its versions) after an entry for v was written.
AddPkgFile(entries, v) == entries \cup {v}

\* remove_old_backup: the backup manifest after the clean-up that keeps version v.
RemoveOldBackup(entries, v) == entries \cap {v}

\* The first position of cur in list (get_pkg_next_rollback_version stops there).
FirstMatch(list, cur) ==
  CHOOSE i \in DOMAIN list :
     /\ list[i] = cur
     /\ \A j \in DOMAIN list : list[j] = cur => i <= j

\* Mutant: the search stops one version too late.
NextRollbackSkips(list, cur) ==
  IF list = None \/ cur = None THEN None
  ELSE LET idx == IF \E i \in DOMAIN list : list[i] = cur
                    THEN FirstMatch(list, cur) + 1 ELSE 2
       IN  IF idx \in DOMAIN list THEN list[idx] ELSE None

(***************************************************************************)
(* get_pkg_next_rollback_version: the version after cur, the first version *)
(* when cur is not in the list, None past the end or without list or cur.  *)
(***************************************************************************)
NextRollback(list, cur) ==
  IF list = None \/ cur = None THEN None
  ELSE LET idx == IF \E i \in DOMAIN list : list[i] = cur
                    THEN FirstMatch(list, cur) + 1 ELSE 1
       IN  IF idx \in DOMAIN list THEN list[idx] ELSE None

\* update_send_rollback_intent: the status that names the next rollback version;
\* None when nothing is sent.
RollbackIntent(rb_type, next) ==
  IF rb_type = "URB_NONE" THEN None
  ELSE IF rb_type = "URB_DMC_INITIATED_NO_UA_INTENT" THEN Status("FAILED", None, FALSE)
  ELSE IF rb_type = "URB_DMC_INITIATED_WITH_UA_INTENT" THEN Status("FAILED", next, FALSE)
  ELSE Status("ROLLBACK", next, FALSE)

\* Mutant: a refused installation stays in progress.
InstallOperationsInProgress(m, target, installed, a) ==
  LET done(sts, reply, ran) == [sts |-> sts, reply |-> reply, ran |-> ran]
  IN  IF m.rb = None /\ installed = m.version
        THEN done("COMPLETED", Status("COMPLETED", None, FALSE), FALSE)
      ELSE IF ~a.approved
        THEN done("IN_PROGRESS", None, FALSE)
      ELSE IF a.installs /\ target # None
        THEN done("COMPLETED", Status("COMPLETED", m.rb, FALSE), TRUE)
      ELSE done("FAILED", IF m.rbs # None THEN None ELSE Status("FAILED", m.rb, FALSE), TRUE)

(***************************************************************************)
(* update_start_install_operations with update_action: the resulting       *)
(* install state, the status sent (None if none) and whether on_install    *)
(* ran.  An agent that is handed no package file cannot complete.          *)
(***************************************************************************)
InstallOperations(m, target, installed, a) ==
  LET done(sts, reply, ran) == [sts |-> sts, reply |-> reply, ran |-> ran]
  IN  IF m.rb = None /\ installed = m.version
        THEN done("COMPLETED", Status("COMPLETED", None, FALSE), FALSE)
      ELSE IF ~a.approved
        THEN done("FAILED", None, FALSE)
      ELSE IF a.installs /\ target # None
        THEN done("COMPLETED", Status("COMPLETED", m.rb, FALSE), TRUE)
      ELSE done("FAILED", IF m.rbs # None THEN None ELSE Status("FAILED", m.rb, FALSE), TRUE)

\* The result of a whole ready-update: the install state, the last status sent,
\* whether on_install ran, the version acted on and the temp manifest left behind.
Result(sts, reply, ran, target, manifest) ==
  [sts |-> sts, reply |-> reply, ran |-> ran, target |-> target, manifest |-> manifest]

\* Mutant: one retry too few.
RetryAllowedStrict(retry_cnt) == retry_cnt < MaxRetry

\* The failure is reported without rollback version, for the DMC to try again.
RetryAllowed(retry_cnt) == retry_cnt <= MaxRetry

(***************************************************************************)
(* process_ready_update without rollback-version: install, and on failure  *)
(* ask for a retry, announce the next rollback version or give up.         *)
(***************************************************************************)
UpdateResult(m, target, installed, manifest, rb_type, retry_cnt, a) ==
  LET r    == InstallOperations(m, target, installed, a)
      next == NextRollback(m.rbs, target)
      rbt  == IF r.ran THEN a.rb_type ELSE rb_type
  IN  IF r.sts # "FAILED"
        THEN Result(r.sts, r.reply, r.ran, target, manifest)
      ELSE IF RetryAllowed(retry_cnt)
        THEN Result("FAILED", Status("FAILED", None, FALSE), r.ran, target, manifest)
      ELSE IF m.rbs = None
        THEN Result("FAILED", r.reply, r.ran, target, manifest)
      ELSE IF next # None
        THEN Result("ROLLBACK", RollbackIntent(rbt, next), r.ran, target, {})
      ELSE Result("FAILED", Status("FAILED", None, TRUE), r.ran, target, manifest)

\* update_get_rollback_package: the message names a file of the rollback version, or
\* the backup has it.
RollbackPackage(m, backup) == m.rb \in m.files \/ m.rb \in backup

(***************************************************************************)
(* update_start_rollback_operations: the rollback package comes from the   *)
(* command's version-list or from the backup; when the rollback fails the  *)
(* next version is announced, and without one the rollback has failed.     *)
(***************************************************************************)
RollbackResult(m, installed, manifest, backup, rb_type, a) ==
  LET found  == RollbackPackage(m, backup)
      ready  == found /\ a.prepares
      added  == IF ready THEN AddPkgFile(manifest, m.rb) ELSE manifest
      r      == InstallOperations(m, m.rb, installed, a)
      done   == ready /\ ~a.delta /\ r.sts = "COMPLETED"
      ran    == ready /\ ~a.delta /\ r.ran
      rbt    == IF ran THEN a.rb_type ELSE rb_type
      next   == IF found /\ a.delta THEN None ELSE NextRollback(m.rbs, m.rb)
      failed == IF rbt = "URB_DMC_INITIATED_NO_UA_INTENT"
                  THEN Status("FAILED", None, FALSE)
                  ELSE Status("FAILED", m.rb, TRUE)
  IN  IF installed = m.rb
        THEN Result("COMPLETED", Status("COMPLETED", m.rb, FALSE), FALSE, m.rb, manifest)
      ELSE IF done
        THEN Result("COMPLETED", r.reply, TRUE, m.rb, added)
      ELSE IF next # None
        THEN Result("ROLLBACK", RollbackIntent(rbt, next), ran, m.rb, {})
      ELSE Result("FAILED", failed, ran, m.rb, {})
=============================================================================
