------------------------------- MODULE Resume -------------------------------
(***************************************************************************)
(* An installation and the reboots that interrupt it (reboot_support = 1). *)
(* Before on_install the worker writes a record of the component context;  *)
(* after a restart the first DMC presence event makes the library read the *)
(* record, and a thread of its own compares the version on the device with *)
(* the record's and sends the status that the DMC is still waiting for.    *)
(*                                                                         *)
(* One package, whose component is of type Type.  The machine may restart  *)
(* at any step; the device may change while it does.                       *)
(***************************************************************************)
EXTENDS Updater, FiniteSets

CONSTANTS
  Commands,         \* the ready-update commands of the campaign
  Handlers,         \* the component types in the order of their registration
  Type,             \* the type of the package's component
  UaRollbackTypes,  \* rollback types that on_install may set
  InitialVersion,   \* the version on the device at the start
  MaxAttempts,      \* bound: attempts between two confirm-updates
  MaxReboots,       \* bound: restarts
  Torn              \* a record file that was created and not written

Command == [version : Versions, rb : Versions \cup {None}, rbs : Seq(Versions) \cup {None},
            files : SUBSET Versions, seq : BOOLEAN]

ASSUME ResumeAssumption ==
  /\ Commands \subseteq Command
  /\ Handlers \in Seq(STRING) /\ \E i \in DOMAIN Handlers : Handlers[i] = Type
  /\ UaRollbackTypes \subseteq RollbackTypes \ {"URB_NONE"}
  /\ InitialVersion \in Versions
  /\ MaxAttempts \in Nat /\ MaxReboots \in Nat
  /\ Torn # None

VARIABLES
  installed,       \* the version on the device
  record,          \* the record file: None, Torn or the context that it holds
  backup,          \* versions with a backup
  state,           \* ua_intl.state
  registered,      \* how many of the handlers are registered
  context,         \* update_pkg and update_file_info.version: the command and its target
  rb_type, retry_cnt,
  worker_running,
  worker,          \* where the worker is in process_ready_update
  approved,        \* what pre_update_action returned
  resume,          \* where the resume thread is
  asked,           \* the last ready-update that the worker took
  reply,           \* the last update-status for it, None if none was sent yet
  reboots

disk == <<installed, record, backup>>
process == <<state, registered>>
component == <<context, rb_type, retry_cnt, worker_running>>
threads == <<worker, approved, resume>>
dmc == <<asked, reply>>
vars == <<disk, process, component, threads, dmc, reboots>>

TargetOf(m) == IF m.rb # None THEN m.rb ELSE m.version

\* process_ready_update: rollback versions without a type get the default type.
DefaultType(m, t) ==
  IF m.rbs # None /\ t = "URB_NONE" THEN "URB_DMC_INITIATED_WITH_UA_INTENT" ELSE t

ResumeInit ==
  /\ installed = InitialVersion /\ record = None /\ backup = {InitialVersion}
  /\ state = "INITIALIZED" /\ registered = 0
  /\ context = None /\ rb_type = "URB_NONE" /\ retry_cnt = 0 /\ worker_running = FALSE
  /\ worker = "idle" /\ approved = FALSE /\ resume = "none"
  /\ asked = None /\ reply = None
  /\ reboots = 0

Send(status) == reply' = status

-----------------------------------------------------------------------------
(***************************************************************************)
(* Start of the process: ua_register, then the first presence of the DMC.  *)
(***************************************************************************)
\* Every handler that is registered sets the internal state.
Register ==
  /\ registered < Len(Handlers)
  /\ registered' = registered + 1
  /\ state' = "HANDLER_REGISTERED"
  /\ UNCHANGED <<disk, component, threads, dmc, reboots>>

\* Mutant: the handler registered last is not found.
RegisteredShort(t) == \E i \in 1 .. registered - 1 : Handlers[i] = t

\* query_hash_tree finds a runner for the type.
Registered(t) == \E i \in 1 .. registered : Handlers[i] = t

\* Mutant: the package and its version are not restored.
SetContextLost(r) ==
  /\ context' = None
  /\ rb_type' = r.rb_type
  /\ retry_cnt' = r.retry_cnt

\* update_set_comp_context returns the result of its last lookup: a record
\* without a sequence number counts as an error, after the context was set.
SetContext(r) ==
  /\ context' = [cmd |-> r.cmd, target |-> r.target]
  /\ rb_type' = r.rb_type
  /\ retry_cnt' = r.retry_cnt

\* handle_presence with update_handle_resume_from_reboot.
Presence ==
  /\ state = "HANDLER_REGISTERED"
  /\ LET found == record \notin {None, Torn} /\ Registered(Type)
     IN  /\ IF found THEN SetContext(record) ELSE UNCHANGED <<context, rb_type, retry_cnt>>
         /\ IF found /\ record.cmd.seq
            THEN /\ state' = "RESUME_STARTED"
                 /\ resume' = "started"
                 /\ UNCHANGED record
            ELSE /\ state' = "RESUME_DONE"
                 /\ record' = None
                 /\ UNCHANGED resume
  /\ UNCHANGED <<installed, backup, registered, worker_running, worker, approved, dmc, reboots>>

-----------------------------------------------------------------------------
(***************************************************************************)
(* The worker: process_ready_update with update_start_install_operations.  *)
(***************************************************************************)
\* process_run: a command finds the worker free.  The DMC is assumed to send
\* commands to an agent that has started and has resumed; the code does not
\* check that it has.
Free ==
  /\ registered = Len(Handlers)
  /\ state = "RESUME_DONE"
  /\ ~worker_running

\* The DMC repeats a command until it is answered.
ReadyUpdate(m) ==
  /\ Free
  /\ reply = None => asked \in {None, m}
  /\ m.rb = None => retry_cnt < MaxAttempts
  /\ asked' = m
  /\ reply' = None
  /\ worker_running' = TRUE
  /\ context' = [cmd |-> m, target |-> TargetOf(m)]
  /\ rb_type' = DefaultType(m, rb_type)
  /\ retry_cnt' = IF m.rb = None THEN retry_cnt + 1 ELSE retry_cnt
  /\ worker' = "test"
  /\ UNCHANGED <<disk, process, approved, resume, reboots>>

\* The target is on the device already: nothing is installed or recorded.
SameVersion ==
  /\ worker = "test" /\ installed = context.target
  /\ Send(Status("COMPLETED", context.cmd.rb, FALSE))
  /\ worker' = "backup"
  /\ UNCHANGED <<disk, process, component, approved, resume, asked, reboots>>

PreUpdate ==
  /\ worker = "test" /\ installed # context.target
  /\ approved' \in BOOLEAN
  /\ worker' = "save"
  /\ UNCHANGED <<disk, process, component, resume, dmc, reboots>>

\* Mutant: the record holds the campaign's version, not the one being installed.
RecordOfVersion ==
  [cmd |-> context.cmd, target |-> context.cmd.version, rb_type |-> rb_type,
   retry_cnt |-> retry_cnt]

\* update_get_comp_context_jo
RecordOf ==
  [cmd |-> context.cmd, target |-> context.target, rb_type |-> rb_type,
   retry_cnt |-> retry_cnt]

RecordSave ==
  /\ worker = "save"
  /\ record' = RecordOf
  /\ worker' = IF approved THEN "install" ELSE "remove"
  /\ UNCHANGED <<installed, backup, process, component, approved, resume, dmc, reboots>>

\* on_install: it changes the device or fails, and may set the rollback type.
OnInstall ==
  /\ worker = "install"
  /\ installed' \in {installed, context.target}
  /\ rb_type' \in {rb_type} \cup UaRollbackTypes
  /\ worker' = "return"
  /\ UNCHANGED <<record, backup, process, context, retry_cnt, worker_running, approved,
                 resume, dmc, reboots>>

\* The end of update_action: the status, unless a failure may be rolled back.
OnInstallReturns ==
  /\ worker = "return"
  /\ IF installed = context.target
     THEN Send(Status("COMPLETED", context.cmd.rb, FALSE))
     ELSE IF context.cmd.rbs = None
     THEN Send(Status("FAILED", context.cmd.rb, FALSE))
     ELSE UNCHANGED reply
  /\ worker' = "remove"
  /\ UNCHANGED <<disk, process, component, approved, resume, asked, reboots>>

RecordRemove ==
  /\ worker = "remove"
  /\ record' = None
  /\ worker' = IF installed = context.target THEN "backup" ELSE "failed"
  /\ UNCHANGED <<installed, backup, process, component, approved, resume, dmc, reboots>>

\* What process_ready_update makes of the failure.
FailureReply ==
  LET m == context.cmd
      a == [approved |-> approved, installs |-> FALSE, prepares |-> TRUE, delta |-> FALSE,
            rb_type |-> rb_type]
  IN  IF m.rb = None
      THEN UpdateResult(m, context.target, installed, {}, rb_type, retry_cnt, a).reply
      ELSE RollbackResult(m, installed, {}, backup, rb_type, a).reply

ReadyFailed ==
  /\ worker = "failed"
  /\ IF FailureReply = None THEN UNCHANGED reply ELSE Send(FailureReply)
  /\ worker' = "end"
  /\ UNCHANGED <<disk, process, component, approved, resume, asked, reboots>>

\* handler_backup_actions
ReadyBackup ==
  /\ worker = "backup"
  /\ backup' = backup \cup {context.target}
  /\ worker' = "end"
  /\ UNCHANGED <<installed, record, process, component, approved, resume, dmc, reboots>>

ReadyEnd ==
  /\ worker = "end"
  /\ context' = None
  /\ worker_running' = FALSE
  /\ worker' = "idle"
  /\ UNCHANGED <<disk, process, rb_type, retry_cnt, approved, resume, dmc, reboots>>

\* process_confirm_update: a new campaign has its own retries; while the temp
\* manifest exists the other backups go.  The rollback type is not reset, since
\* update_pkg.name was released.
ConfirmUpdate ==
  /\ Free /\ reply # None /\ retry_cnt > 0
  /\ retry_cnt' = 0
  /\ backup' \in {backup, RemoveOldBackup(backup, TargetOf(asked))}
  /\ UNCHANGED <<installed, record, process, context, rb_type, worker_running, threads, dmc,
                 reboots>>

-----------------------------------------------------------------------------
(***************************************************************************)
(* The resume thread: update_resume_from_reboot.                           *)
(***************************************************************************)
ResumeBegin ==
  /\ resume = "started"
  /\ worker_running' = TRUE
  /\ resume' = "report"
  /\ UNCHANGED <<disk, process, context, rb_type, retry_cnt, worker, approved, dmc, reboots>>

\* Mutant: the next rollback version is looked up from the campaign's version.
ResumeFailureRestarts ==
  LET m == context.cmd
      next == NextRollback(m.rbs, m.version)
  IN  CASE RetryAllowed(retry_cnt) -> Status("FAILED", None, FALSE)
        [] ~RetryAllowed(retry_cnt) /\
           rb_type \notin {"URB_DMC_INITIATED_WITH_UA_INTENT", "URB_UA_INITIATED"} ->
             Status("FAILED", None, FALSE)
        [] OTHER -> IF next # None THEN RollbackIntent(rb_type, next)
                    ELSE Status("FAILED", m.rb, TRUE)

\* The status after an installation that did not change the device.
ResumeFailure ==
  LET m == context.cmd
      next == NextRollback(m.rbs, context.target)
  IN  CASE RetryAllowed(retry_cnt) -> Status("FAILED", None, FALSE)
        [] ~RetryAllowed(retry_cnt) /\
           rb_type \notin {"URB_DMC_INITIATED_WITH_UA_INTENT", "URB_UA_INITIATED"} ->
             Status("FAILED", None, FALSE)
        [] OTHER -> IF next # None THEN RollbackIntent(rb_type, next)
                    ELSE Status("FAILED", m.rb, TRUE)

ResumeReport ==
  /\ resume = "report"
  /\ IF installed = context.target
     THEN /\ Send(Status("COMPLETED", context.cmd.rb, FALSE))
          /\ resume' = "backup"
     ELSE /\ Send(ResumeFailure)
          /\ resume' = "remove"
  /\ UNCHANGED <<disk, process, component, worker, approved, asked, reboots>>

ResumeBackup ==
  /\ resume = "backup"
  /\ backup' = backup \cup {context.target}
  /\ resume' = "remove"
  /\ UNCHANGED <<installed, record, process, component, worker, approved, dmc, reboots>>

ResumeRemove ==
  /\ resume = "remove"
  /\ record' = None
  /\ resume' = "end"
  /\ UNCHANGED <<installed, backup, process, component, worker, approved, dmc, reboots>>

ResumeEnd ==
  /\ resume = "end"
  /\ context' = None
  /\ state' = "RESUME_DONE"
  /\ worker_running' = FALSE
  /\ resume' = "none"
  /\ UNCHANGED <<disk, registered, rb_type, retry_cnt, worker, approved, dmc, reboots>>

-----------------------------------------------------------------------------
\* A restart: the memory is lost, a record file may have been opened only, and
\* a device that is being installed may end up with either version.
Reboot ==
  /\ reboots < MaxReboots /\ state # "INITIALIZED"
  /\ reboots' = reboots + 1
  /\ record' \in {record} \cup (IF worker = "save" THEN {Torn} ELSE {})
  /\ installed' \in {installed} \cup (IF worker = "install" THEN {context.target} ELSE {})
  /\ state' = "INITIALIZED" /\ registered' = 0
  /\ context' = None /\ rb_type' = "URB_NONE" /\ retry_cnt' = 0 /\ worker_running' = FALSE
  /\ worker' = "idle" /\ approved' = FALSE /\ resume' = "none"
  /\ UNCHANGED <<backup, dmc>>

WorkerStep ==
  \/ SameVersion \/ PreUpdate \/ RecordSave \/ OnInstall \/ OnInstallReturns
  \/ RecordRemove \/ ReadyFailed \/ ReadyBackup \/ ReadyEnd

ResumeStep == ResumeBegin \/ ResumeReport \/ ResumeBackup \/ ResumeRemove \/ ResumeEnd

ResumeNext ==
  \/ Register \/ Presence
  \/ \E m \in Commands : ReadyUpdate(m)
  \/ ConfirmUpdate
  \/ WorkerStep \/ ResumeStep
  \/ Reboot

\* The threads keep running, and the DMC connects to an agent that has started.
\* That the DMC repeats an unanswered command is not assumed.
ResumeFairness ==
  /\ WF_vars(Register) /\ WF_vars(Presence)
  /\ WF_vars(WorkerStep) /\ WF_vars(ResumeStep)

ResumeSpec == ResumeInit /\ [][ResumeNext]_vars /\ ResumeFairness

-----------------------------------------------------------------------------
Context == [cmd : Commands, target : Versions]
Record == [cmd : Commands, target : Versions, rb_type : RollbackTypes,
           retry_cnt : 0 .. MaxAttempts]

\* Every variable keeps its type; a thread at work has a context.
ResumeTypeOK ==
  /\ installed \in Versions
  /\ record \in {None, Torn} \/ record \in Record
  /\ backup \subseteq Versions
  /\ state \in {"INITIALIZED", "HANDLER_REGISTERED", "RESUME_STARTED", "RESUME_DONE"}
  /\ registered \in 0 .. Len(Handlers)
  /\ context = None \/ context \in Context
  /\ worker # "idle" \/ resume # "none" => context \in Context
  /\ rb_type \in RollbackTypes
  /\ retry_cnt \in 0 .. MaxAttempts
  /\ worker_running \in BOOLEAN /\ approved \in BOOLEAN
  /\ worker \in {"idle", "test", "save", "install", "return", "remove", "failed", "backup", "end"}
  /\ resume \in {"none", "started", "report", "backup", "remove", "end"}
  /\ asked = None \/ asked \in Commands
  /\ reply = None \/ reply \in StatusType
  /\ reboots \in 0 .. MaxReboots

\* A status is true when it is sent, before and after reboots: COMPLETED exactly
\* when the version that the last command asked for is on the device.
StatusTruthful ==
  [][reply' # reply /\ reply' # None =>
       (reply'.st = "COMPLETED" <=> installed = TargetOf(asked))]_vars

Position(list, v) == CHOOSE i \in DOMAIN list : list[i] = v

\* The walk through the rollback versions goes on after a reboot where it was:
\* a version that is announced comes after the one that has failed.
RollbackMovesOn ==
  [][reply' # reply /\ reply' # None =>
       LET list == asked.rbs
           tried == TargetOf(asked)
       IN  reply'.st # "COMPLETED" /\ ~reply'.term /\ list # None /\ reply'.rb # None
           /\ (\E i \in DOMAIN list : list[i] = tried)
           => Position(list, tried) < Position(list, reply'.rb)]_vars

\* A restart that finds a record leads to a status for the command, whatever
\* further reboots interrupt it and without the DMC sending the command again:
\* "1 = ua uses libary's reboot/resume support."  The record of a command
\* without sequence number is discarded.
RecordIsAnswered ==
  [](state = "INITIALIZED" /\ record \notin {None, Torn} /\ record.cmd.seq
       => <>(reply # None))
=============================================================================
