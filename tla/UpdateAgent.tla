---------------------------- MODULE UpdateAgent ----------------------------
(***************************************************************************)
(* One registered component of the update agent (ua_component_context_t):  *)
(* its runner thread, which takes the messages of the eSync client (the    *)
(* DMC) from the queue, and its worker thread, which runs prepare-update   *)
(* and ready-update while the runner goes on.  The two threads share the   *)
(* component context without a lock; every read and write of what they     *)
(* share is a step of its own.                                             *)
(*                                                                         *)
(* The DMC is the environment: it may send any command of Commands at any  *)
(* time.  Campaign.tla restricts it to the protocol the real one follows.  *)
(***************************************************************************)
EXTENDS Updater, FiniteSets

CONSTANTS
  Pkgs,               \* packages of the component
  Campaigns,          \* campaign ids
  Commands,           \* the messages the DMC may send
  UaRollbackTypes,    \* rollback types the agent may set in on_install
  InitialVersion,     \* the version on the device at the start
  AsyncQuery,         \* ua_set_async_query_package was called
  MaxInbox            \* bound: messages waiting in the queue

Message == [type     : {"query-package", "prepare-update", "ready-update", "confirm-update"},
            pkg      : Pkgs,
            version  : Versions,
            rb       : Versions \cup {None},         \* rollback-version
            rbs      : Seq(Versions) \cup {None},    \* rollback-versions
            listed   : SUBSET Versions,  \* version-list entries with downloaded = true
            files    : SUBSET Versions,  \* those of them that name a file
            campaign : Campaigns \cup {None},
            rollback : BOOLEAN,                      \* body.rollback
            seq      : Nat]                          \* 0: no sequence property

ASSUME UpdateAgentAssumption ==
  /\ Commands \subseteq Message
  /\ \A m \in Commands : m.files \subseteq m.listed
  /\ UaRollbackTypes \subseteq RollbackTypes \ {"URB_NONE"}
  /\ InitialVersion \in Versions
  /\ AsyncQuery \in BOOLEAN
  /\ MaxInbox \in Nat
  /\ None \notin Pkgs /\ None \notin Campaigns /\ None \notin Message
  /\ None \notin StatusType /\ None \notin Seq(Versions)

Stages == {"UNKNOWN", "PREPARE_UPDATE_STARTED", "PREPARE_UPDATE_DONE",
           "READY_UPDATE_STARTED", "READY_UPDATE_DONE",
           "CONFIRM_UPDATE_STARTED", "CONFIRM_UPDATE_DONE"}

Threads == {"runner", "worker"}

VARIABLES
  inbox,            \* runner_info_t.queue
  seq_in,           \* last sequence number accepted per package, 0 = no record
  stage,            \* comp_state_info_t.stage per package
  prepared,         \* comp_state_info_t.prepared_ver and campaign_id per package
  cur_campaign_id,  \* ua_intl.cur_campaign_id
  update_name,      \* update_pkg.name
  update_error,     \* update_error = UE_TERMINAL_FAILURE
  rb_type,          \* comp_ctrl_t.rb_type per package
  retry_cnt,
  cleanup_ok,       \* cleanup_ok_after_update
  dmc_handler_done,
  manifest,         \* versions in the temp update manifest; {} = no such file
  backup,           \* versions in the backup manifest; {} = no such file
  installed,        \* the version on the device per package
  worker_running,
  pc,               \* where each thread is
  cmd,              \* the message each thread works on
  seen,             \* process_prepare_update's st: the stage to restore on failure
  target,           \* update_file_info.version
  outcome,          \* update_sts
  reply             \* the last update-status sent per package, None once the DMC took it

compVars   == <<stage, prepared, rb_type, update_name, update_error, cur_campaign_id>>
fileVars   == <<manifest, backup, installed>>
queueVars  == <<inbox, seq_in, dmc_handler_done>>
flagVars   == <<retry_cnt, cleanup_ok>>
threadVars == <<pc, cmd, seen, worker_running>>
localVars  == <<target, outcome>>
vars == <<compVars, fileVars, queueVars, flagVars, threadVars, localVars, reply>>

\* Where a worker that executes a command is; see the actions for the steps.
PrepareSteps == {"p_test", "p_begin", "p_install", "p_end"}
ReadySteps   == {"r_parse", "r_begin", "r_install", "r_backup", "r_done",
                 "r_flag", "r_unflag", "r_release"}
ConfirmSteps == {"c_test", "c_skip", "c_begin", "c_clean", "c_end"}
ProgramSteps == {"idle", "query", "exit", "crash"} \cup PrepareSteps \cup ReadySteps \cup ConfirmSteps

NoPrepared == [ver |-> None, cid |-> None]

Init ==
  /\ inbox = <<>>
  /\ seq_in = [p \in Pkgs |-> 0]
  /\ stage = [p \in Pkgs |-> "UNKNOWN"]
  /\ prepared = [p \in Pkgs |-> NoPrepared]
  /\ cur_campaign_id = None
  /\ update_name = None
  /\ update_error = FALSE
  /\ rb_type = [p \in Pkgs |-> "URB_NONE"]
  /\ retry_cnt = 0
  /\ cleanup_ok = FALSE
  /\ dmc_handler_done = FALSE
  /\ manifest = [p \in Pkgs |-> {}]
  /\ backup \in [Pkgs -> {{}, {InitialVersion}}]
  /\ installed = [p \in Pkgs |-> InitialVersion]
  /\ worker_running = FALSE
  /\ pc = [t \in Threads |-> "idle"]
  /\ cmd = [t \in Threads |-> None]
  /\ seen = "UNKNOWN"
  /\ target = None
  /\ outcome = "READY"
  /\ reply = [p \in Pkgs |-> None]

(***************************************************************************)
(* The environment: messages arrive, the DMC presence callback returns.    *)
(***************************************************************************)
\* handle_message: append to the runner's queue.
Deliver(m) ==
  /\ pc["runner"] # "crash"
  /\ Len(inbox) < MaxInbox
  /\ inbox' = Append(inbox, m)
  /\ UNCHANGED <<seq_in, dmc_handler_done, compVars, fileVars, flagVars, threadVars,
                 localVars, reply>>

\* ua_handle_dmc_presence: ready-update is accepted from here on.
DmcPresence ==
  /\ pc["runner"] # "crash"
  /\ ~dmc_handler_done
  /\ dmc_handler_done' = TRUE
  /\ UNCHANGED <<inbox, seq_in, compVars, fileVars, flagVars, threadVars, localVars, reply>>

(***************************************************************************)
(* The runner thread: runner_loop, process_message, process_run.           *)
(***************************************************************************)
\* Mutant: a repeated sequence number passes.
OutdatedStrict(m) == m.seq # 0 /\ seq_in[m.pkg] # 0 /\ seq_in[m.pkg] > m.seq

\* handler_chk_incoming_seq_outdated
Outdated(m) == m.seq # 0 /\ seq_in[m.pkg] # 0 /\ seq_in[m.pkg] >= m.seq

AcceptSeq(m) == seq_in' = IF m.seq = 0 THEN seq_in ELSE [seq_in EXCEPT ![m.pkg] = m.seq]

\* The message at the head of the queue, which the runner pops.
Msg == Head(inbox)

Pop ==
  /\ pc["runner"] = "idle"
  /\ inbox # <<>>
  /\ inbox' = Tail(inbox)
  /\ UNCHANGED <<dmc_handler_done, compVars, fileVars, flagVars, localVars, reply>>

\* The message waited longer than MSG_TIMEOUT, or its sequence number is outdated.
RunnerDrop ==
  /\ Pop
  /\ UNCHANGED <<seq_in, threadVars>>

\* The sequence number is accepted.
Accept == Pop /\ ~Outdated(Msg) /\ AcceptSeq(Msg)

\* The agent's on_message consumed the message.
RunnerConsumed ==
  /\ Accept
  /\ UNCHANGED threadVars

\* process_run with turnover = 1
OnWorker(m) == m.type \in {"prepare-update", "ready-update"}
               \/ (m.type = "query-package" /\ AsyncQuery)

\* "UA worker busy, discarding this message", or pthread_create failed.
RunnerDiscard ==
  /\ Accept
  /\ OnWorker(Msg)
  /\ UNCHANGED threadVars

FirstStep(m) == IF m.type = "query-package" THEN "query"
                ELSE IF m.type = "prepare-update" THEN "p_test"
                ELSE IF m.type = "ready-update" THEN "r_parse"
                ELSE "c_test"

RunnerSpawn ==
  /\ Accept
  /\ OnWorker(Msg)
  /\ ~worker_running
  /\ worker_running' = TRUE
  /\ pc' = [pc EXCEPT !["worker"] = FirstStep(Msg)]
  /\ cmd' = [cmd EXCEPT !["worker"] = Msg]
  /\ UNCHANGED seen

\* process_run with turnover = 0: the runner executes the handler itself.
RunnerExecute ==
  /\ Accept
  /\ ~OnWorker(Msg)
  /\ pc' = [pc EXCEPT !["runner"] = FirstStep(Msg)]
  /\ cmd' = [cmd EXCEPT !["runner"] = Msg]
  /\ UNCHANGED <<seen, worker_running>>

(***************************************************************************)
(* Steps of a handler on thread t.                                         *)
(***************************************************************************)
Goto(t, step) == pc' = [pc EXCEPT ![t] = step]

\* The handler returns: the runner takes its next message; the worker is done, or,
\* after a clean-up on behalf of a skipped confirm-update, back in ready-update.
Return(t) == Goto(t, IF t = "runner" THEN "idle"
                     ELSE IF pc[t] \in ConfirmSteps THEN "r_unflag" ELSE "exit")

Send(p, status) == reply' = [reply EXCEPT ![p] = status]

\* comp_set_update_stage
SetStage(p, st) == stage' = [stage EXCEPT ![p] = st]

\* comp_set_prepared_version, which does nothing without a campaign id.
SetPrepared(p, v) ==
  prepared' = IF cur_campaign_id = None THEN prepared
              ELSE [prepared EXCEPT ![p] = [ver |-> v, cid |-> cur_campaign_id]]

TargetVersion(m) == IF m.rb # None THEN m.rb ELSE m.version

\* process_query_package: answers do-not-disturb or the version, changes nothing.
QueryPackage(t) ==
  /\ pc[t] = "query"
  /\ Return(t)
  /\ UNCHANGED <<queueVars, compVars, fileVars, flagVars, cmd, seen, worker_running,
                 localVars, reply>>

\* worker_action: the detached worker thread ends.
WorkerExit ==
  /\ pc["worker"] = "exit"
  /\ Goto("worker", "idle")
  /\ worker_running' = FALSE
  /\ UNCHANGED <<queueVars, compVars, fileVars, flagVars, cmd, seen, localVars, reply>>

(***************************************************************************)
(* process_prepare_update, on the worker.                                  *)
(***************************************************************************)
\* ua_intl.cur_campaign_id after the command's campaign id is read.
CampaignOf(m) == IF m.campaign # None THEN m.campaign ELSE cur_campaign_id

\* comp_get_prepared_version finds this version prepared in this campaign.
AlreadyPrepared(m) ==
  LET rec == prepared[m.pkg]
  IN  CampaignOf(m) # None /\ rec.cid = CampaignOf(m) /\ rec.ver = m.version

\* comp_get_prepared_version compares the campaign with a record that has none:
\* strcmp of a NULL pointer, which ends the process.
ComparesNull(m) == CampaignOf(m) # None /\ prepared[m.pkg].cid = None

PrepareTest ==
  LET m  == cmd["worker"]
      st == stage[m.pkg]
  IN  /\ pc["worker"] = "p_test"
      /\ update_name' = m.pkg
      /\ \/ /\ st = "PREPARE_UPDATE_STARTED"
            /\ Goto("worker", "exit")
            /\ UNCHANGED <<cur_campaign_id, seen, reply>>
         \/ /\ st = "PREPARE_UPDATE_DONE" /\ ComparesNull(m)
            /\ cur_campaign_id' = CampaignOf(m)
            /\ pc' = [t \in Threads |-> "crash"]
            /\ UNCHANGED <<seen, reply>>
         \/ /\ st = "PREPARE_UPDATE_DONE" /\ AlreadyPrepared(m)
            /\ cur_campaign_id' = CampaignOf(m)
            /\ Send(m.pkg, Status("READY", None, FALSE))
            /\ Goto("worker", "exit")
            /\ UNCHANGED seen
         \/ /\ st # "PREPARE_UPDATE_STARTED"
            /\ ~(st = "PREPARE_UPDATE_DONE" /\ (ComparesNull(m) \/ AlreadyPrepared(m)))
            /\ cur_campaign_id' = CampaignOf(m)
            /\ seen' = st
            /\ Goto("worker", "p_begin")
            /\ UNCHANGED reply
      /\ UNCHANGED <<stage, prepared, rb_type, update_error, queueVars, fileVars,
                     flagVars, cmd, worker_running, localVars>>

PrepareBegin ==
  LET m == cmd["worker"]
  IN  /\ pc["worker"] = "p_begin"
      /\ SetStage(m.pkg, "PREPARE_UPDATE_STARTED")
      /\ Goto("worker", "p_install")
      /\ UNCHANGED <<prepared, rb_type, update_name, update_error, cur_campaign_id,
                     queueVars, fileVars, flagVars, cmd, seen, worker_running, localVars,
                     reply>>

\* Mutant: a package from the backup is not added to the temp manifest.
PrepareInstallForgets ==
  LET m == cmd["worker"]
      v == TargetVersion(m)
  IN  /\ pc["worker"] = "p_install"
      /\ v \in m.files \/ v \in backup[m.pkg]
      /\ manifest' = IF v \in m.files THEN [manifest EXCEPT ![m.pkg] = AddPkgFile(@, v)]
                     ELSE manifest
      /\ Send(m.pkg, Status("READY", m.rb, FALSE))
      /\ outcome' = "READY"
      /\ Goto("worker", "p_end")
      /\ UNCHANGED <<compVars, backup, installed, queueVars, flagVars, cmd, seen,
                     worker_running, target>>

\* prepare_install_action: the package is transferred, verified, reconstructed from a
\* delta and offered to on_prepare_install; it enters the temp manifest if all went well.
PrepareInstallAction(p, v) ==
  \/ /\ outcome' = "READY"
     /\ manifest' = [manifest EXCEPT ![p] = AddPkgFile(@, v)]
  \/ /\ outcome' = "FAILED"
     /\ UNCHANGED manifest

\* The package is named in the message, or it is in the backup.
PrepareInstall ==
  LET m     == cmd["worker"]
      v     == TargetVersion(m)
      found == v \in m.files \/ v \in backup[m.pkg]
  IN  /\ pc["worker"] = "p_install"
      /\ \/ /\ found
            /\ PrepareInstallAction(m.pkg, v)
            /\ Send(m.pkg, Status(outcome', m.rb, FALSE))
         \/ /\ ~found
            /\ outcome' = "FAILED"
            /\ Send(m.pkg, Status("FAILED", None, FALSE))
            /\ UNCHANGED manifest
      /\ Goto("worker", "p_end")
      /\ UNCHANGED <<compVars, backup, installed, queueVars, flagVars, cmd, seen,
                     worker_running, target>>

\* Mutant: a failed prepare-update leaves its stage behind.
PrepareEndLeaves ==
  LET m == cmd["worker"]
  IN  /\ pc["worker"] = "p_end"
      /\ IF outcome = "READY"
           THEN /\ retry_cnt' = 0
                /\ SetPrepared(m.pkg, m.version)
                /\ SetStage(m.pkg, "PREPARE_UPDATE_DONE")
           ELSE UNCHANGED <<prepared, retry_cnt, stage>>
      /\ update_name' = None
      /\ Goto("worker", "exit")
      /\ UNCHANGED <<rb_type, update_error, cur_campaign_id, queueVars, fileVars,
                     cleanup_ok, cmd, seen, worker_running, localVars, reply>>

PrepareEnd ==
  LET m == cmd["worker"]
  IN  /\ pc["worker"] = "p_end"
      /\ \/ /\ outcome = "READY"
            /\ retry_cnt' = 0
            /\ SetPrepared(m.pkg, m.version)
            /\ SetStage(m.pkg, "PREPARE_UPDATE_DONE")
         \/ /\ outcome # "READY"
            /\ SetStage(m.pkg, seen)
            /\ UNCHANGED <<prepared, retry_cnt>>
      /\ update_name' = None
      /\ Goto("worker", "exit")
      /\ UNCHANGED <<rb_type, update_error, cur_campaign_id, queueVars, fileVars,
                     cleanup_ok, cmd, seen, worker_running, localVars, reply>>

(***************************************************************************)
(* process_ready_update, on the worker.                                    *)
(***************************************************************************)
\* Mutant: the version of a package found in the message is not taken over.
ParseFoundStale(m, tv) ==
  \/ /\ tv \in manifest[m.pkg]
     /\ target' = tv /\ UNCHANGED manifest
  \/ /\ tv \notin manifest[m.pkg] /\ tv \in m.files
     /\ UNCHANGED target
     /\ manifest' = [manifest EXCEPT ![m.pkg] = AddPkgFile(@, tv)]

\* update_parse_json_ready_update finds the package: in the temp manifest, else in the
\* message, else in the backup.  A version that is in neither manifest nor version-list
\* is no error: update_file_info then keeps whatever it held.
ParseFound(m, tv) ==
  \/ /\ tv \in manifest[m.pkg]
     /\ target' = tv /\ UNCHANGED manifest
  \/ /\ tv \notin manifest[m.pkg] /\ tv \notin m.listed
     /\ UNCHANGED <<target, manifest>>
  \/ /\ tv \notin manifest[m.pkg] /\ tv \in m.files
     /\ target' = tv
     /\ manifest' = [manifest EXCEPT ![m.pkg] = AddPkgFile(@, tv)]
  \/ /\ tv \notin manifest[m.pkg] /\ tv \in m.listed \ m.files /\ tv \in backup[m.pkg]
     /\ target' = tv /\ UNCHANGED manifest

\* The parse fails: the named file is unreadable, or the backup does not have the
\* version (E_UA_ERR; E_UA_SYS when there is no backup manifest at all).
ParseFailed(m, tv) ==
  LET noFile   == tv \in m.files
      noBackup == tv \in m.listed \ m.files /\ tv \notin backup[m.pkg]
      isErr    == noFile \/ backup[m.pkg] # {}
  IN  /\ tv \notin manifest[m.pkg]
      /\ noFile \/ noBackup
      /\ target' = IF noFile THEN tv ELSE target
      /\ update_error' = (update_error \/ (isErr /\ m.rb # None))
      /\ Send(m.pkg, Status("FAILED", m.rb, update_error'))
      /\ UNCHANGED manifest

ReadyParse ==
  LET m  == cmd["worker"]
      tv == TargetVersion(m)
  IN  /\ pc["worker"] = "r_parse"
      /\ \/ /\ ~dmc_handler_done
            /\ Goto("worker", "exit")
            /\ UNCHANGED <<update_name, cur_campaign_id, update_error, target, manifest, reply>>
         \/ /\ dmc_handler_done
            /\ update_name' = m.pkg
            /\ cur_campaign_id' = CampaignOf(m)
            /\ \/ /\ ParseFound(m, tv)
                  /\ Goto("worker", "r_begin")
                  /\ UNCHANGED <<update_error, reply>>
               \/ /\ ParseFailed(m, tv)
                  /\ Goto("worker", "exit")
      /\ UNCHANGED <<stage, prepared, rb_type, backup, installed, queueVars, flagVars, cmd,
                     seen, worker_running, outcome>>

ReadyBegin ==
  LET m == cmd["worker"]
  IN  /\ pc["worker"] = "r_begin"
      /\ SetStage(m.pkg, "READY_UPDATE_STARTED")
      /\ SetPrepared(m.pkg, None)
      /\ rb_type' = IF m.rbs # None /\ rb_type[m.pkg] = "URB_NONE"
                      THEN [rb_type EXCEPT ![m.pkg] = "URB_DMC_INITIATED_WITH_UA_INTENT"]
                      ELSE rb_type
      /\ retry_cnt' = IF m.rb = None THEN retry_cnt + 1 ELSE retry_cnt
      /\ Goto("worker", "r_install")
      /\ UNCHANGED <<update_name, update_error, cur_campaign_id, queueVars, fileVars,
                     cleanup_ok, cmd, seen, worker_running, localVars, reply>>

\* What the command m comes to when the callbacks answer a.
ReadyResult(m, a) ==
  LET p == m.pkg
  IN  IF m.rb # None
        THEN RollbackResult(m, installed[p], manifest[p], backup[p], rb_type[p], a)
        ELSE UpdateResult(m, target, installed[p], manifest[p], rb_type[p], retry_cnt, a)

\* The effects of a result r on package p; on_install may have set the rollback type.
Perform(p, a, r) ==
  /\ outcome' = r.sts
  /\ target' = r.target
  /\ manifest' = [manifest EXCEPT ![p] = r.manifest]
  /\ installed' = IF r.ran /\ r.sts = "COMPLETED"
                    THEN [installed EXCEPT ![p] = r.target] ELSE installed
  /\ rb_type' = IF r.ran THEN [rb_type EXCEPT ![p] = a.rb_type] ELSE rb_type
  /\ update_error' = (update_error \/ (r.reply # None /\ r.reply.term))
  /\ reply' = IF r.reply = None THEN reply ELSE [reply EXCEPT ![p] = r.reply]

\* The installation or the rollback with all its callbacks, and the status it ends with.
ReadyInstall ==
  LET m == cmd["worker"]
  IN  /\ pc["worker"] = "r_install"
      /\ \E a \in Answers :
           /\ a.rb_type \in {rb_type[m.pkg]} \cup UaRollbackTypes
           /\ Perform(m.pkg, a, ReadyResult(m, a))
      /\ Goto("worker", "r_backup")
      /\ UNCHANGED <<stage, prepared, update_name, cur_campaign_id, backup, queueVars,
                     flagVars, cmd, seen, worker_running>>

\* backup_package: link or copy the package and enter it in the backup manifest.  There
\* is nothing to do when the backup has the file, and copying may fail.
BackupPackage(p, v) ==
  \/ backup' = [backup EXCEPT ![p] = AddPkgFile(@, v)]
  \/ UNCHANGED backup

\* handler_backup_actions: nothing without a temp manifest entry, or for a delta.
BackupActions(p, v) ==
  \/ v \in manifest[p] /\ BackupPackage(p, v)
  \/ UNCHANGED backup

\* After a completed update, unless rollback is disabled for the package.
ReadyBackup ==
  /\ pc["worker"] = "r_backup"
  /\ \/ outcome = "COMPLETED" /\ BackupActions(cmd["worker"].pkg, target)
     \/ UNCHANGED backup
  /\ Goto("worker", "r_done")
  /\ UNCHANGED <<compVars, manifest, installed, queueVars, flagVars, cmd, seen,
                 worker_running, localVars, reply>>

ReadyDone ==
  /\ pc["worker"] = "r_done"
  /\ SetStage(cmd["worker"].pkg, "READY_UPDATE_DONE")
  /\ Goto("worker", "r_flag")
  /\ UNCHANGED <<prepared, rb_type, update_name, update_error, cur_campaign_id, queueVars,
                 fileVars, flagVars, cmd, seen, worker_running, localVars, reply>>

\* "clean backup in case all future confirm-update messages are skipped"
ReadyFlag ==
  /\ pc["worker"] = "r_flag"
  /\ Goto("worker", IF cleanup_ok THEN "c_test" ELSE "r_release")
  /\ UNCHANGED <<queueVars, compVars, fileVars, flagVars, cmd, seen, worker_running,
                 localVars, reply>>

ReadyUnflag ==
  /\ pc["worker"] = "r_unflag"
  /\ cleanup_ok' = FALSE
  /\ Goto("worker", "r_release")
  /\ UNCHANGED <<queueVars, compVars, fileVars, retry_cnt, cmd, seen, worker_running,
                 localVars, reply>>

\* update_release_comp_context
ReadyRelease ==
  /\ pc["worker"] = "r_release"
  /\ update_name' = None
  /\ update_error' = FALSE
  /\ cur_campaign_id' = None
  /\ target' = None
  /\ Goto("worker", "exit")
  /\ UNCHANGED <<stage, prepared, rb_type, queueVars, fileVars, flagVars, cmd, seen,
                 worker_running, outcome, reply>>

(***************************************************************************)
(* process_confirm_update: on the runner for a confirm-update message, on  *)
(* the worker at the end of a ready-update that found cleanup_ok set (with *)
(* the ready-update's message).                                            *)
(***************************************************************************)
\* Mutant: a confirm-update during the installation is not skipped.
ConfirmTestEager(t) ==
  /\ pc[t] = "c_test"
  /\ Goto(t, "c_begin")
  /\ UNCHANGED <<queueVars, compVars, fileVars, flagVars, cmd, seen, worker_running,
                 localVars, reply>>

ConfirmTest(t) ==
  LET st == stage[cmd[t].pkg]
  IN  /\ pc[t] = "c_test"
      /\ \/ /\ st \in {"READY_UPDATE_DONE", "UNKNOWN"}
            /\ Goto(t, "c_begin")
         \/ /\ st = "READY_UPDATE_STARTED"
            /\ Goto(t, "c_skip")
         \/ /\ st \notin {"READY_UPDATE_DONE", "UNKNOWN", "READY_UPDATE_STARTED"}
            /\ Return(t)
      /\ UNCHANGED <<queueVars, compVars, fileVars, flagVars, cmd, seen, worker_running,
                     localVars, reply>>

ConfirmSkip(t) ==
  /\ pc[t] = "c_skip"
  /\ cleanup_ok' = TRUE
  /\ Return(t)
  /\ UNCHANGED <<queueVars, compVars, fileVars, retry_cnt, cmd, seen, worker_running,
                 localVars, reply>>

ConfirmBegin(t) ==
  /\ pc[t] = "c_begin"
  /\ SetStage(cmd[t].pkg, "CONFIRM_UPDATE_STARTED")
  /\ Goto(t, "c_clean")
  /\ UNCHANGED <<prepared, rb_type, update_name, update_error, cur_campaign_id, queueVars,
                 fileVars, flagVars, cmd, seen, worker_running, localVars, reply>>

\* The version whose backup a confirm-update keeps.
KeptVersion(m) == IF m.rollback /\ m.rb # None THEN m.rb ELSE m.version

\* update_pkg.name points into a message that has been released.
DanglingName == ~worker_running \/ pc["worker"] \in {"p_test", "r_parse", "query", "exit"}

\* Without a temp manifest nothing is cleaned.  The rollback type is reset for
\* update_pkg.name, not for the package of the message.
ConfirmClean(t) ==
  LET m == cmd[t]
      p == m.pkg
  IN  /\ pc[t] = "c_clean"
      /\ \/ /\ manifest[p] = {}
            /\ UNCHANGED <<rb_type, backup, manifest>>
         \/ /\ manifest[p] # {}
            /\ \/ /\ update_name # None
                  /\ rb_type' = [rb_type EXCEPT ![update_name] = "URB_NONE"]
               \/ /\ update_name = None \/ DanglingName
                  /\ UNCHANGED rb_type
            /\ backup' = [backup EXCEPT ![p] = RemoveOldBackup(@, KeptVersion(m))]
            /\ manifest' = [manifest EXCEPT ![p] = {}]
      /\ Goto(t, "c_end")
      /\ UNCHANGED <<stage, prepared, update_name, update_error, cur_campaign_id, installed,
                     queueVars, flagVars, cmd, seen, worker_running, localVars, reply>>

ConfirmEnd(t) ==
  /\ pc[t] = "c_end"
  /\ retry_cnt' = 0
  /\ SetStage(cmd[t].pkg, "CONFIRM_UPDATE_DONE")
  /\ Return(t)
  /\ UNCHANGED <<prepared, rb_type, update_name, update_error, cur_campaign_id, queueVars,
                 fileVars, cleanup_ok, cmd, seen, worker_running, localVars, reply>>

RunnerStep == RunnerDrop \/ RunnerConsumed \/ RunnerDiscard \/ RunnerSpawn \/ RunnerExecute

PrepareStep == PrepareTest \/ PrepareBegin \/ PrepareInstall \/ PrepareEnd

ReadyStep == \/ ReadyParse \/ ReadyBegin \/ ReadyInstall \/ ReadyBackup \/ ReadyDone
             \/ ReadyFlag \/ ReadyUnflag \/ ReadyRelease

ConfirmStep(t) == \/ ConfirmTest(t) \/ ConfirmSkip(t) \/ ConfirmBegin(t)
                  \/ ConfirmClean(t) \/ ConfirmEnd(t)

AgentStep == \/ DmcPresence \/ RunnerStep \/ PrepareStep \/ ReadyStep \/ WorkerExit
             \/ \E t \in Threads : QueryPackage(t) \/ ConfirmStep(t)

Next == (\E m \in Commands : Deliver(m)) \/ AgentStep

Spec == Init /\ [][Next]_vars

-----------------------------------------------------------------------------
\* Every variable holds a value the program can store in it.
TypeOK ==
  /\ inbox \in Seq(Commands)
  /\ seq_in \in [Pkgs -> Nat]
  /\ stage \in [Pkgs -> Stages]
  /\ prepared \in [Pkgs -> [ver : Versions \cup {None}, cid : Campaigns \cup {None}]]
  /\ cur_campaign_id \in Campaigns \cup {None}
  /\ update_name \in Pkgs \cup {None}
  /\ update_error \in BOOLEAN
  /\ rb_type \in [Pkgs -> RollbackTypes]
  /\ retry_cnt \in Nat
  /\ cleanup_ok \in BOOLEAN
  /\ dmc_handler_done \in BOOLEAN
  /\ manifest \in [Pkgs -> SUBSET Versions]
  /\ backup \in [Pkgs -> SUBSET Versions]
  /\ installed \in [Pkgs -> Versions]
  /\ worker_running \in BOOLEAN
  /\ pc \in [Threads -> ProgramSteps]
  /\ cmd \in [Threads -> Commands \cup {None}]
  /\ seen \in Stages
  /\ target \in Versions \cup {None}
  /\ outcome \in {"READY", "COMPLETED", "FAILED", "ROLLBACK"}
  /\ reply \in [Pkgs -> StatusType \cup {None}]

(***************************************************************************)
(* A "started" stage is never left behind.  READY_UPDATE_STARTED, which    *)
(* makes query-package answer do-not-disturb, belongs to a ready-update    *)
(* of that package that is still installing; PREPARE_UPDATE_STARTED, which *)
(* makes every prepare-update be skipped without an answer, belongs to a   *)
(* prepare-update still at work.  Were either left behind by an early      *)
(* return or restored by a failed prepare, the package could never be      *)
(* updated again.  The exception is the end of the process itself.         *)
(***************************************************************************)
StageOwned ==
  pc["worker"] # "crash" =>
    \A p \in Pkgs :
      /\ stage[p] = "READY_UPDATE_STARTED" =>
           pc["worker"] \in {"r_install", "r_backup", "r_done"} /\ cmd["worker"].pkg = p
      /\ stage[p] = "PREPARE_UPDATE_STARTED" =>
           pc["worker"] \in {"p_install", "p_end"} /\ cmd["worker"].pkg = p

(***************************************************************************)
(* comp_get_prepared_version treats a record without campaign id as one of *)
(* a different campaign: a prepare-update never ends the process.          *)
(***************************************************************************)
NoCrash == \A t \in Threads : pc[t] # "crash"

(***************************************************************************)
(* The strengthening that makes StageOwned inductive.                      *)
(***************************************************************************)
\* A thread inside a handler has a message, only the worker prepares and installs, and
\* a second worker is never started while one is at work.
ThreadsOK ==
  /\ \A t \in Threads : pc[t] \notin {"idle", "exit", "crash"} => cmd[t] \in Commands
  /\ pc["runner"] \in {"idle", "query", "crash"} \cup ConfirmSteps
  /\ ~worker_running => pc["worker"] \in {"idle", "crash"}
  /\ pc["runner"] = "crash" <=> pc["worker"] = "crash"

\* The stage that a failing prepare-update restores is not a "started" one.
RestoresOwned ==
  pc["worker"] \in {"p_begin", "p_install", "p_end"} =>
    seen \notin {"READY_UPDATE_STARTED", "PREPARE_UPDATE_STARTED"}

StageInv == TypeOK /\ ThreadsOK /\ RestoresOwned /\ StageOwned

\* The command on the worker never outruns the sequence number recorded for its package.
SequenceInv ==
  cmd["worker"] # None => cmd["worker"].seq <= seq_in[cmd["worker"].pkg]

\* From the parse to the installation, update_file_info is the requested version.
TargetInv ==
  LET m == cmd["worker"]
  IN  pc["worker"] \in {"r_begin", "r_install"} /\ TargetVersion(m) \in m.listed
        => target = TargetVersion(m)

(***************************************************************************)
(* Commands of a package that carry sequence numbers take the worker in    *)
(* the order of those numbers and none of them twice, whatever the bus     *)
(* duplicates or reorders and whatever the runner drops in between.        *)
(***************************************************************************)
WorkerInOrder ==
  [][ LET old == cmd["worker"]
          new == cmd'["worker"]
      IN  (~worker_running /\ worker_running' /\ old # None)
            => (old.pkg = new.pkg /\ old.seq # 0 /\ new.seq # 0 => old.seq < new.seq) ]_vars

(***************************************************************************)
(* The device only ever changes on the package that the ready-update being *)
(* executed names and, if the command has a rollback version or its        *)
(* version is in its version-list, to the version it asks for.             *)
(* update_file_info outlives a failed command, so this depends on the      *)
(* paths of the parse that refresh it.  Of a version that is in neither    *)
(* manifest nor list the parse finds nothing and leaves update_file_info   *)
(* as an earlier command filled it: that may then be installed.            *)
(***************************************************************************)
InstallsRequested ==
  [][ \A p \in Pkgs : installed'[p] # installed[p] =>
        LET m == cmd["worker"]
        IN  m.pkg = p /\ (m.rb # None \/ m.version \in m.listed
                             => installed'[p] = TargetVersion(m)) ]_vars
=============================================================================
