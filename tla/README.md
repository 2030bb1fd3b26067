# esync-ua: TLA+ models, checks and proofs

libua is the library that an eSync update agent is built with. An agent registers, for
each component type it updates, a table of callbacks (`ua_routine_t`). The eSync client
on the vehicle, the DMC, sends it commands over a message bus; libua runs the callbacks
and reports `update-status`. This directory models the part of the library that decides
what is installed, when, and what is reported about it.

## The system

| part | state | operations | interacts with |
|---|---|---|---|
| message queue, runner thread (`handler.c`) | queue, `run`, mutex and condition variable of `runner_info_t` | `handle_message`, `runner_loop`, `ua_register`, `ua_unregister` | bus thread appends, runner takes, application stops it |
| command dispatch (`handler.c`) | last sequence number per package, `worker_running` | `process_message`, `process_run`, `worker_action` | runs handlers on the runner or on one detached worker thread |
| command handlers (`handler.c`, `component.c`) | `ua_component_context_t`: stage, prepared version and campaign per package, `update_pkg`, `update_file_info`, `retry_cnt`, `cleanup_ok_after_update`, rollback types | `process_prepare_update`, `process_ready_update` (worker), `process_confirm_update` (runner, or worker at the end of a ready-update), `process_query_package` | share the component context without a lock |
| update and rollback decisions (`updater.c`, `utils.c`) | none of its own | `update_start_install_operations`, `update_start_rollback_operations`, `update_send_rollback_intent`, `get_pkg_next_rollback_version`, `update_parse_json_ready_update` | called by the ready-update handler |
| permission to install (`handler.c`) | `update_status_info`: reply id, verdict, mutex, condition variable | `pre_update_action` (worker), `process_update_status` (runner) | DMC answers `INSTALL_IN_PROGRESS` |
| manifests and backup (`xml.c`, `handler.c`) | files in the backup directory, backup manifest and temp manifest (cache) per package, `backup_lock` | `add_pkg_file_manifest`, `get_pkg_file_manifest`, `handler_backup_actions`, `backup_package`, `ua_backup_package`, `remove_old_backup` | prepare and ready write, confirm cleans, the application may ask for a backup |
| resume after reboot (`updater.c`) | record file | `update_record_save`, `update_handle_resume_from_reboot`, `update_resume_from_reboot` | its thread acts as a second worker |
| sequence synchronisation (`handler.c`) | outgoing numbers, `seq_info_valid`, `query_reply_id` | `update_sequence_info`, `process_sequence_info`, `send_query_updates`, `process_query_updates` | the reply id is shared by two queries |
| registration tree (`handler.c`) | `ri_tree` | `query_hash_tree` | routes a type path to runners |
| UA download (`ua_download.c`) | download context and record | download, encrypt, verify, done | optional, `SUPPORT_UA_DOWNLOAD` |
| delta (`delta.c`, `delta_utils/`, `xml.c`, `misc.c`) | `delta_stg` (tool tables, capability), directories under cache/delta and cache/art | `delta_init`, `delta_stop`, `delta_reconstruct`, `delta_patch`, `espatch`, `xzdec` | `prepare_install_action` of every component's worker |
| bus client, JSON, files, hashes, diagnostics, sample agents, Python binding | | | input and output |

What is hard here: two threads on one unlocked context; a bus that repeats and delays; a
condition variable without a predicate; commands dropped silently (time-out, busy worker,
outdated number, skipped stage) that the DMC has to repeat; state of one command that
outlives it into the next; early returns between "started" and "done". `PROJECT.json`
lists these places as hazards, each with the properties that guard it or with the reason
why none does yet.

## The modules

* **Updater**: pure operators. `NextRollback` walks the rollback list as
  `get_pkg_next_rollback_version` does (first version if the current one is not in the
  list). `UpdateResult` and `RollbackResult` give, for a command, the packages at hand
  and the callbacks' answers, the install state, the *last* status sent, whether
  `on_install` ran and what is left of the temp manifest.
* **UpdateAgent** (extends Updater): one component. Each handler is a chain of steps, one
  for each access to what the other thread shares: `PrepareTest`, `PrepareBegin`,
  `PrepareInstall`, `PrepareEnd`; `ReadyParse`, `ReadyBegin`, `ReadyInstall`,
  `ReadyBackup`, `ReadyDone`, `ReadyFlag`, `ReadyUnflag`, `ReadyRelease`; `ConfirmTest`,
  `ConfirmSkip`, `ConfirmBegin`, `ConfirmClean`, `ConfirmEnd`, the last five on either
  thread. `pc` is the step, `cmd` the message of each thread. The runner may drop a
  message (waited too long, or outdated), give it to `on_message`, discard it (busy, or
  no thread), start the worker or execute the handler itself. Any command of `Commands`
  may arrive at any time. A prepare-update that compares a NULL campaign id ends the
  process (`pc = "crash"`).
* **Campaign** (extends UpdateAgent): the same agent with a DMC that follows the
  protocol. The DMC is not in the repository; it is taken from the message transcripts
  in `unit_tests/cases` and marked external. It repeats an unanswered command when the
  agent is quiet, and confirm-updates at will; it retries, follows the announced rollback
  version (with or without a new prepare-update) or abandons the version.
* **UpdateProtocol**: the abstract specification of a campaign, four variables, no
  threads, manifests or messages. Campaign implements it under the mapping `Protocol`.
* **StatusHandshake**: the request for permission, at the grain of what happens under the
  lock, with the match and the release of the reply id outside it as in the code.
* **RunnerQueue**: bus thread, runner and application at the grain of pthread calls.
  **MessageQueue** is the abstract queue it implements.
* **Resume** (extends Updater): one installation at a time and the restarts that interrupt
  it. `RecordSave`, `OnInstall`, `OnInstallReturns`, `RecordRemove`, `ReadyBackup` are the
  worker's writes to disk and device in their order; `Register` and `Presence` the start
  of the process; `ResumeBegin`, `ResumeReport`, `ResumeBackup`, `ResumeRemove`,
  `ResumeEnd` the resume thread. `Reboot` may come anywhere: memory is lost, the record
  may have been created but not written, a device in `on_install` may have changed or
  not. The statuses after a failure are those of Updater.
* **SequenceSync**: the outgoing sequence numbers. A thread per DMC connection
  (`SyncTest`, `SyncSend`), the worker's query-updates in two steps because it takes no
  lock (`QueryUpdatesTest`, `QueryUpdatesSend`), the runner (`SequenceInfo`,
  `QueryUpdates`), all on one `query_reply_id`.
* **Download**: `ua_download.c`. The worker's steps connect, receive (`RecvOffset`,
  `RecvData`, `RecvRecord`), copy, decrypt, verify, report; the files .x and .e and the
  record as they are on disk; the runner's `QueryTrust`, `DownloadPostponed`,
  `StopCompletedStatus` and `RemoveDirectory`; `Crash` between any two steps. `Resumed`,
  `RecAfterInit` and `XAfterInit` are what `ua_dl_init` makes of the disk.
* **Espatch**: `espatch.c` driving the external esdelta decoder, one run per worker:
  `EspOpen`, `EspCopy` (the old file becomes the one patched in place), `EspProcess` (a
  read from the patch, or a write of a block, either of which may fail), `EspCleanup`.
* **Delta** (extends Espatch): the reconstruction of packages from differences, one worker
  per component, all in one process. `DeltaInit` builds the tool tables and the announced
  capability; `Prepare` is `prepare_install_action` up to the choice of the path. Then one
  step for each command, library call and directory of `delta_reconstruct`: `MakeDirs`,
  `UnzipOld`, `UnzipDiff`, `ParseDiffManifest`, and for each entry `Unsquash`, then
  `Added`, `Unchanged`, `Removed` or one of the `Patch...` steps, `Consume` and
  `Repackage`; in the end `CopyManifest`, the package (`Chdir` and zip in the build that
  runs commands, libzip in the other), `Cleanup` and `Return`. The variable `shell` is the
  build. `DeltaStop` comes when no worker is at work,
  `Crash` between any two steps of any worker.
* **Backup**: the files and manifests behind the sets of versions that UpdateAgent sees.
  Every change to the disk is a step, may fail, and may be the last one before a restart.
  Three threads: the worker (`PrepareUpdate`, `ReadyUpdate`, resume), the runner
  (`ConfirmUpdate`, `ConfirmSkip`) and the application (`BackupCall`); the steps of
  `handler_backup_actions` (lock, look up, link or copy, add, write, unlock) are shared by
  worker and application, those of `remove_old_backup` by runner and worker.
* **MCUpdateAgent**, **MCCampaign**, **MCResume**, **MCDelta**: the constants TLC needs.
* **UpdateAgentProofs**, **StatusHandshakeProofs**, **RunnerQueueProofs**,
  **SequenceSyncProofs**, **DownloadProofs**, **ResumeProofs**, **DeltaProofs**,
  **BackupProofs**: the theorems.

### What is abstracted

A version, package or campaign id is a value; a manifest is the set of versions it has an
entry for ({} means that the file does not exist); files are either usable or not, by
choice. `on_pre_install` and `on_install` answer IN_PROGRESS, COMPLETED or FAILED;
`installed` is what `on_get_version` reports, and an agent that is handed no package file
cannot complete. A successful call of add_pkg_file_manifest writes the file. Only the last
status of a command is kept (`reply`): the DMC acts on the latest one. In Campaign the
messages carry no sequence number, which stands for a fresh number each on a bus that
keeps the order. In RunnerQueue, ua_unregister's unlock of a mutex it does not hold is
undefined in POSIX and modelled as what the default mutexes of the C library do. In
StatusHandshake, freeing the reply id while the other thread compares or frees it is one
atomic step. In Download a block is one call of dmc_recv_cb, the CRC of a file is the
list of blocks it covers (no collisions), ua_dl_init is one step, and a signature verifies
exactly a whole decrypted package once a CA has been loaded. In SequenceSync the reply ids
in use differ, and the DMC drops a status whose number is not greater than the last. In
Resume the rollback type a confirm-update should reset stays, as in Campaign, and there is
one resume thread; the theorem is therefore about one handler.

In Delta a hash is the content it was taken of (no collisions), and a content is a sequence
of blocks with a form (data, image, patch for a base, compressed). Directories belong to a
worker; the code names them after the base name of the package, so that two components
whose packages have the same base name would share them, which is left out. The patch,
decompression and squashfs programs do what their names say or fail.

In Backup a version has one package file name, the DMC keeps what it has downloaded,
`ua_intl.delta` and verification are on, on_transfer_file and on_prepare_install give no
other file, the version at the start came as a full package, a hard link may fail at any
time (then the file is copied), and reading a manifest and opening it for writing are one
step. Whether ua_rollback_control has disabled rollback is a choice at each installation.

## The runs

Passing:

* **update_agent** (`UpdateAgent.cfg`; 2,891,930 states). One package, three versions, nine
  commands (query, prepare with and without campaign id, ready for two updates, for a
  rollback and without version-list, both confirms), queue of one, in every order and
  number. `StageOwned`: READY_UPDATE_STARTED and PREPARE_UPDATE_STARTED belong to a
  handler still at work, so no early return can block the package. `WorkerInOrder`:
  commands with numbers take the worker in increasing order. `InstallsRequested`: the
  device changes only on the package that the command being executed names and, if the
  command has a rollback version or its version is in its version-list, only to what it
  asks for, although `update_file_info` outlives failed commands. For the other commands
  see updater.c:669 below.
* **campaign** (`Campaign.cfg`; 118,506 states). Two campaigns of one package, MaxRetry 1,
  rollback list of two versions (one to download, one in the backup or not).
  `DoNotDisturb`: while on_install may run, the stage says so, against confirm-updates on
  the other thread. `ReadyMeansPrepared`: READY is answered only with the version in the
  temp manifest. `RetryBudget`: no rollback version or terminal failure before max_retry
  requests for another try. `ImplementsProtocol`: refinement of UpdateProtocol.
  `CampaignEnds`: liveness.
* **status_handshake** (`StatusHandshake.cfg`; 358,578 states). Three requests, two
  answers on the way, spurious wake-ups. `AnswerDecides`: an answer to this request that
  has been stored is the one that decides.
* **runner_queue** (`RunnerQueue.cfg`; 5,240 states). Three messages and an unregister at
  any time. `QueueGuarded`, `ImplementsQueue`, `QueuedIsTaken`.

* **download** (`Download.cfg`; 282,990 states). Four blocks, two contents of the server,
  one of them without an e-tag (`Untagged`), two campaigns, three failures among network,
  range, disk, copy, decryption, postponement, new content, removed directory and crash.
  The cut of the .x file at the server's offset, the CRC and the save of the record are
  steps of their own, and the record file is emptied before it is written.
  `DownloadedIntact`: what goes to decryption has every block once and in order, all of
  one content, unless the download began with a content without e-tag, which the code
  continues with whatever the server has by then. `CompletedIntact`: what is reported is
  decrypted and verified. `KeepsProgress`: a crash costs at most the last block, except in
  two moments (see ua_download.c:394 below). `EventuallyCompleted`: the same campaign gets
  its package in the end, unless copying or decrypting fails. `WorkerReleased`: the worker
  stops reporting.
* **resume** (`Resume.cfg`; 56,646 states). An update with a rollback list of two, with and
  without sequence number, and one without list; two restarts. `StatusTruthful`:
  COMPLETED is sent exactly when the device has the version asked for.
  `RollbackMovesOn`: the walk through the list goes on over a restart.
  `RecordIsAnswered`: a record found at a start leads to a status, without the DMC asking
  again.
* **sequence_sync** (`SequenceSync.cfg`; 1,042,855 states). Two connections, two
  prepare-updates, queries that may be lost. `OneInfoKeepsOrder`: numbers from one
  sequence-info are always new to the DMC. `EventuallySynced`: the numbers are learned in
  the end, unless a query is lost or the DMC answers too late again and again.

* **delta** (`Delta.cfg`; 353,823 states). Two components. One of them prepares any of 17
  packages: every kind of entry, with and without compression, images, differences for
  another version, damaged or without a base, entries that share an old file in either
  order, full packages; the other a package with one file that espatch patches under a new
  name. One failing command or system call (removals of directories and reads of espatch
  included), one crash, two prepare-updates, both builds. `ReadyIsIntact`: a package
  reported ready has exactly the files that the differences promise, with their hashes.
  `AnnouncedSucceeds`: differences that use announced methods can be applied, when nothing
  fails. `ReconstructionEnds`: liveness, except for a file that espatch cannot read.
* **backup** (`Backup.cfg`; 3,336,114 states). Two versions, each full, delta or prepared,
  any number of commands, one failing write, one restart. `BackupKept`: a backup that was
  made can be restored until it is made anew, another version is confirmed or a write of
  the manifest fails. `OnlyConfirmedLeft`: the clean-up leaves nothing but the confirmed
  version, leftovers of earlier crashes included, unless the manifest cannot be read or
  written (xml.c:379 gives up). `CompletedIsBackedUp`: a version reported COMPLETED, from
  a package that is there to be copied, is restorable when its command or resume is over;
  only the worker's own backup, the last one of the command, settles this, and a failing
  write or a restart after the removal of the record ends the promise. The run has
  `Overlap` = FALSE and `Twice` = FALSE: the application does not call ua_backup_package
  for a package that the backup removes (it may back up any other at any time). The
  disagreements below say what happens otherwise.

Each of the following finds a disagreement between the code and what a comment or the
header says of it; `findings` in PROJECT.json quotes the lines.

* **update_agent_crash** / `NoCrash`: prepare-update without campaign id, then one with.
* **campaign_skipped_confirm** / `CleanupStandsForConfirm`: a confirm-update reads
  READY_UPDATE_STARTED, the worker finishes and tests the flag, the runner sets it; the
  next campaign's ready-update then cleans up although it failed.
* **status_handshake_stale** / `InstallApproved`: an answer stored after its time-out
  approves the next installation.

### Known disagreements without a run

The models contain these behaviours too. TLC shows each when the statement is added as a
property or the exception or assumption named here is dropped.

* handler.c:1409: confirming an abandoned version removes the backup of the version on the
  device, while xml.c:377 speaks of "Cleaning up backup after installing version".
* handler.c:1402: the rollback type that the agent set stays set after the
  confirm-update, against "When rollback-versions available, default is set to
  URB_DMC_INITIATED_WITH_UA_INTENT." (esyncua.h:585).
* handler.c:1266: `retry_cnt` belongs to the component, so that with two packages in Pkgs
  RetryBudget fails, against "UA will send INSTALL_FAILED "max_retry" times"
  (esyncua.h:356).
* handler.c:2752: after a failed decryption the .x file is left and `session_restart` is
  0: the campaign's start-downloads are skipped, "already processed it"
  (`FailedAfterTransfer` in EventuallyCompleted).
* updater.c:160: update_set_comp_context returns the result of its last, optional lookup,
  so that the record of a command without sequence number is discarded (`record.cmd.seq`
  in RecordIsAnswered).
* updater.c:669: of a version that is neither in the temp manifest nor in its version-list
  the parse finds nothing and leaves `update_file_info` as an earlier command filled it,
  which may then be installed (the condition in InstallsRequested).
* ua_download.c:394: the .x file is cut at a new offset before the record is saved (410),
  and the record is rewritten in place (489). A crash in between leaves a record that does
  not fit the file, or none, and ua_dl_init starts from 0 (the exceptions in
  KeepsProgress). ua_download.c:434: a content without an e-tag is continued with another
  one (`Untagged` in DownloadedIntact); the signature then fails.
* espatch.c:84 and 380: the result of read() is kept in a size_t, so that a failing read is
  taken for a huge block: the copy of the reference, and the loop over the patch, go on
  for ever while the file cannot be read (`looping` in ReconstructionEnds).
* delta.c:283 and 379, misc.c:175: the result of rmdirp is ignored or only logged. Working
  directories may stay, and a file left in the new directory is zipped with the others
  (`SilentFailures` = TRUE).
* updater.c:271: a restart between the removal of the record and the backup leaves an
  installed version without backup, against "libua performs the same backup automatically
  after successful installation." (esyncua.h:450).
* updater.c:499: a command that arrives before the resume thread has set `worker_running`
  runs beside it (excluded by the assumption in `Free`).
* handler.c:2391: a query that is lost leaves its reply id pending, and no other is sent
  (`lost` in EventuallySynced).
* handler.c:1566: a second sequence-info sets the numbers back to what the DMC had seen
  before the last statuses (`infos <= 1` in OneInfoKeepsOrder).
* handler.c:265: ua_unregister clears `run` and broadcasts without holding the lock; a
  runner between its test and its wait misses it and the join never returns
  (`UnregisterReturns` in RunnerQueue).
* handler.c:230: the first registration releases the bus thread, which looks for a record
  while the second component is not there yet; its record is discarded, against "Nothing
  can be done until handler has been registered." (handler.c:515; `Handlers <-
  TwoHandlers` in Resume.cfg refutes RecordIsAnswered).
* handler.c:1368: remove_old_backup takes no `backup_lock`. A confirm-update that the stage
  does not hold back (UNKNOWN after a restart, or before a ready-update has set it) then
  removes a backup that is being made, and a command that begins during ua_backup_package
  changes what it copies (`Overlap` = TRUE refutes all three properties of Backup), against
  esyncua.h:450.
* handler.c:2124: the flat hash of the new file is compared with the manifest's hash of
  hashes, so "Back up already exists" is never noticed. A second backup of a version first
  removes the file of the first (misc.c:574). With `backup_source` set the first one has
  unlinked the reconstructed package (handler.c:2153), so that link and copy find nothing:
  the version is listed, its file is gone, and nothing has failed. `Twice` = TRUE refutes
  CompletedIsBackedUp, even without failures and restarts: prepare-update of a delta
  package, ready-update up to the end of on_install, then ua_backup_package, then the
  automatic backup of the worker. This is against "libua performs the same backup
  automatically after successful installation." (esyncua.h:450). A repeated ready-update, a
  second resume after a restart and a later ua_backup_package do the same (the last returns
  E_UA_OK, against "E_UA_OK on success, E_UA_ERR on failure", esyncua.h:456); BackupKept
  ends at the beginning of a renewal, and CompletedIsBackedUp asks for a package that is
  there, for this reason.
* xml.c:488: the manifest is saved in place. One that a crash or a full disk has torn has
  lost its entries for good (`kept` becomes empty), and the clean-up gives up on it
  (xml.c:379).
* updater.c:146: the record restores READY_UPDATE_STARTED, so that a confirm-update during a
  resume is skipped and leaves `cleanup_ok_after_update`, which the resume does not look
  at: the clean-up waits for the end of a later ready-update.
* misc.c:378: zip changes the working directory of the process: two components that
  reconstruct at a time in the build with commands may pack each other's directory
  (`ConcurrentShell` = TRUE refutes ReadyIsIntact).
* misc.c:563: a failing fclose of a copy, and in the build with libzip a file below a
  subdirectory that could not be added, are not noticed (`SilentFailures` = TRUE refutes ReadyIsIntact).
* delta.c:344, xml.c:96, espatch.c:406: the old file of an entry is removed with the entry,
  even when it was not needed, so that a later entry that needs it fails; an option of
  mksquashfs of four to seven characters is cut; and a file that becomes empty keeps its
  old size (the exceptions in AnnouncedSucceeds). The first was noticed in proving
  AnnouncedSucceeds: it is not only entries with the same old file that both use it.

Some more were met in reading and lie outside the models' state:

* misc.c:205: a command killed by a signal passes for a success; misc.c:197: a child whose
  execvp fails returns and goes on as a second agent; espatch.c:293: a missing patch file
  leaves variables uninitialized.
* handler.c:1680: only E_UA_ERR of the reconstruction gives UE_INCREMENTAL_FAILED, other
  errors give a failure without it. A `delta_cap` from the configuration is announced
  without a test of the tools.
* xml.c:462: "Increment rollback-order for each version." (xml.c:463) is the `else` of a
  branch that every entry takes; the order stays 0.
* handler.c:2415: "1 = disable rollback, 0 = enable rollback" (esyncua.h:575), but disabling
  has no effect when the package has a record, and enabling deletes the whole record, with
  its custom message; the resume backs up a package whose rollback is disabled.
* handler.c:1301: a ready-update clears the custom message, which should stay "util user
  explicitly calls ua_clear_custom_message" (esyncua.h:628).
* handler.c:1075: download_required is read with the meaning opposite to that of
  esyncua.h:608.
* ua_download.c:782: the name and version that a
  running download is compared with are never set.
* handler.c:766 and handler.c:597: the table of outgoing numbers is changed without a lock,
  and handle_message uses a runner that ua_unregister may have freed; both need two
  components.

### Bounds

`MaxInbox` = 1 is enough for the handlers: the queue only delays messages, and RunnerQueue
checks the queue itself with three. Three versions tell the requested, the
installed and another one apart. Two campaigns are needed for state that leaks from
one into the next. `MaxAttempts` = 2 > MaxRetry = 1 lets the DMC outlast the retries.
Three requests let an answer be late by more than one. Four blocks let a cut at the
server's offset take away more than one of those recorded; three failures let a crash hit
the recovery from a failed recovery. Two restarts interrupt the resume of an interrupted
update. Four reply ids are more than can be in use at a time. In Delta one fault and one
crash let a restart meet what a failed reconstruction left, and a second prepare-update
meets what the first one left; in Backup two versions are the one to keep and the one to
remove. The proofs remove the bounds of Delta and Backup on faults, crashes and
commands. CHECK_DEADLOCK
is off except in Download, since an agent without commands, a closed last campaign, and an
unregistered component rightly stop.

### Fairness

Campaign: weak fairness for each thread (the operating system runs it, the callbacks
return), strong fairness for starting a handler (messages may be dropped, but not all of
them), weak fairness for the DMC's reactions and repetitions. RunnerQueue: weak fairness
for threads that can run, strong for taking the mutex; none for arriving messages or the
call of ua_unregister. Download: weak fairness for the worker, for start-download (the DMC
repeats it, for the same campaign) and for prepare-update after the completed report;
strong fairness for a reply to query-trust while the download that asked is running. The last is an assumption on the
DMC: verification does not wait for the reply, and with replies that always come too late
the package is downloaded and rejected for ever. Resume: weak fairness for the threads,
for registration and for the first presence of the DMC; none for the DMC's repetitions.
SequenceSync: weak fairness for the threads, the runner and the DMC. EventuallySynced
excepts a DMC that takes longer than the 5 seconds between two queries again and again
(`SlowAnswer`): a query and the answers to older ones can then chase each other for ever.
Delta: weak fairness for each worker's reconstruction, which waits for nothing but files and
commands; none for prepare-updates. Backup and StatusHandshake need none.

## The proofs

For all values of the constants that satisfy the named assumptions:

* **UpdateAgentProofs**. `StageInvariant`: StageInv = TypeOK /\ ThreadsOK /\ RestoresOwned
  /\ StageOwned is inductive. StageOwned is not by itself: a failing prepare-update
  restores the stage it read earlier (RestoresOwned: that one is never a "started" one),
  and nothing would stop a second worker (ThreadsOK). From it `TypeCorrect` and
  `NoStageLeftBehind`. `WorkerOrder` rests on SequenceInv, that the command on the worker
  never outruns the number recorded for its package. `RequestedInstalls` (for commands with a rollback version or with their version in
  version-list) rests on TargetInv, that from the parse to the installation
  update_file_info is the version asked for; lemmas on UpdateResult and RollbackResult say which version they act on.
* **UpdateAgentProofs**, the campaign. `CampaignInvariant`: none of Campaign's properties is
  inductive, because each of them leans on what the other side has under way. CampaignInv
  therefore follows a command from the DMC through the queue and the worker to the answer:
  at most one command of a package is under way (OneAsked); no confirm-update of an earlier
  campaign is left once a prepare-update has been taken (NoConfirm); no clean-up has got past its
  test while an installation runs (Undisturbed); the record of the prepared version says
  nothing about the version that the DMC is about to prepare, so that the short cut for a
  version already prepared is not taken (RecordOK); and answers are true of the manifest and the device
  (PreparedOK, AnswerOK, NotYet). From it `InstallUndisturbed`, `ReadyIsPrepared`,
  `NoCrashInCampaign`, and the refinement `CampaignImplements`: the phase, the
  version, the place in the rollback list and the installed version map to the variables of
  UpdateProtocol, and every step of an agent's thread to a step of it or to a stutter.
  `RetriesFirst` adds Tries: retry_cnt is ahead of the failures that the DMC has seen by
  at most the try under way, and update_err of an earlier command is never reported by a
  later one. It holds for a component of one package only: retry_cnt belongs to the
  component, and with two packages the tries of one use up the budget of the other.
  Assumed of the DMC: `CommandsAssumption` (Commands has the messages of a campaign) and
  `RollbackListAssumption` (a list names each version once and not the target, as in
  `unit_tests/cases`; get_pkg_next_rollback_version looks for the first match and would go
  round in a list that repeats a version).
* **StatusHandshakeProofs**. `HandshakeInvariant`, with AnswersAreLate (only requests that
  were made are answered) and AnswerIsFinal (a stored answer to the current request
  cannot be overwritten, since its reply id is gone). From it `AnswerDecidesInstall`.
* **RunnerQueueProofs**. QueueInv = RunnerTypeOK /\ LockHeld /\ TakesOne /\ QueueGuarded.
  LockHeld says who is inside holds the lock, as long as the component is registered.
  From it `QueueIsGuarded` and the refinement `QueueRefinement`.

* **SequenceSyncProofs**. SequenceInv = SequenceTypeOK /\ BeforeInfo /\ AfterInfo /\
  OneInfoKeepsOrder: until the first sequence-info no status carries a number and an answer
  on the way is still true; afterwards the numbers on the way are in order, above what the
  DMC has seen and not above the agent's own. From it `NumbersStayInOrder`.
* **DownloadProofs**. DownloadInv has eleven parts. The one that matters says that every
  record, on disk and in memory, is sound: its CRC covers the beginning of one content of
  the server (or, where that has no e-tag, of the package). The comparison of that CRC in ua_dl_init is then enough, whatever a crash has
  left in the .x file (Resumes), and the file grows only with blocks of that content
  (Covered, InRange, and AtCut between the cut at an offset and the save). From it `DownloadIsIntact`, `ReportIsIntact` and `ProgressIsKept`.
  `NoneAssumption`, that no CRC is None, is the only assumption added for it.
* **ResumeProofs**, for one handler (Len(Handlers) = 1). ResumeInv: at most one thread acts
  (OneThread), the context and the record are those of the command the DMC has asked for
  (ContextOfAsked, RecordOfAsked), the record is gone when a status is sent (RecordGone)
  and a failure in the record is one of the device (FailedMeansFailed). From it
  `StatusIsTruthful`. `RollbackGoesOn` adds what may be said of a failure (FailureReplies):
  the resume thread and the worker announce the same next version. It assumes rollback
  lists without repetitions (DistinctRollbacks).
* **DeltaProofs**. IInv: the new directory has what the first k entries of the list
  promise, except for the file at hand (Built, BuiltBut); the package has what the
  directory has; in the build with commands only one worker is active. From it
  `ReadyPackageIsIntact`, under ~SilentFailures and ~ConcurrentShell, for any number of
  workers, jobs, faults and crashes. `DeltaTypes` needs no assumption: TypeInv keeps a worker's place within the list that was read
  from its own package, and the context of espatch within delta_patch.
  `AnnouncedDifferencesApply` rests on a second invariant, SuccessInv, about a
  reconstruction in which nothing has failed (faults = 0). ToolsAnnounced: what was
  announced can be done. Known: the list is the one the server wrote. Serves: no entry has
  failed, the old files and differences that entries to come need are still there (Left),
  an image at hand is unpacked as the server had it, and espatch has written the beginning
  of the new image (EspGoes). That the list is worked off once, in order, and that names do
  not repeat, is why nothing is removed that is needed later; that Nat is well-founded gives
  the tool that add_delta_tool added last for a method. It assumes what the server promises
  (`ServerAssumption`, which TLC evaluates on the packages of the run), that None is no
  worker, ~ConcurrentShell, and that the application configures no capability and no tools
  but for esdiff and xz (DefaultMethods, as in the run): a capability of the application's
  own is announced unchecked (delta.c:61).
* **BackupProofs**, under ~Overlap. BackupInv = Control /\ Turns /\ Stored: who may be at
  which step with which values, that clean-up, command and backup exclude each other, and
  that what is counted as kept is on the disk and in the manifest or in the document about
  to be written. From it `BackupsAreKept` and `CleanupIsComplete`.
  `CompletedUpdateIsBackedUp` also assumes ~Twice and adds Owing: as long as a backup is
  owed, the worker is on its way to it and the package is still there (OwedSource), because
  what the application backs up meanwhile is another version or a package that its backup
  leaves in place (Spared).

Each of the eight modules also proves its type invariant.

Every invariant and every action property of the runs has its theorem. Only model-checked:
the liveness properties CampaignEnds, QueuedIsTaken, EventuallyCompleted, WorkerReleased,
RecordIsAnswered, EventuallySynced and ReconstructionEnds (fairness and ENABLED are out of
the prover's reach).

## Plan

Done: the core, the campaign, resume after reboot, sequence synchronisation, download,
delta reconstruction and the backup, with their proofs. Left, in this order:

1. **HandlerTree**: query_hash_tree against a reference definition over bounded paths.
2. Two components at once: the shared `ua_dlc`, the table of outgoing numbers, and the
   runner freed by ua_unregister under handle_message.
3. The records of ua_rollback_control and the contents of the query-package answer.

## Not modelled

The bus client, diagnostics, sample agents, tools and the Python binding are input and
output without decisions of their own; of the file, archive and hash helpers only what the
reconstruction and the backup use is modelled. Of espatch the options that `espatch()`
fixes to false (scratch file, power interruption, fuzzing) are left out, and the esdelta
decoder and the squashfs tools are external. ready-download and download-report are a
callback and a status. The registration tree is planned. Memory management (leaks, use of
freed runners) is left out except where a freed pointer decides what happens next
(`DanglingName`).
