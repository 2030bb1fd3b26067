---------------------------- MODULE ResumeProofs ----------------------------
(***************************************************************************)
(* Proofs about Resume, for every set of versions and commands, and any    *)
(* number of attempts and reboots, with one registered component type.     *)
(***************************************************************************)
EXTENDS Resume, TLAPS

\* The resume thread and the worker are never both at work, and nothing is registered
\* once the process has started.
OneThread ==
  /\ state # "INITIALIZED" => registered = Len(Handlers)
  /\ worker # "idle" => state = "RESUME_DONE" /\ worker_running
  /\ resume # "none" => state = "RESUME_STARTED"

\* The context of a thread at work, and the record, belong to the last command.
ContextOfAsked ==
  worker # "idle" \/ resume # "none" =>
    asked \in Commands /\ context = [cmd |-> asked, target |-> TargetOf(asked)]

RecordOfAsked ==
  record \notin {None, Torn} =>
    asked \in Commands /\ record.cmd = asked /\ record.target = TargetOf(asked)

\* Outside an installation there is no record, so that a new command cannot be mistaken
\* for the recorded one.
RecordGone ==
  /\ state = "RESUME_DONE" /\ worker \notin {"install", "return", "remove"} => record = None
  /\ resume = "end" => record = None

FailedMeansFailed == worker = "failed" => installed # context.target

ResumeInv ==
  ResumeTypeOK /\ OneThread /\ ContextOfAsked /\ RecordOfAsked /\ RecordGone /\ FailedMeansFailed

\* What a failure is reported with.
FailureType == [st : {"FAILED", "ROLLBACK"}, rb : Versions \cup {None}, term : BOOLEAN]

-----------------------------------------------------------------------------
\* The next rollback version, if there is one, comes from the list.
LEMMA NextRollbackType ==
  ASSUME NEW list \in Seq(Versions) \cup {None}, NEW cur
  PROVE  NextRollback(list, cur) \in Versions \cup {None}
<1>1. CASE list = None \/ cur = None
  BY <1>1 DEF NextRollback
<1>2. CASE ~(list = None \/ cur = None)
  <2>1. list \in Seq(Versions)
    BY <1>2
  <2>2. \A i \in DOMAIN list : list[i] \in Versions
    BY <2>1
  <2> QED BY <1>2, <2>2 DEF NextRollback
<1> QED BY <1>1, <1>2

\* The fields of a command.
LEMMA CommandFields ==
  ASSUME NEW m \in Commands
  PROVE  /\ m.version \in Versions /\ m.rb \in Versions \cup {None}
         /\ m.rbs \in Seq(Versions) \cup {None} /\ TargetOf(m) \in Versions
BY ResumeAssumption DEF Command, TargetOf

\* A failure or a rollback is no success.
LEMMA FailureTyped ==
  ASSUME NEW st \in {"FAILED", "ROLLBACK"}, NEW rb \in Versions \cup {None}, NEW term \in BOOLEAN
  PROVE  Status(st, rb, term) \in FailureType
BY DEF Status, FailureType

\* The announcement of a rollback version is one.
LEMMA IntentTyped ==
  ASSUME NEW t \in RollbackTypes, NEW next \in Versions \cup {None}
  PROVE  RollbackIntent(t, next) \in FailureType \cup {None}
<1>1. \/ RollbackIntent(t, next) = None
      \/ RollbackIntent(t, next) = Status("FAILED", None, FALSE)
      \/ RollbackIntent(t, next) = Status("FAILED", next, FALSE)
      \/ RollbackIntent(t, next) = Status("ROLLBACK", next, FALSE)
  BY DEF RollbackIntent
<1> QED BY <1>1, FailureTyped

\* What may be said of a failure of command m: the version that failed, or the one that
\* comes after it.
FailureReplies(m) ==
  {None, Status("FAILED", None, FALSE), Status("FAILED", None, TRUE), Status("FAILED", m.rb, TRUE),
   RollbackIntent(rb_type, NextRollback(m.rbs, TargetOf(m)))}
  \cup (IF m.rbs = None THEN {Status("FAILED", m.rb, FALSE)} ELSE {})

\* All of it is a failure.
LEMMA FailureRepliesTyped ==
  ASSUME NEW m \in Commands, rb_type \in RollbackTypes
  PROVE  FailureReplies(m) \subseteq FailureType \cup {None}
<1>1. m.rb \in Versions \cup {None} /\ m.rbs \in Seq(Versions) \cup {None}
  BY CommandFields
<1>2. NextRollback(m.rbs, TargetOf(m)) \in Versions \cup {None}
  BY <1>1, NextRollbackType
<1>3. RollbackIntent(rb_type, NextRollback(m.rbs, TargetOf(m))) \in FailureType \cup {None}
  BY <1>2, IntentTyped
<1>4. /\ Status("FAILED", None, FALSE) \in FailureType
      /\ Status("FAILED", None, TRUE) \in FailureType
      /\ Status("FAILED", m.rb, FALSE) \in FailureType
      /\ Status("FAILED", m.rb, TRUE) \in FailureType
  BY <1>1, FailureTyped
<1> QED BY <1>3, <1>4 DEF FailureReplies

\* process_ready_update after a failed or refused installation sends one of these.
LEMMA FailureReplyOneOf ==
  ASSUME ResumeInv, worker = "failed"
  PROVE  FailureReply \in FailureReplies(asked)
<1> DEFINE m == asked
           a == [approved |-> approved, installs |-> FALSE, prepares |-> TRUE, delta |-> FALSE,
                 rb_type |-> rb_type]
           t == TargetOf(asked)
<1>1. m \in Commands /\ context.cmd = m /\ context.target = t /\ installed # t
  BY DEF ResumeInv, ContextOfAsked, FailedMeansFailed
<1>2. a.rb_type = rb_type /\ a.installs = FALSE
  OBVIOUS
<1>3. CASE m.rb = None
  <2> DEFINE i == InstallOperations(m, t, installed, a)
  <2>1. t = m.version
    BY <1>3 DEF TargetOf
  <2>2. i.sts = "FAILED" /\ i.reply \in {None, IF m.rbs # None THEN None ELSE Status("FAILED", m.rb, FALSE)}
    BY <1>1, <1>2, <2>1 DEF InstallOperations
  <2> DEFINE n == NextRollback(m.rbs, t)
             rbt == IF i.ran THEN a.rb_type ELSE rb_type
             u == UpdateResult(m, t, installed, {}, rb_type, retry_cnt, a)
  <2>3. FailureReply = u.reply
    BY <1>1, <1>3 DEF FailureReply
  <2>4. rbt = rb_type
    BY <1>2
  <2> HIDE DEF a
  <2>5. u \in {Result("FAILED", Status("FAILED", None, FALSE), i.ran, t, {}),
               Result("FAILED", i.reply, i.ran, t, {}),
               Result("ROLLBACK", RollbackIntent(rbt, n), i.ran, t, {}),
               Result("FAILED", Status("FAILED", None, TRUE), i.ran, t, {})}
    BY <2>2, Zenon DEF UpdateResult
  <2> HIDE DEF i, n, rbt, u
  <2>6. u.reply \in {Status("FAILED", None, FALSE), i.reply, RollbackIntent(rbt, n),
                     Status("FAILED", None, TRUE)}
    <3>1. /\ Result("FAILED", Status("FAILED", None, FALSE), i.ran, t, {}).reply = Status("FAILED", None, FALSE)
          /\ Result("FAILED", i.reply, i.ran, t, {}).reply = i.reply
          /\ Result("ROLLBACK", RollbackIntent(rbt, n), i.ran, t, {}).reply = RollbackIntent(rbt, n)
          /\ Result("FAILED", Status("FAILED", None, TRUE), i.ran, t, {}).reply = Status("FAILED", None, TRUE)
      BY DEF Result
    <3> QED BY <2>5, <3>1, Zenon
  <2>7. RollbackIntent(rbt, n) = RollbackIntent(rb_type, NextRollback(m.rbs, TargetOf(m)))
    BY <2>4 DEF n
  <2> QED BY <2>2, <2>3, <2>6, <2>7 DEF FailureReplies
<1>4. CASE m.rb # None
  <2> DEFINE u == RollbackResult(m, installed, {}, backup, rb_type, a)
             i == InstallOperations(m, m.rb, installed, a)
             found == RollbackPackage(m, backup)
             ready == found /\ a.prepares
             ran == ready /\ ~a.delta /\ i.ran
             rbt == IF ran THEN a.rb_type ELSE rb_type
             n == IF found /\ a.delta THEN None ELSE NextRollback(m.rbs, m.rb)
             f == IF rbt = "URB_DMC_INITIATED_NO_UA_INTENT" THEN Status("FAILED", None, FALSE)
                  ELSE Status("FAILED", m.rb, TRUE)
  <2>1. t = m.rb /\ FailureReply = u.reply
    BY <1>1, <1>4 DEF TargetOf, FailureReply
  <2>2. i.sts = "FAILED"
    BY <1>2, <1>4 DEF InstallOperations
  <2>3. rbt = rb_type /\ n = NextRollback(m.rbs, m.rb)
    BY <1>2
  <2> HIDE DEF a
  <2>4. u \in {Result("ROLLBACK", RollbackIntent(rbt, n), ran, m.rb, {}),
               Result("FAILED", f, ran, m.rb, {})}
    BY <1>1, <2>1, <2>2, Zenon DEF RollbackResult
  <2> HIDE DEF u, i, ran, ready, found, n, rbt
  <2>5. u.reply \in {RollbackIntent(rbt, n), f}
    <3> HIDE DEF f
    <3>1. /\ Result("ROLLBACK", RollbackIntent(rbt, n), ran, m.rb, {}).reply = RollbackIntent(rbt, n)
          /\ Result("FAILED", f, ran, m.rb, {}).reply = f
      BY DEF Result
    <3> QED BY <2>4, <3>1, Zenon
  <2>6. RollbackIntent(rbt, n) = RollbackIntent(rb_type, NextRollback(m.rbs, TargetOf(m)))
    BY <2>1, <2>3
  <2> QED BY <2>1, <2>5, <2>6 DEF FailureReplies
<1> QED BY <1>3, <1>4

\* So does update_resume_from_reboot.
LEMMA ResumeFailureOneOf ==
  ASSUME ResumeInv, resume = "report"
  PROVE  ResumeFailure \in FailureReplies(asked)
<1> DEFINE m == context.cmd
           next == NextRollback(m.rbs, context.target)
<1>1. m = asked /\ context.target = TargetOf(asked)
  BY DEF ResumeInv, ContextOfAsked
<1>2. ResumeFailure \in {Status("FAILED", None, FALSE), RollbackIntent(rb_type, next),
                         Status("FAILED", m.rb, TRUE)}
  <2> HIDE DEF next
  <2> QED BY DEF ResumeFailure, next
<1> HIDE DEF next
<1>3. RollbackIntent(rb_type, next) = RollbackIntent(rb_type, NextRollback(asked.rbs, TargetOf(asked)))
  BY <1>1 DEF next
<1> QED BY <1>1, <1>2, <1>3 DEF FailureReplies

\* Both report a failure, or nothing: the worker.
LEMMA FailureReplyTyped ==
  ASSUME ResumeInv, worker = "failed"
  PROVE  FailureReply \in FailureType \cup {None}
<1>1. asked \in Commands /\ rb_type \in RollbackTypes
  BY DEF ResumeInv, ContextOfAsked, ResumeTypeOK
<1> QED BY <1>1, FailureReplyOneOf, FailureRepliesTyped

\* The resume thread.
LEMMA ResumeFailureTyped ==
  ASSUME ResumeInv, resume = "report"
  PROVE  ResumeFailure \in FailureType \cup {None}
<1>1. asked \in Commands /\ rb_type \in RollbackTypes
  BY DEF ResumeInv, ContextOfAsked, ResumeTypeOK
<1> QED BY <1>1, ResumeFailureOneOf, FailureRepliesTyped

\* A failure is a status, and says that the version is not on the device.
LEMMA FailureIsStatus ==
  ASSUME NEW s \in FailureType
  PROVE  s \in StatusType /\ s.st # "COMPLETED"
BY DEF FailureType, StatusType

\* So is the report of a success.
LEMMA CompletedTyped ==
  ASSUME NEW rb \in Versions \cup {None}
  PROVE  /\ Status("COMPLETED", rb, FALSE) \in StatusType
         /\ Status("COMPLETED", rb, FALSE).st = "COMPLETED"
BY DEF Status, StatusType

-----------------------------------------------------------------------------
\* The initial state satisfies the invariant.
LEMMA ResumeStart ==
  ASSUME ResumeInit
  PROVE  ResumeInv
<1> USE ResumeAssumption DEF ResumeInit
<1>1. ResumeTypeOK
  <2>1. worker_running \in BOOLEAN /\ approved \in BOOLEAN
    OBVIOUS
  <2>2. registered \in 0 .. Len(Handlers) /\ retry_cnt \in 0 .. MaxAttempts /\ reboots \in 0 .. MaxReboots
    OBVIOUS
  <2>3. rb_type \in RollbackTypes /\ backup \subseteq Versions
    BY DEF RollbackTypes
  <2> QED BY <2>1, <2>2, <2>3 DEF ResumeTypeOK
<1>2. OneThread /\ ContextOfAsked /\ RecordOfAsked /\ RecordGone /\ FailedMeansFailed
  BY DEF OneThread, ContextOfAsked, RecordOfAsked, RecordGone, FailedMeansFailed
<1> QED BY <1>1, <1>2 DEF ResumeInv

\* What the steps of the two threads use.
LEMMA AtWork ==
  ASSUME ResumeInv, worker # "idle" \/ resume # "none"
  PROVE  /\ ResumeTypeOK /\ asked \in Commands /\ context \in Context
         /\ context.cmd = asked /\ context.target = TargetOf(asked)
         /\ context.target \in Versions /\ context.cmd.rb \in Versions \cup {None}
         /\ context.cmd.rbs \in Seq(Versions) \cup {None}
         /\ worker # "idle" => state = "RESUME_DONE" /\ worker_running /\ resume = "none"
         /\ resume # "none" => state = "RESUME_STARTED" /\ worker = "idle"
BY CommandFields DEF ResumeInv, ResumeTypeOK, ContextOfAsked, OneThread

\* A step of the worker that stays at work and writes nothing but its place, the status
\* and the rollback type.
LEMMA WorkerGoesOn ==
  ASSUME ResumeInv, ResumeTypeOK', worker # "idle",
         worker' # "idle", record' = record \/ record' = None,
         UNCHANGED <<state, registered, context, worker_running, resume, asked>>,
         worker' \notin {"install", "return", "remove"} => record' = None,
         worker' = "failed" => installed' # context.target
  PROVE  ResumeInv'
BY DEF ResumeInv, OneThread, ContextOfAsked, RecordOfAsked, RecordGone, FailedMeansFailed, TargetOf

\* The worker.
LEMMA WorkerKeeps ==
  ASSUME ResumeInv, WorkerStep
  PROVE  ResumeInv'
<1> USE DEF disk, process, component, dmc
<1>1. worker # "idle"
  BY DEF WorkerStep, SameVersion, PreUpdate, RecordSave, OnInstall, OnInstallReturns, RecordRemove,
         ReadyFailed, ReadyBackup, ReadyEnd
<1>2. /\ ResumeTypeOK /\ asked \in Commands /\ context \in Context
      /\ context.cmd = asked /\ context.target = TargetOf(asked)
      /\ context.target \in Versions /\ context.cmd.rb \in Versions \cup {None}
      /\ state = "RESUME_DONE" /\ worker_running /\ resume = "none"
  BY <1>1, AtWork
<1>3. worker \notin {"install", "return", "remove"} => record = None
  BY <1>2 DEF ResumeInv, RecordGone
<1>4. CASE SameVersion
  <2>1. reply' \in StatusType
    BY <1>2, <1>4, CompletedTyped DEF SameVersion, Send
  <2>2. ResumeTypeOK'
    BY <1>2, <1>4, <2>1 DEF SameVersion, ResumeTypeOK
  <2> QED BY <1>1, <1>3, <1>4, <2>2, WorkerGoesOn DEF SameVersion
<1>5. CASE PreUpdate
  <2>1. ResumeTypeOK'
    BY <1>2, <1>5 DEF PreUpdate, ResumeTypeOK
  <2> QED BY <1>1, <1>3, <1>5, <2>1, WorkerGoesOn DEF PreUpdate
<1>6. CASE RecordSave
  <2>1. /\ record' = RecordOf /\ worker' \in {"install", "remove"}
        /\ UNCHANGED <<installed, backup, state, registered, context, rb_type, retry_cnt,
                       worker_running, approved, resume, asked, reply, reboots>>
    BY <1>6 DEF RecordSave
  <2>2. RecordOf \in Record /\ RecordOf.cmd = asked /\ RecordOf.target = TargetOf(asked)
    BY <1>2 DEF RecordOf, Record, ResumeTypeOK
  <2>3. ResumeTypeOK'
    BY <1>2, <2>1, <2>2 DEF ResumeTypeOK
  <2>4. OneThread' /\ ContextOfAsked' /\ RecordGone' /\ FailedMeansFailed'
    BY <1>1, <2>1 DEF ResumeInv, OneThread, ContextOfAsked, RecordGone, FailedMeansFailed, TargetOf
  <2>5. RecordOfAsked'
    BY <1>2, <2>1, <2>2 DEF RecordOfAsked, TargetOf
  <2> QED BY <2>3, <2>4, <2>5 DEF ResumeInv
<1>7. CASE OnInstall
  <2>1. rb_type' \in RollbackTypes
    BY <1>2, <1>7, ResumeAssumption DEF OnInstall, ResumeTypeOK
  <2>2. ResumeTypeOK'
    BY <1>2, <1>7, <2>1 DEF OnInstall, ResumeTypeOK
  <2> QED BY <1>1, <1>7, <2>2, WorkerGoesOn DEF OnInstall
<1>8. CASE OnInstallReturns
  <2>1. reply' = reply \/ reply' \in StatusType
    BY <1>2, <1>8, CompletedTyped, FailureTyped, FailureIsStatus DEF OnInstallReturns, Send
  <2>2. ResumeTypeOK'
    BY <1>2, <1>8, <2>1 DEF OnInstallReturns, ResumeTypeOK
  <2> QED BY <1>1, <1>8, <2>2, WorkerGoesOn DEF OnInstallReturns
<1>9. CASE RecordRemove
  <2>1. ResumeTypeOK'
    BY <1>2, <1>9 DEF RecordRemove, ResumeTypeOK
  <2> QED BY <1>1, <1>9, <2>1, WorkerGoesOn DEF RecordRemove
<1>10. CASE ReadyFailed
  <2>1. FailureReply \in FailureType \cup {None}
    BY <1>10, FailureReplyTyped DEF ReadyFailed
  <2>2. reply' = reply \/ reply' \in StatusType
    BY <1>10, <2>1, FailureIsStatus DEF ReadyFailed, Send
  <2>3. ResumeTypeOK'
    BY <1>2, <1>10, <2>2 DEF ReadyFailed, ResumeTypeOK
  <2> QED BY <1>1, <1>3, <1>10, <2>3, WorkerGoesOn DEF ReadyFailed
<1>11. CASE ReadyBackup
  <2>1. ResumeTypeOK'
    BY <1>2, <1>11 DEF ReadyBackup, ResumeTypeOK
  <2> QED BY <1>1, <1>3, <1>11, <2>1, WorkerGoesOn DEF ReadyBackup
<1>12. CASE ReadyEnd
  <2>1. /\ record = None /\ context' = None /\ worker_running' = FALSE /\ worker' = "idle"
        /\ UNCHANGED <<installed, record, backup, state, registered, rb_type, retry_cnt,
                       approved, resume, asked, reply, reboots>>
    BY <1>3, <1>12 DEF ReadyEnd
  <2>2. ResumeTypeOK'
    <3>1. worker_running' \in BOOLEAN
      BY <2>1
    <3> QED BY <1>2, <2>1, <3>1 DEF ResumeTypeOK
  <2> QED BY <1>2, <2>1, <2>2 DEF ResumeInv, OneThread, ContextOfAsked, RecordOfAsked, RecordGone,
                                  FailedMeansFailed
<1> QED BY <1>4, <1>5, <1>6, <1>7, <1>8, <1>9, <1>10, <1>11, <1>12 DEF WorkerStep

\* The resume thread.
LEMMA ResumeKeeps ==
  ASSUME ResumeInv, ResumeStep
  PROVE  ResumeInv'
<1> USE DEF disk, process, component, dmc
<1>1. resume # "none"
  BY DEF ResumeStep, ResumeBegin, ResumeReport, ResumeBackup, ResumeRemove, ResumeEnd
<1>2. /\ ResumeTypeOK /\ asked \in Commands /\ context \in Context
      /\ context.cmd = asked /\ context.target = TargetOf(asked)
      /\ context.target \in Versions /\ context.cmd.rb \in Versions \cup {None}
      /\ state = "RESUME_STARTED" /\ worker = "idle"
  BY <1>1, AtWork
<1>3. ASSUME ResumeTypeOK', resume' # "none", record' = record \/ record' = None,
             resume' = "end" => record' = None,
             UNCHANGED <<state, registered, context, worker, asked>>
      PROVE  ResumeInv'
  BY <1>1, <1>2, <1>3 DEF ResumeInv, OneThread, ContextOfAsked, RecordOfAsked, RecordGone,
                          FailedMeansFailed, TargetOf
<1>4. CASE ResumeBegin
  <2>1. worker_running' \in BOOLEAN
    BY <1>4 DEF ResumeBegin
  <2>2. ResumeTypeOK'
    BY <1>2, <1>4, <2>1 DEF ResumeBegin, ResumeTypeOK
  <2> QED BY <1>3, <1>4, <2>2 DEF ResumeBegin
<1>5. CASE ResumeReport
  <2>1. ResumeFailure \in FailureType \cup {None}
    BY <1>5, ResumeFailureTyped DEF ResumeReport
  <2>2. reply' = None \/ reply' \in StatusType
    BY <1>2, <1>5, <2>1, CompletedTyped, FailureIsStatus DEF ResumeReport, Send
  <2>3. ResumeTypeOK'
    BY <1>2, <1>5, <2>2 DEF ResumeReport, ResumeTypeOK
  <2> QED BY <1>3, <1>5, <2>3 DEF ResumeReport
<1>6. CASE ResumeBackup
  <2>1. ResumeTypeOK'
    BY <1>2, <1>6 DEF ResumeBackup, ResumeTypeOK
  <2> QED BY <1>3, <1>6, <2>1 DEF ResumeBackup
<1>7. CASE ResumeRemove
  <2>1. ResumeTypeOK'
    BY <1>2, <1>7 DEF ResumeRemove, ResumeTypeOK
  <2> QED BY <1>3, <1>7, <2>1 DEF ResumeRemove
<1>8. CASE ResumeEnd
  <2>1. /\ record = None /\ context' = None /\ state' = "RESUME_DONE" /\ worker_running' = FALSE
        /\ resume' = "none"
        /\ UNCHANGED <<installed, record, backup, registered, rb_type, retry_cnt, worker, approved,
                       asked, reply, reboots>>
    BY <1>8 DEF ResumeEnd, ResumeInv, RecordGone
  <2>2. ResumeTypeOK'
    <3>1. worker_running' \in BOOLEAN
      BY <2>1
    <3> QED BY <1>2, <2>1, <3>1 DEF ResumeTypeOK
  <2> QED BY <1>2, <2>1, <2>2 DEF ResumeInv, OneThread, ContextOfAsked, RecordOfAsked, RecordGone,
                                  FailedMeansFailed
<1> QED BY <1>4, <1>5, <1>6, <1>7, <1>8 DEF ResumeStep

-----------------------------------------------------------------------------
\* The start of the process, the commands of the DMC and a restart.
LEMMA ProcessKeeps ==
  ASSUME ResumeInv, Len(Handlers) = 1,
         Register \/ Presence \/ (\E m \in Commands : ReadyUpdate(m)) \/ ConfirmUpdate \/ Reboot
  PROVE  ResumeInv'
<1> USE ResumeAssumption DEF disk, process, component, threads, dmc
<1>1. ResumeTypeOK
  BY DEF ResumeInv
<1>2. CASE Register
  <2>1. /\ registered' = registered + 1 /\ registered < 1 /\ state' = "HANDLER_REGISTERED"
        /\ UNCHANGED <<installed, record, backup, context, rb_type, retry_cnt, worker_running,
                       worker, approved, resume, asked, reply, reboots>>
    BY <1>2 DEF Register
  <2>2. state = "INITIALIZED" /\ registered' = 1
    BY <1>1, <2>1 DEF ResumeInv, OneThread, ResumeTypeOK
  <2>3. worker = "idle" /\ resume = "none"
    BY <2>2 DEF ResumeInv, OneThread
  <2>4. ResumeTypeOK'
    BY <1>1, <2>1, <2>2 DEF ResumeTypeOK
  <2> QED BY <2>1, <2>2, <2>3, <2>4 DEF ResumeInv, OneThread, ContextOfAsked, RecordOfAsked,
                                        RecordGone, FailedMeansFailed, TargetOf
<1>3. CASE Presence
  <2>1. /\ state = "HANDLER_REGISTERED"
        /\ UNCHANGED <<installed, backup, registered, worker_running, worker, approved, asked,
                       reply, reboots>>
    BY <1>3 DEF Presence
  <2>2. worker = "idle" /\ resume = "none" /\ registered = Len(Handlers)
    BY <2>1 DEF ResumeInv, OneThread
  <2> DEFINE found == record \notin {None, Torn} /\ Registered(Type)
  <2>3. found => /\ record \in Record /\ asked \in Commands
                 /\ record.cmd = asked /\ record.target = TargetOf(asked)
    BY <1>1 DEF ResumeInv, RecordOfAsked, ResumeTypeOK
  <2>4. /\ found => /\ context' = [cmd |-> record.cmd, target |-> record.target]
                    /\ rb_type' = record.rb_type /\ retry_cnt' = record.retry_cnt
        /\ ~found => UNCHANGED <<context, rb_type, retry_cnt>>
        /\ \/ found /\ state' = "RESUME_STARTED" /\ resume' = "started" /\ UNCHANGED record
           \/ state' = "RESUME_DONE" /\ record' = None /\ UNCHANGED resume
    BY <1>3 DEF Presence, SetContext
  <2> HIDE DEF found
  <2>5. found => /\ context' \in Context /\ rb_type' \in RollbackTypes /\ retry_cnt' \in 0 .. MaxAttempts
                 /\ context' = [cmd |-> asked, target |-> TargetOf(asked)]
    BY <2>3, <2>4 DEF Record, Context
  <2>6. ResumeTypeOK'
    <3>1. /\ context' = None \/ context' \in Context
          /\ rb_type' \in RollbackTypes /\ retry_cnt' \in 0 .. MaxAttempts
      BY <1>1, <2>4, <2>5 DEF ResumeTypeOK
    <3>2. resume' # "none" => context' \in Context
      BY <2>2, <2>4, <2>5
    <3> QED BY <1>1, <2>1, <2>2, <2>4, <3>1, <3>2 DEF ResumeTypeOK
  <2>7. ContextOfAsked' /\ RecordOfAsked'
    BY <2>1, <2>2, <2>3, <2>4, <2>5 DEF ResumeInv, ContextOfAsked, RecordOfAsked, TargetOf
  <2> QED BY <2>1, <2>2, <2>4, <2>6, <2>7 DEF ResumeInv, OneThread, RecordGone, FailedMeansFailed
<1>4. ASSUME NEW m \in Commands, ReadyUpdate(m) PROVE ResumeInv'
  <2>1. /\ registered = Len(Handlers) /\ state = "RESUME_DONE" /\ ~worker_running
        /\ m.rb = None => retry_cnt < MaxAttempts
        /\ asked' = m /\ reply' = None /\ worker_running' = TRUE /\ worker' = "test"
        /\ context' = [cmd |-> m, target |-> TargetOf(m)]
        /\ rb_type' = DefaultType(m, rb_type)
        /\ retry_cnt' = (IF m.rb = None THEN retry_cnt + 1 ELSE retry_cnt)
        /\ UNCHANGED <<installed, record, backup, state, registered, approved, resume, reboots>>
    BY <1>4 DEF ReadyUpdate, Free
  <2>2. worker = "idle" /\ resume = "none" /\ record = None
    BY <2>1 DEF ResumeInv, OneThread, RecordGone
  <2>3. rb_type' \in RollbackTypes
    BY <1>1, <2>1 DEF DefaultType, ResumeTypeOK, RollbackTypes
  <2>4. retry_cnt' \in 0 .. MaxAttempts
    BY <1>1, <2>1 DEF ResumeTypeOK
  <2>5. context' \in Context
    BY <2>1, CommandFields DEF Context
  <2>6. ResumeTypeOK'
    <3>1. worker_running' \in BOOLEAN
      BY <2>1
    <3> QED BY <1>1, <2>1, <2>2, <2>3, <2>4, <2>5, <3>1 DEF ResumeTypeOK
  <2>7. ContextOfAsked'
    BY <2>1 DEF ContextOfAsked, TargetOf
  <2> QED BY <2>1, <2>2, <2>6, <2>7 DEF ResumeInv, OneThread, RecordOfAsked, RecordGone, FailedMeansFailed
<1>5. CASE ConfirmUpdate
  <2>1. /\ retry_cnt' = 0 /\ state = "RESUME_DONE" /\ ~worker_running
        /\ backup' \in {backup, RemoveOldBackup(backup, TargetOf(asked))}
        /\ UNCHANGED <<installed, record, state, registered, context, rb_type, worker_running,
                       worker, approved, resume, asked, reply, reboots>>
    BY <1>5 DEF ConfirmUpdate, Free
  <2>2. backup' \subseteq Versions
    BY <1>1, <2>1 DEF RemoveOldBackup, ResumeTypeOK
  <2>3. ResumeTypeOK'
    BY <1>1, <2>1, <2>2 DEF ResumeTypeOK
  <2> QED BY <2>1, <2>3 DEF ResumeInv, OneThread, ContextOfAsked, RecordOfAsked, RecordGone,
                            FailedMeansFailed, TargetOf
<1>6. CASE Reboot
  <2>1. /\ reboots < MaxReboots /\ reboots' = reboots + 1
        /\ state' = "INITIALIZED" /\ registered' = 0 /\ context' = None /\ rb_type' = "URB_NONE"
        /\ retry_cnt' = 0 /\ worker_running' = FALSE /\ worker' = "idle" /\ approved' = FALSE
        /\ resume' = "none" /\ record' \in {record, Torn}
        /\ UNCHANGED <<backup, asked, reply>>
    BY <1>6 DEF Reboot
  <2>2. installed' \in Versions
    <3>1. CASE worker = "install"
      BY <1>1, <1>6, <3>1, AtWork DEF Reboot, ResumeTypeOK
    <3>2. CASE worker # "install"
      BY <1>1, <1>6, <3>2 DEF Reboot, ResumeTypeOK
    <3> QED BY <3>1, <3>2
  <2>3. ResumeTypeOK'
    <3>1. worker_running' \in BOOLEAN /\ approved' \in BOOLEAN /\ rb_type' \in RollbackTypes
      BY <2>1 DEF RollbackTypes
    <3>2. reboots' \in 0 .. MaxReboots /\ registered' \in 0 .. Len(Handlers) /\ retry_cnt' \in 0 .. MaxAttempts
      BY <1>1, <2>1 DEF ResumeTypeOK
    <3> QED BY <1>1, <2>1, <2>2, <3>1, <3>2 DEF ResumeTypeOK
  <2> QED BY <2>1, <2>3 DEF ResumeInv, OneThread, ContextOfAsked, RecordOfAsked, RecordGone,
                            FailedMeansFailed, TargetOf
<1> QED BY <1>2, <1>3, <1>4, <1>5, <1>6

\* Every step keeps the invariant.
LEMMA ResumeNextKeeps ==
  ASSUME ResumeInv, Len(Handlers) = 1, [ResumeNext]_vars
  PROVE  ResumeInv'
<1>1. CASE UNCHANGED vars
  <2> USE <1>1 DEF vars, disk, process, component, threads, dmc
  <2>1. ResumeTypeOK'
    BY DEF ResumeInv, ResumeTypeOK
  <2> QED BY <2>1 DEF ResumeInv, OneThread, ContextOfAsked, RecordOfAsked, RecordGone,
                      FailedMeansFailed, TargetOf
<1>2. CASE ResumeNext
  BY <1>2, WorkerKeeps, ResumeKeeps, ProcessKeeps DEF ResumeNext
<1> QED BY <1>1, <1>2

\* A status that is sent says what is on the device.
LEMMA StatusStep ==
  ASSUME ResumeInv, ResumeNext, reply' # reply, reply' # None
  PROVE  reply'.st = "COMPLETED" <=> installed = TargetOf(asked)
<1> USE DEF disk, process, component, threads, dmc
<1>1. CASE Register \/ Presence \/ (\E m \in Commands : ReadyUpdate(m)) \/ ConfirmUpdate \/ Reboot
  BY <1>1 DEF Register, Presence, ReadyUpdate, ConfirmUpdate, Reboot
<1>2. CASE PreUpdate \/ RecordSave \/ OnInstall \/ RecordRemove \/ ReadyBackup \/ ReadyEnd
  BY <1>2 DEF PreUpdate, RecordSave, OnInstall, RecordRemove, ReadyBackup, ReadyEnd
<1>3. CASE ResumeBegin \/ ResumeBackup \/ ResumeRemove \/ ResumeEnd
  BY <1>3 DEF ResumeBegin, ResumeBackup, ResumeRemove, ResumeEnd
<1>4. CASE SameVersion
  BY <1>4, AtWork, CompletedTyped DEF SameVersion, Send
<1>5. CASE OnInstallReturns
  <2>1. context.target = TargetOf(asked) /\ context.cmd.rb \in Versions \cup {None}
    BY <1>5, AtWork DEF OnInstallReturns
  <2>2. CASE installed = context.target
    BY <1>5, <2>1, <2>2, CompletedTyped DEF OnInstallReturns, Send
  <2>3. CASE installed # context.target
    <3>1. reply' = Status("FAILED", context.cmd.rb, FALSE)
      BY <1>5, <2>3 DEF OnInstallReturns, Send
    <3> QED BY <2>1, <2>3, <3>1, FailureTyped, FailureIsStatus
  <2> QED BY <2>2, <2>3
<1>6. CASE ReadyFailed
  <2>1. installed # TargetOf(asked)
    BY <1>6, AtWork DEF ReadyFailed, ResumeInv, FailedMeansFailed
  <2>2. FailureReply \in FailureType \cup {None} /\ reply' = FailureReply
    BY <1>6, FailureReplyTyped DEF ReadyFailed, Send
  <2> QED BY <2>1, <2>2, FailureIsStatus
<1>7. CASE ResumeReport
  <2>1. context.target = TargetOf(asked) /\ context.cmd.rb \in Versions \cup {None}
    BY <1>7, AtWork DEF ResumeReport
  <2>2. CASE installed = context.target
    BY <1>7, <2>1, <2>2, CompletedTyped DEF ResumeReport, Send
  <2>3. CASE installed # context.target
    <3>1. ResumeFailure \in FailureType \cup {None} /\ reply' = ResumeFailure
      BY <1>7, <2>3, ResumeFailureTyped DEF ResumeReport, Send
    <3> QED BY <2>1, <2>3, <3>1, FailureIsStatus
  <2> QED BY <2>2, <2>3
<1> QED BY <1>1, <1>2, <1>3, <1>4, <1>5, <1>6, <1>7 DEF ResumeNext, WorkerStep, ResumeStep

\* The invariant of an installation and its reboots.
THEOREM ResumeInvariant ==
  ASSUME Len(Handlers) = 1
  PROVE  ResumeSpec => []ResumeInv
<1>1. ResumeInit => ResumeInv
  BY ResumeStart
<1>2. ResumeInv /\ [ResumeNext]_vars => ResumeInv'
  BY ResumeNextKeeps
<1> QED BY <1>1, <1>2, PTL DEF ResumeSpec

\* update_set_comp_context and the two threads keep the types of the component's context.
THEOREM ResumeTypes ==
  ASSUME Len(Handlers) = 1
  PROVE  ResumeSpec => []ResumeTypeOK
<1>1. ResumeInv => ResumeTypeOK
  BY DEF ResumeInv
<1> QED BY <1>1, ResumeInvariant, PTL

\* process_ready_update and update_resume_from_reboot: however often the machine restarts
\* and wherever, COMPLETED is sent exactly when the version asked for is on the device.
THEOREM StatusIsTruthful ==
  ASSUME Len(Handlers) = 1
  PROVE  ResumeSpec => StatusTruthful
<1>1. ResumeInv /\ [ResumeNext]_vars =>
        [reply' # reply /\ reply' # None =>
           (reply'.st = "COMPLETED" <=> installed = TargetOf(asked))]_vars
  BY StatusStep
<1> QED BY <1>1, ResumeInvariant, PTL DEF ResumeSpec, StatusTruthful
-----------------------------------------------------------------------------
\* The versions of a rollback list are different: the list is the DMC's order of what is
\* tried, and get_pkg_next_rollback_version looks for the first match.
DistinctRollbacks ==
  \A m \in Commands : m.rbs # None =>
    \A i, j \in DOMAIN m.rbs : m.rbs[i] = m.rbs[j] => i = j

\* get_pkg_next_rollback_version goes one step forward in such a list.
LEMMA NextComesAfter ==
  ASSUME NEW list \in Seq(Versions), list # None, NEW cur \in Versions, NEW next \in Versions,
         \A i, j \in DOMAIN list : list[i] = list[j] => i = j,
         \E i \in DOMAIN list : list[i] = cur,
         next = NextRollback(list, cur)
  PROVE  Position(list, cur) < Position(list, next)
<1> DEFINE p == FirstMatch(list, cur)
<1>1. DOMAIN list \subseteq Nat
  OBVIOUS
<1>2. PICK c \in DOMAIN list : list[c] = cur
  OBVIOUS
<1>3. list[c] = cur /\ \A j \in DOMAIN list : list[j] = cur => c <= j
  BY <1>1, <1>2
<1>4. p \in DOMAIN list /\ list[p] = cur
  BY <1>3 DEF FirstMatch
<1>5. cur # None /\ next # None
  BY NoneAssumption
<1> HIDE DEF p
<1>6. p + 1 \in DOMAIN list /\ next = list[p + 1]
  BY <1>2, <1>5 DEF NextRollback, p
<1>7. Position(list, cur) \in DOMAIN list /\ list[Position(list, cur)] = cur
  BY <1>2 DEF Position
<1>8. Position(list, next) \in DOMAIN list /\ list[Position(list, next)] = next
  BY <1>6 DEF Position
<1>9. Position(list, cur) = p /\ Position(list, next) = p + 1
  BY <1>4, <1>6, <1>7, <1>8
<1> QED BY <1>1, <1>4, <1>9

\* What may be said of a failure: a rollback version that is announced without giving up
\* comes after the one that failed.
LEMMA AnnouncedComesAfter ==
  ASSUME DistinctRollbacks, NEW m \in Commands, NEW s \in FailureReplies(m), s # None, ~s.term,
         m.rbs # None, s.rb # None, \E i \in DOMAIN m.rbs : m.rbs[i] = TargetOf(m)
  PROVE  Position(m.rbs, TargetOf(m)) < Position(m.rbs, s.rb)
<1> DEFINE next == NextRollback(m.rbs, TargetOf(m))
<1>1. m.rbs \in Seq(Versions) /\ TargetOf(m) \in Versions
  BY CommandFields
<1>2. next \in Versions \cup {None}
  BY <1>1, NextRollbackType
<1> HIDE DEF next
<1>3. /\ Status("FAILED", None, FALSE).rb = None
      /\ Status("FAILED", None, TRUE).rb = None
      /\ Status("FAILED", m.rb, TRUE).term
      /\ Status("FAILED", next, FALSE).rb = next
      /\ Status("ROLLBACK", next, FALSE).rb = next
  BY DEF Status
<1>4. s = RollbackIntent(rb_type, next)
  BY <1>3 DEF FailureReplies, next
<1>5. s \in {None, Status("FAILED", None, FALSE), Status("FAILED", next, FALSE), Status("ROLLBACK", next, FALSE)}
  BY <1>4 DEF RollbackIntent
<1>6. s.rb = next
  BY <1>3, <1>5
<1>7. next \in Versions
  BY <1>2, <1>6
<1> QED BY <1>1, <1>6, <1>7, NextComesAfter DEF next, DistinctRollbacks

\* One step.
LEMMA RollbackStep ==
  ASSUME ResumeInv, DistinctRollbacks, ResumeNext, reply' # reply, reply' # None,
         reply'.st # "COMPLETED", ~reply'.term, asked.rbs # None, reply'.rb # None,
         \E i \in DOMAIN asked.rbs : asked.rbs[i] = TargetOf(asked)
  PROVE  Position(asked.rbs, TargetOf(asked)) < Position(asked.rbs, reply'.rb)
<1> USE DEF disk, process, component, threads, dmc
<1>1. CASE Register \/ Presence \/ (\E m \in Commands : ReadyUpdate(m)) \/ ConfirmUpdate \/ Reboot
  BY <1>1 DEF Register, Presence, ReadyUpdate, ConfirmUpdate, Reboot
<1>2. CASE PreUpdate \/ RecordSave \/ OnInstall \/ RecordRemove \/ ReadyBackup \/ ReadyEnd
  BY <1>2 DEF PreUpdate, RecordSave, OnInstall, RecordRemove, ReadyBackup, ReadyEnd
<1>3. CASE ResumeBegin \/ ResumeBackup \/ ResumeRemove \/ ResumeEnd
  BY <1>3 DEF ResumeBegin, ResumeBackup, ResumeRemove, ResumeEnd
<1>4. CASE SameVersion
  BY <1>4, AtWork, CompletedTyped DEF SameVersion, Send
<1>5. CASE OnInstallReturns
  <2>1. context.cmd = asked /\ context.cmd.rb \in Versions \cup {None}
    BY <1>5, AtWork DEF OnInstallReturns
  <2> QED BY <1>5, <2>1, CompletedTyped DEF OnInstallReturns, Send
<1>6. CASE ReadyFailed
  <2>1. asked \in Commands
    BY <1>6, AtWork DEF ReadyFailed
  <2>2. reply' \in FailureReplies(asked)
    BY <1>6, FailureReplyOneOf DEF ReadyFailed, Send
  <2> QED BY <2>1, <2>2, AnnouncedComesAfter
<1>7. CASE ResumeReport
  <2>1. asked \in Commands /\ context.cmd.rb \in Versions \cup {None}
    BY <1>7, AtWork DEF ResumeReport
  <2>2. CASE installed = context.target
    BY <1>7, <2>1, <2>2, CompletedTyped DEF ResumeReport, Send
  <2>3. CASE installed # context.target
    <3>1. reply' \in FailureReplies(asked)
      BY <1>7, <2>3, ResumeFailureOneOf DEF ResumeReport, Send
    <3> QED BY <2>1, <3>1, AnnouncedComesAfter
  <2> QED BY <2>2, <2>3
<1> QED BY <1>1, <1>2, <1>3, <1>4, <1>5, <1>6, <1>7 DEF ResumeNext, WorkerStep, ResumeStep

\* process_ready_update and update_resume_from_reboot: wherever the machine restarts, the
\* walk through the rollback versions goes forward.
THEOREM RollbackGoesOn ==
  ASSUME Len(Handlers) = 1, DistinctRollbacks
  PROVE  ResumeSpec => RollbackMovesOn
<1>1. ResumeInv /\ [ResumeNext]_vars =>
        [reply' # reply /\ reply' # None =>
           LET list == asked.rbs
               tried == TargetOf(asked)
           IN  reply'.st # "COMPLETED" /\ ~reply'.term /\ list # None /\ reply'.rb # None
               /\ (\E i \in DOMAIN list : list[i] = tried)
               => Position(list, tried) < Position(list, reply'.rb)]_vars
  BY RollbackStep
<1> QED BY <1>1, ResumeInvariant, PTL DEF ResumeSpec, RollbackMovesOn
=============================================================================
