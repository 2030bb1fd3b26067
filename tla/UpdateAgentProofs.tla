------------------------- MODULE UpdateAgentProofs -------------------------
(***************************************************************************)
(* Proofs about UpdateAgent, for every set of packages, versions, commands *)
(* and rollback types, and about Campaign, for every number of packages,   *)
(* campaigns, retries and rollback versions.                               *)
(***************************************************************************)
EXTENDS Campaign, TLAPS

\* The helpers that stand for one assignment are expanded everywhere.
USE DEF SetStage, SetPrepared, AddPkgFile, RemoveOldBackup, RollbackPackage,
        PrepareInstallAction, BackupPackage, BackupActions

ResultType == [sts      : {"COMPLETED", "FAILED", "ROLLBACK"},
               reply    : StatusType \cup {None},
               ran      : BOOLEAN,
               target   : Versions \cup {None},
               manifest : SUBSET Versions]

\* The next rollback version, if there is one, comes from the list.
LEMMA NextRollbackType ==
  ASSUME NEW list \in Seq(Versions) \cup {None}, NEW cur
  PROVE  NextRollback(list, cur) \in Versions \cup {None}
<1>1. CASE list = None \/ cur = None
  BY <1>1 DEF NextRollback
<1>2. CASE ~(list = None \/ cur = None)
  <2>. list \in Seq(Versions)
    BY <1>2
  <2>1. \A i \in DOMAIN list : list[i] \in Versions
    OBVIOUS
  <2>. QED BY <1>2, <2>1 DEF NextRollback
<1>. QED BY <1>1, <1>2

\* A status is a StatusType when its parts have their types.
LEMMA StatusTyped ==
  ASSUME NEW st \in {"READY", "COMPLETED", "FAILED", "ROLLBACK"},
         NEW rb \in Versions \cup {None}, NEW term \in BOOLEAN
  PROVE  Status(st, rb, term) \in StatusType
  BY DEF Status, StatusType

\* The intent that announces a version is a status or nothing.
LEMMA RollbackIntentType ==
  ASSUME NEW t \in RollbackTypes, NEW next \in Versions \cup {None}
  PROVE  RollbackIntent(t, next) \in StatusType \cup {None}
  BY StatusTyped DEF RollbackTypes, RollbackIntent

\* update_start_install_operations ends COMPLETED or FAILED, and an installation that
\* ran to completion had a version to install.
LEMMA InstallOperationsType ==
  ASSUME NEW m \in Message, NEW tgt \in Versions \cup {None},
         NEW inst \in Versions, NEW a \in Answers
  PROVE  LET r == InstallOperations(m, tgt, inst, a)
         IN  /\ r.sts \in {"COMPLETED", "FAILED"}
             /\ r.reply \in StatusType \cup {None}
             /\ r.ran \in BOOLEAN
             /\ r.ran /\ r.sts = "COMPLETED" => tgt \in Versions
<1>. /\ m.rb \in Versions \cup {None}
     /\ a.approved \in BOOLEAN /\ a.installs \in BOOLEAN
  BY DEF Message, Answers
<1>1. CASE m.rb = None /\ inst = m.version
  BY <1>1, StatusTyped DEF InstallOperations
<1>2. CASE ~(m.rb = None /\ inst = m.version) /\ ~a.approved
  BY <1>2, StatusTyped DEF InstallOperations
<1>3. CASE ~(m.rb = None /\ inst = m.version) /\ a.approved
  BY <1>3, StatusTyped DEF InstallOperations
<1>. QED BY <1>1, <1>2, <1>3

\* What a ready-update without rollback-version leaves behind is well typed, keeps the
\* version it acts on, and a completed installation installed a version.
LEMMA UpdateResultType ==
  ASSUME NEW m \in Message, NEW tgt \in Versions \cup {None}, NEW inst \in Versions,
         NEW man \in SUBSET Versions, NEW t \in RollbackTypes, NEW n,
         NEW a \in Answers
  PROVE  LET r == UpdateResult(m, tgt, inst, man, t, n, a)
         IN  /\ r \in ResultType
             /\ r.target = tgt
             /\ r.ran /\ r.sts = "COMPLETED" => tgt \in Versions
<1>. DEFINE i    == InstallOperations(m, tgt, inst, a)
            next == NextRollback(m.rbs, tgt)
            rbt  == IF i.ran THEN a.rb_type ELSE t
<1>1. /\ i.sts \in {"COMPLETED", "FAILED"}
      /\ i.reply \in StatusType \cup {None}
      /\ i.ran \in BOOLEAN
      /\ i.ran /\ i.sts = "COMPLETED" => tgt \in Versions
  BY InstallOperationsType
<1>2. next \in Versions \cup {None}
  <2>1. m.rbs \in Seq(Versions) \cup {None}
    BY DEF Message
  <2>. QED BY <2>1, NextRollbackType
<1>3. RollbackIntent(rbt, next) \in StatusType \cup {None}
  <2>1. a.rb_type \in RollbackTypes
    BY DEF Answers
  <2>2. rbt \in RollbackTypes
    BY <2>1
  <2>. HIDE DEF rbt, next
  <2>. QED BY <1>2, <2>2, RollbackIntentType
<1>4. /\ Status("FAILED", None, FALSE) \in StatusType
      /\ Status("FAILED", None, TRUE) \in StatusType
  BY StatusTyped
<1>5. UpdateResult(m, tgt, inst, man, t, n, a)
        \in {Result(i.sts, i.reply, i.ran, tgt, man),
             Result("FAILED", Status("FAILED", None, FALSE), i.ran, tgt, man),
             Result("FAILED", i.reply, i.ran, tgt, man),
             Result("ROLLBACK", RollbackIntent(rbt, next), i.ran, tgt, {}),
             Result("FAILED", Status("FAILED", None, TRUE), i.ran, tgt, man)}
  BY Zenon DEF UpdateResult
<1>. DEFINE r == UpdateResult(m, tgt, inst, man, t, n, a)
            good(x) == /\ x \in ResultType
                       /\ x.target = tgt
                       /\ x.ran /\ x.sts = "COMPLETED" => tgt \in Versions
<1>. HIDE DEF i, next, rbt
<1>6. good(Result(i.sts, i.reply, i.ran, tgt, man))
  BY <1>1 DEF Result, ResultType
<1>7. good(Result("FAILED", Status("FAILED", None, FALSE), i.ran, tgt, man))
  BY <1>1, <1>4 DEF Result, ResultType
<1>8. good(Result("FAILED", i.reply, i.ran, tgt, man))
  BY <1>1 DEF Result, ResultType
<1>9. good(Result("ROLLBACK", RollbackIntent(rbt, next), i.ran, tgt, {}))
  BY <1>1, <1>3 DEF Result, ResultType
<1>10. good(Result("FAILED", Status("FAILED", None, TRUE), i.ran, tgt, man))
  BY <1>1, <1>4 DEF Result, ResultType
<1>. HIDE DEF good
<1>11. good(r)
  BY <1>5, <1>6, <1>7, <1>8, <1>9, <1>10, Zenon
<1>. QED BY <1>11 DEF good

\* The same for a rollback, which acts on the rollback version of the command.
LEMMA RollbackResultType ==
  ASSUME NEW m \in Message, m.rb # None, NEW inst \in Versions,
         NEW man \in SUBSET Versions, NEW bak \in SUBSET Versions,
         NEW t \in RollbackTypes, NEW a \in Answers
  PROVE  LET r == RollbackResult(m, inst, man, bak, t, a)
         IN  /\ r \in ResultType
             /\ r.target = m.rb
<1>. DEFINE found  == m.rb \in m.files \/ m.rb \in bak
            ready  == found /\ a.prepares
            added  == IF ready THEN man \cup {m.rb} ELSE man
            i      == InstallOperations(m, m.rb, inst, a)
            ran    == ready /\ ~a.delta /\ i.ran
            rbt    == IF ran THEN a.rb_type ELSE t
            next   == IF found /\ a.delta THEN None ELSE NextRollback(m.rbs, m.rb)
            failed == IF rbt = "URB_DMC_INITIATED_NO_UA_INTENT"
                        THEN Status("FAILED", None, FALSE)
                        ELSE Status("FAILED", m.rb, TRUE)
<1>0. /\ m.rb \in Versions /\ m.rbs \in Seq(Versions) \cup {None}
      /\ a.rb_type \in RollbackTypes
  BY DEF Message, Answers
<1>1. i.reply \in StatusType \cup {None}
  BY <1>0, InstallOperationsType
<1>2. added \in SUBSET Versions
  BY <1>0
<1>3. next \in Versions \cup {None}
  BY <1>0, NextRollbackType
<1>4. RollbackIntent(rbt, next) \in StatusType \cup {None}
  <2>1. rbt \in RollbackTypes
    BY <1>0
  <2>. HIDE DEF rbt, next
  <2>. QED BY <1>3, <2>1, RollbackIntentType
<1>5. failed \in StatusType /\ Status("COMPLETED", m.rb, FALSE) \in StatusType
  BY <1>0, StatusTyped
<1>6. RollbackResult(m, inst, man, bak, t, a)
        \in {Result("COMPLETED", Status("COMPLETED", m.rb, FALSE), FALSE, m.rb, man),
             Result("COMPLETED", i.reply, TRUE, m.rb, added),
             Result("ROLLBACK", RollbackIntent(rbt, next), ran, m.rb, {}),
             Result("FAILED", failed, ran, m.rb, {})}
  BY Zenon DEF RollbackResult
<1>7. ran \in BOOLEAN
  OBVIOUS
<1>. DEFINE good(x) == x \in ResultType /\ x.target = m.rb
<1>. HIDE DEF i, next, rbt, ran, added, failed
<1>8. good(Result("COMPLETED", Status("COMPLETED", m.rb, FALSE), FALSE, m.rb, man))
  BY <1>0, <1>5 DEF Result, ResultType
<1>9. good(Result("COMPLETED", i.reply, TRUE, m.rb, added))
  BY <1>0, <1>1, <1>2 DEF Result, ResultType
<1>10. good(Result("ROLLBACK", RollbackIntent(rbt, next), ran, m.rb, {}))
  BY <1>0, <1>4, <1>7 DEF Result, ResultType
<1>11. good(Result("FAILED", failed, ran, m.rb, {}))
  BY <1>0, <1>5, <1>7 DEF Result, ResultType
<1>. HIDE DEF good
<1>12. good(RollbackResult(m, inst, man, bak, t, a))
  BY <1>6, <1>8, <1>9, <1>10, <1>11, Zenon
<1>. QED BY <1>12 DEF good

(***************************************************************************)
(* One lemma per conjunct of StageInv, one step per action.                *)
(***************************************************************************)

\* Replacing a value of a function by another of its range keeps the function's type.
LEMMA ExceptType ==
  ASSUME NEW S, NEW T, NEW f \in [S -> T], NEW x, NEW y \in T
  PROVE  [f EXCEPT ![x] = y] \in [S -> T]
  OBVIOUS

\* Facts about the command a thread works on, used by the type proofs.
LEMMA CommandFields ==
  ASSUME NEW m \in Commands
  PROVE  /\ m \in Message /\ m # None
         /\ m.pkg \in Pkgs /\ m.version \in Versions
         /\ m.rb \in Versions \cup {None} /\ m.rbs \in Seq(Versions) \cup {None}
         /\ m.campaign \in Campaigns \cup {None}
         /\ m.files \subseteq m.listed /\ m.listed \subseteq Versions /\ m.seq \in Nat
         /\ TargetVersion(m) \in Versions /\ KeptVersion(m) \in Versions
         /\ (m.campaign # None => CampaignOf(m) = m.campaign)
         /\ (m.campaign = None => CampaignOf(m) = cur_campaign_id)
<1>1. m \in Message /\ m.files \subseteq m.listed /\ m # None
  BY UpdateAgentAssumption
<1>. QED BY <1>1 DEF Message, TargetVersion, KeptVersion, CampaignOf

\* What the runner pops is a command.
LEMMA MsgIsCommand ==
  ASSUME TypeOK, Pop
  PROVE  Msg \in Commands
  BY DEF TypeOK, Pop, Msg

\* Whatever the callbacks answer, a ready-update comes to a well-typed result, and an
\* installation that completes installs a version.
LEMMA ReadyResultType ==
  ASSUME TypeOK, NEW m \in Commands, NEW a \in Answers
  PROVE  LET r == ReadyResult(m, a)
         IN  /\ r \in ResultType
             /\ r.target = IF m.rb # None THEN m.rb ELSE target
             /\ r.ran /\ r.sts = "COMPLETED" => r.target \in Versions
<1>1. /\ m \in Message /\ m.pkg \in Pkgs /\ m.rb \in Versions \cup {None}
  BY CommandFields
<1>2. /\ installed[m.pkg] \in Versions /\ manifest[m.pkg] \in SUBSET Versions
      /\ backup[m.pkg] \in SUBSET Versions /\ rb_type[m.pkg] \in RollbackTypes
      /\ target \in Versions \cup {None} /\ retry_cnt \in Nat
  BY <1>1 DEF TypeOK
<1>3. CASE m.rb # None
  <2>. DEFINE r == RollbackResult(m, installed[m.pkg], manifest[m.pkg], backup[m.pkg],
                                  rb_type[m.pkg], a)
  <2>1. r \in ResultType /\ r.target = m.rb
    BY <1>1, <1>2, <1>3, RollbackResultType
  <2>2. ReadyResult(m, a) = r
    BY <1>3, Zenon DEF ReadyResult
  <2>. HIDE DEF r
  <2>. QED BY <1>1, <1>3, <2>1, <2>2
<1>4. CASE m.rb = None
  <2>. DEFINE inst == installed[m.pkg]
              man  == manifest[m.pkg]
              rbt  == rb_type[m.pkg]
              r    == UpdateResult(m, target, inst, man, rbt, retry_cnt, a)
  <2>0. inst \in Versions /\ man \in SUBSET Versions /\ rbt \in RollbackTypes
    BY <1>2
  <2>. HIDE DEF inst, man, rbt
  <2>1. r \in ResultType /\ r.target = target
    BY <1>1, <1>2, <2>0, UpdateResultType
  <2>3. r.ran /\ r.sts = "COMPLETED" => target \in Versions
    BY <1>1, <1>2, <2>0, UpdateResultType
  <2>2. ReadyResult(m, a) = r
    BY <1>4, Zenon DEF ReadyResult, inst, man, rbt
  <2>. HIDE DEF r
  <2>. QED BY <1>1, <1>4, <2>1, <2>2, <2>3
<1>. QED BY <1>3, <1>4

\* Every step keeps every variable in its type.
LEMMA TypeOKStep ==
  ASSUME TypeOK, ThreadsOK, Next
  PROVE  TypeOK'
<1>. USE DEF TypeOK, compVars, fileVars, queueVars, flagVars, threadVars, localVars
<1>1. ASSUME NEW m \in Commands, Deliver(m) PROVE TypeOK'
  BY <1>1 DEF Deliver
<1>2. CASE DmcPresence
  BY <1>2 DEF DmcPresence
<1>3. CASE RunnerStep
  <2>1. ASSUME Pop PROVE inbox' \in Seq(Commands)
    BY <2>1 DEF Pop
  <2>2. ASSUME Accept PROVE seq_in' \in [Pkgs -> Nat]
    BY <2>2, MsgIsCommand, CommandFields DEF Accept, AcceptSeq
  <2>3. CASE RunnerDrop
    BY <2>1, <2>3 DEF RunnerDrop, Pop
  <2>4. CASE RunnerConsumed
    BY <2>1, <2>2, <2>4 DEF RunnerConsumed, Accept, Pop
  <2>5. CASE RunnerDiscard
    BY <2>1, <2>2, <2>5 DEF RunnerDiscard, Accept, Pop
  <2>6. CASE RunnerSpawn
    BY <2>1, <2>2, <2>6, MsgIsCommand DEF RunnerSpawn, Accept, Pop, FirstStep, Threads, ProgramSteps,
                            PrepareSteps, ReadySteps, ConfirmSteps
  <2>7. CASE RunnerExecute
    BY <2>1, <2>2, <2>7, MsgIsCommand DEF RunnerExecute, Accept, Pop, FirstStep, Threads, ProgramSteps,
                            PrepareSteps, ReadySteps, ConfirmSteps
  <2>. QED BY <1>3, <2>3, <2>4, <2>5, <2>6, <2>7 DEF RunnerStep
<1>4. CASE PrepareStep
  <2>. DEFINE m == cmd["worker"]
  <2>. USE DEF Goto, Send, Threads, ProgramSteps, PrepareSteps
  <2>0. ASSUME pc["worker"] \in PrepareSteps PROVE m \in Commands
    BY <2>0 DEF ThreadsOK
  <2>1. CASE PrepareTest
    <3>1. m \in Commands
      BY <2>0, <2>1 DEF PrepareTest
    <3>2. CampaignOf(m) \in Campaigns \cup {None}
      BY <3>1, CommandFields
    <3>3. Status("READY", None, FALSE) \in StatusType
      BY StatusTyped
    <3>4. m.pkg \in Pkgs
      BY <3>1, CommandFields
    <3>5. reply' \in [Pkgs -> StatusType \cup {None}]
      BY <2>1, <3>3, <3>4 DEF PrepareTest
    <3>7. cur_campaign_id' \in Campaigns \cup {None} /\ seen' \in Stages
      <4>1. cur_campaign_id' \in {cur_campaign_id, CampaignOf(m)} /\ seen' \in {seen, stage[m.pkg]}
        BY <2>1 DEF PrepareTest
      <4>. QED BY <3>2, <3>4, <4>1
    <3>6. pc' \in [Threads -> ProgramSteps]
      BY <2>1 DEF PrepareTest
    <3>. QED BY <2>1, <3>4, <3>5, <3>6, <3>7 DEF PrepareTest
  <2>2. CASE PrepareBegin
    <3>1. stage' \in [Pkgs -> Stages]
      BY <2>2 DEF PrepareBegin, Stages
    <3>2. pc' \in [Threads -> ProgramSteps]
      BY <2>2 DEF PrepareBegin
    <3>. QED BY <2>2, <3>1, <3>2 DEF PrepareBegin
  <2>3. CASE PrepareInstall
    <3>1. m \in Commands
      BY <2>0, <2>3 DEF PrepareInstall
    <3>2. \A x \in {m.rb, None} : /\ Status("READY", x, FALSE) \in StatusType
                                  /\ Status("FAILED", x, FALSE) \in StatusType
      BY <3>1, StatusTyped, CommandFields
    <3>3. m.pkg \in Pkgs /\ TargetVersion(m) \in Versions
      BY <3>1, CommandFields
    <3>4. reply' \in [Pkgs -> StatusType \cup {None}]
      <4>1. \E x \in {m.rb, None} : \E st \in {"READY", "FAILED"} :
              reply' = [reply EXCEPT ![m.pkg] = Status(st, x, FALSE)]
        BY <2>3 DEF PrepareInstall
      <4>2. PICK s \in StatusType : reply' = [reply EXCEPT ![m.pkg] = s]
        BY <3>2, <4>1
      <4>. QED BY <4>2
    <3>6. manifest' \in [Pkgs -> SUBSET Versions] /\ outcome' \in {"READY", "FAILED"}
      <4>1. /\ \/ manifest' = manifest
               \/ manifest' = [manifest EXCEPT ![m.pkg] =
                                  manifest[m.pkg] \cup {TargetVersion(m)}]
            /\ outcome' \in {"READY", "FAILED"}
        BY <2>3 DEF PrepareInstall
      <4>2. [manifest EXCEPT ![m.pkg] = manifest[m.pkg] \cup {TargetVersion(m)}]
              \in [Pkgs -> SUBSET Versions]
        BY <3>3
      <4>. QED BY <4>1, <4>2
    <3>5. pc' \in [Threads -> ProgramSteps]
      BY <2>3 DEF PrepareInstall
    <3>. QED BY <2>3, <3>4, <3>5, <3>6 DEF PrepareInstall
  <2>4. CASE PrepareEnd
    <3>1. m \in Commands
      BY <2>0, <2>4 DEF PrepareEnd
    <3>2. m.version \in Versions
      BY <3>1, CommandFields
    <3>3. /\ stage' \in [Pkgs -> Stages] /\ retry_cnt' \in Nat
      <4>1. /\ retry_cnt' \in {0, retry_cnt}
            /\ \E st \in {"PREPARE_UPDATE_DONE", seen} : stage' = [stage EXCEPT ![m.pkg] = st]
        BY <2>4 DEF PrepareEnd
      <4>2. "PREPARE_UPDATE_DONE" \in Stages /\ seen \in Stages
        BY DEF Stages
      <4>3. stage' \in [Pkgs -> Stages]
        BY <4>1, <4>2, ExceptType
      <4>. QED BY <4>1, <4>3
    <3>4. prepared' \in [Pkgs -> [ver : Versions \cup {None}, cid : Campaigns \cup {None}]]
      <4>1. \/ prepared' = prepared
            \/ prepared' = [prepared EXCEPT ![m.pkg] =
                              [ver |-> m.version, cid |-> cur_campaign_id]]
        BY <2>4 DEF PrepareEnd
      <4>2. [prepared EXCEPT ![m.pkg] = [ver |-> m.version, cid |-> cur_campaign_id]]
              \in [Pkgs -> [ver : Versions \cup {None}, cid : Campaigns \cup {None}]]
        BY <3>2
      <4>. QED BY <4>1, <4>2
    <3>5. pc' \in [Threads -> ProgramSteps]
      BY <2>4 DEF PrepareEnd
    <3>. QED BY <2>4, <3>3, <3>4, <3>5 DEF PrepareEnd
  <2>. QED BY <1>4, <2>1, <2>2, <2>3, <2>4 DEF PrepareStep
<1>5. CASE ReadyStep
  <2>. DEFINE m == cmd["worker"]
  <2>. USE DEF Goto, Send, Threads, ProgramSteps, ReadySteps, ConfirmSteps
  <2>0. ASSUME pc["worker"] \in ReadySteps PROVE m \in Commands
    BY <2>0 DEF ThreadsOK
  <2>1. CASE ReadyParse
    <3>1. m \in Commands
      BY <2>0, <2>1 DEF ReadyParse
    <3>2. CampaignOf(m) \in Campaigns \cup {None} /\ TargetVersion(m) \in Versions
          /\ m.pkg \in Pkgs /\ m.rb \in Versions \cup {None}
      BY <3>1, CommandFields
    <3>3. ASSUME ParseFound(m, TargetVersion(m))
          PROVE  target' \in Versions \cup {None} /\ manifest' \in [Pkgs -> SUBSET Versions]
      BY <3>2, <3>3 DEF ParseFound
    <3>4. ASSUME ParseFailed(m, TargetVersion(m))
          PROVE  /\ target' \in Versions \cup {None} /\ manifest' \in [Pkgs -> SUBSET Versions]
                 /\ update_error' \in BOOLEAN /\ reply' \in [Pkgs -> StatusType \cup {None}]
      <4>1. update_error' \in BOOLEAN
        BY <3>4 DEF ParseFailed
      <4>2. Status("FAILED", m.rb, update_error') \in StatusType
        BY <3>2, <4>1, StatusTyped
      <4>. QED BY <3>2, <3>4, <4>1, <4>2 DEF ParseFailed
    <3>. QED BY <2>1, <3>2, <3>3, <3>4 DEF ReadyParse
  <2>2. CASE ReadyBegin
    <3>1. m \in Commands
      BY <2>0, <2>2 DEF ReadyBegin
    <3>. QED BY <2>2, <3>1, CommandFields DEF ReadyBegin, Stages, RollbackTypes
  <2>3. CASE ReadyInstall
    <3>1. m \in Commands /\ m \in Message /\ m.pkg \in Pkgs
      BY <2>0, <2>3, CommandFields DEF ReadyInstall
    <3>2. PICK a \in Answers : Perform(m.pkg, a, ReadyResult(m, a))
      BY <2>3 DEF ReadyInstall
    <3>. DEFINE r == ReadyResult(m, a)
    <3>3. r \in ResultType /\ (r.ran /\ r.sts = "COMPLETED" => r.target \in Versions)
      BY <3>1, ReadyResultType
    <3>4. a.rb_type \in RollbackTypes
      BY DEF Answers
    <3>5. r.reply # None => r.reply.term \in BOOLEAN
      BY <3>3 DEF ResultType, StatusType
    <3>. HIDE DEF r
    <3>6. Perform(m.pkg, a, r)
      BY <3>2 DEF r
    <3>7. /\ outcome' \in {"READY", "COMPLETED", "FAILED", "ROLLBACK"}
          /\ target' \in Versions \cup {None}
          /\ manifest' \in [Pkgs -> SUBSET Versions]
          /\ reply' \in [Pkgs -> StatusType \cup {None}]
      BY <3>1, <3>3, <3>6 DEF Perform, ResultType
    <3>8. installed' \in [Pkgs -> Versions] /\ rb_type' \in [Pkgs -> RollbackTypes]
      BY <3>1, <3>3, <3>4, <3>6 DEF Perform, ResultType
    <3>9. update_error' \in BOOLEAN
      BY <3>6 DEF Perform
    <3>. QED BY <2>3, <3>7, <3>8, <3>9 DEF ReadyInstall
  <2>4. CASE ReadyBackup
    <3>1. backup' \in [Pkgs -> SUBSET Versions]
      <4>1. \/ backup' = backup
            \/ /\ target \in manifest[m.pkg]
               /\ backup' = [backup EXCEPT ![m.pkg] = backup[m.pkg] \cup {target}]
        BY <2>4 DEF ReadyBackup
      <4>2. CASE m.pkg \in Pkgs
        <5>1. target \in manifest[m.pkg] => target \in Versions
          BY <4>2
        <5>2. target \in Versions =>
                [backup EXCEPT ![m.pkg] = backup[m.pkg] \cup {target}] \in [Pkgs -> SUBSET Versions]
          BY <4>2
        <5>. QED BY <4>1, <5>1, <5>2
      <4>3. CASE m.pkg \notin Pkgs
        BY <4>1, <4>3
      <4>. QED BY <4>2, <4>3
    <3>2. pc' \in [Threads -> ProgramSteps]
      BY <2>4 DEF ReadyBackup
    <3>. QED BY <2>4, <3>1, <3>2 DEF ReadyBackup
  <2>5. CASE ReadyDone
    <3>1. stage' \in [Pkgs -> Stages]
      BY <2>5 DEF ReadyDone, Stages
    <3>2. pc' \in [Threads -> ProgramSteps]
      BY <2>5 DEF ReadyDone
    <3>. QED BY <2>5, <3>1, <3>2 DEF ReadyDone
  <2>6. CASE ReadyFlag
    BY <2>6 DEF ReadyFlag
  <2>7. CASE ReadyUnflag
    BY <2>7 DEF ReadyUnflag
  <2>8. CASE ReadyRelease
    BY <2>8 DEF ReadyRelease
  <2>. QED BY <1>5, <2>1, <2>2, <2>3, <2>4, <2>5, <2>6, <2>7, <2>8 DEF ReadyStep
<1>6. CASE WorkerExit
  BY <1>6 DEF WorkerExit, Goto, Threads, ProgramSteps
<1>7. ASSUME NEW t \in Threads, QueryPackage(t) PROVE TypeOK'
  BY <1>7 DEF QueryPackage, Return, Goto, ProgramSteps, ReadySteps
<1>8. ASSUME NEW t \in Threads, ConfirmStep(t) PROVE TypeOK'
  <2>. USE DEF Return, Goto, ProgramSteps, ReadySteps, ConfirmSteps
  <2>1. CASE ConfirmTest(t)
    BY <1>8, <2>1 DEF ConfirmTest
  <2>2. CASE ConfirmSkip(t)
    BY <1>8, <2>2 DEF ConfirmSkip
  <2>3. CASE ConfirmBegin(t)
    <3>1. stage' \in [Pkgs -> Stages]
      BY <2>3 DEF ConfirmBegin, Stages
    <3>2. pc' \in [Threads -> ProgramSteps]
      BY <1>8, <2>3 DEF ConfirmBegin
    <3>. QED BY <2>3, <3>1, <3>2 DEF ConfirmBegin
  <2>4. CASE ConfirmClean(t)
    <3>1. /\ backup' \in [Pkgs -> SUBSET Versions] /\ manifest' \in [Pkgs -> SUBSET Versions]
      <4>. DEFINE p == cmd[t].pkg
      <4>1. /\ \/ backup' = backup
               \/ backup' = [backup EXCEPT ![p] = backup[p] \cap {KeptVersion(cmd[t])}]
            /\ manifest' = manifest \/ manifest' = [manifest EXCEPT ![p] = {}]
        BY <2>4 DEF ConfirmClean
      <4>2. p \in Pkgs
        BY <2>4, CommandFields DEF ConfirmClean, ThreadsOK
      <4>3. [backup EXCEPT ![p] = backup[p] \cap {KeptVersion(cmd[t])}]
              \in [Pkgs -> SUBSET Versions]
        BY <4>2
      <4>4. [manifest EXCEPT ![p] = {}] \in [Pkgs -> SUBSET Versions]
        BY <4>2
      <4>. QED BY <4>1, <4>3, <4>4
    <3>3. rb_type' \in [Pkgs -> RollbackTypes]
      BY <2>4 DEF ConfirmClean, RollbackTypes
    <3>2. pc' \in [Threads -> ProgramSteps]
      BY <1>8, <2>4 DEF ConfirmClean
    <3>. QED BY <2>4, <3>1, <3>2, <3>3 DEF ConfirmClean
  <2>5. CASE ConfirmEnd(t)
    <3>1. stage' \in [Pkgs -> Stages]
      BY <2>5 DEF ConfirmEnd, Stages
    <3>2. pc' \in [Threads -> ProgramSteps]
      BY <1>8, <2>5 DEF ConfirmEnd
    <3>. QED BY <2>5, <3>1, <3>2 DEF ConfirmEnd
  <2>. QED BY <1>8, <2>1, <2>2, <2>3, <2>4, <2>5 DEF ConfirmStep
<1>. QED BY <1>1, <1>2, <1>3, <1>4, <1>5, <1>6, <1>7, <1>8 DEF Next, AgentStep

\* No step leaves a thread in a handler without a message, or starts a second worker.
LEMMA ThreadsOKStep ==
  ASSUME TypeOK, ThreadsOK, Next
  PROVE  ThreadsOK'
<1>. USE DEF ThreadsOK, Threads, Goto, compVars, fileVars, queueVars, flagVars, threadVars,
             localVars, PrepareSteps, ReadySteps, ConfirmSteps
<1>0. pc \in [Threads -> ProgramSteps] /\ cmd \in [Threads -> Commands \cup {None}]
  BY DEF TypeOK
<1>1. ASSUME NEW m \in Commands, Deliver(m) PROVE ThreadsOK'
  BY <1>1 DEF Deliver
<1>2. CASE DmcPresence
  BY <1>2 DEF DmcPresence
<1>3. CASE RunnerDrop \/ RunnerConsumed \/ RunnerDiscard
  BY <1>3 DEF RunnerDrop, RunnerConsumed, RunnerDiscard, Accept, Pop
<1>4. CASE RunnerSpawn
  BY <1>0, <1>4, MsgIsCommand DEF RunnerSpawn, Accept, Pop, FirstStep
<1>5. CASE RunnerExecute
  BY <1>0, <1>5, MsgIsCommand, CommandFields DEF RunnerExecute, Accept, Pop, FirstStep, OnWorker, Message
<1>6. CASE PrepareStep
  BY <1>0, <1>6 DEF PrepareStep, PrepareTest, PrepareBegin, PrepareInstall, PrepareEnd
<1>7. CASE ReadyStep
  BY <1>0, <1>7 DEF ReadyStep, ReadyParse, ReadyBegin, ReadyInstall, ReadyBackup, ReadyDone,
                    ReadyFlag, ReadyUnflag, ReadyRelease
<1>8. CASE WorkerExit
  BY <1>0, <1>8 DEF WorkerExit
<1>9. ASSUME NEW t \in Threads, QueryPackage(t) \/ ConfirmStep(t) PROVE ThreadsOK'
  BY <1>0, <1>9 DEF QueryPackage, ConfirmStep, ConfirmTest, ConfirmSkip, ConfirmBegin,
                    ConfirmClean, ConfirmEnd, Return
<1>. QED BY <1>1, <1>2, <1>3, <1>4, <1>5, <1>6, <1>7, <1>8, <1>9
         DEF Next, AgentStep, RunnerStep

\* Only the worker's own steps write a "started" stage or clear one.
LEMMA StageOwnedStep ==
  ASSUME TypeOK, ThreadsOK, RestoresOwned, StageOwned, Next
  PROVE  RestoresOwned' /\ StageOwned'
<1>. USE DEF RestoresOwned, StageOwned, Goto, compVars, fileVars, queueVars, flagVars,
             threadVars, localVars
<1>0. /\ pc \in [Threads -> ProgramSteps] /\ cmd \in [Threads -> Commands \cup {None}]
      /\ stage \in [Pkgs -> Stages] /\ Threads = {"runner", "worker"}
  BY DEF TypeOK, Threads
<1>1. ASSUME NEW m \in Commands, Deliver(m) PROVE RestoresOwned' /\ StageOwned'
  BY <1>1 DEF Deliver
<1>2. CASE DmcPresence
  BY <1>2 DEF DmcPresence
<1>3. CASE RunnerDrop \/ RunnerConsumed \/ RunnerDiscard
  BY <1>3 DEF RunnerDrop, RunnerConsumed, RunnerDiscard, Accept, Pop
<1>4. CASE RunnerSpawn
  BY <1>0, <1>4 DEF RunnerSpawn, Accept, Pop, FirstStep, ThreadsOK
<1>5. CASE RunnerExecute
  BY <1>0, <1>5 DEF RunnerExecute, Accept, Pop
<1>6. CASE PrepareTest
  <2>. DEFINE m == cmd["worker"]
  <2>1. stage' = stage /\ cmd' = cmd /\ pc["worker"] = "p_test"
    BY <1>6 DEF PrepareTest
  <2>2. \A p \in Pkgs : stage[p] \notin {"READY_UPDATE_STARTED", "PREPARE_UPDATE_STARTED"}
    BY <2>1
  <2>3. m.pkg \in Pkgs
    BY <1>0, <2>1, CommandFields DEF ThreadsOK
  <2>4. pc'["worker"] \in {"exit", "crash"} \/ (pc'["worker"] = "p_begin" /\ seen' = stage[m.pkg])
    BY <1>0, <1>6 DEF PrepareTest
  <2>. QED BY <2>1, <2>2, <2>3, <2>4
<1>7. CASE PrepareBegin
  BY <1>0, <1>7 DEF PrepareBegin
<1>8. CASE PrepareInstall
  BY <1>0, <1>8 DEF PrepareInstall
<1>9. CASE PrepareEnd
  BY <1>0, <1>9 DEF PrepareEnd
<1>10. CASE ReadyParse
  BY <1>0, <1>10 DEF ReadyParse
<1>11. CASE ReadyBegin
  BY <1>0, <1>11 DEF ReadyBegin
<1>12. CASE ReadyInstall \/ ReadyBackup
  BY <1>0, <1>12 DEF ReadyInstall, ReadyBackup
<1>13. CASE ReadyDone
  BY <1>0, <1>13 DEF ReadyDone
<1>14. CASE ReadyFlag \/ ReadyUnflag \/ ReadyRelease \/ WorkerExit
  BY <1>0, <1>14 DEF ReadyFlag, ReadyUnflag, ReadyRelease, WorkerExit
<1>15. ASSUME NEW t \in Threads, QueryPackage(t) PROVE RestoresOwned' /\ StageOwned'
  BY <1>0, <1>15 DEF QueryPackage, Return
<1>16. ASSUME NEW t \in Threads, ConfirmTest(t) \/ ConfirmSkip(t) \/ ConfirmClean(t)
       PROVE  RestoresOwned' /\ StageOwned'
  BY <1>0, <1>16 DEF ConfirmTest, ConfirmSkip, ConfirmClean, Return
<1>17. ASSUME NEW t \in Threads, ConfirmBegin(t) PROVE RestoresOwned' /\ StageOwned'
  BY <1>0, <1>17 DEF ConfirmBegin
<1>18. ASSUME NEW t \in Threads, ConfirmEnd(t) PROVE RestoresOwned' /\ StageOwned'
  BY <1>0, <1>18 DEF ConfirmEnd, Return
<1>. QED BY <1>1, <1>2, <1>3, <1>4, <1>5, <1>6, <1>7, <1>8, <1>9, <1>10, <1>11, <1>12,
            <1>13, <1>14, <1>15, <1>16, <1>17, <1>18
         DEF Next, AgentStep, RunnerStep, PrepareStep, ReadyStep, ConfirmStep

\* The initial states satisfy the inductive invariant.
LEMMA InitStageInv == Init => StageInv
<1>. SUFFICES ASSUME Init PROVE StageInv
  OBVIOUS
<1>1. backup \in [Pkgs -> SUBSET Versions]
  <2>1. {{}, {InitialVersion}} \subseteq SUBSET Versions
    BY UpdateAgentAssumption
  <2>. QED BY <2>1 DEF Init
<1>2. prepared \in [Pkgs -> [ver : Versions \cup {None}, cid : Campaigns \cup {None}]]
  BY DEF Init, NoPrepared
<1>3. pc \in [Threads -> ProgramSteps] /\ stage \in [Pkgs -> Stages]
      /\ rb_type \in [Pkgs -> RollbackTypes] /\ seen \in Stages
  BY DEF Init, ProgramSteps, Stages, RollbackTypes
<1>4. installed \in [Pkgs -> Versions]
  BY UpdateAgentAssumption DEF Init
<1>7. /\ inbox \in Seq(Commands) /\ seq_in \in [Pkgs -> Nat] /\ retry_cnt \in Nat
      /\ cur_campaign_id \in Campaigns \cup {None} /\ update_name \in Pkgs \cup {None}
      /\ manifest \in [Pkgs -> SUBSET Versions]
      /\ cmd \in [Threads -> Commands \cup {None}]
      /\ target \in Versions \cup {None} /\ outcome \in {"READY", "COMPLETED", "FAILED", "ROLLBACK"}
      /\ reply \in [Pkgs -> StatusType \cup {None}]
  BY DEF Init
<1>8. /\ update_error \in BOOLEAN /\ cleanup_ok \in BOOLEAN
      /\ dmc_handler_done \in BOOLEAN /\ worker_running \in BOOLEAN
  BY DEF Init
<1>9. TypeOK
  BY <1>1, <1>2, <1>3, <1>4, <1>7, <1>8 DEF TypeOK
<1>6. ThreadsOK /\ RestoresOwned /\ StageOwned
  BY DEF Init, ThreadsOK, RestoresOwned, StageOwned, Threads, ConfirmSteps
<1>. QED BY <1>6, <1>9 DEF StageInv

\* The inductive invariant: types, threads with a message, one worker, owned stages.
THEOREM StageInvariant == Spec => []StageInv
<1>1. ASSUME StageInv, [Next]_vars PROVE StageInv'
  <2>1. CASE Next
    BY <1>1, <2>1, TypeOKStep, ThreadsOKStep, StageOwnedStep DEF StageInv
  <2>2. CASE UNCHANGED vars
    BY <1>1, <2>2
       DEF StageInv, TypeOK, ThreadsOK, RestoresOwned, StageOwned, vars, compVars, fileVars,
           queueVars, flagVars, threadVars, localVars
  <2>. QED BY <1>1, <2>1, <2>2
<1>. QED BY <1>1, InitStageInv, PTL DEF Spec

\* Every variable keeps its type, for any commands in any order.
THEOREM TypeCorrect == Spec => []TypeOK
  BY StageInvariant, PTL DEF StageInv

\* No "started" stage is ever left behind by the handler that wrote it: neither an early
\* return of process_ready_update or process_prepare_update, nor a failed prepare that
\* restores an old stage, nor a racing confirm-update can wedge a package.
THEOREM NoStageLeftBehind == Spec => []StageOwned
  BY StageInvariant, PTL DEF StageInv

(***************************************************************************)
(* The action properties.                                                  *)
(***************************************************************************)

\* An accepted sequence number never lies below the one recorded before.
LEMMA AcceptSeqGrows ==
  ASSUME TypeOK, NEW m \in Commands, ~Outdated(m), AcceptSeq(m)
  PROVE  /\ m.seq <= seq_in'[m.pkg]
         /\ m.seq # 0 => seq_in[m.pkg] < m.seq
         /\ \A p \in Pkgs : seq_in[p] <= seq_in'[p]
<1>1. /\ seq_in \in [Pkgs -> Nat] /\ m.seq \in Nat /\ m.pkg \in Pkgs
  BY CommandFields DEF TypeOK
<1>. QED BY <1>1 DEF Outdated, AcceptSeq

\* No step lets the worker's command outrun the recorded sequence number.
LEMMA SequenceInvStep ==
  ASSUME TypeOK, ThreadsOK, SequenceInv, [Next]_vars
  PROVE  SequenceInv'
<1>. DEFINE w == cmd["worker"]
<1>0. /\ cmd \in [Threads -> Commands \cup {None}] /\ seq_in \in [Pkgs -> Nat]
      /\ Threads = {"runner", "worker"}
  BY DEF TypeOK, Threads
<1>1. w # None => w \in Commands /\ w.pkg \in Pkgs /\ w.seq \in Nat
  BY <1>0, CommandFields
<1>2. ASSUME NEW m \in Commands, ~Outdated(m), AcceptSeq(m), cmd'["worker"] \in {w, m}
      PROVE  SequenceInv'
  <2>1. m.seq <= seq_in'[m.pkg] /\ \A p \in Pkgs : seq_in[p] <= seq_in'[p]
    BY <1>2, AcceptSeqGrows
  <2>2. seq_in' \in [Pkgs -> Nat]
    BY <1>0, <1>2, CommandFields DEF AcceptSeq
  <2>. QED BY <1>0, <1>1, <1>2, <2>1, <2>2 DEF SequenceInv
<1>3. CASE RunnerConsumed \/ RunnerDiscard
  BY <1>2, <1>3, MsgIsCommand DEF RunnerConsumed, RunnerDiscard, Accept, threadVars
<1>4. CASE RunnerSpawn
  BY <1>0, <1>2, <1>4, MsgIsCommand DEF RunnerSpawn, Accept
<1>5. CASE RunnerExecute
  BY <1>0, <1>2, <1>5, MsgIsCommand DEF RunnerExecute, Accept
<1>6. ASSUME cmd'["worker"] = w, seq_in' = seq_in PROVE SequenceInv'
  BY <1>6 DEF SequenceInv
<1>7. CASE (\E m \in Commands : Deliver(m)) \/ DmcPresence \/ RunnerDrop
  BY <1>6, <1>7 DEF Deliver, DmcPresence, RunnerDrop, queueVars, threadVars
<1>8. CASE PrepareStep \/ ReadyStep \/ WorkerExit
  BY <1>6, <1>8 DEF PrepareStep, PrepareTest, PrepareBegin, PrepareInstall, PrepareEnd,
       ReadyStep, ReadyParse, ReadyBegin, ReadyInstall, ReadyBackup, ReadyDone, ReadyFlag,
       ReadyUnflag, ReadyRelease, WorkerExit, queueVars
<1>9. CASE \E t \in Threads : QueryPackage(t) \/ ConfirmStep(t)
  BY <1>6, <1>9 DEF QueryPackage, ConfirmStep, ConfirmTest, ConfirmSkip, ConfirmBegin,
       ConfirmClean, ConfirmEnd, queueVars
<1>10. CASE UNCHANGED vars
  BY <1>6, <1>10 DEF vars, queueVars, threadVars
<1>. QED BY <1>3, <1>4, <1>5, <1>7, <1>8, <1>9, <1>10 DEF Next, AgentStep, RunnerStep

\* worker_running is set by RunnerSpawn alone.
LEMMA OnlySpawnStartsWorker ==
  ASSUME [Next]_vars, ~worker_running, worker_running'
  PROVE  RunnerSpawn
<1>1. CASE (\E m \in Commands : Deliver(m)) \/ DmcPresence \/ RunnerDrop \/ RunnerConsumed
             \/ RunnerDiscard \/ RunnerExecute \/ WorkerExit
  BY <1>1 DEF Deliver, DmcPresence, RunnerDrop, RunnerConsumed, RunnerDiscard, RunnerExecute,
              WorkerExit, threadVars
<1>2. CASE PrepareStep \/ ReadyStep
  BY <1>2 DEF PrepareStep, PrepareTest, PrepareBegin, PrepareInstall, PrepareEnd,
       ReadyStep, ReadyParse, ReadyBegin, ReadyInstall, ReadyBackup, ReadyDone, ReadyFlag,
       ReadyUnflag, ReadyRelease
<1>3. CASE \E t \in Threads : QueryPackage(t) \/ ConfirmStep(t)
  BY <1>3 DEF QueryPackage, ConfirmStep, ConfirmTest, ConfirmSkip, ConfirmBegin,
       ConfirmClean, ConfirmEnd
<1>4. CASE UNCHANGED vars
  BY <1>4 DEF vars, threadVars
<1>. QED BY <1>1, <1>2, <1>3, <1>4 DEF Next, AgentStep, RunnerStep

\* Numbered commands of a package reach the worker in the order of their numbers, none
\* twice, whatever is duplicated, reordered or dropped on the way.
THEOREM WorkerOrder == Spec => WorkerInOrder
<1>. DEFINE Ordered == LET old == cmd["worker"]
                           new == cmd'["worker"]
                       IN  (~worker_running /\ worker_running' /\ old # None)
                             => (old.pkg = new.pkg /\ old.seq # 0 /\ new.seq # 0
                                   => old.seq < new.seq)
<1>1. Init => SequenceInv
  BY DEF Init, SequenceInv, Threads
<1>2. ASSUME StageInv, SequenceInv, [Next]_vars PROVE SequenceInv'
  BY <1>2, SequenceInvStep DEF StageInv
<1>3. ASSUME StageInv, SequenceInv, [Next]_vars PROVE Ordered
  <2>. SUFFICES ASSUME ~worker_running, worker_running', cmd["worker"] # None,
                       cmd["worker"].pkg = cmd'["worker"].pkg,
                       cmd["worker"].seq # 0, cmd'["worker"].seq # 0
                PROVE  cmd["worker"].seq < cmd'["worker"].seq
    OBVIOUS
  <2>0. TypeOK /\ cmd \in [Threads -> Commands \cup {None}] /\ "worker" \in Threads
    BY <1>3 DEF StageInv, TypeOK, Threads
  <2>1. PICK m \in Commands : /\ ~Outdated(m) /\ AcceptSeq(m)
                              /\ cmd' = [cmd EXCEPT !["worker"] = m]
    BY <1>3, <2>0, OnlySpawnStartsWorker, MsgIsCommand DEF RunnerSpawn, Accept
  <2>2. cmd'["worker"] = m
    BY <2>0, <2>1
  <2>3. seq_in[m.pkg] < m.seq
    BY <2>0, <2>1, <2>2, AcceptSeqGrows
  <2>4. cmd["worker"].seq <= seq_in[m.pkg]
    BY <1>3, <2>2 DEF SequenceInv
  <2>5. cmd["worker"].seq \in Nat /\ m.seq \in Nat /\ seq_in[m.pkg] \in Nat
    BY <2>0, <2>1, CommandFields DEF TypeOK
  <2>. QED BY <2>2, <2>3, <2>4, <2>5
<1>. QED BY <1>1, <1>2, <1>3, StageInvariant, PTL DEF Spec, WorkerInOrder

\* Only the parse and the installation touch update_file_info while it matters.
LEMMA TargetInvStep ==
  ASSUME TypeOK, ThreadsOK, TargetInv, [Next]_vars
  PROVE  TargetInv'
<1>. DEFINE m == cmd["worker"]
<1>. USE DEF Goto
<1>0. /\ pc \in [Threads -> ProgramSteps] /\ cmd \in [Threads -> Commands \cup {None}]
      /\ Threads = {"runner", "worker"}
  BY DEF TypeOK, Threads
<1>1. ASSUME pc'["worker"] = pc["worker"], cmd'["worker"] = m, target' = target
      PROVE  TargetInv'
  BY <1>1 DEF TargetInv, TargetVersion
<1>2. ASSUME pc'["worker"] \notin {"r_begin", "r_install"} PROVE TargetInv'
  BY <1>2 DEF TargetInv
<1>3. CASE (\E x \in Commands : Deliver(x)) \/ DmcPresence \/ RunnerDrop \/ RunnerConsumed
             \/ RunnerDiscard \/ UNCHANGED vars
  BY <1>1, <1>3 DEF Deliver, DmcPresence, RunnerDrop, RunnerConsumed, RunnerDiscard, Accept, Pop,
                    vars, threadVars, localVars
<1>4. CASE RunnerSpawn
  BY <1>0, <1>2, <1>4 DEF RunnerSpawn, FirstStep
<1>5. CASE RunnerExecute
  BY <1>0, <1>1, <1>5 DEF RunnerExecute, Accept, Pop, localVars
<1>6. CASE PrepareStep \/ WorkerExit
  <2>1. CASE PrepareTest
    BY <1>0, <1>2, <2>1 DEF PrepareTest
  <2>2. CASE PrepareBegin \/ PrepareInstall \/ PrepareEnd \/ WorkerExit
    BY <1>0, <1>2, <2>2 DEF PrepareBegin, PrepareInstall, PrepareEnd, WorkerExit
  <2>. QED BY <1>6, <2>1, <2>2 DEF PrepareStep
<1>7. CASE ReadyParse
  <2>1. CASE pc'["worker"] = "exit"
    BY <1>2, <2>1
  <2>2. CASE pc'["worker"] # "exit"
    <3>1. m \in Commands
      BY <1>7 DEF ReadyParse, ThreadsOK, Threads
    <3>2. ParseFound(m, TargetVersion(m))
      BY <1>0, <1>7, <2>2 DEF ReadyParse
    <3>3. TargetVersion(m) \in m.listed => target' = TargetVersion(m)
      BY <3>1, <3>2, CommandFields DEF ParseFound
    <3>4. cmd' = cmd
      BY <1>7 DEF ReadyParse
    <3>. QED BY <3>3, <3>4 DEF TargetInv, TargetVersion
  <2>. QED BY <2>1, <2>2
<1>8. CASE ReadyBegin
  BY <1>0, <1>8 DEF ReadyBegin, localVars, TargetInv, TargetVersion
<1>9. CASE ReadyStep /\ ~ReadyParse /\ ~ReadyBegin
  BY <1>0, <1>2, <1>9 DEF ReadyStep, ReadyInstall, ReadyBackup, ReadyDone, ReadyFlag,
                          ReadyUnflag, ReadyRelease
<1>10. ASSUME NEW t \in Threads, QueryPackage(t) \/ ConfirmStep(t) PROVE TargetInv'
  <2>1. target' = target /\ cmd' = cmd
    BY <1>10 DEF QueryPackage, ConfirmStep, ConfirmTest, ConfirmSkip, ConfirmBegin,
                 ConfirmClean, ConfirmEnd, localVars
  <2>2. pc'["worker"] = pc["worker"] \/ pc'["worker"] \notin {"r_begin", "r_install"}
    BY <1>0, <1>10 DEF QueryPackage, ConfirmStep, ConfirmTest, ConfirmSkip, ConfirmBegin,
                 ConfirmClean, ConfirmEnd, Return
  <2>. QED BY <1>1, <1>2, <2>1, <2>2
<1>. QED BY <1>3, <1>4, <1>5, <1>6, <1>7, <1>8, <1>9, <1>10 DEF Next, AgentStep, RunnerStep

\* installed is changed by ReadyInstall alone.
LEMMA OnlyInstallInstalls ==
  ASSUME [Next]_vars, installed' # installed
  PROVE  ReadyInstall
<1>. USE DEF fileVars
<1>1. CASE (\E m \in Commands : Deliver(m)) \/ DmcPresence \/ RunnerStep \/ WorkerExit
  BY <1>1 DEF Deliver, DmcPresence, RunnerStep, RunnerDrop, RunnerConsumed, RunnerDiscard,
              RunnerSpawn, RunnerExecute, Accept, Pop, WorkerExit
<1>2. CASE PrepareStep
  BY <1>2 DEF PrepareStep, PrepareTest, PrepareBegin, PrepareInstall, PrepareEnd
<1>3. CASE ReadyStep
  BY <1>3 DEF ReadyStep, ReadyParse, ReadyBegin, ReadyBackup, ReadyDone, ReadyFlag,
              ReadyUnflag, ReadyRelease
<1>4. CASE \E t \in Threads : QueryPackage(t) \/ ConfirmStep(t)
  BY <1>4 DEF QueryPackage, ConfirmStep, ConfirmTest, ConfirmSkip, ConfirmBegin,
              ConfirmClean, ConfirmEnd
<1>5. CASE UNCHANGED vars
  BY <1>5 DEF vars
<1>. QED BY <1>1, <1>2, <1>3, <1>4, <1>5 DEF Next, AgentStep

\* The device changes only on the package of the ready-update at work and, if that has a
\* rollback version or its version is in its version-list, only to the version it asks for,
\* although update_file_info outlives the commands that filled it.  Without either, the
\* parse may leave what an earlier command asked for (updater.c:669-673), which the theorem
\* does not exclude.
THEOREM RequestedInstalls == Spec => InstallsRequested
<1>. DEFINE Requested == \A p \in Pkgs : installed'[p] # installed[p] =>
              LET m == cmd["worker"]
              IN  m.pkg = p /\ (m.rb # None \/ m.version \in m.listed
                                   => installed'[p] = TargetVersion(m))
<1>1. Init => TargetInv
  BY DEF Init, TargetInv, Threads
<1>2. ASSUME StageInv, TargetInv, [Next]_vars PROVE TargetInv'
  BY <1>2, TargetInvStep DEF StageInv
<1>3. ASSUME StageInv, TargetInv, [Next]_vars PROVE Requested
  <2>. DEFINE m == cmd["worker"]
  <2>. SUFFICES ASSUME NEW p \in Pkgs, installed'[p] # installed[p]
                PROVE  /\ m.pkg = p
                       /\ m.rb # None \/ m.version \in m.listed
                            => installed'[p] = TargetVersion(m)
    OBVIOUS
  <2>1. ReadyInstall /\ TypeOK /\ installed \in [Pkgs -> Versions]
    BY <1>3, OnlyInstallInstalls DEF StageInv, TypeOK
  <2>2. m \in Commands
    BY <1>3, <2>1 DEF StageInv, ThreadsOK, Threads, ReadyInstall
  <2>3. PICK a \in Answers : Perform(m.pkg, a, ReadyResult(m, a))
    BY <2>1 DEF ReadyInstall
  <2>. DEFINE r == ReadyResult(m, a)
  <2>4. r.target = IF m.rb # None THEN m.rb ELSE target
    BY <2>1, <2>2, ReadyResultType
  <2>. HIDE DEF r
  <2>5. installed' = [installed EXCEPT ![m.pkg] = r.target]
    BY <2>3 DEF Perform, r
  <2>6. m.pkg = p /\ installed'[p] = r.target
    BY <2>1, <2>5
  <2>7. TargetVersion(m) \in m.listed => target = TargetVersion(m)
    BY <1>3, <2>1 DEF TargetInv, ReadyInstall
  <2>. QED BY <2>4, <2>6, <2>7 DEF TargetVersion
<1>. QED BY <1>1, <1>2, <1>3, StageInvariant, PTL DEF Spec, InstallsRequested

-----------------------------------------------------------------------------
(***************************************************************************)
(* The campaign.  Its invariant has four parts: the DMC has at most one    *)
(* command of a package under way and no old confirm-update is left when   *)
(* it matters; no clean-up disturbs an installation; the record of the     *)
(* prepared version is never trusted wrongly; and every answer says what   *)
(* is in the manifest and on the device.                                   *)
(***************************************************************************)
\* What the DMC sends for p and expects an answer to, and what it does not.
Asks(m, p) == m.pkg = p /\ m.type \in {"prepare-update", "ready-update"}
\* A clean-up that the DMC asks for and that is never answered.
Confirms(m, p) == m.pkg = p /\ m.type = "confirm-update"

\* The worker has a command of p that it has not answered yet.
Unanswered(p) ==
  /\ pc["worker"] \in {"p_test", "p_begin", "p_install", "r_parse", "r_begin", "r_install"}
  /\ cmd["worker"].pkg = p

\* The DMC has sent a command of p and waits for its answer.
Waiting(p) == dmc[p].phase \in {"prepare", "ready"} /\ dmc[p].sent

\* Phase and campaign go together.
DmcOK(p) ==
  /\ dmc[p].phase # "idle" => dmc[p].campaign # 0 /\ dmc[p].version \in Targets
  /\ dmc[p].rb \in RollbackSet \cup {None}

\* The DMC has at most one command of p under way: in the queue, on the worker, or as an
\* answer that it has not read.
OneAsked(p) ==
  /\ \A i \in DOMAIN inbox : Asks(inbox[i], p) =>
       /\ Waiting(p) /\ inbox[i] = CampaignMessage(p, dmc[p])
       /\ ~Unanswered(p) /\ reply[p] = None
       /\ \A j \in DOMAIN inbox : Asks(inbox[j], p) => j = i
  /\ Unanswered(p) => Waiting(p) /\ cmd["worker"] = CampaignMessage(p, dmc[p]) /\ reply[p] = None
  /\ reply[p] # None => Waiting(p)

\* The confirm-updates of earlier campaigns are done with.
Late(p) ==
  \/ dmc[p].phase = "ready" \/ (dmc[p].phase = "prepare" /\ dmc[p].rb # None)
  \/ Unanswered(p) \/ reply[p] # None

\* A confirm-update of p that is queued or running belongs to an earlier campaign.
NoConfirm(p) ==
  /\ \A i \in DOMAIN inbox : Confirms(inbox[i], p) =>
       ~Late(p) /\ \A j \in DOMAIN inbox : Asks(inbox[j], p) => i < j
  /\ pc["runner"] \in ConfirmSteps /\ cmd["runner"].pkg = p => ~Late(p)

\* Handlers run for the commands they are made for, each of a campaign.
Handlers ==
  /\ \A i \in DOMAIN inbox : inbox[i].campaign \in 1 .. dmc[inbox[i].pkg].campaign
  /\ cmd["worker"] # None => cmd["worker"].campaign \in 1 .. dmc[cmd["worker"].pkg].campaign
  /\ pc["worker"] \in PrepareSteps => cmd["worker"].type = "prepare-update"
  /\ pc["worker"] \in ReadySteps \cup ConfirmSteps => cmd["worker"].type = "ready-update"

\* DoNotDisturb up to the end of the backup, and what protects it: no clean-up of the
\* package has got past its test.
Undisturbed ==
  pc["worker"] \in {"r_install", "r_backup", "r_done"} =>
    /\ stage[cmd["worker"].pkg] = "READY_UPDATE_STARTED"
    /\ pc["runner"] \in {"c_begin", "c_clean", "c_end"} => cmd["runner"].pkg # cmd["worker"].pkg

\* A handler works with the campaign id of its message, and never compares a record
\* without one.
CampaignKnown ==
  /\ pc["worker"] \in {"p_begin", "p_install", "p_end", "r_begin"} =>
       cur_campaign_id = cmd["worker"].campaign
  /\ pc["worker"] \in {"p_begin", "p_install", "p_end"} /\ seen = "PREPARE_UPDATE_DONE" =>
       prepared[cmd["worker"].pkg].cid # None
  /\ pc["worker"] # "crash"

\* The record of the prepared version is of a campaign of p, and says nothing about the
\* command that the DMC is about to send.
RecordOK(p) ==
  /\ prepared[p].cid # None => prepared[p].cid \in 1 .. dmc[p].campaign
  /\ stage[p] = "PREPARE_UPDATE_DONE" => prepared[p].cid # None
  /\ dmc[p].phase = "prepare" /\ reply[p] = None /\ prepared[p].cid = dmc[p].campaign =>
       prepared[p].ver = None
  /\ pc["worker"] = "r_install" /\ cmd["worker"].pkg = p => prepared[p].ver = None
  /\ pc["worker"] = "p_end" /\ outcome = "READY" /\ cmd["worker"].pkg = p =>
       \/ dmc[p].phase = "prepare" /\ reply[p] # None /\ reply[p].st = "READY"
       \/ dmc[p].phase = "ready" /\ reply[p] = None

\* An answer to a prepare-update is truthful and comes after all but the last step.
PreparedOK(p) ==
  dmc[p].phase = "prepare" /\ reply[p] # None =>
    /\ cmd["worker"] # None /\ cmd["worker"].pkg = p => pc["worker"] \in {"p_end", "exit", "idle", "query"}
    /\ reply[p].st # "COMPLETED"
    /\ reply[p].st = "READY" => Wanted(dmc[p]) \in manifest[p]

\* Status s makes the DMC go on to another version than campaign d wanted.
Announces(s, d) == s.st # "COMPLETED" /\ s.rb \notin {None, d.rb} /\ ~s.term

\* An answer to a ready-update is truthful, and goes down the rollback list one by one.
AnswerOK(p) ==
  dmc[p].phase = "ready" /\ reply[p] # None =>
    /\ reply[p].st # "READY"
    /\ reply[p].st = "COMPLETED" => installed[p] = Wanted(dmc[p])
    /\ Announces(reply[p], dmc[p]) =>
         /\ reply[p].rb = NextRollback(RollbackVersions, Wanted(dmc[p]))
         /\ installed[p] # Wanted(dmc[p])
         /\ prepared[p].ver = None

\* The version of a campaign is not on the device before a ready-update reports it.
NotYet(p) ==
  /\ dmc[p].rb = None
  /\ \/ dmc[p].phase = "prepare"
     \/ dmc[p].phase = "ready" /\ (reply[p] = None \/ reply[p].st # "COMPLETED")
  => installed[p] # dmc[p].version

\* The order of commands and answers, of every package.
TokenInv == (\A p \in Pkgs : OneAsked(p) /\ NoConfirm(p)) /\ Handlers

-----------------------------------------------------------------------------
\* What a message of the DMC says.
LEMMA CampaignMessageFields ==
  ASSUME NEW p \in Pkgs, NEW d \in DmcType, d.phase # "idle", d.campaign # 0
  PROVE  LET m == CampaignMessage(p, d)
         IN  /\ m \in Commands /\ m.pkg = p
             /\ m.version = d.version /\ m.rb = d.rb /\ m.version \in m.listed
             /\ m.campaign = d.campaign /\ m.campaign # None
             /\ TargetVersion(m) = Wanted(d)
             /\ m.type = "prepare-update" <=> d.phase = "prepare"
             /\ m.type = "ready-update" <=> d.phase = "ready"
             /\ m.type = "confirm-update" <=> d.phase \in {"confirm", "abandon"}
             /\ m.type # "query-package"
             /\ d.phase = "ready" => m.rbs = RollbackVersions
<1>1. /\ d.phase \in Phases /\ d.campaign \in 0 .. MaxCampaigns /\ d.campaign # 0
      /\ d.version \in Versions /\ d.rb \in Versions \cup {None}
  BY DEF DmcType
<1>2. d.campaign # None
  BY <1>1, CampaignAssumption, UpdateAgentAssumption
<1>. QED BY <1>1, <1>2, CommandsAssumption DEF CampaignMessage, TargetVersion, Wanted, Phases

\* Steps that leave the queue, the messages and the DMC alone.
LEMMA TokenFrame ==
  ASSUME TokenInv,
         inbox' = inbox, cmd' = cmd, dmc' = dmc,
         pc'["runner"] \in ConfirmSteps => pc["runner"] \in ConfirmSteps,
         pc'["worker"] \in PrepareSteps => pc["worker"] \in PrepareSteps,
         pc'["worker"] \in ReadySteps \cup ConfirmSteps =>
           pc["worker"] \in ReadySteps \cup ConfirmSteps,
         \A p \in Pkgs : \/ reply'[p] = reply[p] /\ (Unanswered(p)' => Unanswered(p))
                         \/ Unanswered(p) /\ ~Unanswered(p)'
  PROVE  TokenInv'
<1>1. Handlers'
  BY DEF TokenInv, Handlers
<1>2. ASSUME NEW p \in Pkgs PROVE OneAsked(p)' /\ NoConfirm(p)'
  <2>1. OneAsked(p) /\ NoConfirm(p)
    BY DEF TokenInv
  <2>2. Waiting(p)' <=> Waiting(p)
    BY DEF Waiting
  <2>3. OneAsked(p)'
    BY <2>1, <2>2 DEF OneAsked, Asks
  <2>4. Late(p)' => Late(p)
    BY DEF Late
  <2>5. NoConfirm(p)'
    BY <2>1, <2>4 DEF NoConfirm, Asks, Confirms
  <2>. QED BY <2>3, <2>5
<1>. QED BY <1>1, <1>2 DEF TokenInv

\* Taking the first message off the queue.
LEMMA TailFacts ==
  ASSUME NEW S, NEW q \in Seq(S), q # <<>>
  PROVE  /\ Head(q) = q[1] /\ 1 \in DOMAIN q /\ Head(q) \in S
         /\ Tail(q) \in Seq(S)
         /\ \A i \in DOMAIN Tail(q) : i \in Nat /\ i > 0 /\ i + 1 \in DOMAIN q /\ Tail(q)[i] = q[i + 1]
  OBVIOUS

\* Putting a message at the end of the queue.
LEMMA AppendFacts ==
  ASSUME NEW S, NEW q \in Seq(S), NEW m \in S
  PROVE  /\ Append(q, m) \in Seq(S)
         /\ \A i \in DOMAIN Append(q, m) :
              \/ i \in DOMAIN q /\ Append(q, m)[i] = q[i] /\ i < Len(q) + 1
              \/ i = Len(q) + 1 /\ Append(q, m)[i] = m
         /\ \A i \in DOMAIN q : i \in Nat /\ i < Len(q) + 1
  OBVIOUS

\* A message leaves the queue: for a thread, or for nothing.
LEMMA TokenPop ==
  ASSUME TypeOK, ThreadsOK, TokenInv, Pop, dmc' = dmc,
         \/ UNCHANGED threadVars
         \/ RunnerSpawn
         \/ RunnerExecute
  PROVE  TokenInv'
<1>. DEFINE q == inbox
<1>0. /\ q \in Seq(Commands) /\ q # <<>> /\ inbox' = Tail(q) /\ pc["runner"] = "idle"
      /\ reply' = reply /\ Msg = Head(q)
      /\ pc \in [Threads -> ProgramSteps] /\ cmd \in [Threads -> Commands \cup {None}]
      /\ Threads = {"runner", "worker"}
  BY DEF Pop, TypeOK, Msg, Threads
<1>1. /\ Head(q) = q[1] /\ 1 \in DOMAIN q /\ Head(q) \in Commands
      /\ \A i \in DOMAIN Tail(q) : i \in Nat /\ i > 0 /\ i + 1 \in DOMAIN q /\ Tail(q)[i] = q[i + 1]
  BY <1>0, TailFacts
<1>. HIDE DEF q
<1>2. Msg \in Commands /\ Msg # None /\ Msg = q[1] /\ Msg.pkg \in Pkgs
      /\ Msg.type \in {"query-package", "prepare-update", "ready-update", "confirm-update"}
  BY <1>0, <1>1, CommandFields DEF Message
<1>3. /\ \A i \in DOMAIN q : q[i].campaign \in 1 .. dmc[q[i].pkg].campaign
      /\ \A p \in Pkgs : OneAsked(p) /\ NoConfirm(p)
  BY DEF TokenInv, Handlers, q
<1>4. CASE UNCHANGED threadVars
  <2>1. Handlers'
    BY <1>0, <1>1, <1>3, <1>4 DEF TokenInv, Handlers, threadVars
  <2>2. ASSUME NEW p \in Pkgs PROVE OneAsked(p)' /\ NoConfirm(p)'
    <3>1. (Unanswered(p)' <=> Unanswered(p)) /\ (Late(p)' <=> Late(p)) /\ (Waiting(p)' <=> Waiting(p))
      BY <1>0, <1>4 DEF Unanswered, Late, Waiting, threadVars
    <3>2. OneAsked(p)'
      BY <1>0, <1>1, <1>3, <1>4, <3>1 DEF OneAsked, Asks, threadVars, q
    <3>3. NoConfirm(p)'
      BY <1>0, <1>1, <1>3, <1>4, <3>1 DEF NoConfirm, Asks, Confirms, threadVars, q
    <3>. QED BY <3>2, <3>3
  <2>. QED BY <2>1, <2>2 DEF TokenInv
<1>5. CASE RunnerSpawn
  <2>. USE DEF FirstStep, OnWorker
  <2>1. /\ pc' = [pc EXCEPT !["worker"] = FirstStep(Msg)]
        /\ cmd' = [cmd EXCEPT !["worker"] = Msg] /\ OnWorker(Msg) /\ ~worker_running
    BY <1>5 DEF RunnerSpawn
  <2>2. pc'["runner"] = "idle" /\ cmd'["worker"] = Msg /\ pc'["worker"] \in {"query", "p_test", "r_parse"}
    BY <1>0, <2>1
  <2>3. pc'["worker"] = "p_test" => Msg.type = "prepare-update"
    BY <1>0, <2>1
  <2>4. pc'["worker"] = "r_parse" => Msg.type = "ready-update"
    BY <1>0, <1>2, <2>1
  <2>5. Handlers'
    BY <1>0, <1>1, <1>2, <1>3, <2>2, <2>3, <2>4
       DEF TokenInv, Handlers, PrepareSteps, ReadySteps, ConfirmSteps
  <2>6. ASSUME NEW p \in Pkgs PROVE OneAsked(p)' /\ NoConfirm(p)'
    <3>1. pc["worker"] \in {"idle", "crash"}
      BY <2>1 DEF ThreadsOK
    <3>2. Unanswered(p)' => Asks(q[1], p)
      BY <1>0, <1>2, <2>2, <2>3, <2>4 DEF Unanswered, Asks
    <3>3. ~Unanswered(p) /\ (Waiting(p)' <=> Waiting(p))
      BY <3>1 DEF Unanswered, Waiting
    <3>4. OneAsked(p)'
      <4>1. ASSUME NEW i \in DOMAIN inbox', Asks(inbox[i], p)'
            PROVE  /\ Waiting(p)' /\ inbox'[i] = CampaignMessage(p, dmc'[p])
                   /\ ~Unanswered(p)' /\ reply'[p] = None
                   /\ \A j \in DOMAIN inbox' : Asks(inbox[j], p)' => j = i
        <5>1. i + 1 \in DOMAIN q /\ Asks(q[i + 1], p) /\ i + 1 # 1 /\ inbox'[i] = q[i + 1]
          BY <1>0, <1>1, <4>1 DEF Asks
        <5>2. ~Asks(q[1], p)
          BY <1>1, <1>3, <5>1 DEF OneAsked, q
        <5>3. \A j \in DOMAIN inbox' : Asks(inbox[j], p)' => j + 1 = i + 1
          BY <1>0, <1>1, <1>3, <5>1 DEF OneAsked, Asks, q
        <5>. QED BY <1>0, <1>1, <1>3, <3>2, <3>3, <5>1, <5>2, <5>3 DEF OneAsked, q
      <4>2. Unanswered(p)' => Waiting(p)' /\ cmd'["worker"] = CampaignMessage(p, dmc'[p]) /\ reply'[p] = None
        BY <1>0, <1>1, <1>2, <1>3, <2>2, <3>2, <3>3 DEF OneAsked, q
      <4>3. reply'[p] # None => Waiting(p)'
        BY <1>0, <1>3, <3>3 DEF OneAsked
      <4>. QED BY <4>1, <4>2, <4>3 DEF OneAsked
    <3>5. NoConfirm(p)'
      <4>1. ASSUME NEW i \in DOMAIN inbox', Confirms(inbox[i], p)' PROVE ~Late(p)'
        <5>1. i + 1 \in DOMAIN q /\ Confirms(q[i + 1], p) /\ ~(i + 1 < 1)
          BY <1>0, <1>1, <4>1 DEF Confirms
        <5>2. ~Asks(q[1], p) /\ ~Late(p)
          BY <1>1, <1>3, <5>1 DEF NoConfirm, q
        <5>. QED BY <1>0, <3>2, <5>2 DEF Late
      <4>2. ASSUME NEW i \in DOMAIN inbox', Confirms(inbox[i], p)', NEW j \in DOMAIN inbox', Asks(inbox[j], p)'
            PROVE  i < j
        BY <1>0, <1>1, <1>3, <4>2 DEF NoConfirm, Confirms, Asks, q
      <4>. QED BY <2>2, <4>1, <4>2 DEF NoConfirm, ConfirmSteps
    <3>. QED BY <3>4, <3>5
  <2>. QED BY <2>5, <2>6 DEF TokenInv
<1>6. CASE RunnerExecute
  <2>1. /\ pc' = [pc EXCEPT !["runner"] = FirstStep(Msg)]
        /\ cmd' = [cmd EXCEPT !["runner"] = Msg] /\ ~OnWorker(Msg)
    BY <1>6 DEF RunnerExecute
  <2>2. pc'["worker"] = pc["worker"] /\ cmd'["worker"] = cmd["worker"] /\ cmd'["runner"] = Msg
    BY <1>0, <2>1
  <2>3. pc'["runner"] \in ConfirmSteps => Msg.type = "confirm-update"
    BY <1>0, <1>2, <2>1 DEF OnWorker, FirstStep, ConfirmSteps
  <2>4. Handlers'
    BY <1>0, <1>1, <1>3, <2>2 DEF TokenInv, Handlers
  <2>5. ASSUME NEW p \in Pkgs PROVE OneAsked(p)' /\ NoConfirm(p)'
    <3>1. (Unanswered(p)' <=> Unanswered(p)) /\ (Late(p)' <=> Late(p)) /\ (Waiting(p)' <=> Waiting(p))
      BY <1>0, <2>2 DEF Unanswered, Late, Waiting
    <3>2. OneAsked(p)'
      BY <1>0, <1>1, <1>3, <2>2, <3>1 DEF OneAsked, Asks, q
    <3>3. NoConfirm(p)'
      <4>1. pc'["runner"] \in ConfirmSteps /\ cmd'["runner"].pkg = p => ~Late(p)
        BY <1>1, <1>2, <1>3, <2>2, <2>3 DEF NoConfirm, Confirms, q
      <4>2. ASSUME NEW i \in DOMAIN inbox', Confirms(inbox[i], p)'
            PROVE  ~Late(p) /\ \A j \in DOMAIN inbox' : Asks(inbox[j], p)' => i < j
        BY <1>0, <1>1, <1>3, <4>2 DEF NoConfirm, Confirms, Asks, q
      <4>. QED BY <3>1, <4>1, <4>2 DEF NoConfirm
    <3>. QED BY <3>2, <3>3
  <2>. QED BY <2>4, <2>5 DEF TokenInv
<1>. QED BY <1>4, <1>5, <1>6

\* The agent's steps keep the order of commands and answers.
LEMMA TokenAgent ==
  ASSUME TypeOK, ThreadsOK, TokenInv, AgentStep, dmc' = dmc
  PROVE  TokenInv'
<1>. USE DEF Goto, Return, PrepareSteps, ReadySteps, ConfirmSteps, Unanswered
<1>0. /\ pc \in [Threads -> ProgramSteps] /\ cmd \in [Threads -> Commands \cup {None}]
      /\ reply \in [Pkgs -> StatusType \cup {None}] /\ Threads = {"runner", "worker"}
  BY DEF TypeOK, Threads
<1>1. CASE RunnerStep
  BY <1>1, TokenPop DEF RunnerStep, RunnerDrop, RunnerConsumed, RunnerDiscard, RunnerSpawn,
                        RunnerExecute, Accept
<1>2. CASE DmcPresence
  BY <1>0, <1>2, TokenFrame DEF DmcPresence, threadVars
<1>3. CASE PrepareTest
  <2>1. /\ inbox' = inbox /\ cmd' = cmd /\ pc["worker"] = "p_test"
        /\ \A p \in Pkgs : cmd["worker"].pkg # p => reply'[p] = reply[p]
    BY <1>0, <1>3 DEF PrepareTest, queueVars, Send
  <2>2. pc["runner"] \notin {"crash"}
    BY <2>1 DEF ThreadsOK
  <2>3. /\ pc'["runner"] \in {pc["runner"], "crash"}
        /\ \/ pc'["worker"] \in {"exit", "crash"}
           \/ pc'["worker"] = "p_begin" /\ reply' = reply
    BY <1>0, <1>3 DEF PrepareTest
  <2>. QED BY <2>1, <2>3, TokenFrame
<1>4. CASE PrepareBegin \/ PrepareEnd
  BY <1>0, <1>4, TokenFrame DEF PrepareBegin, PrepareEnd, queueVars
<1>5. CASE PrepareInstall
  <2>1. /\ inbox' = inbox /\ cmd' = cmd /\ pc["worker"] = "p_install"
        /\ pc'["runner"] = pc["runner"] /\ pc'["worker"] = "p_end"
        /\ \A p \in Pkgs : cmd["worker"].pkg # p => reply'[p] = reply[p]
    BY <1>0, <1>5 DEF PrepareInstall, queueVars, Send
  <2>. QED BY <2>1, TokenFrame
<1>6. CASE ReadyParse
  <2>1. /\ inbox' = inbox /\ cmd' = cmd /\ pc["worker"] = "r_parse"
        /\ pc'["runner"] = pc["runner"]
        /\ \A p \in Pkgs : cmd["worker"].pkg # p => reply'[p] = reply[p]
        /\ pc'["worker"] = "exit" \/ (pc'["worker"] = "r_begin" /\ reply' = reply)
    BY <1>0, <1>6 DEF ReadyParse, ParseFailed, queueVars, Send
  <2>. QED BY <2>1, TokenFrame
<1>7. CASE ReadyInstall
  <2>1. /\ inbox' = inbox /\ cmd' = cmd /\ pc["worker"] = "r_install"
        /\ pc'["runner"] = pc["runner"] /\ pc'["worker"] = "r_backup"
    BY <1>0, <1>7 DEF ReadyInstall, queueVars
  <2>2. \A p \in Pkgs : cmd["worker"].pkg # p => reply'[p] = reply[p]
    BY <1>0, <1>7 DEF ReadyInstall, Perform
  <2>. QED BY <2>1, <2>2, TokenFrame
<1>8. CASE ReadyBegin \/ ReadyBackup \/ ReadyDone \/ ReadyFlag \/ ReadyUnflag \/ ReadyRelease \/ WorkerExit
  <2>1. inbox' = inbox /\ cmd' = cmd /\ reply' = reply /\ pc'["runner"] = pc["runner"]
    BY <1>0, <1>8 DEF ReadyBegin, ReadyBackup, ReadyDone, ReadyFlag, ReadyUnflag, ReadyRelease,
                      WorkerExit, queueVars
  <2>2. \/ pc["worker"] = "r_begin" /\ pc'["worker"] = "r_install"
        \/ /\ pc["worker"] \in ReadySteps
           /\ pc'["worker"] \in {"r_done", "r_flag", "r_release", "c_test", "exit"}
        \/ pc'["worker"] = "idle"
    BY <1>0, <1>8 DEF ReadyBegin, ReadyBackup, ReadyDone, ReadyFlag, ReadyUnflag, ReadyRelease,
                      WorkerExit
  <2>. QED BY <2>1, <2>2, TokenFrame
<1>9. ASSUME NEW t \in Threads, QueryPackage(t) \/ ConfirmStep(t) PROVE TokenInv'
  <2>1. inbox' = inbox /\ cmd' = cmd /\ reply' = reply
    BY <1>9 DEF QueryPackage, ConfirmStep, ConfirmTest, ConfirmSkip, ConfirmBegin, ConfirmClean,
                ConfirmEnd, queueVars
  <2>2. \/ /\ t = "runner" /\ pc'["worker"] = pc["worker"]
           /\ pc["runner"] \in ConfirmSteps \/ pc'["runner"] = "idle"
        \/ /\ t = "worker" /\ pc'["runner"] = pc["runner"]
           /\ \/ pc'["worker"] = "exit"
              \/ pc["worker"] \in ConfirmSteps /\ pc'["worker"] \in ConfirmSteps \cup {"r_unflag"}
    BY <1>0, <1>9 DEF QueryPackage, ConfirmStep, ConfirmTest, ConfirmSkip, ConfirmBegin,
                ConfirmClean, ConfirmEnd
  <2>. QED BY <2>1, <2>2, TokenFrame
<1>. QED BY <1>1, <1>2, <1>3, <1>4, <1>5, <1>6, <1>7, <1>8, <1>9
         DEF AgentStep, PrepareStep, ReadyStep

\* A campaign goes on from a status in one of these ways.
LEMMA AfterStatusCases ==
  ASSUME NEW d \in DmcType, NEW s \in StatusType, NEW e \in AfterStatus(d, s)
  PROVE  /\ e.version = d.version /\ e.campaign = d.campaign
         /\ \/ /\ d.phase = "prepare" /\ e.rb = d.rb /\ e.failed = d.failed /\ ~e.sent
               /\ e.phase = IF s.st = "READY" THEN "ready" ELSE "idle"
            \/ e = d /\ d.phase # "prepare" /\ (d.phase = "ready" => s.st = "READY")
            \/ /\ d.phase = "ready" /\ s.st = "COMPLETED"
               /\ e.phase = "confirm" /\ e.rb = d.rb /\ e.failed = d.failed /\ ~e.sent
            \/ /\ d.phase = "ready" /\ s.st \notin {"READY", "COMPLETED"}
               /\ s.rb \notin {None, d.rb} /\ ~s.term
               /\ e.phase \in {"prepare", "ready"} /\ e.rb = s.rb /\ e.failed = d.failed /\ ~e.sent
            \/ /\ d.phase = "ready" /\ s.st \notin {"READY", "COMPLETED"}
               /\ s.rb \in {None, d.rb} \/ s.term
               /\ d.rb # None \/ s.term
               /\ e.phase = "idle" /\ e.rb = d.rb /\ e.failed = d.failed /\ ~e.sent
            \/ /\ d.phase = "ready" /\ s.st \notin {"READY", "COMPLETED"}
               /\ d.rb = None /\ s.rb = None /\ ~s.term
               /\ e.phase = "abandon" /\ e.rb = None /\ e.failed = d.failed /\ ~e.sent
            \/ /\ d.phase = "ready" /\ s.st \notin {"READY", "COMPLETED"}
               /\ d.rb = None /\ s.rb = None /\ ~s.term
               /\ e.phase = "ready" /\ e.rb = None /\ e.failed = d.failed + 1
               /\ d.failed < MaxAttempts /\ ~e.sent
         /\ e \in DmcType
<1>0. /\ d.phase \in Phases /\ d.version \in Versions /\ d.rb \in Versions \cup {None}
      /\ d.sent \in BOOLEAN /\ d.failed \in 0 .. MaxAttempts /\ d.campaign \in 0 .. MaxCampaigns
      /\ d = [phase |-> d.phase, version |-> d.version, rb |-> d.rb, sent |-> d.sent,
              failed |-> d.failed, campaign |-> d.campaign]
  BY DEF DmcType
<1>1. s.rb \in Versions \cup {None} /\ s.term \in BOOLEAN
  BY DEF StatusType
<1>2. MaxAttempts \in Nat
  BY CampaignAssumption
<1>. DEFINE to(phase) == [d EXCEPT !.phase = phase, !.sent = FALSE]
            retry     == [to("ready") EXCEPT !.failed = @ + 1]
            next(phase) == [to(phase) EXCEPT !.rb = s.rb]
<1>3. ASSUME NEW x \in Phases
      PROVE  /\ to(x).phase = x /\ to(x).version = d.version /\ to(x).campaign = d.campaign
             /\ to(x).rb = d.rb /\ to(x).failed = d.failed /\ ~to(x).sent /\ to(x) \in DmcType
             /\ next(x).phase = x /\ next(x).version = d.version /\ next(x).campaign = d.campaign
             /\ next(x).rb = s.rb /\ next(x).failed = d.failed /\ ~next(x).sent /\ next(x) \in DmcType
  <2>1. /\ to(x).phase = x /\ to(x).version = d.version /\ to(x).campaign = d.campaign
        /\ to(x).rb = d.rb /\ to(x).failed = d.failed /\ ~to(x).sent
    BY <1>0 DEF DmcType
  <2>2. to(x) \in DmcType
    BY <1>0 DEF DmcType
  <2>3. /\ next(x).phase = x /\ next(x).version = d.version /\ next(x).campaign = d.campaign
        /\ next(x).rb = s.rb /\ next(x).failed = d.failed /\ ~next(x).sent
    BY <1>0 DEF DmcType
  <2>4. next(x) \in DmcType
    BY <1>0, <1>1 DEF DmcType
  <2>. QED BY <2>1, <2>2, <2>3, <2>4
<1>4. /\ retry.phase = "ready" /\ retry.version = d.version /\ retry.campaign = d.campaign
      /\ retry.rb = d.rb /\ retry.failed = d.failed + 1 /\ ~retry.sent
      /\ d.failed < MaxAttempts => retry \in DmcType
  <2>1. /\ retry.phase = "ready" /\ retry.version = d.version /\ retry.campaign = d.campaign
        /\ retry.rb = d.rb /\ ~retry.sent
    BY <1>0 DEF DmcType
  <2>2. retry.failed = d.failed + 1
    BY <1>0 DEF DmcType
  <2>3. ASSUME d.failed < MaxAttempts PROVE retry \in DmcType
    <3>1. d.failed + 1 \in 0 .. MaxAttempts
      BY <1>0, <1>2, <2>3
    <3>. QED BY <1>0, <3>1 DEF DmcType, Phases
  <2>. QED BY <2>1, <2>2, <2>3
<1>5. /\ d.phase = "prepare" => e = to(IF s.st = "READY" THEN "ready" ELSE "idle")
      /\ d.phase # "prepare" /\ (d.phase # "ready" \/ s.st = "READY") => e = d
      /\ d.phase = "ready" /\ s.st = "COMPLETED" => e = to("confirm")
      /\ d.phase = "ready" /\ s.st \notin {"READY", "COMPLETED"} =>
           IF s.rb \notin {None, d.rb} /\ ~s.term THEN e \in {next("prepare"), next("ready")}
           ELSE IF d.rb # None \/ s.term THEN e = to("idle")
           ELSE e = to("abandon") \/ (e = retry /\ d.failed < MaxAttempts)
  BY DEF AfterStatus, MayRetry
<1>6. {"idle", "prepare", "ready", "confirm", "abandon"} = Phases
  BY DEF Phases
<1>. HIDE DEF to, retry, next
<1>7. CASE d.phase # "ready"
  BY <1>3, <1>5, <1>6, <1>7
<1>8. CASE d.phase = "ready" /\ s.st \in {"READY", "COMPLETED"}
  BY <1>3, <1>5, <1>6, <1>8
<1>9. CASE d.phase = "ready" /\ s.st \notin {"READY", "COMPLETED"}
  <2>1. CASE s.rb \notin {None, d.rb} /\ ~s.term
    BY <1>3, <1>5, <1>6, <1>9, <2>1
  <2>2. CASE ~(s.rb \notin {None, d.rb} /\ ~s.term)
    BY <1>3, <1>4, <1>5, <1>6, <1>9, <2>2
  <2>. QED BY <2>1, <2>2
<1>. QED BY <1>7, <1>8, <1>9

\* What the DMC's steps do to its own state.
LEMMA DmcStartFacts ==
  ASSUME CampaignTypeOK, NEW p \in Pkgs, DmcStart(p)
  PROVE  \E v \in Targets \ {installed[p]} :
           /\ UNCHANGED vars
           /\ dmc[p].phase = "idle"
           /\ dmc'[p] = [phase |-> "prepare", version |-> v, rb |-> None, sent |-> FALSE,
                         failed |-> 0, campaign |-> dmc[p].campaign + 1]
           /\ dmc[p].campaign \in Nat
           /\ CampaignTypeOK' /\ \A q \in Pkgs \ {p} : dmc'[q] = dmc[q]
<1>0. dmc \in [Pkgs -> DmcType] /\ dmc[p] \in DmcType
  BY DEF CampaignTypeOK
<1>1. PICK v \in Targets \ {installed[p]} :
        dmc' = [dmc EXCEPT ![p] = [phase |-> "prepare", version |-> v, rb |-> None,
                                   sent |-> FALSE, failed |-> 0, campaign |-> @.campaign + 1]]
  BY DEF DmcStart
<1>. DEFINE e == [phase |-> "prepare", version |-> v, rb |-> None,
                  sent |-> FALSE, failed |-> 0, campaign |-> dmc[p].campaign + 1]
<1>2. dmc' = [dmc EXCEPT ![p] = e] /\ dmc'[p] = e
  BY <1>0, <1>1
<1>3. dmc[p].campaign \in 0 .. MaxCampaigns /\ dmc[p].campaign < MaxCampaigns /\ dmc[p].phase = "idle"
  BY <1>0 DEF DmcType, DmcStart
<1>4. e \in DmcType
  <2>1. dmc[p].campaign + 1 \in 0 .. MaxCampaigns /\ 0 \in 0 .. MaxAttempts /\ v \in Versions
    BY <1>3, CampaignAssumption
  <2>. QED BY <2>1 DEF DmcType, Phases
<1>. HIDE DEF e
<1>5. dmc' \in [Pkgs -> DmcType]
  BY <1>0, <1>2, <1>4
<1>6. UNCHANGED vars
  BY DEF DmcStart
<1>7. \A q \in Pkgs \ {p} : dmc'[q] = dmc[q]
  BY <1>0, <1>2
<1>8. dmc[p].campaign \in Nat
  BY <1>3
<1>. QED BY <1>2, <1>3, <1>5, <1>6, <1>7, <1>8 DEF CampaignTypeOK, e

\* Sending a command is only recorded.
LEMMA DmcSendFacts ==
  ASSUME CampaignTypeOK, NEW p \in Pkgs, DmcSend(p)
  PROVE  /\ dmc'[p].phase = dmc[p].phase /\ dmc'[p].version = dmc[p].version
         /\ dmc'[p].rb = dmc[p].rb /\ dmc'[p].failed = dmc[p].failed
         /\ dmc'[p].campaign = dmc[p].campaign /\ dmc'[p].sent
         /\ CampaignMessage(p, dmc'[p]) = CampaignMessage(p, dmc[p])
         /\ CampaignTypeOK' /\ \A q \in Pkgs \ {p} : dmc'[q] = dmc[q]
<1>0. dmc \in [Pkgs -> DmcType] /\ dmc[p] \in DmcType
  BY DEF CampaignTypeOK
<1>1. dmc' = [dmc EXCEPT ![p].sent = TRUE]
  BY DEF DmcSend
<1>2. /\ dmc'[p].phase = dmc[p].phase /\ dmc'[p].version = dmc[p].version
      /\ dmc'[p].rb = dmc[p].rb /\ dmc'[p].failed = dmc[p].failed
      /\ dmc'[p].campaign = dmc[p].campaign /\ dmc'[p].sent
  BY <1>0, <1>1 DEF DmcType
<1>3. dmc' \in [Pkgs -> DmcType] /\ \A q \in Pkgs \ {p} : dmc'[q] = dmc[q]
  BY <1>0, <1>1 DEF DmcType
<1>4. CampaignMessage(p, dmc'[p]) = CampaignMessage(p, dmc[p])
  BY <1>2 DEF CampaignMessage
<1>. QED BY <1>2, <1>3, <1>4 DEF CampaignTypeOK

\* Closing a campaign keeps its number.
LEMMA DmcFinishFacts ==
  ASSUME CampaignTypeOK, NEW p \in Pkgs, DmcFinish(p)
  PROVE  /\ dmc[p].phase \in {"confirm", "abandon"} /\ UNCHANGED vars
         /\ dmc'[p].phase = "idle" /\ dmc'[p].version = dmc[p].version
         /\ dmc'[p].rb = dmc[p].rb /\ dmc'[p].failed = dmc[p].failed
         /\ dmc'[p].campaign = dmc[p].campaign
         /\ CampaignTypeOK' /\ \A q \in Pkgs \ {p} : dmc'[q] = dmc[q]
<1>0. dmc \in [Pkgs -> DmcType] /\ dmc[p] \in DmcType
  BY DEF CampaignTypeOK
<1>1. dmc' = [dmc EXCEPT ![p].phase = "idle"] /\ "idle" \in Phases
  BY DEF DmcFinish, Phases
<1>2. /\ dmc'[p].phase = "idle" /\ dmc'[p].version = dmc[p].version
      /\ dmc'[p].rb = dmc[p].rb /\ dmc'[p].failed = dmc[p].failed
      /\ dmc'[p].campaign = dmc[p].campaign
  BY <1>0, <1>1 DEF DmcType
<1>3. dmc' \in [Pkgs -> DmcType] /\ \A q \in Pkgs \ {p} : dmc'[q] = dmc[q]
  BY <1>0, <1>1 DEF DmcType
<1>. QED BY <1>2, <1>3 DEF CampaignTypeOK, DmcFinish

\* A status is consumed, and moves its own campaign only.
LEMMA DmcStatusFacts ==
  ASSUME TypeOK, CampaignTypeOK, NEW p \in Pkgs, DmcStatus(p)
  PROVE  /\ dmc'[p] \in AfterStatus(dmc[p], reply[p])
         /\ dmc[p] \in DmcType /\ reply[p] \in StatusType /\ reply[p] # None
         /\ reply'[p] = None /\ \A q \in Pkgs \ {p} : reply'[q] = reply[q]
         /\ UNCHANGED <<compVars, fileVars, queueVars, flagVars, threadVars, localVars>>
         /\ CampaignTypeOK' /\ \A q \in Pkgs \ {p} : dmc'[q] = dmc[q]
<1>0. dmc \in [Pkgs -> DmcType] /\ dmc[p] \in DmcType /\ reply \in [Pkgs -> StatusType \cup {None}]
  BY DEF CampaignTypeOK, TypeOK
<1>1. PICK d \in AfterStatus(dmc[p], reply[p]) : dmc' = [dmc EXCEPT ![p] = d]
  BY DEF DmcStatus
<1>2. reply[p] \in StatusType /\ reply[p] # None
  BY <1>0 DEF DmcStatus
<1>3. d \in DmcType
  BY <1>0, <1>2, AfterStatusCases
<1>4. dmc'[p] = d /\ dmc' \in [Pkgs -> DmcType] /\ \A q \in Pkgs \ {p} : dmc'[q] = dmc[q]
  BY <1>0, <1>1, <1>3
<1>5. reply'[p] = None /\ \A q \in Pkgs \ {p} : reply'[q] = reply[q]
  BY <1>0 DEF DmcStatus
<1>. QED BY <1>0, <1>2, <1>4, <1>5 DEF CampaignTypeOK, DmcStatus

\* Another package is not concerned.
LEMMA TokenOther ==
  ASSUME NEW p \in Pkgs, TokenInv, inbox' = inbox, pc' = pc, cmd' = cmd,
         dmc'[p] = dmc[p], reply'[p] = reply[p]
  PROVE  OneAsked(p)' /\ NoConfirm(p)'
<1>1. OneAsked(p) /\ NoConfirm(p)
  BY DEF TokenInv
<1>2. (Waiting(p)' <=> Waiting(p)) /\ (Unanswered(p)' <=> Unanswered(p))
  BY DEF Waiting, Unanswered
<1>3. Late(p)' <=> Late(p)
  BY <1>2 DEF Late
<1>4. OneAsked(p)'
  BY <1>1, <1>2 DEF OneAsked, Asks
<1>5. NoConfirm(p)'
  BY <1>1, <1>3 DEF NoConfirm, Asks, Confirms
<1>. QED BY <1>4, <1>5

\* Campaign numbers only grow.
LEMMA HandlersGrow ==
  ASSUME TypeOK, CampaignTypeOK, TokenInv, inbox' = inbox, pc' = pc, cmd' = cmd,
         \A q \in Pkgs : dmc'[q].campaign \in {dmc[q].campaign, dmc[q].campaign + 1}
  PROVE  Handlers'
<1>1. \A q \in Pkgs : dmc[q].campaign \in Nat
  BY DEF CampaignTypeOK, DmcType
<1>2. \A i \in DOMAIN inbox : inbox[i].pkg \in Pkgs
  BY CommandFields DEF TypeOK, Message
<1>3. cmd["worker"] # None => cmd["worker"].pkg \in Pkgs
  BY CommandFields DEF TypeOK, Message, Threads
<1>4. \A q \in Pkgs : 1 .. dmc[q].campaign \subseteq 1 .. dmc'[q].campaign
  BY <1>1
<1>5. Handlers
  BY DEF TokenInv
<1>. QED BY <1>2, <1>3, <1>4, <1>5 DEF Handlers

\* A new campaign starts with no command of the last one under way.
LEMMA TokenStart ==
  ASSUME TypeOK, CampaignTypeOK, TokenInv, NEW p \in Pkgs, DmcStart(p)
  PROVE  TokenInv'
<1>1. PICK v \in Targets \ {installed[p]} :
           /\ UNCHANGED vars
           /\ dmc[p].phase = "idle"
           /\ dmc'[p] = [phase |-> "prepare", version |-> v, rb |-> None, sent |-> FALSE,
                         failed |-> 0, campaign |-> dmc[p].campaign + 1]
           /\ \A q \in Pkgs \ {p} : dmc'[q] = dmc[q]
  BY DmcStartFacts
<1>2. inbox' = inbox /\ pc' = pc /\ cmd' = cmd /\ reply' = reply
  BY <1>1 DEF vars, queueVars, threadVars
<1>3. Handlers'
  BY <1>1, <1>2, HandlersGrow
<1>4. OneAsked(p) /\ NoConfirm(p)
  BY DEF TokenInv
<1>5. ~Unanswered(p) /\ reply[p] = None /\ \A i \in DOMAIN inbox : ~Asks(inbox[i], p)
  BY <1>1, <1>4 DEF OneAsked, Waiting
<1>6. ~Unanswered(p)' /\ ~Late(p)'
  BY <1>1, <1>2, <1>5 DEF Unanswered, Late
<1>7. OneAsked(p)' /\ NoConfirm(p)'
  BY <1>2, <1>5, <1>6 DEF OneAsked, NoConfirm, Asks
<1>8. ASSUME NEW q \in Pkgs PROVE OneAsked(q)' /\ NoConfirm(q)'
  BY <1>1, <1>2, <1>7, TokenOther
<1>. QED BY <1>3, <1>8 DEF TokenInv

\* A campaign is closed with no command under way but confirm-updates.
LEMMA TokenFinish ==
  ASSUME TypeOK, CampaignTypeOK, TokenInv, NEW p \in Pkgs, DmcFinish(p)
  PROVE  TokenInv'
<1>1. /\ dmc[p].phase \in {"confirm", "abandon"} /\ UNCHANGED vars
      /\ dmc'[p].phase = "idle" /\ dmc'[p].campaign = dmc[p].campaign
      /\ \A q \in Pkgs \ {p} : dmc'[q] = dmc[q]
  BY DmcFinishFacts
<1>2. inbox' = inbox /\ pc' = pc /\ cmd' = cmd /\ reply' = reply
  BY <1>1 DEF vars, queueVars, threadVars
<1>3. Handlers'
  BY <1>1, <1>2, HandlersGrow
<1>4. OneAsked(p) /\ NoConfirm(p)
  BY DEF TokenInv
<1>5. ~Unanswered(p) /\ reply[p] = None /\ \A i \in DOMAIN inbox : ~Asks(inbox[i], p)
  BY <1>1, <1>4 DEF OneAsked, Waiting
<1>6. ~Unanswered(p)' /\ ~Late(p)'
  BY <1>1, <1>2, <1>5 DEF Unanswered, Late
<1>7. OneAsked(p)' /\ NoConfirm(p)'
  BY <1>2, <1>5, <1>6 DEF OneAsked, NoConfirm, Asks
<1>8. ASSUME NEW q \in Pkgs PROVE OneAsked(q)' /\ NoConfirm(q)'
  BY <1>1, <1>2, <1>7, TokenOther
<1>. QED BY <1>3, <1>8 DEF TokenInv

\* The DMC takes the answer, after which it may send the next command.
LEMMA TokenStatus ==
  ASSUME TypeOK, CampaignTypeOK, TokenInv, NEW p \in Pkgs, DmcStatus(p)
  PROVE  TokenInv'
<1>1. /\ reply[p] # None
      /\ reply'[p] = None /\ \A q \in Pkgs \ {p} : reply'[q] = reply[q]
      /\ inbox' = inbox /\ pc' = pc /\ cmd' = cmd
      /\ dmc'[p].campaign = dmc[p].campaign
      /\ \A q \in Pkgs \ {p} : dmc'[q] = dmc[q]
  BY DmcStatusFacts, AfterStatusCases DEF queueVars, threadVars
<1>3. Handlers'
  BY <1>1, HandlersGrow
<1>4. OneAsked(p) /\ NoConfirm(p)
  BY DEF TokenInv
<1>5. ~Unanswered(p) /\ \A i \in DOMAIN inbox : ~Asks(inbox[i], p)
  BY <1>1, <1>4 DEF OneAsked
<1>6. Late(p)
  BY <1>1 DEF Late
<1>7. OneAsked(p)'
  BY <1>1, <1>5 DEF OneAsked, Asks, Unanswered
<1>8. NoConfirm(p)'
  BY <1>1, <1>4, <1>6 DEF NoConfirm, Confirms
<1>9. ASSUME NEW q \in Pkgs PROVE OneAsked(q)' /\ NoConfirm(q)'
  BY <1>1, <1>7, <1>8, TokenOther
<1>. QED BY <1>3, <1>9 DEF TokenInv

\* The DMC sends a command: the first of its phase, or again once the agent is quiet.
LEMMA TokenSend ==
  ASSUME TypeOK, ThreadsOK, CampaignTypeOK, TokenInv, NEW p \in Pkgs, DmcOK(p), DmcSend(p)
  PROVE  TokenInv'
<1>. DEFINE m == CampaignMessage(p, dmc[p])
<1>0. /\ dmc'[p].phase = dmc[p].phase /\ dmc'[p].rb = dmc[p].rb
      /\ dmc'[p].campaign = dmc[p].campaign /\ dmc'[p].sent
      /\ CampaignMessage(p, dmc'[p]) = m
      /\ \A q \in Pkgs \ {p} : dmc'[q] = dmc[q]
  BY DmcSendFacts
<1>1. /\ inbox' = Append(inbox, m) /\ pc' = pc /\ cmd' = cmd /\ reply' = reply
      /\ inbox \in Seq(Commands) /\ dmc[p].phase # "idle" /\ dmc[p] \in DmcType
  BY DEF DmcSend, Deliver, threadVars, TypeOK, CampaignTypeOK
<1>2. /\ m \in Commands /\ m.pkg = p /\ m.campaign = dmc[p].campaign
      /\ m.type = "prepare-update" <=> dmc[p].phase = "prepare"
      /\ m.type = "ready-update" <=> dmc[p].phase = "ready"
      /\ m.type = "confirm-update" <=> dmc[p].phase \in {"confirm", "abandon"}
      /\ dmc[p].campaign \in Nat \ {0}
  BY <1>1, CampaignMessageFields DEF DmcOK, DmcType
<1>. HIDE DEF m
<1>3. /\ \A i \in DOMAIN inbox' :
           \/ i \in DOMAIN inbox /\ inbox'[i] = inbox[i] /\ i < Len(inbox) + 1
           \/ i = Len(inbox) + 1 /\ inbox'[i] = m
      /\ \A i \in DOMAIN inbox : i \in Nat /\ i < Len(inbox) + 1
  BY <1>1, <1>2, AppendFacts
<1>4. Handlers'
  <2>1. \A q \in Pkgs : dmc'[q].campaign = dmc[q].campaign
    BY <1>0
  <2>2. \A i \in DOMAIN inbox' : inbox'[i].campaign \in 1 .. dmc[inbox'[i].pkg].campaign /\ inbox'[i].pkg \in Pkgs
    <3>1. \A i \in DOMAIN inbox : inbox[i].campaign \in 1 .. dmc[inbox[i].pkg].campaign /\ inbox[i].pkg \in Pkgs
      BY <1>1, CommandFields DEF TokenInv, Handlers
    <3>. QED BY <1>2, <1>3, <3>1
  <2>3. cmd["worker"] # None => cmd["worker"].pkg \in Pkgs
    BY CommandFields DEF TypeOK, Threads
  <2>. QED BY <1>1, <2>1, <2>2, <2>3 DEF TokenInv, Handlers
<1>5. OneAsked(p) /\ NoConfirm(p)
  BY DEF TokenInv
<1>6. ~Unanswered(p) /\ reply[p] = None /\ \A i \in DOMAIN inbox : ~Asks(inbox[i], p)
  <2>1. CASE ~Waiting(p)
    BY <1>5, <2>1 DEF OneAsked
  <2>2. CASE Waiting(p)
    <3>1. Quiet
      BY <2>2 DEF Waiting, DmcSend
    <3>2. inbox = <<>> /\ reply[p] = None /\ pc["worker"] \in {"idle", "crash"}
      BY <3>1 DEF Quiet, ThreadsOK
    <3>3. DOMAIN inbox = {}
      BY <3>2
    <3>. QED BY <3>2, <3>3 DEF Unanswered
  <2>. QED BY <2>1, <2>2
<1>7. ~Unanswered(p)' /\ (Late(p)' <=> Late(p))
  BY <1>0, <1>1, <1>6 DEF Unanswered, Late
<1>8. OneAsked(p)'
  <2>1. ASSUME NEW i \in DOMAIN inbox', Asks(inbox[i], p)'
        PROVE  /\ Waiting(p)' /\ inbox'[i] = CampaignMessage(p, dmc'[p])
               /\ \A j \in DOMAIN inbox' : Asks(inbox[j], p)' => j = i
    <3>1. \A j \in DOMAIN inbox' : Asks(inbox[j], p)' => j = Len(inbox) + 1 /\ inbox'[j] = m
      BY <1>3, <1>6 DEF Asks
    <3>2. m.type \in {"prepare-update", "ready-update"}
      BY <2>1, <3>1 DEF Asks
    <3>. QED BY <1>0, <1>2, <2>1, <3>1, <3>2 DEF Waiting
  <2>. QED BY <1>1, <1>6, <1>7, <2>1 DEF OneAsked
<1>9. NoConfirm(p)'
  <2>1. ASSUME NEW i \in DOMAIN inbox', Confirms(inbox[i], p)'
        PROVE  /\ ~Late(p)
               /\ \A j \in DOMAIN inbox' : Asks(inbox[j], p)' => i < j
    <3>1. \A j \in DOMAIN inbox' : Asks(inbox[j], p)' =>
            j = Len(inbox) + 1 /\ m.type \in {"prepare-update", "ready-update"}
      BY <1>3, <1>6 DEF Asks
    <3>2. CASE i \in DOMAIN inbox /\ inbox'[i] = inbox[i] /\ i < Len(inbox) + 1
      BY <1>5, <2>1, <3>1, <3>2 DEF NoConfirm, Confirms
    <3>3. CASE inbox'[i] = m
      BY <1>2, <1>6, <2>1, <3>1, <3>3 DEF Confirms, Late
    <3>. QED BY <1>3, <3>2, <3>3
  <2>. QED BY <1>1, <1>5, <1>7, <2>1 DEF NoConfirm
<1>10. ASSUME NEW q \in Pkgs, q # p PROVE OneAsked(q)' /\ NoConfirm(q)'
  <2>1. OneAsked(q) /\ NoConfirm(q) /\ dmc'[q] = dmc[q]
    BY <1>0, <1>10 DEF TokenInv
  <2>2. (Waiting(q)' <=> Waiting(q)) /\ (Unanswered(q)' <=> Unanswered(q))
    BY <1>1, <2>1 DEF Waiting, Unanswered
  <2>3. Late(q)' <=> Late(q)
    BY <1>1, <2>1, <2>2 DEF Late
  <2>4. \A i \in DOMAIN inbox' : Asks(inbox[i], q)' \/ Confirms(inbox[i], q)' =>
          i \in DOMAIN inbox /\ inbox'[i] = inbox[i]
    BY <1>2, <1>3, <1>10 DEF Asks, Confirms
  <2>5. OneAsked(q)'
    BY <1>1, <2>1, <2>2, <2>4 DEF OneAsked, Asks
  <2>6. NoConfirm(q)'
    BY <1>1, <2>1, <2>3, <2>4 DEF NoConfirm, Asks, Confirms
  <2>. QED BY <2>5, <2>6
<1>. QED BY <1>4, <1>8, <1>9, <1>10 DEF TokenInv

-----------------------------------------------------------------------------
\* What StageInvariant and RequestedInstalls show of any commands holds of a campaign's.
LEMMA AgentInvStep ==
  ASSUME StageInv, TargetInv, CampaignTypeOK, \A p \in Pkgs : DmcOK(p), CampaignNext
  PROVE  StageInv' /\ TargetInv'
<1>. USE DEF vars, compVars, fileVars, queueVars, flagVars, threadVars, localVars
<1>1. ASSUME [Next]_vars PROVE StageInv' /\ TargetInv'
  <2>1. CASE Next
    BY <2>1, TypeOKStep, ThreadsOKStep, StageOwnedStep, TargetInvStep DEF StageInv
  <2>2. CASE UNCHANGED vars
    BY <2>2 DEF StageInv, TypeOK, ThreadsOK, RestoresOwned, StageOwned, TargetInv, TargetVersion
  <2>. QED BY <1>1, <2>1, <2>2
<1>2. CASE AgentStep
  BY <1>1, <1>2 DEF Next
<1>3. ASSUME NEW p \in Pkgs, DmcStart(p) \/ DmcFinish(p) PROVE StageInv' /\ TargetInv'
  BY <1>1, <1>3 DEF DmcStart, DmcFinish
<1>4. ASSUME NEW p \in Pkgs, DmcSend(p) PROVE StageInv' /\ TargetInv'
  <2>1. dmc[p] \in DmcType /\ dmc[p].phase # "idle" /\ dmc[p].campaign # 0
    BY <1>4 DEF DmcSend, DmcOK, CampaignTypeOK
  <2>2. CampaignMessage(p, dmc[p]) \in Commands /\ Deliver(CampaignMessage(p, dmc[p]))
    BY <1>4, <2>1, CampaignMessageFields DEF DmcSend
  <2>. QED BY <1>1, <2>2 DEF Next
<1>5. ASSUME NEW p \in Pkgs, DmcStatus(p) PROVE StageInv' /\ TargetInv'
  <2>1. /\ UNCHANGED <<compVars, fileVars, queueVars, flagVars, threadVars, localVars>>
        /\ reply' = [reply EXCEPT ![p] = None]
    BY <1>5 DEF DmcStatus
  <2>2. reply' \in [Pkgs -> StatusType \cup {None}]
    BY <2>1 DEF StageInv, TypeOK
  <2>3. TypeOK'
    BY <2>1, <2>2 DEF StageInv, TypeOK
  <2>. QED BY <2>1, <2>3 DEF StageInv, ThreadsOK, RestoresOwned, StageOwned, TargetInv, TargetVersion
<1>. QED BY <1>2, <1>3, <1>4, <1>5 DEF CampaignNext, DmcStep

\* The DMC's own steps touch nothing of a handler.
LEMMA DmcFrame ==
  ASSUME TypeOK, NEW p \in Pkgs, DmcStep(p)
  PROVE  /\ pc' = pc /\ cmd' = cmd /\ seen' = seen /\ worker_running' = worker_running
         /\ stage' = stage /\ prepared' = prepared
         /\ cur_campaign_id' = cur_campaign_id /\ manifest' = manifest /\ backup' = backup
         /\ installed' = installed /\ retry_cnt' = retry_cnt /\ update_error' = update_error
         /\ outcome' = outcome /\ target' = target
         /\ \A q \in Pkgs \ {p} : reply'[q] = reply[q]
         /\ ~DmcStatus(p) => reply' = reply
  BY DEF DmcStep, DmcStart, DmcSend, DmcStatus, DmcFinish, Deliver, vars, compVars, fileVars,
         queueVars, flagVars, threadVars, localVars, TypeOK

\* A handler that runs knows its package; its message is one of a campaign.
LEMMA WorkerMessage ==
  ASSUME TypeOK, ThreadsOK, CampaignTypeOK, TokenInv,
         pc["worker"] \in PrepareSteps \cup ReadySteps
  PROVE  LET m == cmd["worker"]
         IN  /\ m \in Commands /\ m.pkg \in Pkgs /\ m.campaign # None
             /\ m.campaign \in 1 .. dmc[m.pkg].campaign
             /\ CampaignOf(m) = m.campaign
<1>. DEFINE m == cmd["worker"]
<1>1. m \in Commands /\ m # None /\ m.pkg \in Pkgs
  BY CommandFields DEF ThreadsOK, Threads, PrepareSteps, ReadySteps
<1>2. m.campaign \in 1 .. dmc[m.pkg].campaign
  BY <1>1 DEF TokenInv, Handlers
<1>3. dmc[m.pkg].campaign \in 0 .. MaxCampaigns
  BY <1>1 DEF CampaignTypeOK, DmcType
<1>4. m.campaign \in 1 .. MaxCampaigns
  BY <1>2, <1>3, CampaignAssumption
<1>5. m.campaign # None
  BY <1>4, CampaignAssumption, UpdateAgentAssumption
<1>. QED BY <1>1, <1>2, <1>5, CommandFields

\* While the installation runs, no clean-up of the same package can begin.
LEMMA UndisturbedStep ==
  ASSUME TypeOK, ThreadsOK, CampaignTypeOK, TokenInv, Undisturbed, CampaignNext
  PROVE  Undisturbed'
<1>. USE DEF Undisturbed, Goto, Return
<1>0. /\ pc \in [Threads -> ProgramSteps] /\ cmd \in [Threads -> Commands \cup {None}]
      /\ Threads = {"runner", "worker"} /\ stage \in [Pkgs -> Stages]
  BY DEF TypeOK, Threads
<1>1. ASSUME NEW p \in Pkgs, DmcStep(p) PROVE Undisturbed'
  BY <1>1, DmcFrame
<1>2. CASE DmcPresence \/ RunnerDrop \/ RunnerConsumed \/ RunnerDiscard
  BY <1>2 DEF DmcPresence, RunnerDrop, RunnerConsumed, RunnerDiscard, Accept, Pop, threadVars, compVars
<1>3. CASE RunnerSpawn
  BY <1>0, <1>3 DEF RunnerSpawn, FirstStep
<1>4. CASE RunnerExecute
  BY <1>0, <1>4 DEF RunnerExecute, Accept, Pop, FirstStep, compVars
<1>5. CASE PrepareTest
  BY <1>0, <1>5 DEF PrepareTest
<1>6. CASE PrepareBegin \/ PrepareInstall \/ PrepareEnd \/ WorkerExit \/ ReadyParse
  BY <1>0, <1>6 DEF PrepareBegin, PrepareInstall, PrepareEnd, WorkerExit, ReadyParse
<1>7. CASE ReadyBegin
  <2>. DEFINE p == cmd["worker"].pkg
  <2>1. pc["worker"] = "r_begin" /\ cmd' = cmd /\ pc'["runner"] = pc["runner"]
        /\ stage' = [stage EXCEPT ![p] = "READY_UPDATE_STARTED"]
    BY <1>0, <1>7 DEF ReadyBegin
  <2>2. p \in Pkgs
    BY <2>1, WorkerMessage DEF ReadySteps
  <2>3. Late(p)
    BY <2>1 DEF Late, Unanswered
  <2>4. pc["runner"] \in ConfirmSteps => cmd["runner"].pkg # p
    BY <2>2, <2>3 DEF TokenInv, NoConfirm
  <2>. QED BY <1>0, <2>1, <2>2, <2>4 DEF ConfirmSteps
<1>8. CASE ReadyInstall \/ ReadyBackup
  BY <1>0, <1>8 DEF ReadyInstall, ReadyBackup, compVars
<1>9. CASE ReadyDone \/ ReadyFlag \/ ReadyUnflag \/ ReadyRelease
  BY <1>0, <1>9 DEF ReadyDone, ReadyFlag, ReadyUnflag, ReadyRelease
<1>10. ASSUME NEW t \in Threads, QueryPackage(t) \/ ConfirmStep(t) PROVE Undisturbed'
  <2>1. CASE t = "worker"
    BY <1>0, <1>10, <2>1 DEF QueryPackage, ConfirmStep, ConfirmTest, ConfirmSkip, ConfirmBegin,
                             ConfirmClean, ConfirmEnd
  <2>2. CASE t = "runner"
    <3>1. cmd' = cmd /\ pc'["worker"] = pc["worker"]
      BY <1>0, <1>10, <2>2 DEF QueryPackage, ConfirmStep, ConfirmTest, ConfirmSkip, ConfirmBegin,
                               ConfirmClean, ConfirmEnd
    <3>2. CASE QueryPackage(t) \/ ConfirmSkip(t)
      BY <1>0, <2>2, <3>1, <3>2 DEF QueryPackage, ConfirmSkip, compVars
    <3>3. CASE ConfirmTest(t)
      BY <1>0, <2>2, <3>1, <3>3 DEF ConfirmTest, compVars
    <3>4. CASE ConfirmBegin(t) \/ ConfirmEnd(t)
      <4>1. /\ pc["runner"] \in {"c_begin", "c_end"} /\ pc'["runner"] \in {"c_clean", "idle"}
            /\ \E x : stage' = [stage EXCEPT ![cmd["runner"].pkg] = x]
        BY <1>0, <2>2, <3>4 DEF ConfirmBegin, ConfirmEnd
      <4>2. pc["worker"] \in {"r_install", "r_backup", "r_done"} => cmd["worker"].pkg \in Pkgs
        BY WorkerMessage DEF ReadySteps
      <4>. QED BY <1>0, <3>1, <4>1, <4>2
    <3>5. CASE ConfirmClean(t)
      BY <1>0, <2>2, <3>1, <3>5 DEF ConfirmClean
    <3>. QED BY <1>10, <3>2, <3>3, <3>4, <3>5 DEF ConfirmStep
  <2>. QED BY <1>0, <2>1, <2>2
<1>. QED BY <1>1, <1>2, <1>3, <1>4, <1>5, <1>6, <1>7, <1>8, <1>9, <1>10
         DEF CampaignNext, AgentStep, RunnerStep, PrepareStep, ReadyStep

-----------------------------------------------------------------------------
(***************************************************************************)
(* What a ready-update reports.                                            *)
(***************************************************************************)
\* A status can be told from none at all.
LEMMA StatusFields ==
  ASSUME NEW st \in {"READY", "COMPLETED", "FAILED", "ROLLBACK"},
         NEW rb \in Versions \cup {None}, NEW term \in BOOLEAN
  PROVE  LET s == Status(st, rb, term)
         IN  s # None /\ s.st = st /\ s.rb = rb /\ (s.term <=> term)
<1>1. Status(st, rb, term) # None
  BY StatusTyped, UpdateAgentAssumption
<1>. QED BY <1>1 DEF Status

\* The result of the installation, and the status it sends by itself.
LEMMA InstallOperationsFacts ==
  ASSUME NEW m \in Message, NEW tgt \in Versions \cup {None}, NEW inst, NEW a
  PROVE  LET i == InstallOperations(m, tgt, inst, a)
         IN  /\ i.sts \in {"COMPLETED", "FAILED"}
             /\ i.sts = "COMPLETED" =>
                  /\ i.reply # None /\ i.reply.st = "COMPLETED"
                  /\ i.reply.rb = m.rb /\ ~i.reply.term
                  /\ i.ran \/ (m.rb = None /\ inst = m.version)
             /\ i.sts = "FAILED" =>
                  /\ ~(m.rb = None /\ inst = m.version)
                  /\ i.reply # None => i.reply.st = "FAILED" /\ i.reply.rb = m.rb /\ ~i.reply.term
<1>0. m.rb \in Versions \cup {None}
  BY DEF Message
<1>. DEFINE i == InstallOperations(m, tgt, inst, a)
            done(s, r, x) == [sts |-> s, reply |-> r, ran |-> x]
            good(x) == /\ x.sts \in {"COMPLETED", "FAILED"}
                       /\ x.sts = "COMPLETED" =>
                            /\ x.reply # None /\ x.reply.st = "COMPLETED"
                            /\ x.reply.rb = m.rb /\ ~x.reply.term
                            /\ x.ran \/ (m.rb = None /\ inst = m.version)
                       /\ x.sts = "FAILED" =>
                            /\ ~(m.rb = None /\ inst = m.version)
                            /\ x.reply # None => /\ x.reply.st = "FAILED" /\ x.reply.rb = m.rb
                                                 /\ ~x.reply.term
<1>1. CASE m.rb = None /\ inst = m.version
  <2>1. i = done("COMPLETED", Status("COMPLETED", None, FALSE), FALSE)
    BY <1>1, Zenon DEF InstallOperations
  <2>2. good(done("COMPLETED", Status("COMPLETED", None, FALSE), FALSE))
    <3>1. /\ Status("COMPLETED", None, FALSE) # None /\ Status("COMPLETED", None, FALSE).st = "COMPLETED"
          /\ Status("COMPLETED", None, FALSE).rb = None /\ ~Status("COMPLETED", None, FALSE).term
      BY StatusFields
    <3>. QED BY <1>1, <3>1
  <2>. HIDE DEF i, done, good
  <2>3. good(i)
    BY <2>1, <2>2
  <2>. QED BY <2>3 DEF i, good
<1>2. CASE ~(m.rb = None /\ inst = m.version) /\ ~a.approved
  <2>1. i = done("FAILED", None, FALSE)
    BY <1>2, Zenon DEF InstallOperations
  <2>2. good(done("FAILED", None, FALSE))
    BY <1>2
  <2>. HIDE DEF i, done, good
  <2>3. good(i)
    BY <2>1, <2>2
  <2>. QED BY <2>3 DEF i, good
<1>3. CASE ~(m.rb = None /\ inst = m.version) /\ a.approved /\ a.installs /\ tgt # None
  <2>1. i = done("COMPLETED", Status("COMPLETED", m.rb, FALSE), TRUE)
    BY <1>3, Zenon DEF InstallOperations
  <2>2. good(done("COMPLETED", Status("COMPLETED", m.rb, FALSE), TRUE))
    <3>1. /\ Status("COMPLETED", m.rb, FALSE) # None /\ Status("COMPLETED", m.rb, FALSE).st = "COMPLETED"
          /\ Status("COMPLETED", m.rb, FALSE).rb = m.rb /\ ~Status("COMPLETED", m.rb, FALSE).term
      BY <1>0, StatusFields
    <3>. QED BY <3>1
  <2>. HIDE DEF i, done, good
  <2>3. good(i)
    BY <2>1, <2>2
  <2>. QED BY <2>3 DEF i, good
<1>4. CASE ~(m.rb = None /\ inst = m.version) /\ a.approved /\ ~(a.installs /\ tgt # None)
  <2>1. i = done("FAILED", IF m.rbs # None THEN None ELSE Status("FAILED", m.rb, FALSE), TRUE)
    BY <1>4, Zenon DEF InstallOperations
  <2>2. good(done("FAILED", IF m.rbs # None THEN None ELSE Status("FAILED", m.rb, FALSE), TRUE))
    <3>1. /\ Status("FAILED", m.rb, FALSE).st = "FAILED" /\ Status("FAILED", m.rb, FALSE).rb = m.rb
          /\ ~Status("FAILED", m.rb, FALSE).term
      BY <1>0, StatusFields
    <3>. QED BY <1>4, <3>1
  <2>. HIDE DEF i, done, good
  <2>3. good(i)
    BY <2>1, <2>2
  <2>. QED BY <2>3 DEF i, good
<1>. QED BY <1>1, <1>2, <1>3, <1>4

\* An intent names the next rollback version or none, and is not terminal.
LEMMA RollbackIntentFacts ==
  ASSUME NEW t \in RollbackTypes, NEW next \in Versions \cup {None}
  PROVE  LET s == RollbackIntent(t, next)
         IN  s # None => s.st \in {"FAILED", "ROLLBACK"} /\ s.rb \in {None, next} /\ ~s.term
<1>1. /\ Status("FAILED", None, FALSE).st = "FAILED" /\ Status("FAILED", None, FALSE).rb = None
      /\ ~Status("FAILED", None, FALSE).term
      /\ Status("FAILED", next, FALSE).st = "FAILED" /\ Status("FAILED", next, FALSE).rb = next
      /\ ~Status("FAILED", next, FALSE).term
      /\ Status("ROLLBACK", next, FALSE).st = "ROLLBACK" /\ Status("ROLLBACK", next, FALSE).rb = next
      /\ ~Status("ROLLBACK", next, FALSE).term
  BY StatusFields
<1>2. RollbackIntent(t, next) \in {None, Status("FAILED", None, FALSE), Status("FAILED", next, FALSE),
                                   Status("ROLLBACK", next, FALSE)}
  BY DEF RollbackIntent
<1>. QED BY <1>1, <1>2

\* What the result r of a ready-update of version tv by command m says, when version inst
\* was on the device.
Truthful(m, tv, inst, r) ==
  /\ r.sts \in {"COMPLETED", "FAILED", "ROLLBACK"}
  /\ r.reply # None => r.reply.st # "READY"
  /\ r.sts = "COMPLETED" => r.reply # None /\ r.reply.st = "COMPLETED" /\ (r.ran \/ inst = tv)
  /\ r.sts # "COMPLETED" =>
       /\ inst # tv
       /\ r.reply # None => /\ r.reply.st # "COMPLETED"
                            /\ r.reply.rb \in {None, m.rb, NextRollback(m.rbs, tv)}

\* The result asks for another try, or for none: it names no rollback version, is not
\* terminal and leaves the manifest man as it is.
TryAgain(man, r) == r.manifest = man /\ r.reply # None /\ r.reply.rb = None /\ ~r.reply.term

\* A new version: COMPLETED means it is there or was just installed, FAILED that it is
\* not; a version to roll back to is named only when the retries are used up.
LEMMA UpdateResultFacts ==
  ASSUME NEW m \in Message, m.rb = None, NEW tgt \in Versions, tgt = m.version,
         NEW inst \in Versions, NEW man, NEW t \in RollbackTypes, NEW n, NEW a \in Answers
  PROVE  LET r == UpdateResult(m, tgt, inst, man, t, n, a)
         IN  /\ Truthful(m, m.version, inst, r)
             /\ n <= MaxRetry => TryAgain(man, r)
<1>. DEFINE i    == InstallOperations(m, tgt, inst, a)
            next == NextRollback(m.rbs, tgt)
            rbt  == IF i.ran THEN a.rb_type ELSE t
            r    == UpdateResult(m, tgt, inst, man, t, n, a)
            good(x) == /\ Truthful(m, m.version, inst, x)
                       /\ n <= MaxRetry => TryAgain(man, x)
<1>1. /\ i.sts \in {"COMPLETED", "FAILED"}
      /\ i.sts = "COMPLETED" => /\ i.reply # None /\ i.reply.st = "COMPLETED"
                                /\ i.reply.rb = None /\ ~i.reply.term
                                /\ i.ran \/ inst = m.version
      /\ i.sts = "FAILED" => /\ inst # m.version
                             /\ i.reply # None => i.reply.st = "FAILED" /\ i.reply.rb = None
  BY InstallOperationsFacts
<1>2. next \in Versions \cup {None} /\ rbt \in RollbackTypes
  <2>1. m.rbs \in Seq(Versions) \cup {None} /\ a.rb_type \in RollbackTypes
    BY DEF Message, Answers
  <2>. QED BY <2>1, NextRollbackType
<1>3. /\ i.sts # "FAILED" => r = Result(i.sts, i.reply, i.ran, tgt, man)
      /\ i.sts = "FAILED" /\ n <= MaxRetry =>
           r = Result("FAILED", Status("FAILED", None, FALSE), i.ran, tgt, man)
      /\ i.sts = "FAILED" /\ ~(n <= MaxRetry) =>
           \/ r = Result("FAILED", i.reply, i.ran, tgt, man)
           \/ r = Result("ROLLBACK", RollbackIntent(rbt, next), i.ran, tgt, {})
           \/ r = Result("FAILED", Status("FAILED", None, TRUE), i.ran, tgt, man)
  BY Zenon DEF UpdateResult, RetryAllowed
<1>4. NextRollback(m.rbs, m.version) = next
  OBVIOUS
<1>. HIDE DEF i, next, rbt, r
<1>5. CASE i.sts # "FAILED"
  <2>1. good(Result(i.sts, i.reply, i.ran, tgt, man))
    BY <1>1, <1>5 DEF Result, Truthful, TryAgain
  <2>. QED BY <1>3, <1>5, <2>1 DEF r
<1>6. CASE i.sts = "FAILED" /\ n <= MaxRetry
  <2>1. good(Result("FAILED", Status("FAILED", None, FALSE), i.ran, tgt, man))
    BY <1>1, <1>6, StatusFields DEF Result, Truthful, TryAgain
  <2>. QED BY <1>3, <1>6, <2>1 DEF r
<1>7. CASE i.sts = "FAILED" /\ ~(n <= MaxRetry)
  <2>1. good(Result("FAILED", i.reply, i.ran, tgt, man))
    BY <1>1, <1>7 DEF Result, Truthful
  <2>2. good(Result("ROLLBACK", RollbackIntent(rbt, next), i.ran, tgt, {}))
    <3>. DEFINE s == RollbackIntent(rbt, next)
    <3>1. s # None => s.st \in {"FAILED", "ROLLBACK"} /\ s.rb \in {None, next}
      BY <1>2, RollbackIntentFacts
    <3>. HIDE DEF s
    <3>2. good(Result("ROLLBACK", s, i.ran, tgt, {}))
      BY <1>1, <1>4, <1>7, <3>1 DEF Result, Truthful
    <3>. QED BY <3>2 DEF s
  <2>3. good(Result("FAILED", Status("FAILED", None, TRUE), i.ran, tgt, man))
    BY <1>1, <1>7, StatusFields DEF Result, Truthful
  <2>. HIDE DEF good
  <2>4. good(r)
    BY <1>3, <1>7, <2>1, <2>2, <2>3
  <2>. QED BY <2>4 DEF r, good
<1>. QED BY <1>1, <1>5, <1>6, <1>7

\* A rollback version: the same, and a failure names the next version of the list, or
\* none, or itself.
LEMMA RollbackResultFacts ==
  ASSUME NEW m \in Message, m.rb # None, NEW inst \in Versions,
         NEW man, NEW bak, NEW t \in RollbackTypes, NEW a \in Answers
  PROVE  Truthful(m, m.rb, inst, RollbackResult(m, inst, man, bak, t, a))
<1>. DEFINE found  == m.rb \in m.files \/ m.rb \in bak
            ready  == found /\ a.prepares
            added  == IF ready THEN man \cup {m.rb} ELSE man
            i      == InstallOperations(m, m.rb, inst, a)
            ran    == ready /\ ~a.delta /\ i.ran
            rbt    == IF ran THEN a.rb_type ELSE t
            next   == IF found /\ a.delta THEN None ELSE NextRollback(m.rbs, m.rb)
            failed == IF rbt = "URB_DMC_INITIATED_NO_UA_INTENT"
                        THEN Status("FAILED", None, FALSE)
                        ELSE Status("FAILED", m.rb, TRUE)
            r      == RollbackResult(m, inst, man, bak, t, a)
            good(x) == Truthful(m, m.rb, inst, x)
<1>0. /\ m.rb \in Versions /\ m.rbs \in Seq(Versions) \cup {None}
      /\ a.rb_type \in RollbackTypes
  BY DEF Message, Answers
<1>1. i.sts = "COMPLETED" => i.reply # None /\ i.reply.st = "COMPLETED"
  BY <1>0, InstallOperationsFacts
<1>2. /\ next \in Versions \cup {None} /\ rbt \in RollbackTypes
      /\ next \in {None, NextRollback(m.rbs, m.rb)}
  BY <1>0, NextRollbackType
<1>3. failed # None /\ failed.st = "FAILED" /\ failed.rb \in {None, m.rb}
  <2>1. /\ Status("FAILED", None, FALSE) # None /\ Status("FAILED", None, FALSE).st = "FAILED"
        /\ Status("FAILED", None, FALSE).rb = None
    BY StatusFields
  <2>2. /\ Status("FAILED", m.rb, TRUE) # None /\ Status("FAILED", m.rb, TRUE).st = "FAILED"
        /\ Status("FAILED", m.rb, TRUE).rb = m.rb
    BY <1>0, StatusFields
  <2>. QED BY <2>1, <2>2, Zenon
<1>4. /\ inst = m.rb => r = Result("COMPLETED", Status("COMPLETED", m.rb, FALSE), FALSE, m.rb, man)
      /\ inst # m.rb =>
           \/ i.sts = "COMPLETED" /\ r = Result("COMPLETED", i.reply, TRUE, m.rb, added)
           \/ r = Result("ROLLBACK", RollbackIntent(rbt, next), ran, m.rb, {})
           \/ r = Result("FAILED", failed, ran, m.rb, {})
  BY Zenon DEF RollbackResult
<1>. HIDE DEF i, next, rbt, ran, added, failed, r
<1>5. CASE inst = m.rb
  <2>. DEFINE s == Status("COMPLETED", m.rb, FALSE)
  <2>1. s # None /\ s.st = "COMPLETED"
    BY <1>0, StatusFields
  <2>. HIDE DEF s
  <2>2. good(Result("COMPLETED", s, FALSE, m.rb, man))
    BY <1>5, <2>1 DEF Result, Truthful
  <2>. QED BY <1>4, <1>5, <2>2 DEF r, s
<1>6. CASE inst # m.rb
  <2>1. i.sts = "COMPLETED" => good(Result("COMPLETED", i.reply, TRUE, m.rb, added))
    BY <1>1, <1>6 DEF Result, Truthful
  <2>2. good(Result("ROLLBACK", RollbackIntent(rbt, next), ran, m.rb, {}))
    <3>. DEFINE s == RollbackIntent(rbt, next)
    <3>1. s # None => s.st \in {"FAILED", "ROLLBACK"} /\ s.rb \in {None, next}
      BY <1>2, RollbackIntentFacts
    <3>. HIDE DEF s
    <3>2. good(Result("ROLLBACK", s, ran, m.rb, {}))
      BY <1>2, <1>6, <3>1 DEF Result, Truthful
    <3>. QED BY <3>2 DEF s
  <2>3. good(Result("FAILED", failed, ran, m.rb, {}))
    BY <1>3, <1>6 DEF Result, Truthful
  <2>. HIDE DEF good
  <2>4. good(r)
    BY <1>4, <1>6, <2>1, <2>2, <2>3
  <2>. QED BY <2>4 DEF r, good
<1>. QED BY <1>5, <1>6

\* The ready-update at work.
LEMMA ReadyResultFacts ==
  ASSUME TypeOK, NEW m \in Commands, m.rb = None => target = m.version, NEW a \in Answers
  PROVE  LET r == ReadyResult(m, a)
         IN  /\ Truthful(m, TargetVersion(m), installed[m.pkg], r)
             /\ m.rb = None /\ retry_cnt <= MaxRetry => TryAgain(manifest[m.pkg], r)
<1>1. m \in Message /\ m.pkg \in Pkgs /\ m.version \in Versions
  BY CommandFields
<1>. DEFINE inst == installed[m.pkg]
            man  == manifest[m.pkg]
            bak  == backup[m.pkg]
            rbt  == rb_type[m.pkg]
<1>2. inst \in Versions /\ rbt \in RollbackTypes
  BY <1>1 DEF TypeOK
<1>. HIDE DEF inst, man, bak, rbt
<1>3. CASE m.rb # None
  <2>1. ReadyResult(m, a) = RollbackResult(m, inst, man, bak, rbt, a) /\ TargetVersion(m) = m.rb
    BY <1>3, Zenon DEF ReadyResult, TargetVersion, inst, man, bak, rbt
  <2>2. Truthful(m, m.rb, inst, RollbackResult(m, inst, man, bak, rbt, a))
    BY <1>1, <1>2, <1>3, RollbackResultFacts
  <2>. QED BY <1>3, <2>1, <2>2 DEF inst
<1>4. CASE m.rb = None
  <2>. DEFINE r == UpdateResult(m, target, inst, man, rbt, retry_cnt, a)
  <2>1. ReadyResult(m, a) = r /\ TargetVersion(m) = m.version
    BY <1>4, Zenon DEF ReadyResult, TargetVersion, inst, man, bak, rbt
  <2>2. /\ Truthful(m, m.version, inst, r)
        /\ retry_cnt <= MaxRetry => TryAgain(man, r)
    BY <1>1, <1>2, <1>4, UpdateResultFacts
  <2>. HIDE DEF r
  <2>. QED BY <1>4, <2>1, <2>2 DEF inst, man
<1>. QED BY <1>3, <1>4

-----------------------------------------------------------------------------
(***************************************************************************)
(* The record of the prepared version, the answers and the device.         *)
(***************************************************************************)
PkgInv(p) == RecordOK(p) /\ PreparedOK(p) /\ AnswerOK(p) /\ NotYet(p)

\* The command that the worker has not answered is the one the DMC waits for.
LEMMA UnansweredFacts ==
  ASSUME TypeOK, CampaignTypeOK, TokenInv, NEW p \in Pkgs, DmcOK(p), Unanswered(p)
  PROVE  LET m == cmd["worker"]
         IN  /\ reply[p] = None /\ m \in Commands /\ m.pkg = p
             /\ m.version = dmc[p].version /\ m.rb = dmc[p].rb /\ m.campaign = dmc[p].campaign
             /\ m.version \in m.listed /\ TargetVersion(m) = Wanted(dmc[p])
             /\ pc["worker"] \in PrepareSteps => dmc[p].phase = "prepare"
             /\ pc["worker"] \in ReadySteps => dmc[p].phase = "ready" /\ m.rbs = RollbackVersions
<1>1. /\ Waiting(p) /\ cmd["worker"] = CampaignMessage(p, dmc[p]) /\ reply[p] = None
      /\ pc["worker"] \in PrepareSteps => cmd["worker"].type = "prepare-update"
      /\ pc["worker"] \in ReadySteps => cmd["worker"].type = "ready-update"
  BY DEF TokenInv, OneAsked, Handlers
<1>2. dmc[p] \in DmcType /\ dmc[p].phase # "idle" /\ dmc[p].campaign # 0
  BY <1>1 DEF CampaignTypeOK, Waiting, DmcOK
<1>. DEFINE d == dmc[p]
<1>. HIDE DEF d
<1>3. LET m == CampaignMessage(p, d)
      IN  /\ m \in Commands /\ m.pkg = p
          /\ m.version = d.version /\ m.rb = d.rb /\ m.version \in m.listed
          /\ m.campaign = d.campaign /\ m.campaign # None
          /\ TargetVersion(m) = Wanted(d)
          /\ m.type = "prepare-update" <=> d.phase = "prepare"
          /\ m.type = "ready-update" <=> d.phase = "ready"
          /\ d.phase = "ready" => m.rbs = RollbackVersions
  BY <1>2, CampaignMessageFields DEF d
<1>. QED BY <1>1, <1>3 DEF d

\* The campaign id that the handlers work with is that of their message, and no record
\* without campaign id is ever compared with it.
LEMMA CampaignKnownStep ==
  ASSUME TypeOK, ThreadsOK, CampaignTypeOK, TokenInv, CampaignKnown,
         \A p \in Pkgs : RecordOK(p), CampaignNext
  PROVE  CampaignKnown'
<1>. USE DEF CampaignKnown, Goto, Return
<1>0. /\ pc \in [Threads -> ProgramSteps] /\ cmd \in [Threads -> Commands \cup {None}]
      /\ Threads = {"runner", "worker"}
  BY DEF TypeOK, Threads
<1>1. ASSUME NEW p \in Pkgs, DmcStep(p) PROVE CampaignKnown'
  BY <1>1, DmcFrame
<1>2. CASE DmcPresence \/ RunnerDrop \/ RunnerConsumed \/ RunnerDiscard
  BY <1>2 DEF DmcPresence, RunnerDrop, RunnerConsumed, RunnerDiscard, Accept, Pop, threadVars, compVars
<1>3. CASE RunnerSpawn
  BY <1>0, <1>3 DEF RunnerSpawn, FirstStep
<1>4. CASE RunnerExecute
  BY <1>0, <1>4 DEF RunnerExecute, Accept, Pop, compVars
<1>5. CASE PrepareTest
  <2>. DEFINE m == cmd["worker"]
  <2>1. /\ pc["worker"] = "p_test" /\ cmd' = cmd /\ prepared' = prepared
    BY <1>5 DEF PrepareTest
  <2>2. m.pkg \in Pkgs /\ m.campaign # None /\ CampaignOf(m) = m.campaign
    BY <2>1, WorkerMessage DEF PrepareSteps
  <2>3. ~(stage[m.pkg] = "PREPARE_UPDATE_DONE" /\ ComparesNull(m))
    BY <2>2 DEF RecordOK, ComparesNull
  <2>4. \/ pc'["worker"] = "exit"
        \/ pc'["worker"] = "p_begin" /\ cur_campaign_id' = CampaignOf(m) /\ seen' = stage[m.pkg]
    BY <1>0, <1>5, <2>3 DEF PrepareTest
  <2>5. stage[m.pkg] = "PREPARE_UPDATE_DONE" => prepared[m.pkg].cid # None
    BY <2>2 DEF RecordOK
  <2>. QED BY <2>1, <2>2, <2>4, <2>5
<1>6. CASE PrepareBegin \/ PrepareInstall
  BY <1>0, <1>6 DEF PrepareBegin, PrepareInstall, compVars
<1>7. CASE PrepareEnd \/ WorkerExit \/ ReadyBegin
  BY <1>0, <1>7 DEF PrepareEnd, WorkerExit, ReadyBegin
<1>8. CASE ReadyParse
  <2>. DEFINE m == cmd["worker"]
  <2>1. pc["worker"] = "r_parse" /\ cmd' = cmd
    BY <1>8 DEF ReadyParse
  <2>2. CampaignOf(m) = m.campaign
    BY <2>1, WorkerMessage DEF ReadySteps
  <2>3. pc'["worker"] = "exit" \/ (pc'["worker"] = "r_begin" /\ cur_campaign_id' = CampaignOf(m))
    BY <1>0, <1>8 DEF ReadyParse
  <2>. QED BY <2>1, <2>2, <2>3
<1>9. CASE ReadyInstall \/ ReadyBackup \/ ReadyDone \/ ReadyFlag \/ ReadyUnflag \/ ReadyRelease
  BY <1>0, <1>9 DEF ReadyInstall, ReadyBackup, ReadyDone, ReadyFlag, ReadyUnflag, ReadyRelease
<1>10. ASSUME NEW t \in Threads, QueryPackage(t) \/ ConfirmStep(t) PROVE CampaignKnown'
  <2>1. cmd' = cmd /\ cur_campaign_id' = cur_campaign_id /\ prepared' = prepared /\ seen' = seen
    BY <1>10 DEF QueryPackage, ConfirmStep, ConfirmTest, ConfirmSkip, ConfirmBegin,
                 ConfirmClean, ConfirmEnd, compVars
  <2>2. \/ pc'["worker"] = pc["worker"]
        \/ pc'["worker"] \in ConfirmSteps \cup {"r_unflag", "exit"}
    BY <1>0, <1>10 DEF QueryPackage, ConfirmStep, ConfirmTest, ConfirmSkip, ConfirmBegin,
                 ConfirmClean, ConfirmEnd, ConfirmSteps
  <2>. QED BY <2>1, <2>2 DEF ConfirmSteps
<1>. QED BY <1>1, <1>2, <1>3, <1>4, <1>5, <1>6, <1>7, <1>8, <1>9, <1>10
         DEF CampaignNext, AgentStep, RunnerStep, PrepareStep, ReadyStep

\* Steps that have nothing to do with what is known of package p.
LEMMA PkgFrame ==
  ASSUME NEW p \in Pkgs, PkgInv(p),
         dmc'[p] = dmc[p], reply'[p] = reply[p], installed'[p] = installed[p],
         prepared'[p] = prepared[p],
         stage'[p] = "PREPARE_UPDATE_DONE" =>
           stage[p] = "PREPARE_UPDATE_DONE" \/ prepared[p].cid # None,
         dmc[p].phase = "prepare" /\ reply[p] # None => manifest[p] \subseteq manifest'[p],
         dmc[p].phase = "prepare" /\ reply[p] # None
           /\ cmd'["worker"] # None /\ cmd'["worker"].pkg = p =>
             pc'["worker"] \in {"p_end", "exit", "idle", "query"},
         pc'["worker"] = "r_install" /\ cmd'["worker"].pkg = p => prepared[p].ver = None,
         pc'["worker"] = "p_end" /\ outcome' = "READY" /\ cmd'["worker"].pkg = p =>
           pc["worker"] = "p_end" /\ outcome = "READY" /\ cmd["worker"].pkg = p
  PROVE  PkgInv(p)'
<1>1. RecordOK(p)'
  BY DEF PkgInv, RecordOK
<1>2. PreparedOK(p)'
  BY DEF PkgInv, PreparedOK, Wanted
<1>3. AnswerOK(p)'
  BY DEF PkgInv, AnswerOK, Announces, Wanted
<1>4. NotYet(p)'
  BY DEF PkgInv, NotYet
<1>. QED BY <1>1, <1>2, <1>3, <1>4 DEF PkgInv

\* The runner's steps: a command for a package with an unread answer is never started.
LEMMA PkgRunner ==
  ASSUME TypeOK, TokenInv, NEW p \in Pkgs, PkgInv(p), RunnerStep, dmc' = dmc
  PROVE  PkgInv(p)'
<1>0. /\ pc \in [Threads -> ProgramSteps] /\ cmd \in [Threads -> Commands \cup {None}]
      /\ Threads = {"runner", "worker"}
  BY DEF TypeOK, Threads
<1>1. /\ stage' = stage /\ prepared' = prepared /\ manifest' = manifest /\ installed' = installed
      /\ outcome' = outcome /\ reply' = reply /\ Pop
  BY DEF RunnerStep, RunnerDrop, RunnerConsumed, RunnerDiscard, RunnerSpawn, RunnerExecute, Accept,
         Pop, compVars, fileVars, localVars
<1>2. CASE pc'["worker"] = pc["worker"] /\ cmd'["worker"] = cmd["worker"]
  <2>1. dmc[p].phase = "prepare" /\ reply[p] # None /\ cmd["worker"] # None /\ cmd["worker"].pkg = p
          => pc["worker"] \in {"p_end", "exit", "idle", "query"}
    BY DEF PkgInv, PreparedOK
  <2>2. pc["worker"] = "r_install" /\ cmd["worker"].pkg = p => prepared[p].ver = None
    BY DEF PkgInv, RecordOK
  <2>. QED BY <1>1, <1>2, <2>1, <2>2, PkgFrame
<1>3. CASE RunnerSpawn
  <2>1. /\ pc'["worker"] = FirstStep(Msg) /\ cmd'["worker"] = Msg /\ OnWorker(Msg)
    BY <1>0, <1>3 DEF RunnerSpawn
  <2>2. inbox \in Seq(Commands) /\ inbox # <<>>
    BY <1>1 DEF Pop, TypeOK
  <2>3. Msg = inbox[1] /\ 1 \in DOMAIN inbox
    BY <2>2, TailFacts DEF Msg
  <2>4. Msg.pkg = p /\ Msg.type \in {"prepare-update", "ready-update"} => reply[p] = None
    BY <2>3 DEF TokenInv, OneAsked, Asks
  <2>5. pc'["worker"] \in {"query", "p_test", "r_parse"}
        /\ (pc'["worker"] # "query" => Msg.type \in {"prepare-update", "ready-update"})
    BY <2>1 DEF FirstStep, OnWorker
  <2>. QED BY <1>1, <2>1, <2>4, <2>5, PkgFrame
<1>. QED BY <1>0, <1>2, <1>3 DEF RunnerStep, RunnerDrop, RunnerConsumed, RunnerDiscard, RunnerExecute,
                                  Accept, Pop, threadVars

\* The first prepare-update of a campaign finds no record of that campaign to trust.
LEMMA NeverAlreadyPrepared ==
  ASSUME TypeOK, ThreadsOK, CampaignTypeOK, TokenInv, NEW p \in Pkgs, DmcOK(p), PkgInv(p),
         cmd["worker"].pkg = p, pc["worker"] = "p_test"
  PROVE  ~AlreadyPrepared(cmd["worker"])
<1>. DEFINE m == cmd["worker"]
<1>1. /\ m \in Commands /\ m.campaign # None /\ CampaignOf(m) = m.campaign
  BY WorkerMessage DEF PrepareSteps
<1>2. reply[p] = None /\ m.campaign = dmc[p].campaign /\ dmc[p].phase = "prepare"
  BY UnansweredFacts DEF Unanswered, PrepareSteps
<1>3. prepared[p].cid = dmc[p].campaign => prepared[p].ver = None
  BY <1>2 DEF PkgInv, RecordOK
<1>4. m.version # None
  BY <1>1, CommandFields, NoneAssumption
<1>. QED BY <1>1, <1>2, <1>3, <1>4 DEF AlreadyPrepared

\* process_prepare_update.
LEMMA PkgPrepare ==
  ASSUME TypeOK, ThreadsOK, CampaignTypeOK, TokenInv, CampaignKnown, CampaignKnown',
         NEW p \in Pkgs, DmcOK(p), PkgInv(p), PrepareStep, dmc' = dmc
  PROVE  PkgInv(p)'
<1>. USE DEF Goto
<1>. DEFINE m == cmd["worker"]
<1>0. /\ pc \in [Threads -> ProgramSteps] /\ cmd \in [Threads -> Commands \cup {None}]
      /\ Threads = {"runner", "worker"} /\ reply \in [Pkgs -> StatusType \cup {None}]
      /\ manifest \in [Pkgs -> SUBSET Versions] /\ stage \in [Pkgs -> Stages]
      /\ prepared \in [Pkgs -> [ver : Versions \cup {None}, cid : Campaigns \cup {None}]]
  BY DEF TypeOK, Threads
<1>1. /\ cmd' = cmd /\ installed' = installed /\ pc["worker"] \in PrepareSteps
      /\ pc'["worker"] # "r_install"
  BY <1>0 DEF PrepareStep, PrepareTest, PrepareBegin, PrepareInstall, PrepareEnd, fileVars, PrepareSteps
<1>2. /\ m \in Commands /\ m.pkg \in Pkgs /\ m.campaign # None /\ CampaignOf(m) = m.campaign
      /\ m.campaign \in 1 .. dmc[m.pkg].campaign
  BY <1>1, WorkerMessage
<1>3. CASE m.pkg # p
  <2>1. /\ reply'[p] = reply[p] /\ manifest'[p] = manifest[p] /\ prepared'[p] = prepared[p]
        /\ stage'[p] = stage[p]
    BY <1>0, <1>3 DEF PrepareStep, PrepareTest, PrepareBegin, PrepareInstall, PrepareEnd, fileVars,
                      compVars, Send
  <2>. QED BY <1>1, <1>3, <2>1, PkgFrame
<1>4. CASE m.pkg = p
  <2>1. CASE pc["worker"] # "p_end"
    <3>. DEFINE d == dmc[p]
    <3>1. Unanswered(p)
      BY <1>1, <1>4, <2>1 DEF Unanswered, PrepareSteps
    <3>2. /\ reply[p] = None /\ m.version = d.version /\ m.rb = d.rb /\ m.campaign = d.campaign
          /\ TargetVersion(m) = Wanted(d) /\ d.phase = "prepare"
      BY <1>1, <3>1, UnansweredFacts
    <3>3. CASE PrepareTest
      <4>1. ~AlreadyPrepared(m)
        BY <1>4, <3>3, NeverAlreadyPrepared DEF PrepareTest
      <4>2. /\ reply' = reply /\ manifest' = manifest /\ prepared' = prepared /\ stage' = stage
            /\ pc'["worker"] # "p_end"
        BY <1>0, <3>3, <4>1 DEF PrepareTest, fileVars
      <4>. QED BY <1>1, <3>2, <4>2, PkgFrame
    <3>4. CASE PrepareBegin
      <4>1. /\ reply' = reply /\ manifest' = manifest /\ prepared' = prepared
            /\ stage'[p] = "PREPARE_UPDATE_STARTED" /\ pc'["worker"] = "p_install"
        BY <1>0, <1>4, <3>4 DEF PrepareBegin, fileVars
      <4>. QED BY <1>1, <3>2, <4>1, PkgFrame
    <3>5. CASE PrepareInstall
      <4>1. /\ prepared' = prepared /\ stage' = stage /\ pc'["worker"] = "p_end"
        BY <1>0, <3>5 DEF PrepareInstall, compVars
      <4>2. \/ /\ outcome' = "READY" /\ reply'[p] = Status("READY", m.rb, FALSE)
               /\ TargetVersion(m) \in manifest'[p]
            \/ /\ outcome' = "FAILED"
               /\ reply'[p] \in {Status("FAILED", m.rb, FALSE), Status("FAILED", None, FALSE)}
        <5>1. CASE outcome' = "READY"
          BY <1>0, <1>4, <3>5, <5>1 DEF PrepareInstall, Send
        <5>2. CASE outcome' # "READY"
          BY <1>0, <1>4, <3>5, <5>2 DEF PrepareInstall, Send
        <5>. QED BY <5>1, <5>2
      <4>3. m.rb \in Versions \cup {None}
        BY <1>2, CommandFields
      <4>4. /\ Status("READY", m.rb, FALSE) # None /\ Status("READY", m.rb, FALSE).st = "READY"
            /\ Status("FAILED", m.rb, FALSE) # None /\ Status("FAILED", m.rb, FALSE).st = "FAILED"
            /\ Status("FAILED", None, FALSE) # None /\ Status("FAILED", None, FALSE).st = "FAILED"
        <5>1. ASSUME NEW x \in Versions \cup {None}
              PROVE  /\ Status("READY", x, FALSE) # None /\ Status("READY", x, FALSE).st = "READY"
                     /\ Status("FAILED", x, FALSE) # None /\ Status("FAILED", x, FALSE).st = "FAILED"
          BY StatusTyped, UpdateAgentAssumption DEF Status
        <5>. QED BY <4>3, <5>1
      <4>5. /\ reply'[p] # None
            /\ \/ outcome' = "READY" /\ reply'[p].st = "READY" /\ Wanted(d) \in manifest'[p]
               \/ outcome' = "FAILED" /\ reply'[p].st = "FAILED"
        BY <3>2, <4>2, <4>4
      <4>6. RecordOK(p)'
        BY <1>1, <1>4, <3>2, <4>1, <4>5 DEF PkgInv, RecordOK
      <4>7. PreparedOK(p)'
        BY <1>1, <1>4, <3>2, <4>1, <4>5 DEF PreparedOK
      <4>8. AnswerOK(p)'
        BY <3>2 DEF AnswerOK
      <4>9. NotYet(p)'
        BY <1>1, <3>2 DEF PkgInv, NotYet
      <4>. QED BY <4>6, <4>7, <4>8, <4>9 DEF PkgInv
    <3>. QED BY <2>1, <3>3, <3>4, <3>5 DEF PrepareStep, PrepareEnd
  <2>2. CASE pc["worker"] = "p_end"
    <3>1. /\ PrepareEnd /\ reply' = reply /\ manifest' = manifest
          /\ pc'["worker"] = "exit" /\ cur_campaign_id = m.campaign
      BY <1>0, <2>2 DEF PrepareStep, PrepareTest, PrepareBegin, PrepareInstall, PrepareEnd, fileVars,
                        CampaignKnown
    <3>2. CASE outcome # "READY"
      <4>1. prepared' = prepared /\ stage'[p] = seen
        BY <1>0, <1>4, <3>1, <3>2 DEF PrepareEnd
      <4>2. seen = "PREPARE_UPDATE_DONE" => prepared[p].cid # None
        BY <1>4, <2>2 DEF CampaignKnown
      <4>. QED BY <1>1, <3>1, <4>1, <4>2, PkgFrame
    <3>3. CASE outcome = "READY"
      <4>1. prepared'[p] = [ver |-> m.version, cid |-> m.campaign]
        BY <1>0, <1>2, <1>4, <3>1, <3>3 DEF PrepareEnd
      <4>2. \/ dmc[p].phase = "prepare" /\ reply[p] # None
            \/ dmc[p].phase = "ready" /\ reply[p] = None
        BY <1>4, <2>2, <3>3 DEF PkgInv, RecordOK
      <4>3. RecordOK(p)'
        BY <1>1, <1>2, <1>4, <3>1, <4>1, <4>2 DEF RecordOK
      <4>4. PreparedOK(p)'
        BY <1>1, <3>1 DEF PkgInv, PreparedOK, Wanted
      <4>5. AnswerOK(p)'
        BY <3>1, <4>2 DEF AnswerOK
      <4>6. NotYet(p)'
        BY <1>1, <3>1 DEF PkgInv, NotYet
      <4>. QED BY <4>3, <4>4, <4>5, <4>6 DEF PkgInv
    <3>. QED BY <3>2, <3>3
  <2>. QED BY <2>1, <2>2
<1>. QED BY <1>3, <1>4

\* What the installation does to its package.
LEMMA InstallFacts ==
  ASSUME TypeOK, ThreadsOK, CampaignTypeOK, TokenInv, TargetInv,
         NEW p \in Pkgs, DmcOK(p), ReadyInstall, cmd["worker"].pkg = p
  PROVE  \E r :
           /\ Truthful(cmd["worker"], Wanted(dmc[p]), installed[p], r)
           /\ reply[p] = None /\ reply'[p] = r.reply
           /\ installed'[p] = IF r.ran /\ r.sts = "COMPLETED" THEN Wanted(dmc[p]) ELSE installed[p]
           /\ dmc[p].rb = None /\ retry_cnt <= MaxRetry => TryAgain(manifest[p], r)
           /\ manifest'[p] = r.manifest
<1>. DEFINE m == cmd["worker"]
<1>0. /\ reply \in [Pkgs -> StatusType \cup {None}] /\ installed \in [Pkgs -> Versions]
      /\ manifest \in [Pkgs -> SUBSET Versions] /\ pc["worker"] = "r_install"
  BY DEF TypeOK, ReadyInstall
<1>1. Unanswered(p)
  BY <1>0 DEF Unanswered
<1>2. /\ reply[p] = None /\ m \in Commands /\ m.version = dmc[p].version /\ m.rb = dmc[p].rb
      /\ m.version \in m.listed /\ TargetVersion(m) = Wanted(dmc[p])
  BY <1>1, UnansweredFacts
<1>3. m.rb = None => target = m.version
  BY <1>0, <1>2 DEF TargetInv, TargetVersion
<1>4. PICK a \in Answers : Perform(p, a, ReadyResult(m, a))
  BY DEF ReadyInstall
<1>. DEFINE r == ReadyResult(m, a)
<1>5. /\ Truthful(m, TargetVersion(m), installed[p], r)
      /\ m.rb = None /\ retry_cnt <= MaxRetry =>
           TryAgain(manifest[p], r)
  BY <1>2, <1>3, ReadyResultFacts
<1>6. r.target = Wanted(dmc[p])
  <2>1. r.target = IF m.rb # None THEN m.rb ELSE target
    BY <1>2, ReadyResultType
  <2>. HIDE DEF r
  <2>. QED BY <1>2, <1>3, <2>1 DEF TargetVersion
<1>7. Perform(p, a, r)
  BY <1>4
<1>. HIDE DEF r
<1>8. reply'[p] = r.reply
  BY <1>0, <1>2, <1>7 DEF Perform
<1>9. installed'[p] = IF r.ran /\ r.sts = "COMPLETED" THEN Wanted(dmc[p]) ELSE installed[p]
  BY <1>0, <1>6, <1>7 DEF Perform
<1>10. manifest'[p] = r.manifest
  BY <1>0, <1>7 DEF Perform
<1>11. dmc[p].rb = None /\ retry_cnt <= MaxRetry => TryAgain(manifest[p], r)
  BY <1>2, <1>5
<1>12. Truthful(m, Wanted(dmc[p]), installed[p], r)
  BY <1>2, <1>5
<1>. QED BY <1>2, <1>8, <1>9, <1>10, <1>11, <1>12

\* process_ready_update.
LEMMA PkgReady ==
  ASSUME TypeOK, ThreadsOK, CampaignTypeOK, TokenInv, TargetInv, CampaignKnown,
         NEW p \in Pkgs, DmcOK(p), PkgInv(p), ReadyStep, dmc' = dmc
  PROVE  PkgInv(p)'
<1>. USE DEF Goto
<1>. DEFINE m == cmd["worker"]
            d == dmc[p]
<1>0. /\ pc \in [Threads -> ProgramSteps] /\ cmd \in [Threads -> Commands \cup {None}]
      /\ Threads = {"runner", "worker"} /\ reply \in [Pkgs -> StatusType \cup {None}]
      /\ manifest \in [Pkgs -> SUBSET Versions] /\ stage \in [Pkgs -> Stages]
      /\ prepared \in [Pkgs -> [ver : Versions \cup {None}, cid : Campaigns \cup {None}]]
      /\ installed \in [Pkgs -> Versions]
  BY DEF TypeOK, Threads
<1>1. cmd' = cmd /\ pc["worker"] \in ReadySteps /\ pc'["worker"] # "p_end"
  BY <1>0 DEF ReadyStep, ReadyParse, ReadyBegin, ReadyInstall, ReadyBackup, ReadyDone, ReadyFlag,
         ReadyUnflag, ReadyRelease, ReadySteps
<1>2. /\ m \in Commands /\ m.pkg \in Pkgs /\ m.campaign # None /\ CampaignOf(m) = m.campaign
      /\ m.campaign \in 1 .. dmc[m.pkg].campaign
  BY <1>1, WorkerMessage
<1>3. pc["worker"] \in {"r_parse", "r_begin", "r_install"} /\ m.pkg = p =>
        /\ reply[p] = None /\ m.version = d.version /\ m.rb = d.rb /\ m.campaign = d.campaign
        /\ TargetVersion(m) = Wanted(d) /\ d.phase = "ready" /\ m.rbs = RollbackVersions
  <2>1. pc["worker"] \in {"r_parse", "r_begin", "r_install"} /\ m.pkg = p => Unanswered(p)
    BY DEF Unanswered
  <2>. QED BY <1>1, <2>1, UnansweredFacts
<1>4. CASE ReadyParse
  <2>1. /\ installed' = installed /\ prepared' = prepared /\ stage' = stage
        /\ pc["worker"] = "r_parse" /\ pc'["worker"] \in {"exit", "r_begin"}
    BY <1>0, <1>4 DEF ReadyParse
  <2>2. CASE m.pkg # p
    <3>1. manifest'[p] = manifest[p] /\ reply'[p] = reply[p]
      BY <1>0, <1>4, <2>2 DEF ReadyParse, ParseFound, ParseFailed, Send
    <3>. QED BY <1>1, <2>1, <2>2, <3>1, PkgFrame
  <2>3. CASE m.pkg = p /\ reply'[p] = reply[p]
    BY <1>1, <1>3, <2>1, <2>3, PkgFrame
  <2>4. CASE m.pkg = p /\ reply'[p] # reply[p]
    <3>1. \E b : reply'[p] = Status("FAILED", m.rb, b)
      BY <1>0, <1>4, <2>4 DEF ReadyParse, ParseFailed, Send
    <3>2. reply'[p].st = "FAILED" /\ reply'[p].rb = d.rb
      BY <1>3, <2>1, <2>4, <3>1 DEF Status
    <3>3. RecordOK(p)'
      BY <1>1, <1>3, <2>1, <2>4 DEF PkgInv, RecordOK
    <3>4. PreparedOK(p)' /\ AnswerOK(p)'
      BY <1>3, <2>1, <2>4, <3>2 DEF PreparedOK, AnswerOK, Announces
    <3>5. NotYet(p)'
      BY <1>3, <2>1, <2>4 DEF PkgInv, NotYet
    <3>. QED BY <3>3, <3>4, <3>5 DEF PkgInv
  <2>. QED BY <2>2, <2>3, <2>4
<1>5. CASE ReadyBegin
  <2>1. /\ installed' = installed /\ reply' = reply /\ manifest' = manifest
        /\ pc["worker"] = "r_begin" /\ pc'["worker"] = "r_install" /\ cur_campaign_id = m.campaign
    BY <1>0, <1>5 DEF ReadyBegin, fileVars, CampaignKnown
  <2>2. CASE m.pkg # p
    <3>1. prepared'[p] = prepared[p] /\ stage'[p] = stage[p]
      BY <1>0, <1>5, <2>2 DEF ReadyBegin
    <3>. QED BY <1>1, <2>1, <2>2, <3>1, PkgFrame
  <2>3. CASE m.pkg = p
    <3>1. prepared'[p] = [ver |-> None, cid |-> m.campaign] /\ stage'[p] = "READY_UPDATE_STARTED"
      BY <1>0, <1>2, <1>5, <2>1, <2>3 DEF ReadyBegin
    <3>2. RecordOK(p)'
      BY <1>1, <1>2, <1>3, <2>1, <2>3, <3>1 DEF RecordOK
    <3>3. PreparedOK(p)' /\ AnswerOK(p)'
      BY <1>3, <2>1, <2>3 DEF PreparedOK, AnswerOK
    <3>4. NotYet(p)'
      BY <2>1 DEF PkgInv, NotYet
    <3>. QED BY <3>2, <3>3, <3>4 DEF PkgInv
  <2>. QED BY <2>2, <2>3
<1>6. CASE ReadyInstall
  <2>1. prepared' = prepared /\ stage' = stage /\ pc["worker"] = "r_install" /\ pc'["worker"] = "r_backup"
    BY <1>0, <1>6 DEF ReadyInstall
  <2>2. CASE m.pkg # p
    <3>1. reply'[p] = reply[p] /\ installed'[p] = installed[p] /\ manifest'[p] = manifest[p]
      BY <1>0, <1>6, <2>2 DEF ReadyInstall, Perform
    <3>. QED BY <1>1, <2>1, <2>2, <3>1, PkgFrame
  <2>3. CASE m.pkg = p
    <3>1. PICK r :
            /\ Truthful(m, Wanted(d), installed[p], r)
            /\ reply'[p] = r.reply
            /\ installed'[p] = IF r.ran /\ r.sts = "COMPLETED" THEN Wanted(d) ELSE installed[p]
      BY <1>6, <2>3, InstallFacts
    <3>2. d.phase = "ready" /\ m.rb = d.rb /\ m.rbs = RollbackVersions /\ prepared[p].ver = None
      BY <1>3, <2>1, <2>3 DEF PkgInv, RecordOK
    <3>3. RecordOK(p)'
      BY <1>1, <2>1, <3>2 DEF PkgInv, RecordOK
    <3>4. PreparedOK(p)'
      BY <3>2 DEF PreparedOK
    <3>5. AnswerOK(p)'
      <4>1. ASSUME reply'[p] # None, reply'[p].st = "COMPLETED" PROVE installed'[p] = Wanted(d)
        BY <3>1, <4>1 DEF Truthful
      <4>2. ASSUME reply'[p] # None, Announces(reply'[p], d)
            PROVE  /\ reply'[p].rb = NextRollback(RollbackVersions, Wanted(d))
                   /\ installed'[p] # Wanted(d)
        BY <3>1, <3>2, <4>2 DEF Truthful, Announces
      <4>3. reply'[p] # None => reply'[p].st # "READY"
        BY <3>1 DEF Truthful
      <4>. QED BY <2>1, <3>2, <4>1, <4>2, <4>3 DEF AnswerOK
    <3>6. NotYet(p)'
      <4>1. d.rb = None => Wanted(d) = d.version
        BY DEF Wanted
      <4>2. reply'[p] = None \/ reply'[p].st # "COMPLETED" => r.sts # "COMPLETED" /\ installed[p] # Wanted(d)
        BY <3>1 DEF Truthful
      <4>. QED BY <3>1, <3>2, <4>1, <4>2 DEF NotYet
    <3>. QED BY <3>3, <3>4, <3>5, <3>6 DEF PkgInv
  <2>. QED BY <2>2, <2>3
<1>7. CASE ReadyBackup \/ ReadyDone \/ ReadyFlag \/ ReadyUnflag \/ ReadyRelease
  <2>1. /\ installed' = installed /\ reply' = reply /\ manifest' = manifest /\ prepared' = prepared
        /\ pc["worker"] \notin {"p_end", "exit", "idle", "query"} /\ pc'["worker"] # "r_install"
    BY <1>0, <1>7 DEF ReadyBackup, ReadyDone, ReadyFlag, ReadyUnflag, ReadyRelease, fileVars, compVars
  <2>2. stage' = stage \/ stage' = [stage EXCEPT ![m.pkg] = "READY_UPDATE_DONE"]
    BY <1>7 DEF ReadyBackup, ReadyDone, ReadyFlag, ReadyUnflag, ReadyRelease, compVars
  <2>3. stage'[p] = "PREPARE_UPDATE_DONE" => stage[p] = "PREPARE_UPDATE_DONE"
    BY <1>0, <2>2
  <2>4. ~(dmc[p].phase = "prepare" /\ reply[p] # None /\ m # None /\ m.pkg = p)
    BY <2>1 DEF PkgInv, PreparedOK
  <2>. QED BY <1>1, <2>1, <2>3, <2>4, PkgFrame
<1>. QED BY <1>4, <1>5, <1>6, <1>7 DEF ReadyStep

\* Confirm-update, query-package, and the ends of the threads.
LEMMA PkgOther ==
  ASSUME TypeOK, ThreadsOK, TokenInv, NEW p \in Pkgs, PkgInv(p), dmc' = dmc,
         DmcPresence \/ WorkerExit \/ \E t \in Threads : QueryPackage(t) \/ ConfirmStep(t)
  PROVE  PkgInv(p)'
<1>. USE DEF Goto, Return
<1>0. /\ pc \in [Threads -> ProgramSteps] /\ cmd \in [Threads -> Commands \cup {None}]
      /\ Threads = {"runner", "worker"} /\ stage \in [Pkgs -> Stages]
      /\ manifest \in [Pkgs -> SUBSET Versions]
  BY DEF TypeOK, Threads
<1>1. /\ cmd' = cmd /\ reply' = reply /\ prepared' = prepared /\ installed' = installed /\ outcome' = outcome
  BY DEF DmcPresence, WorkerExit, QueryPackage, ConfirmStep, ConfirmTest, ConfirmSkip, ConfirmBegin,
         ConfirmClean, ConfirmEnd, threadVars, compVars, fileVars, localVars
<1>2. /\ dmc[p].phase = "prepare" /\ reply[p] # None /\ cmd["worker"] # None /\ cmd["worker"].pkg = p
           => pc["worker"] \in {"p_end", "exit", "idle", "query"}
      /\ pc["worker"] = "r_install" /\ cmd["worker"].pkg = p => prepared[p].ver = None
  BY DEF PkgInv, PreparedOK, RecordOK
<1>3. CASE DmcPresence
  BY <1>1, <1>2, <1>3, PkgFrame DEF DmcPresence, threadVars, compVars, fileVars
<1>4. CASE WorkerExit
  <2>1. pc'["worker"] = "idle" /\ stage' = stage /\ manifest' = manifest
    BY <1>0, <1>4 DEF WorkerExit, compVars, fileVars
  <2>. QED BY <1>1, <2>1, PkgFrame
<1>5. ASSUME NEW t \in Threads, QueryPackage(t) \/ ConfirmStep(t) PROVE PkgInv(p)'
  <2>1. stage'[p] = "PREPARE_UPDATE_DONE" => stage[p] = "PREPARE_UPDATE_DONE"
    <3>1. stage' = stage \/ \E x \in {"CONFIRM_UPDATE_STARTED", "CONFIRM_UPDATE_DONE"} :
                              stage' = [stage EXCEPT ![cmd[t].pkg] = x]
      BY <1>5 DEF QueryPackage, ConfirmStep, ConfirmTest, ConfirmSkip, ConfirmBegin, ConfirmClean,
                  ConfirmEnd, compVars
    <3>. QED BY <1>0, <3>1
  <2>2. \/ pc'["worker"] = pc["worker"] /\ t = "runner"
        \/ pc["worker"] = "query" /\ pc'["worker"] = "exit" /\ t = "worker"
        \/ /\ pc["worker"] \in ConfirmSteps /\ pc'["worker"] \in ConfirmSteps \cup {"r_unflag"}
           /\ t = "worker"
    BY <1>0, <1>5 DEF QueryPackage, ConfirmStep, ConfirmTest, ConfirmSkip, ConfirmBegin, ConfirmClean,
                ConfirmEnd, ConfirmSteps
  <2>3. ASSUME dmc[p].phase = "prepare", reply[p] # None PROVE manifest'[p] = manifest[p]
    <3>1. manifest' = manifest \/ (pc[t] = "c_clean" /\ manifest' = [manifest EXCEPT ![cmd[t].pkg] = {}])
      BY <1>5 DEF QueryPackage, ConfirmStep, ConfirmTest, ConfirmSkip, ConfirmBegin, ConfirmClean,
                  ConfirmEnd, fileVars
    <3>2. Late(p)
      BY <2>3 DEF Late
    <3>3. pc["runner"] = "c_clean" => cmd["runner"].pkg # p
      BY <3>2 DEF TokenInv, NoConfirm, ConfirmSteps
    <3>4. pc["worker"] = "c_clean" => cmd["worker"] # None
      BY CommandFields DEF ThreadsOK, Threads
    <3>5. pc["worker"] = "c_clean" => cmd["worker"].pkg # p
      BY <1>2, <2>3, <3>4
    <3>. QED BY <1>0, <3>1, <3>3, <3>5
  <2>4. pc'["worker"] # pc["worker"] => pc'["worker"] \notin {"r_install", "p_end"}
    BY <2>2 DEF ConfirmSteps
  <2>5. dmc[p].phase = "prepare" /\ reply[p] # None /\ cmd["worker"] # None /\ cmd["worker"].pkg = p
           => pc'["worker"] \in {"p_end", "exit", "idle", "query"}
    BY <1>2, <2>2 DEF ConfirmSteps
  <2>. QED BY <1>1, <1>2, <2>1, <2>3, <2>4, <2>5, PkgFrame
<1>. QED BY <1>3, <1>4, <1>5

\* The version that follows is one of the list.
LEMMA NextRollbackListed ==
  ASSUME NEW cur, NextRollback(RollbackVersions, cur) # None
  PROVE  NextRollback(RollbackVersions, cur) \in RollbackSet
  BY DEF NextRollback, RollbackSet

\* The DMC's own bookkeeping.
LEMMA DmcOKStep ==
  ASSUME StageInv, CampaignTypeOK, CampaignNext, NEW p \in Pkgs, DmcOK(p), AnswerOK(p)
  PROVE  CampaignTypeOK' /\ DmcOK(p)'
<1>. USE DEF StageInv
<1>1. CASE AgentStep /\ UNCHANGED dmc
  BY <1>1 DEF CampaignTypeOK, DmcOK
<1>2. ASSUME NEW q \in Pkgs, DmcStep(q) PROVE CampaignTypeOK' /\ DmcOK(p)'
  <2>1. CASE DmcStart(q)
    <3>1. PICK v \in Targets \ {installed[q]} :
           /\ dmc'[q] = [phase |-> "prepare", version |-> v, rb |-> None, sent |-> FALSE,
                         failed |-> 0, campaign |-> dmc[q].campaign + 1]
           /\ dmc[q].campaign \in Nat
           /\ CampaignTypeOK' /\ \A x \in Pkgs \ {q} : dmc'[x] = dmc[x]
      BY <2>1, DmcStartFacts
    <3>. QED BY <3>1 DEF DmcOK
  <2>2. CASE DmcSend(q)
    BY <2>2, DmcSendFacts DEF DmcOK
  <2>3. CASE DmcFinish(q)
    BY <2>3, DmcFinishFacts DEF DmcOK
  <2>4. CASE DmcStatus(q)
    <3>1. /\ dmc'[q] \in AfterStatus(dmc[q], reply[q])
          /\ dmc[q] \in DmcType /\ reply[q] \in StatusType /\ reply[q] # None
          /\ CampaignTypeOK' /\ \A x \in Pkgs \ {q} : dmc'[x] = dmc[x]
      BY <2>4, DmcStatusFacts
    <3>2. CASE p # q
      BY <3>1, <3>2 DEF DmcOK
    <3>3. CASE p = q
      <4>. DEFINE d == dmc[p]
                  s == reply[p]
                  e == dmc'[p]
      <4>. HIDE DEF d, s, e
      <4>1. d \in DmcType /\ s \in StatusType /\ s # None /\ e \in AfterStatus(d, s)
        BY <3>1, <3>3 DEF d, s, e
      <4>2. /\ e.version = d.version /\ e.campaign = d.campaign
            /\ e.phase # "idle" => d.phase # "idle"
            /\ e.rb = d.rb \/ (d.phase = "ready" /\ e.rb = s.rb /\ Announces(s, d))
        BY <4>1, AfterStatusCases DEF Announces
      <4>3. d.phase = "ready" /\ Announces(s, d) => s.rb \in RollbackSet
        BY <4>1, NextRollbackListed DEF AnswerOK, Announces, d, s
      <4>4. DmcOK(p)'
        BY <4>2, <4>3 DEF DmcOK, d, e
      <4>. QED BY <3>1, <4>4
    <3>. QED BY <3>2, <3>3
  <2>. QED BY <1>2, <2>1, <2>2, <2>3, <2>4 DEF DmcStep
<1>. QED BY <1>1, <1>2 DEF CampaignNext

\* The DMC's steps leave what is known of a package true.
LEMMA PkgDmc ==
  ASSUME StageInv, CampaignTypeOK, TokenInv, NEW p \in Pkgs, PkgInv(p),
         NEW q \in Pkgs, DmcStep(q)
  PROVE  PkgInv(p)'
<1>. USE DEF StageInv
<1>0. /\ pc' = pc /\ cmd' = cmd /\ stage' = stage /\ prepared' = prepared
      /\ manifest' = manifest /\ installed' = installed /\ outcome' = outcome
  BY DmcFrame
<1>. DEFINE d == dmc[p]
<1>1. CASE p # q
  <2>1. reply'[p] = reply[p]
    BY <1>1, DmcFrame
  <2>2. dmc'[p] = dmc[p]
    <3>1. CASE DmcStart(q)
      BY <1>1, <3>1, DmcStartFacts
    <3>2. CASE DmcSend(q)
      BY <1>1, <3>2, DmcSendFacts
    <3>3. CASE DmcStatus(q)
      BY <1>1, <3>3, DmcStatusFacts
    <3>4. CASE DmcFinish(q)
      BY <1>1, <3>4, DmcFinishFacts
    <3>. QED BY <3>1, <3>2, <3>3, <3>4 DEF DmcStep
  <2>3. /\ d.phase = "prepare" /\ reply[p] # None /\ cmd["worker"] # None /\ cmd["worker"].pkg = p
             => pc["worker"] \in {"p_end", "exit", "idle", "query"}
        /\ pc["worker"] = "r_install" /\ cmd["worker"].pkg = p => prepared[p].ver = None
    BY DEF PkgInv, PreparedOK, RecordOK
  <2>. QED BY <1>0, <2>1, <2>2, <2>3, PkgFrame
<1>2. CASE p = q /\ DmcStart(p)
  <2>1. PICK v \in Targets \ {installed[p]} :
         /\ UNCHANGED vars
         /\ d.phase = "idle"
         /\ dmc'[p] = [phase |-> "prepare", version |-> v, rb |-> None, sent |-> FALSE,
                       failed |-> 0, campaign |-> d.campaign + 1]
         /\ d.campaign \in Nat
    BY <1>2, DmcStartFacts
  <2>2. reply'[p] = None
    BY <2>1 DEF TokenInv, OneAsked, Waiting, vars
  <2>3. RecordOK(p)'
    <3>1. prepared[p].cid # None =>
            prepared[p].cid \in 1 .. d.campaign + 1 /\ prepared[p].cid # d.campaign + 1
      BY <2>1 DEF PkgInv, RecordOK
    <3>2. d.campaign + 1 # None
      <4>1. dmc'[p].campaign \in 0 .. MaxCampaigns /\ dmc'[p].campaign = d.campaign + 1
        <5>1. dmc'[p] \in DmcType
          BY <1>2, DmcStartFacts DEF CampaignTypeOK
        <5>. QED BY <2>1, <5>1 DEF DmcType
      <4>2. d.campaign + 1 \in 1 .. MaxCampaigns
        BY <2>1, <4>1
      <4>. QED BY <4>2, CampaignAssumption, UpdateAgentAssumption
    <3>. QED BY <1>0, <2>1, <2>2, <3>1, <3>2 DEF PkgInv, RecordOK
  <2>4. PreparedOK(p)' /\ AnswerOK(p)' /\ NotYet(p)'
    BY <1>0, <2>1, <2>2 DEF PreparedOK, AnswerOK, NotYet
  <2>. QED BY <2>3, <2>4 DEF PkgInv
<1>3. CASE p = q /\ DmcSend(p)
  <2>1. /\ dmc'[p].phase = dmc[p].phase /\ dmc'[p].version = dmc[p].version
        /\ dmc'[p].rb = dmc[p].rb /\ dmc'[p].campaign = dmc[p].campaign
        /\ reply' = reply /\ Wanted(dmc'[p]) = Wanted(dmc[p])
    BY <1>3, DmcSendFacts DEF DmcSend, Deliver, Wanted
  <2>2. RecordOK(p)' /\ NotYet(p)'
    BY <1>0, <2>1 DEF PkgInv, RecordOK, NotYet
  <2>3. PreparedOK(p)' /\ AnswerOK(p)'
    BY <1>0, <2>1 DEF PkgInv, PreparedOK, AnswerOK, Announces
  <2>. QED BY <2>2, <2>3 DEF PkgInv
<1>4. CASE p = q /\ DmcFinish(p)
  <2>1. /\ d.phase \in {"confirm", "abandon"} /\ dmc'[p].phase = "idle"
        /\ dmc'[p].campaign = d.campaign /\ reply' = reply
    BY <1>4, DmcFinishFacts DEF vars
  <2>2. RecordOK(p)'
    BY <1>0, <2>1 DEF PkgInv, RecordOK
  <2>3. PreparedOK(p)' /\ AnswerOK(p)' /\ NotYet(p)'
    BY <2>1 DEF PreparedOK, AnswerOK, NotYet
  <2>. QED BY <2>2, <2>3 DEF PkgInv
<1>5. CASE p = q /\ DmcStatus(p)
  <2>. DEFINE s == reply[p]
              e == dmc'[p]
  <2>1. /\ e \in AfterStatus(d, s) /\ d \in DmcType /\ s \in StatusType /\ s # None
        /\ reply'[p] = None
    BY <1>5, DmcStatusFacts
  <2>. HIDE DEF d, s, e
  <2>2. /\ e.version = d.version /\ e.campaign = d.campaign
        /\ e.phase = "prepare" => d.phase = "ready" /\ Announces(s, d) /\ e.rb = s.rb
        /\ d.phase = "prepare" /\ s.st = "READY" => e.phase = "ready"
        /\ e.phase = "ready" /\ e.rb = None =>
             d.rb = None /\ (d.phase = "prepare" \/ (d.phase = "ready" /\ s.st # "COMPLETED"))
    BY <2>1, AfterStatusCases DEF Announces
  <2>3. RecordOK(p)'
    <3>1. e.phase = "prepare" => prepared[p].ver = None
      BY <2>1, <2>2 DEF PkgInv, AnswerOK, d, s
    <3>2. ASSUME pc["worker"] = "p_end", outcome = "READY", cmd["worker"].pkg = p
          PROVE  e.phase = "ready"
      BY <2>1, <2>2, <3>2 DEF PkgInv, RecordOK, d, s
    <3>. QED BY <1>0, <2>1, <2>2, <3>1, <3>2 DEF PkgInv, RecordOK, d, e
  <2>4. PreparedOK(p)' /\ AnswerOK(p)'
    BY <2>1 DEF PreparedOK, AnswerOK
  <2>5. NotYet(p)'
    <3>1. e.phase = "prepare" => e.rb # None
      BY <2>2 DEF Announces
    <3>. QED BY <1>0, <2>1, <2>2, <3>1 DEF PkgInv, NotYet, d, s, e
  <2>. QED BY <2>3, <2>4, <2>5 DEF PkgInv
<1>. QED BY <1>1, <1>2, <1>3, <1>4, <1>5 DEF DmcStep

-----------------------------------------------------------------------------
(***************************************************************************)
(* The inductive invariant of a campaign.                                  *)
(***************************************************************************)
CampaignInv ==
  /\ StageInv /\ TargetInv /\ CampaignTypeOK
  /\ \A p \in Pkgs : DmcOK(p) /\ PkgInv(p)
  /\ TokenInv /\ Undisturbed /\ CampaignKnown

\* The invariant holds before the first campaign.
LEMMA InitCampaignInv == CampaignInit => CampaignInv
<1>. SUFFICES ASSUME CampaignInit PROVE CampaignInv
  OBVIOUS
<1>. USE DEF CampaignInit
<1>1. StageInv
  BY InitStageInv
<1>2. TargetInv /\ Undisturbed /\ CampaignKnown
  BY DEF Init, TargetInv, Undisturbed, CampaignKnown, Threads
<1>3. \A p \in Pkgs : dmc[p] = [phase |-> "idle", version |-> InitialVersion, rb |-> None,
                                sent |-> FALSE, failed |-> 0, campaign |-> 0]
  OBVIOUS
<1>4. CampaignTypeOK
  <2>1. [phase |-> "idle", version |-> InitialVersion, rb |-> None,
         sent |-> FALSE, failed |-> 0, campaign |-> 0] \in DmcType
    BY CampaignAssumption, UpdateAgentAssumption DEF DmcType, Phases
  <2>. QED BY <2>1 DEF CampaignTypeOK
<1>5. /\ inbox = <<>> /\ pc["worker"] = "idle" /\ pc["runner"] = "idle" /\ cmd["worker"] = None
      /\ \A p \in Pkgs : reply[p] = None /\ prepared[p].cid = None /\ stage[p] = "UNKNOWN"
  BY DEF Init, Threads, NoPrepared
<1>6. DOMAIN inbox = {}
  BY <1>5
<1>7. TokenInv
  BY <1>3, <1>5, <1>6 DEF TokenInv, OneAsked, NoConfirm, Handlers, Unanswered, PrepareSteps,
                          ReadySteps, ConfirmSteps
<1>8. \A p \in Pkgs : DmcOK(p) /\ PkgInv(p)
  BY <1>3, <1>5 DEF DmcOK, PkgInv, RecordOK, PreparedOK, AnswerOK, NotYet
<1>. QED BY <1>1, <1>2, <1>4, <1>7, <1>8 DEF CampaignInv

\* Every step of the agent and of the DMC preserves the invariant.
LEMMA CampaignInvStep == CampaignInv /\ [CampaignNext]_campaignVars => CampaignInv'
<1>. SUFFICES ASSUME CampaignInv, [CampaignNext]_campaignVars PROVE CampaignInv'
  OBVIOUS
<1>1. CASE UNCHANGED campaignVars
  <2>. USE DEF campaignVars, vars, compVars, fileVars, queueVars, flagVars, threadVars, localVars
  <2>1. StageInv' /\ TargetInv' /\ CampaignTypeOK'
    BY <1>1 DEF CampaignInv, StageInv, TypeOK, ThreadsOK, RestoresOwned, StageOwned, TargetInv,
                TargetVersion, CampaignTypeOK
  <2>2. TokenInv'
    BY <1>1, TokenFrame DEF CampaignInv, Unanswered
  <2>3. Undisturbed' /\ CampaignKnown'
    BY <1>1 DEF CampaignInv, Undisturbed, CampaignKnown
  <2>4. \A p \in Pkgs : DmcOK(p)' /\ PkgInv(p)'
    BY <1>1 DEF CampaignInv, DmcOK, PkgInv, RecordOK, PreparedOK, AnswerOK, NotYet, Announces, Wanted
  <2>. QED BY <2>1, <2>2, <2>3, <2>4 DEF CampaignInv
<1>2. CASE CampaignNext
  <2>0. /\ StageInv /\ TypeOK /\ ThreadsOK /\ TargetInv /\ CampaignTypeOK /\ TokenInv
        /\ Undisturbed /\ CampaignKnown
        /\ \A p \in Pkgs : DmcOK(p) /\ PkgInv(p) /\ RecordOK(p) /\ AnswerOK(p)
    BY DEF CampaignInv, StageInv, PkgInv
  <2>1. StageInv' /\ TargetInv'
    BY <1>2, <2>0, AgentInvStep
  <2>2. Undisturbed'
    BY <1>2, <2>0, UndisturbedStep
  <2>3. CampaignKnown'
    BY <1>2, <2>0, CampaignKnownStep
  <2>4. CampaignTypeOK'
    <3>1. CASE UNCHANGED dmc
      BY <2>0, <3>1 DEF CampaignTypeOK
    <3>2. ASSUME NEW p \in Pkgs, DmcStep(p) PROVE CampaignTypeOK'
      BY <1>2, <2>0, DmcOKStep
    <3>. QED BY <1>2, <3>1, <3>2 DEF CampaignNext
  <2>5. \A p \in Pkgs : DmcOK(p)'
    BY <1>2, <2>0, DmcOKStep
  <2>6. TokenInv'
    BY <1>2, <2>0, TokenAgent, TokenStart, TokenSend, TokenStatus, TokenFinish DEF CampaignNext, DmcStep
  <2>7. ASSUME NEW p \in Pkgs PROVE PkgInv(p)'
    <3>1. ASSUME AgentStep, dmc' = dmc PROVE PkgInv(p)'
      BY <2>0, <2>3, <3>1, PkgRunner, PkgPrepare, PkgReady, PkgOther DEF AgentStep
    <3>2. ASSUME NEW q \in Pkgs, DmcStep(q) PROVE PkgInv(p)'
      BY <2>0, <3>2, PkgDmc
    <3>. QED BY <1>2, <3>1, <3>2 DEF CampaignNext
  <2>. QED BY <2>1, <2>2, <2>3, <2>4, <2>5, <2>6, <2>7 DEF CampaignInv
<1>. QED BY <1>1, <1>2

\* The campaign's invariant holds for any number of packages, versions and campaigns.
THEOREM CampaignInvariant == CampaignSpec => []CampaignInv
  BY InitCampaignInv, CampaignInvStep, PTL DEF CampaignSpec

\* While on_install may be running the stage says so, whatever confirm-updates the other
\* thread still works on.
THEOREM InstallUndisturbed == CampaignSpec => []DoNotDisturb
<1>1. CampaignInv => DoNotDisturb
  BY DEF CampaignInv, Undisturbed, DoNotDisturb
<1>. QED BY <1>1, CampaignInvariant, PTL

\* READY is never answered without the wanted version in the temp manifest.
THEOREM ReadyIsPrepared == CampaignSpec => []ReadyMeansPrepared
<1>1. CampaignInv => ReadyMeansPrepared
  BY DEF CampaignInv, PkgInv, PreparedOK, ReadyMeansPrepared
<1>. QED BY <1>1, CampaignInvariant, PTL

\* A DMC that names a campaign in every command never makes comp_get_prepared_version
\* compare with a record that has none.
THEOREM NoCrashInCampaign == CampaignSpec => []NoCrash
<1>1. CampaignInv => NoCrash
  BY DEF CampaignInv, CampaignKnown, StageInv, ThreadsOK, NoCrash, Threads
<1>. QED BY <1>1, CampaignInvariant, PTL

-----------------------------------------------------------------------------
(***************************************************************************)
(* The campaign implements UpdateProtocol.                                 *)
(***************************************************************************)
\* The position of the wanted version on the rollback list.
Order(d) == IF d.rb = None THEN 0 ELSE FirstMatch(RollbackVersions, d.rb)

\* What UpdateProtocol sees of the DMC.
PhaseMap == [p \in Pkgs |-> dmc[p].phase]
WantMap  == [p \in Pkgs |-> Wanted(dmc[p])]
OrderMap == [p \in Pkgs |-> Order(dmc[p])]

\* In a list without repetitions the first match is the only one.
LEMMA PositionOf ==
  ASSUME RollbackVersions # None, NEW i \in DOMAIN RollbackVersions
  PROVE  FirstMatch(RollbackVersions, RollbackVersions[i]) = i
<1>1. \A j \in DOMAIN RollbackVersions : RollbackVersions[j] = RollbackVersions[i] => j = i
  BY RollbackListAssumption
<1>2. RollbackVersions \in Seq(Versions)
  BY CampaignAssumption
<1>3. i \in Nat
  BY <1>2
<1>. DEFINE good(x) == /\ RollbackVersions[x] = RollbackVersions[i]
                       /\ \A j \in DOMAIN RollbackVersions :
                            RollbackVersions[j] = RollbackVersions[i] => x <= j
<1>4. good(i)
  BY <1>1, <1>3
<1>5. \A x \in DOMAIN RollbackVersions : good(x) => x = i
  BY <1>1
<1>6. FirstMatch(RollbackVersions, RollbackVersions[i]) = CHOOSE x \in DOMAIN RollbackVersions : good(x)
  BY DEF FirstMatch
<1>. HIDE DEF good
<1>. QED BY <1>4, <1>5, <1>6

\* A rollback version has a position, counted from one.
LEMMA OrderPositive ==
  ASSUME NEW d, d.rb \in RollbackSet, d.rb # None
  PROVE  /\ RollbackVersions # None /\ RollbackVersions \in Seq(Versions)
         /\ Order(d) \in DOMAIN RollbackVersions /\ Order(d) \in Nat \ {0}
         /\ RollbackVersions[Order(d)] = d.rb
<1>1. RollbackVersions # None /\ RollbackVersions \in Seq(Versions)
  BY CampaignAssumption DEF RollbackSet
<1>2. PICK i \in DOMAIN RollbackVersions : d.rb = RollbackVersions[i]
  BY <1>1 DEF RollbackSet
<1>3. Order(d) = i
  BY <1>1, <1>2, PositionOf DEF Order
<1>. QED BY <1>1, <1>2, <1>3

\* The version announced after a failure is the next one of the list.
LEMMA NextPosition ==
  ASSUME NEW d \in DmcType, d.version \in Targets, d.rb \in RollbackSet \cup {None},
         NextRollback(RollbackVersions, Wanted(d)) # None
  PROVE  /\ RollbackVersions # None /\ RollbackVersions \in Seq(Versions)
         /\ Order(d) \in Nat /\ Order(d) + 1 \in DOMAIN RollbackVersions
         /\ NextRollback(RollbackVersions, Wanted(d)) = RollbackVersions[Order(d) + 1]
<1>1. RollbackVersions # None /\ RollbackVersions \in Seq(Versions) /\ Wanted(d) # None
  BY CampaignAssumption DEF NextRollback
<1>2. CASE d.rb = None
  <2>1. Wanted(d) = d.version /\ Order(d) = 0
    BY <1>2 DEF Wanted, Order
  <2>2. ~ \E i \in DOMAIN RollbackVersions : RollbackVersions[i] = Wanted(d)
    BY <1>1, <2>1, RollbackListAssumption DEF RollbackSet
  <2>. QED BY <1>1, <2>1, <2>2 DEF NextRollback
<1>3. CASE d.rb # None
  <2>1. Wanted(d) = d.rb /\ Order(d) = FirstMatch(RollbackVersions, d.rb)
    BY <1>3 DEF Wanted, Order
  <2>2. Order(d) \in DOMAIN RollbackVersions /\ Order(d) \in Nat /\ RollbackVersions[Order(d)] = d.rb
    BY <1>3, OrderPositive
  <2>. QED BY <1>1, <2>1, <2>2 DEF NextRollback
<1>. QED BY <1>2, <1>3

\* What changes of one package changes in the mapping.
LEMMA MapStep ==
  ASSUME NEW p \in Pkgs, \A q \in Pkgs \ {p} : dmc'[q] = dmc[q]
  PROVE  /\ PhaseMap' = [PhaseMap EXCEPT ![p] = dmc'[p].phase]
         /\ WantMap' = [WantMap EXCEPT ![p] = Wanted(dmc'[p])]
         /\ OrderMap' = [OrderMap EXCEPT ![p] = Order(dmc'[p])]
         /\ dmc'[p].phase = dmc[p].phase => PhaseMap' = PhaseMap
         /\ Wanted(dmc'[p]) = Wanted(dmc[p]) => WantMap' = WantMap
         /\ Order(dmc'[p]) = Order(dmc[p]) => OrderMap' = OrderMap
         /\ PhaseMap[p] = dmc[p].phase /\ WantMap[p] = Wanted(dmc[p]) /\ OrderMap[p] = Order(dmc[p])
<1>1. /\ PhaseMap' = [PhaseMap EXCEPT ![p] = dmc'[p].phase]
      /\ dmc'[p].phase = dmc[p].phase => PhaseMap' = PhaseMap
      /\ PhaseMap[p] = dmc[p].phase
  BY DEF PhaseMap
<1>2. /\ WantMap' = [WantMap EXCEPT ![p] = Wanted(dmc'[p])]
      /\ Wanted(dmc'[p]) = Wanted(dmc[p]) => WantMap' = WantMap
      /\ WantMap[p] = Wanted(dmc[p])
  BY DEF WantMap
<1>3. /\ OrderMap' = [OrderMap EXCEPT ![p] = Order(dmc'[p])]
      /\ Order(dmc'[p]) = Order(dmc[p]) => OrderMap' = OrderMap
      /\ OrderMap[p] = Order(dmc[p])
  BY DEF OrderMap
<1>. QED BY <1>1, <1>2, <1>3

(***************************************************************************)
(* The protocol's steps in terms of the mapping.                           *)
(***************************************************************************)
\* A campaign starts.
LEMMA MapsToStart ==
  ASSUME NEW p \in Pkgs, NEW v \in Targets \ {installed[p]}, PhaseMap[p] = "idle",
         PhaseMap' = [PhaseMap EXCEPT ![p] = "prepare"], WantMap' = [WantMap EXCEPT ![p] = v],
         OrderMap' = [OrderMap EXCEPT ![p] = 0], installed' = installed
  PROVE  Protocol!Start(p, v)
  BY Zenon DEF PhaseMap, WantMap, OrderMap, Order, Protocol!Start, Protocol!Move

\* The steps that change the phase only.
LEMMA MapsToMove ==
  ASSUME NEW p \in Pkgs, WantMap' = WantMap, OrderMap' = OrderMap, installed' = installed
  PROVE  /\ PhaseMap[p] = "prepare" /\ PhaseMap' = [PhaseMap EXCEPT ![p] = "ready"]
            => Protocol!Prepared(p)
         /\ PhaseMap[p] = "prepare" /\ PhaseMap' = [PhaseMap EXCEPT ![p] = "idle"]
            => Protocol!NotPrepared(p)
         /\ PhaseMap[p] = "ready" /\ PhaseMap' = [PhaseMap EXCEPT ![p] = "confirm"]
            /\ installed[p] = WantMap[p] => Protocol!Succeed(p)
         /\ PhaseMap[p] \in {"confirm", "abandon"} /\ PhaseMap' = [PhaseMap EXCEPT ![p] = "idle"]
            => Protocol!Finish(p)
  BY Zenon DEF PhaseMap, WantMap, OrderMap, Order, Protocol!Prepared, Protocol!NotPrepared,
               Protocol!Succeed, Protocol!Finish, Protocol!Move

\* The campaign gives up the version, or itself.
LEMMA MapsToFail ==
  ASSUME NEW p \in Pkgs, PhaseMap[p] = "ready",
         \/ PhaseMap' = [PhaseMap EXCEPT ![p] = "idle"]
         \/ OrderMap[p] = 0 /\ PhaseMap' = [PhaseMap EXCEPT ![p] = "abandon"],
         OrderMap[p] = 0 => installed[p] # WantMap[p],
         WantMap' = WantMap, OrderMap' = OrderMap, installed' = installed
  PROVE  Protocol!Fail(p)
  BY Zenon DEF PhaseMap, WantMap, OrderMap, Order, Protocol!Fail, Protocol!Move

\* The device changes.
LEMMA MapsToInstall ==
  ASSUME NEW p \in Pkgs, PhaseMap[p] = "ready", installed' = [installed EXCEPT ![p] = WantMap[p]],
         PhaseMap' = PhaseMap, WantMap' = WantMap, OrderMap' = OrderMap
  PROVE  Protocol!Install(p)
  BY Zenon DEF PhaseMap, WantMap, OrderMap, Order, Protocol!Install

\* The next version of the list.
LEMMA MapsToRollback ==
  ASSUME NEW p \in Pkgs, NEW to \in {"prepare", "ready"}, RollbackVersions # None,
         PhaseMap[p] = "ready", PhaseMap' = [PhaseMap EXCEPT ![p] = to],
         installed[p] # WantMap[p], OrderMap[p] < Len(RollbackVersions),
         OrderMap' = [OrderMap EXCEPT ![p] = @ + 1],
         WantMap' = [WantMap EXCEPT ![p] = RollbackVersions[OrderMap[p] + 1]],
         installed' = installed
  PROVE  Protocol!Rollback(p)
<1>1. Protocol!Rollbacks = RollbackVersions
  BY DEF Protocol!Rollbacks
<1>. QED BY <1>1, Zenon DEF PhaseMap, WantMap, OrderMap, Order, Protocol!Rollback, Protocol!Move

\* A status moves the protocol on, or is ignored, or asks for another try.
LEMMA StatusRefines ==
  ASSUME CampaignInv, NEW p \in Pkgs, DmcStatus(p)
  PROVE  \/ Protocol!Prepared(p) \/ Protocol!NotPrepared(p) \/ Protocol!Rollback(p)
         \/ Protocol!Succeed(p) \/ Protocol!Fail(p)
         \/ PhaseMap' = PhaseMap /\ WantMap' = WantMap /\ OrderMap' = OrderMap /\ installed' = installed
<1>. DEFINE d == dmc[p]
            s == reply[p]
            e == dmc'[p]
<1>1. /\ e \in AfterStatus(d, s) /\ d \in DmcType /\ s \in StatusType /\ s # None
      /\ \A q \in Pkgs \ {p} : dmc'[q] = dmc[q]
      /\ installed' = installed
  BY DmcStatusFacts DEF CampaignInv, StageInv, fileVars
<1>2. /\ PhaseMap' = [PhaseMap EXCEPT ![p] = e.phase]
      /\ WantMap' = [WantMap EXCEPT ![p] = Wanted(e)]
      /\ OrderMap' = [OrderMap EXCEPT ![p] = Order(e)]
      /\ e.phase = d.phase => PhaseMap' = PhaseMap
      /\ Wanted(e) = Wanted(d) => WantMap' = WantMap
      /\ Order(e) = Order(d) => OrderMap' = OrderMap
      /\ PhaseMap[p] = d.phase /\ WantMap[p] = Wanted(d) /\ OrderMap[p] = Order(d)
  BY <1>1, MapStep
<1>3. DmcOK(p) /\ AnswerOK(p) /\ NotYet(p) /\ OneAsked(p)
  BY DEF CampaignInv, PkgInv, TokenInv
<1>4. d.phase \in {"prepare", "ready"} /\ d.rb \in RollbackSet \cup {None} /\ d.version \in Targets
  BY <1>1, <1>3 DEF OneAsked, Waiting, DmcOK
<1>5. /\ d.phase = "ready" /\ s.st = "COMPLETED" => installed[p] = Wanted(d)
      /\ d.phase = "ready" /\ Announces(s, d) =>
           s.rb = NextRollback(RollbackVersions, Wanted(d)) /\ installed[p] # Wanted(d)
      /\ d.phase = "ready" /\ s.st # "COMPLETED" /\ d.rb = None => installed[p] # Wanted(d)
  BY <1>1, <1>3 DEF AnswerOK, NotYet, Wanted
<1>. HIDE DEF d, s, e
<1>6. e.version = d.version /\ (e.rb = d.rb => Wanted(e) = Wanted(d) /\ Order(e) = Order(d))
  BY <1>1, AfterStatusCases DEF Wanted, Order
<1>7. Order(d) = 0 <=> d.rb = None
  <2>1. d.rb # None => Order(d) \in Nat \ {0}
    BY <1>4, OrderPositive
  <2>. QED BY <2>1 DEF Order
<1>8. CASE d.phase = "prepare"
  <2>1. e.rb = d.rb /\ e.phase \in {"ready", "idle"}
    BY <1>1, <1>8, AfterStatusCases
  <2>. QED BY <1>1, <1>2, <1>6, <1>8, <2>1, MapsToMove
<1>9. CASE d.phase = "ready" /\ (s.st = "READY" \/ (e.phase = "ready" /\ e.rb = d.rb))
  <2>1. e.rb = d.rb /\ e.phase = d.phase
    BY <1>1, <1>9, AfterStatusCases
  <2>. QED BY <1>1, <1>2, <1>6, <2>1
<1>10. CASE d.phase = "ready" /\ s.st = "COMPLETED"
  <2>1. e.rb = d.rb /\ e.phase = "confirm"
    BY <1>1, <1>10, AfterStatusCases
  <2>. QED BY <1>1, <1>2, <1>5, <1>6, <1>10, <2>1, MapsToMove
<1>11. CASE d.phase = "ready" /\ s.st \notin {"READY", "COMPLETED"} /\ Announces(s, d)
  <2>1. e.rb = s.rb /\ e.phase \in {"prepare", "ready"} /\ s.rb # None
    BY <1>1, <1>11, AfterStatusCases DEF Announces
  <2>2. s.rb = NextRollback(RollbackVersions, Wanted(d)) /\ installed[p] # Wanted(d)
    BY <1>5, <1>11
  <2>3. /\ RollbackVersions # None /\ RollbackVersions \in Seq(Versions)
        /\ Order(d) \in Nat /\ Order(d) + 1 \in DOMAIN RollbackVersions
        /\ s.rb = RollbackVersions[Order(d) + 1]
    BY <1>1, <1>4, <2>1, <2>2, NextPosition
  <2>4. Wanted(e) = RollbackVersions[Order(d) + 1] /\ Order(e) = Order(d) + 1
    <3>1. Wanted(e) = s.rb /\ Order(e) = FirstMatch(RollbackVersions, s.rb)
      BY <2>1 DEF Wanted, Order
    <3>. QED BY <2>3, <3>1, PositionOf
  <2>5. Order(d) < Len(RollbackVersions)
    BY <2>3
  <2>6. OrderMap' = [OrderMap EXCEPT ![p] = OrderMap[p] + 1]
    BY <1>2, <2>4
  <2>. QED BY <1>1, <1>2, <1>11, <2>1, <2>2, <2>3, <2>4, <2>5, <2>6, MapsToRollback
<1>12. CASE /\ d.phase = "ready" /\ s.st \notin {"READY", "COMPLETED"} /\ ~Announces(s, d)
            /\ ~(e.phase = "ready" /\ e.rb = d.rb)
  <2>1. e.rb = d.rb /\ (e.phase = "idle" \/ (e.phase = "abandon" /\ d.rb = None))
    BY <1>1, <1>12, AfterStatusCases DEF Announces
  <2>. QED BY <1>1, <1>2, <1>5, <1>6, <1>7, <1>12, <2>1, MapsToFail
<1>. QED BY <1>4, <1>8, <1>9, <1>10, <1>11, <1>12

\* Every step of the campaign is a step of the protocol, or none.
LEMMA CampaignRefines ==
  ASSUME CampaignInv, [CampaignNext]_campaignVars
  PROVE  [Protocol!ProtocolNext]_(Protocol!protocolVars)
<1>. DEFINE same == PhaseMap' = PhaseMap /\ WantMap' = WantMap /\ OrderMap' = OrderMap
                    /\ installed' = installed
            one(p) == \/ \E v \in Versions : Protocol!Start(p, v)
                      \/ Protocol!Prepared(p) \/ Protocol!NotPrepared(p) \/ Protocol!Install(p)
                      \/ Protocol!Rollback(p) \/ Protocol!Succeed(p) \/ Protocol!Fail(p)
                      \/ Protocol!Finish(p)
<1>0. /\ StageInv /\ TypeOK /\ ThreadsOK /\ TargetInv /\ CampaignTypeOK /\ TokenInv
      /\ \A p \in Pkgs : DmcOK(p) /\ PkgInv(p)
  BY DEF CampaignInv, StageInv
<1>1. dmc' = dmc => PhaseMap' = PhaseMap /\ WantMap' = WantMap /\ OrderMap' = OrderMap
  BY DEF PhaseMap, WantMap, OrderMap
<1>2. ASSUME UNCHANGED campaignVars PROVE same
  BY <1>1, <1>2 DEF campaignVars, vars, fileVars
<1>3. ASSUME AgentStep, dmc' = dmc PROVE same \/ \E p \in Pkgs : one(p)
  <2>1. CASE installed' = installed
    BY <1>1, <1>3, <2>1
  <2>2. CASE installed' # installed
    <3>1. ReadyInstall /\ pc["worker"] = "r_install"
      BY <1>3, <2>2, OnlyInstallInstalls DEF Next, ReadyInstall
    <3>2. PICK p \in Pkgs : p = cmd["worker"].pkg /\ Unanswered(p)
      BY <1>0, <3>1, WorkerMessage DEF ReadySteps, Unanswered
    <3>3. installed'[p] \in {Wanted(dmc[p]), installed[p]}
      BY <1>0, <3>1, <3>2, InstallFacts
    <3>4. installed \in [Pkgs -> Versions] /\ \E x : installed' = [installed EXCEPT ![p] = x]
      BY <1>0, <2>2, <3>1, <3>2 DEF TypeOK, ReadyInstall, Perform
    <3>5. installed' = [installed EXCEPT ![p] = Wanted(dmc[p])]
      BY <2>2, <3>2, <3>3, <3>4
    <3>6. PhaseMap[p] = "ready" /\ WantMap[p] = Wanted(dmc[p])
      BY <1>0, <3>1, <3>2, UnansweredFacts DEF ReadySteps, PhaseMap, WantMap
    <3>7. Protocol!Install(p)
      BY <1>1, <1>3, <3>2, <3>5, <3>6, MapsToInstall
    <3>8. one(p)
      BY <3>7
    <3>. HIDE DEF one, same
    <3>. QED BY <3>2, <3>8
  <2>. QED BY <2>1, <2>2
<1>4. ASSUME NEW p \in Pkgs, DmcStep(p) PROVE same \/ one(p)
  <2>1. CASE DmcStart(p)
    <3>1. PICK v \in Targets \ {installed[p]} :
           /\ UNCHANGED vars
           /\ dmc[p].phase = "idle"
           /\ dmc'[p] = [phase |-> "prepare", version |-> v, rb |-> None, sent |-> FALSE,
                         failed |-> 0, campaign |-> dmc[p].campaign + 1]
           /\ \A q \in Pkgs \ {p} : dmc'[q] = dmc[q]
      BY <1>0, <2>1, DmcStartFacts
    <3>2. dmc'[p].phase = "prepare" /\ Wanted(dmc'[p]) = v /\ Order(dmc'[p]) = 0 /\ installed' = installed
      BY <3>1 DEF Wanted, Order, vars, fileVars
    <3>3. Protocol!Start(p, v) /\ v \in Versions
      BY <3>1, <3>2, MapStep, MapsToStart, CampaignAssumption
    <3>. QED BY <3>3
  <2>2. CASE DmcSend(p)
    <3>1. /\ dmc'[p].phase = dmc[p].phase /\ dmc'[p].version = dmc[p].version /\ dmc'[p].rb = dmc[p].rb
          /\ \A q \in Pkgs \ {p} : dmc'[q] = dmc[q]
      BY <1>0, <2>2, DmcSendFacts
    <3>2. Wanted(dmc'[p]) = Wanted(dmc[p]) /\ Order(dmc'[p]) = Order(dmc[p]) /\ installed' = installed
      BY <2>2, <3>1 DEF Wanted, Order, DmcSend, Deliver, fileVars
    <3>. QED BY <3>1, <3>2, MapStep
  <2>3. CASE DmcFinish(p)
    <3>1. /\ dmc[p].phase \in {"confirm", "abandon"} /\ UNCHANGED vars
          /\ dmc'[p].phase = "idle" /\ dmc'[p].version = dmc[p].version /\ dmc'[p].rb = dmc[p].rb
          /\ \A q \in Pkgs \ {p} : dmc'[q] = dmc[q]
      BY <1>0, <2>3, DmcFinishFacts
    <3>2. Wanted(dmc'[p]) = Wanted(dmc[p]) /\ Order(dmc'[p]) = Order(dmc[p]) /\ installed' = installed
      BY <3>1 DEF Wanted, Order, vars, fileVars
    <3>3. Protocol!Finish(p)
      BY <3>1, <3>2, MapStep, MapsToMove
    <3>. QED BY <3>3
  <2>4. CASE DmcStatus(p)
    BY <2>4, StatusRefines
  <2>. QED BY <1>4, <2>1, <2>2, <2>3, <2>4 DEF DmcStep
<1>5. same \/ \E p \in Pkgs : one(p)
  BY <1>2, <1>3, <1>4 DEF CampaignNext
<1>6. same => UNCHANGED Protocol!protocolVars
  BY DEF PhaseMap, WantMap, OrderMap, Order, Protocol!protocolVars
<1>7. (\E p \in Pkgs : one(p)) => Protocol!ProtocolNext
  BY DEF Protocol!ProtocolNext
<1>. HIDE DEF same, one
<1>. QED BY <1>5, <1>6, <1>7

\* The agent and a DMC that follows the protocol implement UpdateProtocol: the device
\* changes only inside a ready-update and to the version wanted, COMPLETED and FAILED
\* tell the truth, and each failed rollback moves on to the next version of the list.
THEOREM CampaignImplements == CampaignSpec => ImplementsProtocol
<1>1. CampaignInit => Protocol!ProtocolInit
  BY DEF CampaignInit, Init, Protocol!ProtocolInit, Wanted
<1>2. CampaignInv /\ [CampaignNext]_campaignVars => [Protocol!ProtocolNext]_(Protocol!protocolVars)
  BY CampaignRefines
<1>. QED BY <1>1, <1>2, CampaignInvariant, PTL DEF CampaignSpec, ImplementsProtocol, Protocol!ProtocolSpec

-----------------------------------------------------------------------------
(***************************************************************************)
(* The budget of retries.  retry_cnt belongs to the whole component, so    *)
(* the budget is that of a package only when the component has one.        *)
(***************************************************************************)
\* The end of a ready-update, after its status, up to the release of update_err.
Finishing == {"r_backup", "r_done", "r_flag", "r_unflag", "r_release"} \cup ConfirmSteps

\* The prepare-update that was answered READY is yet to reset retry_cnt.
AboutToReset == pc["worker"] = "p_end" /\ outcome = "READY"

\* The DMC tries to install the new version of its campaign, and has tries left.
Trying(p) == dmc[p].phase = "ready" /\ dmc[p].rb = None /\ ~(dmc[p].failed >= MaxRetry)

\* After READY, retry_cnt is zero or will be.
CountReset(p) ==
  dmc[p].phase = "prepare" /\ reply[p] # None /\ reply[p].st = "READY" => AboutToReset \/ retry_cnt = 0

\* retry_cnt is ahead of the failures that the DMC has seen by the try under way only.
CountOK(p) ==
  Trying(p) =>
    \/ AboutToReset
    \/ retry_cnt <= dmc[p].failed
    \/ retry_cnt <= dmc[p].failed + 1 /\ (pc["worker"] = "r_install" \/ reply[p] # None)

\* An error that an earlier command left behind meets no parse that could report it.
ErrorOK(p) ==
  Trying(p) => dmc[p].version \in manifest[p] \/ ~update_error \/ pc["worker"] \in Finishing

\* RetryBudget for one package.
BudgetOK(p) ==
  Trying(p) /\ reply[p] # None => reply[p].rb = None /\ ~reply[p].term

\* The strengthening of RetryBudget.
Tries(p) == CountReset(p) /\ CountOK(p) /\ ErrorOK(p) /\ BudgetOK(p)

\* The component has one package.
OnePackage == \A p, q \in Pkgs : p = q

\* Steps that neither count a try nor answer.
LEMMA TriesFrame ==
  ASSUME NEW p \in Pkgs, CampaignTypeOK, Tries(p), dmc'[p] = dmc[p], reply'[p] = reply[p],
         \/ retry_cnt' = 0
         \/ /\ retry_cnt' = retry_cnt
            /\ AboutToReset => AboutToReset'
            /\ pc["worker"] = "r_install" => pc'["worker"] = "r_install",
         dmc[p].phase = "ready" =>
           \/ pc'["worker"] \in Finishing
           \/ ~update_error'
           \/ /\ pc["worker"] \notin Finishing
              /\ manifest[p] \subseteq manifest'[p]
              /\ update_error' = update_error
  PROVE  Tries(p)'
<1>0. dmc[p].failed \in Nat
  BY DEF CampaignTypeOK, DmcType
<1>1. Trying(p)' <=> Trying(p)
  BY DEF Trying
<1>2. CountReset(p)'
  BY DEF Tries, CountReset
<1>3. CountOK(p)'
  BY <1>0, <1>1 DEF Tries, CountOK
<1>4. ErrorOK(p)'
  BY <1>1 DEF Tries, ErrorOK, Trying
<1>5. BudgetOK(p)'
  BY <1>1 DEF Tries, BudgetOK
<1>. QED BY <1>2, <1>3, <1>4, <1>5 DEF Tries

\* Outside the try of the version there is nothing to count.
LEMMA TriesIdle ==
  ASSUME NEW p \in Pkgs, ~Trying(p)', CountReset(p)'
  PROVE  Tries(p)'
  BY DEF Tries, CountOK, ErrorOK, BudgetOK

\* The runner, and the DMC's presence.
LEMMA TriesRunner ==
  ASSUME TypeOK, ThreadsOK, CampaignTypeOK, NEW p \in Pkgs, Tries(p),
         RunnerStep \/ DmcPresence, dmc' = dmc
  PROVE  Tries(p)'
<1>0. pc \in [Threads -> ProgramSteps] /\ Threads = {"runner", "worker"}
  BY DEF TypeOK, Threads
<1>1. /\ manifest' = manifest /\ outcome' = outcome /\ reply' = reply /\ retry_cnt' = retry_cnt
      /\ update_error' = update_error
  BY DEF RunnerStep, RunnerDrop, RunnerConsumed, RunnerDiscard, RunnerSpawn, RunnerExecute, Accept,
         Pop, DmcPresence, compVars, fileVars, localVars, flagVars
<1>2. CASE pc'["worker"] = pc["worker"]
  BY <1>1, <1>2, TriesFrame DEF AboutToReset
<1>3. CASE RunnerSpawn
  <2>1. pc["worker"] \notin Finishing \cup {"p_end", "r_install"}
    BY <1>3 DEF RunnerSpawn, ThreadsOK, Finishing, ConfirmSteps
  <2>. QED BY <1>1, <2>1, TriesFrame DEF AboutToReset
<1>. QED BY <1>0, <1>2, <1>3 DEF RunnerStep, RunnerDrop, RunnerConsumed, RunnerDiscard,
                                  RunnerExecute, DmcPresence, Accept, Pop, threadVars

\* process_prepare_update.
LEMMA TriesPrepare ==
  ASSUME OnePackage, TypeOK, ThreadsOK, CampaignTypeOK, TokenInv,
         NEW p \in Pkgs, DmcOK(p), PkgInv(p), Tries(p), PrepareStep, dmc' = dmc
  PROVE  Tries(p)'
<1>. USE DEF Goto
<1>. DEFINE m == cmd["worker"]
<1>0. /\ pc \in [Threads -> ProgramSteps] /\ Threads = {"runner", "worker"}
      /\ reply \in [Pkgs -> StatusType \cup {None}]
  BY DEF TypeOK, Threads
<1>1. pc["worker"] \in PrepareSteps
  BY DEF PrepareStep, PrepareTest, PrepareBegin, PrepareInstall, PrepareEnd, PrepareSteps
<1>2. m \in Commands /\ m.pkg = p
  BY <1>1, WorkerMessage DEF OnePackage
<1>3. pc["worker"] \notin Finishing \cup {"r_install"}
  BY <1>1 DEF PrepareSteps, Finishing, ConfirmSteps
<1>4. CASE PrepareTest
  <2>1. pc["worker"] = "p_test"
    BY <1>4 DEF PrepareTest
  <2>2. ~AlreadyPrepared(m)
    BY <1>2, <2>1, NeverAlreadyPrepared
  <2>3. /\ reply' = reply /\ manifest' = manifest /\ retry_cnt' = retry_cnt
        /\ update_error' = update_error
    BY <1>4, <2>2 DEF PrepareTest, fileVars, flagVars
  <2>. QED BY <1>3, <2>1, <2>3, TriesFrame DEF AboutToReset
<1>5. CASE PrepareBegin
  <2>1. /\ reply' = reply /\ manifest' = manifest /\ retry_cnt' = retry_cnt
        /\ update_error' = update_error /\ pc["worker"] = "p_begin"
    BY <1>5 DEF PrepareBegin, fileVars, flagVars
  <2>. QED BY <1>3, <2>1, TriesFrame DEF AboutToReset
<1>6. CASE PrepareInstall
  <2>1. pc["worker"] = "p_install" /\ pc'["worker"] = "p_end"
    BY <1>0, <1>6 DEF PrepareInstall
  <2>2. dmc[p].phase = "prepare"
    BY <1>2, <2>1, UnansweredFacts DEF Unanswered, PrepareSteps
  <2>3. \/ outcome' = "READY"
        \/ reply'[p] \in {Status("FAILED", m.rb, FALSE), Status("FAILED", None, FALSE)}
    BY <1>0, <1>2, <1>6 DEF PrepareInstall, Send
  <2>4. \A x : Status("FAILED", x, FALSE).st = "FAILED"
    BY DEF Status
  <2>5. CountReset(p)'
    BY <2>1, <2>3, <2>4 DEF CountReset, AboutToReset
  <2>6. ~Trying(p)'
    BY <2>2 DEF Trying
  <2>. QED BY <2>5, <2>6, TriesIdle
<1>7. CASE PrepareEnd
  <2>1. /\ reply' = reply /\ manifest' = manifest /\ update_error' = update_error
        /\ retry_cnt' = 0 \/ (outcome # "READY" /\ retry_cnt' = retry_cnt)
    BY <1>7 DEF PrepareEnd, fileVars
  <2>. QED BY <1>3, <2>1, TriesFrame DEF AboutToReset
<1>. QED BY <1>4, <1>5, <1>6, <1>7 DEF PrepareStep

\* process_ready_update.
LEMMA TriesReady ==
  ASSUME OnePackage, TypeOK, ThreadsOK, CampaignTypeOK, TokenInv, TargetInv,
         NEW p \in Pkgs, DmcOK(p), Tries(p), ReadyStep, dmc' = dmc
  PROVE  Tries(p)'
<1>. USE DEF Goto
<1>. DEFINE m == cmd["worker"]
            d == dmc[p]
<1>0. /\ pc \in [Threads -> ProgramSteps] /\ Threads = {"runner", "worker"}
      /\ reply \in [Pkgs -> StatusType \cup {None}] /\ manifest \in [Pkgs -> SUBSET Versions]
      /\ update_error \in BOOLEAN /\ retry_cnt \in Nat
  BY DEF TypeOK, Threads
<1>1. pc["worker"] \in ReadySteps
  BY DEF ReadyStep, ReadyParse, ReadyBegin, ReadyInstall, ReadyBackup, ReadyDone, ReadyFlag,
         ReadyUnflag, ReadyRelease, ReadySteps
<1>2. m \in Commands /\ m.pkg = p
  BY <1>1, WorkerMessage DEF OnePackage
<1>3. pc["worker"] \in {"r_parse", "r_begin", "r_install"} =>
        /\ reply[p] = None /\ m.rb = d.rb /\ TargetVersion(m) = Wanted(d) /\ d.phase = "ready"
  <2>1. pc["worker"] \in {"r_parse", "r_begin", "r_install"} => Unanswered(p)
    BY <1>2 DEF Unanswered
  <2>. QED BY <1>1, <2>1, UnansweredFacts
<1>4. d.failed \in Nat /\ MaxRetry \in Nat
  BY MaxRetryAssumption DEF CampaignTypeOK, DmcType
<1>5. ~AboutToReset /\ {"r_parse", "r_begin", "r_install"} \cap Finishing = {}
  BY <1>1 DEF AboutToReset, ReadySteps, Finishing, ConfirmSteps
<1>6. Trying(p)' <=> Trying(p)
  BY DEF Trying
<1>7. CASE ReadyParse
  <2>1. /\ pc["worker"] = "r_parse" /\ retry_cnt' = retry_cnt
    BY <1>7 DEF ReadyParse, flagVars
  <2>2. CASE ~Trying(p)
    BY <1>3, <1>6, <2>1, <2>2, TriesIdle DEF CountReset
  <2>3. CASE Trying(p)
    <3>1. m.rb = None /\ TargetVersion(m) = d.version
      BY <1>3, <2>1, <2>3 DEF Trying, Wanted
    <3>2. /\ update_error' = update_error /\ manifest[p] \subseteq manifest'[p]
          /\ \/ reply' = reply
             \/ /\ d.version \notin manifest[p]
                /\ reply'[p] = Status("FAILED", None, update_error)
      BY <1>0, <1>2, <1>7, <3>1 DEF ReadyParse, ParseFound, ParseFailed, Send
    <3>3. CountReset(p)'
      BY <1>3, <2>1 DEF CountReset
    <3>4. CountOK(p)'
      BY <1>3, <1>5, <2>1, <2>3 DEF Tries, CountOK
    <3>5. d.version \in manifest[p] \/ ~update_error
      BY <1>5, <2>1, <2>3 DEF Tries, ErrorOK
    <3>6. ErrorOK(p)'
      BY <3>2, <3>5 DEF ErrorOK
    <3>7. Status("FAILED", None, update_error).rb = None /\ (Status("FAILED", None, update_error).term <=> update_error)
      BY <1>0, StatusFields
    <3>8. BudgetOK(p)'
      BY <1>3, <2>1, <3>2, <3>5, <3>7 DEF BudgetOK
    <3>. QED BY <3>3, <3>4, <3>6, <3>8 DEF Tries
  <2>. QED BY <2>2, <2>3
<1>8. CASE ReadyBegin
  <2>1. /\ pc["worker"] = "r_begin" /\ pc'["worker"] = "r_install" /\ reply' = reply
        /\ manifest' = manifest /\ update_error' = update_error
        /\ m.rb = None => retry_cnt' = retry_cnt + 1
    BY <1>0, <1>8 DEF ReadyBegin, fileVars
  <2>2. CountReset(p)'
    BY <1>3, <2>1 DEF CountReset
  <2>3. CountOK(p)'
    <3>. SUFFICES ASSUME Trying(p) PROVE CountOK(p)'
      BY <1>6 DEF CountOK
    <3>1. retry_cnt <= d.failed /\ retry_cnt' = retry_cnt + 1
      BY <1>3, <1>5, <2>1 DEF Tries, CountOK, Trying
    <3>2. retry_cnt' <= d.failed + 1
      BY <1>0, <1>4, <3>1
    <3>. QED BY <2>1, <3>2 DEF CountOK
  <2>4. ErrorOK(p)'
    BY <1>5, <1>6, <2>1 DEF Tries, ErrorOK
  <2>5. BudgetOK(p)'
    BY <1>6, <2>1 DEF Tries, BudgetOK
  <2>. QED BY <2>2, <2>3, <2>4, <2>5 DEF Tries
<1>9. CASE ReadyInstall
  <2>1. /\ pc["worker"] = "r_install" /\ pc'["worker"] = "r_backup" /\ retry_cnt' = retry_cnt
    BY <1>0, <1>9 DEF ReadyInstall, flagVars
  <2>2. CASE ~Trying(p)
    BY <1>3, <1>6, <2>1, <2>2, TriesIdle DEF CountReset
  <2>3. CASE Trying(p)
    <3>1. retry_cnt <= d.failed + 1
      BY <1>0, <1>3, <1>4, <1>5, <2>1, <2>3 DEF Tries, CountOK
    <3>2. retry_cnt <= MaxRetry /\ d.rb = None
      <4>1. ~(d.failed >= MaxRetry) /\ d.rb = None
        BY <2>3 DEF Trying
      <4>. QED BY <1>0, <1>4, <3>1, <4>1
    <3>3. PICK r : /\ reply'[p] = r.reply
                   /\ dmc[p].rb = None /\ retry_cnt <= MaxRetry => TryAgain(manifest[p], r)
      BY <1>2, <1>9, InstallFacts
    <3>4. reply'[p] # None /\ reply'[p].rb = None /\ ~reply'[p].term
      BY <3>2, <3>3 DEF TryAgain
    <3>5. CountReset(p)'
      BY <1>3, <2>1 DEF CountReset
    <3>6. CountOK(p)'
      BY <2>1, <3>1, <3>4 DEF CountOK
    <3>7. ErrorOK(p)'
      BY <2>1 DEF ErrorOK, Finishing
    <3>8. BudgetOK(p)'
      BY <3>4 DEF BudgetOK
    <3>. QED BY <3>5, <3>6, <3>7, <3>8 DEF Tries
  <2>. QED BY <2>2, <2>3
<1>10. CASE ReadyBackup \/ ReadyDone \/ ReadyFlag \/ ReadyUnflag \/ ReadyRelease
  <2>1. /\ reply' = reply /\ manifest' = manifest /\ retry_cnt' = retry_cnt
        /\ pc["worker"] # "r_install"
        /\ ~update_error' \/ pc'["worker"] \in Finishing
    BY <1>0, <1>10 DEF ReadyBackup, ReadyDone, ReadyFlag, ReadyUnflag, ReadyRelease, fileVars, compVars,
           flagVars, Finishing, ConfirmSteps
  <2>. QED BY <1>5, <2>1, TriesFrame
<1>. QED BY <1>7, <1>8, <1>9, <1>10 DEF ReadyStep

\* Confirm-update, query-package, and the ends of the threads.
LEMMA TriesOther ==
  ASSUME OnePackage, TypeOK, ThreadsOK, CampaignTypeOK, TokenInv, NEW p \in Pkgs, Tries(p), dmc' = dmc,
         WorkerExit \/ \E t \in Threads : QueryPackage(t) \/ ConfirmStep(t)
  PROVE  Tries(p)'
<1>. USE DEF Goto, Return
<1>0. /\ pc \in [Threads -> ProgramSteps] /\ Threads = {"runner", "worker"}
      /\ manifest \in [Pkgs -> SUBSET Versions]
  BY DEF TypeOK, Threads
<1>1. /\ reply' = reply /\ outcome' = outcome /\ update_error' = update_error
      /\ retry_cnt' \in {retry_cnt, 0}
  BY DEF WorkerExit, QueryPackage, ConfirmStep, ConfirmTest, ConfirmSkip, ConfirmBegin,
         ConfirmClean, ConfirmEnd, compVars, localVars, flagVars
<1>2. CASE WorkerExit
  <2>1. pc["worker"] = "exit" /\ manifest' = manifest
    BY <1>2 DEF WorkerExit, fileVars
  <2>2. pc["worker"] \notin Finishing
    BY <2>1 DEF Finishing, ConfirmSteps
  <2>. QED BY <1>1, <2>1, <2>2, TriesFrame DEF AboutToReset
<1>3. ASSUME NEW t \in Threads, QueryPackage(t) \/ ConfirmStep(t), t = "worker" PROVE Tries(p)'
  <2>1. \/ pc["worker"] = "query" /\ manifest' = manifest
        \/ pc["worker"] \in ConfirmSteps /\ pc'["worker"] \in Finishing
    BY <1>0, <1>3 DEF QueryPackage, ConfirmStep, ConfirmTest, ConfirmSkip, ConfirmBegin, ConfirmClean,
                ConfirmEnd, ConfirmSteps, Finishing, fileVars
  <2>2. "query" \notin Finishing /\ {"p_end", "r_install"} \cap (ConfirmSteps \cup {"query"}) = {}
    BY DEF Finishing, ConfirmSteps
  <2>. QED BY <1>1, <2>1, <2>2, TriesFrame DEF AboutToReset
<1>4. ASSUME NEW t \in Threads, QueryPackage(t) \/ ConfirmStep(t), t = "runner" PROVE Tries(p)'
  <2>1. pc'["worker"] = pc["worker"]
    BY <1>0, <1>4 DEF QueryPackage, ConfirmStep, ConfirmTest, ConfirmSkip, ConfirmBegin,
                      ConfirmClean, ConfirmEnd
  <2>2. dmc[p].phase = "ready" => manifest' = manifest
    <3>1. CASE ConfirmClean(t)
      <4>1. pc["runner"] = "c_clean" /\ cmd["runner"] \in Commands
        BY <1>4, <3>1 DEF ConfirmClean, ThreadsOK
      <4>2. cmd["runner"].pkg = p
        BY <4>1, CommandFields DEF OnePackage
      <4>. QED BY <4>1, <4>2 DEF TokenInv, NoConfirm, Late, ConfirmSteps
    <3>2. CASE ~ConfirmClean(t)
      BY <1>4, <3>2 DEF QueryPackage, ConfirmStep, ConfirmTest, ConfirmSkip, ConfirmBegin, ConfirmEnd,
                        fileVars
    <3>. QED BY <3>1, <3>2
  <2>. QED BY <1>1, <2>1, <2>2, TriesFrame DEF AboutToReset
<1>. QED BY <1>0, <1>2, <1>3, <1>4

\* The DMC.
LEMMA TriesDmc ==
  ASSUME OnePackage, StageInv, CampaignTypeOK, TokenInv, NEW p \in Pkgs, PkgInv(p), Tries(p),
         DmcStep(p)
  PROVE  Tries(p)'
<1>. USE DEF StageInv
<1>0. /\ pc' = pc /\ manifest' = manifest /\ outcome' = outcome /\ retry_cnt' = retry_cnt
      /\ update_error' = update_error
  BY DmcFrame
<1>. DEFINE d == dmc[p]
            e == dmc'[p]
            s == reply[p]
<1>1. CASE DmcStart(p) \/ DmcFinish(p)
  <2>1. e.phase \in {"prepare", "idle"} /\ d.phase # "prepare" /\ d.phase # "ready" /\ reply' = reply
    <3>1. CASE DmcStart(p)
      <4>1. PICK v \in Targets \ {installed[p]} :
             /\ UNCHANGED vars /\ d.phase = "idle"
             /\ e = [phase |-> "prepare", version |-> v, rb |-> None, sent |-> FALSE,
                     failed |-> 0, campaign |-> d.campaign + 1]
        BY <3>1, DmcStartFacts
      <4>. QED BY <4>1 DEF vars
    <3>2. CASE DmcFinish(p)
      BY <3>2, DmcFinishFacts DEF vars
    <3>. QED BY <1>1, <3>1, <3>2
  <2>2. reply'[p] = None
    BY <2>1 DEF TokenInv, OneAsked, Waiting
  <2>. QED BY <2>1, <2>2, TriesIdle DEF CountReset, Trying
<1>2. CASE DmcSend(p)
  <2>1. /\ e.phase = d.phase /\ e.version = d.version /\ e.rb = d.rb /\ e.failed = d.failed
        /\ reply' = reply
    BY <1>2, DmcSendFacts DEF DmcSend, Deliver
  <2>2. Trying(p)' <=> Trying(p)
    BY <2>1 DEF Trying
  <2>3. CountReset(p)' /\ ErrorOK(p)'
    BY <1>0, <2>1, <2>2 DEF Tries, CountReset, ErrorOK, AboutToReset
  <2>4. CountOK(p)' /\ BudgetOK(p)'
    BY <1>0, <2>1, <2>2 DEF Tries, CountOK, BudgetOK, AboutToReset
  <2>. QED BY <2>3, <2>4 DEF Tries
<1>3. CASE DmcStatus(p)
  <2>1. /\ e \in AfterStatus(d, s) /\ d \in DmcType /\ s \in StatusType /\ s # None
        /\ reply'[p] = None
    BY <1>3, DmcStatusFacts
  <2>2. d.failed \in Nat /\ MaxRetry \in Nat /\ retry_cnt \in Nat
    BY <2>1, MaxRetryAssumption DEF DmcType, TypeOK
  <2>3. d.phase = "ready" => s.st # "READY"
    BY <2>1 DEF PkgInv, AnswerOK
  <2>4. d.phase = "prepare" /\ s.st = "READY" =>
          /\ AboutToReset \/ retry_cnt = 0
          /\ d.rb = None => d.version \in manifest[p]
    BY <2>1 DEF Tries, CountReset, PkgInv, PreparedOK, Wanted
  <2>5. CountReset(p)' /\ BudgetOK(p)'
    BY <2>1 DEF CountReset, BudgetOK
  <2>6. CASE ~Trying(p)'
    BY <2>5, <2>6, TriesIdle
  <2>7. CASE Trying(p)'
    <3>0. e.phase = "ready" /\ e.rb = None /\ ~(e.failed >= MaxRetry)
      BY <2>7 DEF Trying
    <3>. HIDE DEF d, e, s
    <3>1. /\ e.version = d.version
          /\ \/ d.phase = "prepare" /\ s.st = "READY" /\ e.failed = d.failed /\ d.rb = None
             \/ d.phase = "ready" /\ d.rb = None /\ e.failed = d.failed + 1
      BY <2>1, <2>3, <3>0, AfterStatusCases
    <3>2. CASE d.phase = "prepare" /\ s.st = "READY" /\ e.failed = d.failed /\ d.rb = None
      <4>1. CountOK(p)'
        BY <1>0, <2>2, <2>4, <3>2 DEF CountOK, AboutToReset, e
      <4>2. ErrorOK(p)'
        BY <1>0, <2>4, <3>1, <3>2 DEF ErrorOK, e
      <4>. QED BY <2>5, <4>1, <4>2 DEF Tries
    <3>3. CASE d.phase = "ready" /\ d.rb = None /\ e.failed = d.failed + 1
      <4>1. ~(d.failed >= MaxRetry)
        BY <2>2, <3>0, <3>3
      <4>2. Trying(p)
        BY <3>3, <4>1 DEF Trying, d
      <4>3. AboutToReset \/ retry_cnt <= d.failed + 1
        BY <2>2, <4>2 DEF Tries, CountOK, d
      <4>4. CountOK(p)'
        BY <1>0, <3>3, <4>3 DEF CountOK, AboutToReset, e
      <4>5. ErrorOK(p)'
        BY <1>0, <3>1, <4>2 DEF Tries, ErrorOK, d, e
      <4>. QED BY <2>5, <4>4, <4>5 DEF Tries
    <3>. QED BY <3>1, <3>2, <3>3
  <2>. QED BY <2>6, <2>7
<1>. QED BY <1>1, <1>2, <1>3 DEF DmcStep

\* In a component of one package the status of a failed update names a rollback version,
\* or ends the update, only after max_retry statuses that asked for another try: retry_cnt
\* counts the tries of this campaign and of no other, wherever it is reset.
THEOREM RetriesFirst ==
  ASSUME OnePackage
  PROVE  CampaignSpec => []RetryBudget
<1>. DEFINE IInv == CampaignInv /\ \A p \in Pkgs : Tries(p)
<1>1. CampaignInit => IInv
  <2>. SUFFICES ASSUME CampaignInit, NEW p \in Pkgs PROVE Tries(p)
    BY InitCampaignInv
  <2>1. dmc[p].phase = "idle"
    BY DEF CampaignInit
  <2>. QED BY <2>1 DEF Tries, CountReset, CountOK, ErrorOK, BudgetOK, Trying
<1>2. IInv /\ [CampaignNext]_campaignVars => IInv'
  <2>. SUFFICES ASSUME IInv, [CampaignNext]_campaignVars, NEW p \in Pkgs PROVE Tries(p)'
    BY CampaignInvStep
  <2>1. /\ StageInv /\ TypeOK /\ ThreadsOK /\ TargetInv /\ CampaignTypeOK /\ TokenInv
        /\ DmcOK(p) /\ PkgInv(p) /\ Tries(p)
    BY DEF CampaignInv, StageInv
  <2>2. CASE UNCHANGED campaignVars
    BY <2>1, <2>2 DEF campaignVars, vars, compVars, fileVars, flagVars, threadVars, localVars,
                 Tries, CountReset, CountOK, ErrorOK, BudgetOK, Trying, AboutToReset
  <2>3. ASSUME AgentStep, dmc' = dmc PROVE Tries(p)'
    BY <2>1, <2>3, TriesRunner, TriesPrepare, TriesReady, TriesOther DEF AgentStep
  <2>4. ASSUME NEW q \in Pkgs, DmcStep(q) PROVE Tries(p)'
    <3>1. q = p
      BY DEF OnePackage
    <3>. QED BY <2>1, <2>4, <3>1, TriesDmc
  <2>. QED BY <2>2, <2>3, <2>4 DEF CampaignNext
<1>3. IInv => RetryBudget
  BY DEF Tries, BudgetOK, Trying, RetryBudget
<1>. QED BY <1>1, <1>2, <1>3, PTL DEF CampaignSpec
=============================================================================
