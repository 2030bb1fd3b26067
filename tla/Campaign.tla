------------------------------ MODULE Campaign ------------------------------
(***************************************************************************)
(* The update agent driven by a DMC that follows the update protocol.  The *)
(* DMC is not part of the repository: it is modelled from the message      *)
(* transcripts of unit_tests/cases and from what the agent's handlers rely *)
(* on.  One campaign of a package:                                         *)
(*                                                                         *)
(*   prepare-update -> READY -> ready-update -> COMPLETED -> confirm-update*)
(*                                           -> FAILED    -> ready-update  *)
(*                     -> FAILED or ROLLBACK with a rollback version       *)
(*                        -> [prepare-update ->] ready-update of it        *)
(*                                                                         *)
(* A command without an answer is sent again once the agent is quiet, and  *)
(* confirm-update, which is never answered, any number of times.  The bus  *)
(* delivers in order and every message has a fresh sequence number, so the *)
(* agent's check of that number always passes: messages carry none here.   *)
(***************************************************************************)
EXTENDS UpdateAgent

CONSTANTS
  Targets,           \* versions that campaigns install
  RollbackVersions,  \* the rollback-versions of every ready-update, or None
  Downloadable,      \* rollback versions that the DMC can send with the command
  MaxCampaigns,      \* bound: campaigns per package
  MaxAttempts        \* failures after which the DMC abandons the version

ASSUME CampaignAssumption ==
  /\ Targets \subseteq Versions
  /\ RollbackVersions \in Seq(Versions) \cup {None}
  /\ Downloadable \subseteq Versions
  /\ MaxCampaigns \in Nat /\ 1 .. MaxCampaigns \subseteq Campaigns
  /\ MaxAttempts \in Nat

VARIABLE dmc   \* what the DMC knows about the campaign of each package

campaignVars == <<vars, dmc>>

Phases == {"idle", "prepare", "ready", "confirm", "abandon"}

\* failed: the statuses of this campaign that asked for another try of the version.
DmcType == [phase : Phases, version : Versions, rb : Versions \cup {None}, sent : BOOLEAN,
            failed : 0 .. MaxAttempts, campaign : 0 .. MaxCampaigns]

CampaignInit ==
  /\ Init
  /\ dmc = [p \in Pkgs |-> [phase |-> "idle", version |-> InitialVersion, rb |-> None,
                            sent |-> FALSE, failed |-> 0, campaign |-> 0]]

\* The version that the campaign is about to put on the device.
Wanted(d) == IF d.rb # None THEN d.rb ELSE d.version

RollbackSet == IF RollbackVersions = None THEN {}
               ELSE {RollbackVersions[i] : i \in DOMAIN RollbackVersions}

\* The message of package p's campaign d.
CampaignMessage(p, d) ==
  [type     |-> IF d.phase = "prepare" THEN "prepare-update"
                ELSE IF d.phase = "ready" THEN "ready-update" ELSE "confirm-update",
   pkg      |-> p,
   version  |-> d.version,
   rb       |-> d.rb,
   rbs      |-> IF d.phase = "ready" THEN RollbackVersions ELSE None,
   listed   |-> {d.version} \cup RollbackSet,
   files    |-> {d.version} \cup (RollbackSet \cap Downloadable),
   campaign |-> d.campaign,
   rollback |-> d.phase = "confirm" /\ d.rb # None,
   seq      |-> 0]

\* The commands include every message of a campaign.
ASSUME CommandsAssumption ==
  \A p \in Pkgs, d \in DmcType : d.phase # "idle" /\ d.campaign # 0 => CampaignMessage(p, d) \in Commands

\* A rollback list names each version once, and not the version that it is to replace,
\* as in the transcripts.
ASSUME RollbackListAssumption ==
  /\ Targets \cap RollbackSet = {}
  /\ RollbackVersions # None =>
       \A i, j \in DOMAIN RollbackVersions : RollbackVersions[i] = RollbackVersions[j] => i = j

\* Nothing of the agent is under way.
Quiet == /\ inbox = <<>>
         /\ ~worker_running
         /\ pc["runner"] = "idle"
         /\ \A p \in Pkgs : reply[p] = None

(***************************************************************************)
(* The DMC.                                                                *)
(***************************************************************************)
DmcStart(p) ==
  /\ dmc[p].phase = "idle"
  /\ dmc[p].campaign < MaxCampaigns
  /\ \E v \in Targets \ {installed[p]} :
       dmc' = [dmc EXCEPT ![p] = [phase |-> "prepare", version |-> v, rb |-> None,
                                  sent |-> FALSE, failed |-> 0, campaign |-> @.campaign + 1]]
  /\ UNCHANGED vars

DmcSend(p) ==
  /\ dmc[p].phase # "idle"
  /\ \/ ~dmc[p].sent
     \/ dmc[p].phase \in {"confirm", "abandon"}
     \/ Quiet
  /\ Deliver(CampaignMessage(p, dmc[p]))
  /\ dmc' = [dmc EXCEPT ![p].sent = TRUE]

MayRetry(d) == d.failed < MaxAttempts

\* Where the campaign d may go when the status s arrives.
AfterStatus(d, s) ==
  LET to(phase) == [d EXCEPT !.phase = phase, !.sent = FALSE]
      retry     == [to("ready") EXCEPT !.failed = @ + 1]
  IN  IF d.phase = "prepare"
        THEN {to(IF s.st = "READY" THEN "ready" ELSE "idle")}
      ELSE IF d.phase # "ready" \/ s.st = "READY"
        THEN {d}
      ELSE IF s.st = "COMPLETED"
        THEN {to("confirm")}
      ELSE IF s.rb \notin {None, d.rb} /\ ~s.term
        THEN {[to(next) EXCEPT !.rb = s.rb] : next \in {"prepare", "ready"}}
      ELSE IF d.rb # None \/ s.term
        THEN {to("idle")}
      ELSE {to("abandon")} \cup (IF MayRetry(d) THEN {retry} ELSE {})

DmcStatus(p) ==
  /\ reply[p] # None
  /\ \E d \in AfterStatus(dmc[p], reply[p]) : dmc' = [dmc EXCEPT ![p] = d]
  /\ reply' = [reply EXCEPT ![p] = None]
  /\ UNCHANGED <<compVars, fileVars, queueVars, flagVars, threadVars, localVars>>

\* The DMC closes the campaign after at least one confirm-update.
DmcFinish(p) ==
  /\ dmc[p].phase \in {"confirm", "abandon"}
  /\ dmc[p].sent
  /\ dmc' = [dmc EXCEPT ![p].phase = "idle"]
  /\ UNCHANGED vars

DmcStep(p) == DmcStart(p) \/ DmcSend(p) \/ DmcStatus(p) \/ DmcFinish(p)

CampaignNext == (AgentStep /\ UNCHANGED dmc) \/ \E p \in Pkgs : DmcStep(p)

CampaignSpec == CampaignInit /\ [][CampaignNext]_campaignVars

(***************************************************************************)
(* Fairness.  A thread of the agent that can run does.  A message may be   *)
(* dropped after its time-out, consumed by on_message or lost to a failed  *)
(* thread creation, but not every time: of the messages that could start a *)
(* handler some do.  The DMC reacts to statuses, repeats what has not been *)
(* answered, and closes a campaign it is done with.                        *)
(***************************************************************************)
Fairness ==
  /\ WF_campaignVars(DmcPresence /\ UNCHANGED dmc)
  /\ WF_campaignVars((PrepareStep \/ ReadyStep \/ WorkerExit) /\ UNCHANGED dmc)
  /\ WF_campaignVars(RunnerStep /\ UNCHANGED dmc)
  /\ \A t \in Threads : WF_campaignVars((QueryPackage(t) \/ ConfirmStep(t)) /\ UNCHANGED dmc)
  /\ SF_campaignVars(RunnerSpawn /\ UNCHANGED dmc)
  /\ SF_campaignVars(RunnerExecute /\ UNCHANGED dmc)
  /\ \A p \in Pkgs : /\ WF_campaignVars(DmcStatus(p))
                     /\ WF_campaignVars(DmcSend(p) /\ dmc[p].phase \in {"prepare", "ready"})
                     /\ WF_campaignVars(DmcSend(p) /\ ~dmc[p].sent)
                     /\ WF_campaignVars(DmcFinish(p))

FairCampaignSpec == CampaignSpec /\ Fairness

-----------------------------------------------------------------------------
\* The DMC's state of a package: the type that the proofs use.
CampaignTypeOK == dmc \in [Pkgs -> DmcType]

(***************************************************************************)
(* While on_install may be running, the stage of the package says so:      *)
(* query-package answers do-not-disturb and confirm-update keeps its hands *)
(* off the manifests.  Nothing but the worker's own steps protects it:     *)
(* repeated confirm-updates of the last campaign run on the other thread.  *)
(***************************************************************************)
DoNotDisturb ==
  pc["worker"] \in {"r_install", "r_backup"} =>
    stage[cmd["worker"].pkg] = "READY_UPDATE_STARTED"

(***************************************************************************)
(* A prepare-update is answered READY only when the version it asks for is *)
(* in the temp manifest, where ready-update looks first, and it stays      *)
(* there until the DMC reads the answer, whatever confirm-updates of the   *)
(* last campaign still empty that manifest on the other thread.            *)
(***************************************************************************)
ReadyMeansPrepared ==
  \A p \in Pkgs :
    dmc[p].phase = "prepare" /\ reply[p] # None /\ reply[p].st = "READY" =>
      Wanted(dmc[p]) \in manifest[p]

(***************************************************************************)
(* The status of a failed update names a rollback version, or ends the     *)
(* update, only after max_retry statuses that asked for another try of the *)
(* same version in this campaign.                                          *)
(***************************************************************************)
RetryBudget ==
  \A p \in Pkgs :
    dmc[p].phase = "ready" /\ dmc[p].rb = None /\ reply[p] # None
      /\ (reply[p].rb # None \/ reply[p].term) => dmc[p].failed >= MaxRetry

(***************************************************************************)
(* The agent and the DMC together implement UpdateProtocol: the device     *)
(* changes only inside a ready-update and to the version wanted; COMPLETED *)
(* is reported only when that version is on the device and a failure only  *)
(* when it is not; each failed rollback moves on to the next version of    *)
(* the list and never back.                                                *)
(***************************************************************************)
Protocol == INSTANCE UpdateProtocol WITH
  phase  <- [p \in Pkgs |-> dmc[p].phase],
  want   <- [p \in Pkgs |-> Wanted(dmc[p])],
  order  <- [p \in Pkgs |-> IF dmc[p].rb = None THEN 0
                            ELSE FirstMatch(RollbackVersions, dmc[p].rb)],
  device <- installed

ImplementsProtocol == Protocol!ProtocolSpec

(***************************************************************************)
(* Every campaign ends: no command stays unanswered for ever, whatever is  *)
(* dropped, skipped or discarded, and the chain of retries and rollbacks   *)
(* is finite.                                                              *)
(***************************************************************************)
CampaignEnds ==
  \A p \in Pkgs : dmc[p].phase # "idle" ~> dmc[p].phase = "idle"

-----------------------------------------------------------------------------
(***************************************************************************)
(* What a comment of the code says of a campaign.                          *)
(***************************************************************************)
\* handler.c, end of process_ready_update: the clean-up at the end of a ready-update
\* stands in for confirm-updates of this campaign that were skipped.
CleanupStandsForConfirm ==
  LET m == cmd["worker"]
  IN  pc["worker"] = "c_clean" /\ m.campaign = dmc[m.pkg].campaign
        => dmc[m.pkg].phase \notin {"prepare", "ready"}
=============================================================================
