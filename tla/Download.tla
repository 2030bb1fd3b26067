------------------------------ MODULE Download ------------------------------
(***************************************************************************)
(* The agent's own download of a package (ua_download.c and its handlers): *)
(* the worker fetches the encrypted package block by block into the .x     *)
(* file, copies it to the .e file, decrypts and verifies that one, and     *)
(* reports it as downloaded until the DMC goes on with prepare-update.  A  *)
(* record file (.dlr) lets a later attempt resume where one stopped.       *)
(* Meanwhile the runner thread executes the DMC's other messages, and the  *)
(* process can crash between any two steps.                                *)
(*                                                                         *)
(* One package version.  A block is one call of dmc_recv_cb; the CRC of a  *)
(* file stands for the blocks it was computed from.                        *)
(***************************************************************************)
EXTENDS Naturals, Sequences

CONSTANTS
  Length,     \* blocks of the package
  Tags,       \* the contents the server has had for the package
  Untagged,   \* the contents that it serves without an e-tag
  Campaigns,  \* campaign ids
  Faults,     \* the kinds of failure that can happen
  MaxFaults,  \* bound: failures
  None,
  Torn        \* a record file that was created and not written

FaultKinds ==
  {"net", "range", "disk", "copy", "decrypt", "postpone", "tag", "remove", "crash"}

ASSUME DownloadAssumption ==
  /\ Length \in Nat \ {0}
  /\ Campaigns \subseteq Nat \ {0}
  /\ Faults \subseteq FaultKinds
  /\ MaxFaults \in Nat
  /\ Untagged \subseteq Tags
  /\ None \notin Tags /\ Torn # None

VARIABLES
  dir,      \* the package's directory exists
  rec,      \* the record file: None, Torn or a record
  x,        \* the .x file: None or its blocks
  e,        \* the .e file: None or its blocks and whether they are decrypted
  dlc,      \* ua_dlc: None, or the record in memory and stop_completed_status
  worker,   \* where the worker is in ua_dl_start_download
  xfer,     \* the transfer that dmclient_download is making
  session_restart, download_postponed, old_campaign_id,
  reply_id, \* a query-trust waits for its reply
  ca,       \* [file |-> the reply's CA is on disk, loaded |-> it is in verify_ca_file]
  server,   \* the content that the server has now
  report,   \* the last download report
  ret,      \* what ua_dl_start_download returned last
  faults    \* failures so far

disk == <<dir, rec, x, e>>
flags == <<session_restart, download_postponed, old_campaign_id>>
trust == <<reply_id, ca>>
vars == <<disk, dlc, worker, xfer, flags, trust, server, report, ret, faults>>

NONE == 0
DOWNLOADED == 1
ENCRYPTED == 2
VERIFIED == 3

\* What the server sends, with which e-tag, and a block that was written in part.
Content(t) == [i \in 1 .. Length |-> <<t, i>>]
ETag(t) == IF t \in Untagged THEN None ELSE t
TornBlock == <<None, 0>>
Blocks == (Tags \X (1 .. Length)) \cup {TornBlock}

ASSUME NoneAssumption == None \notin Seq(Blocks)

\* ua_dl_record_t; crc32 and last_crc32 are the blocks that they cover.
InitRec ==
  [bytes |-> 0, step |-> NONE, crc32 |-> <<>>, last |-> 0, last_crc32 |-> <<>>, e_tag |-> None]

IsRecord(r) == r # None /\ r # Torn

DownloadInit ==
  /\ dir = FALSE /\ rec = None /\ x = None /\ e = None
  /\ dlc = None /\ worker = "idle" /\ xfer = None
  /\ session_restart = FALSE /\ download_postponed = FALSE /\ old_campaign_id = 0
  /\ reply_id = FALSE /\ ca = [file |-> FALSE, loaded |-> FALSE]
  /\ server \in Tags
  /\ report = "none" /\ ret = None
  /\ faults = 0

Fault(kind) ==
  /\ kind \in Faults /\ faults < MaxFaults
  /\ faults' = faults + 1

\* send_dl_report; only a finished download is reported as completed.
Report(kind) == report' = kind

Prefix(s, n) == SubSeq(s, 1, n)

\* truncate(2) cuts a file or fills it up.
Truncate(s, n) == [i \in 1 .. n |-> IF i <= Len(s) THEN s[i] ELSE TornBlock]

\* ua_dl_save_dl_rc: fopen "w+" and fwrite; fails when the directory is gone.
Save(r) == IF dir THEN r ELSE None

-----------------------------------------------------------------------------
(***************************************************************************)
(* Starting: process_start_download, ua_dl_start_download, ua_dl_init.     *)
(***************************************************************************)
\* Mutant: a failed transfer does not make the campaign start again.
AlreadyProcessedForgets(c) ==
  /\ c = old_campaign_id
  /\ x # None \/ e # None
  /\ ~download_postponed

\* A later start-download of the campaign is skipped while a file is there.
AlreadyProcessed(c) ==
  /\ c = old_campaign_id
  /\ x # None \/ e # None
  /\ ~session_restart /\ ~download_postponed

\* The last block that was recorded is dropped.
DropLast(r) == [r EXCEPT !.bytes = r.last, !.crc32 = r.last_crc32]

\* Mutant: a file of exactly the recorded size counts as short.
CrcOKShort(r, f) == r.bytes > 0 /\ r.bytes < Len(f) /\ Prefix(f, r.bytes) = r.crc32

\* ua_dl_calc_file_crc32 succeeds and gives the record's CRC.
CrcOK(r, f) == r.bytes > 0 /\ r.bytes <= Len(f) /\ Prefix(f, r.bytes) = r.crc32

Resumable == IsRecord(rec) /\ x # None /\ CrcOK(DropLast(rec), x)

\* The record in memory after ua_dl_init: what was decrypted is decrypted again.
Resumed ==
  IF Resumable
  THEN [DropLast(rec) EXCEPT !.step = IF @ > DOWNLOADED THEN DOWNLOADED ELSE @]
  ELSE InitRec

\* An existing record is opened "a+": what ua_dl_init writes goes after it and
\* is never read; only the drop of the last block replaces it.
RecAfterInit ==
  CASE ~IsRecord(rec) -> InitRec
    [] IsRecord(rec) /\ x = None -> rec
    [] OTHER -> DropLast(rec)

StartDownload(c) ==
  /\ worker = "idle"
  /\ IF AlreadyProcessed(c)
     THEN UNCHANGED vars
     ELSE /\ download_postponed' = FALSE
          /\ old_campaign_id' = c
          /\ dir' = TRUE
          /\ worker' = "init"
          /\ UNCHANGED <<rec, x, e, dlc, xfer, session_restart, trust, server, report, ret, faults>>

\* Every way out of ua_dl_start_download releases ua_dlc.
Return(result) ==
  /\ dlc' = None
  /\ worker' = "idle"
  /\ ret' = result

\* ua_dl_init up to the record; it fails when the directory is gone.
InitRecord ==
  /\ worker = "init"
  /\ IF dir
     THEN /\ rec' = RecAfterInit
          /\ dlc' = [rec |-> Resumed, stop |-> FALSE]
          /\ worker' = "cut"
          /\ UNCHANGED ret
     ELSE Return("ERR") /\ UNCHANGED rec
  /\ UNCHANGED <<dir, x, e, xfer, flags, trust, server, report, faults>>

\* Mutant: the end of the file that the record does not cover is kept.
CutUncut(f, n) == IF f = None \/ n = 0 THEN None ELSE f

\* The .x file is cut to what the record covers, or removed.
Cut(f, n) == IF f = None \/ n = 0 THEN None ELSE Prefix(f, n)

\* The end of ua_dl_init, and send_query_trust.
InitPackage ==
  /\ worker = "cut"
  /\ x' = Cut(x, dlc.rec.bytes)
  /\ reply_id' = TRUE
  /\ worker' = IF dlc.rec.step = NONE THEN "connect" ELSE "copy"
  /\ UNCHANGED <<dir, rec, e, dlc, xfer, flags, ca, server, report, ret, faults>>

\* ua_dlc is there: ua_dl_init sets it at its end.
HasContext == dlc # None /\ worker # "cut"

-----------------------------------------------------------------------------
(***************************************************************************)
(* UA_DL_STEP_NONE: ua_dl_step_download and its callback dmc_recv_cb.      *)
(***************************************************************************)
\* The server continues at the offset asked for; it starts over when an e-tag was
\* sent and is not the one it has, or does not keep to the range.
Connect(offset) ==
  /\ worker = "connect"
  /\ LET asked == dlc.rec.bytes
         stale == dlc.rec.e_tag \notin {None, ETag(server)}
     IN  /\ xfer' = [asked |-> asked, offset |-> offset, next |-> offset + 1, content |-> server]
         /\ IF stale THEN offset = 0 /\ UNCHANGED faults
            ELSE IF offset = asked THEN UNCHANGED faults
            ELSE offset < asked /\ Fault("range")
  /\ worker' = "recv"
  /\ UNCHANGED <<disk, dlc, flags, trust, server, report, ret>>

\* Mutant: the record keeps counting from the offset that was asked for.
AtOffsetIgnored(r, offset) == [r EXCEPT !.crc32 = <<>>, !.last_crc32 = <<>>]

\* The record starts again at the offset that the server sends from.
AtOffset(r, offset) ==
  [r EXCEPT !.bytes = offset, !.last = offset, !.crc32 = <<>>, !.last_crc32 = <<>>]

\* The offset is not the one asked for: the record in memory starts again there and
\* the .x file is cut, while the record on disk still has the old length.
RecvOffset ==
  /\ worker = "recv" /\ xfer.offset # xfer.asked
  /\ dlc' = [dlc EXCEPT !.rec = AtOffset(@, xfer.offset)]
  /\ x' = IF x = None THEN None ELSE Prefix(x, xfer.offset)
  /\ xfer' = [xfer EXCEPT !.asked = xfer.offset]
  /\ worker' = "offset"
  /\ UNCHANGED <<dir, rec, e, flags, trust, server, report, ret, faults>>

\* The CRC of what is left is computed and the record saved.  The CRC of no bytes, or
\* of no file, is an error, which ends the transfer.
RecvOffsetRecord ==
  /\ worker = "offset"
  /\ LET ok == x # None /\ xfer.offset > 0
         crc == IF ok THEN x ELSE <<>>
         r == [dlc.rec EXCEPT !.crc32 = crc, !.last_crc32 = crc]
     IN  /\ dlc' = [dlc EXCEPT !.rec = r]
         /\ rec' = Save(r)
         /\ worker' = IF ok THEN "recv" ELSE "failed"
  /\ UNCHANGED <<dir, x, e, xfer, flags, trust, server, report, ret, faults>>

\* ua_dl_save_data: the block is appended to the .x file.
RecvData ==
  /\ worker = "recv" /\ xfer.offset = xfer.asked /\ xfer.next <= Length
  /\ LET old == IF x = None THEN <<>> ELSE x
     IN  \/ /\ dir
            /\ x' = Append(old, <<xfer.content, xfer.next>>)
            /\ worker' = "record"
            /\ UNCHANGED faults
         \/ /\ dir
            /\ Fault("disk")
            /\ x' = Append(old, TornBlock)
            /\ worker' = "failed"
         \/ /\ ~dir
            /\ worker' = "failed"
            /\ UNCHANGED <<x, faults>>
  /\ UNCHANGED <<dir, rec, e, dlc, xfer, flags, trust, server, report, ret>>

\* The rest of dmc_recv_cb: the record moves on, with the e-tag of the answer or
\* without; a postponement stops the transfer.
RecvRecord ==
  /\ worker = "record"
  /\ LET r == [dlc.rec EXCEPT !.last = dlc.rec.bytes, !.bytes = dlc.rec.bytes + 1,
                              !.last_crc32 = dlc.rec.crc32,
                              !.crc32 = Append(dlc.rec.crc32, <<xfer.content, xfer.next>>),
                              !.e_tag = ETag(xfer.content)]
     IN  /\ dlc' = [dlc EXCEPT !.rec = r]
         /\ rec' = Save(r)
  /\ xfer' = [xfer EXCEPT !.next = xfer.next + 1]
  /\ report' \in IF xfer.next = Length THEN {"progress"} ELSE {report, "progress"}
  /\ worker' = IF download_postponed THEN "failed" ELSE "recv"
  /\ UNCHANGED <<dir, x, e, flags, trust, server, ret, faults>>

\* dmclient_download fails, before or within the transfer.
TransferError ==
  /\ worker \in {"connect", "recv"}
  /\ Fault("net")
  /\ worker' = "failed"
  /\ report' \in {report, "error"}
  /\ UNCHANGED <<disk, dlc, xfer, flags, trust, server, ret>>

\* The successful end of ua_dl_step_download.
StepDownloaded ==
  /\ worker = "recv" /\ xfer.offset = xfer.asked /\ xfer.next > Length
  /\ LET r == [dlc.rec EXCEPT !.last = dlc.rec.bytes, !.last_crc32 = dlc.rec.crc32,
                              !.step = DOWNLOADED]
     IN  /\ rec' = Save(r)
         /\ IF dir
            THEN dlc' = [dlc EXCEPT !.rec = r] /\ worker' = "copy" /\ UNCHANGED ret
            ELSE Return("ERR")
  /\ session_restart' = FALSE
  /\ xfer' = None
  /\ UNCHANGED <<dir, x, e, download_postponed, old_campaign_id, trust, server, report, faults>>

\* Its failure: the record loses the last block, the .e file (not the .x file)
\* is truncated, and the DMC is asked for a new session.
StepDownloadFailed ==
  /\ worker = "failed"
  /\ LET r == DropLast(dlc.rec)
     IN  /\ rec' = Save(r)
         /\ e' = IF e = None THEN e ELSE [e EXCEPT !.data = Truncate(@, r.bytes)]
  /\ session_restart' = TRUE
  /\ xfer' = None
  /\ Return("ERR")
  /\ UNCHANGED <<dir, x, download_postponed, old_campaign_id, trust, server, report, faults>>

-----------------------------------------------------------------------------
(***************************************************************************)
(* UA_DL_STEP_DOWNLOADED: ua_dl_step_encrypt.                              *)
(***************************************************************************)
\* f_copy: a failure leaves the .e file as far as it was written.
CopyPackage ==
  /\ worker = "copy"
  /\ \/ /\ x # None
        /\ e' = [data |-> x, plain |-> FALSE]
        /\ worker' = "decrypt"
        /\ UNCHANGED <<dlc, ret, faults>>
     \/ /\ x # None
        /\ Fault("copy")
        /\ e' = [data |-> <<>>, plain |-> FALSE]
        /\ Return("ERR")
     \/ /\ x = None
        /\ Return("ERR")
        /\ UNCHANGED <<e, faults>>
  /\ UNCHANGED <<dir, rec, x, xfer, flags, trust, server, report>>

Decrypt ==
  /\ worker = "decrypt" /\ e # None
  /\ e' = [e EXCEPT !.plain = TRUE]
  /\ LET r == [dlc.rec EXCEPT !.step = ENCRYPTED]
     IN  /\ dlc' = [dlc EXCEPT !.rec = r]
         /\ rec' = Save(r)
  /\ worker' = "verify"
  /\ UNCHANGED <<dir, x, xfer, flags, trust, server, report, ret, faults>>

DecryptFailed ==
  /\ worker = "decrypt"
  /\ \/ e = None /\ UNCHANGED faults
     \/ e # None /\ Fault("decrypt")
  /\ e' = None
  /\ Report("error")
  /\ Return("ERR")
  /\ UNCHANGED <<dir, rec, x, xfer, flags, trust, server>>

-----------------------------------------------------------------------------
(***************************************************************************)
(* UA_DL_STEP_ENCRYPTED: ua_dl_step_verify.                                *)
(***************************************************************************)
Intact(f) == f # None /\ f.plain /\ \E t \in Tags : f.data = Content(t)

\* dmclient_verify_binary: the signature covers the whole package.
VerifyBinary == Intact(e) /\ ca.loaded

Verify ==
  /\ worker = "verify"
  /\ IF VerifyBinary
     THEN LET r == [dlc.rec EXCEPT !.step = VERIFIED]
          IN  /\ dlc' = [dlc EXCEPT !.rec = r]
              /\ rec' = Save(r)
              /\ worker' = "verified"
     ELSE worker' = "rejected" /\ UNCHANGED <<dlc, rec>>
  /\ UNCHANGED <<dir, x, e, xfer, flags, trust, server, report, ret, faults>>

\* Mutant: success removes the decrypted file instead of the encrypted one.
VerifyRemoveWrong ==
  \/ /\ worker = "verified"
     /\ e' = None
     /\ worker' = "done"
     /\ UNCHANGED <<dir, rec, x, dlc, xfer, flags, trust, server, report, ret, faults>>
  \/ /\ worker = "rejected"
     /\ Report("error")
     /\ x' = None /\ e' = None
     /\ Return("ERR")
     /\ UNCHANGED <<dir, rec, xfer, flags, trust, server, faults>>

VerifyRemove ==
  \/ /\ worker = "verified"
     /\ x' = None
     /\ worker' = "done"
     /\ UNCHANGED <<dir, rec, e, dlc, xfer, flags, trust, server, report, ret, faults>>
  \/ /\ worker = "rejected"
     /\ Report("error")
     /\ x' = None /\ e' = None
     /\ Return("ERR")
     /\ UNCHANGED <<dir, rec, xfer, flags, trust, server, faults>>

-----------------------------------------------------------------------------
(***************************************************************************)
(* UA_DL_STEP_VERIFIED: the completed report is repeated every second      *)
(* until prepare-update sets stop_completed_status.                        *)
(***************************************************************************)
StepDone ==
  /\ worker = "done" /\ ~dlc.stop
  /\ Report("completed")
  /\ UNCHANGED <<disk, dlc, worker, xfer, flags, trust, server, ret, faults>>

StepStopped ==
  /\ worker = "done" /\ dlc.stop
  /\ Return("OK")
  /\ UNCHANGED <<disk, xfer, flags, trust, server, report, faults>>

-----------------------------------------------------------------------------
(***************************************************************************)
(* The runner thread.                                                      *)
(***************************************************************************)
\* store_trust_key: the reply's CA is written only while a download runs.
StoreTrustKey == ca.file \/ HasContext

\* process_query_trust: the directory of CAs is read in any case.
QueryTrust ==
  /\ reply_id
  /\ reply_id' = FALSE
  /\ ca' = [file |-> StoreTrustKey, loaded |-> ca.loaded \/ StoreTrustKey]
  /\ UNCHANGED <<disk, dlc, worker, xfer, flags, server, report, ret, faults>>

DownloadPostponed ==
  /\ Fault("postpone")
  /\ download_postponed' = TRUE
  /\ UNCHANGED <<disk, dlc, worker, xfer, session_restart, old_campaign_id, trust, server,
                 report, ret>>

\* Mutant: the flag is only taken before the first completed report.
StopCompletedStatusEarly ==
  /\ report = "completed" /\ HasContext /\ ~dlc.stop /\ worker # "done"
  /\ dlc' = [dlc EXCEPT !.stop = TRUE]
  /\ UNCHANGED <<disk, worker, xfer, flags, trust, server, report, ret, faults>>

\* The DMC goes on to prepare-update once it has the completed report.
StopCompletedStatus ==
  /\ report = "completed" /\ HasContext /\ ~dlc.stop
  /\ dlc' = [dlc EXCEPT !.stop = TRUE]
  /\ UNCHANGED <<disk, worker, xfer, flags, trust, server, report, ret, faults>>

\* A sota-report DCE_ABORTED (and confirm-update) removes the directory, also
\* under a running download.
RemoveDirectory ==
  /\ dir /\ Fault("remove")
  /\ dir' = FALSE /\ rec' = None /\ x' = None /\ e' = None
  /\ UNCHANGED <<dlc, worker, xfer, flags, trust, server, report, ret>>

-----------------------------------------------------------------------------
(***************************************************************************)
(* The environment.                                                        *)
(***************************************************************************)
NewContent(t) ==
  /\ t # server /\ Fault("tag")
  /\ server' = t
  /\ UNCHANGED <<disk, dlc, worker, xfer, flags, trust, report, ret>>

\* The worker is in a step that rewrites the record file in place (ua_dl_init only
\* creates it or drops the last block; what it appends leaves the record there).
Saving ==
  \/ worker \in {"offset", "record", "failed", "decrypt", "verify"}
  \/ worker = "recv" /\ xfer.next > Length
  \/ worker = "init" /\ (rec = None \/ (IsRecord(rec) /\ x # None /\ DropLast(rec) # rec))

\* A crash leaves the disk; the record file may have been opened but not written.
Crash ==
  /\ Fault("crash")
  /\ rec' \in {rec} \cup (IF Saving /\ dir THEN {Torn} ELSE {})
  /\ dlc' = None /\ worker' = "idle" /\ xfer' = None
  /\ session_restart' = FALSE /\ download_postponed' = FALSE /\ old_campaign_id' = 0
  /\ reply_id' = FALSE /\ ca' = [ca EXCEPT !.loaded = FALSE]
  /\ ret' = None
  /\ UNCHANGED <<dir, x, e, server, report>>

Start == \E c \in Campaigns : StartDownload(c)

\* The DMC sends the start-download of the campaign again.
Repeat == \E c \in Campaigns : old_campaign_id \in {0, c} /\ StartDownload(c)

Worker ==
  \/ InitRecord \/ InitPackage
  \/ \E offset \in 0 .. Length : Connect(offset)
  \/ RecvOffset \/ RecvOffsetRecord \/ RecvData \/ RecvRecord \/ TransferError
  \/ StepDownloaded \/ StepDownloadFailed
  \/ CopyPackage \/ Decrypt \/ DecryptFailed
  \/ Verify \/ VerifyRemove \/ StepDone \/ StepStopped

DownloadNext ==
  \/ Start \/ Worker
  \/ QueryTrust \/ DownloadPostponed \/ StopCompletedStatus \/ RemoveDirectory
  \/ \E t \in Tags : NewContent(t)
  \/ Crash

\* The worker is a thread and keeps running; the DMC repeats start-download while
\* it has no completed report, of the same campaign, and goes on to prepare-update when it has one.  The
\* verification does not wait for the reply to query-trust, and a reply to an
\* attempt that is over is lost: of the attempts, some must live to get theirs.
DownloadFairness ==
  /\ WF_vars(Repeat) /\ WF_vars(Worker)
  /\ SF_vars(QueryTrust /\ HasContext) /\ WF_vars(StopCompletedStatus)

DownloadSpec == DownloadInit /\ [][DownloadNext]_vars /\ DownloadFairness

-----------------------------------------------------------------------------
RecordType ==
  [bytes : 0 .. Length, step : {NONE, DOWNLOADED, ENCRYPTED, VERIFIED},
   crc32 : Seq(Blocks), last : 0 .. Length, last_crc32 : Seq(Blocks), e_tag : Tags \cup {None}]

XferType ==
  [asked : 0 .. Length, offset : 0 .. Length, next : 1 .. Length + 1, content : Tags]

\* Every variable keeps its type: a transfer never records more blocks than the
\* package has, whatever was resumed, cut or repeated.
DownloadTypeOK ==
  /\ dir \in BOOLEAN
  /\ rec \in {None, Torn} \/ rec \in RecordType
  /\ x = None \/ x \in Seq(Blocks)
  /\ e = None \/ e \in [data : Seq(Blocks), plain : BOOLEAN]
  /\ dlc = None \/ dlc \in [rec : RecordType, stop : BOOLEAN]
  /\ worker \in {"idle", "init", "cut", "connect", "recv", "offset", "record", "failed", "copy", "decrypt", "verify",
                 "verified", "rejected", "done"}
  /\ xfer = None \/ xfer \in XferType
  /\ session_restart \in BOOLEAN /\ download_postponed \in BOOLEAN
  /\ old_campaign_id \in Campaigns \cup {0}
  /\ reply_id \in BOOLEAN
  /\ ca \in [file : BOOLEAN, loaded : BOOLEAN]
  /\ server \in Tags
  /\ report \in {"none", "progress", "error", "completed"}
  /\ ret \in {None, "OK", "ERR"}
  /\ faults \in 0 .. MaxFaults

\* The package that is handed to decryption (UA_DL_STEP_DOWNLOADED) has every block
\* once and in its place, whatever crashes, failed writes, cut ranges and replaced
\* contents the attempts have met, and all of one content.  Only a download that
\* began without an e-tag is continued with what the server has by then.
DownloadedIntact ==
  worker = "copy" /\ x # None =>
    /\ Len(x) = Length
    /\ \A i \in 1 .. Length : x[i][2] = i /\ (x[1][1] \in Untagged \/ x[i][1] = x[1][1])

\* What is reported as downloaded is the decrypted and verified package, unless
\* its directory was removed under the download.
CompletedIntact == worker = "done" /\ dir => Intact(e)

\* A crash in a transfer costs at most the last recorded block: with the record that
\* is on disk ua_dl_init would resume there.  Two moments are left out, in which a crash
\* costs all of the progress: the record file is being rewritten in place, and
\* dmc_recv_cb has cut the .x file at a new offset and not saved the record yet
\* ("offset").
KeepsProgress ==
  /\ worker \in {"cut", "connect", "recv", "record", "failed"} /\ dir /\ IsRecord(rec)
  => Resumed.bytes + 1 >= dlc.rec.bytes

\* An attempt has failed after its transfer, in copying or decrypting.
FailedAfterTransfer ==
  worker = "idle" /\ ret = "ERR" /\ ~session_restart /\ (x # None \/ e # None)

\* However often the transfer fails, is postponed or dies, the package is
\* downloaded, verified and reported in the end, without a new campaign.  Not so
\* when copying or decrypting fails: what is left on disk makes
\* process_start_download skip the repetitions as already processed.
EventuallyCompleted == <>(report = "completed" \/ FailedAfterTransfer)

\* Having reported, the worker is free for prepare-update in the end.
WorkerReleased == [](worker = "done" => <>(worker = "idle"))
=============================================================================
