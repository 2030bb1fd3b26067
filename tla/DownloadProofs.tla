--------------------------- MODULE DownloadProofs ---------------------------
(***************************************************************************)
(* Proofs about Download, for packages of any length, any set of e-tags    *)
(* and campaigns, and any number of failures of any kind.                  *)
(***************************************************************************)
EXTENDS Download, SequenceTheorems, TLAPS

\* n blocks, each in its place, of one content; what began without an e-tag may go on
\* with another content.
Begun(s, t, n) ==
  /\ s \in Seq(Blocks) /\ Len(s) = n
  /\ \A i \in 1 .. n : s[i][2] = i /\ (s[1][1] \in Untagged \/ s[i][1] = t)

\* What every record holds to, on disk and in memory: unless it was given up as <<>>, the
\* checksum of all but the last block covers a beginning of the package; from
\* UA_DL_STEP_DOWNLOADED on the dropped record is still the whole package.
RecordSound(r) ==
  /\ r.last > 0 /\ r.last_crc32 # <<>> => Begun(r.last_crc32, r.e_tag, r.last)
  /\ r.step # NONE => r.last = Length

OnDisk == (IsRecord(rec) => RecordSound(rec)) /\ (~dir => x = None)

\* The record is in memory from ua_dl_init on; from the copy on it is past the transfer.
InMemory ==
  /\ worker \notin {"idle", "init"} =>
       dlc \in [rec : RecordType, stop : BOOLEAN] /\ RecordSound(dlc.rec)
  /\ worker \in {"copy", "decrypt", "verify", "verified", "rejected", "done"} =>
       dlc.rec.step # NONE

\* Before and in a transfer the checksum covers a beginning of the package.
Covered ==
  /\ worker \in {"cut", "connect", "recv", "record"} =>
       Begun(dlc.rec.crc32, dlc.rec.e_tag, dlc.rec.bytes)
  /\ worker \in {"connect", "recv", "offset", "record"} => dlc.rec.step = NONE

\* What ua_dl_init has found of the .x file.
Found ==
  worker = "cut" =>
    /\ dir /\ dlc.rec.bytes > 0 =>
         x # None /\ dlc.rec.bytes <= Len(x) /\ Prefix(x, dlc.rec.bytes) = dlc.rec.crc32
    /\ dir /\ IsRecord(rec) /\ dlc.rec.bytes > 0 =>
         rec.last = dlc.rec.bytes /\ rec.last_crc32 = dlc.rec.crc32
    /\ dlc.rec.step # NONE => dlc.rec.bytes = Length

\* The block to come is the one after the recorded ones and continues them; or the
\* server sends from an earlier offset and dmc_recv_cb has not noticed yet.
InRange ==
  worker \in {"recv", "record"} =>
    /\ xfer \in XferType
    /\ xfer.offset = xfer.asked =>
         dlc.rec.bytes = xfer.next - 1 /\ Begun(dlc.rec.crc32, xfer.content, dlc.rec.bytes)
    /\ xfer.offset # xfer.asked =>
         /\ worker = "recv" /\ xfer.asked = dlc.rec.bytes
         /\ xfer.next = xfer.offset + 1 /\ xfer.offset < xfer.asked
         /\ xfer.offset > 0 => Begun(dlc.rec.crc32, xfer.content, dlc.rec.bytes)
    /\ worker = "record" => xfer.next <= Length

\* The .x file has been cut at the offset; the record in memory has no checksum yet.
AtCut ==
  worker = "offset" =>
    /\ xfer \in XferType
    /\ xfer.asked = xfer.offset /\ xfer.next = xfer.offset + 1
    /\ dlc.rec.bytes = xfer.offset /\ dlc.rec.last = xfer.offset
    /\ dir /\ xfer.offset > 0 =>
         x # None /\ Begun(x, xfer.content, xfer.offset) /\ Begun(x, dlc.rec.e_tag, xfer.offset)

\* The .x file holds the recorded blocks, and in "record" one more.
Filed ==
  /\ worker \in {"connect", "recv"} /\ dir =>
       IF dlc.rec.bytes = 0 THEN x = None ELSE x # None /\ x = dlc.rec.crc32
  /\ worker = "record" /\ dir =>
       x # None /\ x = Append(dlc.rec.crc32, <<xfer.content, xfer.next>>)

\* The record file lets a later ua_dl_init resume one block back.
Resumes ==
  worker \in {"cut", "connect", "recv", "record", "failed"} /\ dir /\ IsRecord(rec) /\ dlc.rec.bytes > 1 =>
    rec.last + 1 >= dlc.rec.bytes /\ x # None /\ CrcOK(DropLast(rec), x)

\* What was verified stays as it was.
Verified == worker \in {"verified", "done"} /\ dir => Intact(e)

DownloadInv ==
  /\ DownloadTypeOK /\ OnDisk /\ InMemory /\ Covered /\ Found /\ InRange /\ AtCut /\ Filed
  /\ Resumes /\ Verified /\ DownloadedIntact

-----------------------------------------------------------------------------
\* A block has a place in the package, or was written in part.
LEMMA BlockFields ==
  ASSUME NEW b \in Blocks
  PROVE  b[2] > 0 => b[1] \in Tags /\ b[1] # None
BY DownloadAssumption DEF Blocks, TornBlock

\* No block yet.
LEMMA BegunEmpty ==
  ASSUME NEW t
  PROVE  Begun(<<>>, t, 0)
BY DEF Begun

\* A beginning with blocks is a file.
LEMMA BegunSome ==
  ASSUME NEW s, NEW t, NEW n \in 0 .. Length, Begun(s, t, n), n > 0
  PROVE  s # None /\ s # <<>>
<1>1. s \in Seq(Blocks) /\ Len(s) = n
  BY DEF Begun
<1>2. s # <<>>
  BY <1>1, DownloadAssumption
<1> QED BY <1>1, <1>2, NoneAssumption

\* The next block of the content extends its beginning.
LEMMA BegunAppend ==
  ASSUME NEW s, NEW t \in Tags, NEW n \in 0 .. Length, n + 1 <= Length, Begun(s, t, n)
  PROVE  /\ Begun(Append(s, <<t, n + 1>>), t, n + 1)
         /\ Append(s, <<t, n + 1>>) # None
<1> USE DownloadAssumption
<1> DEFINE b == <<t, n + 1>>
           a == Append(s, b)
<1>1. s \in Seq(Blocks) /\ Len(s) = n
  BY DEF Begun
<1>2. b \in Blocks /\ b[1] = t /\ b[2] = n + 1
  BY DEF Blocks
<1> HIDE DEF b
<1>3. /\ a \in Seq(Blocks) /\ Len(a) = n + 1
      /\ \A i \in 1 .. n : a[i] = s[i]
      /\ a[n + 1] = b
  BY <1>1, <1>2, AppendProperties
<1> HIDE DEF a
<1>4. \A i \in 1 .. n + 1 : a[i][2] = i /\ (a[1][1] \in Untagged \/ a[i][1] = t)
  <2> TAKE i \in 1 .. n + 1
  <2>1. CASE i = n + 1
    BY <1>2, <1>3, <2>1
  <2>2. CASE i \in 1 .. n
    <3>1. a[i] = s[i] /\ a[1] = s[1] /\ 1 \in 1 .. n
      BY <1>3, <2>2
    <3>2. s[i][2] = i /\ (s[1][1] \in Untagged \/ s[i][1] = t)
      BY <2>2 DEF Begun
    <3> QED BY <3>1, <3>2
  <2> QED BY <2>1, <2>2
<1>5. Begun(a, t, n + 1)
  BY <1>3, <1>4 DEF Begun
<1> QED BY <1>3, <1>5, NoneAssumption DEF a, b

\* It is sound under the e-tag that the content has, or has not.
LEMMA BegunTagged ==
  ASSUME NEW s, NEW t \in Tags, NEW n \in 0 .. Length, Begun(s, t, n)
  PROVE  Begun(s, ETag(t), n)
<1> SUFFICES ASSUME t \in Untagged, NEW i \in 1 .. n PROVE s[1][1] \in Untagged
  BY DEF Begun, ETag
<1>1. 1 \in 1 .. n
  BY DownloadAssumption
<1> QED BY <1>1 DEF Begun

\* What was recorded under the e-tag that the server confirms, or under none, is
\* continued by what the server has.
LEMMA BegunServed ==
  ASSUME NEW s, NEW g, NEW t \in Tags, NEW n \in 0 .. Length, Begun(s, g, n), g \in {None, ETag(t)}
  PROVE  Begun(s, t, n)
<1> USE DownloadAssumption
<1> SUFFICES ASSUME NEW i \in 1 .. n, s[1][1] \notin Untagged PROVE s[i][1] = t
  BY DEF Begun
<1>1. s[i] \in Blocks /\ s[i][2] = i /\ s[i][1] = g
  BY DEF Begun
<1>2. g # None
  BY <1>1, BlockFields
<1> QED BY <1>1, <1>2 DEF ETag

\* The beginning of a file of blocks.
LEMMA PrefixSeq ==
  ASSUME NEW s \in Seq(Blocks), NEW n \in Nat, n <= Len(s)
  PROVE  Prefix(s, n) \in Seq(Blocks) /\ Len(Prefix(s, n)) = n
BY SubSeqProperties DEF Prefix

\* A whole file is its own beginning.
LEMMA PrefixWhole ==
  ASSUME NEW s \in Seq(Blocks)
  PROVE  Prefix(s, Len(s)) = s
<1>1. Len(s) \in Nat
  OBVIOUS
<1>2. Prefix(s, Len(s)) \in Seq(Blocks) /\ Len(Prefix(s, Len(s))) = Len(s)
  BY <1>1, PrefixSeq
<1>3. \A i \in 1 .. Len(s) : Prefix(s, Len(s))[i] = s[i]
  BY <1>1, SubSeqProperties DEF Prefix
<1> QED BY <1>2, <1>3, SeqEqual

\* Cutting a beginning of the package leaves a shorter one.
LEMMA PrefixBegun ==
  ASSUME NEW s, NEW t, NEW n \in 0 .. Length, NEW m \in 0 .. n, Begun(s, t, n)
  PROVE  Begun(Prefix(s, m), t, m)
<1> USE DownloadAssumption
<1>1. s \in Seq(Blocks) /\ Len(s) = n
  BY DEF Begun
<1> DEFINE p == Prefix(s, m)
<1>2. p \in Seq(Blocks) /\ Len(p) = m
  BY <1>1, PrefixSeq
<1>3. \A i \in 1 .. m : p[i] = s[i]
  BY <1>1, SubSeqProperties DEF Prefix
<1> HIDE DEF p
<1>4. \A i \in 1 .. m : p[i][2] = i /\ (p[1][1] \in Untagged \/ p[i][1] = t)
  <2> TAKE i \in 1 .. m
  <2>1. i \in 1 .. n /\ 1 \in 1 .. m
    OBVIOUS
  <2>2. p[i] = s[i] /\ p[1] = s[1]
    BY <1>3, <2>1
  <2> QED BY <2>1, <2>2 DEF Begun
<1> QED BY <1>2, <1>4 DEF Begun, p

\* A file that grows keeps its beginning.
LEMMA PrefixAppend ==
  ASSUME NEW s \in Seq(Blocks), NEW b \in Blocks, NEW n \in Nat, n <= Len(s)
  PROVE  /\ Append(s, b) \in Seq(Blocks) /\ Len(Append(s, b)) = Len(s) + 1
         /\ Prefix(Append(s, b), n) = Prefix(s, n)
<1> DEFINE a == Append(s, b)
<1>1. /\ a \in Seq(Blocks) /\ Len(a) = Len(s) + 1
      /\ \A i \in 1 .. Len(s) : a[i] = s[i]
  BY AppendProperties
<1> HIDE DEF a
<1>2. /\ Prefix(a, n) \in Seq(Blocks) /\ Len(Prefix(a, n)) = n
      /\ Prefix(s, n) \in Seq(Blocks) /\ Len(Prefix(s, n)) = n
  BY <1>1, PrefixSeq
<1>3. \A i \in 1 .. n : Prefix(a, n)[i] = a[i] /\ Prefix(s, n)[i] = s[i]
  BY <1>1, SubSeqProperties DEF Prefix
<1>4. Prefix(a, n) = Prefix(s, n)
  BY <1>1, <1>2, <1>3, SeqEqual
<1> QED BY <1>1, <1>4 DEF a

-----------------------------------------------------------------------------
\* The fields of a record.
LEMMA RecordFields ==
  ASSUME NEW r \in RecordType
  PROVE  /\ r.bytes \in 0 .. Length /\ r.last \in 0 .. Length
         /\ r.crc32 \in Seq(Blocks) /\ r.last_crc32 \in Seq(Blocks)
         /\ r.e_tag \in Tags \cup {None} /\ r.step \in {NONE, DOWNLOADED, ENCRYPTED, VERIFIED}
BY DEF RecordType

\* Dropping the last block changes the number of blocks and their checksum only.
LEMMA DropLastFields ==
  ASSUME NEW r \in RecordType
  PROVE  /\ DropLast(r) \in RecordType
         /\ DropLast(r).bytes = r.last /\ DropLast(r).last = r.last
         /\ DropLast(r).crc32 = r.last_crc32 /\ DropLast(r).last_crc32 = r.last_crc32
         /\ DropLast(r).e_tag = r.e_tag /\ DropLast(r).step = r.step
BY DEF DropLast, RecordType

\* So it keeps a record sound.
LEMMA DropLastSound ==
  ASSUME NEW r \in RecordType, RecordSound(r)
  PROVE  DropLast(r) \in RecordType /\ RecordSound(DropLast(r))
BY DropLastFields DEF RecordSound

\* The record that ua_dl_init_dl_rec makes.
LEMMA InitRecFields ==
  /\ InitRec \in RecordType /\ RecordSound(InitRec)
  /\ InitRec.bytes = 0 /\ InitRec.step = NONE /\ InitRec.crc32 = <<>> /\ InitRec.e_tag = None
<1>1. <<>> \in Seq(Blocks)
  OBVIOUS
<1> QED BY <1>1, DownloadAssumption DEF InitRec, RecordType, RecordSound, NONE, DOWNLOADED

\* Between attempts only the types and the disk matter.
LEMMA IdleAfter ==
  ASSUME DownloadTypeOK', OnDisk', worker' = "idle"
  PROVE  DownloadInv'
BY DEF DownloadInv, InMemory, Covered, Found, InRange, AtCut, Filed, Resumes, Verified, DownloadedIntact

\* The fields of a transfer.
LEMMA XferFields ==
  ASSUME NEW t \in XferType
  PROVE  /\ t.asked \in 0 .. Length /\ t.offset \in 0 .. Length
         /\ t.next \in 1 .. Length + 1 /\ t.content \in Tags
BY DEF XferType

\* A whole package has every block in its place.
LEMMA BegunWhole ==
  ASSUME worker' = "copy" => x' = None \/ \E t : Begun(x', t, Length)
  PROVE  DownloadedIntact'
<1> SUFFICES ASSUME worker' = "copy", x' # None
             PROVE  /\ Len(x') = Length
                    /\ \A i \in 1 .. Length : x'[i][2] = i /\ (x'[1][1] \in Untagged \/ x'[i][1] = x'[1][1])
  BY DEF DownloadedIntact
<1>1. PICK t : Begun(x', t, Length)
  OBVIOUS
<1>2. 1 \in 1 .. Length
  BY DownloadAssumption
<1> QED BY <1>1, <1>2 DEF Begun

\* The record of an attempt that can be resumed covers a beginning of the package, and
\* the .x file begins with it.
LEMMA ResumeRecord ==
  ASSUME DownloadInv, Resumable
  PROVE  /\ rec \in RecordType /\ IsRecord(rec) /\ RecordSound(rec) /\ rec.last \in 1 .. Length
         /\ Begun(rec.last_crc32, rec.e_tag, rec.last)
         /\ x # None /\ x \in Seq(Blocks) /\ rec.last <= Len(x)
         /\ Prefix(x, rec.last) = rec.last_crc32
<1> USE DownloadAssumption
<1>1. rec \in RecordType /\ IsRecord(rec) /\ RecordSound(rec) /\ x # None /\ x \in Seq(Blocks)
  BY DEF DownloadInv, DownloadTypeOK, OnDisk, Resumable, IsRecord
<1>2. DropLast(rec).bytes = rec.last /\ DropLast(rec).crc32 = rec.last_crc32
  BY <1>1, DropLastFields
<1>3. rec.last \in 0 .. Length
  BY <1>1, RecordFields
<1>4. rec.last > 0 /\ rec.last <= Len(x) /\ Prefix(x, rec.last) = rec.last_crc32
  BY <1>2 DEF Resumable, CrcOK
<1>5. Len(Prefix(x, rec.last)) = rec.last
  BY <1>1, <1>3, <1>4, PrefixSeq
<1>6. rec.last_crc32 # <<>>
  BY <1>3, <1>4, <1>5
<1> QED BY <1>1, <1>3, <1>4, <1>6 DEF RecordSound

-----------------------------------------------------------------------------
\* The initial state satisfies the invariant.
LEMMA DownloadStart ==
  ASSUME DownloadInit
  PROVE  DownloadInv
<1> USE DownloadAssumption DEF DownloadInit
<1>1. DownloadTypeOK
  <2>1. dir \in BOOLEAN /\ session_restart \in BOOLEAN /\ download_postponed \in BOOLEAN
        /\ reply_id \in BOOLEAN
    OBVIOUS
  <2>2. ca \in [file : BOOLEAN, loaded : BOOLEAN]
    OBVIOUS
  <2>3. rec = None /\ x = None /\ e = None /\ dlc = None /\ xfer = None /\ ret = None
        /\ worker = "idle" /\ report = "none" /\ server \in Tags
    OBVIOUS
  <2>4. old_campaign_id \in Campaigns \cup {0} /\ faults \in 0 .. MaxFaults
    OBVIOUS
  <2> HIDE DEF DownloadInit
  <2> QED BY <2>1, <2>2, <2>3, <2>4 DEF DownloadTypeOK
<1>2. OnDisk
  BY DEF OnDisk, IsRecord
<1> QED BY <1>1, <1>2 DEF DownloadInv, InMemory, Covered, Found, InRange, AtCut, Filed, Resumes, Verified, DownloadedIntact

\* Nothing changes.
LEMMA DownloadStutter ==
  ASSUME DownloadInv, UNCHANGED vars
  PROVE  DownloadInv'
<1> USE DEF vars, disk, flags, trust
<1>1. DownloadTypeOK'
  BY DEF DownloadInv, DownloadTypeOK
<1>2. OnDisk' /\ InMemory' /\ Covered' /\ Found'
  BY DEF DownloadInv, OnDisk, InMemory, Covered, Found
<1>3. InRange' /\ AtCut' /\ Filed'
  BY DEF DownloadInv, InRange, AtCut, Filed
<1>4. Resumes' /\ Verified' /\ DownloadedIntact'
  BY DEF DownloadInv, Resumes, Verified, DownloadedIntact, Intact, CrcOK
<1> QED BY <1>1, <1>2, <1>3, <1>4 DEF DownloadInv

\* Steps of the runner and of the environment that leave the download's files, its record
\* and the transfer alone.
LEMMA BesideDownload ==
  ASSUME DownloadInv, DownloadTypeOK', UNCHANGED <<disk, worker, xfer>>,
         worker \notin {"idle", "init"} =>
           dlc'.rec = dlc.rec /\ dlc' \in [rec : RecordType, stop : BOOLEAN]
  PROVE  DownloadInv'
<1> USE DEF disk
<1>1. OnDisk' /\ InMemory'
  BY DEF DownloadInv, OnDisk, InMemory
<1>2. Covered' /\ Found' /\ InRange' /\ AtCut' /\ Filed'
  BY DEF DownloadInv, Covered, Found, InRange, AtCut, Filed
<1>3. Resumes' /\ Verified' /\ DownloadedIntact'
  BY DEF DownloadInv, Resumes, Verified, DownloadedIntact, Intact, CrcOK
<1> QED BY <1>1, <1>2, <1>3 DEF DownloadInv

\* A new attempt, or a repeated start-download that is skipped.
LEMMA StartStep ==
  ASSUME DownloadInv, NEW c \in Campaigns, StartDownload(c)
  PROVE  DownloadInv'
<1> USE DownloadAssumption DEF trust
<1>1. CASE AlreadyProcessed(c)
  BY <1>1, DownloadStutter DEF StartDownload
<1>2. CASE ~AlreadyProcessed(c)
  <2>1. /\ worker = "idle" /\ download_postponed' = FALSE /\ old_campaign_id' = c
        /\ dir' = TRUE /\ worker' = "init"
        /\ UNCHANGED <<rec, x, e, dlc, xfer, session_restart, reply_id, ca, server, report, ret, faults>>
    BY <1>2 DEF StartDownload
  <2>2. dir' \in BOOLEAN /\ download_postponed' \in BOOLEAN
    BY <2>1
  <2>3. DownloadTypeOK' /\ OnDisk'
    BY <2>1, <2>2 DEF DownloadInv, DownloadTypeOK, OnDisk
  <2>4. InMemory' /\ Covered' /\ Found' /\ InRange' /\ AtCut' /\ Filed' /\ Resumes' /\ Verified'
        /\ DownloadedIntact'
    BY <2>1 DEF InMemory, Covered, Found, InRange, AtCut, Filed, Resumes, Verified, DownloadedIntact
  <2> QED BY <2>3, <2>4 DEF DownloadInv
<1> QED BY <1>1, <1>2

\* ua_dl_init reads and writes the record: the attempt resumes at a beginning of the
\* package, or starts over.
LEMMA InitRecordStep ==
  ASSUME DownloadInv, InitRecord
  PROVE  DownloadInv'
<1> USE DownloadAssumption DEF NONE, DOWNLOADED, ENCRYPTED, VERIFIED, flags, trust
<1>1. /\ worker = "init"
      /\ UNCHANGED <<dir, x, e, xfer, session_restart, download_postponed, old_campaign_id,
                     reply_id, ca, server, report, faults>>
  BY DEF InitRecord
<1>2. DownloadTypeOK /\ (IsRecord(rec) => rec \in RecordType /\ RecordSound(rec))
  BY DEF DownloadInv, DownloadTypeOK, OnDisk, IsRecord
<1>3. CASE ~dir
  <2>1. dlc' = None /\ worker' = "idle" /\ ret' = "ERR" /\ UNCHANGED rec
    BY <1>3 DEF InitRecord, Return
  <2>2. DownloadTypeOK' /\ OnDisk'
    BY <1>1, <2>1 DEF DownloadInv, DownloadTypeOK, OnDisk
  <2> QED BY <2>1, <2>2, IdleAfter
<1>4. CASE dir
  <2>1. /\ rec' = RecAfterInit /\ dlc' = [rec |-> Resumed, stop |-> FALSE]
        /\ worker' = "cut" /\ UNCHANGED ret
    BY <1>4 DEF InitRecord
  <2>2. InRange' /\ AtCut' /\ Filed' /\ Verified' /\ DownloadedIntact'
    BY <2>1 DEF InRange, AtCut, Filed, Verified, DownloadedIntact
  <2>3. dlc'.rec = Resumed
    BY <2>1
  <2>4. CASE Resumable
    <3> DEFINE r == DropLast(rec)
    <3>1. /\ rec \in RecordType /\ IsRecord(rec) /\ RecordSound(rec) /\ rec.last \in 1 .. Length
          /\ Begun(rec.last_crc32, rec.e_tag, rec.last)
          /\ x # None /\ x \in Seq(Blocks) /\ rec.last <= Len(x)
          /\ Prefix(x, rec.last) = rec.last_crc32
      BY <2>4, ResumeRecord
    <3>2. /\ r \in RecordType /\ RecordSound(r) /\ r.bytes = rec.last /\ r.last = rec.last
          /\ r.crc32 = rec.last_crc32 /\ r.last_crc32 = rec.last_crc32
          /\ r.e_tag = rec.e_tag /\ r.step = rec.step
      BY <3>1, DropLastFields, DropLastSound
    <3>3. rec' = r
      BY <2>1, <3>1 DEF RecAfterInit
    <3> DEFINE s == Resumed
    <3>4. s = [r EXCEPT !.step = IF @ > DOWNLOADED THEN DOWNLOADED ELSE @]
      BY <2>4 DEF Resumed
    <3> HIDE DEF r, s
    <3>5. /\ s \in RecordType /\ s.bytes = rec.last /\ s.last = rec.last
          /\ s.crc32 = rec.last_crc32 /\ s.last_crc32 = rec.last_crc32
          /\ s.e_tag = rec.e_tag /\ (s.step = NONE <=> rec.step = NONE)
      BY <3>2, <3>4 DEF RecordType
    <3>6. RecordSound(s)
      BY <3>1, <3>5 DEF RecordSound
    <3>7. dlc'.rec = s /\ dlc' \in [rec : RecordType, stop : BOOLEAN]
      BY <2>1, <3>5 DEF s
    <3>8. DownloadTypeOK'
      BY <1>1, <1>2, <2>1, <3>2, <3>3, <3>7 DEF DownloadTypeOK
    <3>9. OnDisk' /\ InMemory'
      BY <1>1, <2>1, <1>4, <3>2, <3>3, <3>6, <3>7 DEF OnDisk, InMemory
    <3>10. Covered' /\ Found'
      BY <1>1, <2>1, <3>1, <3>2, <3>3, <3>5, <3>7 DEF Covered, Found, RecordSound
    <3>11. Resumes'
      <4>1. DropLast(rec') = rec'
        BY <3>2, <3>3 DEF DropLast, RecordType
      <4> QED BY <1>1, <3>1, <3>2, <3>3, <3>5, <3>7, <4>1 DEF Resumes, CrcOK
    <3> QED BY <2>2, <3>8, <3>9, <3>10, <3>11 DEF DownloadInv
  <2>5. CASE ~Resumable
    <3>1. dlc'.rec = InitRec
      BY <2>3, <2>5 DEF Resumed
    <3>2. dlc' \in [rec : RecordType, stop : BOOLEAN]
      BY <2>1, <2>5, InitRecFields DEF Resumed
    <3>3. rec' \in RecordType /\ RecordSound(rec')
      BY <2>1, <1>2, InitRecFields, DropLastSound DEF RecAfterInit
    <3>4. DownloadTypeOK'
      BY <1>1, <1>2, <2>1, <3>2, <3>3 DEF DownloadTypeOK
    <3>5. OnDisk' /\ InMemory'
      BY <1>1, <1>4, <2>1, <3>1, <3>2, <3>3, InitRecFields DEF OnDisk, InMemory
    <3>6. Covered' /\ Found'
      BY <2>1, <3>1, InitRecFields, BegunEmpty DEF Covered, Found
    <3>7. Resumes'
      BY <3>1, InitRecFields DEF Resumes
    <3> QED BY <2>2, <3>4, <3>5, <3>6, <3>7 DEF DownloadInv
  <2> QED BY <2>4, <2>5
<1> QED BY <1>3, <1>4

\* The end of ua_dl_init: the .x file is what the record covers.
LEMMA InitPackageStep ==
  ASSUME DownloadInv, InitPackage
  PROVE  DownloadInv'
<1> USE DownloadAssumption DEF flags
<1> DEFINE n == dlc.rec.bytes
<1>1. /\ worker = "cut" /\ x' = Cut(x, n) /\ reply_id' = TRUE
      /\ worker' = (IF dlc.rec.step = NONE THEN "connect" ELSE "copy")
      /\ UNCHANGED <<dir, rec, e, dlc, xfer, session_restart, download_postponed, old_campaign_id,
                     ca, server, report, ret, faults>>
  BY DEF InitPackage
<1>2. /\ DownloadTypeOK /\ dlc \in [rec : RecordType, stop : BOOLEAN] /\ dlc.rec \in RecordType
      /\ RecordSound(dlc.rec)
  BY <1>1 DEF DownloadInv, InMemory
<1>3. n \in 0 .. Length
  BY <1>2, RecordFields
<1>4. /\ Begun(dlc.rec.crc32, dlc.rec.e_tag, n)
      /\ dir /\ n > 0 => x # None /\ n <= Len(x) /\ Prefix(x, n) = dlc.rec.crc32
      /\ dlc.rec.step # NONE => n = Length
  BY <1>1 DEF DownloadInv, Covered, Found
<1>5. ~dir => x = None
  BY DEF DownloadInv, OnDisk
<1>6. IF dir /\ n > 0 THEN x' = dlc.rec.crc32 /\ x' # None ELSE x' = None
  <2>1. n > 0 => dlc.rec.crc32 # None
    BY <1>3, <1>4, BegunSome
  <2> QED BY <1>1, <1>3, <1>4, <1>5, <2>1 DEF Cut
<1>7. DownloadTypeOK'
  <2>1. x' = None \/ x' \in Seq(Blocks)
    BY <1>4, <1>6 DEF Begun
  <2>2. reply_id' \in BOOLEAN
    BY <1>1
  <2> QED BY <1>1, <1>2, <2>1, <2>2 DEF DownloadTypeOK
<1>8. OnDisk' /\ InMemory' /\ Covered' /\ Found'
  BY <1>1, <1>2, <1>4, <1>6 DEF DownloadInv, OnDisk, InMemory, Covered, Found
<1>9. InRange' /\ AtCut' /\ Verified'
  BY <1>1 DEF InRange, AtCut, Verified
<1>10. Filed'
  BY <1>1, <1>3, <1>6 DEF Filed
<1>11. Resumes'
  <2> SUFFICES ASSUME dir, IsRecord(rec), n > 1
               PROVE  rec.last + 1 >= n /\ x' # None /\ CrcOK(DropLast(rec), x')
    BY <1>1 DEF Resumes, CrcOK, DropLast, IsRecord
  <2>1. rec.last + 1 >= n /\ x # None /\ CrcOK(DropLast(rec), x)
    BY <1>1 DEF DownloadInv, Resumes
  <2>2. rec.last = n /\ rec.last_crc32 = dlc.rec.crc32
    BY <1>1, <1>3 DEF DownloadInv, Found
  <2>3. x' = dlc.rec.crc32 /\ x' # None /\ x' \in Seq(Blocks) /\ Len(x') = n
    BY <1>4, <1>6 DEF Begun
  <2>4. Prefix(x', n) = x'
    BY <2>3, PrefixWhole
  <2>5. rec \in RecordType
    BY <1>2 DEF DownloadTypeOK, IsRecord
  <2>6. DropLast(rec).bytes = n /\ DropLast(rec).crc32 = dlc.rec.crc32
    BY <2>2, <2>5, DropLastFields
  <2> QED BY <1>3, <2>1, <2>3, <2>4, <2>6 DEF CrcOK
<1>12. DownloadedIntact'
  BY <1>1, <1>4, <1>6, BegunWhole
<1> QED BY <1>7, <1>8, <1>9, <1>10, <1>11, <1>12 DEF DownloadInv

-----------------------------------------------------------------------------
\* The state of a transfer, as its steps use it.
LEMMA TransferState ==
  ASSUME DownloadInv, worker \in {"cut", "connect", "recv", "offset", "record", "failed"}
  PROVE  /\ DownloadTypeOK /\ dlc \in [rec : RecordType, stop : BOOLEAN]
         /\ dlc.rec \in RecordType /\ RecordSound(dlc.rec)
         /\ dlc.rec.bytes \in 0 .. Length /\ dlc.rec.last \in 0 .. Length
         /\ worker \in {"recv", "offset", "record"} =>
              /\ xfer \in XferType
              /\ xfer.asked \in 0 .. Length /\ xfer.offset \in 0 .. Length
              /\ xfer.next \in 1 .. Length + 1 /\ xfer.content \in Tags
BY RecordFields, XferFields DEF DownloadInv, InMemory, InRange, AtCut

\* dmclient_download begins: where the server starts, and with which content.
LEMMA ConnectStep ==
  ASSUME DownloadInv, NEW offset \in 0 .. Length, Connect(offset)
  PROVE  DownloadInv'
<1> USE DownloadAssumption DEF disk, flags, trust
<1> DEFINE r == dlc.rec
<1>1. /\ worker = "connect" /\ worker' = "recv"
      /\ xfer' = [asked |-> r.bytes, offset |-> offset, next |-> offset + 1, content |-> server]
      /\ UNCHANGED <<dir, rec, x, e, dlc, session_restart, download_postponed, old_campaign_id,
                     reply_id, ca, server, report, ret>>
  BY DEF Connect
<1>2. /\ r.e_tag \notin {None, ETag(server)} => offset = 0
      /\ offset # r.bytes => offset < r.bytes \/ offset = 0
  BY DEF Connect
<1>3. faults' \in 0 .. MaxFaults
  BY DEF Connect, Fault, DownloadInv, DownloadTypeOK
<1>4. /\ DownloadTypeOK /\ r \in RecordType /\ r.bytes \in 0 .. Length /\ server \in Tags
      /\ Begun(r.crc32, r.e_tag, r.bytes)
  BY <1>1, TransferState DEF DownloadInv, Covered, DownloadTypeOK
<1>5. /\ xfer' \in XferType
      /\ xfer'.asked = r.bytes /\ xfer'.offset = offset /\ xfer'.next = offset + 1
      /\ xfer'.content = server
  BY <1>1, <1>4 DEF XferType
<1>6. DownloadTypeOK'
  BY <1>1, <1>3, <1>4, <1>5 DEF DownloadTypeOK
<1>7. OnDisk' /\ InMemory' /\ Covered' /\ Found' /\ AtCut'
  BY <1>1 DEF DownloadInv, OnDisk, InMemory, Covered, Found, AtCut
<1>8. InRange'
  <2>1. offset > 0 \/ r.bytes = 0 => Begun(r.crc32, server, r.bytes)
    <3>1. CASE r.bytes = 0
      BY <1>4, <3>1 DEF Begun
    <3>2. CASE offset > 0
      BY <1>2, <1>4, <3>2, BegunServed
    <3> QED BY <3>1, <3>2
  <2>2. offset # r.bytes => offset < r.bytes
    BY <1>2, <1>4
  <2> QED BY <1>1, <1>4, <1>5, <2>1, <2>2 DEF InRange
<1>9. Filed' /\ Resumes'
  BY <1>1 DEF DownloadInv, Filed, Resumes, CrcOK
<1>10. Verified' /\ DownloadedIntact'
  BY <1>1 DEF Verified, DownloadedIntact
<1> QED BY <1>6, <1>7, <1>8, <1>9, <1>10 DEF DownloadInv

\* dmc_recv_cb notices the offset: file and memory start again there.
LEMMA RecvOffsetStep ==
  ASSUME DownloadInv, RecvOffset
  PROVE  DownloadInv'
<1> USE DownloadAssumption DEF flags, trust
<1> DEFINE o == xfer.offset
           d == dlc.rec
           r == AtOffset(d, o)
<1>1. /\ worker = "recv" /\ o # xfer.asked /\ x' = (IF x = None THEN None ELSE Prefix(x, o))
      /\ dlc' = [dlc EXCEPT !.rec = AtOffset(@, o)] /\ worker' = "offset"
      /\ xfer' = [xfer EXCEPT !.asked = o]
      /\ UNCHANGED <<dir, rec, e, session_restart, download_postponed, old_campaign_id,
                     reply_id, ca, server, report, ret, faults>>
  BY DEF RecvOffset
<1>2. /\ DownloadTypeOK /\ dlc \in [rec : RecordType, stop : BOOLEAN] /\ d \in RecordType
      /\ xfer \in XferType /\ o \in 0 .. Length /\ d.bytes \in 0 .. Length
  BY <1>1, TransferState
<1>3. d.step = NONE /\ Begun(d.crc32, d.e_tag, d.bytes)
  BY <1>1 DEF DownloadInv, Covered
<1>4. /\ xfer.asked = d.bytes /\ xfer.next = o + 1 /\ o < d.bytes
      /\ o > 0 => Begun(d.crc32, xfer.content, d.bytes)
  BY <1>1, <1>2 DEF DownloadInv, InRange
<1>5. (dir => x # None /\ x = d.crc32) /\ (~dir => x = None)
  BY <1>1, <1>2, <1>4 DEF DownloadInv, Filed, OnDisk
<1>6. o \in 0 .. d.bytes
  BY <1>2, <1>4
<1>7. Begun(Prefix(d.crc32, o), d.e_tag, o)
  BY <1>2, <1>3, <1>6, PrefixBegun
<1>8. o > 0 => Begun(Prefix(d.crc32, o), xfer.content, o)
  BY <1>2, <1>4, <1>6, PrefixBegun
<1>9. /\ r \in RecordType /\ r.bytes = o /\ r.last = o /\ r.crc32 = <<>> /\ r.last_crc32 = <<>>
      /\ r.e_tag = d.e_tag /\ r.step = NONE
  <2>1. <<>> \in Seq(Blocks)
    OBVIOUS
  <2> QED BY <1>2, <1>3, <2>1 DEF AtOffset, RecordType
<1>10. RecordSound(r)
  BY <1>9 DEF RecordSound
<1>11. dlc' \in [rec : RecordType, stop : BOOLEAN] /\ dlc'.rec = r
  <2>1. dlc' = [dlc EXCEPT !.rec = r]
    BY <1>1
  <2> HIDE DEF r
  <2> QED BY <1>2, <1>9, <2>1
<1> HIDE DEF r
<1>12. /\ xfer' \in XferType
       /\ xfer'.asked = o /\ xfer'.offset = o /\ xfer'.next = xfer.next /\ xfer'.content = xfer.content
  BY <1>1, <1>2 DEF XferType
<1>13. /\ x' = None \/ x' \in Seq(Blocks)
       /\ dir => x' = Prefix(d.crc32, o)
       /\ ~dir => x' = None
  BY <1>1, <1>5, <1>7 DEF Begun
<1>14. dir /\ o > 0 => x' # None
  BY <1>2, <1>7, <1>13, BegunSome
<1>15. DownloadTypeOK'
  BY <1>1, <1>2, <1>11, <1>12, <1>13 DEF DownloadTypeOK
<1>16. OnDisk' /\ InMemory' /\ Covered' /\ Found'
  BY <1>1, <1>9, <1>10, <1>11, <1>13 DEF DownloadInv, OnDisk, InMemory, Covered, Found
<1>17. AtCut'
  BY <1>1, <1>4, <1>7, <1>8, <1>9, <1>11, <1>12, <1>13, <1>14 DEF AtCut
<1>18. InRange' /\ Filed' /\ Resumes' /\ Verified' /\ DownloadedIntact'
  BY <1>1 DEF InRange, Filed, Resumes, Verified, DownloadedIntact
<1> QED BY <1>15, <1>16, <1>17, <1>18 DEF DownloadInv

\* dmc_recv_cb computes the checksum of what is left and saves the record.
LEMMA RecvOffsetRecordStep ==
  ASSUME DownloadInv, RecvOffsetRecord
  PROVE  DownloadInv'
<1> USE DownloadAssumption DEF flags, trust
<1> DEFINE o == xfer.offset
           d == dlc.rec
           ok == x # None /\ o > 0
           crc == IF ok THEN x ELSE <<>>
           r == [d EXCEPT !.crc32 = crc, !.last_crc32 = crc]
<1>1. /\ worker = "offset" /\ dlc' = [dlc EXCEPT !.rec = r] /\ rec' = Save(r)
      /\ worker' = (IF ok THEN "recv" ELSE "failed")
      /\ UNCHANGED <<dir, x, e, xfer, session_restart, download_postponed, old_campaign_id,
                     reply_id, ca, server, report, ret, faults>>
  BY DEF RecvOffsetRecord
<1>2. /\ DownloadTypeOK /\ dlc \in [rec : RecordType, stop : BOOLEAN] /\ d \in RecordType
      /\ xfer \in XferType /\ o \in 0 .. Length
  BY <1>1, TransferState
<1>3. /\ xfer.asked = o /\ xfer.next = o + 1 /\ d.bytes = o /\ d.last = o /\ d.step = NONE
      /\ dir /\ o > 0 => x # None /\ Begun(x, xfer.content, o) /\ Begun(x, d.e_tag, o)
  BY <1>1 DEF DownloadInv, AtCut, Covered
<1>4. ~dir => x = None
  BY DEF DownloadInv, OnDisk
<1>5. /\ ok <=> dir /\ o > 0
      /\ ok => crc = x /\ Begun(crc, xfer.content, o) /\ Begun(crc, d.e_tag, o)
      /\ ~ok => crc = <<>>
  BY <1>3, <1>4
<1>6. crc \in Seq(Blocks)
  BY <1>5 DEF Begun
<1> HIDE DEF crc, ok
<1>7. /\ r \in RecordType /\ r.bytes = o /\ r.last = o /\ r.crc32 = crc /\ r.last_crc32 = crc
      /\ r.e_tag = d.e_tag /\ r.step = NONE
  BY <1>2, <1>3, <1>6 DEF RecordType
<1>8. RecordSound(r)
  BY <1>5, <1>7 DEF RecordSound
<1> HIDE DEF r
<1>9. dlc' \in [rec : RecordType, stop : BOOLEAN] /\ dlc'.rec = r
  BY <1>1, <1>2, <1>7
<1>10. IF dir THEN rec' = r ELSE rec' = None
  BY <1>1 DEF Save
<1>11. DownloadTypeOK'
  BY <1>1, <1>2, <1>7, <1>9, <1>10 DEF DownloadTypeOK
<1>12. OnDisk' /\ InMemory'
  BY <1>1, <1>4, <1>8, <1>9, <1>10 DEF OnDisk, InMemory, IsRecord
<1>13. Covered' /\ Found' /\ AtCut'
  BY <1>1, <1>5, <1>7, <1>9 DEF Covered, Found, AtCut
<1>14. InRange' /\ Filed'
  BY <1>1, <1>2, <1>3, <1>5, <1>7, <1>9 DEF InRange, Filed
<1>15. Resumes'
  <2> SUFFICES ASSUME dir, dlc'.rec.bytes > 1
               PROVE  rec'.last + 1 >= dlc'.rec.bytes /\ x' # None /\ CrcOK(DropLast(rec'), x')
    BY <1>1 DEF Resumes, CrcOK, DropLast
  <2>1. ok /\ o > 1 /\ rec' = r /\ x' = crc /\ x' # None /\ crc \in Seq(Blocks) /\ Len(crc) = o
    BY <1>1, <1>2, <1>3, <1>5, <1>7, <1>9, <1>10 DEF Begun
  <2>2. DropLast(r).bytes = o /\ DropLast(r).crc32 = crc
    BY <1>7, DropLastFields
  <2>3. Prefix(crc, o) = crc
    BY <2>1, PrefixWhole
  <2> QED BY <1>2, <1>7, <1>9, <2>1, <2>2, <2>3 DEF CrcOK
<1>16. Verified' /\ DownloadedIntact'
  BY <1>1 DEF Verified, DownloadedIntact
<1> QED BY <1>11, <1>12, <1>13, <1>14, <1>15, <1>16 DEF DownloadInv

\* ua_dl_save_data: the block goes to the end of the .x file, whole, in part or not.
LEMMA RecvDataStep ==
  ASSUME DownloadInv, RecvData
  PROVE  DownloadInv'
<1> USE DownloadAssumption DEF flags, trust
<1> DEFINE old == IF x = None THEN <<>> ELSE x
           b == <<xfer.content, xfer.next>>
<1>1. /\ worker = "recv" /\ xfer.offset = xfer.asked /\ xfer.next <= Length
      /\ UNCHANGED <<dir, rec, e, dlc, xfer, session_restart, download_postponed, old_campaign_id,
                     reply_id, ca, server, report, ret>>
  BY DEF RecvData
<1>2. \/ dir /\ x' = Append(old, b) /\ worker' = "record" /\ UNCHANGED faults
      \/ dir /\ x' = Append(old, TornBlock) /\ worker' = "failed" /\ Fault("disk")
      \/ ~dir /\ worker' = "failed" /\ UNCHANGED <<x, faults>>
  BY DEF RecvData
<1>3. /\ DownloadTypeOK /\ dlc.rec \in RecordType /\ dlc.rec.bytes \in 0 .. Length
      /\ xfer.next \in 1 .. Length + 1 /\ xfer.content \in Tags
  BY <1>1, TransferState
<1>4. /\ dlc.rec.bytes = xfer.next - 1
      /\ Begun(dlc.rec.crc32, xfer.content, dlc.rec.bytes)
  BY <1>1 DEF DownloadInv, InRange
<1>5. dir => old = dlc.rec.crc32 /\ old \in Seq(Blocks)
  <2>1. dlc.rec.crc32 \in Seq(Blocks) /\ Len(dlc.rec.crc32) = dlc.rec.bytes
    BY <1>4 DEF Begun
  <2>2. CASE dlc.rec.bytes = 0
    BY <1>1, <2>1, <2>2 DEF DownloadInv, Filed
  <2>3. CASE dlc.rec.bytes > 0
    BY <1>1, <2>1, <2>3 DEF DownloadInv, Filed
  <2> QED BY <1>3, <2>2, <2>3
<1>6. b \in Blocks /\ TornBlock \in Blocks
  BY <1>1, <1>3 DEF Blocks
<1>7. dir /\ x # None => x = old
  OBVIOUS
<1> HIDE DEF old
<1>8. dir => Append(old, b) \in Seq(Blocks) /\ Append(old, b) # None
  <2>1. dlc.rec.bytes + 1 = xfer.next /\ dlc.rec.bytes + 1 <= Length
    BY <1>1, <1>3, <1>4
  <2>2. Begun(Append(dlc.rec.crc32, b), xfer.content, xfer.next) /\ Append(dlc.rec.crc32, b) # None
    BY <1>3, <1>4, <2>1, BegunAppend
  <2> QED BY <1>5, <2>2 DEF Begun
<1>9. dir => Append(old, TornBlock) \in Seq(Blocks)
  BY <1>5, <1>6, AppendProperties
<1>10. faults' \in 0 .. MaxFaults
  BY <1>2, <1>3 DEF Fault, DownloadTypeOK
<1>11. x' = None \/ x' \in Seq(Blocks)
  BY <1>2, <1>3, <1>8, <1>9 DEF DownloadTypeOK
<1>12. DownloadTypeOK'
  BY <1>1, <1>2, <1>3, <1>10, <1>11 DEF DownloadTypeOK
<1>13. OnDisk' /\ InMemory'
  BY <1>1, <1>2 DEF DownloadInv, OnDisk, InMemory
<1>14. Covered' /\ Found' /\ InRange' /\ AtCut'
  BY <1>1, <1>2 DEF DownloadInv, Covered, Found, InRange, AtCut
<1>15. Filed'
  BY <1>1, <1>2, <1>5, <1>8 DEF Filed
<1>16. Resumes'
  <2> SUFFICES ASSUME dir, IsRecord(rec), dlc.rec.bytes > 1
               PROVE  rec.last + 1 >= dlc.rec.bytes /\ x' # None /\ CrcOK(DropLast(rec), x')
    BY <1>1 DEF Resumes, CrcOK, DropLast, IsRecord
  <2>1. rec.last + 1 >= dlc.rec.bytes /\ x # None /\ CrcOK(DropLast(rec), x)
    BY <1>1 DEF DownloadInv, Resumes
  <2>2. rec \in RecordType /\ DropLast(rec).bytes = rec.last /\ rec.last \in 0 .. Length
    BY <1>3, DropLastFields, RecordFields DEF DownloadTypeOK, IsRecord
  <2>3. old \in Seq(Blocks) /\ x = old
    BY <1>5, <1>7, <2>1
  <2>4. ASSUME NEW k \in Blocks, x' = Append(old, k) PROVE CrcOK(DropLast(rec), x')
    BY <2>1, <2>2, <2>3, <2>4, PrefixAppend DEF CrcOK
  <2>5. x' # None
    BY <1>2, <1>8, <1>9, NoneAssumption
  <2> QED BY <1>2, <1>6, <2>1, <2>4, <2>5
<1>17. Verified' /\ DownloadedIntact'
  BY <1>1, <1>2 DEF Verified, DownloadedIntact
<1> QED BY <1>12, <1>13, <1>14, <1>15, <1>16, <1>17 DEF DownloadInv

\* The rest of dmc_recv_cb: the record covers the block as well.
LEMMA RecvRecordStep ==
  ASSUME DownloadInv, RecvRecord
  PROVE  DownloadInv'
<1> USE DownloadAssumption DEF flags, trust
<1> DEFINE d == dlc.rec
           c == xfer.content
           new == Append(d.crc32, <<c, xfer.next>>)
           r == [d EXCEPT !.last = d.bytes, !.bytes = d.bytes + 1, !.last_crc32 = d.crc32,
                          !.crc32 = new, !.e_tag = ETag(c)]
<1>1. /\ worker = "record" /\ dlc' = [dlc EXCEPT !.rec = r] /\ rec' = Save(r)
      /\ xfer' = [xfer EXCEPT !.next = xfer.next + 1]
      /\ worker' = IF download_postponed THEN "failed" ELSE "recv"
      /\ UNCHANGED <<dir, x, e, session_restart, download_postponed, old_campaign_id,
                     reply_id, ca, server, ret, faults>>
  BY DEF RecvRecord
<1>2. report' \in {report, "progress"}
  BY DEF RecvRecord
<1>3. /\ DownloadTypeOK /\ dlc \in [rec : RecordType, stop : BOOLEAN] /\ d \in RecordType
      /\ xfer \in XferType
      /\ xfer.next \in 1 .. Length + 1 /\ c \in Tags /\ d.bytes \in 0 .. Length
  BY <1>1, TransferState
<1>4. /\ xfer.offset = xfer.asked /\ xfer.next <= Length /\ d.bytes + 1 = xfer.next
      /\ Begun(d.crc32, c, d.bytes)
  BY <1>1, <1>3 DEF DownloadInv, InRange
<1>5. d.step = NONE
  BY <1>1 DEF DownloadInv, Covered
<1>6. Begun(new, c, xfer.next) /\ new # None
  <2>1. d.bytes + 1 <= Length
    BY <1>4
  <2>2. /\ Begun(Append(d.crc32, <<c, d.bytes + 1>>), c, d.bytes + 1)
        /\ Append(d.crc32, <<c, d.bytes + 1>>) # None
    BY <1>3, <1>4, <2>1, BegunAppend
  <2> QED BY <1>4, <2>2
<1>7. /\ Begun(d.crc32, ETag(c), d.bytes)
      /\ Begun(new, ETag(c), xfer.next)
  <2>1. xfer.next \in 0 .. Length
    BY <1>3, <1>4
  <2> QED BY <1>3, <1>4, <1>6, <2>1, BegunTagged
<1>8. ETag(c) \in Tags \cup {None}
  BY <1>3 DEF ETag
<1>9. dir => x # None /\ x = new
  BY <1>1 DEF DownloadInv, Filed
<1>10. /\ new \in Seq(Blocks) /\ Len(new) = xfer.next /\ d.crc32 \in Seq(Blocks)
       /\ Len(d.crc32) = d.bytes
  BY <1>4, <1>6 DEF Begun
<1>11. Prefix(new, d.bytes) = d.crc32
  <2>1. <<c, xfer.next>> \in Blocks
    BY <1>3, <1>4 DEF Blocks
  <2>2. Prefix(new, d.bytes) = Prefix(d.crc32, d.bytes)
    BY <1>3, <1>10, <2>1, PrefixAppend
  <2> QED BY <1>10, <2>2, PrefixWhole
<1> HIDE DEF new
<1>12. /\ r \in RecordType /\ r.bytes = xfer.next /\ r.last = d.bytes
       /\ r.crc32 = new /\ r.last_crc32 = d.crc32
       /\ r.e_tag = ETag(c) /\ r.step = NONE
  <2>1. d.bytes + 1 \in 0 .. Length
    BY <1>3, <1>4
  <2> QED BY <1>3, <1>4, <1>5, <1>8, <1>10, <2>1 DEF RecordType
<1>13. RecordSound(r)
  BY <1>7, <1>12 DEF RecordSound
<1> HIDE DEF r
<1>14. dlc' \in [rec : RecordType, stop : BOOLEAN] /\ dlc'.rec = r
  BY <1>1, <1>3, <1>12
<1>15. /\ xfer' \in XferType
       /\ xfer'.asked = xfer.asked /\ xfer'.offset = xfer.offset /\ xfer'.next = xfer.next + 1
       /\ xfer'.content = c
  BY <1>1, <1>3, <1>4 DEF XferType
<1>16. IF dir THEN rec' = r ELSE rec' = None
  BY <1>1 DEF Save
<1>17. DownloadTypeOK'
  BY <1>1, <1>2, <1>3, <1>12, <1>14, <1>15, <1>16 DEF DownloadTypeOK
<1>18. OnDisk' /\ InMemory'
  BY <1>1, <1>13, <1>14, <1>16 DEF DownloadInv, OnDisk, InMemory, IsRecord
<1>19. Covered' /\ Found' /\ AtCut'
  BY <1>1, <1>7, <1>12, <1>14 DEF Covered, Found, AtCut
<1>20. InRange'
  BY <1>1, <1>3, <1>4, <1>6, <1>12, <1>14, <1>15 DEF InRange
<1>21. Filed'
  BY <1>1, <1>3, <1>9, <1>12, <1>14 DEF Filed
<1>22. Resumes'
  <2> SUFFICES ASSUME dir, dlc'.rec.bytes > 1
               PROVE  rec'.last + 1 >= dlc'.rec.bytes /\ x' # None /\ CrcOK(DropLast(rec'), x')
    BY <1>1 DEF Resumes, CrcOK, DropLast
  <2>1. rec' = r /\ x' = new /\ x' # None
    BY <1>1, <1>9, <1>16
  <2>2. DropLast(r).bytes = d.bytes /\ DropLast(r).crc32 = d.crc32
    BY <1>12, DropLastFields
  <2>3. d.bytes > 0 /\ d.bytes <= Len(new) /\ r.last + 1 >= r.bytes
    BY <1>3, <1>4, <1>10, <1>12, <1>14
  <2> QED BY <1>11, <1>14, <2>1, <2>2, <2>3 DEF CrcOK
<1>23. Verified' /\ DownloadedIntact'
  BY <1>1 DEF Verified, DownloadedIntact
<1> QED BY <1>17, <1>18, <1>19, <1>20, <1>21, <1>22, <1>23 DEF DownloadInv

\* dmclient_download gives up.
LEMMA TransferErrorStep ==
  ASSUME DownloadInv, TransferError
  PROVE  DownloadInv'
<1> USE DownloadAssumption DEF disk, flags, trust
<1>1. /\ worker \in {"connect", "recv"} /\ worker' = "failed" /\ report' \in {report, "error"}
      /\ UNCHANGED <<dir, rec, x, e, dlc, xfer, session_restart, download_postponed, old_campaign_id,
                     reply_id, ca, server, ret>>
  BY DEF TransferError
<1>2. faults' \in 0 .. MaxFaults
  BY DEF TransferError, Fault, DownloadInv, DownloadTypeOK
<1>3. DownloadTypeOK'
  BY <1>1, <1>2 DEF DownloadInv, DownloadTypeOK
<1>4. OnDisk' /\ InMemory' /\ Covered' /\ Found' /\ InRange' /\ AtCut' /\ Filed'
  BY <1>1 DEF DownloadInv, OnDisk, InMemory, Covered, Found, InRange, AtCut, Filed
<1>5. Resumes'
  BY <1>1 DEF DownloadInv, Resumes, CrcOK
<1>6. Verified' /\ DownloadedIntact'
  BY <1>1 DEF Verified, DownloadedIntact
<1> QED BY <1>3, <1>4, <1>5, <1>6 DEF DownloadInv

\* The successful end of ua_dl_step_download: the file is the whole content.
LEMMA StepDownloadedStep ==
  ASSUME DownloadInv, StepDownloaded
  PROVE  DownloadInv'
<1> USE DownloadAssumption DEF flags, trust
<1> DEFINE d == dlc.rec
           r == [d EXCEPT !.last = d.bytes, !.last_crc32 = d.crc32, !.step = DOWNLOADED]
<1>1. /\ worker = "recv" /\ xfer.offset = xfer.asked /\ xfer.next > Length
      /\ rec' = Save(r) /\ session_restart' = FALSE /\ xfer' = None
      /\ UNCHANGED <<dir, x, e, download_postponed, old_campaign_id, reply_id, ca, server, report, faults>>
  BY DEF StepDownloaded
<1>2. /\ DownloadTypeOK /\ dlc \in [rec : RecordType, stop : BOOLEAN] /\ d \in RecordType
      /\ xfer.next \in 1 .. Length + 1 /\ d.bytes \in 0 .. Length
  BY <1>1, TransferState
<1>3. d.bytes = Length /\ Begun(d.crc32, d.e_tag, Length)
  BY <1>1, <1>2 DEF DownloadInv, InRange, Covered
<1>4. /\ r \in RecordType /\ r.last = Length /\ r.last_crc32 = d.crc32
      /\ r.e_tag = d.e_tag /\ r.step = DOWNLOADED
  BY <1>2, <1>3 DEF RecordType
<1>5. RecordSound(r)
  BY <1>3, <1>4 DEF RecordSound
<1> HIDE DEF r
<1>6. IF dir THEN rec' = r ELSE rec' = None
  BY <1>1 DEF Save
<1>7. OnDisk'
  BY <1>1, <1>5, <1>6 DEF DownloadInv, OnDisk, IsRecord
<1>8. CASE dir
  <2>1. dlc' = [dlc EXCEPT !.rec = r] /\ worker' = "copy" /\ UNCHANGED ret
    BY <1>8 DEF StepDownloaded, r
  <2>2. dlc' \in [rec : RecordType, stop : BOOLEAN] /\ dlc'.rec = r
    BY <1>2, <1>4, <2>1
  <2>3. DownloadTypeOK'
    BY <1>1, <1>2, <1>4, <1>6, <1>8, <2>1, <2>2 DEF DownloadTypeOK
  <2>4. InMemory' /\ Covered' /\ Found' /\ InRange' /\ AtCut' /\ Filed' /\ Resumes' /\ Verified'
    BY <1>4, <1>5, <2>1, <2>2
    DEF InMemory, Covered, Found, InRange, AtCut, Filed, Resumes, Verified, NONE, DOWNLOADED
  <2>5. x' = d.crc32
    BY <1>1, <1>3, <1>8 DEF DownloadInv, Filed
  <2>6. DownloadedIntact'
    BY <1>3, <2>5, BegunWhole
  <2> QED BY <1>7, <2>3, <2>4, <2>6 DEF DownloadInv
<1>9. CASE ~dir
  <2>1. dlc' = None /\ worker' = "idle" /\ ret' = "ERR"
    BY <1>9 DEF StepDownloaded, Return
  <2>2. DownloadTypeOK'
    BY <1>1, <1>2, <1>6, <1>9, <2>1 DEF DownloadTypeOK
  <2> QED BY <1>7, <2>1, <2>2, IdleAfter
<1> QED BY <1>8, <1>9

\* Its failure: the saved record is a sound one.
LEMMA StepDownloadFailedStep ==
  ASSUME DownloadInv, StepDownloadFailed
  PROVE  DownloadInv'
<1> USE DownloadAssumption DEF flags, trust
<1> DEFINE r == DropLast(dlc.rec)
<1>1. /\ worker = "failed" /\ rec' = Save(r)
      /\ e' = (IF e = None THEN e ELSE [e EXCEPT !.data = Truncate(@, r.bytes)])
      /\ session_restart' = TRUE /\ xfer' = None /\ dlc' = None /\ worker' = "idle" /\ ret' = "ERR"
      /\ UNCHANGED <<dir, x, download_postponed, old_campaign_id, reply_id, ca, server, report, faults>>
  BY DEF StepDownloadFailed, Return
<1>2. DownloadTypeOK /\ dlc.rec \in RecordType /\ RecordSound(dlc.rec)
  BY <1>1, TransferState
<1>3. r \in RecordType /\ RecordSound(r) /\ r.bytes \in 0 .. Length
  BY <1>2, DropLastSound, RecordFields
<1> HIDE DEF r
<1>4. e' = None \/ e' \in [data : Seq(Blocks), plain : BOOLEAN]
  <2>1. CASE e = None
    BY <1>1, <2>1
  <2>2. CASE e # None
    <3>1. e \in [data : Seq(Blocks), plain : BOOLEAN] /\ e.data \in Seq(Blocks)
      BY <1>2, <2>2 DEF DownloadTypeOK
    <3>2. TornBlock \in Blocks
      BY DEF Blocks
    <3>3. \A i \in 1 .. Len(e.data) : e.data[i] \in Blocks
      BY <3>1
    <3>4. Truncate(e.data, r.bytes) \in [1 .. r.bytes -> Blocks]
      BY <1>3, <3>1, <3>2, <3>3 DEF Truncate
    <3>5. Truncate(e.data, r.bytes) \in Seq(Blocks)
      BY <1>3, <3>4, IsASeq
    <3>6. e' = [e EXCEPT !.data = Truncate(e.data, r.bytes)]
      BY <1>1, <2>2, <3>1
    <3> QED BY <3>1, <3>5, <3>6
  <2> QED BY <2>1, <2>2
<1>5. IF dir THEN rec' = r ELSE rec' = None
  BY <1>1 DEF Save
<1>6. DownloadTypeOK'
  BY <1>1, <1>2, <1>3, <1>4, <1>5 DEF DownloadTypeOK
<1>7. OnDisk'
  BY <1>1, <1>3, <1>5 DEF DownloadInv, OnDisk, IsRecord
<1> QED BY <1>1, <1>6, <1>7, IdleAfter

-----------------------------------------------------------------------------
\* What holds from the copy on.
LEMMA AfterTransfer ==
  ASSUME DownloadInv, worker \in {"copy", "decrypt", "verify", "verified", "rejected", "done"}
  PROVE  /\ DownloadTypeOK /\ dlc \in [rec : RecordType, stop : BOOLEAN]
         /\ dlc.rec \in RecordType /\ RecordSound(dlc.rec) /\ dlc.rec.step # NONE
BY DEF DownloadInv, InMemory

\* A record that only moves on to a later step stays sound.
LEMMA NextStepSound ==
  ASSUME NEW r \in RecordType, RecordSound(r), r.step # NONE, NEW s \in {ENCRYPTED, VERIFIED}
  PROVE  /\ [r EXCEPT !.step = s] \in RecordType /\ RecordSound([r EXCEPT !.step = s])
         /\ [r EXCEPT !.step = s].step # NONE
<1> DEFINE q == [r EXCEPT !.step = s]
<1>1. /\ q \in RecordType /\ q.last = r.last /\ q.last_crc32 = r.last_crc32 /\ q.e_tag = r.e_tag
      /\ q.step = s
  BY DEF RecordType
<1>2. s # NONE
  BY DEF NONE, ENCRYPTED, VERIFIED
<1> HIDE DEF q
<1>3. RecordSound(q)
  BY <1>1 DEF RecordSound
<1> QED BY <1>1, <1>2, <1>3 DEF q

\* The steps from "copy" on leave the conditions on a transfer alone.
LEMMA PastTransfer ==
  ASSUME DownloadTypeOK', OnDisk', InMemory', Verified',
         worker' \in {"decrypt", "verify", "verified", "rejected", "done"}
  PROVE  DownloadInv'
BY DEF DownloadInv, Covered, Found, InRange, AtCut, Filed, Resumes, DownloadedIntact

\* f_copy.
LEMMA CopyPackageStep ==
  ASSUME DownloadInv, CopyPackage
  PROVE  DownloadInv'
<1> USE DownloadAssumption DEF flags, trust
<1>1. /\ worker = "copy"
      /\ UNCHANGED <<dir, rec, x, xfer, session_restart, download_postponed, old_campaign_id,
                     reply_id, ca, server, report>>
  BY DEF CopyPackage
<1>2. /\ DownloadTypeOK /\ dlc \in [rec : RecordType, stop : BOOLEAN]
      /\ RecordSound(dlc.rec) /\ dlc.rec.step # NONE
  BY <1>1, AfterTransfer
<1>3. OnDisk'
  BY <1>1 DEF DownloadInv, OnDisk
<1>4. faults' \in 0 .. MaxFaults
  BY <1>2 DEF CopyPackage, Fault, DownloadTypeOK
<1>5. e' = None \/ e' \in [data : Seq(Blocks), plain : BOOLEAN]
  <2>1. <<>> \in Seq(Blocks) /\ (x # None => x \in Seq(Blocks))
    BY <1>2 DEF DownloadTypeOK
  <2>2. \/ x # None /\ e' = [data |-> x, plain |-> FALSE]
        \/ e' = [data |-> <<>>, plain |-> FALSE]
        \/ UNCHANGED e
    BY DEF CopyPackage
  <2>3. CASE x # None /\ e' = [data |-> x, plain |-> FALSE]
    BY <2>1, <2>3
  <2>4. CASE e' = [data |-> <<>>, plain |-> FALSE]
    BY <2>1, <2>4
  <2>5. CASE UNCHANGED e
    BY <1>2, <2>5 DEF DownloadTypeOK
  <2> QED BY <2>2, <2>3, <2>4, <2>5
<1>6. \/ worker' = "decrypt" /\ UNCHANGED <<dlc, ret>>
      \/ dlc' = None /\ worker' = "idle" /\ ret' = "ERR"
  BY DEF CopyPackage, Return
<1>7. DownloadTypeOK'
  BY <1>1, <1>2, <1>4, <1>5, <1>6 DEF DownloadTypeOK
<1>8. CASE worker' = "decrypt" /\ UNCHANGED <<dlc, ret>>
  <2>1. InMemory' /\ Verified'
    BY <1>2, <1>8 DEF InMemory, Verified
  <2> QED BY <1>3, <1>7, <1>8, <2>1, PastTransfer
<1>9. CASE worker' = "idle"
  BY <1>3, <1>7, <1>9, IdleAfter
<1> QED BY <1>6, <1>8, <1>9

\* ua_dl_step_encrypt decrypts the .e file.
LEMMA DecryptStep ==
  ASSUME DownloadInv, Decrypt
  PROVE  DownloadInv'
<1> USE DownloadAssumption DEF flags, trust
<1> DEFINE r == [dlc.rec EXCEPT !.step = ENCRYPTED]
<1>1. /\ worker = "decrypt" /\ e # None /\ e' = [e EXCEPT !.plain = TRUE]
      /\ dlc' = [dlc EXCEPT !.rec = r] /\ rec' = Save(r) /\ worker' = "verify"
      /\ UNCHANGED <<dir, x, xfer, session_restart, download_postponed, old_campaign_id,
                     reply_id, ca, server, report, ret, faults>>
  BY DEF Decrypt
<1>2. /\ DownloadTypeOK /\ dlc \in [rec : RecordType, stop : BOOLEAN] /\ dlc.rec \in RecordType
      /\ RecordSound(dlc.rec) /\ dlc.rec.step # NONE
  BY <1>1, AfterTransfer
<1>3. r \in RecordType /\ RecordSound(r) /\ r.step # NONE
  BY <1>2, NextStepSound
<1> HIDE DEF r
<1>4. dlc' \in [rec : RecordType, stop : BOOLEAN] /\ dlc'.rec = r
  BY <1>1, <1>2, <1>3
<1>5. IF dir THEN rec' = r ELSE rec' = None
  BY <1>1 DEF Save
<1>6. e' \in [data : Seq(Blocks), plain : BOOLEAN]
  BY <1>1, <1>2 DEF DownloadTypeOK
<1>7. DownloadTypeOK'
  BY <1>1, <1>2, <1>3, <1>4, <1>5, <1>6 DEF DownloadTypeOK
<1>8. OnDisk' /\ InMemory' /\ Verified'
  BY <1>1, <1>3, <1>4, <1>5 DEF DownloadInv, OnDisk, InMemory, Verified, IsRecord
<1> QED BY <1>1, <1>7, <1>8, PastTransfer

\* Decryption fails, or finds no file.
LEMMA DecryptFailedStep ==
  ASSUME DownloadInv, DecryptFailed
  PROVE  DownloadInv'
<1> USE DownloadAssumption DEF flags, trust
<1>1. /\ worker = "decrypt" /\ e' = None /\ report' = "error"
      /\ dlc' = None /\ worker' = "idle" /\ ret' = "ERR"
      /\ UNCHANGED <<dir, rec, x, xfer, session_restart, download_postponed, old_campaign_id,
                     reply_id, ca, server>>
  BY DEF DecryptFailed, Return, Report
<1>2. faults' \in 0 .. MaxFaults
  BY DEF DecryptFailed, Fault, DownloadInv, DownloadTypeOK
<1>3. DownloadTypeOK'
  BY <1>1, <1>2 DEF DownloadInv, DownloadTypeOK
<1>4. OnDisk'
  BY <1>1 DEF DownloadInv, OnDisk
<1> QED BY <1>1, <1>3, <1>4, IdleAfter

\* dmclient_verify_binary accepts only an intact package.
LEMMA VerifyStep ==
  ASSUME DownloadInv, Verify
  PROVE  DownloadInv'
<1> USE DownloadAssumption DEF flags, trust
<1> DEFINE r == [dlc.rec EXCEPT !.step = VERIFIED]
<1>1. /\ worker = "verify"
      /\ UNCHANGED <<dir, x, e, xfer, session_restart, download_postponed, old_campaign_id,
                     reply_id, ca, server, report, ret, faults>>
  BY DEF Verify
<1>2. /\ DownloadTypeOK /\ dlc \in [rec : RecordType, stop : BOOLEAN] /\ dlc.rec \in RecordType
      /\ RecordSound(dlc.rec) /\ dlc.rec.step # NONE
  BY <1>1, AfterTransfer
<1>3. CASE VerifyBinary
  <2>1. dlc' = [dlc EXCEPT !.rec = r] /\ rec' = Save(r) /\ worker' = "verified"
    BY <1>3 DEF Verify
  <2>2. r \in RecordType /\ RecordSound(r) /\ r.step # NONE
    BY <1>2, NextStepSound
  <2> HIDE DEF r
  <2>3. dlc' \in [rec : RecordType, stop : BOOLEAN] /\ dlc'.rec = r
    BY <1>2, <2>1, <2>2
  <2>4. IF dir THEN rec' = r ELSE rec' = None
    BY <2>1 DEF Save
  <2>5. DownloadTypeOK'
    BY <1>1, <1>2, <2>1, <2>2, <2>3, <2>4 DEF DownloadTypeOK
  <2>6. OnDisk' /\ InMemory'
    BY <1>1, <2>2, <2>3, <2>4 DEF DownloadInv, OnDisk, InMemory, IsRecord
  <2>7. Verified'
    BY <1>1, <1>3 DEF Verified, VerifyBinary, Intact, Content
  <2> QED BY <2>1, <2>5, <2>6, <2>7, PastTransfer
<1>4. CASE ~VerifyBinary
  <2>1. worker' = "rejected" /\ UNCHANGED <<dlc, rec>>
    BY <1>4 DEF Verify
  <2>2. DownloadTypeOK'
    BY <1>1, <1>2, <2>1 DEF DownloadTypeOK
  <2>3. OnDisk' /\ InMemory' /\ Verified'
    BY <1>1, <1>2, <2>1 DEF DownloadInv, OnDisk, InMemory, Verified
  <2> QED BY <2>1, <2>2, <2>3, PastTransfer
<1> QED BY <1>3, <1>4

\* ua_dl_step_verify removes what is not needed any more, or everything.
LEMMA VerifyRemoveStep ==
  ASSUME DownloadInv, VerifyRemove
  PROVE  DownloadInv'
<1> USE DownloadAssumption DEF flags, trust
<1>1. worker \in {"verified", "rejected"}
  BY DEF VerifyRemove
<1>2. /\ DownloadTypeOK /\ dlc \in [rec : RecordType, stop : BOOLEAN]
      /\ RecordSound(dlc.rec) /\ dlc.rec.step # NONE
  BY <1>1, AfterTransfer
<1>3. CASE worker = "verified"
  <2>1. /\ x' = None /\ worker' = "done"
        /\ UNCHANGED <<dir, rec, e, dlc, xfer, session_restart, download_postponed, old_campaign_id,
                       reply_id, ca, server, report, ret, faults>>
    BY <1>3 DEF VerifyRemove
  <2>2. DownloadTypeOK'
    BY <1>2, <2>1 DEF DownloadTypeOK
  <2>3. OnDisk' /\ InMemory'
    BY <1>2, <2>1 DEF DownloadInv, OnDisk, InMemory
  <2>4. Verified'
    BY <1>3, <2>1 DEF DownloadInv, Verified, Intact, Content
  <2> QED BY <2>1, <2>2, <2>3, <2>4, PastTransfer
<1>4. CASE worker = "rejected"
  <2>1. /\ report' = "error" /\ x' = None /\ e' = None
        /\ dlc' = None /\ worker' = "idle" /\ ret' = "ERR"
        /\ UNCHANGED <<dir, rec, xfer, session_restart, download_postponed, old_campaign_id,
                       reply_id, ca, server, faults>>
    BY <1>4 DEF VerifyRemove, Report, Return
  <2>2. DownloadTypeOK'
    BY <1>2, <2>1 DEF DownloadTypeOK
  <2>3. OnDisk'
    BY <2>1 DEF DownloadInv, OnDisk
  <2> QED BY <2>1, <2>2, <2>3, IdleAfter
<1> QED BY <1>1, <1>3, <1>4

\* The completed report is repeated until the flag, then the worker returns.
LEMMA DoneStep ==
  ASSUME DownloadInv, StepDone \/ StepStopped
  PROVE  DownloadInv'
<1> USE DownloadAssumption DEF disk, flags, trust
<1>1. CASE StepDone
  <2>1. /\ worker = "done" /\ report' = "completed"
        /\ UNCHANGED <<dir, rec, x, e, dlc, worker, xfer, session_restart, download_postponed,
                       old_campaign_id, reply_id, ca, server, ret, faults>>
    BY <1>1 DEF StepDone, Report
  <2>2. DownloadTypeOK' /\ dlc \in [rec : RecordType, stop : BOOLEAN]
    BY <2>1, AfterTransfer DEF DownloadTypeOK
  <2> QED BY <2>1, <2>2, BesideDownload
<1>2. CASE StepStopped
  <2>1. /\ dlc' = None /\ worker' = "idle" /\ ret' = "OK"
        /\ UNCHANGED <<dir, rec, x, e, xfer, session_restart, download_postponed,
                       old_campaign_id, reply_id, ca, server, report, faults>>
    BY <1>2 DEF StepStopped, Return
  <2>2. DownloadTypeOK' /\ OnDisk'
    BY <2>1 DEF DownloadInv, DownloadTypeOK, OnDisk
  <2> QED BY <2>1, <2>2, IdleAfter
<1> QED BY <1>1, <1>2

-----------------------------------------------------------------------------
\* The messages that the runner executes meanwhile, and new content on the server.
LEMMA RunnerStep ==
  ASSUME DownloadInv,
         QueryTrust \/ DownloadPostponed \/ StopCompletedStatus \/ \E t \in Tags : NewContent(t)
  PROVE  DownloadInv'
<1> USE DownloadAssumption DEF disk, flags, trust
<1>1. DownloadTypeOK /\ (worker \notin {"idle", "init"} => dlc \in [rec : RecordType, stop : BOOLEAN])
  BY DEF DownloadInv, InMemory
<1>2. CASE QueryTrust
  <2>1. /\ reply_id' = FALSE /\ ca' = [file |-> StoreTrustKey, loaded |-> ca.loaded \/ StoreTrustKey]
        /\ UNCHANGED <<dir, rec, x, e, dlc, worker, xfer, session_restart, download_postponed,
                       old_campaign_id, server, report, ret, faults>>
    BY <1>2 DEF QueryTrust
  <2>2. ca' \in [file : BOOLEAN, loaded : BOOLEAN]
    BY <1>1, <2>1 DEF StoreTrustKey, DownloadTypeOK
  <2>3. DownloadTypeOK'
    <3>1. reply_id' \in BOOLEAN
      BY <2>1
    <3> QED BY <1>1, <2>1, <2>2, <3>1 DEF DownloadTypeOK
  <2> QED BY <1>1, <2>1, <2>3, BesideDownload
<1>3. CASE DownloadPostponed
  <2>1. /\ download_postponed' = TRUE
        /\ UNCHANGED <<dir, rec, x, e, dlc, worker, xfer, session_restart,
                       old_campaign_id, reply_id, ca, server, report, ret>>
    BY <1>3 DEF DownloadPostponed
  <2>2. faults' \in 0 .. MaxFaults
    BY <1>1, <1>3 DEF DownloadPostponed, Fault, DownloadTypeOK
  <2>3. DownloadTypeOK'
    BY <1>1, <2>1, <2>2 DEF DownloadTypeOK
  <2> QED BY <1>1, <2>1, <2>3, BesideDownload
<1>4. CASE StopCompletedStatus
  <2>1. /\ dlc # None /\ dlc' = [dlc EXCEPT !.stop = TRUE]
        /\ UNCHANGED <<dir, rec, x, e, worker, xfer, session_restart, download_postponed,
                       old_campaign_id, reply_id, ca, server, report, ret, faults>>
    BY <1>4 DEF StopCompletedStatus, HasContext
  <2>2. dlc' \in [rec : RecordType, stop : BOOLEAN] /\ dlc'.rec = dlc.rec
    BY <1>1, <2>1 DEF DownloadTypeOK
  <2>3. DownloadTypeOK'
    BY <1>1, <2>1, <2>2 DEF DownloadTypeOK
  <2> QED BY <2>1, <2>2, <2>3, BesideDownload
<1>5. CASE \E t \in Tags : NewContent(t)
  <2>1. /\ server' \in Tags
        /\ UNCHANGED <<dir, rec, x, e, dlc, worker, xfer, session_restart, download_postponed,
                       old_campaign_id, reply_id, ca, report, ret>>
    BY <1>5 DEF NewContent
  <2>2. faults' \in 0 .. MaxFaults
    BY <1>1, <1>5 DEF NewContent, Fault, DownloadTypeOK
  <2>3. DownloadTypeOK'
    BY <1>1, <2>1, <2>2 DEF DownloadTypeOK
  <2> QED BY <1>1, <2>1, <2>3, BesideDownload
<1> QED BY <1>2, <1>3, <1>4, <1>5

\* process_sota_report removes the directory under the download.
LEMMA RemoveDirectoryStep ==
  ASSUME DownloadInv, RemoveDirectory
  PROVE  DownloadInv'
<1> USE DownloadAssumption DEF flags, trust
<1>1. /\ dir' = FALSE /\ rec' = None /\ x' = None /\ e' = None
      /\ UNCHANGED <<dlc, worker, xfer, session_restart, download_postponed, old_campaign_id,
                     reply_id, ca, server, report, ret>>
  BY DEF RemoveDirectory
<1>2. faults' \in 0 .. MaxFaults
  BY DEF RemoveDirectory, Fault, DownloadInv, DownloadTypeOK
<1>3. DownloadTypeOK'
  <2>1. dir' \in BOOLEAN /\ rec' \in {None, Torn}
    BY <1>1
  <2> QED BY <1>1, <1>2, <2>1 DEF DownloadInv, DownloadTypeOK
<1>4. OnDisk' /\ InMemory'
  BY <1>1 DEF DownloadInv, OnDisk, InMemory, IsRecord
<1>5. Covered' /\ Found' /\ InRange' /\ AtCut'
  BY <1>1 DEF DownloadInv, Covered, Found, InRange, AtCut
<1>6. Filed' /\ Resumes' /\ Verified' /\ DownloadedIntact'
  BY <1>1 DEF Filed, Resumes, Verified, DownloadedIntact
<1> QED BY <1>3, <1>4, <1>5, <1>6 DEF DownloadInv

\* A crash leaves the disk, whose record may be torn.
LEMMA CrashStep ==
  ASSUME DownloadInv, Crash
  PROVE  DownloadInv'
<1> USE DownloadAssumption DEF flags, trust
<1>1. /\ rec' \in {rec, Torn} /\ dlc' = None /\ worker' = "idle" /\ xfer' = None
      /\ session_restart' = FALSE /\ download_postponed' = FALSE /\ old_campaign_id' = 0
      /\ reply_id' = FALSE /\ ca' = [ca EXCEPT !.loaded = FALSE] /\ ret' = None
      /\ UNCHANGED <<dir, x, e, server, report>>
  BY DEF Crash
<1>2. faults' \in 0 .. MaxFaults
  BY DEF Crash, Fault, DownloadInv, DownloadTypeOK
<1>3. ca' \in [file : BOOLEAN, loaded : BOOLEAN]
  BY <1>1 DEF DownloadInv, DownloadTypeOK
<1>4. DownloadTypeOK'
  BY <1>1, <1>2, <1>3 DEF DownloadInv, DownloadTypeOK
<1>5. OnDisk'
  BY <1>1 DEF DownloadInv, OnDisk, IsRecord
<1> QED BY <1>1, <1>4, <1>5, IdleAfter

-----------------------------------------------------------------------------
\* Every step keeps the invariant.
LEMMA DownloadStep ==
  ASSUME DownloadInv, DownloadNext
  PROVE  DownloadInv'
<1>1. CASE Start
  BY <1>1, StartStep DEF Start
<1>2. CASE Worker
  BY <1>2, InitRecordStep, InitPackageStep, ConnectStep, RecvOffsetStep, RecvOffsetRecordStep, RecvDataStep, RecvRecordStep, TransferErrorStep,
     StepDownloadedStep, StepDownloadFailedStep, CopyPackageStep, DecryptStep, DecryptFailedStep,
     VerifyStep, VerifyRemoveStep, DoneStep DEF Worker
<1>3. CASE QueryTrust \/ DownloadPostponed \/ StopCompletedStatus \/ \E t \in Tags : NewContent(t)
  BY <1>3, RunnerStep
<1>4. CASE RemoveDirectory
  BY <1>4, RemoveDirectoryStep
<1>5. CASE Crash
  BY <1>5, CrashStep
<1> QED BY <1>1, <1>2, <1>3, <1>4, <1>5 DEF DownloadNext

\* The invariant of the download.
THEOREM DownloadInvariant == DownloadSpec => []DownloadInv
<1>1. DownloadInit => DownloadInv
  BY DownloadStart
<1>2. DownloadInv /\ [DownloadNext]_vars => DownloadInv'
  BY DownloadStep, DownloadStutter
<1> QED BY <1>1, <1>2, PTL DEF DownloadSpec

\* ua_dl_record_t and ua_dl_context_t keep their types: dmc_recv_cb never records more
\* blocks than the package has, whatever was resumed, cut or repeated.
THEOREM DownloadTypes == DownloadSpec => []DownloadTypeOK
  BY DownloadInvariant, PTL DEF DownloadInv

\* ua_dl_step_download hands on a package with every block once and in its place, of one
\* content of the server unless the download began without an e-tag: no sequence of
\* crashes, failed writes, cut ranges and replaced contents makes ua_dl_init and
\* dmc_recv_cb double, skip or mix blocks.
THEOREM DownloadIsIntact == DownloadSpec => []DownloadedIntact
  BY DownloadInvariant, PTL DEF DownloadInv

\* ua_dl_step_done reports a package that is decrypted and verified, as long as its
\* directory was not removed under it.
THEOREM ReportIsIntact == DownloadSpec => []CompletedIntact
<1>1. DownloadInv => CompletedIntact
  BY DEF DownloadInv, Verified, CompletedIntact
<1> QED BY <1>1, DownloadInvariant, PTL

\* dmc_recv_cb and ua_dl_init: a crash in a transfer costs at most the last recorded
\* block, unless it comes while the record file is being rewritten or between the cut of
\* the .x file at a new offset and the save of its record.
THEOREM ProgressIsKept == DownloadSpec => []KeepsProgress
<1>1. ASSUME DownloadInv PROVE KeepsProgress
  <2> SUFFICES ASSUME worker \in {"cut", "connect", "recv", "record", "failed"}, dir, IsRecord(rec)
               PROVE  Resumed.bytes + 1 >= dlc.rec.bytes
    BY DEF KeepsProgress
  <2>1. dlc.rec.bytes \in 0 .. Length /\ DownloadTypeOK
    BY <1>1, TransferState
  <2>2. rec \in RecordType
    BY <2>1 DEF DownloadTypeOK, IsRecord
  <2>3. Resumed.bytes \in Nat /\ (Resumable => Resumed.bytes = rec.last)
    <3>1. CASE Resumable
      <4>1. DropLast(rec).bytes = rec.last /\ rec.last \in 0 .. Length /\ DropLast(rec) \in RecordType
        BY <2>2, DropLastFields, RecordFields
      <4> QED BY <3>1, <4>1, DownloadAssumption DEF Resumed, RecordType
    <3>2. CASE ~Resumable
      BY <3>2, InitRecFields DEF Resumed
    <3> QED BY <3>1, <3>2
  <2>4. CASE dlc.rec.bytes > 1
    <3>1. rec.last + 1 >= dlc.rec.bytes /\ x # None /\ CrcOK(DropLast(rec), x)
      BY <1>1, <2>4 DEF DownloadInv, Resumes
    <3>2. Resumable
      BY <3>1 DEF Resumable
    <3> QED BY <2>3, <3>1, <3>2
  <2>5. CASE ~(dlc.rec.bytes > 1)
    BY <2>1, <2>3, <2>5
  <2> QED BY <2>4, <2>5
<1> QED BY <1>1, DownloadInvariant, PTL
=============================================================================
