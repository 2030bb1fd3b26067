------------------------------- MODULE Delta -------------------------------
(***************************************************************************)
(* Delta packages: delta_init, which collects the tools, and what          *)
(* prepare_install_action does with a package that holds only differences. *)
(* patch_delta looks up the backup of the installed version and            *)
(* delta_reconstruct builds the full package from both, in three           *)
(* directories under cache/delta and one under cache/art, with a shell     *)
(* command or, in the other build, a library call for every file.  Two     *)
(* components may prepare at the same time, each on its worker thread.     *)
(* The process may be killed anywhere; what it left on disk is met by the  *)
(* next reconstruction.  A hash is the content it was taken of.            *)
(***************************************************************************)
EXTENDS Espatch, FiniteSets

CONSTANTS
  None,
  Jobs,              \* per worker, what may arrive: a package and the backup it applies to
  Configs,           \* delta_cfg_t of the application
  Commands,          \* sets of shell commands that is_cmd_runnable may find
  MaxCrashes,        \* bound on process restarts
  MaxPrepares,       \* bound on prepare-updates
  ConcurrentShell,   \* components prepare at the same time although zip changes the directory
  SilentFailures     \* failures happen that the code does not look at and nothing notices later

\* A manifest of differences is a list of file nodes.
ASSUME JobAssumption ==
  \A w \in Workers : \A j \in Jobs[w] :
    j.kind = "delta" /\ "manifest_diff.xml" \in DOMAIN j.diff
      => LET m == j.diff["manifest_diff.xml"] IN Len(m) \in Nat /\ DOMAIN m = 1..Len(m)

ASSUME BoundsAssumption == MaxCrashes \in Nat /\ MaxPrepares \in Nat
ASSUME WorkersAssumption == None \notin Workers

VARIABLES
  pc, job,
  shell,             \* the build runs shell commands (not SHELL_COMMAND_DISABLE)
  patch_tool, decomp_tool, delta_cap,   \* delta_stg
  list, k,           \* per worker, the list of diff_info_t and how many have been handled
  err,               \* per worker, err of delta_reconstruct
  oldDir, diffDir, newDir, artDir,      \* per worker, the directories: name -> content
  newPkg,            \* per worker, the file newPkgFile
  cwd, wd,           \* the working directory of the process, and zip_zip's copy of it
  state, ue,         \* per worker, what prepare_install_action returns
  crashes, prepares  \* how many there have been

deltaStg == <<patch_tool, decomp_tool, delta_cap, shell>>
dirVars  == <<oldDir, diffDir, newDir, artDir>>
vars == <<pc, job, deltaStg, list, k, err, dirVars, newPkg, cwd, wd, state, ue, crashes, prepares, esp, faults>>

NoDir == <<>>     \* a directory that does not exist, or is empty

Steps == {"off", "idle", "prepare", "unzip_old", "unzip_diff", "parse", "entry", "unsquash",
          "apply", "espatch", "consume", "repackage", "manifest", "chdir", "zip", "libzip",
          "cleanup", "return"}

\* The file name of dir d, or NoFile.
File(d, n) == IF n \in DOMAIN d THEN d[n] ELSE NoFile
Put(d, n, c) == [m \in DOMAIN d \cup {n} |-> IF m = n THEN c ELSE d[m]]
Without(d, n) == [m \in DOMAIN d \ {n} |-> d[m]]

\* verify_file: the file is there and has the hash; a hash that was missing or of the wrong
\* length in the manifest is empty and matches nothing.
Verified(c, sha) == c # NoFile /\ sha # None /\ c = sha

Partial == [form |-> "partial", blocks |-> <<>>]

(***************************************************************************)
(* delta_init.  A tool enters the table if its command can be run and its  *)
(* arguments name each file once; a later tool replaces an earlier one for *)
(* the same algorithm.  A default tool that is missing is left out, a      *)
(* configured one is an error.                                             *)
(***************************************************************************)
Tool(a, p, i) == [algo |-> a, path |-> p, intl |-> i, args |-> TRUE]

deflt_patch_tools == IF shell THEN <<Tool("bsdiff", "bspatch", TRUE), Tool("rfc3284", "xdelta3", FALSE),
                                     Tool("esdiff", "espatch", TRUE)>>
                              ELSE <<Tool("esdiff", "espatch", TRUE)>>

deflt_decomp_tools == IF shell THEN <<Tool("gzip", "gzip", FALSE), Tool("bzip2", "bzip2", FALSE),
                                      Tool("xz", "xz", FALSE)>>
                               ELSE <<Tool("xz", "xz", FALSE)>>

\* is_cmd_runnable, which only the build with shell commands asks.
Runnable(t, runnable) == shell => t.path \in runnable

Usable(t, runnable) == t.args /\ Runnable(t, runnable)

\* add_delta_tool, given the defaults followed by the configured tools.
ToolTable(ts, runnable) ==
  LET good == {i \in DOMAIN ts : Usable(ts[i], runnable)}
  IN  [a \in {ts[i].algo : i \in good} |->
         ts[CHOOSE i \in good : ts[i].algo = a /\ \A j \in good : ts[j].algo = a => j <= i]]

\* Mutant: the capability lists what libua knows, not what is installed.
DeltaCapKnown(cap, pt, dt) ==
  [format |-> {"bsdiff", "rfc3284", "esdiff"}, compression |-> {"gzip", "bzip2", "xz"}]

\* get_deflt_delta_cap announces the algorithms that have a tool; get_config_delta_cap takes
\* the application's word for it.
DeltaCap(cap, pt, dt) ==
  IF cap # None THEN cap
  ELSE [format      |-> DOMAIN pt \cap {"bsdiff", "rfc3284", "esdiff"},
        compression |-> DOMAIN dt \cap {"gzip", "bzip2", "xz"}]

DeltaInit ==
  /\ \A w \in Workers : pc[w] = "off"
  /\ \E runnable \in Commands, c \in Configs :
       LET pt == ToolTable(deflt_patch_tools \o c.patch, runnable)
           dt == ToolTable(deflt_decomp_tools \o c.decomp, runnable)
       IN  IF \A i \in DOMAIN (c.patch \o c.decomp) : Usable((c.patch \o c.decomp)[i], runnable)
           THEN /\ patch_tool' = pt /\ decomp_tool' = dt
                /\ delta_cap' = DeltaCap(c.cap, pt, dt)
           ELSE patch_tool' = <<>> /\ decomp_tool' = <<>> /\ delta_cap' = None
  /\ pc' = [w \in Workers |-> "idle"]
  /\ UNCHANGED <<shell, job, list, k, err, dirVars, newPkg, cwd, wd, state, ue, crashes, prepares, esp, faults>>

(***************************************************************************)
(* parse_diff_manifest.  A file node is the sequence of its child          *)
(* elements.  The first value of an element counts; a nesting element is   *)
(* looked at for one kind of nesting only, in a fixed order.               *)
(***************************************************************************)
Kinds == <<"un-squash-fs", "squash-fs-uncompressed", "single-file-delta">>

NestingIs(c, i) == c.tag = "nesting" /\ Kinds[i] \in c.has /\ \A j \in 1..(i - 1) : Kinds[j] \notin c.has

FirstOf(node, Value(_)) ==
  LET is == {i \in DOMAIN node : Value(node[i]) # None}
  IN  IF is = {} THEN None ELSE Value(node[CHOOSE i \in is : \A j \in is : i <= j])

Text(tag, c) == IF c.tag = tag THEN c.val ELSE None

\* format and compression are read from their own element or from single-file-delta.
Method(tag, c) == IF NestingIs(c, 3) THEN c[tag] ELSE Text(tag, c)

\* mk-squash-fs-options are put together with a bound computed from the size of a pointer:
\* an option of four to seven characters is cut.  (A second un-squash-fs element with
\* options would be written through a freed pointer; it is not among the inputs.)
Options(c) == IF NestingIs(c, 1) THEN c.options ELSE None

DiffInfo(parent, node) ==
  [type        |-> parent,
   name        |-> FirstOf(node, LAMBDA c : Text("name", c)),
   old_name    |-> FirstOf(node, LAMBDA c : Text("oldName", c)),
   sha_old     |-> FirstOf(node, LAMBDA c : IF c.tag = "sha256" THEN c.old ELSE None),
   sha_new     |-> FirstOf(node, LAMBDA c : IF c.tag = "sha256" THEN c.new ELSE None),
   format      |-> FirstOf(node, LAMBDA c : Method("format", c)),
   compression |-> FirstOf(node, LAMBDA c : Method("compression", c)),
   options     |-> FirstOf(node, Options),
   squash      |-> \A i \in 1..3 : \E c \in DOMAIN node : NestingIs(node[c], i)]

Incomplete(di) ==
  di.name = None \/ (di.type = "changed" /\ (di.format = None \/ di.compression = None))

DiffList(manifest) == [i \in DOMAIN manifest |-> DiffInfo(manifest[i].parent, manifest[i].node)]

(***************************************************************************)
(* prepare_install_action up to delta_reconstruct.                         *)
(***************************************************************************)
Active(w) == pc[w] \notin {"off", "idle"}

\* Environment: without ConcurrentShell the DMC prepares one component at a time where
\* packages are zipped by a shell command.
MayPrepare(w) == shell /\ ~ConcurrentShell => \A v \in Workers : ~Active(v)

\* calc_sha256_x, whose value is the archive, fails if there is none.
Hashed(file) == file # NoFile

\* on_prepare_install decides.  A package that is ready is hashed for the manifest.
OnPrepareInstall(w, file) ==
  \E s \in {"READY", "FAILED"} :
    state' = [state EXCEPT ![w] = IF Hashed(file) THEN s ELSE "FAILED"]

\* is_delta_package, and not is_prepared_delta_package.
IsDelta(j) == j.kind = "delta"

Prepare(w) ==
  /\ pc[w] = "idle" /\ MayPrepare(w)
  /\ prepares < MaxPrepares /\ prepares' = prepares + 1
  /\ \E j \in Jobs[w] :
       /\ job' = [job EXCEPT ![w] = j]
       /\ ue' = [ue EXCEPT ![w] = None]
       /\ list' = [list EXCEPT ![w] = <<>>]
       /\ k' = [k EXCEPT ![w] = 0]
       /\ \/ \* on_transfer_file, verify_file_hash_b64 or on_get_version fails
             /\ Fault
             /\ state' = [state EXCEPT ![w] = "FAILED"]
             /\ err' = [err EXCEPT ![w] = "OK"]
             /\ UNCHANGED pc
          \/ /\ delta_cap = None \/ ~IsDelta(j)
             /\ OnPrepareInstall(w, j.diff)
             /\ err' = [err EXCEPT ![w] = "OK"]
             /\ UNCHANGED <<pc, faults>>
          \/ \* patch_delta needs the backup of the installed version
             /\ delta_cap # None /\ IsDelta(j)
             /\ state' = [state EXCEPT ![w] = "none"]
             /\ err' = [err EXCEPT ![w] = IF j.base = NoFile THEN "ERR" ELSE "OK"]
             /\ pc' = [pc EXCEPT ![w] = IF j.base = NoFile THEN "return" ELSE "prepare"]
             /\ UNCHANGED faults
  /\ UNCHANGED <<deltaStg, dirVars, newPkg, cwd, wd, crashes, esp>>

(***************************************************************************)
(* delta_reconstruct.  Each step moves one worker.                         *)
(***************************************************************************)
Goto(w, s) == pc' = [pc EXCEPT ![w] = s]
Fail(w, e) == err' = [err EXCEPT ![w] = e]
SetDir(d, w, c) == [d EXCEPT ![w] = c]
rmdirp(d, w)  == SetDir(d, w, NoDir)
Elsewhere == <<job, deltaStg, newPkg, cwd, wd, state, ue, crashes, prepares>>

\* rmdirp of directory d stops at a file that it cannot remove: some of the files stay.
Leftover(d) == {[n \in S |-> d[n]] : S \in SUBSET DOMAIN d \ {{}}}

\* rmdirp that fails, for n = 1, or does not.
RmDirP(d, d2, w, n) ==
  \/ n = 0 /\ d2 = rmdirp(d, w)
  \/ n = 1 /\ \E rest \in Leftover(d[w]) : d2 = SetDir(d, w, rest)

\* n faults in one step.
Failing(n) == faults + n <= MaxFaults /\ faults' = faults + n

\* What an earlier reconstruction left behind goes first; then the directories are made.  The
\* result of rmdirp is not looked at, and mkdirp is content with a directory that exists.
MakeDirs(w) ==
  /\ pc[w] = "prepare"
  /\ \E a, b, c \in 0..1, m \in 0..1 :
       /\ RmDirP(oldDir, oldDir', w, a)
       /\ RmDirP(diffDir, diffDir', w, b)
       /\ RmDirP(newDir, newDir', w, c) /\ (c = 1 => SilentFailures)
       /\ Failing(a + b + c + m)
       /\ IF m = 0 THEN Goto(w, "unzip_old") /\ UNCHANGED err
                   ELSE Goto(w, "cleanup") /\ Fail(w, "SYS")
  /\ UNCHANGED <<artDir, list, k, esp, Elsewhere>>

\* Files that are unpacked replace those of the same name and leave the others.
Overlay(d, files) ==
  [n \in DOMAIN d \cup DOMAIN files |-> IF n \in DOMAIN files THEN files[n] ELSE d[n]]

\* unzip: the command or, if it fails, libzip.  A command that is killed by a signal has
\* exit status 0 in WEXITSTATUS and passes for success, with some of the files missing.
Unzip(w, dir, dir2, files, here, next) ==
  /\ pc[w] = here
  /\ \/ dir2 = SetDir(dir, w, Overlay(dir[w], files)) /\ Goto(w, next) /\ UNCHANGED <<err, faults>>
     \/ /\ shell /\ Fault
        /\ \E lost \in SUBSET DOMAIN files \ {{}} :
             dir2 = SetDir(dir, w, Overlay(dir[w], [n \in DOMAIN files \ lost |-> files[n]]))
        /\ Goto(w, next) /\ UNCHANGED err
     \/ /\ Fault /\ dir2 = SetDir(dir, w, Overlay(dir[w], files))
        /\ Goto(w, "cleanup") /\ Fail(w, "ERR")

UnzipOld(w) ==
  /\ Unzip(w, oldDir, oldDir', job[w].base, "unzip_old", "unzip_diff")
  /\ UNCHANGED <<diffDir, newDir, artDir, list, k, esp, Elsewhere>>

UnzipDiff(w) ==
  /\ Unzip(w, diffDir, diffDir', job[w].diff, "unzip_diff", "parse")
  /\ UNCHANGED <<oldDir, newDir, artDir, list, k, esp, Elsewhere>>

\* parse_diff_manifest: one incomplete entry discards the list.
ParseDiffManifest(w) ==
  /\ pc[w] = "parse"
  /\ LET m == File(diffDir[w], "manifest_diff.xml")
     IN  IF m # NoFile /\ \A i \in DOMAIN m : ~Incomplete(DiffList(m)[i])
         THEN list' = [list EXCEPT ![w] = DiffList(m)] /\ Goto(w, "entry") /\ UNCHANGED err
         ELSE Fail(w, "ERR") /\ Goto(w, "cleanup") /\ UNCHANGED list
  /\ UNCHANGED <<dirVars, k, esp, faults, Elsewhere>>

Entry(w) == list[w][k[w] + 1]
OldName(di) == IF di.old_name # None THEN di.old_name ELSE di.name
OldFile(w) == LET di == Entry(w)
              IN  IF di.squash THEN File(artDir[w], OldName(di)) ELSE File(oldDir[w], OldName(di))
DiffFile(w) == File(diffDir[w], Entry(w).name)

\* After an error the rest of the list is only freed.
NextEntry(w) ==
  /\ pc[w] = "entry"
  /\ Goto(w, IF err[w] # "OK" THEN "cleanup"
             ELSE IF k[w] = Len(list[w]) THEN "manifest"
             ELSE IF Entry(w).squash THEN "unsquash" ELSE "apply")
  /\ UNCHANGED <<dirVars, list, k, err, esp, faults, Elsewhere>>

IsImage(c) == c # NoFile /\ c.form = "squash"

\* process_squashfs_image of the old file: an uncompressed image of it in cache/art.  A
\* failure does not stop the entry, which goes on, failed, without the file.  (What a failing
\* rmdirp leaves in cache/art is overwritten, or met by an entry that has failed.)
Unsquash(w) ==
  LET di == Entry(w)
      old == File(oldDir[w], OldName(di))
  IN  /\ pc[w] = "unsquash"
      /\ \/ /\ IsImage(old)
            /\ artDir' = SetDir(artDir, w, Put(NoDir, OldName(di), [old EXCEPT !.packed = FALSE]))
            /\ UNCHANGED <<err, faults>>
         \/ /\ ~IsImage(old)
            /\ artDir' = rmdirp(artDir, w) /\ Fail(w, "ERR") /\ UNCHANGED faults
         \/ /\ artDir' = rmdirp(artDir, w) /\ Fail(w, "ERR") /\ Fault
      /\ Goto(w, "apply")
      /\ UNCHANGED <<oldDir, diffDir, newDir, list, k, esp, Elsewhere>>

\* copy_file.  A write error found only when the file is closed is not returned.
CopyFile(from, out, ok) ==
  \/ from # NoFile /\ out = from /\ ok /\ UNCHANGED faults
  \/ from = NoFile /\ out = NoFile /\ ~ok /\ UNCHANGED faults
  \/ /\ out \in {NoFile, Partial} /\ Fault
     /\ ok => SilentFailures /\ from # NoFile /\ out = Partial

\* The new file of an entry is written, or not, and the entry has failed or not.
NewFile(w, out, ok) ==
  /\ newDir' = IF out = NoFile THEN newDir ELSE SetDir(newDir, w, Put(newDir[w], Entry(w).name, out))
  /\ IF ok THEN UNCHANGED err ELSE Fail(w, "ERR")
  /\ Goto(w, "consume")

Applying(w) == pc[w] = "apply" /\ UNCHANGED <<oldDir, diffDir, artDir, list, k, Elsewhere>>

ApplyCopy(w, type, file, sha) ==
  /\ Applying(w) /\ Entry(w).type = type
  /\ \/ /\ Verified(file, sha)
        /\ \E out \in {file, Partial, NoFile}, ok \in BOOLEAN : CopyFile(file, out, ok) /\ NewFile(w, out, ok)
     \/ /\ ~Verified(file, sha)
        /\ NewFile(w, NoFile, FALSE) /\ UNCHANGED faults
  /\ UNCHANGED esp

Added(w)     == ApplyCopy(w, "added", DiffFile(w), Entry(w).sha_new)
Unchanged(w) == ApplyCopy(w, "unchanged", OldFile(w), Entry(w).sha_old)

Removed(w) ==
  /\ Applying(w) /\ Entry(w).type = "removed"
  /\ NewFile(w, NoFile, TRUE) /\ UNCHANGED <<esp, faults>>

(***************************************************************************)
(* delta_patch, of a changed file.                                         *)
(***************************************************************************)
NeedsTool(di) == di.format # "none"
Decompress(di) ==
  /\ di.compression # "none"
  /\ ~(NeedsTool(di) /\ di.format \in DOMAIN patch_tool /\ patch_tool[di.format].intl)

\* Both tools are in the tables.
HasTools(di) ==
  /\ NeedsTool(di) => di.format \in DOMAIN patch_tool
  /\ Decompress(di) => di.compression \in DOMAIN decomp_tool

\* What the decompression command, or xzdec, makes of the file of differences; NoFile if it
\* reports a failure.
Decompressed(di, diff) ==
  IF ~Decompress(di) THEN diff
  ELSE IF diff # NoFile /\ diff.form = "packed"
          /\ diff.comp = (IF shell THEN di.compression ELSE "xz")
       THEN diff.of ELSE NoFile

\* A patch command applied to the file the patch was made from, or to something else.
PatchCommand(di, old, diff, out, ok) ==
  LET fits == old # NoFile /\ diff.form = di.format /\ diff.base = old
              /\ diff.pieces = Len(diff.image.blocks)
  IN  \/ fits /\ out = diff.image /\ ok /\ UNCHANGED faults
      \/ ~fits /\ out = Partial /\ UNCHANGED faults
      \/ out = Partial /\ ~ok /\ Fault

Changed(w) == Applying(w) /\ Entry(w).type = "changed"

\* The old file is not what the manifest says (an image that was unpacked is not looked at),
\* a tool is missing, or decompression fails.
PatchRefused(w) ==
  LET di == Entry(w)
      refused == \/ ~di.squash /\ ~Verified(OldFile(w), di.sha_old)
                 \/ ~HasTools(di)
                 \/ Decompress(di) /\ Decompressed(di, DiffFile(w)) = NoFile
  IN  /\ Changed(w)
      /\ \/ refused /\ UNCHANGED faults
         \/ Decompress(di) /\ Fault
      /\ NewFile(w, NoFile, FALSE) /\ UNCHANGED esp

PatchStarts(w) ==
  LET di == Entry(w)
  IN  /\ Changed(w)
      /\ di.squash \/ Verified(OldFile(w), di.sha_old)
      /\ HasTools(di)
      /\ Decompress(di) => Decompressed(di, DiffFile(w)) # NoFile

\* Mutant: the patch command's word is taken for it.
NewTrusted(di, out, ok) == ok

\* The new file is verified, unless it is an image that has yet to be packed.
NewVerified(di, out, ok) == ok /\ (di.squash \/ Verified(out, di.sha_new))

PatchByCommand(w) ==
  LET di == Entry(w)
      diff == Decompressed(di, DiffFile(w))
  IN  /\ PatchStarts(w) /\ NeedsTool(di) /\ shell
      /\ \/ /\ diff = NoFile
            /\ NewFile(w, NoFile, FALSE) /\ UNCHANGED faults
         \/ /\ diff # NoFile
            /\ \E out \in {Partial} \cup (IF diff.form = di.format THEN {diff.image} ELSE {}), ok \in BOOLEAN :
                 PatchCommand(di, OldFile(w), diff, out, ok) /\ NewFile(w, out, NewVerified(di, out, ok))
      /\ UNCHANGED esp

PatchByCopy(w) ==
  LET di == Entry(w)
      diff == Decompressed(di, DiffFile(w))
  IN  /\ PatchStarts(w) /\ ~NeedsTool(di)
      /\ \E out \in {diff, Partial, NoFile}, ok \in BOOLEAN :
           CopyFile(diff, out, ok) /\ NewFile(w, out, NewVerified(di, out, ok))
      /\ UNCHANGED esp

\* The call of espatch, and its return.
Blocks(c) == IF c = NoFile THEN NoFile ELSE c.blocks

PatchByEspatch(w) ==
  LET di == Entry(w)
      new == File(newDir[w], di.name)
  IN  /\ PatchStarts(w) /\ NeedsTool(di) /\ ~shell
      /\ EspOpen(w, Blocks(OldFile(w)), IF new = NoFile THEN <<>> ELSE new.blocks,
                 Decompressed(di, DiffFile(w)))
      /\ Goto(w, "espatch")
      /\ UNCHANGED <<newDir, err>>

EspatchRuns(w) ==
  /\ pc[w] = "espatch" /\ EspStep(w)
  /\ UNCHANGED <<pc, dirVars, list, k, err, Elsewhere>>

\* A file with the blocks of an image is that image.
Image(e) == IF e.patch = NoFile THEN NoFile
            ELSE IF e.patch.form = "esdiff" /\ e.new = e.patch.image.blocks THEN e.patch.image
            ELSE [form |-> "data", blocks |-> e.new]

\* Mutant: the context of the call outlives it.
EspatchReturnsOpen(w) ==
  LET out == Image(esp[w])
  IN  /\ pc[w] = "espatch" /\ esp[w].step = "returned" /\ ~esp[w].crash
      /\ NewFile(w, out, NewVerified(Entry(w), out, esp[w].ok))
      /\ UNCHANGED <<oldDir, diffDir, artDir, list, k, esp, faults, Elsewhere>>

EspatchReturns(w) ==
  LET out == Image(esp[w])
  IN  /\ pc[w] = "espatch" /\ esp[w].step = "returned" /\ ~esp[w].crash
      /\ NewFile(w, out, NewVerified(Entry(w), out, esp[w].ok))
      /\ esp' = [esp EXCEPT ![w] = EspOff]
      /\ UNCHANGED <<oldDir, diffDir, artDir, list, k, faults, Elsewhere>>

(***************************************************************************)
(* The end of an entry: the files it used are removed, so that another     *)
(* entry cannot use them; an image is packed again and verified.           *)
(***************************************************************************)
Consume(w) ==
  LET di == Entry(w)
  IN  /\ pc[w] = "consume"
      /\ IF di.squash
         THEN artDir' = SetDir(artDir, w, Without(artDir[w], OldName(di))) /\ UNCHANGED oldDir
         ELSE oldDir' = SetDir(oldDir, w, Without(oldDir[w], OldName(di))) /\ UNCHANGED artDir
      /\ diffDir' = SetDir(diffDir, w, Without(diffDir[w], di.name))
      /\ IF di.squash THEN Goto(w, "repackage") /\ UNCHANGED k
                      ELSE Goto(w, "entry") /\ k' = [k EXCEPT ![w] = @ + 1]
      /\ UNCHANGED <<newDir, list, err, esp, faults, Elsewhere>>

\* process_squashfs_image of the new file.  The result of copy_file is not looked at: the
\* verification that follows sees what is there.
Repackage(w) ==
  LET di == Entry(w)
      new == File(newDir[w], di.name)
      image == [new EXCEPT !.packed = (di.options = "kept")]
  IN  /\ pc[w] = "repackage"
      /\ \/ /\ IsImage(new) /\ di.options # None
            /\ \E out \in {image, Partial, NoFile}, ok \in BOOLEAN :
                 /\ CopyFile(image, out, ok)
                 /\ newDir' = SetDir(newDir, w, IF out = NoFile THEN Without(newDir[w], di.name)
                                                ELSE Put(newDir[w], di.name, out))
                 /\ IF Verified(out, di.sha_new) THEN UNCHANGED err ELSE Fail(w, "ERR")
         \/ /\ ~IsImage(new) \/ di.options = None
            /\ Fail(w, "ERR") /\ UNCHANGED <<newDir, faults>>
         \/ /\ Fail(w, "ERR") /\ Fault /\ UNCHANGED newDir
      /\ Goto(w, "entry") /\ k' = [k EXCEPT ![w] = @ + 1]
      /\ UNCHANGED <<oldDir, diffDir, artDir, list, esp, Elsewhere>>

(***************************************************************************)
(* The end of the list: manifest.xml comes from the differences, and the   *)
(* new directory is zipped.  What rmdirp leaves of the other two is met    *)
(* again by the clean-up.                                                  *)
(***************************************************************************)
CopyManifest(w) ==
  LET m == File(diffDir[w], "manifest.xml")
  IN  /\ pc[w] = "manifest"
      /\ oldDir' = rmdirp(oldDir, w)
      /\ \E out \in {m, Partial, NoFile}, ok \in BOOLEAN :
           /\ CopyFile(m, out, ok)
           /\ newDir' = IF out = NoFile THEN newDir
                        ELSE SetDir(newDir, w, Put(newDir[w], "manifest.xml", out))
           /\ IF ok THEN /\ diffDir' = rmdirp(diffDir, w)
                         /\ Goto(w, IF shell THEN "chdir" ELSE "libzip")
                         /\ UNCHANGED err
                    ELSE Fail(w, "ERR") /\ Goto(w, "cleanup") /\ UNCHANGED diffDir
      /\ UNCHANGED <<artDir, list, k, esp, Elsewhere>>

\* zip_zip: the command archives the working directory, which belongs to the process.
Chdir(w) ==
  /\ pc[w] = "chdir"
  /\ wd' = [wd EXCEPT ![w] = cwd]
  /\ cwd' = w
  /\ newPkg' = [newPkg EXCEPT ![w] = NoFile]
  /\ Goto(w, "zip")
  /\ UNCHANGED <<job, deltaStg, state, ue, crashes, prepares, dirVars, list, k, err, esp, faults>>

\* A command that fails is followed by libzip; one that is killed passes for success and
\* leaves no archive.
Zip(w) ==
  /\ pc[w] = "zip"
  /\ cwd' = wd[w]
  /\ \/ /\ newPkg' = [newPkg EXCEPT ![w] = IF cwd = None THEN NoFile ELSE newDir[cwd]]
        /\ Goto(w, "cleanup") /\ UNCHANGED faults
     \/ Fault /\ UNCHANGED newPkg /\ Goto(w, "cleanup")
     \/ Fault /\ UNCHANGED newPkg /\ Goto(w, "libzip")
  /\ UNCHANGED <<job, deltaStg, wd, state, ue, crashes, prepares, dirVars, list, k, err, esp>>

\* What libzip_archive_add_dir says of a directory in a directory is not looked at.
LibZip(w) ==
  /\ pc[w] = "libzip"
  /\ \/ /\ newPkg' = [newPkg EXCEPT ![w] = newDir[w]] /\ UNCHANGED <<err, faults>>
     \/ \E noticed \in {TRUE, ~SilentFailures}, lost \in SUBSET DOMAIN newDir[w] :
          /\ Fault
          /\ IF noticed THEN UNCHANGED newPkg
             ELSE newPkg' = [newPkg EXCEPT ![w] = [n \in DOMAIN newDir[w] \ lost |-> newDir[w][n]]]
          /\ IF noticed THEN Fail(w, "ERR") ELSE UNCHANGED err
  /\ Goto(w, "cleanup")
  /\ UNCHANGED <<job, deltaStg, cwd, wd, state, ue, crashes, prepares, dirVars, list, k, esp>>

\* A directory that cannot be removed is only logged; the next reconstruction meets it.
Cleanup(w) ==
  /\ pc[w] = "cleanup"
  /\ \E a, b, c, d \in 0..1 :
       /\ RmDirP(artDir, artDir', w, a)
       /\ RmDirP(oldDir, oldDir', w, b)
       /\ RmDirP(diffDir, diffDir', w, c)
       /\ RmDirP(newDir, newDir', w, d)
       /\ Failing(a + b + c + d)
  /\ Goto(w, "return")
  /\ UNCHANGED <<list, k, err, esp, Elsewhere>>

\* Back in prepare_install_action: only E_UA_ERR is reported as a failed increment.
Return(w) ==
  /\ pc[w] = "return"
  /\ IF err[w] = "OK" THEN OnPrepareInstall(w, newPkg[w])
                      ELSE state' = [state EXCEPT ![w] = "FAILED"]
  /\ ue' = [ue EXCEPT ![w] = IF err[w] = "ERR" THEN "UE_INCREMENTAL_FAILED" ELSE None]
  /\ Goto(w, "idle")
  /\ UNCHANGED <<job, deltaStg, dirVars, newPkg, cwd, wd, list, k, err, crashes, prepares, esp, faults>>

\* The locals of the workers are gone.
Forget ==
  /\ job' = [w \in Workers |-> None]
  /\ list' = [w \in Workers |-> <<>>] /\ k' = [w \in Workers |-> 0]
  /\ err' = [w \in Workers |-> "OK"]
  /\ state' = [w \in Workers |-> "none"] /\ ue' = [w \in Workers |-> None]
  /\ wd' = [w \in Workers |-> None]

DeltaStop ==
  /\ \A w \in Workers : pc[w] = "idle"
  /\ pc' = [w \in Workers |-> "off"]
  /\ patch_tool' = <<>> /\ decomp_tool' = <<>> /\ delta_cap' = None
  /\ Forget
  /\ UNCHANGED <<shell, dirVars, newPkg, cwd, crashes, prepares, esp, faults>>

\* The process ends.  The files stay, and a package that was being written is lost.
ProcessEnds ==
  /\ pc' = [w \in Workers |-> "off"]
  /\ esp' = [w \in Workers |-> EspOff]
  /\ newPkg' = [w \in Workers |-> IF pc[w] \in {"zip", "libzip"} THEN NoFile ELSE newPkg[w]]
  /\ cwd' = None
  /\ patch_tool' = <<>> /\ decomp_tool' = <<>> /\ delta_cap' = None
  /\ Forget
  /\ UNCHANGED <<shell, dirVars, prepares, faults>>

Crash ==
  /\ crashes < MaxCrashes /\ crashes' = crashes + 1
  /\ \E w \in Workers : Active(w)
  /\ ProcessEnds

EspatchCrashes(w) == esp[w].crash /\ ProcessEnds /\ UNCHANGED crashes

Init ==
  /\ EspInit
  /\ shell \in BOOLEAN
  /\ pc = [w \in Workers |-> "off"]
  /\ job = [w \in Workers |-> None]
  /\ patch_tool = <<>> /\ decomp_tool = <<>> /\ delta_cap = None
  /\ list = [w \in Workers |-> <<>>] /\ k = [w \in Workers |-> 0]
  /\ err = [w \in Workers |-> "OK"]
  /\ oldDir = [w \in Workers |-> NoDir] /\ diffDir = [w \in Workers |-> NoDir]
  /\ newDir = [w \in Workers |-> NoDir] /\ artDir = [w \in Workers |-> NoDir]
  /\ newPkg = [w \in Workers |-> NoFile]
  /\ cwd = None /\ wd = [w \in Workers |-> None]
  /\ state = [w \in Workers |-> "none"] /\ ue = [w \in Workers |-> None]
  /\ crashes = 0 /\ prepares = 0

Reconstruct(w) ==
  \/ MakeDirs(w) \/ UnzipOld(w) \/ UnzipDiff(w) \/ ParseDiffManifest(w) \/ NextEntry(w)
  \/ Unsquash(w) \/ Added(w) \/ Unchanged(w) \/ Removed(w)
  \/ PatchRefused(w) \/ PatchByCommand(w) \/ PatchByCopy(w)
  \/ PatchByEspatch(w) \/ EspatchRuns(w) \/ EspatchReturns(w) \/ EspatchCrashes(w)
  \/ Consume(w) \/ Repackage(w) \/ CopyManifest(w) \/ Chdir(w) \/ Zip(w) \/ LibZip(w)
  \/ Cleanup(w) \/ Return(w)

Next == DeltaInit \/ DeltaStop \/ Crash \/ \E w \in Workers : Prepare(w) \/ Reconstruct(w)

\* A worker that has begun goes on: it waits for nothing but files and commands.
Fairness == \A w \in Workers : WF_vars(Reconstruct(w))

Spec == Init /\ [][Next]_vars /\ Fairness

----------------------------------------------------------------------------
\* The variables keep their types, and espatch runs only within delta_patch.
DeltaTypeOK ==
  /\ pc \in [Workers -> Steps]
  /\ err \in [Workers -> {"OK", "ERR", "SYS"}]
  /\ state \in [Workers -> {"none", "READY", "FAILED"}]
  /\ ue \in [Workers -> {None, "UE_INCREMENTAL_FAILED"}]
  /\ k \in [Workers -> Nat] /\ \A w \in Workers : k[w] <= Len(list[w])
  /\ cwd \in Workers \cup {None}
  /\ \A w \in Workers : esp[w].step \in EspSteps /\ (esp[w].step # "off" => pc[w] = "espatch")
  /\ faults \in 0..MaxFaults /\ crashes \in 0..MaxCrashes /\ prepares \in 0..MaxPrepares

\* What the list of differences promises: each file that is not removed (an image is packed
\* again and verified even if its entry says so), with the content
\* whose hash the manifest gives; of two entries for one name the later one.
Kept(l) == {i \in DOMAIN l : (l[i].type # "removed" \/ l[i].squash) /\ l[i].name # "manifest.xml"}
Promise(di) == IF di.type = "unchanged" /\ ~di.squash THEN di.sha_old ELSE di.sha_new
LastFor(l, i) == \A j \in Kept(l) : j > i => l[j].name # l[i].name

Intact(pkg, l) ==
  /\ DOMAIN pkg \ {"manifest.xml"} = {l[i].name : i \in Kept(l)}
  /\ \A i \in Kept(l) : LastFor(l, i) => pkg[l[i].name] = Promise(l[i])

(***************************************************************************)
(* A package that prepare_install_action reports as INSTALL_READY after a  *)
(* reconstruction has exactly the files the manifest of differences        *)
(* promises, each with the content of the given hash: whatever failed, was *)
(* missing or was left over from an interrupted reconstruction, as long as *)
(* the failure shows in a result the code looks at or in a hash, and no    *)
(* other component's zip changes the working directory meanwhile.          *)
(***************************************************************************)
ReadyIsIntact ==
  \A w \in Workers :
    pc[w] = "idle" /\ state[w] = "READY" /\ job[w].kind = "delta" /\ delta_cap # None
      => newPkg[w] # NoFile /\ Intact(newPkg[w], list[w])

\* The old file of an entry is removed when the entry is done, whether it was used or not
\* (an unpacked image in its place): a later entry that needs it does not find it.
NeedsOld(di) == di.squash \/ di.type \in {"changed", "unchanged"}
SharesOld(l) ==
  \E i, j \in DOMAIN l : i < j /\ OldName(l[i]) = OldName(l[j]) /\ ~l[i].squash /\ NeedsOld(l[j])
Announced(di) ==
  /\ di.format \in delta_cap.format \cup {None, "none"}
  /\ di.compression \in delta_cap.compression \cup {None, "none"}

(***************************************************************************)
(* What the server, which is external, makes for a target: an entry for    *)
(* every file, each with the content to be had from the old file and the   *)
(* one of differences.  bsdiff and esdiff compress by themselves.          *)
(***************************************************************************)
Internal == {"bsdiff", "esdiff"}
Loose(image) == [image EXCEPT !.packed = FALSE]
IsBlocks(b) == Len(b) \in Nat /\ b = [i \in 1..Len(b) |-> b[i]]

\* The differences diff turn old into new, by the method of entry di.
Delivers(di, diff, old, new) ==
  LET packed == di.compression # "none" /\ di.format \notin Internal
      patch == IF packed THEN diff.of ELSE diff
  IN  /\ diff # NoFile /\ patch # NoFile
      /\ packed => diff.form = "packed" /\ diff.comp = di.compression
      /\ IF di.format = "none" THEN patch = new
         ELSE /\ patch.form = di.format /\ patch.base = old /\ patch.image = new
              /\ old.blocks # NoFile /\ IsBlocks(old.blocks)
              /\ IsBlocks(new.blocks) /\ patch.pieces = Len(new.blocks)

\* An entry with what it needs: an image, or a file added, kept, changed or removed.
EntryMade(j, di) ==
  LET old == File(j.base, OldName(di))
      new == File(j.target, di.name)
      diff == File(j.diff, di.name)
  IN  /\ di.name \notin {"manifest.xml", "manifest_diff.xml"}
      /\ new # None
      /\ \/ /\ di.squash /\ di.type = "changed" /\ di.options \in {"kept", "cut"} \ {None}
            /\ IsImage(old) /\ Loose(old) # NoFile
            /\ new = [form |-> "squash", blocks |-> new.blocks, packed |-> TRUE]
            /\ new # NoFile /\ new = di.sha_new
            /\ Loose(new) # NoFile /\ Delivers(di, diff, Loose(old), Loose(new))
         \/ /\ ~di.squash /\ di.type = "added"
            /\ new # NoFile /\ new = di.sha_new /\ diff = new
         \/ /\ ~di.squash /\ di.type = "unchanged"
            /\ new # NoFile /\ new = di.sha_old /\ old = new
         \/ /\ ~di.squash /\ di.type = "changed"
            /\ old # NoFile /\ old # None /\ old = di.sha_old
            /\ new # NoFile /\ new = di.sha_new /\ Delivers(di, diff, old, new)
         \/ ~di.squash /\ di.type = "removed"

IsArchive(a) == a = [n \in DOMAIN a |-> a[n]]

\* The package of differences: both manifests, and one entry for every file of the target.
WellMade(j) ==
  LET l == DiffList(j.diff["manifest_diff.xml"])
  IN  /\ j.kind = "delta" /\ IsArchive(j.diff) /\ (j.base # NoFile => IsArchive(j.base))
      /\ {"manifest.xml", "manifest_diff.xml"} \subseteq DOMAIN j.diff
      /\ j.diff["manifest.xml"] # NoFile /\ j.diff["manifest_diff.xml"] # NoFile
      /\ \A i \in DOMAIN l : ~Incomplete(l[i]) /\ EntryMade(j, l[i])
      /\ \A i, i2 \in DOMAIN l : l[i].name = l[i2].name => i = i2
      /\ j.target = [n \in {l[i].name : i \in Kept(l)} |-> j.target[n]]

\* A package with a target is one that the server made from it.
ASSUME ServerAssumption ==
  \A w \in Workers : \A j \in Jobs[w] : j.target # None => WellMade(j)

ServerMade(w) ==
  /\ job[w].base # NoFile /\ job[w].target # None
  /\ ~SharesOld(list[w])
  /\ \A i \in DOMAIN list[w] : Announced(list[w][i]) /\ list[w][i].options # "cut"
  /\ ~shell => \A n \in DOMAIN job[w].target : job[w].target[n].blocks # <<>>

(***************************************************************************)
(* Differences made by the server for the installed version, with methods  *)
(* that get_delta_capability announced, give the package the server had,   *)
(* if no command or system call fails.  Three restrictions are the code's: *)
(* the old file of an entry is removed with the entry, options of          *)
(* mksquashfs of four to seven characters are cut, and espatch does not    *)
(* cut a file to size 0.                                                   *)
(***************************************************************************)
AnnouncedSucceeds ==
  \A w \in Workers :
    pc[w] = "return" /\ faults = 0 /\ ServerMade(w)
      => err[w] = "OK" /\ Without(newPkg[w], "manifest.xml") = job[w].target

(***************************************************************************)
(* A reconstruction ends, with the update ready or failed, or with the     *)
(* process: neither the list nor the loop of espatch over a patch that is  *)
(* cut off or damaged goes on for ever.  The one exception is the code's:  *)
(* espatch takes a failing read for data and tries again, so that a file   *)
(* that stays unreadable keeps it, and the update, for ever.               *)
(***************************************************************************)
ReconstructionEnds ==
  \A w \in Workers : pc[w] = "prepare" ~> pc[w] \in {"idle", "off"} \/ esp[w].step = "looping"
============================================================================
