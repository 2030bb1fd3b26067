---------------------------- MODULE DeltaProofs ----------------------------
(***************************************************************************)
(* A reconstructed package that is reported ready is intact, for any       *)
(* number of workers, any packages, differences, tools, faults and         *)
(* crashes.  The new directory grows with the list: Built says that it has *)
(* what the first n entries promise, BuiltBut that it has it except for    *)
(* the file of the entry at hand, which is an image not yet packed.        *)
(***************************************************************************)
EXTENDS Delta, WellFoundedInduction, TLAPS

Built(l, n, d) ==
  /\ DOMAIN d \ {"manifest.xml"} = {l[i].name : i \in {j \in Kept(l) : j <= n}}
  /\ \A i \in Kept(l) :
       i <= n /\ (\A j \in Kept(l) : i < j /\ j <= n => l[j].name # l[i].name)
         => d[l[i].name] = Promise(l[i])

BuiltBut(l, n, d) ==
  LET x == l[n + 1].name IN
  /\ DOMAIN d \ {"manifest.xml", x} = {l[i].name : i \in {j \in Kept(l) : j <= n}} \ {x}
  /\ \A i \in Kept(l) :
       i <= n /\ l[i].name # x /\ (\A j \in Kept(l) : i < j /\ j <= n => l[j].name # l[i].name)
         => d[l[i].name] = Promise(l[i])

IsList(l) == Len(l) \in Nat /\ DOMAIN l = 1..Len(l)

\* A worker alone: its list, its new directory, its package.
Listed(w) ==
  /\ IsList(list[w]) /\ k[w] \in Nat
  /\ pc[w] \in {"unsquash", "apply", "espatch", "consume", "repackage"} => k[w] + 1 \in DOMAIN list[w]
  /\ pc[w] = "entry" => k[w] <= Len(list[w])
  /\ pc[w] = "espatch" => Entry(w).type = "changed"
  /\ pc[w] = "repackage" => Entry(w).squash
  /\ pc[w] \in {"prepare", "unzip_old", "unzip_diff", "parse"} =>
       /\ list[w] = <<>> /\ k[w] = 0
       /\ job[w] \in Jobs[w] /\ job[w].kind = "delta"

\* A manifest of differences that is on disk came with some package.
Manifested(w) == "manifest_diff.xml" \in DOMAIN diffDir[w] => IsList(diffDir[w]["manifest_diff.xml"])

Growing(w) ==
  /\ pc[w] \in {"unzip_old", "unzip_diff", "parse"} => newDir[w] = NoDir
  /\ pc[w] \in {"entry", "unsquash", "apply", "espatch"} /\ err[w] = "OK" => Built(list[w], k[w], newDir[w])
  /\ pc[w] = "consume" /\ err[w] = "OK" =>
       IF Entry(w).squash THEN BuiltBut(list[w], k[w], newDir[w]) ELSE Built(list[w], k[w] + 1, newDir[w])
  /\ pc[w] = "repackage" /\ err[w] = "OK" => BuiltBut(list[w], k[w], newDir[w])

Packing(w) ==
  /\ pc[w] \in {"manifest", "chdir", "zip", "libzip"} => Intact(newDir[w], list[w])
  /\ pc[w] \in {"chdir", "zip"} => shell
  /\ pc[w] = "zip" => cwd = w /\ newPkg[w] = NoFile
  /\ pc[w] \in {"cleanup", "return"} /\ err[w] = "OK" => newPkg[w] = NoFile \/ Intact(newPkg[w], list[w])
  /\ pc[w] = "off" => state[w] = "none"
  /\ pc[w] = "idle" /\ state[w] = "READY" /\ job[w].kind = "delta" /\ delta_cap # None
       => newPkg[w] # NoFile /\ Intact(newPkg[w], list[w])

Domains ==
  /\ DOMAIN pc = Workers /\ DOMAIN err = Workers /\ DOMAIN newDir = Workers /\ DOMAIN newPkg = Workers
  /\ DOMAIN list = Workers /\ DOMAIN k = Workers /\ DOMAIN state = Workers /\ DOMAIN job = Workers
  /\ DOMAIN diffDir = Workers

\* Only one worker at a time reconstructs where the working directory matters.
Alone == shell => \A v, w \in Workers : Active(v) /\ Active(w) => v = w

IInv == Domains /\ Alone /\ \A w \in Workers : Listed(w) /\ Growing(w) /\ Packing(w)

----------------------------------------------------------------------------
(***************************************************************************)
(* The directory and the list.                                             *)
(***************************************************************************)
\* Nothing has been built for an empty list of entries.
LEMMA NothingBuilt ==
  ASSUME NEW l, IsList(l)
  PROVE  Built(l, 0, NoDir)
BY DEF Built, IsList, Kept, NoDir

\* Entry n + 1 writes its own file only, whatever it writes.
LEMMA WriteKeepsRest ==
  ASSUME NEW l, NEW n \in Nat, NEW d, NEW c, IsList(l), Built(l, n, d)
  PROVE  BuiltBut(l, n, d) /\ BuiltBut(l, n, Put(d, l[n + 1].name, c))
<1>1. BuiltBut(l, n, d)
  BY DEF Built, BuiltBut
<1>2. BuiltBut(l, n, Put(d, l[n + 1].name, c))
  <2> DEFINE x == l[n + 1].name
             e == Put(d, x, c)
  <2>1. DOMAIN e = DOMAIN d \cup {x} /\ \A m \in DOMAIN d : m # x => e[m] = d[m]
    BY DEF Put
  <2>2. \A i \in Kept(l) : i <= n => l[i].name \in DOMAIN d
    BY DEF Built
  <2> HIDE DEF e
  <2>3. DOMAIN e \ {"manifest.xml", x} = {l[i].name : i \in {j \in Kept(l) : j <= n}} \ {x}
    BY <2>1 DEF Built
  <2>4. QED
    BY <2>1, <2>2, <2>3 DEF Built, BuiltBut, e
<1>3. QED
  BY <1>1, <1>2

\* The same for a file of entry n + 1 that was there before.
LEMMA RewriteKeepsRest ==
  ASSUME NEW l, NEW n \in Nat, NEW d, NEW c, IsList(l), BuiltBut(l, n, d)
  PROVE  BuiltBut(l, n, Put(d, l[n + 1].name, c))
<1> DEFINE x == l[n + 1].name
           e == Put(d, x, c)
<1>1. DOMAIN e = DOMAIN d \cup {x} /\ \A m \in DOMAIN d : m # x => e[m] = d[m]
  BY DEF Put
<1>2. \A i \in Kept(l) : i <= n /\ l[i].name # x => l[i].name \in DOMAIN d
  BY DEF BuiltBut
<1> HIDE DEF e
<1>3. DOMAIN e \ {"manifest.xml", x} = {l[i].name : i \in {j \in Kept(l) : j <= n}} \ {x}
  BY <1>1 DEF BuiltBut
<1>4. QED
  BY <1>1, <1>2, <1>3 DEF BuiltBut, e

\* The file of entry n + 1 has what the entry promises: the entry is done.
LEMMA EntryDone ==
  ASSUME NEW l, NEW n \in Nat, NEW d, IsList(l), n + 1 \in DOMAIN l,
         BuiltBut(l, n, d),
         l[n + 1].type # "removed" \/ l[n + 1].squash,
         l[n + 1].name \in DOMAIN d, d[l[n + 1].name] = Promise(l[n + 1])
  PROVE  Built(l, n + 1, d)
<1> DEFINE x == l[n + 1].name
<1>0. Kept(l) \subseteq Nat /\ \A i \in Kept(l) : i <= n + 1 <=> i <= n \/ i = n + 1
  BY DEF Kept, IsList
<1>1. CASE x = "manifest.xml"
  <2>1. n + 1 \notin Kept(l) /\ \A i \in Kept(l) : l[i].name # x
    BY <1>1 DEF Kept
  <2>2. QED
    BY <1>0, <1>1, <2>1 DEF Built, BuiltBut
<1>2. CASE x # "manifest.xml"
  <2>1. n + 1 \in Kept(l)
    BY <1>2 DEF Kept
  <2>2. {l[i].name : i \in {j \in Kept(l) : j <= n + 1}} = {l[i].name : i \in {j \in Kept(l) : j <= n}} \cup {x}
    BY <1>0, <2>1
  <2>3. DOMAIN d \ {"manifest.xml"} = {l[i].name : i \in {j \in Kept(l) : j <= n + 1}}
    BY <1>2, <2>2 DEF BuiltBut
  <2>4. ASSUME NEW i \in Kept(l), i <= n + 1,
               \A j \in Kept(l) : i < j /\ j <= n + 1 => l[j].name # l[i].name
        PROVE  d[l[i].name] = Promise(l[i])
    <3>1. CASE i = n + 1
      BY <3>1
    <3>2. CASE i <= n
      <4>1. l[i].name # x
        BY <1>0, <2>1, <2>4, <3>2
      <4>2. \A j \in Kept(l) : i < j /\ j <= n => l[j].name # l[i].name
        BY <1>0, <2>4
      <4>3. QED
        BY <3>2, <4>1, <4>2 DEF BuiltBut
    <3>3. QED
      BY <1>0, <2>4, <3>1, <3>2
  <2>5. QED
    BY <2>3, <2>4 DEF Built
<1>3. QED
  BY <1>1, <1>2

\* An entry that is removed leaves the directory alone.
LEMMA RemovedDone ==
  ASSUME NEW l, NEW n \in Nat, NEW d, IsList(l), n + 1 \in DOMAIN l, Built(l, n, d),
         l[n + 1].type = "removed", ~l[n + 1].squash
  PROVE  Built(l, n + 1, d)
<1>1. Kept(l) \subseteq Nat /\ n + 1 \notin Kept(l)
  BY DEF Kept, IsList
<1>2. \A i \in Kept(l) : i <= n + 1 <=> i <= n
  BY <1>1
<1>3. QED
  BY <1>2 DEF Built

\* When the whole list has been handled, the directory is what the package should be.
LEMMA AllBuilt ==
  ASSUME NEW l, NEW d, IsList(l), Built(l, Len(l), d)
  PROVE  Intact(d, l)
<1>1. \A i \in Kept(l) : i \in Nat /\ i <= Len(l)
  BY DEF Kept, IsList
<1>2. QED
  BY <1>1 DEF Built, Intact, LastFor

\* manifest.xml does not count.
LEMMA ManifestKeepsIntact ==
  ASSUME NEW l, NEW d, NEW c, Intact(d, l)
  PROVE  Intact(Put(d, "manifest.xml", c), l)
<1>1. \A i \in Kept(l) : l[i].name # "manifest.xml"
  BY DEF Kept
<1>2. DOMAIN Put(d, "manifest.xml", c) = DOMAIN d \cup {"manifest.xml"}
  BY DEF Put
<1>3. \A i \in Kept(l) : l[i].name \in DOMAIN d => Put(d, "manifest.xml", c)[l[i].name] = d[l[i].name]
  BY <1>1 DEF Put
<1>4. \A i \in Kept(l) : l[i].name \in DOMAIN d
  BY DEF Intact
<1>5. QED
  BY <1>1, <1>2, <1>3, <1>4 DEF Intact

----------------------------------------------------------------------------
(***************************************************************************)
(* Steps.  Touches says that a step is worker w's: the others see nothing  *)
(* of it.                                                                  *)
(***************************************************************************)
Mine(w) == Listed(w) /\ Growing(w) /\ Packing(w)

Touches(w) ==
  /\ Domains' /\ shell' = shell /\ delta_cap' = delta_cap
  /\ \A u \in Workers : u # w =>
       /\ pc'[u] = pc[u] /\ err'[u] = err[u] /\ newDir'[u] = newDir[u] /\ newPkg'[u] = newPkg[u]
       /\ list'[u] = list[u] /\ k'[u] = k[u] /\ state'[u] = state[u] /\ job'[u] = job[u]
       /\ diffDir'[u] = diffDir[u]

\* What a worker's part of the invariant says depends on its own variables, and while it
\* zips on the working directory.
LEMMA Untouched ==
  ASSUME NEW u \in Workers, Mine(u),
         pc'[u] = pc[u], err'[u] = err[u], newDir'[u] = newDir[u], newPkg'[u] = newPkg[u],
         list'[u] = list[u], k'[u] = k[u], state'[u] = state[u], job'[u] = job[u],
         diffDir'[u] = diffDir[u], shell' = shell, delta_cap' = delta_cap,
         pc[u] = "zip" => cwd' = cwd
  PROVE  Mine(u)'
BY DEF Mine, Listed, Growing, Packing, Entry

\* A step of worker w that keeps its own part keeps the invariant, if w is the only active
\* worker where the working directory matters.
LEMMA OnlyWorker ==
  ASSUME IInv, NEW w \in Workers, Touches(w), Mine(w)',
         shell => \A u \in Workers : u # w => ~Active(u)
  PROVE  IInv'
<1>1. ASSUME NEW u \in Workers, u # w PROVE Mine(u)'
  <2>1. pc[u] # "zip"
    BY <1>1 DEF IInv, Active, Packing
  <2>2. Mine(u)
    BY <1>1 DEF IInv, Mine
  <2>3. QED
    BY <1>1, <2>1, <2>2, Untouched DEF Touches
<1>2. Alone'
  BY DEF IInv, Alone, Active, Touches
<1>3. Domains'
  BY DEF Touches
<1>4. QED
  BY <1>1, <1>2, <1>3 DEF IInv, Mine

\* An active worker is.
LEMMA OneWorker ==
  ASSUME IInv, NEW w \in Workers, Active(w), Touches(w), Mine(w)'
  PROVE  IInv'
<1>1. shell => \A u \in Workers : u # w => ~Active(u)
  BY DEF IInv, Alone
<1>2. QED
  BY <1>1, OnlyWorker

\* No command, read, write or removal fails in a step.
NoFault == ~Fault /\ \A n \in 1..4 : ~Failing(n)

\* The directories d have become d2, where that of worker w has lost files.
Shrinks(d, d2, w) ==
  /\ DOMAIN d2 = Workers /\ (\A u \in Workers : u # w => d2[u] = d[u])
  /\ DOMAIN d2[w] \subseteq DOMAIN d[w] /\ \A m \in DOMAIN d2[w] : d2[w][m] = d[w][m]

\* rmdirp leaves nothing, or some of the files, of one worker's directory.
LEMMA RmDirPOwn ==
  ASSUME NEW d, NEW d2, NEW w \in Workers, NEW n, DOMAIN d = Workers, RmDirP(d, d2, w, n)
  PROVE  Shrinks(d, d2, w) /\ (n = 0 => d2[w] = NoDir)
<1>1. CASE n = 0 /\ d2 = rmdirp(d, w)
  BY <1>1 DEF Shrinks, rmdirp, SetDir, NoDir
<1>2. CASE n = 1 /\ \E rest \in Leftover(d[w]) : d2 = SetDir(d, w, rest)
  <2>1. PICK S \in SUBSET DOMAIN d[w] : d2 = SetDir(d, w, [m \in S |-> d[w][m]])
    BY <1>2 DEF Leftover
  <2>2. d2[w] = [m \in S |-> d[w][m]]
    BY <2>1 DEF SetDir
  <2>3. QED
    BY <1>2, <2>1, <2>2 DEF Shrinks, SetDir
<1>3. QED
  BY <1>1, <1>2 DEF RmDirP

\* The directories are made afresh, but for files that could not be removed.
LEMMA MakeDirsStep ==
  ASSUME IInv, ~SilentFailures \/ NoFault, NEW w \in Workers, MakeDirs(w)
  PROVE  IInv'
<1>1. PICK a \in 0..1, b \in 0..1, c \in 0..1, m \in 0..1 :
        /\ RmDirP(diffDir, diffDir', w, b)
        /\ RmDirP(newDir, newDir', w, c) /\ (c = 1 => SilentFailures)
        /\ Failing(a + b + c + m)
        /\ IF m = 0 THEN Goto(w, "unzip_old") /\ UNCHANGED err
                    ELSE Goto(w, "cleanup") /\ Fail(w, "SYS")
  BY DEF MakeDirs
<1>2. c = 0
  BY <1>1 DEF NoFault
<1>3. Shrinks(diffDir, diffDir', w)
  BY <1>1, RmDirPOwn DEF IInv, Domains
<1>4. Shrinks(newDir, newDir', w) /\ newDir'[w] = NoDir
  BY <1>1, <1>2, RmDirPOwn DEF IInv, Domains
<1>5. pc[w] = "prepare" /\ UNCHANGED <<list, k, Elsewhere>>
  BY DEF MakeDirs
<1>6. Touches(w)
  BY <1>1, <1>3, <1>4, <1>5 DEF IInv, Domains, Touches, Shrinks, Goto, Fail, Elsewhere, deltaStg
<1>7. Mine(w)'
  BY <1>1, <1>3, <1>4, <1>5 DEF IInv, Domains, Mine, Listed, Growing, Packing, Goto, Fail,
     Elsewhere, deltaStg
<1>8. QED
  BY <1>5, <1>6, <1>7, OneWorker DEF Active

\* The directories d have become d2, where that of worker w may have got some of the files.
Gains(d, d2, w, files) ==
  /\ DOMAIN d2 = Workers /\ (\A u \in Workers : u # w => d2[u] = d[u])
  /\ \A m \in DOMAIN d2[w] :
       \/ m \in DOMAIN files /\ d2[w][m] = files[m]
       \/ m \in DOMAIN d[w] /\ d2[w][m] = d[w][m]

\* unzip adds files of the archive to one worker's directory.
LEMMA UnzipOwn ==
  ASSUME NEW d, NEW d2, NEW w \in Workers, NEW files, NEW here, NEW next, DOMAIN d = Workers,
         Unzip(w, d, d2, files, here, next)
  PROVE  Gains(d, d2, w, files)
<1>1. PICK lost \in SUBSET DOMAIN files :
        \/ d2 = SetDir(d, w, Overlay(d[w], files))
        \/ d2 = SetDir(d, w, Overlay(d[w], [n \in DOMAIN files \ lost |-> files[n]]))
  BY DEF Unzip
<1>2. CASE d2 = SetDir(d, w, Overlay(d[w], files))
  <2>1. d2[w] = Overlay(d[w], files) /\ DOMAIN d2 = Workers /\ \A u \in Workers : u # w => d2[u] = d[u]
    BY <1>2 DEF SetDir
  <2>2. QED
    BY <2>1 DEF Gains, Overlay
<1>3. CASE d2 = SetDir(d, w, Overlay(d[w], [n \in DOMAIN files \ lost |-> files[n]]))
  <2> DEFINE f == [n \in DOMAIN files \ lost |-> files[n]]
  <2>1. DOMAIN f \subseteq DOMAIN files /\ \A n \in DOMAIN f : f[n] = files[n]
    OBVIOUS
  <2> HIDE DEF f
  <2>2. d2[w] = Overlay(d[w], f) /\ DOMAIN d2 = Workers /\ \A u \in Workers : u # w => d2[u] = d[u]
    BY <1>3 DEF SetDir, f
  <2>3. QED
    BY <2>1, <2>2 DEF Gains, Overlay
<1>4. QED
  BY <1>1, <1>2, <1>3

\* The backup is unpacked.
LEMMA UnzipOldStep ==
  ASSUME IInv, NEW w \in Workers, UnzipOld(w)
  PROVE  IInv'
<1>1. Touches(w)
  BY DEF IInv, Domains, Touches, UnzipOld, Unzip, Goto, Fail, Elsewhere, deltaStg
<1>2. Mine(w)'
  BY DEF IInv, Domains, Mine, Listed, Growing, Packing, UnzipOld, Unzip, Goto, Fail, Elsewhere,
     deltaStg
<1>3. QED
  BY <1>1, <1>2, OneWorker DEF UnzipOld, Unzip, Active

\* The differences are unpacked.
LEMMA UnzipDiffStep ==
  ASSUME IInv, NEW w \in Workers, UnzipDiff(w)
  PROVE  IInv'
<1>1. Unzip(w, diffDir, diffDir', job[w].diff, "unzip_diff", "parse")
  BY DEF UnzipDiff
<1>2. Gains(diffDir, diffDir', w, job[w].diff)
  BY <1>1, UnzipOwn DEF IInv, Domains
<1>3. pc[w] = "unzip_diff" /\ UNCHANGED <<newDir, list, k, Elsewhere>>
      /\ \/ Goto(w, "parse") /\ UNCHANGED err
         \/ Goto(w, "cleanup") /\ Fail(w, "ERR")
  BY DEF UnzipDiff, Unzip
<1>4. Touches(w)
  BY <1>2, <1>3 DEF IInv, Domains, Touches, Gains, Goto, Fail, Elsewhere, deltaStg
<1>5. Mine(w)'
  BY <1>3 DEF IInv, Domains, Mine, Listed, Growing, Packing, Goto, Fail, Elsewhere, deltaStg
<1>6. QED
  BY <1>3, <1>4, <1>5, OneWorker DEF Active

\* The list read from a manifest of differences.
LEMMA DiffListIsList ==
  ASSUME NEW m, Len(m) \in Nat, DOMAIN m = 1..Len(m)
  PROVE  IsList(DiffList(m))
<1>1. DOMAIN DiffList(m) = 1..Len(m) /\ Len(DiffList(m)) = Len(m)
  BY DEF DiffList
<1>2. QED
  BY <1>1 DEF IsList

\* The list is read, with nothing built yet.
LEMMA ParseStep ==
  ASSUME IInv, NEW w \in Workers, Manifested(w), ParseDiffManifest(w)
  PROVE  IInv'
<1>1. Touches(w)
  BY DEF IInv, Domains, Touches, ParseDiffManifest, Goto, Fail, Elsewhere, deltaStg, dirVars
<1>2. Mine(w)'
  <2> DEFINE m == File(diffDir[w], "manifest_diff.xml")
  <2>1. CASE pc'[w] = "entry"
    <3>1. m # NoFile /\ list'[w] = DiffList(m)
      BY <2>1 DEF IInv, Domains, ParseDiffManifest, Goto, Fail
    <3>3. Len(m) \in Nat /\ DOMAIN m = 1..Len(m)
      BY <3>1 DEF Manifested, IsList, File
    <3>4. IsList(DiffList(m))
      BY <3>3, DiffListIsList
    <3>5. Built(list'[w], 0, NoDir)
      BY <3>1, <3>4, NothingBuilt
    <3>6. QED
      BY <2>1, <3>1, <3>4, <3>5 DEF IInv, Domains, Mine, Listed, Growing, Packing,
         ParseDiffManifest,
         Goto, Fail, Elsewhere, deltaStg, dirVars
  <2>2. CASE pc'[w] # "entry"
    BY <2>2 DEF IInv, Domains, Mine, Listed, Growing, Packing, ParseDiffManifest,
         Goto, Fail, Elsewhere, deltaStg, dirVars
  <2>3. QED
    BY <2>1, <2>2
<1>3. QED
  BY <1>1, <1>2, OneWorker DEF ParseDiffManifest, Active

\* At the end of the list everything has been built.
LEMMA NextEntryStep ==
  ASSUME IInv, NEW w \in Workers, NextEntry(w)
  PROVE  IInv'
<1>1. Touches(w)
  BY DEF IInv, Domains, Touches, NextEntry, Goto, Elsewhere, deltaStg, dirVars
<1>2. Mine(w)'
  <2>1. k[w] # Len(list[w]) => k[w] + 1 \in DOMAIN list[w]
    BY DEF IInv, Listed, IsList, NextEntry
  <2>2. err[w] = "OK" /\ k[w] = Len(list[w]) => Intact(newDir[w], list[w])
    BY AllBuilt DEF IInv, Listed, Growing, NextEntry
  <2>3. QED
    BY <2>1, <2>2 DEF IInv, Domains, Mine, Listed, Growing, Packing, NextEntry, Entry, Goto,
       Elsewhere, deltaStg, dirVars
<1>3. QED
  BY <1>1, <1>2, OneWorker DEF NextEntry, Active

\* Unpacking an image concerns other directories.
LEMMA UnsquashStep ==
  ASSUME IInv, NEW w \in Workers, Unsquash(w)
  PROVE  IInv'
<1>1. Touches(w)
  BY DEF IInv, Domains, Touches, Unsquash, Goto, Fail, Elsewhere, deltaStg
<1>2. Mine(w)'
  BY DEF IInv, Domains, Mine, Listed, Growing, Packing, Unsquash, Entry, Goto, Fail, Elsewhere,
     deltaStg
<1>3. QED
  BY <1>1, <1>2, OneWorker DEF Unsquash, Active

(***************************************************************************)
(* The ways to make the file of an entry.  If the entry succeeds, it has   *)
(* written the file it promises, or it is one that is removed; an image is *)
(* looked at later.                                                        *)
(***************************************************************************)
LEMMA WrittenStep ==
  ASSUME IInv, NEW w \in Workers, NEW out, NEW ok, NewFile(w, out, ok),
         pc[w] \in {"apply", "espatch"}, UNCHANGED <<diffDir, list, k, Elsewhere>>,
         ok /\ ~Entry(w).squash =>
           IF Entry(w).type = "removed" THEN out = NoFile
           ELSE out # NoFile /\ out = Promise(Entry(w))
  PROVE  IInv'
<1> DEFINE l == list[w]
           n == k[w]
           d == newDir[w]
           x == l[n + 1].name
<1>0. /\ IsList(l) /\ n \in Nat /\ n + 1 \in DOMAIN l
      /\ err[w] = "OK" => Built(l, n, d)
  BY DEF IInv, Listed, Growing
<1>1. Touches(w)
  BY DEF IInv, Domains, Touches, NewFile, Goto, Fail, SetDir, rmdirp, Elsewhere, deltaStg
<1>2. newDir'[w] = IF out = NoFile THEN d ELSE Put(d, x, out)
  BY DEF IInv, Domains, NewFile, SetDir, rmdirp, Entry
<1>3. pc'[w] = "consume" /\ list'[w] = l /\ k'[w] = n
  BY DEF IInv, Domains, NewFile, Goto
<1>4. err'[w] = "OK" => ok /\ err[w] = "OK"
  BY DEF IInv, Domains, NewFile, Fail
<1>5. err'[w] = "OK" => BuiltBut(l, n, newDir'[w])
  <2>1. SUFFICES ASSUME err'[w] = "OK" PROVE BuiltBut(l, n, newDir'[w])
    OBVIOUS
  <2>2. BuiltBut(l, n, d) /\ BuiltBut(l, n, Put(d, x, out))
    BY <1>0, <1>4, <2>1, WriteKeepsRest
  <2>3. QED
    BY <1>2, <2>2
<1>6. err'[w] = "OK" /\ ~l[n + 1].squash => Built(l, n + 1, newDir'[w])
  <2>1. SUFFICES ASSUME err'[w] = "OK", ~l[n + 1].squash PROVE Built(l, n + 1, newDir'[w])
    OBVIOUS
  <2>2. ok /\ Built(l, n, d) /\ Entry(w) = l[n + 1]
    BY <1>0, <1>4, <2>1 DEF Entry
  <2>3. CASE l[n + 1].type = "removed"
    <3>1. newDir'[w] = d
      BY <1>2, <2>1, <2>2, <2>3
    <3>2. QED
      BY <1>0, <2>1, <2>2, <2>3, <3>1, RemovedDone
  <2>4. CASE l[n + 1].type # "removed"
    <3>1. out # NoFile /\ out = Promise(l[n + 1])
      BY <2>1, <2>2, <2>4
    <3>2. x \in DOMAIN newDir'[w] /\ newDir'[w][x] = Promise(l[n + 1])
      BY <1>2, <3>1 DEF Put
    <3>3. QED
      BY <1>0, <1>5, <2>1, <2>4, <3>2, EntryDone
  <2>5. QED
    BY <2>3, <2>4
<1>7. Mine(w)'
  BY <1>0, <1>3, <1>5, <1>6 DEF Mine, Listed, Growing, Packing, Entry
<1>8. QED
  BY <1>1, <1>7, OneWorker DEF Active

\* A file that is copied is the verified one, if copy_file reports the errors it meets or
\* meets none.
LEMMA ApplyCopyStep ==
  ASSUME IInv, ~SilentFailures \/ ~Fault, NEW w \in Workers, NEW type, NEW file, NEW sha,
         ApplyCopy(w, type, file, sha), type # "removed",
         ~Entry(w).squash => sha = Promise(Entry(w))
  PROVE  IInv'
<1>0. pc[w] = "apply" /\ UNCHANGED <<diffDir, list, k, Elsewhere>> /\ Entry(w).type = type
  BY DEF ApplyCopy, Applying
<1>1. PICK out \in {file, Partial, NoFile}, ok \in BOOLEAN :
        NewFile(w, out, ok) /\ (ok => Verified(file, sha) /\ CopyFile(file, out, ok))
  BY DEF ApplyCopy
<1>2. ok => out # NoFile /\ out = sha
  BY <1>1 DEF CopyFile, Verified
<1>3. QED
  BY <1>0, <1>1, <1>2, WrittenStep

\* An added file comes from the differences.
LEMMA AddedStep ==
  ASSUME IInv, ~SilentFailures \/ ~Fault, NEW w \in Workers, Added(w)
  PROVE  IInv'
<1>1. Entry(w).type = "added"
  BY DEF Added, ApplyCopy
<1>2. QED
  BY <1>1, ApplyCopyStep DEF Added, Promise

\* An unchanged file comes from the backup.
LEMMA UnchangedStep ==
  ASSUME IInv, ~SilentFailures \/ ~Fault, NEW w \in Workers, Unchanged(w)
  PROVE  IInv'
<1>1. Entry(w).type = "unchanged"
  BY DEF Unchanged, ApplyCopy
<1>2. QED
  BY <1>1, ApplyCopyStep DEF Unchanged, Promise

\* A removed file is not written.
LEMMA RemovedStep ==
  ASSUME IInv, NEW w \in Workers, Removed(w)
  PROVE  IInv'
BY WrittenStep DEF Removed, Applying

\* A refused entry fails and writes nothing.
LEMMA PatchRefusedStep ==
  ASSUME IInv, NEW w \in Workers, PatchRefused(w)
  PROVE  IInv'
BY WrittenStep DEF PatchRefused, Changed, Applying

\* A patched file is verified, whoever patched it.
LEMMA VerifiedStep ==
  ASSUME IInv, NEW w \in Workers, NEW out, NEW ok, NewFile(w, out, NewVerified(Entry(w), out, ok)),
         pc[w] \in {"apply", "espatch"}, UNCHANGED <<diffDir, list, k, Elsewhere>>,
         Entry(w).type = "changed"
  PROVE  IInv'
<1>1. NewVerified(Entry(w), out, ok) /\ ~Entry(w).squash => out # NoFile /\ out = Promise(Entry(w))
  BY DEF NewVerified, Verified, Promise
<1> DEFINE v == NewVerified(Entry(w), out, ok)
<1>2. NewFile(w, out, v)
  OBVIOUS
<1> HIDE DEF v
<1>3. QED
  BY <1>1, <1>2, WrittenStep DEF v

\* The shell command's result is verified.
LEMMA PatchByCommandStep ==
  ASSUME IInv, NEW w \in Workers, PatchByCommand(w)
  PROVE  IInv'
<1> DEFINE diff == Decompressed(Entry(w), DiffFile(w))
<1>0. /\ pc[w] = "apply" /\ UNCHANGED <<diffDir, list, k, Elsewhere>>
      /\ Entry(w).type = "changed"
  BY DEF PatchByCommand, PatchStarts, Changed, Applying
<1>1. CASE diff = NoFile /\ NewFile(w, NoFile, FALSE)
  BY <1>0, <1>1, WrittenStep
<1>2. CASE \E out, ok : NewFile(w, out, NewVerified(Entry(w), out, ok))
  BY <1>0, <1>2, VerifiedStep
<1>3. QED
  BY <1>1, <1>2 DEF PatchByCommand

\* Format none: the differences are the new file.
LEMMA PatchByCopyStep ==
  ASSUME IInv, NEW w \in Workers, PatchByCopy(w)
  PROVE  IInv'
<1>0. /\ pc[w] = "apply" /\ UNCHANGED <<diffDir, list, k, Elsewhere>>
      /\ Entry(w).type = "changed"
  BY DEF PatchByCopy, PatchStarts, Changed, Applying
<1>1. \E out, ok : NewFile(w, out, NewVerified(Entry(w), out, ok))
  BY DEF PatchByCopy
<1>2. QED
  BY <1>0, <1>1, VerifiedStep

\* espatch is called, runs and returns.
LEMMA PatchByEspatchStep ==
  ASSUME IInv, NEW w \in Workers, PatchByEspatch(w)
  PROVE  IInv'
<1>0. /\ pc[w] = "apply" /\ UNCHANGED <<newDir, err, diffDir, list, k, Elsewhere>>
      /\ Entry(w).type = "changed" /\ Goto(w, "espatch")
  BY DEF PatchByEspatch, PatchStarts, Changed, Applying
<1>1. Touches(w)
  BY <1>0 DEF IInv, Domains, Touches, Goto, Elsewhere, deltaStg
<1>2. Mine(w)'
  BY <1>0 DEF IInv, Domains, Mine, Listed, Growing, Packing, Entry, Goto, Elsewhere, deltaStg
<1>3. QED
  BY <1>0, <1>1, <1>2, OneWorker DEF Active

\* espatch works on a file of its own until it returns.
LEMMA EspatchRunsStep ==
  ASSUME IInv, NEW w \in Workers, EspatchRuns(w)
  PROVE  IInv'
<1>1. Touches(w)
  BY DEF IInv, Domains, Touches, EspatchRuns, Elsewhere, deltaStg, dirVars
<1>2. Mine(w)'
  BY Untouched DEF IInv, Mine, EspatchRuns, Elsewhere, deltaStg, dirVars
<1>3. QED
  BY <1>1, <1>2, OneWorker DEF EspatchRuns, Active

\* What espatch made is verified.
LEMMA EspatchReturnsStep ==
  ASSUME IInv, NEW w \in Workers, EspatchReturns(w)
  PROVE  IInv'
<1>1. Entry(w).type = "changed" /\ pc[w] = "espatch"
  BY DEF IInv, Listed, EspatchReturns
<1>2. QED
  BY <1>1, VerifiedStep DEF EspatchReturns

\* The files an entry used go; the new directory stays.
LEMMA ConsumeStep ==
  ASSUME IInv, NEW w \in Workers, Consume(w)
  PROVE  IInv'
<1>0. /\ pc[w] = "consume" /\ UNCHANGED <<newDir, list, err, Elsewhere>>
      /\ diffDir' = SetDir(diffDir, w, Without(diffDir[w], Entry(w).name))
      /\ IF Entry(w).squash THEN Goto(w, "repackage") /\ UNCHANGED k
                            ELSE Goto(w, "entry") /\ k' = [k EXCEPT ![w] = @ + 1]
  BY DEF Consume
<1>1. Touches(w)
  BY <1>0 DEF IInv, Domains, Touches, Goto, SetDir, rmdirp, Elsewhere, deltaStg
<1>2. k[w] + 1 \in Nat /\ k[w] + 1 <= Len(list[w])
  BY <1>0 DEF IInv, Listed, IsList
<1>3. Mine(w)'
  BY <1>0, <1>2 DEF IInv, Domains, Mine, Listed, Growing, Packing, Entry, Goto, Elsewhere, deltaStg
<1>4. QED
  BY <1>0, <1>1, <1>3, OneWorker DEF Active

\* An image is packed again and verified: the entry is done.
LEMMA RepackageStep ==
  ASSUME IInv, NEW w \in Workers, Repackage(w)
  PROVE  IInv'
<1> DEFINE l == list[w]
           n == k[w]
           x == l[n + 1].name
<1>0. /\ IsList(l) /\ n \in Nat /\ n + 1 \in DOMAIN l /\ l[n + 1].squash
      /\ err[w] = "OK" => BuiltBut(l, n, newDir[w])
  BY DEF IInv, Listed, Growing, Repackage, Entry
<1>1. Touches(w)
  BY DEF IInv, Domains, Touches, Repackage, Goto, Fail, SetDir, rmdirp, Elsewhere, deltaStg
<1>2. pc'[w] = "entry" /\ list'[w] = l /\ k'[w] = n + 1
  BY DEF IInv, Domains, Repackage, Goto
<1>3. err'[w] = "OK" => /\ err[w] = "OK"
                        /\ \E out : Verified(out, l[n + 1].sha_new) /\ newDir'[w] = Put(newDir[w], x, out)
  BY DEF IInv, Domains, Repackage, Fail, SetDir, rmdirp, Entry, Verified
<1>4. err'[w] = "OK" => Built(l, n + 1, newDir'[w])
  <2>1. SUFFICES ASSUME err'[w] = "OK" PROVE Built(l, n + 1, newDir'[w])
    OBVIOUS
  <2>2. PICK out : out = l[n + 1].sha_new /\ newDir'[w] = Put(newDir[w], x, out)
    BY <1>3, <2>1 DEF Verified
  <2>3. BuiltBut(l, n, newDir'[w])
    BY <1>0, <1>3, <2>1, <2>2, RewriteKeepsRest
  <2>4. x \in DOMAIN newDir'[w] /\ newDir'[w][x] = Promise(l[n + 1])
    BY <1>0, <2>2 DEF Put, Promise
  <2>5. QED
    BY <1>0, <2>3, <2>4, EntryDone
<1>5. n + 1 \in Nat /\ n + 1 <= Len(l)
  BY <1>0 DEF IsList
<1>6. Mine(w)'
  BY <1>0, <1>2, <1>4, <1>5 DEF Mine, Listed, Growing, Packing
<1>7. QED
  BY <1>1, <1>6, OneWorker DEF Repackage, Active

----------------------------------------------------------------------------
(***************************************************************************)
(* Packing, and the return.                                                *)
(***************************************************************************)
\* manifest.xml is added to the files of the list.
LEMMA CopyManifestStep ==
  ASSUME IInv, NEW w \in Workers, CopyManifest(w)
  PROVE  IInv'
<1>0. IsList(list[w]) /\ k[w] \in Nat /\ Intact(newDir[w], list[w])
  BY DEF IInv, Listed, Packing, CopyManifest
<1>1. Touches(w)
  BY DEF IInv, Domains, Touches, CopyManifest, Goto, Fail, SetDir, rmdirp, Elsewhere,
     deltaStg
<1>2. /\ list'[w] = list[w] /\ k'[w] = k[w] /\ shell' = shell
      /\ \/ pc'[w] = "chdir" /\ shell
         \/ pc'[w] = "libzip"
         \/ pc'[w] = "cleanup" /\ err'[w] = "ERR"
  BY DEF IInv, Domains, CopyManifest, Goto, Fail, Elsewhere, deltaStg
<1>3. newDir'[w] = newDir[w] \/ \E out : newDir'[w] = Put(newDir[w], "manifest.xml", out)
  BY DEF IInv, Domains, CopyManifest, SetDir, rmdirp
<1>4. Intact(newDir'[w], list[w])
  BY <1>0, <1>3, ManifestKeepsIntact
<1>5. Mine(w)'
  BY <1>0, <1>2, <1>4 DEF Mine, Listed, Growing, Packing
<1>6. QED
  BY <1>1, <1>5, OneWorker DEF CopyManifest, Active

\* The working directory is the one to be zipped.
LEMMA ChdirStep ==
  ASSUME IInv, NEW w \in Workers, Chdir(w)
  PROVE  IInv'
<1>1. Touches(w)
  BY DEF IInv, Domains, Touches, Chdir, Goto, deltaStg, dirVars
<1>2. Mine(w)'
  BY DEF IInv, Domains, Mine, Listed, Growing, Packing, Chdir, Goto, deltaStg, dirVars
<1>3. QED
  BY <1>1, <1>2, OneWorker DEF Chdir, Active

\* The command archives the working directory.
LEMMA ZipStep ==
  ASSUME IInv, NEW w \in Workers, Zip(w)
  PROVE  IInv'
<1>1. Touches(w)
  BY DEF IInv, Domains, Touches, Zip, Goto, deltaStg, dirVars
<1>2. pc[w] = "zip" /\ cwd = w /\ newPkg[w] = NoFile /\ Intact(newDir[w], list[w])
  BY DEF IInv, Packing, Zip
<1>3. Mine(w)'
  BY <1>2 DEF IInv, Domains, Mine, Listed, Growing, Packing, Zip, Goto, deltaStg, dirVars
<1>4. QED
  BY <1>1, <1>3, OneWorker DEF Zip, Active

\* libzip archives the new directory.
LEMMA LibZipStep ==
  ASSUME IInv, ~SilentFailures \/ ~Fault, NEW w \in Workers, LibZip(w)
  PROVE  IInv'
<1>1. Touches(w)
  BY DEF IInv, Domains, Touches, LibZip, Goto, Fail, deltaStg, dirVars
<1>2. Mine(w)'
  BY DEF IInv, Domains, Mine, Listed, Growing, Packing, LibZip, Goto, Fail, deltaStg, dirVars
<1>3. QED
  BY <1>1, <1>2, OneWorker DEF LibZip, Active

\* The directories go, the package stays.
LEMMA CleanupStep ==
  ASSUME IInv, NEW w \in Workers, Cleanup(w)
  PROVE  IInv'
<1>1. PICK c \in 0..1, d \in 0..1 :
        RmDirP(diffDir, diffDir', w, c) /\ RmDirP(newDir, newDir', w, d)
  BY DEF Cleanup
<1>2. Shrinks(diffDir, diffDir', w)
  BY <1>1, RmDirPOwn DEF IInv, Domains
<1>3. Shrinks(newDir, newDir', w)
  BY <1>1, RmDirPOwn DEF IInv, Domains
<1>4. pc[w] = "cleanup" /\ Goto(w, "return") /\ UNCHANGED <<list, k, err, Elsewhere>>
  BY DEF Cleanup
<1>5. Touches(w)
  BY <1>2, <1>3, <1>4 DEF IInv, Domains, Touches, Shrinks, Goto, Elsewhere, deltaStg
<1>6. Mine(w)'
  BY <1>2, <1>3, <1>4 DEF IInv, Domains, Mine, Listed, Growing, Packing, Goto, Elsewhere, deltaStg
<1>7. QED
  BY <1>4, <1>5, <1>6, OneWorker DEF Active

\* Only a package that is there is ready.
LEMMA ReturnStep ==
  ASSUME IInv, NEW w \in Workers, Return(w)
  PROVE  IInv'
<1>1. Touches(w)
  BY DEF IInv, Domains, Touches, Return, OnPrepareInstall, Hashed, IsDelta, Goto, deltaStg, dirVars
<1>2. state'[w] = "READY" => newPkg[w] # NoFile /\ Intact(newPkg[w], list[w])
  BY DEF IInv, Domains, Packing, Return, OnPrepareInstall, Hashed, IsDelta
<1>3. Mine(w)'
  BY <1>2 DEF IInv, Domains, Mine, Listed, Growing, Packing, Return, Goto, deltaStg, dirVars
<1>4. QED
  BY <1>1, <1>3, OneWorker DEF Return, Active

\* Where the working directory matters, a component is prepared when no other is.
LEMMA PrepareStep ==
  ASSUME IInv, ~ConcurrentShell, NEW w \in Workers, Prepare(w)
  PROVE  IInv'
<1>1. PICK j \in Jobs[w] :
        /\ job' = [job EXCEPT ![w] = j]
        /\ list' = [list EXCEPT ![w] = <<>>]
        /\ k' = [k EXCEPT ![w] = 0]
        /\ \/ state' = [state EXCEPT ![w] = "FAILED"] /\ UNCHANGED pc
           \/ (delta_cap = None \/ ~IsDelta(j)) /\ OnPrepareInstall(w, j.diff) /\ UNCHANGED pc
           \/ /\ j.kind = "delta"
              /\ state' = [state EXCEPT ![w] = "none"]
              /\ err' = [err EXCEPT ![w] = IF j.base = NoFile THEN "ERR" ELSE "OK"]
              /\ pc' = [pc EXCEPT ![w] = IF j.base = NoFile THEN "return" ELSE "prepare"]
        /\ \E e : err' = [err EXCEPT ![w] = e]
  BY DEF Prepare, IsDelta
<1>2. pc[w] = "idle" /\ UNCHANGED <<deltaStg, dirVars, newPkg>>
  BY DEF Prepare
<1>3. Touches(w)
  BY <1>1, <1>2 DEF IInv, Domains, Touches, OnPrepareInstall, Hashed, IsDelta, deltaStg, dirVars
<1>4. job'[w] = j /\ list'[w] = <<>> /\ k'[w] = 0 /\ IsList(list'[w])
  BY <1>1 DEF IInv, Domains, IsList
<1>5. Mine(w)'
  BY <1>1, <1>2, <1>4 DEF IInv, Domains, Mine, Listed, Growing, Packing, OnPrepareInstall, Hashed,
     IsDelta, deltaStg, dirVars
<1>6. shell => \A u \in Workers : ~Active(u)
  BY DEF Prepare, MayPrepare
<1>7. QED
  BY <1>3, <1>5, <1>6, OnlyWorker

\* Every step of a reconstruction keeps the invariant.
LEMMA ReconstructStep ==
  ASSUME IInv, ~SilentFailures \/ NoFault, NEW w \in Workers, Manifested(w), Reconstruct(w),
         ~EspatchCrashes(w)
  PROVE  IInv'
BY MakeDirsStep, UnzipOldStep, UnzipDiffStep, ParseStep, NextEntryStep, UnsquashStep, AddedStep,
   UnchangedStep, RemovedStep, PatchRefusedStep, PatchByCommandStep, PatchByCopyStep,
   PatchByEspatchStep, EspatchRunsStep, EspatchReturnsStep, ConsumeStep, RepackageStep,
   CopyManifestStep, ChdirStep, ZipStep, LibZipStep, CleanupStep, ReturnStep DEF Reconstruct, NoFault

\* No worker is active before delta_init, and none has a package it calls ready.
LEMMA DeltaInitStep ==
  ASSUME IInv, DeltaInit
  PROVE  IInv'
<1>1. /\ pc' = [w \in Workers |-> "idle"]
      /\ UNCHANGED <<job, list, k, err, dirVars, newPkg, state>>
      /\ \A w \in Workers : pc[w] = "off"
  BY DEF DeltaInit
<1>2. Domains' /\ Alone'
  BY <1>1 DEF IInv, Domains, Alone, Active, dirVars
<1>3. ASSUME NEW w \in Workers PROVE Mine(w)'
  BY <1>1 DEF IInv, Mine, Listed, Growing, Packing, dirVars
<1>4. QED
  BY <1>2, <1>3 DEF IInv, Mine

\* When the process ends, the workers are gone.
LEMMA ForgetStep ==
  ASSUME IInv, Forget, pc' = [w \in Workers |-> "off"], UNCHANGED dirVars, DOMAIN newPkg' = Workers
  PROVE  IInv'
<1>1. Domains' /\ Alone'
  BY DEF IInv, Domains, Alone, Active, Forget, dirVars
<1>2. ASSUME NEW w \in Workers PROVE Mine(w)'
  <2>1. pc'[w] = "off" /\ list'[w] = <<>> /\ k'[w] = 0 /\ state'[w] = "none" /\ IsList(<<>>)
    BY DEF Forget, IsList
  <2>2. QED
    BY <2>1 DEF Mine, Listed, Growing, Packing
<1>3. QED
  BY <1>1, <1>2 DEF IInv, Mine

\* The invariant holds at the start, and every step keeps it.
LEMMA IInvInit ==
  ASSUME Init
  PROVE  IInv
<1>1. Domains /\ Alone
  BY DEF Init, Domains, Alone, Active
<1>2. ASSUME NEW w \in Workers PROVE Listed(w) /\ Growing(w) /\ Packing(w)
  <2>1. pc[w] = "off" /\ list[w] = <<>> /\ k[w] = 0 /\ state[w] = "none" /\ IsList(<<>>)
    BY DEF Init, IsList
  <2>2. QED
    BY <2>1 DEF Listed, Growing, Packing
<1>3. QED
  BY <1>1, <1>2 DEF IInv

\* Nothing that the code does not look at has failed.
LEMMA IInvNext ==
  ASSUME ~SilentFailures \/ NoFault, ~ConcurrentShell, IInv, \A w \in Workers : Manifested(w),
         [Next]_vars
  PROVE  IInv'
<1>1. CASE DeltaInit
  BY <1>1, DeltaInitStep
<1>2. CASE DeltaStop
  BY <1>2, ForgetStep DEF DeltaStop, IInv, Domains
<1>3. CASE ProcessEnds
  BY <1>3, ForgetStep DEF ProcessEnds
<1>4. ASSUME NEW w \in Workers, Prepare(w) PROVE IInv'
  BY <1>4, PrepareStep
<1>5. ASSUME NEW w \in Workers, Reconstruct(w) PROVE IInv'
  <2>1. CASE EspatchCrashes(w)
    BY <1>3, <2>1 DEF EspatchCrashes
  <2>2. CASE ~EspatchCrashes(w)
    BY <1>5, <2>2, ReconstructStep
  <2>3. QED
    BY <2>1, <2>2
<1>6. CASE UNCHANGED vars
  BY <1>6 DEF vars, deltaStg, dirVars, IInv, Domains, Alone, Active, Listed, Growing, Packing,
     Entry
<1>7. QED
  BY <1>1, <1>2, <1>3, <1>4, <1>5, <1>6 DEF Next, Crash

\* A step of a reconstruction unpacks a package, or puts nothing new in the directory.
LEMMA ReconstructDiff ==
  ASSUME Domains, NEW w \in Workers, Reconstruct(w), ~EspatchCrashes(w)
  PROVE  /\ \A u \in Workers : u # w => diffDir'[u] = diffDir[u]
         /\ \A m \in DOMAIN diffDir'[w] :
              \/ pc[w] = "unzip_diff" /\ m \in DOMAIN job[w].diff /\ diffDir'[w][m] = job[w].diff[m]
              \/ m \in DOMAIN diffDir[w] /\ diffDir'[w][m] = diffDir[w][m]
<1>1. CASE MakeDirs(w)
  <2>1. \E n : RmDirP(diffDir, diffDir', w, n)
    BY <1>1 DEF MakeDirs
  <2>2. Shrinks(diffDir, diffDir', w)
    BY <2>1, RmDirPOwn DEF Domains
  <2>3. QED
    BY <2>2 DEF Shrinks
<1>2. CASE UnzipDiff(w)
  <2>1. Unzip(w, diffDir, diffDir', job[w].diff, "unzip_diff", "parse") /\ pc[w] = "unzip_diff"
    BY <1>2 DEF UnzipDiff, Unzip
  <2>2. Gains(diffDir, diffDir', w, job[w].diff)
    BY <2>1, UnzipOwn DEF Domains
  <2>3. QED
    BY <2>1, <2>2 DEF Gains
<1>3. CASE Consume(w)
  <2>1. diffDir' = SetDir(diffDir, w, Without(diffDir[w], Entry(w).name))
    BY <1>3 DEF Consume
  <2>2. diffDir'[w] = Without(diffDir[w], Entry(w).name) /\ \A u \in Workers : u # w => diffDir'[u] = diffDir[u]
    BY <2>1 DEF Domains, SetDir
  <2>3. QED
    BY <2>2 DEF Without
<1>4. CASE CopyManifest(w)
  <2>1. diffDir' = rmdirp(diffDir, w) \/ diffDir' = diffDir
    BY <1>4 DEF CopyManifest
  <2>2. QED
    BY <2>1 DEF Domains, rmdirp, SetDir, NoDir
<1>5. CASE Cleanup(w)
  <2>1. \E n : RmDirP(diffDir, diffDir', w, n)
    BY <1>5 DEF Cleanup
  <2>2. Shrinks(diffDir, diffDir', w)
    BY <2>1, RmDirPOwn DEF Domains
  <2>3. QED
    BY <2>2 DEF Shrinks
<1>6. CASE UnzipOld(w) \/ ParseDiffManifest(w) \/ NextEntry(w) \/ Unsquash(w)
  BY <1>6 DEF UnzipOld, ParseDiffManifest, NextEntry, Unsquash, dirVars
<1>7. CASE Added(w) \/ Unchanged(w) \/ Removed(w) \/ PatchRefused(w) \/ PatchByCommand(w) \/ PatchByCopy(w)
  BY <1>7 DEF Added, Unchanged, ApplyCopy, Removed, PatchRefused, PatchByCommand, PatchByCopy,
     PatchStarts, Changed, Applying
<1>8. CASE PatchByEspatch(w) \/ EspatchRuns(w) \/ EspatchReturns(w)
  BY <1>8 DEF PatchByEspatch, PatchStarts, Changed, Applying, EspatchRuns, EspatchReturns, dirVars
<1>9. CASE Repackage(w) \/ Chdir(w) \/ Zip(w) \/ LibZip(w) \/ Return(w)
  BY <1>9 DEF Repackage, Chdir, Zip, LibZip, Return, dirVars
<1>10. QED
  BY <1>1, <1>2, <1>3, <1>4, <1>5, <1>6, <1>7, <1>8, <1>9 DEF Reconstruct

\* What is taken for a manifest of differences, left over or not, is a list.
LEMMA ManifestsNext ==
  ASSUME Domains, \A w \in Workers : Listed(w) /\ Manifested(w), [Next]_vars
  PROVE  \A w \in Workers : Manifested(w)'
<1>1. CASE UNCHANGED diffDir
  BY <1>1 DEF Manifested
<1>2. CASE DeltaInit \/ DeltaStop \/ ProcessEnds \/ UNCHANGED vars
  BY <1>1, <1>2 DEF DeltaInit, DeltaStop, ProcessEnds, vars, dirVars
<1>3. ASSUME NEW w \in Workers, Prepare(w) PROVE UNCHANGED diffDir
  BY <1>3 DEF Prepare, dirVars
<1>4. ASSUME NEW w \in Workers, Reconstruct(w), ~EspatchCrashes(w), NEW u \in Workers PROVE Manifested(u)'
  <2>1. CASE u # w
    BY <1>4, <2>1, ReconstructDiff DEF Manifested
  <2>2. CASE u = w
    <3>1. pc[w] = "unzip_diff" /\ "manifest_diff.xml" \in DOMAIN job[w].diff
            => IsList(job[w].diff["manifest_diff.xml"])
      BY JobAssumption DEF Listed, IsList
    <3>2. "manifest_diff.xml" \in DOMAIN diffDir'[w] =>
            \/ /\ pc[w] = "unzip_diff" /\ "manifest_diff.xml" \in DOMAIN job[w].diff
               /\ diffDir'[w]["manifest_diff.xml"] = job[w].diff["manifest_diff.xml"]
            \/ /\ "manifest_diff.xml" \in DOMAIN diffDir[w]
               /\ diffDir'[w]["manifest_diff.xml"] = diffDir[w]["manifest_diff.xml"]
      BY <1>4, ReconstructDiff
    <3>3. QED
      BY <2>2, <3>1, <3>2 DEF Manifested
  <2>3. QED
    BY <2>1, <2>2
<1>5. QED
  BY <1>1, <1>2, <1>3, <1>4 DEF Next, Crash, EspatchCrashes, Reconstruct

(***************************************************************************)
(* For any number of components, any packages and manifests of             *)
(* differences, any tools, and any number of failing commands, system      *)
(* calls and restarts: a package that prepare_install_action reports ready *)
(* after delta_reconstruct has exactly the promised files.  Two things are *)
(* assumed of the world: none of the failures happens that the code does   *)
(* not look at, and components are not prepared at the same time in the    *)
(* build where zip_zip changes the working directory of the process.       *)
(***************************************************************************)
THEOREM ReadyPackageIsIntact ==
  ASSUME ~SilentFailures, ~ConcurrentShell
  PROVE  Spec => []ReadyIsIntact
<1> DEFINE Inv == IInv /\ \A w \in Workers : Manifested(w)
<1>1. Init => Inv
  <2>1. Init => \A w \in Workers : Manifested(w)
    BY DEF Init, Manifested, NoDir
  <2>2. QED
    BY <2>1, IInvInit
<1>2. Inv /\ [Next]_vars => Inv'
  <2>1. Inv /\ [Next]_vars => IInv'
    BY IInvNext
  <2>2. Inv /\ [Next]_vars => \A w \in Workers : Manifested(w)'
    BY ManifestsNext DEF IInv
  <2>3. QED
    BY <2>1, <2>2
<1>3. Inv => ReadyIsIntact
  BY DEF IInv, Packing, ReadyIsIntact
<1>4. QED
  BY <1>1, <1>2, <1>3, PTL DEF Spec

----------------------------------------------------------------------------
(***************************************************************************)
(* A worker's directories are touched by nobody else.                      *)
(***************************************************************************)
DirDomains ==
  /\ DOMAIN pc = Workers /\ DOMAIN job = Workers
  /\ \A d \in {oldDir, diffDir, newDir, artDir} : DOMAIN d = Workers

OwnDirs(w) ==
  /\ DirDomains'
  /\ \A u \in Workers : u # w =>
       /\ pc'[u] = pc[u] /\ job'[u] = job[u]
       /\ oldDir'[u] = oldDir[u] /\ diffDir'[u] = diffDir[u]
       /\ newDir'[u] = newDir[u] /\ artDir'[u] = artDir[u]

\* Every step of a reconstruction.
LEMMA ReconstructOwnDirs ==
  ASSUME DirDomains, NEW w \in Workers, Reconstruct(w), ~EspatchCrashes(w)
  PROVE  OwnDirs(w)
<1>1. CASE MakeDirs(w)
  <2>1. \E a, b, c : RmDirP(oldDir, oldDir', w, a) /\ RmDirP(diffDir, diffDir', w, b) /\ RmDirP(newDir, newDir', w, c)
    BY <1>1 DEF MakeDirs
  <2>2. Shrinks(oldDir, oldDir', w) /\ Shrinks(diffDir, diffDir', w) /\ Shrinks(newDir, newDir', w)
    BY <2>1, RmDirPOwn DEF DirDomains
  <2>3. (Goto(w, "unzip_old") \/ Goto(w, "cleanup")) /\ UNCHANGED <<artDir, job>>
    BY <1>1 DEF MakeDirs, Elsewhere
  <2>4. QED
    BY <2>2, <2>3 DEF DirDomains, OwnDirs, Shrinks, Goto
<1>2. CASE UnzipOld(w)
  BY <1>2 DEF DirDomains, OwnDirs, UnzipOld, Unzip, Goto, Fail, SetDir, rmdirp, Elsewhere,
     dirVars
<1>3. CASE UnzipDiff(w)
  BY <1>3 DEF DirDomains, OwnDirs, UnzipDiff, Unzip, Goto, Fail, SetDir, rmdirp,
     Elsewhere, dirVars
<1>4. CASE ParseDiffManifest(w)
  BY <1>4 DEF DirDomains, OwnDirs, ParseDiffManifest, Goto, Fail, SetDir, rmdirp,
     Elsewhere, dirVars
<1>5. CASE NextEntry(w)
  BY <1>5 DEF DirDomains, OwnDirs, NextEntry, Goto, Fail, SetDir, rmdirp, Elsewhere,
     dirVars
<1>6. CASE Unsquash(w)
  BY <1>6 DEF DirDomains, OwnDirs, Unsquash, Goto, Fail, SetDir, rmdirp, Elsewhere, dirVars
<1>7. CASE Added(w)
  BY <1>7 DEF DirDomains, OwnDirs, Added, ApplyCopy, Applying, NewFile, Goto, Fail, SetDir, rmdirp, Elsewhere, dirVars
<1>8. CASE Unchanged(w)
  BY <1>8 DEF DirDomains, OwnDirs, Unchanged, ApplyCopy, Applying, NewFile, Goto, Fail, SetDir,
     rmdirp, Elsewhere, dirVars
<1>9. CASE Removed(w)
  BY <1>9 DEF DirDomains, OwnDirs, Removed, Applying, NewFile, Goto, Fail, SetDir, rmdirp,
     Elsewhere, dirVars
<1>10. CASE PatchRefused(w)
  BY <1>10 DEF DirDomains, OwnDirs, PatchRefused, Changed, Applying, NewFile, Goto, Fail, SetDir,
     rmdirp, Elsewhere, dirVars
<1>11. CASE PatchByCommand(w)
  BY <1>11 DEF DirDomains, OwnDirs, PatchByCommand, PatchStarts, Changed, Applying, NewFile, Goto,
     Fail, SetDir, rmdirp, Elsewhere, dirVars
<1>12. CASE PatchByCopy(w)
  BY <1>12 DEF DirDomains, OwnDirs, PatchByCopy, PatchStarts, Changed, Applying, NewFile, Goto,
     Fail, SetDir, rmdirp, Elsewhere, dirVars
<1>13. CASE PatchByEspatch(w)
  BY <1>13 DEF DirDomains, OwnDirs, PatchByEspatch, PatchStarts, Changed, Applying, Goto, Fail,
     SetDir, rmdirp, Elsewhere, dirVars
<1>14. CASE EspatchRuns(w)
  BY <1>14 DEF DirDomains, OwnDirs, EspatchRuns, Goto, Fail, SetDir, rmdirp, Elsewhere,
     dirVars
<1>15. CASE EspatchReturns(w)
  BY <1>15 DEF DirDomains, OwnDirs, EspatchReturns, NewFile, Goto, Fail, SetDir, rmdirp,
     Elsewhere, dirVars
<1>16. CASE Consume(w)
  BY <1>16 DEF DirDomains, OwnDirs, Consume, Goto, Fail, SetDir, rmdirp, Elsewhere, dirVars
<1>17. CASE Repackage(w)
  BY <1>17 DEF DirDomains, OwnDirs, Repackage, Goto, Fail, SetDir, rmdirp, Elsewhere,
     dirVars
<1>18. CASE CopyManifest(w)
  BY <1>18 DEF DirDomains, OwnDirs, CopyManifest, Goto, Fail, SetDir, rmdirp, Elsewhere,
     dirVars
<1>19. CASE Chdir(w)
  BY <1>19 DEF DirDomains, OwnDirs, Chdir, Goto, Fail, SetDir, rmdirp, Elsewhere, dirVars
<1>20. CASE Zip(w)
  BY <1>20 DEF DirDomains, OwnDirs, Zip, Goto, Fail, SetDir, rmdirp, Elsewhere, dirVars
<1>21. CASE LibZip(w)
  BY <1>21 DEF DirDomains, OwnDirs, LibZip, Goto, Fail, SetDir, rmdirp, Elsewhere, dirVars
<1>22. CASE Cleanup(w)
  <2>1. \E a, b, c, d : /\ RmDirP(artDir, artDir', w, a) /\ RmDirP(oldDir, oldDir', w, b)
                        /\ RmDirP(diffDir, diffDir', w, c) /\ RmDirP(newDir, newDir', w, d)
    BY <1>22 DEF Cleanup
  <2>2. /\ Shrinks(artDir, artDir', w) /\ Shrinks(oldDir, oldDir', w)
        /\ Shrinks(diffDir, diffDir', w) /\ Shrinks(newDir, newDir', w)
    BY <2>1, RmDirPOwn DEF DirDomains
  <2>3. Goto(w, "return") /\ UNCHANGED job
    BY <1>22 DEF Cleanup, Elsewhere
  <2>4. QED
    BY <2>2, <2>3 DEF DirDomains, OwnDirs, Shrinks, Goto
<1>23. CASE Return(w)
  BY <1>23 DEF DirDomains, OwnDirs, Return, Goto, Fail, SetDir, rmdirp, Elsewhere, dirVars
<1>24. QED
  BY <1>1, <1>2, <1>3, <1>4, <1>5, <1>6, <1>7, <1>8, <1>9, <1>10, <1>11, <1>12, <1>13, <1>14,
     <1>15, <1>16, <1>17, <1>18, <1>19, <1>20, <1>21, <1>22, <1>23 DEF Reconstruct

\* Every step leaves the other workers' directories alone.
LEMMA DirsNext ==
  ASSUME DirDomains, [Next]_vars
  PROVE  DirDomains'
<1>1. CASE DeltaInit
  BY <1>1 DEF DeltaInit, DirDomains, dirVars
<1>2. CASE DeltaStop
  BY <1>2 DEF DeltaStop, Forget, DirDomains, dirVars
<1>3. CASE ProcessEnds
  BY <1>3 DEF ProcessEnds, Forget, DirDomains, dirVars
<1>4. ASSUME NEW w \in Workers, Prepare(w) PROVE DirDomains'
  <2>1. PICK j \in Jobs[w] :
          /\ job' = [job EXCEPT ![w] = j]
          /\ pc' = pc \/ pc' = [pc EXCEPT ![w] = IF j.base = NoFile THEN "return" ELSE "prepare"]
    BY <1>4 DEF Prepare
  <2>2. pc[w] = "idle" /\ UNCHANGED dirVars
    BY <1>4 DEF Prepare
  <2>3. QED
    BY <2>1, <2>2 DEF DirDomains, dirVars
<1>5. ASSUME NEW w \in Workers, Reconstruct(w) PROVE DirDomains'
  <2>1. CASE EspatchCrashes(w)
    BY <1>3, <2>1 DEF EspatchCrashes
  <2>2. CASE ~EspatchCrashes(w)
    <3>1. OwnDirs(w)
      BY <1>5, <2>2, ReconstructOwnDirs DEF DirDomains
    <3>2. QED
      BY <3>1 DEF OwnDirs
  <2>3. QED
    BY <2>1, <2>2
<1>6. CASE UNCHANGED vars
  BY <1>6 DEF vars, dirVars, DirDomains
<1>7. QED
  BY <1>1, <1>2, <1>3, <1>4, <1>5, <1>6 DEF Next, Crash

----------------------------------------------------------------------------
(***************************************************************************)
(* The types.  They need no assumption about failures: the list and the    *)
(* place in it are kept by Listed, and espatch has ended when delta_patch  *)
(* goes on.                                                                *)
(***************************************************************************)
Errors == {"OK", "ERR", "SYS"}
EspFields == {"step", "ok", "crash", "ref", "new", "newsize", "patch"}

\* The values of the workers' variables, and the counters.
Values ==
  /\ pc \in [Workers -> Steps]
  /\ err \in [Workers -> Errors]
  /\ state \in [Workers -> {"none", "READY", "FAILED"}]
  /\ ue \in [Workers -> {None, "UE_INCREMENTAL_FAILED"}]
  /\ k \in [Workers -> Nat]
  /\ wd \in [Workers -> Workers \cup {None}] /\ cwd \in Workers \cup {None}
  /\ faults \in 0..MaxFaults /\ crashes \in 0..MaxCrashes /\ prepares \in 0..MaxPrepares

\* The context of espatch.
EspTyped ==
  /\ DOMAIN esp = Workers
  /\ \A w \in Workers : /\ DOMAIN esp[w] = EspFields /\ esp[w].step \in EspSteps
                        /\ esp[w].step # "off" => pc[w] = "espatch"

\* A worker is in its list.
InList(w) == Listed(w) /\ k[w] <= Len(list[w])

TypeInv == Domains /\ Values /\ EspTyped /\ \A w \in Workers : InList(w)

\* A step of a reconstruction is its worker's alone.
LEMMA ReconstructTouches ==
  ASSUME Domains, NEW w \in Workers, Reconstruct(w), ~EspatchCrashes(w)
  PROVE  Touches(w)
<1>1. CASE MakeDirs(w)
  <2>1. \E b, c : RmDirP(diffDir, diffDir', w, b) /\ RmDirP(newDir, newDir', w, c)
    BY <1>1 DEF MakeDirs
  <2>2. Shrinks(diffDir, diffDir', w) /\ Shrinks(newDir, newDir', w)
    BY <2>1, RmDirPOwn DEF Domains
  <2>3. /\ UNCHANGED <<list, k, Elsewhere>>
        /\ \/ Goto(w, "unzip_old") /\ UNCHANGED err
           \/ Goto(w, "cleanup") /\ Fail(w, "SYS")
    BY <1>1 DEF MakeDirs
  <2>4. QED
    BY <2>2, <2>3 DEF Domains, Touches, Shrinks, Goto, Fail, Elsewhere, deltaStg
<1>2. CASE UnzipOld(w)
  BY <1>2 DEF Domains, Touches, Goto, Fail, SetDir, rmdirp, Elsewhere, deltaStg, dirVars,
     UnzipOld, Unzip
<1>3. CASE UnzipDiff(w)
  <2>1. Unzip(w, diffDir, diffDir', job[w].diff, "unzip_diff", "parse")
    BY <1>3 DEF UnzipDiff
  <2>2. Gains(diffDir, diffDir', w, job[w].diff)
    BY <2>1, UnzipOwn DEF Domains
  <2>3. /\ UNCHANGED <<newDir, list, k, Elsewhere>>
        /\ \/ Goto(w, "parse") /\ UNCHANGED err
           \/ Goto(w, "cleanup") /\ Fail(w, "ERR")
    BY <1>3 DEF UnzipDiff, Unzip
  <2>4. QED
    BY <2>2, <2>3 DEF Domains, Touches, Gains, Goto, Fail, Elsewhere, deltaStg
<1>4. CASE ParseDiffManifest(w)
  BY <1>4 DEF Domains, Touches, Goto, Fail, SetDir, rmdirp, Elsewhere, deltaStg, dirVars,
     ParseDiffManifest
<1>5. CASE NextEntry(w)
  BY <1>5 DEF Domains, Touches, Goto, Fail, SetDir, rmdirp, Elsewhere, deltaStg, dirVars,
     NextEntry
<1>6. CASE Unsquash(w)
  BY <1>6 DEF Domains, Touches, Goto, Fail, SetDir, rmdirp, Elsewhere, deltaStg, dirVars,
     Unsquash
<1>7. CASE Added(w)
  BY <1>7 DEF Domains, Touches, Goto, Fail, SetDir, rmdirp, Elsewhere, deltaStg, dirVars,
     Added, ApplyCopy, Applying, CopyFile, NewFile
<1>8. CASE Unchanged(w)
  BY <1>8 DEF Domains, Touches, Goto, Fail, SetDir, rmdirp, Elsewhere, deltaStg, dirVars,
     Unchanged, ApplyCopy, Applying, CopyFile, NewFile
<1>9. CASE Removed(w)
  BY <1>9 DEF Domains, Touches, Goto, Fail, SetDir, rmdirp, Elsewhere, deltaStg, dirVars,
     Removed, Applying, NewFile
<1>10. CASE PatchRefused(w)
  BY <1>10 DEF Domains, Touches, Goto, Fail, SetDir, rmdirp, Elsewhere, deltaStg, dirVars,
     PatchRefused, Changed, Applying, NewFile
<1>11. CASE PatchByCommand(w)
  BY <1>11 DEF Domains, Touches, Goto, Fail, SetDir, rmdirp, Elsewhere, deltaStg, dirVars,
     PatchByCommand, PatchStarts, Changed, Applying, PatchCommand, NewFile
<1>12. CASE PatchByCopy(w)
  BY <1>12 DEF Domains, Touches, Goto, Fail, SetDir, rmdirp, Elsewhere, deltaStg, dirVars,
     PatchByCopy, PatchStarts, Changed, Applying, CopyFile, NewFile
<1>13. CASE PatchByEspatch(w)
  BY <1>13 DEF Domains, Touches, Goto, Fail, SetDir, rmdirp, Elsewhere, deltaStg, dirVars,
     PatchByEspatch, PatchStarts, Changed, Applying, EspOpen, EspReturn
<1>14. CASE EspatchRuns(w)
  BY <1>14 DEF Domains, Touches, EspatchRuns, Elsewhere, deltaStg, dirVars
<1>15. CASE EspatchReturns(w)
  BY <1>15 DEF Domains, Touches, Goto, Fail, SetDir, rmdirp, Elsewhere, deltaStg, dirVars,
     EspatchReturns, NewFile
<1>16. CASE Consume(w)
  BY <1>16 DEF Domains, Touches, Goto, Fail, SetDir, rmdirp, Elsewhere, deltaStg, dirVars,
     Consume
<1>17. CASE Repackage(w)
  BY <1>17 DEF Domains, Touches, Goto, Fail, SetDir, rmdirp, Elsewhere, deltaStg, dirVars,
     Repackage, CopyFile
<1>18. CASE CopyManifest(w)
  BY <1>18 DEF Domains, Touches, Goto, Fail, SetDir, rmdirp, Elsewhere, deltaStg, dirVars,
     CopyManifest, CopyFile
<1>19. CASE Chdir(w)
  BY <1>19 DEF Domains, Touches, Goto, Fail, SetDir, rmdirp, Elsewhere, deltaStg, dirVars,
     Chdir
<1>20. CASE Zip(w)
  BY <1>20 DEF Domains, Touches, Goto, Fail, SetDir, rmdirp, Elsewhere, deltaStg, dirVars,
     Zip
<1>21. CASE LibZip(w)
  BY <1>21 DEF Domains, Touches, Goto, Fail, SetDir, rmdirp, Elsewhere, deltaStg, dirVars,
     LibZip
<1>22. CASE Cleanup(w)
  <2>1. \E c, d : RmDirP(diffDir, diffDir', w, c) /\ RmDirP(newDir, newDir', w, d)
    BY <1>22 DEF Cleanup
  <2>2. Shrinks(diffDir, diffDir', w) /\ Shrinks(newDir, newDir', w)
    BY <2>1, RmDirPOwn DEF Domains
  <2>3. UNCHANGED <<list, k, err, Elsewhere>> /\ Goto(w, "return")
    BY <1>22 DEF Cleanup
  <2>4. QED
    BY <2>2, <2>3 DEF Domains, Touches, Shrinks, Goto, Elsewhere, deltaStg
<1>23. CASE Return(w)
  BY <1>23 DEF Domains, Touches, Goto, Fail, SetDir, rmdirp, Elsewhere, deltaStg, dirVars,
     Return, OnPrepareInstall, Hashed
<1>24. QED
  BY <1>1, <1>2, <1>3, <1>4, <1>5, <1>6, <1>7, <1>8, <1>9, <1>10, <1>11, <1>12, <1>13, <1>14,
     <1>15, <1>16, <1>17, <1>18, <1>19, <1>20, <1>21, <1>22, <1>23 DEF Reconstruct

\* Every step keeps the values.
LEMMA ReconstructValues ==
  ASSUME Values, NEW w \in Workers, Reconstruct(w), ~EspatchCrashes(w)
  PROVE  Values'
<1> USE FaultAssumption DEF Steps, Errors
<1>1. CASE MakeDirs(w)
  <2>1. PICK a \in 0..1, b \in 0..1, c \in 0..1, m \in 0..1 :
          /\ Failing(a + b + c + m)
          /\ \/ Goto(w, "unzip_old") /\ UNCHANGED err
             \/ Goto(w, "cleanup") /\ Fail(w, "SYS")
    BY <1>1 DEF MakeDirs
  <2>2. UNCHANGED <<state, ue, k, wd, cwd, crashes, prepares>>
    BY <1>1 DEF MakeDirs, Elsewhere
  <2>3. QED
    BY <2>1, <2>2 DEF Values, Failing, Goto, Fail
<1>2. CASE UnzipOld(w)
  BY <1>2 DEF Values, Goto, Fail, Fault, Elsewhere, deltaStg, UnzipOld, Unzip
<1>3. CASE UnzipDiff(w)
  BY <1>3 DEF Values, Goto, Fail, Fault, Elsewhere, deltaStg, UnzipDiff, Unzip
<1>4. CASE ParseDiffManifest(w)
  BY <1>4 DEF Values, Goto, Fail, Fault, Elsewhere, deltaStg, ParseDiffManifest
<1>5. CASE NextEntry(w)
  BY <1>5 DEF Values, Goto, Fail, Fault, Elsewhere, deltaStg, NextEntry
<1>6. CASE Unsquash(w)
  BY <1>6 DEF Values, Goto, Fail, Fault, Elsewhere, deltaStg, Unsquash
<1>7. CASE Added(w)
  BY <1>7 DEF Values, Goto, Fail, Fault, Elsewhere, deltaStg, Added, ApplyCopy, Applying, CopyFile,
     NewFile
<1>8. CASE Unchanged(w)
  BY <1>8 DEF Values, Goto, Fail, Fault, Elsewhere, deltaStg, Unchanged, ApplyCopy, Applying,
     CopyFile, NewFile
<1>9. CASE Removed(w)
  BY <1>9 DEF Values, Goto, Fail, Fault, Elsewhere, deltaStg, Removed, Applying, NewFile
<1>10. CASE PatchRefused(w)
  BY <1>10 DEF Values, Goto, Fail, Fault, Elsewhere, deltaStg, PatchRefused, Changed, Applying,
     NewFile
<1>11. CASE PatchByCommand(w)
  <2>1. UNCHANGED faults \/ Fault
    BY <1>11 DEF PatchByCommand, PatchCommand
  <2>2. (UNCHANGED err \/ Fail(w, "ERR")) /\ Goto(w, "consume")
    BY <1>11 DEF PatchByCommand, NewFile
  <2>3. UNCHANGED <<state, ue, k, wd, cwd, crashes, prepares>>
    BY <1>11 DEF PatchByCommand, PatchStarts, Changed, Applying, Elsewhere
  <2>4. QED
    BY <2>1, <2>2, <2>3 DEF Values, Fault, Fail, Goto
<1>12. CASE PatchByCopy(w)
  BY <1>12 DEF Values, Goto, Fail, Fault, Elsewhere, deltaStg, PatchByCopy, PatchStarts, Changed,
     Applying, CopyFile, NewFile
<1>13. CASE PatchByEspatch(w)
  BY <1>13 DEF Values, Goto, Fail, Fault, Elsewhere, deltaStg, PatchByEspatch, PatchStarts,
     Changed, Applying, EspOpen, EspReturn
<1>14. CASE EspatchRuns(w)
  <2>1. UNCHANGED faults \/ Fault
    BY <1>14 DEF EspatchRuns, EspStep, EspCopy, EspLoops, EspProcess, EspMisreads, EspCleanup
  <2>2. UNCHANGED <<pc, err, state, ue, k, wd, cwd, crashes, prepares>>
    BY <1>14 DEF EspatchRuns, Elsewhere
  <2>3. QED
    BY <2>1, <2>2 DEF Values, Fault
<1>15. CASE EspatchReturns(w)
  BY <1>15 DEF Values, Goto, Fail, Fault, Elsewhere, deltaStg, EspatchReturns, NewFile
<1>16. CASE Consume(w)
  BY <1>16 DEF Values, Goto, Fail, Fault, Elsewhere, deltaStg, Consume
<1>17. CASE Repackage(w)
  BY <1>17 DEF Values, Goto, Fail, Fault, Elsewhere, deltaStg, Repackage, CopyFile
<1>18. CASE CopyManifest(w)
  BY <1>18 DEF Values, Goto, Fail, Fault, Elsewhere, deltaStg, CopyManifest, CopyFile
<1>19. CASE Chdir(w)
  BY <1>19 DEF Values, Goto, Fail, Fault, Elsewhere, deltaStg, Chdir
<1>20. CASE Zip(w)
  BY <1>20 DEF Values, Goto, Fail, Fault, Elsewhere, deltaStg, Zip
<1>21. CASE LibZip(w)
  <2>1. (UNCHANGED faults \/ Fault) /\ (UNCHANGED err \/ Fail(w, "ERR")) /\ Goto(w, "cleanup")
    BY <1>21 DEF LibZip
  <2>2. UNCHANGED <<state, ue, k, wd, cwd, crashes, prepares>>
    BY <1>21 DEF LibZip
  <2>3. QED
    BY <2>1, <2>2 DEF Values, Fault, Fail, Goto
<1>22. CASE Cleanup(w)
  <2>1. PICK a \in 0..1, b \in 0..1, c \in 0..1, d \in 0..1 : Failing(a + b + c + d)
    BY <1>22 DEF Cleanup
  <2>2. UNCHANGED <<err, state, ue, k, wd, cwd, crashes, prepares>> /\ Goto(w, "return")
    BY <1>22 DEF Cleanup, Elsewhere
  <2>3. QED
    BY <2>1, <2>2 DEF Values, Failing, Goto
<1>23. CASE Return(w)
  BY <1>23 DEF Values, Goto, Fail, Fault, Elsewhere, deltaStg, Return, OnPrepareInstall, Hashed
<1>24. QED
  BY <1>1, <1>2, <1>3, <1>4, <1>5, <1>6, <1>7, <1>8, <1>9, <1>10, <1>11, <1>12, <1>13, <1>14,
     <1>15, <1>16, <1>17, <1>18, <1>19, <1>20, <1>21, <1>22, <1>23 DEF Reconstruct

\* Where espatch is not called it has nothing under way.
LEMMA EspIdle ==
  ASSUME EspTyped, NEW w \in Workers, Touches(w), pc[w] # "espatch", UNCHANGED esp
  PROVE  EspTyped'
BY DEF EspTyped, Touches

\* A step of espatch changes the context of its worker, which stays one.
EspOwn(w) ==
  /\ DOMAIN esp' = Workers /\ \A u \in Workers : u # w => esp'[u] = esp[u]
  /\ DOMAIN esp'[w] = EspFields /\ esp'[w].step \in EspSteps

\* Such a step keeps the types.
LEMMA EspOwnKeeps ==
  ASSUME EspTyped, NEW w \in Workers, Touches(w), EspOwn(w), esp'[w].step # "off" => pc'[w] = "espatch"
  PROVE  EspTyped'
BY DEF EspTyped, Touches, EspOwn

\* The assignments that espatch makes to its context.
LEMMA EspAssigns ==
  ASSUME EspTyped, NEW w \in Workers, NEW a, NEW b, NEW s \in EspSteps,
         \/ esp' = [esp EXCEPT ![w].step = s]
         \/ esp' = [esp EXCEPT ![w].step = s, ![w].ok = a]
         \/ esp' = [esp EXCEPT ![w].step = s, ![w].ok = a, ![w].crash = b]
         \/ esp' = [esp EXCEPT ![w].new = b, ![w].step = s, ![w].ok = a]
         \/ esp' = [esp EXCEPT ![w].new = a, ![w].step = s]
         \/ esp' = [esp EXCEPT ![w].new = a, ![w].newsize = b]
         \/ esp' = [esp EXCEPT ![w] = [[esp[w] EXCEPT !.new = b] EXCEPT !.step = s, !.ok = a]]
  PROVE  EspOwn(w)
BY DEF EspTyped, EspFields, EspOwn

\* A step of espatch.
LEMMA EspStepOwn ==
  ASSUME EspTyped, NEW w \in Workers, EspStep(w)
  PROVE  EspOwn(w)
<1> "process" \in EspSteps /\ "cleanup" \in EspSteps /\ "returned" \in EspSteps /\ "looping" \in EspSteps
  BY DEF EspSteps
<1>1. CASE EspCopy(w)
  <2>1. \/ \E a : esp' = [esp EXCEPT ![w].new = a, ![w].step = "process"]
        \/ esp' = [esp EXCEPT ![w].step = "looping"]
    BY <1>1 DEF EspCopy, EspLoops
  <2>2. QED
    BY <2>1, EspAssigns
<1>2. CASE EspProcess(w)
  <2>1. \/ \E a : esp' = [esp EXCEPT ![w].step = "cleanup", ![w].ok = a]
        \/ esp' = [esp EXCEPT ![w].new = WriteBlock(@, esp[w].newsize + 1, Decoded(esp[w], esp[w].newsize + 1)),
                              ![w].newsize = @ + 1]
    BY <1>2, Zenon DEF EspProcess
  <2>2. QED
    BY <2>1, EspAssigns
<1>3. CASE EspCleanup(w)
  <2>1. \/ \E a : esp' = [esp EXCEPT ![w].step = "returned", ![w].ok = a]
        \/ \E a, b : esp' = [esp EXCEPT ![w] = [[esp[w] EXCEPT !.new = b] EXCEPT !.step = "returned", !.ok = a]]
        \/ \E a, b : esp' = [esp EXCEPT ![w].new = b, ![w].step = "returned", ![w].ok = a]
    BY <1>3 DEF EspCleanup, EspReturn
  <2>2. QED
    BY <2>1, EspAssigns
<1>4. CASE EspMisreads(w)
  <2>1. \/ \E a : esp' = [esp EXCEPT ![w].step = "cleanup", ![w].ok = a]
        \/ \E a, b : esp' = [esp EXCEPT ![w].step = "returned", ![w].ok = a, ![w].crash = b]
        \/ esp' = [esp EXCEPT ![w].new = WriteBlock(@, esp[w].newsize + 1, Bad), ![w].newsize = @ + 1]
        \/ esp' = [esp EXCEPT ![w].step = "looping"]
    BY <1>4, Zenon DEF EspMisreads, EspLoops
  <2>2. QED
    BY <2>1, EspAssigns
<1>5. QED
  BY <1>1, <1>2, <1>3, <1>4 DEF EspStep

\* The call.
LEMMA EspOpens ==
  ASSUME EspTyped, NEW w \in Workers, NEW old, NEW new, NEW diff, EspOpen(w, old, new, diff)
  PROVE  EspOwn(w)
<1> "copy" \in EspSteps /\ "returned" \in EspSteps
  BY DEF EspSteps
<1>1. CASE \E a, b : esp' = [esp EXCEPT ![w].step = "returned", ![w].ok = a, ![w].crash = b]
  BY <1>1, EspAssigns
<1>2. CASE \E a : esp' = [esp EXCEPT ![w].step = "returned", ![w].ok = a]
  BY <1>2, EspAssigns
<1>3. CASE esp' = [esp EXCEPT ![w] = [EspOff EXCEPT !.step = "copy", !.ref = old, !.new = new, !.patch = diff]]
  BY <1>3 DEF EspTyped, EspFields, EspOwn, EspOff
<1>4. QED
  BY <1>1, <1>2, <1>3 DEF EspOpen, EspReturn


\* Every step of a reconstruction keeps the context of espatch.
LEMMA ReconstructEsp ==
  ASSUME Domains, EspTyped, NEW w \in Workers, Touches(w), Reconstruct(w), ~EspatchCrashes(w)
  PROVE  EspTyped'
<1>1. CASE PatchByEspatch(w)
  <2>1. EspOwn(w)
    BY <1>1, EspOpens DEF PatchByEspatch
  <2>2. pc'[w] = "espatch"
    BY <1>1 DEF Domains, PatchByEspatch, Goto
  <2>3. QED
    BY <2>1, <2>2, EspOwnKeeps
<1>2. CASE EspatchRuns(w)
  BY <1>2, EspStepOwn, EspOwnKeeps DEF EspatchRuns
<1>3. CASE EspatchReturns(w)
  <2>1. esp' = [esp EXCEPT ![w] = EspOff]
    BY <1>3 DEF EspatchReturns
  <2>2. EspOwn(w) /\ esp'[w].step = "off"
    BY <2>1 DEF EspTyped, EspOwn, EspOff, EspFields, EspSteps
  <2>3. QED
    BY <2>2, EspOwnKeeps
<1>4. CASE MakeDirs(w) \/ UnzipOld(w) \/ UnzipDiff(w) \/ ParseDiffManifest(w) \/ NextEntry(w) \/ Unsquash(w)
  BY <1>4, EspIdle DEF MakeDirs, UnzipOld, Unzip, UnzipDiff, ParseDiffManifest, NextEntry, Unsquash
<1>5. CASE Added(w) \/ Unchanged(w) \/ Removed(w) \/ PatchRefused(w) \/ PatchByCommand(w) \/ PatchByCopy(w)
  BY <1>5, EspIdle DEF Added, ApplyCopy, Applying, Unchanged, Removed, PatchRefused, Changed,
     PatchByCommand, PatchStarts, PatchByCopy
<1>6. CASE Consume(w) \/ Repackage(w) \/ CopyManifest(w) \/ Chdir(w) \/ Zip(w) \/ LibZip(w) \/ Cleanup(w) \/ Return(w)
  BY <1>6, EspIdle DEF Consume, Repackage, CopyManifest, Chdir, Zip, LibZip, Cleanup, Return
<1>7. QED
  BY <1>1, <1>2, <1>3, <1>4, <1>5, <1>6 DEF Reconstruct

\* Every step of a reconstruction keeps its worker's place in the list.
LEMMA ReconstructInList ==
  ASSUME Domains, NEW w \in Workers, InList(w), Manifested(w), Reconstruct(w), ~EspatchCrashes(w)
  PROVE  InList(w)'
<1>1. CASE MakeDirs(w)
  <2>1. pc[w] = "prepare" /\ (Goto(w, "unzip_old") \/ Goto(w, "cleanup")) /\ UNCHANGED <<list, k, job>>
    BY <1>1 DEF MakeDirs, Elsewhere
  <2>2. QED
    BY <2>1 DEF Domains, InList, Listed, Goto
<1>2. CASE UnzipOld(w)
  BY <1>2 DEF Domains, InList, Listed, Entry, Goto, SetDir, Elsewhere, UnzipOld, Unzip
<1>3. CASE UnzipDiff(w)
  <2>1. /\ pc[w] = "unzip_diff" /\ (Goto(w, "parse") \/ Goto(w, "cleanup"))
        /\ UNCHANGED <<list, k, job>>
    BY <1>3 DEF UnzipDiff, Unzip, Elsewhere
  <2>2. QED
    BY <2>1 DEF Domains, InList, Listed, Goto
<1>4. CASE ParseDiffManifest(w)
  <2> DEFINE m == File(diffDir[w], "manifest_diff.xml")
  <2>1. CASE pc'[w] = "entry"
    <3>1. m # NoFile /\ list'[w] = DiffList(m) /\ k'[w] = 0
      BY <1>4, <2>1 DEF Domains, InList, Listed, ParseDiffManifest, Goto, Fail
    <3>2. IsList(m)
      BY <3>1 DEF Manifested, File
    <3>3. IsList(DiffList(m))
      BY <3>2, DiffListIsList DEF IsList
    <3>4. IsList(list'[w]) /\ k'[w] <= Len(list'[w])
      BY <3>1, <3>3 DEF IsList
    <3>5. QED
      BY <2>1, <3>1, <3>4 DEF InList, Listed
  <2>2. CASE pc'[w] # "entry"
    BY <1>4, <2>2 DEF Domains, InList, Listed, ParseDiffManifest, Goto, Elsewhere, dirVars
  <2>3. QED
    BY <2>1, <2>2
<1>5. CASE NextEntry(w)
  <2>1. k[w] # Len(list[w]) => k[w] + 1 \in DOMAIN list[w]
    BY <1>5 DEF InList, Listed, IsList, NextEntry
  <2>2. QED
    BY <1>5, <2>1 DEF Domains, InList, Listed, NextEntry, Entry, Goto, Elsewhere, dirVars
<1>6. CASE Unsquash(w)
  BY <1>6 DEF Domains, InList, Listed, Entry, Goto, SetDir, Elsewhere, Unsquash
<1>7. CASE Added(w)
  <2>1. pc'[w] = "consume" /\ UNCHANGED <<list, k>> /\ pc[w] \in {"apply", "espatch"}
    BY <1>7 DEF Domains, Added, ApplyCopy, Applying, NewFile, Goto
  <2>2. QED
    BY <2>1 DEF InList, Listed
<1>8. CASE Unchanged(w)
  <2>1. pc'[w] = "consume" /\ UNCHANGED <<list, k>> /\ pc[w] \in {"apply", "espatch"}
    BY <1>8 DEF Domains, Unchanged, ApplyCopy, Applying, NewFile, Goto
  <2>2. QED
    BY <2>1 DEF InList, Listed
<1>9. CASE Removed(w)
  <2>1. pc'[w] = "consume" /\ UNCHANGED <<list, k>> /\ pc[w] \in {"apply", "espatch"}
    BY <1>9 DEF Domains, Removed, Applying, NewFile, Goto
  <2>2. QED
    BY <2>1 DEF InList, Listed
<1>10. CASE PatchRefused(w)
  <2>1. pc'[w] = "consume" /\ UNCHANGED <<list, k>> /\ pc[w] \in {"apply", "espatch"}
    BY <1>10 DEF Domains, PatchRefused, Changed, Applying, NewFile, Goto
  <2>2. QED
    BY <2>1 DEF InList, Listed
<1>11. CASE PatchByCommand(w)
  <2>1. pc'[w] = "consume" /\ UNCHANGED <<list, k>> /\ pc[w] \in {"apply", "espatch"}
    BY <1>11 DEF Domains, PatchByCommand, PatchStarts, Changed, Applying, NewFile, Goto
  <2>2. QED
    BY <2>1 DEF InList, Listed
<1>12. CASE PatchByCopy(w)
  <2>1. pc'[w] = "consume" /\ UNCHANGED <<list, k>> /\ pc[w] \in {"apply", "espatch"}
    BY <1>12 DEF Domains, PatchByCopy, PatchStarts, Changed, Applying, NewFile, Goto
  <2>2. QED
    BY <2>1 DEF InList, Listed
<1>13. CASE PatchByEspatch(w)
  BY <1>13 DEF Domains, InList, Listed, Entry, Goto, SetDir, Elsewhere, PatchByEspatch,
     PatchStarts, Changed, Applying
<1>14. CASE EspatchRuns(w)
  BY <1>14 DEF InList, Listed, EspatchRuns, Entry, Elsewhere, dirVars
<1>15. CASE EspatchReturns(w)
  <2>1. pc'[w] = "consume" /\ UNCHANGED <<list, k>> /\ pc[w] \in {"apply", "espatch"}
    BY <1>15 DEF Domains, EspatchReturns, NewFile, Goto
  <2>2. QED
    BY <2>1 DEF InList, Listed
<1>16. CASE Consume(w)
  <2>1. k[w] + 1 \in Nat /\ k[w] + 1 <= Len(list[w])
    BY <1>16 DEF InList, Listed, IsList, Consume
  <2>2. /\ UNCHANGED list
        /\ IF Entry(w).squash THEN pc'[w] = "repackage" /\ UNCHANGED k
                              ELSE pc'[w] = "entry" /\ k'[w] = k[w] + 1
    BY <1>16 DEF Domains, Consume, Goto
  <2>3. pc[w] = "consume"
    BY <1>16 DEF Consume
  <2>4. QED
    BY <2>1, <2>2, <2>3 DEF InList, Listed, Entry
<1>17. CASE Repackage(w)
  <2>1. k[w] + 1 \in Nat /\ k[w] + 1 <= Len(list[w])
    BY <1>17 DEF InList, Listed, IsList, Repackage
  <2>2. UNCHANGED list /\ pc'[w] = "entry" /\ k'[w] = k[w] + 1
    BY <1>17 DEF Domains, Repackage, Goto
  <2>3. QED
    BY <2>1, <2>2 DEF InList, Listed
<1>18. CASE CopyManifest(w)
  <2>1. pc'[w] \in {"chdir", "libzip", "cleanup", "zip", "return", "idle"} /\ UNCHANGED <<list, k>>
    BY <1>18 DEF Domains, CopyManifest, Goto
  <2>2. QED
    BY <2>1 DEF InList, Listed
<1>19. CASE Chdir(w)
  <2>1. pc'[w] \in {"chdir", "libzip", "cleanup", "zip", "return", "idle"} /\ UNCHANGED <<list, k>>
    BY <1>19 DEF Domains, Chdir, Goto
  <2>2. QED
    BY <2>1 DEF InList, Listed
<1>20. CASE Zip(w)
  <2>1. pc'[w] \in {"chdir", "libzip", "cleanup", "zip", "return", "idle"} /\ UNCHANGED <<list, k>>
    BY <1>20 DEF Domains, Zip, Goto
  <2>2. QED
    BY <2>1 DEF InList, Listed
<1>21. CASE LibZip(w)
  <2>1. pc'[w] \in {"chdir", "libzip", "cleanup", "zip", "return", "idle"} /\ UNCHANGED <<list, k>>
    BY <1>21 DEF Domains, LibZip, Goto
  <2>2. QED
    BY <2>1 DEF InList, Listed
<1>22. CASE Cleanup(w)
  <2>1. pc'[w] \in {"chdir", "libzip", "cleanup", "zip", "return", "idle"} /\ UNCHANGED <<list, k>>
    BY <1>22 DEF Domains, Cleanup, Goto
  <2>2. QED
    BY <2>1 DEF InList, Listed
<1>23. CASE Return(w)
  <2>1. pc'[w] \in {"chdir", "libzip", "cleanup", "zip", "return", "idle"} /\ UNCHANGED <<list, k>>
    BY <1>23 DEF Domains, Return, Goto
  <2>2. QED
    BY <2>1 DEF InList, Listed
<1>24. QED
  BY <1>1, <1>2, <1>3, <1>4, <1>5, <1>6, <1>7, <1>8, <1>9, <1>10, <1>11, <1>12, <1>13, <1>14,
     <1>15, <1>16, <1>17, <1>18, <1>19, <1>20, <1>21, <1>22, <1>23 DEF Reconstruct

\* Another worker's step leaves a worker's place alone.
LEMMA OthersInList ==
  ASSUME NEW w \in Workers, Touches(w), NEW u \in Workers, u # w, InList(u)
  PROVE  InList(u)'
BY DEF Touches, InList, Listed, Entry

\* When the process ends, or a worker's locals are gone.
LEMMA ForgetTypes ==
  ASSUME TypeInv, Forget, pc' = [w \in Workers |-> "off"], UNCHANGED dirVars, DOMAIN newPkg' = Workers,
         esp' = [w \in Workers |-> EspOff] \/ (UNCHANGED esp /\ \A w \in Workers : pc[w] = "idle"),
         cwd' \in {cwd, None}, UNCHANGED <<faults, prepares>>, crashes' \in 0..MaxCrashes
  PROVE  TypeInv'
<1>1. Domains'
  BY DEF TypeInv, Domains, Forget, dirVars
<1>2. Values'
  BY DEF TypeInv, Values, Forget, Steps, Errors
<1>3. EspTyped'
  BY DEF TypeInv, EspTyped, EspOff, EspFields, EspSteps
<1>4. ASSUME NEW w \in Workers PROVE InList(w)'
  <2>1. pc'[w] = "off" /\ list'[w] = <<>> /\ k'[w] = 0 /\ IsList(<<>>) /\ 0 <= Len(<<>>)
    BY DEF Forget, IsList
  <2>2. QED
    BY <2>1 DEF InList, Listed
<1>5. QED
  BY <1>1, <1>2, <1>3, <1>4 DEF TypeInv

\* A worker is handed a package.
LEMMA PrepareTypes ==
  ASSUME TypeInv, NEW w \in Workers, Prepare(w)
  PROVE  TypeInv'
<1>1. PICK j \in Jobs[w] :
        /\ job' = [job EXCEPT ![w] = j]
        /\ ue' = [ue EXCEPT ![w] = None]
        /\ list' = [list EXCEPT ![w] = <<>>]
        /\ k' = [k EXCEPT ![w] = 0]
        /\ \E s \in {"none", "READY", "FAILED"} : state' = [state EXCEPT ![w] = s]
        /\ \E e \in {"OK", "ERR"} : err' = [err EXCEPT ![w] = e]
        /\ \/ UNCHANGED pc
           \/ j.kind = "delta" /\ \E s \in {"return", "prepare"} : pc' = [pc EXCEPT ![w] = s]
        /\ UNCHANGED faults \/ Fault
  BY DEF Prepare, OnPrepareInstall, IsDelta
<1>2. pc[w] = "idle" /\ UNCHANGED <<deltaStg, dirVars, newPkg, cwd, wd, crashes, esp>>
      /\ prepares < MaxPrepares /\ prepares' = prepares + 1
  BY DEF Prepare
<1>3. Touches(w)
  BY <1>1, <1>2 DEF TypeInv, Domains, Touches, deltaStg, dirVars
<1>4. Values'
  <2>1. pc' \in [Workers -> Steps] /\ err' \in [Workers -> Errors]
    <3>1. pc \in [Workers -> Steps] /\ err \in [Workers -> Errors]
          /\ {"return", "prepare"} \subseteq Steps /\ {"OK", "ERR"} \subseteq Errors
      BY DEF TypeInv, Values, Steps, Errors
    <3>2. QED
      BY <1>1, <3>1
  <2>2. /\ state' \in [Workers -> {"none", "READY", "FAILED"}]
        /\ ue' \in [Workers -> {None, "UE_INCREMENTAL_FAILED"}] /\ k' \in [Workers -> Nat]
    BY <1>1 DEF TypeInv, Values
  <2>3. faults' \in 0..MaxFaults /\ prepares' \in 0..MaxPrepares
    BY <1>1, <1>2, FaultAssumption, BoundsAssumption DEF TypeInv, Values, Fault
  <2>4. QED
    BY <1>2, <2>1, <2>2, <2>3 DEF TypeInv, Values
<1>5. EspTyped'
  BY <1>2, <1>3, EspIdle DEF TypeInv
<1>6. InList(w)'
  <2>1. job'[w] = j /\ list'[w] = <<>> /\ k'[w] = 0 /\ IsList(list'[w]) /\ 0 <= Len(<<>>)
    BY <1>1 DEF TypeInv, Domains, IsList
  <2>2. pc'[w] \in {"idle", "return"} \/ (pc'[w] = "prepare" /\ j.kind = "delta")
    BY <1>1, <1>2 DEF TypeInv, Domains
  <2>3. QED
    BY <2>1, <2>2 DEF InList, Listed
<1>7. QED
  BY <1>3, <1>4, <1>5, <1>6, OthersInList DEF TypeInv, Touches

\* The types at the start, and after every step.
LEMMA TypeInvInit ==
  ASSUME Init
  PROVE  TypeInv
<1>1. Domains
  BY DEF Init, Domains
<1>2. Values
  BY FaultAssumption, BoundsAssumption DEF Init, EspInit, Values, Steps, Errors
<1>3. EspTyped
  BY DEF Init, EspInit, EspTyped, EspOff, EspFields, EspSteps
<1>4. ASSUME NEW w \in Workers PROVE InList(w)
  <2>1. pc[w] = "off" /\ list[w] = <<>> /\ k[w] = 0 /\ IsList(<<>>) /\ 0 <= Len(<<>>)
    BY DEF Init, IsList
  <2>2. QED
    BY <2>1 DEF InList, Listed
<1>5. QED
  BY <1>1, <1>2, <1>3, <1>4 DEF TypeInv

\* The types are kept.
LEMMA TypeInvNext ==
  ASSUME TypeInv, \A w \in Workers : Manifested(w), [Next]_vars
  PROVE  TypeInv'
<1>1. CASE DeltaInit
  <2>1. /\ pc' = [w \in Workers |-> "idle"] /\ \A w \in Workers : pc[w] = "off"
        /\ UNCHANGED <<job, list, k, err, dirVars, newPkg, cwd, wd, state, ue, crashes, prepares, esp, faults>>
    BY <1>1 DEF DeltaInit
  <2>2. Domains'
    BY <2>1 DEF TypeInv, Domains, dirVars
  <2>3. Values'
    BY <2>1 DEF TypeInv, Values, Steps
  <2>4. EspTyped'
    BY <2>1 DEF TypeInv, EspTyped
  <2>5. ASSUME NEW w \in Workers PROVE InList(w)'
    BY <2>1 DEF TypeInv, InList, Listed
  <2>6. QED
    BY <2>2, <2>3, <2>4, <2>5 DEF TypeInv
<1>2. CASE DeltaStop
  BY <1>2, ForgetTypes DEF DeltaStop, TypeInv, Domains, Values
<1>3. ASSUME ProcessEnds, crashes' \in 0..MaxCrashes PROVE TypeInv'
  BY <1>3, ForgetTypes DEF ProcessEnds
<1>4. CASE Crash
  BY <1>3, <1>4, BoundsAssumption DEF Crash, TypeInv, Values
<1>5. ASSUME NEW w \in Workers, Prepare(w) PROVE TypeInv'
  BY <1>5, PrepareTypes
<1>6. ASSUME NEW w \in Workers, Reconstruct(w) PROVE TypeInv'
  <2>1. CASE EspatchCrashes(w)
    BY <1>3, <2>1 DEF EspatchCrashes, TypeInv, Values
  <2>2. CASE ~EspatchCrashes(w)
    <3>1. Touches(w)
      BY <1>6, <2>2, ReconstructTouches DEF TypeInv
    <3>2. Values' /\ EspTyped' /\ InList(w)'
      BY <1>6, <2>2, <3>1, ReconstructValues, ReconstructEsp, ReconstructInList DEF TypeInv
    <3>3. QED
      BY <3>1, <3>2, OthersInList DEF TypeInv, Touches
  <2>3. QED
    BY <2>1, <2>2
<1>7. CASE UNCHANGED vars
  <2> USE <1>7 DEF vars, deltaStg, dirVars
  <2>1. Domains' /\ Values'
    BY DEF TypeInv, Domains, Values
  <2>2. EspTyped'
    BY DEF TypeInv, EspTyped
  <2>3. ASSUME NEW w \in Workers PROVE InList(w)'
    BY DEF TypeInv, InList, Listed, Entry
  <2>4. QED
    BY <2>1, <2>2, <2>3 DEF TypeInv
<1>8. QED
  BY <1>1, <1>2, <1>4, <1>5, <1>6, <1>7 DEF Next

\* delta_reconstruct, delta_patch and espatch keep the types of what they work with,
\* whatever fails and however many workers there are.
THEOREM DeltaTypes == Spec => []DeltaTypeOK
<1> DEFINE Inv == TypeInv /\ \A w \in Workers : Manifested(w)
<1>1. Init => Inv
  BY TypeInvInit DEF Init, Manifested, NoDir
<1>2. Inv /\ [Next]_vars => Inv'
  BY TypeInvNext, ManifestsNext DEF TypeInv, InList
<1>3. Inv => DeltaTypeOK
  BY DEF TypeInv, Values, EspTyped, InList, Errors, DeltaTypeOK
<1>4. QED
  BY <1>1, <1>2, <1>3, PTL DEF Spec

----------------------------------------------------------------------------
(***************************************************************************)
(* Success.  As long as nothing has failed, the files that the entries to  *)
(* come need are still there (Left), an image at hand is unpacked as the   *)
(* server had it, espatch has written the beginning of the new image, and  *)
(* no entry has failed.  The tools are the ones that were announced.       *)
(***************************************************************************)
\* The application configures no capability of its own, and tools only where both builds
\* have one.
DefaultMethods(c) ==
  /\ c.cap = None
  /\ \E S : c.patch \in Seq(S) /\ \A t \in S : t.algo = "esdiff" /\ t.intl = TRUE
  /\ \E S : c.decomp \in Seq(S) /\ \A t \in S : t.algo = "xz"

\* What was announced can be done.
ToolsAnnounced ==
  delta_cap # None =>
    /\ delta_cap.format \subseteq DOMAIN patch_tool /\ delta_cap.compression \subseteq DOMAIN decomp_tool
    /\ \A f \in delta_cap.format : patch_tool[f].intl <=> f \in Internal
    /\ "none" \notin delta_cap.format
    /\ ~shell => delta_cap.format \subseteq {"esdiff"} /\ delta_cap.compression \subseteq {"xz"}

\* The list of the package that a worker works on.
TheList(w) == DiffList(job[w].diff["manifest_diff.xml"])

\* ServerMade, of the package.
Fit(w) ==
  /\ ~SharesOld(TheList(w))
  /\ \A i \in DOMAIN TheList(w) : Announced(TheList(w)[i]) /\ TheList(w)[i].options # "cut"
  /\ ~shell => \A n \in DOMAIN job[w].target : job[w].target[n].blocks # <<>>

\* The files for the entries after n are there.
Left(w, n) ==
  /\ File(diffDir[w], "manifest.xml") = job[w].diff["manifest.xml"]
  /\ \A i \in DOMAIN list[w] : i > n =>
       LET di == list[w][i]
       IN  /\ File(diffDir[w], di.name) = File(job[w].diff, di.name)
           /\ NeedsOld(di) => File(oldDir[w], OldName(di)) = File(job[w].base, OldName(di))

\* What the entry at hand makes: an image is not packed yet.
Made(w) == LET new == File(job[w].target, Entry(w).name)
           IN  IF Entry(w).squash THEN Loose(new) ELSE new

\* espatch has written the first blocks of the image, and takes them to the end.
EspGoes(w) ==
  LET e == esp[w]
      img == Made(w).blocks
  IN  /\ ~e.crash /\ e.patch # NoFile /\ e.patch.form = "esdiff" /\ e.patch.image = Made(w)
      /\ e.ref = e.patch.base.blocks /\ e.patch.pieces = Len(img)
      /\ IsBlocks(e.ref) /\ IsBlocks(img) /\ img # <<>>
      /\ e.step # "off"
      /\ e.step = "copy" => e.newsize = 0 /\ e.new = <<>>
      /\ e.step \in {"process", "cleanup"} =>
           /\ e.newsize \in 0..Len(img) /\ IsBlocks(e.new) /\ e.newsize <= Len(e.new)
           /\ \A i \in 1..e.newsize : e.new[i] = img[i]
      /\ e.step = "cleanup" => e.ok /\ e.newsize = Len(img)
      /\ e.step = "returned" => e.ok /\ e.new = img

Goes(w) ==
  /\ err[w] = "OK"
  /\ pc[w] \in {"entry", "unsquash", "apply", "espatch"} => Left(w, k[w])
  /\ pc[w] \in {"consume", "repackage"} => Left(w, k[w] + 1)
  /\ pc[w] = "manifest" => File(diffDir[w], "manifest.xml") = job[w].diff["manifest.xml"]
  /\ pc[w] = "unsquash" => Entry(w).squash
  /\ pc[w] = "apply" /\ Entry(w).squash =>
       OldFile(w) = Loose(File(job[w].base, OldName(Entry(w))))
  /\ pc[w] = "espatch" => EspGoes(w) /\ ~shell
  /\ pc[w] \in {"consume", "repackage"} /\ Entry(w).squash => File(newDir[w], Entry(w).name) = Made(w)
  /\ pc[w] \in {"cleanup", "return"} => Without(newPkg[w], "manifest.xml") = job[w].target

\* Up to the list, and after it.
Early == {"prepare", "unzip_old", "unzip_diff", "parse"}

Serves(w) ==
  Active(w) /\ job[w].base # NoFile /\ job[w].target # None =>
    /\ pc[w] \in Early => err[w] = "OK"
    /\ pc[w] = "unzip_old" => oldDir[w] = NoDir
    /\ pc[w] \in {"unzip_old", "unzip_diff"} => diffDir[w] = NoDir
    /\ pc[w] \in {"unzip_diff", "parse"} => oldDir[w] = job[w].base
    /\ pc[w] = "parse" => diffDir[w] = job[w].diff
    /\ pc[w] \notin Early => list[w] = TheList(w) /\ (Fit(w) => Goes(w))

\* An active worker has a package, and there was something to announce.
Known(w) == Active(w) => job[w] \in Jobs[w] /\ delta_cap # None

SuccessInv ==
  /\ TypeInv /\ DirDomains /\ ToolsAnnounced
  /\ \A w \in Workers : Known(w) /\ Manifested(w)
  /\ faults = 0 => IInv /\ \A w \in Workers : Serves(w)

\* A lone worker's facts about the package at hand.
Going(w) ==
  /\ Domains /\ DirDomains /\ ToolsAnnounced /\ InList(w) /\ Known(w) /\ Serves(w)
  /\ Active(w) /\ job[w].base # NoFile /\ job[w].target # None

\* The announced methods have their tools, and the packages are compressed accordingly.
LEMMA Methods ==
  ASSUME ToolsAnnounced, delta_cap # None, NEW di, di.type = "changed", ~Incomplete(di), Announced(di)
  PROVE  /\ HasTools(di)
         /\ Decompress(di) <=> di.compression # "none" /\ di.format \notin Internal
         /\ ~shell /\ NeedsTool(di) => di.format = "esdiff"
         /\ ~shell /\ Decompress(di) => di.compression = "xz"
<1>1. di.format \in delta_cap.format \cup {"none"} /\ di.compression \in delta_cap.compression \cup {"none"}
  BY DEF Announced, Incomplete
<1>2. di.format # "none" => di.format \in DOMAIN patch_tool /\ (patch_tool[di.format].intl <=> di.format \in Internal)
  BY <1>1 DEF ToolsAnnounced
<1>3. Decompress(di) <=> di.compression # "none" /\ di.format \notin Internal
  BY <1>2 DEF Decompress, NeedsTool, Internal
<1>4. QED
  BY <1>1, <1>2, <1>3 DEF HasTools, Decompress, NeedsTool, ToolsAnnounced

\* Decompression gives the patch.
LEMMA Decompresses ==
  ASSUME ToolsAnnounced, delta_cap # None, NEW di, di.type = "changed", ~Incomplete(di), Announced(di),
         NEW diff, NEW old, NEW new, Delivers(di, diff, old, new)
  PROVE  LET d == Decompressed(di, diff)
         IN  /\ d # NoFile
             /\ ~NeedsTool(di) => d = new
             /\ NeedsTool(di) =>
                  /\ d.form = di.format /\ d.base = old /\ d.image = new
                  /\ old.blocks # NoFile /\ IsBlocks(old.blocks) /\ IsBlocks(new.blocks) /\ d.pieces = Len(new.blocks)
<1> DEFINE packed == di.compression # "none" /\ di.format \notin Internal
           patch == IF packed THEN diff.of ELSE diff
<1>1. Decompress(di) <=> packed
  BY Methods
<1>2. ~shell /\ packed => di.compression = "xz"
  BY Methods
<1>3. packed => diff.form = "packed" /\ diff.comp = di.compression
  BY DEF Delivers
<1>4. Decompressed(di, diff) = patch
  BY <1>1, <1>2, <1>3 DEF Decompressed, Delivers
<1>5. QED
  BY <1>4 DEF Delivers, NeedsTool

\* The entry at hand is one that the server has made, with announced methods.
LEMMA AtEntry ==
  ASSUME NEW w \in Workers, Going(w), Fit(w),
         pc[w] \in {"unsquash", "apply", "espatch", "consume", "repackage"}
  PROVE  /\ Goes(w) /\ list[w] = TheList(w) /\ WellMade(job[w]) /\ delta_cap # None
         /\ k[w] \in Nat /\ k[w] + 1 \in DOMAIN list[w] /\ DOMAIN list[w] \subseteq Nat
         /\ EntryMade(job[w], Entry(w)) /\ ~Incomplete(Entry(w)) /\ Announced(Entry(w))
         /\ Entry(w).options # "cut"
         /\ \A i \in DOMAIN list[w] : list[w][i].name = Entry(w).name => i = k[w] + 1
<1>1. Goes(w) /\ list[w] = TheList(w)
  BY DEF Going, Serves, Early
<1>2. WellMade(job[w]) /\ delta_cap # None
  BY ServerAssumption DEF Going, Known
<1>3. k[w] \in Nat /\ k[w] + 1 \in DOMAIN list[w] /\ DOMAIN list[w] \subseteq Nat
  BY DEF Going, InList, Listed, IsList
<1>4. QED
  BY <1>1, <1>2, <1>3 DEF WellMade, TheList, Fit, Entry

\* A package keeps what the server made of it.
LEMMA FitKept ==
  ASSUME NEW w \in Workers, job'[w] = job[w], shell' = shell, delta_cap' = delta_cap
  PROVE  TheList(w)' = TheList(w) /\ (Fit(w)' <=> Fit(w))
BY DEF TheList, Fit, Announced

\* The old file and the differences of the entry at hand are those of the package.
LEMMA FilesAtHand ==
  ASSUME NEW w \in Workers, Going(w), Fit(w), pc[w] \in {"unsquash", "apply"}
  PROVE  /\ DiffFile(w) = File(job[w].diff, Entry(w).name)
         /\ NeedsOld(Entry(w)) => File(oldDir[w], OldName(Entry(w))) = File(job[w].base, OldName(Entry(w)))
         /\ pc[w] = "apply" /\ NeedsOld(Entry(w)) =>
              OldFile(w) = IF Entry(w).squash THEN Loose(File(job[w].base, OldName(Entry(w))))
                           ELSE File(job[w].base, OldName(Entry(w)))
<1>1. Left(w, k[w]) /\ k[w] \in Nat /\ k[w] + 1 \in DOMAIN list[w] /\ Goes(w)
  BY AtEntry DEF Goes
<1>2. k[w] + 1 > k[w]
  BY <1>1
<1>3. QED
  BY <1>1, <1>2 DEF Left, Entry, DiffFile, OldFile, Goes

\* What Serves says of a worker whose list is made.
LEMMA ListedServes ==
  ASSUME NEW w \in Workers, job'[w] = job[w], shell' = shell, delta_cap' = delta_cap,
         pc'[w] \notin Early, list'[w] = TheList(w), Fit(w) => Goes(w)'
  PROVE  Serves(w)'
<1>1. TheList(w)' = TheList(w) /\ (Fit(w)' <=> Fit(w))
  BY FitKept
<1>2. QED
  BY <1>1 DEF Serves, Early

\* The directories are made.
LEMMA MakeDirsServes ==
  ASSUME NEW w \in Workers, Going(w), NoFault, MakeDirs(w)
  PROVE  Serves(w)'
<1>1. PICK a \in 0..1, b \in 0..1, c \in 0..1, m \in 0..1 :
        /\ RmDirP(oldDir, oldDir', w, a) /\ RmDirP(diffDir, diffDir', w, b)
        /\ Failing(a + b + c + m)
        /\ IF m = 0 THEN Goto(w, "unzip_old") /\ UNCHANGED err
                    ELSE Goto(w, "cleanup") /\ Fail(w, "SYS")
  BY DEF MakeDirs
<1>2. a = 0 /\ b = 0 /\ m = 0
  BY <1>1 DEF NoFault
<1>3. oldDir'[w] = NoDir /\ diffDir'[w] = NoDir
  BY <1>1, <1>2, RmDirPOwn DEF Going, DirDomains
<1>4. pc[w] = "prepare" /\ pc'[w] = "unzip_old" /\ err'[w] = err[w] /\ job'[w] = job[w]
  BY <1>1, <1>2 DEF MakeDirs, Going, Domains, Goto, Elsewhere
<1>5. QED
  BY <1>3, <1>4 DEF Going, Serves, Early, Active

\* An archive unpacked into an empty directory is what the directory holds.
LEMMA OverlayEmpty ==
  ASSUME NEW f, IsArchive(f)
  PROVE  Overlay(NoDir, f) = f
<1>1. DOMAIN NoDir = {}
  BY DEF NoDir
<1>2. Overlay(NoDir, f) = [n \in DOMAIN f |-> f[n]]
  BY <1>1 DEF Overlay
<1>3. QED
  BY <1>2 DEF IsArchive

\* The archives of a package that the server made.
LEMMA Archives ==
  ASSUME NEW w \in Workers, Going(w)
  PROVE  IsArchive(job[w].base) /\ IsArchive(job[w].diff)
<1>1. WellMade(job[w]) /\ job[w].base # NoFile
  BY ServerAssumption DEF Going, Known
<1>2. QED
  BY <1>1 DEF WellMade

\* The backup is unpacked whole.
LEMMA UnzipOldServes ==
  ASSUME NEW w \in Workers, Going(w), ~Fault, UnzipOld(w)
  PROVE  Serves(w)'
<1>1. pc[w] = "unzip_old" /\ oldDir' = SetDir(oldDir, w, Overlay(oldDir[w], job[w].base)) /\ Goto(w, "unzip_diff")
      /\ UNCHANGED <<err, diffDir, Elsewhere>>
  BY DEF UnzipOld, Unzip
<1>2. oldDir[w] = NoDir
  BY <1>1 DEF Going, Serves
<1>3. oldDir'[w] = job[w].base
  BY <1>1, <1>2, Archives, OverlayEmpty DEF Going, DirDomains, SetDir
<1>4. QED
  BY <1>1, <1>3 DEF Going, Serves, Early, Active, Domains, Goto, Elsewhere

\* The differences are unpacked whole.
LEMMA UnzipDiffServes ==
  ASSUME NEW w \in Workers, Going(w), ~Fault, UnzipDiff(w)
  PROVE  Serves(w)'
<1>1. pc[w] = "unzip_diff" /\ diffDir' = SetDir(diffDir, w, Overlay(diffDir[w], job[w].diff)) /\ Goto(w, "parse")
      /\ UNCHANGED <<err, oldDir, Elsewhere>>
  BY DEF UnzipDiff, Unzip
<1>2. diffDir[w] = NoDir
  BY <1>1 DEF Going, Serves
<1>3. diffDir'[w] = job[w].diff
  BY <1>1, <1>2, Archives, OverlayEmpty DEF Going, DirDomains, SetDir
<1>4. QED
  BY <1>1, <1>3 DEF Going, Serves, Early, Active, Domains, Goto, Elsewhere

\* The list is that of the package, and all the files are there.
LEMMA ParseServes ==
  ASSUME NEW w \in Workers, Going(w), ParseDiffManifest(w)
  PROVE  Serves(w)'
<1> DEFINE j == job[w]
           m == j.diff["manifest_diff.xml"]
<1>1. WellMade(j)
  BY ServerAssumption DEF Going, Known
<1>2. pc[w] = "parse" /\ err[w] = "OK" /\ oldDir[w] = j.base /\ diffDir[w] = j.diff /\ k[w] = 0
  BY DEF Going, Serves, Early, ParseDiffManifest, InList, Listed
<1>3. /\ File(diffDir[w], "manifest_diff.xml") = m /\ m # NoFile
      /\ File(diffDir[w], "manifest.xml") = j.diff["manifest.xml"]
  BY <1>1, <1>2 DEF WellMade, File
<1>4. \A i \in DOMAIN m : ~Incomplete(DiffList(m)[i])
  BY <1>1 DEF WellMade, DiffList
<1>5. /\ list'[w] = DiffList(m) /\ pc'[w] = "entry" /\ UNCHANGED <<err, k, dirVars, Elsewhere>>
  BY <1>3, <1>4 DEF Going, Domains, ParseDiffManifest, Goto
<1>6. Goes(w)'
  BY <1>2, <1>3, <1>5 DEF Goes, Left, dirVars, Elsewhere
<1>7. QED
  BY <1>5, <1>6, ListedServes DEF TheList, Early, Elsewhere, deltaStg

\* The next entry.
LEMMA NextEntryServes ==
  ASSUME NEW w \in Workers, Going(w), NextEntry(w)
  PROVE  Serves(w)'
<1>1. /\ pc[w] = "entry" /\ list[w] = TheList(w) /\ UNCHANGED <<dirVars, list, k, err, Elsewhere>>
  BY DEF Going, Serves, Early, NextEntry
<1>2. ASSUME Fit(w) PROVE Goes(w)'
  <2>1. Goes(w)
    BY <1>1, <1>2 DEF Going, Serves, Early
  <2>2. pc'[w] = IF k[w] = Len(list[w]) THEN "manifest" ELSE IF Entry(w).squash THEN "unsquash" ELSE "apply"
    BY <2>1 DEF Going, Domains, NextEntry, Goto, Goes
  <2>3. Entry(w)' = Entry(w) /\ Left(w, k[w])' /\ k'[w] = k[w]
    BY <1>1, <2>1 DEF Entry, Goes, Left, dirVars, Elsewhere
  <2>4. QED
    BY <1>1, <2>1, <2>2, <2>3 DEF Goes, Left
<1>3. pc'[w] \notin Early
  BY DEF Going, Domains, NextEntry, Goto, Early
<1>4. QED
  BY <1>1, <1>2, <1>3, ListedServes DEF Elsewhere, deltaStg

\* An image of the package is unpacked.
LEMMA UnsquashServes ==
  ASSUME NEW w \in Workers, Going(w), ~Fault, Unsquash(w)
  PROVE  Serves(w)'
<1> DEFINE di == Entry(w)
           old == File(oldDir[w], OldName(di))
<1>1. /\ pc[w] = "unsquash" /\ list[w] = TheList(w) /\ pc'[w] = "apply"
      /\ UNCHANGED <<oldDir, diffDir, newDir, list, k, Elsewhere>>
  BY DEF Going, Serves, Early, Domains, Unsquash, Goto
<1>2. ASSUME Fit(w) PROVE Goes(w)'
  <2>1. Goes(w) /\ EntryMade(job[w], di) /\ di.squash
    BY <1>1, <1>2, AtEntry DEF Goes
  <2>2. old = File(job[w].base, OldName(di))
    BY <1>1, <1>2, <2>1, FilesAtHand DEF NeedsOld
  <2>3. IsImage(old)
    BY <2>1, <2>2 DEF EntryMade
  <2>4. artDir'[w] = Put(NoDir, OldName(di), Loose(old)) /\ UNCHANGED err
    BY <2>3 DEF Going, DirDomains, Unsquash, SetDir, Loose
  <2>5. Entry(w)' = di /\ Left(w, k[w])' /\ k'[w] = k[w]
    BY <1>1, <2>1 DEF Entry, Goes, Left, Elsewhere
  <2>6. OldFile(w)' = Loose(old)
    BY <2>1, <2>4, <2>5 DEF OldFile, File, Put
  <2>7. QED
    BY <1>1, <2>1, <2>2, <2>4, <2>5, <2>6 DEF Goes, Elsewhere
<1>3. QED
  BY <1>1, <1>2, ListedServes DEF Early, Elsewhere, deltaStg

\* The entry at hand has been applied.
LEMMA AppliedServes ==
  ASSUME NEW w \in Workers, Going(w), pc[w] \in {"apply", "espatch"},
         UNCHANGED <<oldDir, diffDir, list, k, Elsewhere>>, Goto(w, "consume"),
         Fit(w) => \E out : NewFile(w, out, TRUE) /\ (Entry(w).squash => out = Made(w) /\ out # NoFile)
  PROVE  Serves(w)'
<1>1. pc'[w] = "consume" /\ list[w] = TheList(w)
  BY DEF Going, Serves, Early, Domains, Goto
<1>2. ASSUME Fit(w) PROVE Goes(w)'
  <2>1. Goes(w) /\ k[w] \in Nat /\ DOMAIN list[w] \subseteq Nat
    BY <1>2, AtEntry
  <2>2. PICK out : NewFile(w, out, TRUE) /\ (Entry(w).squash => out = Made(w) /\ out # NoFile)
    BY <1>2
  <2>3. err'[w] = "OK" /\ Entry(w)' = Entry(w) /\ Made(w)' = Made(w) /\ k'[w] = k[w]
    BY <2>1, <2>2 DEF Goes, NewFile, Entry, Made, Elsewhere
  <2>4. Entry(w).squash => File(newDir'[w], Entry(w).name) = Made(w)
    BY <2>2 DEF Going, Domains, NewFile, SetDir, File, Put
  <2>5. Left(w, k[w] + 1)'
    <3>1. \A i \in DOMAIN list[w] : i > k[w] + 1 => i > k[w]
      BY <2>1
    <3>2. Left(w, k[w])
      BY <2>1 DEF Goes
    <3>3. QED
      BY <2>3, <3>1, <3>2 DEF Left, Elsewhere
  <2>6. QED
    BY <1>1, <2>3, <2>4, <2>5 DEF Goes
<1>3. QED
  BY <1>1, <1>2, ListedServes DEF Early, Elsewhere, deltaStg

\* A file that the server gives in full, or leaves as it is, is verified and copied.
LEMMA CopyServes ==
  ASSUME NEW w \in Workers, Going(w), ~Fault, NEW type, NEW file, NEW sha, ApplyCopy(w, type, file, sha),
         Fit(w) => ~Entry(w).squash /\ Verified(file, sha)
  PROVE  Serves(w)'
<1>1. /\ pc[w] = "apply" /\ UNCHANGED <<oldDir, diffDir, list, k, Elsewhere>> /\ Goto(w, "consume")
  BY DEF ApplyCopy, Applying, NewFile
<1>2. ASSUME Fit(w) PROVE \E out : NewFile(w, out, TRUE) /\ (Entry(w).squash => out = Made(w) /\ out # NoFile)
  <2>1. PICK out \in {file, Partial, NoFile}, ok \in BOOLEAN : CopyFile(file, out, ok) /\ NewFile(w, out, ok)
    BY <1>2 DEF ApplyCopy
  <2>2. ok
    BY <1>2, <2>1 DEF CopyFile, Verified
  <2>3. ok = TRUE
    BY <2>1, <2>2
  <2>4. QED
    BY <1>2, <2>1, <2>3
<1>3. QED
  BY <1>1, <1>2, AppliedServes

\* An added file is in the differences, with its hash.
LEMMA AddedServes ==
  ASSUME NEW w \in Workers, Going(w), ~Fault, Added(w)
  PROVE  Serves(w)'
<1>1. pc[w] = "apply" /\ Entry(w).type = "added"
  BY DEF Added, ApplyCopy, Applying
<1>2. ASSUME Fit(w) PROVE ~Entry(w).squash /\ Verified(DiffFile(w), Entry(w).sha_new)
  <2>1. EntryMade(job[w], Entry(w)) /\ DiffFile(w) = File(job[w].diff, Entry(w).name)
    BY <1>1, <1>2, AtEntry, FilesAtHand
  <2>2. QED
    BY <1>1, <2>1 DEF EntryMade, Verified
<1>3. QED
  BY <1>2, CopyServes DEF Added

\* An unchanged file is in the backup, with its hash.
LEMMA UnchangedServes ==
  ASSUME NEW w \in Workers, Going(w), ~Fault, Unchanged(w)
  PROVE  Serves(w)'
<1>1. pc[w] = "apply" /\ Entry(w).type = "unchanged"
  BY DEF Unchanged, ApplyCopy, Applying
<1>2. ASSUME Fit(w) PROVE ~Entry(w).squash /\ Verified(OldFile(w), Entry(w).sha_old)
  <2>1. EntryMade(job[w], Entry(w))
    BY <1>1, <1>2, AtEntry
  <2>2. ~Entry(w).squash
    BY <1>1, <2>1 DEF EntryMade
  <2>3. OldFile(w) = File(job[w].base, OldName(Entry(w)))
    BY <1>1, <1>2, <2>2, FilesAtHand DEF NeedsOld
  <2>4. QED
    BY <1>1, <2>1, <2>2, <2>3 DEF EntryMade, Verified
<1>3. QED
  BY <1>2, CopyServes DEF Unchanged

\* A removed file needs nothing.
LEMMA RemovedServes ==
  ASSUME NEW w \in Workers, Going(w), Removed(w)
  PROVE  Serves(w)'
<1>1. /\ pc[w] = "apply" /\ UNCHANGED <<oldDir, diffDir, list, k, Elsewhere>> /\ Goto(w, "consume")
      /\ NewFile(w, NoFile, TRUE) /\ Entry(w).type = "removed"
  BY DEF Removed, Applying, NewFile
<1>2. Fit(w) => ~Entry(w).squash
  BY <1>1, AtEntry DEF EntryMade
<1>3. QED
  BY <1>1, <1>2, AppliedServes

\* What delta_patch starts from: the patch for the old file, which gives the new one.
LEMMA ChangedMade ==
  ASSUME NEW w \in Workers, Going(w), Fit(w), pc[w] = "apply", Entry(w).type = "changed"
  PROVE  LET di == Entry(w)
             d == Decompressed(di, DiffFile(w))
         IN  /\ ~di.squash => Verified(OldFile(w), di.sha_old) /\ Verified(Made(w), di.sha_new)
             /\ HasTools(di) /\ d # NoFile /\ OldFile(w) # NoFile /\ Made(w) # NoFile
             /\ ~NeedsTool(di) => d = Made(w)
             /\ NeedsTool(di) =>
                  /\ d.form = di.format /\ d.base = OldFile(w) /\ d.image = Made(w)
                  /\ OldFile(w).blocks # NoFile /\ IsBlocks(OldFile(w).blocks)
                  /\ IsBlocks(Made(w).blocks) /\ d.pieces = Len(Made(w).blocks)
             /\ ~shell /\ NeedsTool(di) => di.format = "esdiff"
<1> DEFINE di == Entry(w)
           base == File(job[w].base, OldName(di))
           target == File(job[w].target, di.name)
           old == IF di.squash THEN Loose(base) ELSE base
<1>1. /\ EntryMade(job[w], di) /\ ~Incomplete(di) /\ Announced(di) /\ delta_cap # None /\ ToolsAnnounced
  BY AtEntry DEF Going
<1>2. DiffFile(w) = File(job[w].diff, di.name) /\ OldFile(w) = old
  BY FilesAtHand DEF NeedsOld
<1>3. Delivers(di, DiffFile(w), OldFile(w), Made(w))
  BY <1>1, <1>2 DEF EntryMade, Made
<1>4. /\ OldFile(w) # NoFile /\ Made(w) # NoFile
      /\ ~di.squash => Verified(OldFile(w), di.sha_old) /\ Verified(Made(w), di.sha_new)
  BY <1>1, <1>2 DEF EntryMade, Made, Verified
<1>5. HasTools(di) /\ (~shell /\ NeedsTool(di) => di.format = "esdiff")
  BY <1>1, Methods
<1>6. QED
  BY <1>1, <1>3, <1>4, <1>5, Decompresses

\* Nothing is refused.
LEMMA PatchRefusedServes ==
  ASSUME NEW w \in Workers, Going(w), ~Fault, PatchRefused(w)
  PROVE  Serves(w)'
<1>1. /\ pc[w] = "apply" /\ UNCHANGED <<oldDir, diffDir, list, k, Elsewhere>> /\ Goto(w, "consume")
      /\ Entry(w).type = "changed"
  BY DEF PatchRefused, Changed, Applying, NewFile
<1>2. ~Fit(w)
  BY <1>1, ChangedMade DEF PatchRefused
<1>3. QED
  BY <1>1, <1>2, AppliedServes

\* A patch that gives the new file passes the verification.
LEMMA PatchedServes ==
  ASSUME NEW w \in Workers, Going(w), pc[w] \in {"apply", "espatch"},
         UNCHANGED <<oldDir, diffDir, list, k, Elsewhere>>, Goto(w, "consume"),
         Fit(w) => /\ NewFile(w, Made(w), NewVerified(Entry(w), Made(w), TRUE))
                   /\ Made(w) # NoFile /\ (~Entry(w).squash => Verified(Made(w), Entry(w).sha_new))
  PROVE  Serves(w)'
<1>1. ASSUME Fit(w) PROVE NewFile(w, Made(w), TRUE) /\ Made(w) # NoFile
  <2>1. NewVerified(Entry(w), Made(w), TRUE) = TRUE
    BY <1>1 DEF NewVerified, Verified
  <2>2. QED
    BY <1>1, <2>1
<1>2. QED
  BY <1>1, AppliedServes

\* The patch command gives the new file.
LEMMA PatchByCommandServes ==
  ASSUME NEW w \in Workers, Going(w), ~Fault, PatchByCommand(w)
  PROVE  Serves(w)'
<1> DEFINE di == Entry(w)
           diff == Decompressed(di, DiffFile(w))
<1>1. /\ pc[w] = "apply" /\ UNCHANGED <<oldDir, diffDir, list, k, Elsewhere>> /\ Goto(w, "consume")
      /\ di.type = "changed" /\ NeedsTool(di)
  BY DEF PatchByCommand, PatchStarts, Changed, Applying, NewFile
<1>2. ASSUME Fit(w)
      PROVE  /\ NewFile(w, Made(w), NewVerified(di, Made(w), TRUE))
             /\ Made(w) # NoFile /\ (~di.squash => Verified(Made(w), di.sha_new))
  <2>1. /\ diff # NoFile /\ OldFile(w) # NoFile /\ diff.form = di.format /\ diff.base = OldFile(w)
        /\ diff.image = Made(w) /\ diff.pieces = Len(Made(w).blocks)
        /\ Made(w) # NoFile /\ (~di.squash => Verified(Made(w), di.sha_new))
    BY <1>1, <1>2, ChangedMade
  <2>2. PICK out \in {Partial, diff.image}, ok \in BOOLEAN :
          PatchCommand(di, OldFile(w), diff, out, ok) /\ NewFile(w, out, NewVerified(di, out, ok))
    BY <2>1 DEF PatchByCommand
  <2>3. out = Made(w) /\ ok
    BY <2>1, <2>2 DEF PatchCommand
  <2>4. ok = TRUE
    BY <2>2, <2>3
  <2>5. QED
    BY <2>1, <2>2, <2>3, <2>4
<1>3. QED
  BY <1>1, <1>2, PatchedServes

\* Format none: the differences are the new file.
LEMMA PatchByCopyServes ==
  ASSUME NEW w \in Workers, Going(w), ~Fault, PatchByCopy(w)
  PROVE  Serves(w)'
<1> DEFINE di == Entry(w)
           diff == Decompressed(di, DiffFile(w))
<1>1. /\ pc[w] = "apply" /\ UNCHANGED <<oldDir, diffDir, list, k, Elsewhere>> /\ Goto(w, "consume")
      /\ di.type = "changed" /\ ~NeedsTool(di)
  BY DEF PatchByCopy, PatchStarts, Changed, Applying, NewFile
<1>2. ASSUME Fit(w)
      PROVE  /\ NewFile(w, Made(w), NewVerified(di, Made(w), TRUE))
             /\ Made(w) # NoFile /\ (~di.squash => Verified(Made(w), di.sha_new))
  <2>1. /\ diff = Made(w) /\ Made(w) # NoFile /\ (~di.squash => Verified(Made(w), di.sha_new))
    BY <1>1, <1>2, ChangedMade
  <2>2. PICK out \in {diff, Partial, NoFile}, ok \in BOOLEAN : CopyFile(diff, out, ok) /\ NewFile(w, out, NewVerified(di, out, ok))
    BY DEF PatchByCopy
  <2>3. out = Made(w) /\ ok
    BY <2>1, <2>2 DEF CopyFile
  <2>4. ok = TRUE
    BY <2>2, <2>3
  <2>5. QED
    BY <2>1, <2>2, <2>3, <2>4
<1>3. QED
  BY <1>1, <1>2, PatchedServes

----------------------------------------------------------------------------
(***************************************************************************)
(* espatch: sequences of blocks.                                           *)
(***************************************************************************)
\* The new file starts as a copy of the reference.
LEMMA CopyIsBlocks ==
  ASSUME NEW b, IsBlocks(b)
  PROVE  IsBlocks(Over(<<>>, b))
<1>1. Len(b) \in Nat /\ Len(<<>>) = 0
  BY DEF IsBlocks
<1> DEFINE c == Over(<<>>, b)
<1>2. c = [i \in 1..Len(b) |-> b[i]]
  BY <1>1 DEF Over
<1> HIDE DEF c
<1>3. Len(c) = Len(b)
  BY <1>1, <1>2
<1>4. QED
  BY <1>1, <1>2, <1>3 DEF IsBlocks, c

\* A block written is in its place, and the others stay.
LEMMA WriteIsBlocks ==
  ASSUME NEW b, IsBlocks(b), NEW i \in Nat \ {0}, i <= Len(b) + 1, NEW c
  PROVE  LET n == WriteBlock(b, i, c)
         IN  IsBlocks(n) /\ i <= Len(n) /\ n[i] = c /\ \A j \in 1..(i - 1) : n[j] = b[j]
<1> DEFINE n == WriteBlock(b, i, c)
           m == IF i > Len(b) THEN i ELSE Len(b)
<1>1. m \in Nat /\ i <= m /\ n = [j \in 1..m |-> IF j = i THEN c ELSE b[j]]
  BY DEF WriteBlock, IsBlocks
<1> HIDE DEF n, m
<1>2. DOMAIN n = 1..m /\ Len(n) = m
  BY <1>1
<1>3. IsBlocks(n)
  BY <1>1, <1>2 DEF IsBlocks
<1>4. n[i] = c /\ \A j \in 1..(i - 1) : n[j] = b[j]
  BY <1>1
<1>5. QED
  BY <1>1, <1>2, <1>3, <1>4 DEF n

\* Cut to its size, a file that begins with the image is the image.
LEMMA CutIsImage ==
  ASSUME NEW b, NEW img, IsBlocks(b), IsBlocks(img), img # <<>>, Len(img) <= Len(b),
         \A i \in 1..Len(img) : b[i] = img[i]
  PROVE  Len(img) > 0 /\ SubSeq(b, 1, Len(img)) = img /\ SubSeq(img, 1, Len(img)) = img
<1> DEFINE S == {b[i] : i \in 1..Len(b)} \cup {img[i] : i \in 1..Len(img)}
<1>1. b \in Seq(S) /\ img \in Seq(S)
  BY DEF IsBlocks
<1>2. SubSeq(b, 1, Len(img)) = [i \in 1..Len(img) |-> b[i]]
  BY <1>1
<1>3. SubSeq(img, 1, Len(img)) = [i \in 1..Len(img) |-> img[i]]
  BY <1>1
<1>4. QED
  BY <1>1, <1>2, <1>3 DEF IsBlocks

\* What espatch makes is the entry's business only.
LEMMA MadeKept ==
  ASSUME NEW w \in Workers, job'[w] = job[w], list'[w] = list[w], k'[w] = k[w]
  PROVE  Made(w)' = Made(w) /\ Entry(w)' = Entry(w)
BY DEF Made, Entry

\* The copy of the old file is there to be patched.
LEMMA EspCopyGoes ==
  ASSUME NEW w \in Workers, EspTyped, EspGoes(w), ~Fault, EspCopy(w), Made(w)' = Made(w)
  PROVE  EspGoes(w)'
<1> DEFINE e == esp[w]
           f == esp'[w]
           new == Over(e.new, e.ref)
<1>1. e.step = "copy" /\ esp' = [esp EXCEPT ![w].new = new, ![w].step = "process"]
  BY DEF EspCopy, EspLoops
<1>2. e.new = <<>> /\ e.newsize = 0 /\ IsBlocks(e.ref)
  BY <1>1 DEF EspGoes
<1>3. IsBlocks(new)
  BY <1>2, CopyIsBlocks
<1> HIDE DEF new
<1>4. /\ f.step = "process" /\ f.new = new /\ f.newsize = 0 /\ f.crash = e.crash /\ f.patch = e.patch
      /\ f.ref = e.ref
  BY <1>1, <1>2 DEF EspTyped, EspFields
<1>5. Len(new) \in Nat /\ Len(Made(w).blocks) \in Nat
  BY <1>3 DEF IsBlocks, EspGoes
<1>6. f.newsize \in 0..Len(Made(w).blocks) /\ f.newsize <= Len(f.new) /\ 1..f.newsize = {}
  BY <1>4, <1>5
<1>7. QED
  BY <1>3, <1>4, <1>6 DEF EspGoes

\* A block of the image is written, or the patch is at its end.
LEMMA EspProcessGoes ==
  ASSUME NEW w \in Workers, EspTyped, EspGoes(w), ~Fault, EspProcess(w), Made(w)' = Made(w)
  PROVE  EspGoes(w)'
<1> DEFINE e == esp[w]
           f == esp'[w]
           img == Made(w).blocks
           n == e.newsize + 1
           new == WriteBlock(e.new, n, Decoded(e, n))
<1>1. /\ e.step = "process" /\ e.patch.form = "esdiff" /\ e.patch.image.blocks = img
      /\ e.patch.pieces = Len(img) /\ IsBlocks(e.new) /\ e.newsize \in 0..Len(img) /\ e.newsize <= Len(e.new)
      /\ \A i \in 1..e.newsize : e.new[i] = img[i]
  BY DEF EspGoes, EspProcess
<1>2. Len(img) \in Nat /\ Len(e.new) \in Nat
  BY <1>1 DEF EspGoes, IsBlocks
<1>3. CASE e.newsize < Len(img)
  <2>1. esp' = [esp EXCEPT ![w].new = new, ![w].newsize = n]
    BY <1>1, <1>2, <1>3 DEF EspProcess
  <2>2. Decoded(e, n) = img[n]
    BY <1>1 DEF Decoded, EspGoes
  <2>3. n \in Nat \ {0} /\ n <= Len(e.new) + 1 /\ n - 1 = e.newsize /\ n \in 0..Len(img)
    BY <1>1, <1>2, <1>3
  <2>4. IsBlocks(new) /\ n <= Len(new) /\ new[n] = img[n] /\ \A j \in 1..e.newsize : new[j] = e.new[j]
    BY <1>1, <2>2, <2>3, WriteIsBlocks
  <2> HIDE DEF new
  <2>5. /\ f.step = "process" /\ f.new = new /\ f.newsize = n /\ f.crash = e.crash /\ f.patch = e.patch
        /\ f.ref = e.ref
    BY <1>1, <2>1 DEF EspTyped, EspFields
  <2>6. \A i \in 1..n : new[i] = img[i]
    <3>1. \A i \in 1..n : i = n \/ i \in 1..e.newsize
      BY <1>1, <2>3
    <3>2. QED
      BY <1>1, <2>4, <3>1
  <2>7. QED
    BY <2>3, <2>4, <2>5, <2>6 DEF EspGoes
<1>4. CASE e.newsize = Len(img)
  <2>1. esp' = [esp EXCEPT ![w].step = "cleanup", ![w].ok = TRUE]
    BY <1>1, <1>2, <1>4 DEF EspProcess
  <2>2. /\ f.step = "cleanup" /\ f.ok /\ f.new = e.new /\ f.newsize = e.newsize /\ f.crash = e.crash
        /\ f.patch = e.patch /\ f.ref = e.ref
    BY <2>1 DEF EspTyped, EspFields
  <2>3. QED
    BY <1>1, <1>4, <2>2 DEF EspGoes
<1>5. QED
  BY <1>1, <1>2, <1>3, <1>4

\* The file is cut to the size of the image, and passes the check.
LEMMA EspCleanupGoes ==
  ASSUME NEW w \in Workers, EspTyped, EspGoes(w), ~Fault, EspCleanup(w), Made(w)' = Made(w)
  PROVE  EspGoes(w)'
<1> DEFINE e == esp[w]
           img == Made(w).blocks
           c == [e EXCEPT !.new = Truncated(e)]
           f == esp'[w]
<1>1. /\ e.step = "cleanup" /\ e.ok /\ e.patch.image.blocks = img /\ e.newsize = Len(img) /\ IsBlocks(e.new)
      /\ IsBlocks(img) /\ img # <<>> /\ Len(img) <= Len(e.new) /\ \A i \in 1..Len(img) : e.new[i] = img[i]
  BY DEF EspGoes, EspCleanup
<1>2. Len(img) > 0 /\ SubSeq(e.new, 1, Len(img)) = img /\ SubSeq(img, 1, Len(img)) = img
  BY <1>1, CutIsImage
<1>3. Truncated(e) = img
  BY <1>1, <1>2 DEF Truncated
<1>4. c.new = img /\ c.patch = e.patch /\ DOMAIN c = EspFields
  BY <1>3 DEF EspTyped, EspFields
<1>5. CheckNew(c)
  BY <1>1, <1>2, <1>4 DEF CheckNew, IsBlocks
<1>6. esp' = [esp EXCEPT ![w] = [c EXCEPT !.step = "returned", !.ok = CheckNew(c)]]
  BY <1>1 DEF EspCleanup
<1> HIDE DEF c
<1>7. f.step = "returned" /\ f.ok = CheckNew(c) /\ f.new = img /\ f.patch = e.patch
  BY <1>4, <1>6 DEF EspTyped, EspFields
<1>8. f.crash = e.crash /\ f.ref = e.ref
  BY <1>6 DEF EspTyped, EspFields, c
<1>9. QED
  BY <1>5, <1>7, <1>8 DEF EspGoes

\* The call: there is no file of the entry's name yet.
LEMMA PatchByEspatchServes ==
  ASSUME NEW w \in Workers, Going(w), EspTyped, Growing(w), ~Fault, PatchByEspatch(w)
  PROVE  Serves(w)'
<1> DEFINE di == Entry(w)
           new == File(newDir[w], di.name)
           d == Decompressed(di, DiffFile(w))
           old == Blocks(OldFile(w))
           f == esp'[w]
<1>1. /\ pc[w] = "apply" /\ pc'[w] = "espatch" /\ di.type = "changed" /\ NeedsTool(di) /\ ~shell
      /\ UNCHANGED <<oldDir, diffDir, newDir, err, list, k, Elsewhere>>
      /\ EspOpen(w, old, IF new = NoFile THEN <<>> ELSE new.blocks, d)
  BY DEF Going, Domains, PatchByEspatch, PatchStarts, Changed, Applying, Goto
<1>2. list[w] = TheList(w)
  BY <1>1 DEF Going, Serves, Early
<1>3. ASSUME Fit(w) PROVE Goes(w)'
  <2>1. /\ d # NoFile /\ d.form = "esdiff" /\ d.base = OldFile(w) /\ d.image = Made(w) /\ OldFile(w) # NoFile
        /\ OldFile(w).blocks # NoFile /\ IsBlocks(OldFile(w).blocks)
        /\ IsBlocks(Made(w).blocks) /\ d.pieces = Len(Made(w).blocks)
    BY <1>1, <1>3, ChangedMade
  <2>2. Goes(w) /\ EntryMade(job[w], di) /\ k[w] \in Nat /\ DOMAIN list[w] \subseteq Nat
        /\ \A i \in DOMAIN list[w] : list[w][i].name = di.name => i = k[w] + 1
    BY <1>1, <1>3, AtEntry
  <2>3. new = NoFile
    <3>1. Built(list[w], k[w], newDir[w])
      BY <1>1, <2>2 DEF Growing, Goes
    <3>2. di.name # "manifest.xml"
      BY <2>2 DEF EntryMade
    <3>3. \A i \in Kept(list[w]) : i <= k[w] => list[w][i].name # di.name
      BY <2>2 DEF Kept
    <3>4. di.name \notin DOMAIN newDir[w]
      BY <3>1, <3>2, <3>3 DEF Built
    <3>5. QED
      BY <3>4 DEF File
  <2>4. old = OldFile(w).blocks /\ old # NoFile
    BY <2>1 DEF Blocks
  <2>5. esp' = [esp EXCEPT ![w] = [EspOff EXCEPT !.step = "copy", !.ref = old, !.new = <<>>, !.patch = d]]
    BY <1>1, <2>1, <2>3, <2>4 DEF EspOpen
  <2>6. /\ f.step = "copy" /\ f.ref = old /\ f.new = <<>> /\ f.patch = d /\ f.crash = FALSE /\ f.newsize = 0
    BY <2>5 DEF EspTyped, EspOff
  <2>7. Made(w).blocks # <<>>
    <3> DEFINE t == File(job[w].target, di.name)
    <3>1. t # NoFile /\ (di.squash => t = [form |-> "squash", blocks |-> t.blocks, packed |-> TRUE])
      BY <1>1, <2>2 DEF EntryMade
    <3>2. t.blocks # <<>>
      BY <1>1, <1>3, <3>1 DEF Fit, File
    <3>3. di.squash => Loose(t).blocks = t.blocks
      BY <3>1 DEF Loose
    <3>4. QED
      BY <3>2, <3>3 DEF Made
  <2>8. Made(w)' = Made(w) /\ k'[w] = k[w]
    BY <1>1, MadeKept DEF Elsewhere
  <2>9. EspGoes(w)'
    BY <2>1, <2>4, <2>6, <2>7, <2>8 DEF EspGoes
  <2>10. Left(w, k[w])'
    BY <1>1, <2>2 DEF Goes, Left, Elsewhere
  <2>11. QED
    BY <1>1, <2>2, <2>8, <2>9, <2>10 DEF Goes, Elsewhere, deltaStg
<1>4. QED
  BY <1>1, <1>2, <1>3, ListedServes DEF Early, Elsewhere, deltaStg

\* espatch runs.
LEMMA EspatchRunsServes ==
  ASSUME NEW w \in Workers, Going(w), EspTyped, ~Fault, EspatchRuns(w)
  PROVE  Serves(w)'
<1>1. pc[w] = "espatch" /\ EspStep(w) /\ UNCHANGED <<pc, dirVars, list, k, err, Elsewhere>>
  BY DEF EspatchRuns
<1>2. list[w] = TheList(w)
  BY <1>1 DEF Going, Serves, Early
<1>3. ASSUME Fit(w) PROVE Goes(w)'
  <2>1. Goes(w)
    BY <1>1, <1>3, AtEntry
  <2>2. Made(w)' = Made(w) /\ k'[w] = k[w]
    BY <1>1, MadeKept DEF Elsewhere
  <2>3. EspGoes(w)'
    <3>1. ~EspMisreads(w)
      BY DEF EspMisreads, EspLoops
    <3>2. QED
      BY <1>1, <2>1, <2>2, <3>1, EspCopyGoes, EspProcessGoes, EspCleanupGoes DEF Goes, EspStep
  <2>4. Left(w, k[w])'
    BY <1>1, <2>1 DEF Goes, Left, Elsewhere, dirVars
  <2>5. QED
    BY <1>1, <2>1, <2>2, <2>3, <2>4 DEF Goes, Elsewhere, deltaStg
<1>4. QED
  BY <1>1, <1>2, <1>3, ListedServes DEF Early, Elsewhere, deltaStg

\* espatch returns the image.
LEMMA EspatchReturnsServes ==
  ASSUME NEW w \in Workers, Going(w), EspatchReturns(w)
  PROVE  Serves(w)'
<1>1. /\ pc[w] = "espatch" /\ UNCHANGED <<oldDir, diffDir, list, k, Elsewhere>> /\ Goto(w, "consume")
      /\ esp[w].step = "returned" /\ Entry(w).type = "changed"
      /\ NewFile(w, Image(esp[w]), NewVerified(Entry(w), Image(esp[w]), esp[w].ok))
  BY DEF Going, InList, Listed, EspatchReturns, NewFile
<1>2. ASSUME Fit(w)
      PROVE  /\ NewFile(w, Made(w), NewVerified(Entry(w), Made(w), TRUE))
             /\ Made(w) # NoFile /\ (~Entry(w).squash => Verified(Made(w), Entry(w).sha_new))
  <2>1. EspGoes(w) /\ EntryMade(job[w], Entry(w))
    BY <1>1, <1>2, AtEntry DEF Goes
  <2>2. Image(esp[w]) = Made(w) /\ esp[w].ok
    BY <1>1, <2>1 DEF EspGoes, Image
  <2>3. Made(w) # NoFile /\ (~Entry(w).squash => Verified(Made(w), Entry(w).sha_new))
    BY <1>1, <2>1 DEF EntryMade, Made, Verified
  <2>4. NewVerified(Entry(w), Made(w), esp[w].ok) = NewVerified(Entry(w), Made(w), TRUE)
    BY <2>2 DEF NewVerified
  <2>5. QED
    BY <1>1, <2>2, <2>3, <2>4
<1>3. QED
  BY <1>1, <1>2, PatchedServes

\* The files that the entry at hand used are no other entry's.
LEMMA ConsumeServes ==
  ASSUME NEW w \in Workers, Going(w), Consume(w)
  PROVE  Serves(w)'
<1> DEFINE di == Entry(w)
<1>1. /\ pc[w] = "consume" /\ UNCHANGED <<newDir, list, err, Elsewhere>>
      /\ pc'[w] = (IF di.squash THEN "repackage" ELSE "entry")
      /\ k'[w] = (IF di.squash THEN k[w] ELSE k[w] + 1)
      /\ oldDir'[w] = (IF di.squash THEN oldDir[w] ELSE Without(oldDir[w], OldName(di)))
      /\ diffDir'[w] = Without(diffDir[w], di.name)
  BY DEF Going, Domains, DirDomains, Consume, Goto, SetDir
<1>2. list[w] = TheList(w) /\ pc'[w] \notin Early
  BY <1>1 DEF Going, Serves, Early
<1>3. ASSUME Fit(w) PROVE Goes(w)'
  <2>1. /\ Goes(w) /\ k[w] \in Nat /\ DOMAIN list[w] \subseteq Nat /\ EntryMade(job[w], di)
        /\ k[w] + 1 \in DOMAIN list[w]
        /\ \A i \in DOMAIN list[w] : list[w][i].name = di.name => i = k[w] + 1
    BY <1>1, <1>3, AtEntry
  <2>2. Left(w, k[w] + 1)
    BY <1>1, <2>1 DEF Goes
  <2>3. \A n : n # di.name => File(diffDir'[w], n) = File(diffDir[w], n)
    BY <1>1 DEF Without, File
  <2>4. \A n : di.squash \/ n # OldName(di) => File(oldDir'[w], n) = File(oldDir[w], n)
    BY <1>1 DEF Without, File
  <2>5. ASSUME NEW i \in DOMAIN list[w], i > k[w] + 1
        PROVE  /\ list[w][i].name # di.name
               /\ NeedsOld(list[w][i]) => di.squash \/ OldName(list[w][i]) # OldName(di)
    <3>1. list[w][i].name # di.name
      BY <2>1, <2>5
    <3>2. k[w] + 1 < i /\ list[w][k[w] + 1] = di
      BY <2>1, <2>5 DEF Entry
    <3>3. ~SharesOld(list[w])
      BY <1>2, <1>3 DEF Fit
    <3>4. QED
      BY <2>1, <3>1, <3>2, <3>3 DEF SharesOld
  <2>6. di.name # "manifest.xml"
    BY <2>1 DEF EntryMade
  <2>7. UNCHANGED <<job, list>> /\ File(diffDir'[w], "manifest.xml") = job[w].diff["manifest.xml"]
    BY <1>1, <2>2, <2>3, <2>6 DEF Left, Elsewhere
  <2>8. ASSUME NEW i \in DOMAIN list[w], i > k[w] + 1
        PROVE  /\ File(diffDir'[w], list[w][i].name) = File(job[w].diff, list[w][i].name)
               /\ NeedsOld(list[w][i]) =>
                    File(oldDir'[w], OldName(list[w][i])) = File(job[w].base, OldName(list[w][i]))
    BY <2>2, <2>3, <2>4, <2>5, <2>8 DEF Left
  <2>9. CASE di.squash
    <3>1. k'[w] = k[w] /\ pc'[w] = "repackage"
      BY <1>1, <2>9
    <3>2. Left(w, k[w] + 1)'
      BY <2>7, <2>8, <3>1 DEF Left
    <3>3. Made(w)' = Made(w) /\ Entry(w)' = di
      BY <2>7, <3>1, MadeKept
    <3>4. QED
      BY <1>1, <2>1, <3>1, <3>2, <3>3 DEF Goes
  <2>10. CASE ~di.squash
    <3>1. k'[w] = k[w] + 1 /\ pc'[w] = "entry"
      BY <1>1, <2>10
    <3>2. Left(w, k[w])'
      BY <2>7, <2>8, <3>1 DEF Left
    <3>3. QED
      BY <1>1, <2>1, <3>1, <3>2 DEF Goes
  <2>11. QED
    BY <2>9, <2>10
<1>4. QED
  BY <1>1, <1>2, <1>3, ListedServes DEF Elsewhere, deltaStg

\* An image that is unpacked, or packed, is otherwise the same.
Stored(image, p) == [image EXCEPT !.packed = p]
SquashImage(b, p) == [form |-> "squash", blocks |-> b, packed |-> p]

\* Only the packing is changed.
LEMMA ImageStored ==
  ASSUME NEW b, NEW p, NEW q
  PROVE  Stored(SquashImage(b, p), q) = SquashImage(b, q)
BY DEF Stored, SquashImage

\* The image is packed as the server had it.
LEMMA RepackageServes ==
  ASSUME NEW w \in Workers, Going(w), ~Fault, Repackage(w)
  PROVE  Serves(w)'
<1> DEFINE di == Entry(w)
           new == File(newDir[w], di.name)
           t == File(job[w].target, di.name)
           image == [new EXCEPT !.packed = (di.options = "kept")]
<1>1. /\ pc[w] = "repackage" /\ pc'[w] = "entry" /\ UNCHANGED <<oldDir, diffDir, list, Elsewhere>>
      /\ k'[w] = k[w] + 1 /\ di.squash
  BY DEF Going, InList, Listed, Domains, Repackage, Goto
<1>2. list[w] = TheList(w)
  BY <1>1 DEF Going, Serves, Early
<1>3. ASSUME Fit(w) PROVE Goes(w)'
  <2>1. Goes(w) /\ EntryMade(job[w], di) /\ di.options # "cut"
    BY <1>1, <1>3, AtEntry
  <2>2. /\ t = [form |-> "squash", blocks |-> t.blocks, packed |-> TRUE] /\ t # NoFile /\ t # None
        /\ t = di.sha_new /\ Loose(t) # NoFile /\ di.options = "kept" /\ di.options # None
    BY <1>1, <2>1 DEF EntryMade
  <2>3. new = Loose(t)
    BY <1>1, <2>1 DEF Goes, Made
  <2>4. t = SquashImage(t.blocks, TRUE)
    BY <2>2 DEF SquashImage
  <2>5. new = SquashImage(t.blocks, FALSE)
    <3>1. new = Stored(t, FALSE)
      BY <2>3 DEF Loose, Stored
    <3>2. Stored(SquashImage(t.blocks, TRUE), FALSE) = SquashImage(t.blocks, FALSE)
      BY ImageStored
    <3>3. QED
      BY <2>4, <3>1, <3>2, Zenon
  <2>6. IsImage(new) /\ image = t
    <3>1. IsImage(new)
      BY <2>2, <2>3, <2>5 DEF IsImage, SquashImage
    <3>2. image = Stored(new, TRUE)
      BY <2>2 DEF Stored
    <3>3. Stored(SquashImage(t.blocks, FALSE), TRUE) = SquashImage(t.blocks, TRUE)
      BY ImageStored
    <3>4. QED
      BY <2>4, <2>5, <3>1, <3>2, <3>3, Zenon
  <2> HIDE DEF image
  <2>7. UNCHANGED err
    BY <2>2, <2>6 DEF Repackage, CopyFile, Verified, image
  <2>8. Left(w, k[w])'
    <3>1. Left(w, k[w] + 1)
      BY <1>1, <2>1 DEF Goes
    <3>2. QED
      BY <1>1, <3>1 DEF Left, Elsewhere
  <2>9. QED
    BY <1>1, <2>1, <2>7, <2>8 DEF Goes
<1>4. QED
  BY <1>1, <1>2, <1>3, ListedServes DEF Early, Elsewhere, deltaStg

\* manifest.xml is in the differences.
LEMMA CopyManifestServes ==
  ASSUME NEW w \in Workers, Going(w), ~Fault, CopyManifest(w)
  PROVE  Serves(w)'
<1> DEFINE m == File(diffDir[w], "manifest.xml")
<1>1. /\ pc[w] = "manifest" /\ UNCHANGED <<list, Elsewhere>> /\ pc'[w] \in {"chdir", "libzip", "cleanup"}
  BY DEF Going, Domains, CopyManifest, Goto
<1>2. list[w] = TheList(w)
  BY <1>1 DEF Going, Serves, Early
<1>3. ASSUME Fit(w) PROVE Goes(w)'
  <2>1. Goes(w)
    BY <1>1, <1>3 DEF Going, Serves, Early
  <2>2. WellMade(job[w])
    BY ServerAssumption DEF Going, Known
  <2>3. m # NoFile
    BY <1>1, <2>1, <2>2 DEF Goes, WellMade
  <2>4. UNCHANGED err /\ pc'[w] \in {"chdir", "libzip"}
    BY <2>3 DEF Going, Domains, CopyManifest, CopyFile, Goto
  <2>5. QED
    BY <2>1, <2>4 DEF Goes
<1>4. QED
  BY <1>1, <1>2, <1>3, ListedServes DEF Early, Elsewhere, deltaStg

\* The working directory is the one to be zipped.
LEMMA ChdirServes ==
  ASSUME NEW w \in Workers, Going(w), Chdir(w)
  PROVE  Serves(w)'
<1>1. pc[w] = "chdir" /\ pc'[w] = "zip" /\ UNCHANGED <<job, deltaStg, list, err>>
  BY DEF Going, Domains, Chdir, Goto
<1>2. list[w] = TheList(w) /\ (Fit(w) => Goes(w))
  BY <1>1 DEF Going, Serves, Early
<1>3. Goes(w) => Goes(w)'
  BY <1>1 DEF Goes
<1>4. QED
  BY <1>1, <1>2, <1>3, ListedServes DEF Early, deltaStg

\* A directory that has what the list promises has what the server had.
LEMMA IntactIsTarget ==
  ASSUME NEW j, WellMade(j), NEW d,
         Intact(d, DiffList(j.diff["manifest_diff.xml"])), DOMAIN DiffList(j.diff["manifest_diff.xml"]) \subseteq Nat
  PROVE  Without(d, "manifest.xml") = j.target
<1> DEFINE l == DiffList(j.diff["manifest_diff.xml"])
           names == {l[i].name : i \in Kept(l)}
<1>1. j.target = [n \in names |-> j.target[n]]
  BY DEF WellMade
<1>2. DOMAIN d \ {"manifest.xml"} = names
  BY DEF Intact
<1>3. ASSUME NEW i \in Kept(l) PROVE d[l[i].name] = j.target[l[i].name]
  <2>1. i \in DOMAIN l /\ (l[i].type # "removed" \/ l[i].squash) /\ l[i].name \in DOMAIN j.target
    BY <1>1 DEF Kept
  <2>2. LastFor(l, i)
    <3>1. \A i2 \in Kept(l) : l[i2].name = l[i].name => i2 = i
      BY <2>1 DEF WellMade, Kept
    <3>2. i \in Nat
      BY <2>1
    <3>3. ~(i > i)
      BY <3>2
    <3> HIDE DEF l
    <3>4. QED
      BY <3>1, <3>3 DEF LastFor
  <2>3. d[l[i].name] = Promise(l[i])
    BY <2>2 DEF Intact
  <2>4. EntryMade(j, l[i])
    BY <2>1 DEF WellMade
  <2>5. File(j.target, l[i].name) = j.target[l[i].name]
    BY <2>1 DEF File
  <2>6. QED
    BY <2>1, <2>3, <2>4, <2>5 DEF EntryMade, Promise
<1>4. \A n \in names : d[n] = j.target[n]
  BY <1>3
<1>5. Without(d, "manifest.xml") = [n \in names |-> d[n]]
  BY <1>2 DEF Without
<1>6. QED
  BY <1>1, <1>4, <1>5

\* The package is the new directory.
LEMMA PackedServes ==
  ASSUME NEW w \in Workers, Going(w), Packing(w), pc[w] \in {"zip", "libzip"}, pc'[w] = "cleanup",
         UNCHANGED <<job, deltaStg, list, err>>, newPkg'[w] = newDir[w]
  PROVE  Serves(w)'
<1>1. list[w] = TheList(w) /\ (Fit(w) => Goes(w))
  BY DEF Going, Serves, Early
<1>2. WellMade(job[w]) /\ Intact(newDir[w], list[w]) /\ DOMAIN list[w] \subseteq Nat
  BY ServerAssumption DEF Going, Known, Packing, InList, Listed, IsList
<1>3. Without(newDir[w], "manifest.xml") = job[w].target
  BY <1>1, <1>2, IntactIsTarget DEF TheList
<1>4. Goes(w) => Goes(w)'
  BY <1>3 DEF Goes
<1>5. QED
  BY <1>1, <1>4, ListedServes DEF Early, deltaStg

\* The command archives the working directory, which is the new one.
LEMMA ZipServes ==
  ASSUME NEW w \in Workers, Going(w), Packing(w), ~Fault, Zip(w)
  PROVE  Serves(w)'
<1>1. pc[w] = "zip" /\ cwd = w /\ w # None
  BY WorkersAssumption DEF Packing, Zip
<1>2. pc'[w] = "cleanup" /\ UNCHANGED <<job, deltaStg, list, err>> /\ newPkg'[w] = newDir[w]
  BY <1>1 DEF Going, Domains, Zip, Goto
<1>3. QED
  BY <1>1, <1>2, PackedServes

\* libzip archives the new directory.
LEMMA LibZipServes ==
  ASSUME NEW w \in Workers, Going(w), Packing(w), ~Fault, LibZip(w)
  PROVE  Serves(w)'
<1>1. /\ pc[w] = "libzip" /\ pc'[w] = "cleanup" /\ UNCHANGED <<job, deltaStg, list, err>>
      /\ newPkg'[w] = newDir[w]
  BY DEF Going, Domains, LibZip, Goto
<1>2. QED
  BY <1>1, PackedServes

\* The package stays.
LEMMA CleanupServes ==
  ASSUME NEW w \in Workers, Going(w), Cleanup(w)
  PROVE  Serves(w)'
<1>1. /\ pc[w] = "cleanup" /\ pc'[w] = "return" /\ UNCHANGED <<job, deltaStg, list, err, newPkg>>
  BY DEF Going, Domains, Cleanup, Goto, Elsewhere
<1>2. list[w] = TheList(w) /\ (Fit(w) => Goes(w))
  BY <1>1 DEF Going, Serves, Early
<1>3. Goes(w) => Goes(w)'
  BY <1>1 DEF Goes
<1>4. QED
  BY <1>1, <1>2, <1>3, ListedServes DEF Early, deltaStg

----------------------------------------------------------------------------
(***************************************************************************)
(* All the steps.                                                          *)
(***************************************************************************)
\* A step of a reconstruction is one of an active worker, and keeps its package and the
\* other workers' calls of espatch.
LEMMA ReconstructKeeps ==
  ASSUME EspTyped, NEW w \in Workers, Reconstruct(w), ~EspatchCrashes(w)
  PROVE  /\ Active(w) /\ UNCHANGED <<job, deltaStg>>
         /\ \A u \in Workers : u # w => esp'[u] = esp[u]
<1> USE DEF Active, Elsewhere
<1>1. CASE MakeDirs(w) \/ UnzipOld(w) \/ UnzipDiff(w) \/ ParseDiffManifest(w) \/ NextEntry(w) \/ Unsquash(w)
  BY <1>1 DEF MakeDirs, UnzipOld, UnzipDiff, Unzip, ParseDiffManifest, NextEntry, Unsquash
<1>2. CASE Added(w) \/ Unchanged(w) \/ Removed(w)
  BY <1>2 DEF Added, Unchanged, ApplyCopy, Removed, Applying
<1>3. CASE PatchRefused(w) \/ PatchByCommand(w) \/ PatchByCopy(w)
  BY <1>3 DEF PatchRefused, PatchByCommand, PatchByCopy, PatchStarts, Changed, Applying
<1>4. CASE PatchByEspatch(w)
  BY <1>4, EspOpens DEF PatchByEspatch, PatchStarts, Changed, Applying, EspOwn
<1>5. CASE EspatchRuns(w)
  BY <1>5, EspStepOwn DEF EspatchRuns, EspOwn
<1>6. CASE EspatchReturns(w)
  BY <1>6 DEF EspatchReturns, EspTyped
<1>7. CASE Consume(w) \/ Repackage(w) \/ CopyManifest(w) \/ Cleanup(w)
  BY <1>7 DEF Consume, Repackage, CopyManifest, Cleanup
<1>8. CASE Chdir(w) \/ Zip(w) \/ LibZip(w) \/ Return(w)
  BY <1>8 DEF Chdir, Zip, LibZip, Return
<1>9. QED
  BY <1>1, <1>2, <1>3, <1>4, <1>5, <1>6, <1>7, <1>8 DEF Reconstruct

\* A worker's step.
LEMMA ReconstructServes ==
  ASSUME IInv, TypeInv, DirDomains, ToolsAnnounced, NoFault,
         NEW w \in Workers, Known(w), Serves(w), Reconstruct(w), ~EspatchCrashes(w)
  PROVE  Serves(w)'
<1>1. Active(w) /\ UNCHANGED job
  BY ReconstructKeeps DEF TypeInv
<1>2. CASE job[w].base = NoFile \/ job[w].target = None
  BY <1>1, <1>2 DEF Serves
<1>3. CASE job[w].base # NoFile /\ job[w].target # None
  <2>1. Going(w) /\ EspTyped /\ Growing(w) /\ Packing(w)
    BY <1>1, <1>3 DEF Going, TypeInv, IInv
  <2>2. CASE Return(w)
    BY <2>2 DEF TypeInv, Domains, Return, Goto, Serves, Active
  <2>3. QED
    BY <2>1, <2>2, MakeDirsServes, UnzipOldServes, UnzipDiffServes, ParseServes, NextEntryServes,
       UnsquashServes,
       AddedServes, UnchangedServes, RemovedServes, PatchRefusedServes, PatchByCommandServes, PatchByCopyServes,
       PatchByEspatchServes, EspatchRunsServes, EspatchReturnsServes, ConsumeServes, RepackageServes,
       CopyManifestServes, ChdirServes, ZipServes, LibZipServes, CleanupServes DEF Reconstruct, NoFault
<1>4. QED
  BY <1>2, <1>3

\* What Serves says of a worker depends on its own variables.
LEMMA OthersServe ==
  ASSUME NEW u \in Workers, Serves(u),
         pc'[u] = pc[u], err'[u] = err[u], list'[u] = list[u], k'[u] = k[u], job'[u] = job[u],
         oldDir'[u] = oldDir[u], diffDir'[u] = diffDir[u], newDir'[u] = newDir[u], artDir'[u] = artDir[u],
         newPkg'[u] = newPkg[u], esp'[u] = esp[u], shell' = shell, delta_cap' = delta_cap
  PROVE  Serves(u)'
<1>1. TheList(u)' = TheList(u) /\ (Fit(u)' <=> Fit(u))
  BY FitKept
<1>2. Entry(u)' = Entry(u) /\ Made(u)' = Made(u)
  BY MadeKept
<1>3. EspGoes(u) => EspGoes(u)'
  BY <1>2 DEF EspGoes
<1>4. OldFile(u)' = OldFile(u)
  BY <1>2 DEF OldFile
<1>5. Left(u, k[u])' <=> Left(u, k[u])
  BY DEF Left
<1>6. Left(u, k[u] + 1)' <=> Left(u, k[u] + 1)
  BY DEF Left
<1>7. Goes(u) => Goes(u)'
  BY <1>2, <1>3, <1>4, <1>5, <1>6 DEF Goes
<1>8. QED
  BY <1>1, <1>7 DEF Serves, Active

\* A worker is handed a package.
LEMMA PrepareServes ==
  ASSUME TypeInv, DirDomains, NEW w \in Workers, Prepare(w), \A u \in Workers : Known(u)
  PROVE  /\ \A u \in Workers : Known(u)'
         /\ (\A u \in Workers : Serves(u)) => \A u \in Workers : Serves(u)'
<1>1. PICK j \in Jobs[w] :
        /\ job' = [job EXCEPT ![w] = j]
        /\ list' = [list EXCEPT ![w] = <<>>] /\ k' = [k EXCEPT ![w] = 0]
        /\ \/ UNCHANGED pc
           \/ /\ delta_cap # None
              /\ err' = [err EXCEPT ![w] = IF j.base = NoFile THEN "ERR" ELSE "OK"]
              /\ pc' = [pc EXCEPT ![w] = IF j.base = NoFile THEN "return" ELSE "prepare"]
        /\ \E e : err' = [err EXCEPT ![w] = e]
  BY DEF Prepare
<1>2. pc[w] = "idle" /\ UNCHANGED <<deltaStg, dirVars, newPkg, esp>>
  BY DEF Prepare
<1>3. Known(w)' /\ Serves(w)'
  BY <1>1, <1>2 DEF TypeInv, Domains, Known, Serves, Active, Early, deltaStg
<1>4. ASSUME NEW u \in Workers, u # w PROVE Known(u)' /\ (Serves(u) => Serves(u)')
  <2>1. /\ pc'[u] = pc[u] /\ err'[u] = err[u] /\ list'[u] = list[u] /\ k'[u] = k[u] /\ job'[u] = job[u]
    BY <1>1, <1>4 DEF TypeInv, Domains
  <2>2. Known(u)'
    BY <1>2, <2>1 DEF Known, Active, deltaStg
  <2>3. QED
    BY <1>2, <2>1, <2>2, OthersServe DEF deltaStg, dirVars
<1>5. QED
  BY <1>3, <1>4

----------------------------------------------------------------------------
(***************************************************************************)
(* The tools that delta_init collects.                                     *)
(***************************************************************************)
\* A set of naturals has a smallest one.
LEMMA Smallest ==
  ASSUME NEW T \in SUBSET Nat, T # {}
  PROVE  \E i \in T : \A j \in T : i <= j
<1>1. PICK x \in T : \A y \in T : ~(<<y, x>> \in OpToRel(<, Nat))
  BY NatLessThanWellFounded, WFMin
<1>2. ASSUME NEW y \in T PROVE x <= y
  <2>1. ~(y < x)
    BY <1>1 DEF OpToRel
  <2>2. QED
    BY <2>1
<1>3. QED
  BY <1>2

\* Some of the first n numbers have a largest one.
LEMMA Largest ==
  ASSUME NEW n \in Nat, NEW S \in SUBSET (1..n), S # {}
  PROVE  \E i \in S : \A j \in S : j <= i
<1> DEFINE T == {n - i : i \in S}
<1>1. \A i \in S : n - i \in Nat
  OBVIOUS
<1>2. T \in SUBSET Nat /\ T # {}
  BY <1>1
<1>3. PICK x \in T : \A y \in T : x <= y
  BY <1>2, Smallest
<1>4. PICK i \in S : x = n - i
  BY <1>3
<1>5. ASSUME NEW j \in S PROVE j <= i
  <2>1. n - i <= n - j
    BY <1>3, <1>4
  <2>2. QED
    BY <2>1
<1>6. QED
  BY <1>5

\* The table has, for each algorithm in it, one of the tools for it.
LEMMA TableHolds ==
  ASSUME NEW S, NEW ts \in Seq(S), NEW runnable, NEW a \in DOMAIN ToolTable(ts, runnable)
  PROVE  ToolTable(ts, runnable)[a] \in {t \in S : t.algo = a}
<1> DEFINE good == {i \in DOMAIN ts : Usable(ts[i], runnable)}
           those == {i \in good : ts[i].algo = a}
           last == CHOOSE i \in good : ts[i].algo = a /\ \A j \in good : ts[j].algo = a => j <= i
<1>1. those \in SUBSET (1..Len(ts)) /\ those # {} /\ Len(ts) \in Nat
  BY DEF ToolTable
<1>2. \E i \in those : \A j \in those : j <= i
  <2> HIDE DEF those
  <2> QED
    BY <1>1, Largest
<1>3. \E i \in good : ts[i].algo = a /\ \A j \in good : ts[j].algo = a => j <= i
  BY <1>2
<1>4. last \in good /\ ts[last].algo = a
  BY <1>3
<1>5. ToolTable(ts, runnable)[a] = ts[last]
  BY DEF ToolTable
<1>6. QED
  BY <1>4, <1>5

\* What delta_init announces it can do.
LEMMA DeltaInitAnnounces ==
  ASSUME \A c \in Configs : DefaultMethods(c), DeltaInit
  PROVE  ToolsAnnounced'
<1> SUFFICES ASSUME delta_cap' # None
             PROVE  ToolsAnnounced'
  BY DEF ToolsAnnounced
<1> DEFINE Pt(c, r) == ToolTable(deflt_patch_tools \o c.patch, r)
           Dt(c, r) == ToolTable(deflt_decomp_tools \o c.decomp, r)
<1>1. PICK runnable \in Commands, c \in Configs :
        /\ patch_tool' = Pt(c, runnable) /\ decomp_tool' = Dt(c, runnable)
        /\ delta_cap' = DeltaCap(c.cap, Pt(c, runnable), Dt(c, runnable))
  BY DEF DeltaInit
<1>2. shell' = shell
  BY DEF DeltaInit
<1>3. PICK S : c.patch \in Seq(S) /\ \A t \in S : t.algo = "esdiff" /\ t.intl = TRUE
  BY DEF DefaultMethods
<1>4. PICK Z : c.decomp \in Seq(Z) /\ \A t \in Z : t.algo = "xz"
  BY DEF DefaultMethods
<1> DEFINE P == {Tool("esdiff", "espatch", TRUE)}
                \cup IF shell THEN {Tool("bsdiff", "bspatch", TRUE), Tool("rfc3284", "xdelta3", FALSE)} ELSE {}
           D == {Tool("xz", "xz", FALSE)}
                \cup IF shell THEN {Tool("gzip", "gzip", FALSE), Tool("bzip2", "bzip2", FALSE)} ELSE {}
<1>5. deflt_patch_tools \in Seq(P) /\ deflt_decomp_tools \in Seq(D)
  <2>1. \A A, x, y, z : {x, y, z} \subseteq A => <<x, y, z>> \in Seq(A) /\ <<x>> \in Seq(A)
    OBVIOUS
  <2>2. QED
    BY <2>1 DEF deflt_patch_tools, deflt_decomp_tools
<1>6. \A t \in P \cup S : (t.intl <=> t.algo \in Internal) /\ (~shell => t.algo = "esdiff")
  <2>1. \A t \in S : (t.intl <=> t.algo \in Internal) /\ t.algo = "esdiff"
    BY <1>3 DEF Internal
  <2>2. \A t \in P : \/ t.algo \in {"esdiff", "bsdiff"} /\ t.intl = TRUE
                     \/ t.algo = "rfc3284" /\ t.intl = FALSE
    BY DEF Tool
  <2>3. \A t \in P : ~shell => t.algo = "esdiff"
    BY DEF Tool
  <2>4. \A t \in P : t.intl <=> t.algo \in Internal
    BY <2>2 DEF Internal
  <2>5. QED
    BY <2>1, <2>3, <2>4
<1>7. \A t \in D \cup Z : ~shell => t.algo = "xz"
  BY <1>4 DEF Tool
<1> HIDE DEF P, D
<1>8. deflt_patch_tools \o c.patch \in Seq(P \cup S) /\ deflt_decomp_tools \o c.decomp \in Seq(D \cup Z)
  BY <1>3, <1>4, <1>5
<1> HIDE DEF Pt, Dt
<1>9. ASSUME NEW a \in DOMAIN patch_tool' PROVE patch_tool'[a] \in {t \in P \cup S : t.algo = a}
  <2> DEFINE ts == deflt_patch_tools \o c.patch
  <2> HIDE DEF ts
  <2>1. ts \in Seq(P \cup S) /\ patch_tool' = ToolTable(ts, runnable)
    BY <1>1, <1>8 DEF Pt, ts
  <2>2. QED
    BY <1>9, <2>1, TableHolds
<1>10. ASSUME NEW a \in DOMAIN decomp_tool' PROVE decomp_tool'[a] \in {t \in D \cup Z : t.algo = a}
  <2> DEFINE ts == deflt_decomp_tools \o c.decomp
  <2> HIDE DEF ts
  <2>1. ts \in Seq(D \cup Z) /\ decomp_tool' = ToolTable(ts, runnable)
    BY <1>1, <1>8 DEF Dt, ts
  <2>2. QED
    BY <1>10, <2>1, TableHolds
<1>11. /\ delta_cap'.format = DOMAIN patch_tool' \cap {"bsdiff", "rfc3284", "esdiff"}
       /\ delta_cap'.compression = DOMAIN decomp_tool' \cap {"gzip", "bzip2", "xz"}
  BY <1>1 DEF DeltaCap, DefaultMethods
<1>12. \A f \in delta_cap'.format : patch_tool'[f].intl <=> f \in Internal
  BY <1>6, <1>9, <1>11
<1>13. ~shell => delta_cap'.format \subseteq {"esdiff"} /\ delta_cap'.compression \subseteq {"xz"}
  BY <1>6, <1>7, <1>9, <1>10, <1>11
<1>14. QED
  BY <1>2, <1>11, <1>12, <1>13 DEF ToolsAnnounced

\* A fault is counted.
Counted == UNCHANGED faults \/ Fault \/ \E n \in 0..4 : Failing(n)

LEMMA FaultsCounted ==
  ASSUME Values, [Next]_vars
  PROVE  faults' \in Nat /\ faults' >= faults
<1>1. ASSUME NEW w \in Workers, Reconstruct(w) PROVE Counted
  <2>1. CASE UnzipOld(w) \/ UnzipDiff(w) \/ ParseDiffManifest(w) \/ NextEntry(w) \/ Unsquash(w)
    BY <2>1 DEF Counted, UnzipOld, UnzipDiff, Unzip, ParseDiffManifest, NextEntry, Unsquash
  <2>2. CASE Added(w) \/ Unchanged(w) \/ Removed(w)
    BY <2>2 DEF Counted, Added, Unchanged, ApplyCopy, CopyFile, Removed
  <2>3. CASE PatchRefused(w) \/ PatchByCommand(w) \/ PatchByCopy(w)
    BY <2>3 DEF Counted, PatchRefused, PatchByCommand, PatchCommand, PatchByCopy, CopyFile
  <2>4. CASE PatchByEspatch(w) \/ EspatchRuns(w) \/ EspatchReturns(w) \/ EspatchCrashes(w)
    BY <2>4 DEF Counted, PatchByEspatch, EspOpen, EspatchRuns, EspStep, EspCopy, EspLoops, EspProcess,
       EspMisreads, EspCleanup, EspatchReturns, EspatchCrashes, ProcessEnds
  <2>5. CASE Consume(w) \/ Repackage(w) \/ CopyManifest(w) \/ Chdir(w) \/ Zip(w) \/ LibZip(w)
    BY <2>5 DEF Counted, Consume, Repackage, CopyManifest, CopyFile, Chdir, Zip, LibZip
  <2>6. CASE Return(w)
    BY <2>6 DEF Counted, Return
  <2>7. \A a, b, c, d \in 0..1 : a + b + c + d \in 0..4
    OBVIOUS
  <2>8. CASE MakeDirs(w)
    BY <2>7, <2>8 DEF Counted, MakeDirs
  <2>9. CASE Cleanup(w)
    BY <2>7, <2>9 DEF Counted, Cleanup
  <2>10. QED
    BY <1>1, <2>1, <2>2, <2>3, <2>4, <2>5, <2>6, <2>8, <2>9 DEF Reconstruct
<1>2. ASSUME NEW w \in Workers, Prepare(w) PROVE Counted
  <2>1. UNCHANGED faults \/ Fault
    BY <1>2 DEF Prepare
  <2>2. QED
    BY <2>1 DEF Counted
<1>3. ASSUME DeltaInit \/ DeltaStop \/ Crash \/ UNCHANGED vars PROVE Counted
  <2>1. UNCHANGED faults
    BY <1>3 DEF DeltaInit, DeltaStop, Crash, ProcessEnds, vars
  <2>2. QED
    BY <2>1 DEF Counted
<1>4. Counted
  BY <1>1, <1>2, <1>3 DEF Next
<1>5. QED
  BY <1>4, FaultAssumption DEF Counted, Values, Fault, Failing

\* Where no worker is active there is nothing to serve.
LEMMA NobodyActive ==
  ASSUME \A u \in Workers : ~Active(u)'
  PROVE  \A u \in Workers : Known(u)' /\ Serves(u)'
BY DEF Known, Serves, Active

\* Every step keeps the tools and the packages, and without a fault what a worker needs.
LEMMA ServesNext ==
  ASSUME \A c \in Configs : DefaultMethods(c), TypeInv, DirDomains, ToolsAnnounced,
         \A u \in Workers : Known(u), [Next]_vars
  PROVE  /\ ToolsAnnounced' /\ \A u \in Workers : Known(u)'
         /\ IInv /\ NoFault /\ (\A u \in Workers : Serves(u)) => \A u \in Workers : Serves(u)'
<1>1. CASE DeltaInit
  <2>1. \A u \in Workers : ~Active(u)'
    BY <1>1 DEF DeltaInit, Active
  <2>2. QED
    BY <1>1, <2>1, NobodyActive, DeltaInitAnnounces
<1>2. CASE DeltaStop \/ ProcessEnds
  <2>1. (\A u \in Workers : ~Active(u)') /\ delta_cap' = None
    BY <1>2 DEF DeltaStop, ProcessEnds, Active
  <2>2. ToolsAnnounced'
    BY <2>1 DEF ToolsAnnounced
  <2>3. QED
    BY <2>1, <2>2, NobodyActive
<1>3. ASSUME NEW w \in Workers, Prepare(w)
      PROVE  /\ ToolsAnnounced' /\ \A u \in Workers : Known(u)'
             /\ (\A u \in Workers : Serves(u)) => \A u \in Workers : Serves(u)'
  <2>1. ToolsAnnounced'
    BY <1>3 DEF Prepare, deltaStg, ToolsAnnounced
  <2>2. QED
    BY <1>3, <2>1, PrepareServes
<1>4. ASSUME NEW w \in Workers, Reconstruct(w), ~EspatchCrashes(w)
      PROVE  /\ ToolsAnnounced' /\ \A u \in Workers : Known(u)'
             /\ IInv /\ NoFault /\ (\A u \in Workers : Serves(u)) => \A u \in Workers : Serves(u)'
  <2>1. /\ Active(w) /\ UNCHANGED <<job, deltaStg>>
        /\ \A u \in Workers : u # w => esp'[u] = esp[u]
    BY <1>4, ReconstructKeeps DEF TypeInv
  <2>2. Touches(w) /\ OwnDirs(w)
    BY <1>4, ReconstructTouches, ReconstructOwnDirs DEF TypeInv
  <2>3. ToolsAnnounced'
    BY <2>1 DEF deltaStg, ToolsAnnounced
  <2>4. ASSUME NEW u \in Workers PROVE Known(u)'
    BY <2>1, <2>2 DEF Known, Active, Touches, deltaStg
  <2>5. ASSUME IInv, NoFault, \A u \in Workers : Serves(u), NEW u \in Workers PROVE Serves(u)'
    <3>1. CASE u = w
      BY <1>4, <2>5, <3>1, ReconstructServes
    <3>2. CASE u # w
      BY <2>1, <2>2, <2>5, <3>2, OthersServe DEF Touches, OwnDirs
    <3>3. QED
      BY <3>1, <3>2
  <2>6. QED
    BY <2>3, <2>4, <2>5
<1>5. CASE UNCHANGED vars
  <2>1. ToolsAnnounced' /\ \A u \in Workers : Known(u)'
    BY <1>5 DEF vars, deltaStg, ToolsAnnounced, Known, Active
  <2>2. ASSUME NEW u \in Workers, Serves(u) PROVE Serves(u)'
    BY <1>5, <2>2, OthersServe DEF vars, deltaStg, dirVars
  <2>3. QED
    BY <2>1, <2>2
<1>6. QED
  BY <1>1, <1>2, <1>3, <1>4, <1>5 DEF Next, Crash, EspatchCrashes, Reconstruct

(***************************************************************************)
(* Whatever packages, tools and workers there are: differences that the    *)
(* server made for the installed version, with methods that libua          *)
(* announced, give the package that the server had, unless a command or a  *)
(* system call fails.  Components are not prepared at the same time in     *)
(* the build where zip_zip changes the working directory, and the          *)
(* application configures no capability, and no tools but for esdiff and   *)
(* xz.                                                                     *)
(***************************************************************************)
THEOREM AnnouncedDifferencesApply ==
  ASSUME ~ConcurrentShell, \A c \in Configs : DefaultMethods(c)
  PROVE  Spec => []AnnouncedSucceeds
<1>1. Init => SuccessInv
  <2> SUFFICES ASSUME Init PROVE SuccessInv
    OBVIOUS
  <2>1. TypeInv /\ IInv
    BY TypeInvInit, IInvInit
  <2>2. DirDomains
    BY DEF Init, DirDomains
  <2>3. ToolsAnnounced
    BY DEF Init, ToolsAnnounced
  <2>4. ASSUME NEW w \in Workers PROVE Known(w) /\ Serves(w) /\ Manifested(w)
    BY DEF Init, Known, Serves, Active, Manifested, NoDir
  <2>5. QED
    BY <2>1, <2>2, <2>3, <2>4 DEF SuccessInv
<1>2. SuccessInv /\ [Next]_vars => SuccessInv'
  <2> SUFFICES ASSUME SuccessInv, [Next]_vars PROVE SuccessInv'
    OBVIOUS
  <2>1. TypeInv' /\ DirDomains' /\ TypeInv /\ DirDomains
    BY TypeInvNext, DirsNext DEF SuccessInv
  <2>2. faults' \in Nat /\ faults' >= faults
    BY FaultsCounted DEF SuccessInv, TypeInv
  <2>3. faults' = 0 => faults = 0 /\ NoFault
    BY <2>2, FaultAssumption DEF SuccessInv, TypeInv, Values, Fault, Failing, NoFault
  <2>4. /\ ToolsAnnounced' /\ \A u \in Workers : Known(u)'
        /\ IInv /\ NoFault /\ (\A u \in Workers : Serves(u)) => \A u \in Workers : Serves(u)'
    BY <2>1, ServesNext DEF SuccessInv
  <2>5. faults' = 0 => IInv' /\ \A u \in Workers : Serves(u)'
    BY <2>3, <2>4, IInvNext DEF SuccessInv
  <2>6. \A u \in Workers : Manifested(u)'
    BY ManifestsNext DEF SuccessInv, TypeInv, InList
  <2>7. QED
    BY <2>1, <2>4, <2>5, <2>6 DEF SuccessInv
<1>3. SuccessInv => AnnouncedSucceeds
  <2> SUFFICES ASSUME SuccessInv, NEW w \in Workers, pc[w] = "return", faults = 0, ServerMade(w)
               PROVE  err[w] = "OK" /\ Without(newPkg[w], "manifest.xml") = job[w].target
    BY DEF AnnouncedSucceeds
  <2>1. Serves(w) /\ Active(w) /\ job[w].base # NoFile /\ job[w].target # None
    BY DEF SuccessInv, ServerMade, Active
  <2>2. list[w] = TheList(w) /\ (Fit(w) => Goes(w))
    BY <2>1 DEF Serves, Early
  <2>3. Fit(w)
    BY <2>2 DEF ServerMade, Fit
  <2>4. QED
    BY <2>2, <2>3 DEF Goes
<1>4. QED
  BY <1>1, <1>2, <1>3, PTL DEF Spec
============================================================================
