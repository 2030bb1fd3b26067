------------------------------ MODULE Espatch ------------------------------
(***************************************************************************)
(* espatch(), which applies an esdiff patch in the build without shell     *)
(* commands (delta_utils/espatch.c).  The new file starts as a copy of the *)
(* reference file; the decoder of the esdelta library, which is external,  *)
(* reads the patch piece by piece and writes the new image block by block  *)
(* through flash_writeblock; the end of the last block written becomes the *)
(* size of the file, and the library's check of the image decides.  The -1 *)
(* of a failing read() or write() is kept in a size_t, where it is a huge  *)
(* length and not an error.  One call at a time per worker thread; a crash *)
(* of the process ends it.                                                 *)
(***************************************************************************)
EXTENDS Naturals, Sequences

CONSTANTS
  Workers,     \* the worker threads, one for each component that prepares an update
  NoFile,      \* there is no such file
  Bad,         \* what a block holds that belongs to no image
  MaxFaults    \* bound on failing reads, writes, commands and system calls

ASSUME FaultAssumption == MaxFaults \in Nat

VARIABLES
  esp,         \* per worker, the locals of espatch() and its struct espatchctx
  faults       \* number of faults so far

EspSteps == {"off", "copy", "process", "cleanup", "returned", "looping"}

EspOff == [step |-> "off", ok |-> FALSE, crash |-> FALSE, ref |-> <<>>, new |-> <<>>,
           newsize |-> 0, patch |-> NoFile]

EspInit == esp = [w \in Workers |-> EspOff] /\ faults = 0

\* A fault that the code may or may not notice; bounded.
Fault == faults < MaxFaults /\ faults' = faults + 1

\* What a patch decodes to: the image it was made for, block by block, as long as the
\* reference is the one it was made from.
Decoded(e, i) == IF e.ref = e.patch.base.blocks THEN e.patch.image.blocks[i] ELSE Bad

EspReturn(w, ok) == esp' = [esp EXCEPT ![w].step = "returned", ![w].ok = ok]

(***************************************************************************)
(* Opening the files.  Without the patch file the function jumps over the  *)
(* initialisation of espatchctx to the clean-up, which reads it: it closes *)
(* and frees what happens to be there, and may end the process.            *)
(***************************************************************************)
EspOpen(w, old, new, diff) ==
  /\ esp[w].step = "off"
  /\ \/ /\ diff = NoFile
        /\ \E c \in BOOLEAN :
             esp' = [esp EXCEPT ![w].step = "returned", ![w].ok = FALSE, ![w].crash = c]
        /\ UNCHANGED faults
     \/ /\ diff # NoFile /\ old = NoFile
        /\ EspReturn(w, FALSE) /\ UNCHANGED faults
     \/ /\ diff # NoFile /\ EspReturn(w, FALSE) /\ Fault
     \/ /\ diff # NoFile /\ old # NoFile
        /\ esp' = [esp EXCEPT ![w] = [EspOff EXCEPT !.step = "copy", !.ref = old,
                                                    !.new = new, !.patch = diff]]
        /\ UNCHANGED faults

\* A file with the blocks f written over it from its beginning; it is not truncated.
Over(old, f) == [i \in 1..(IF Len(f) > Len(old) THEN Len(f) ELSE Len(old)) |->
                   IF i <= Len(f) THEN f[i] ELSE old[i]]

\* What is written of f if some writes fail: the blocks that follow close the gap.
SomeOf(f) == UNION {{[i \in 1..n |-> f[pick[i]]] :
                      pick \in {p \in [1..n -> 1..Len(f)] : \A i, j \in 1..n : i < j => p[i] < p[j]}} :
                    n \in 0..(Len(f) - 1)}

\* The call does not return.
EspLoops(w) == esp' = [esp EXCEPT ![w].step = "looping"] /\ Fault

\* __copyfile writes the reference over what the new file holds.  It takes a failed write for
\* a written block, and its caller does not look at the result.  It takes a failed read for a
\* block as well and tries again: if the file stays unreadable it does so for ever.
EspCopy(w) ==
  LET e == esp[w]
  IN  /\ e.step = "copy"
      /\ \/ /\ esp' = [esp EXCEPT ![w].new = Over(e.new, e.ref), ![w].step = "process"]
            /\ UNCHANGED faults
         \/ \E some \in SomeOf(e.ref) :
              /\ esp' = [esp EXCEPT ![w].new = Over(e.new, some), ![w].step = "process"]
              /\ Fault
         \/ EspLoops(w)

\* flash_writeblock, called by the decoder for the blocks of the image in their order.
WriteBlock(f, i, b) == [j \in 1..(IF i > Len(f) THEN i ELSE Len(f)) |-> IF j = i THEN b ELSE f[j]]

\* Mutant: the end of the patch is not noticed, the decoder is asked again.
EspProcessOn(w) ==
  LET e == esp[w] IN
  /\ e.step = "process"
  /\ IF e.patch.form = "esdiff" /\ e.newsize < Len(e.patch.image.blocks)
     THEN IF e.newsize < e.patch.pieces
          THEN esp' = [esp EXCEPT ![w].new = WriteBlock(@, e.newsize + 1, Decoded(e, e.newsize + 1)),
                                  ![w].newsize = @ + 1]
          ELSE UNCHANGED esp
     ELSE esp' = [esp EXCEPT ![w].step = "cleanup", ![w].ok = (e.patch.form = "esdiff")]
  /\ UNCHANGED faults

\* One round of the loop: the decoder wants input (ESPOK_MORE) and gets the next piece, from
\* which it writes a block; it fails for want of a piece (ESPERR_EOF), for a file that is
\* no patch, or because the block could not be written.
EspProcess(w) ==
  LET e == esp[w] IN
  /\ e.step = "process"
  /\ \/ /\ e.patch.form # "esdiff"
        /\ esp' = [esp EXCEPT ![w].step = "cleanup", ![w].ok = FALSE] /\ UNCHANGED faults
     \/ /\ e.patch.form = "esdiff" /\ e.newsize < Len(e.patch.image.blocks)
        /\ IF e.newsize < e.patch.pieces
           THEN esp' = [esp EXCEPT ![w].new = WriteBlock(@, e.newsize + 1, Decoded(e, e.newsize + 1)),
                                   ![w].newsize = @ + 1]
           ELSE esp' = [esp EXCEPT ![w].step = "cleanup", ![w].ok = FALSE]
        /\ UNCHANGED faults
     \/ /\ e.patch.form = "esdiff" /\ e.newsize < Len(e.patch.image.blocks)
        /\ esp' = [esp EXCEPT ![w].step = "cleanup", ![w].ok = FALSE] /\ Fault
     \/ /\ e.patch.form = "esdiff" /\ e.newsize = Len(e.patch.image.blocks)
        /\ esp' = [esp EXCEPT ![w].step = "cleanup", ![w].ok = TRUE] /\ UNCHANGED faults

\* A failing read of the patch is a piece of length SIZE_MAX for the decoder, which reads what
\* lies beyond the buffer: it fails, writes a wrong block, ends the process or asks again, for
\* ever if the file stays unreadable.  A failing read of the reference (flash_readblock) is
\* not reported to it and gives a wrong block as well.
EspMisreads(w) ==
  LET e == esp[w] IN
  /\ e.step = "process"
  /\ e.patch.form = "esdiff" => e.newsize < Len(e.patch.image.blocks)
  /\ \/ esp' = [esp EXCEPT ![w].step = "cleanup", ![w].ok = FALSE] /\ Fault
     \/ /\ e.patch.form = "esdiff"
        /\ esp' = [esp EXCEPT ![w].new = WriteBlock(@, e.newsize + 1, Bad), ![w].newsize = @ + 1]
        /\ Fault
     \/ esp' = [esp EXCEPT ![w].step = "returned", ![w].ok = FALSE, ![w].crash = TRUE] /\ Fault
     \/ EspLoops(w)

\* espCheckNew: the blocks of the new image, read back from the file.
CheckNew(e) ==
  LET img == e.patch.image.blocks
  IN  Len(e.new) >= Len(img) /\ SubSeq(e.new, 1, Len(img)) = img

Truncated(e) == IF e.newsize > 0 THEN SubSeq(e.new, 1, e.newsize) ELSE e.new

\* The clean-up cuts the file to the size written, unless nothing was written; a failure of
\* ftruncate is only printed.  The check of the image follows, and fails with a failing read.
EspCleanup(w) ==
  LET e == esp[w] IN
  /\ e.step = "cleanup"
  /\ \/ /\ ~e.ok /\ EspReturn(w, FALSE) /\ UNCHANGED faults
     \/ /\ e.ok /\ UNCHANGED faults
        /\ LET f == [e EXCEPT !.new = Truncated(e)]
           IN  esp' = [esp EXCEPT ![w] = [f EXCEPT !.step = "returned", !.ok = CheckNew(f)]]
     \/ /\ e.ok /\ EspReturn(w, CheckNew(e)) /\ Fault
     \/ /\ e.ok /\ Fault
        /\ esp' = [esp EXCEPT ![w].new = Truncated(e), ![w].step = "returned", ![w].ok = FALSE]

EspStep(w) == EspCopy(w) \/ EspProcess(w) \/ EspMisreads(w) \/ EspCleanup(w)
============================================================================
