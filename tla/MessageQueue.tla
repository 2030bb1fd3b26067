---------------------------- MODULE MessageQueue ----------------------------
(***************************************************************************)
(* What the queue of a component promises: the messages handed to the      *)
(* runner are the messages put in, in the order in which they were put in, *)
(* each once.                                                              *)
(***************************************************************************)
EXTENDS Naturals, Sequences

CONSTANT Messages

VARIABLES pending,   \* messages put in and not taken out
          taken      \* messages taken out, in order

queueVars == <<pending, taken>>

QueueInit == pending = <<>> /\ taken = <<>>

Put(m) == pending' = Append(pending, m) /\ UNCHANGED taken

Get ==
  /\ pending # <<>>
  /\ taken' = Append(taken, Head(pending))
  /\ pending' = Tail(pending)

QueueNext == (\E m \in Messages : Put(m)) \/ Get

QueueSpec == QueueInit /\ [][QueueNext]_queueVars
=============================================================================
