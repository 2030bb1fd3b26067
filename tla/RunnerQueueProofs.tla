------------------------- MODULE RunnerQueueProofs -------------------------
(***************************************************************************)
(* Proofs about RunnerQueue, for any set of messages.                      *)
(***************************************************************************)
EXTENDS RunnerQueue, TLAPS

\* The initial state satisfies the invariant.
LEMMA QueueInitial == RunnerInit => QueueInv
<1> SUFFICES ASSUME RunnerInit PROVE QueueInv
  OBVIOUS
<1>1. RunnerTypeOK
  <2>1. queue \in Seq(Messages) /\ taken \in Seq(Messages)
    BY DEF RunnerInit
  <2> QED BY <2>1 DEF RunnerInit, RunnerTypeOK, Free
<1>2. LockHeld /\ TakesOne /\ QueueGuarded
  BY DEF RunnerInit, LockHeld, TakesOne, QueueGuarded, BusInside, RunnerInside, Free
<1> QED BY <1>1, <1>2 DEF QueueInv

\* The steps of handle_message keep the invariant.
LEMMA BusKeepsInv == QueueInv /\ BusStep => QueueInv'
<1> SUFFICES ASSUME QueueInv, BusStep PROVE QueueInv'
  OBVIOUS
<1> USE DEF QueueInv, RunnerTypeOK, LockHeld, TakesOne, QueueGuarded, BusInside,
            RunnerInside, Free
<1>1. CASE BusFind
  BY <1>1 DEF BusFind
<1>2. CASE BusLock
  BY <1>2 DEF BusLock
<1>3. CASE BusAppend
  BY <1>3 DEF BusAppend
<1>4. CASE BusSignal
  BY <1>4 DEF BusSignal
<1>5. CASE BusUnlock
  BY <1>5 DEF BusUnlock
<1> QED BY <1>1, <1>2, <1>3, <1>4, <1>5 DEF BusStep

\* The steps of runner_loop keep the invariant.
LEMMA RunnerKeepsInv == QueueInv /\ RunnerStep => QueueInv'
<1> SUFFICES ASSUME QueueInv, RunnerStep PROVE QueueInv'
  OBVIOUS
<1> USE DEF QueueInv, RunnerTypeOK, LockHeld, TakesOne, QueueGuarded, BusInside,
            RunnerInside, Free
<1>1. CASE RunnerLoop
  BY <1>1 DEF RunnerLoop
<1>2. CASE RunnerLock
  BY <1>2 DEF RunnerLock
<1>3. CASE RunnerTest
  BY <1>3 DEF RunnerTest
<1>4. CASE RunnerWait
  BY <1>4 DEF RunnerWait
<1>5. CASE RunnerWake
  BY <1>5 DEF RunnerWake
<1>6. CASE RunnerTake
  <2>1. Tail(queue) \in Seq(Messages) /\ Append(taken, Head(queue)) \in Seq(Messages)
    BY <1>6 DEF RunnerTake
  <2> QED BY <1>6, <2>1 DEF RunnerTake
<1>7. CASE RunnerUnlock
  BY <1>7 DEF RunnerUnlock
<1> QED BY <1>1, <1>2, <1>3, <1>4, <1>5, <1>6, <1>7 DEF RunnerStep

\* The steps of ua_unregister keep the invariant.
LEMMA AppKeepsInv == QueueInv /\ AppStep => QueueInv'
<1> SUFFICES ASSUME QueueInv, AppStep PROVE QueueInv'
  OBVIOUS
<1> USE DEF QueueInv, RunnerTypeOK, LockHeld, TakesOne, QueueGuarded, BusInside,
            RunnerInside, Free
<1>1. CASE AppStop
  BY <1>1 DEF AppStop
<1>2. CASE AppBroadcast
  BY <1>2 DEF AppBroadcast
<1>3. CASE AppUnlock
  BY <1>3 DEF AppUnlock
<1>4. CASE AppJoin
  BY <1>4 DEF AppJoin
<1> QED BY <1>1, <1>2, <1>3, <1>4 DEF AppStep

\* The invariant of the queue.
LEMMA QueueInvariant == RunnerSpec => []QueueInv
<1>1. QueueInv /\ [RunnerNext]_runnerVars => QueueInv'
  <2>1. QueueInv /\ RunnerNext => QueueInv'
    BY BusKeepsInv, RunnerKeepsInv, AppKeepsInv DEF RunnerNext
  <2>2. QueueInv /\ UNCHANGED runnerVars => QueueInv'
    BY DEF QueueInv, RunnerTypeOK, LockHeld, TakesOne, QueueGuarded, BusInside,
           RunnerInside, Free, runnerVars
  <2> QED BY <2>1, <2>2
<1> QED BY QueueInitial, <1>1, PTL DEF RunnerSpec

\* handle_message, runner_loop and ua_unregister keep the types of what they share.
THEOREM RunnerTypeCorrect == RunnerSpec => []RunnerTypeOK
  BY QueueInvariant, PTL DEF QueueInv

(***************************************************************************)
(* As long as a component is registered, handle_message and runner_loop    *)
(* exclude each other at the queue, and runner_loop never sleeps on a      *)
(* message whose signal has already been sent.                             *)
(***************************************************************************)
THEOREM QueueIsGuarded == RunnerSpec => []QueueGuarded
  BY QueueInvariant, PTL DEF QueueInv

(***************************************************************************)
(* The bus thread, the runner and ua_unregister implement MessageQueue:    *)
(* messages are taken in the order of handle_message, each of them once.   *)
(***************************************************************************)
THEOREM QueueRefinement == RunnerSpec => ImplementsQueue
<1>1. RunnerInit => Abstract!QueueInit
  BY DEF RunnerInit, Abstract!QueueInit
<1>2. QueueInv /\ [RunnerNext]_runnerVars => [Abstract!QueueNext]_(Abstract!queueVars)
  <2> SUFFICES ASSUME QueueInv, [RunnerNext]_runnerVars
               PROVE  [Abstract!QueueNext]_(Abstract!queueVars)
    OBVIOUS
  <2> USE DEF Abstract!queueVars
  <2>1. CASE BusAppend
    <3>1. PICK m \in incoming : queue' = Append(queue, m)
      BY <2>1 DEF BusAppend
    <3>2. m \in Messages
      BY <3>1 DEF QueueInv, RunnerTypeOK
    <3>3. Abstract!Put(m)
      BY <2>1, <3>1 DEF BusAppend, Abstract!Put
    <3> QED BY <3>2, <3>3 DEF Abstract!QueueNext
  <2>2. CASE RunnerTake
    BY <2>2 DEF RunnerTake, QueueInv, TakesOne, Abstract!QueueNext, Abstract!Get
  <2>3. CASE UNCHANGED <<queue, taken>>
    BY <2>3
  <2> QED
    BY <2>1, <2>2, <2>3
    DEF RunnerNext, runnerVars, BusStep, RunnerStep, AppStep, BusFind, BusLock, BusSignal,
        BusUnlock, RunnerLoop, RunnerLock, RunnerTest, RunnerWait, RunnerWake, RunnerUnlock,
        AppStop, AppBroadcast, AppUnlock, AppJoin
<1> QED BY QueueInvariant, <1>1, <1>2, PTL DEF RunnerSpec, ImplementsQueue, Abstract!QueueSpec
=============================================================================
