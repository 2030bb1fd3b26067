---------------------------- MODULE RunnerQueue ----------------------------
(***************************************************************************)
(* The queue between the bus and the runner thread of a component: the     *)
(* mutex and the condition variable of runner_info_t, at the grain of      *)
(* single pthread calls.                                                   *)
(*   bus thread     handle_message: lock, append, signal, unlock           *)
(*   runner thread  runner_loop: lock, wait while empty, take, unlock      *)
(*   application    ua_unregister: run = 0, broadcast, unlock, join        *)
(***************************************************************************)
EXTENDS Naturals, Sequences, FiniteSets

CONSTANT Messages   \* messages for this component

ASSUME RunnerQueueAssumption == IsFiniteSet(Messages)

Free == "free"   \* no thread holds the mutex

VARIABLES
  queue,      \* runner_info_t.queue
  run,        \* runner_info_t.run
  lock,       \* the thread that holds runner_info_t.lock
  waiting,    \* the runner waits on runner_info_t.cond
  bus,        \* where the bus thread is
  incoming,   \* messages not yet handled by the bus thread
  runner,     \* where the runner is
  app,        \* where the application is
  registered, \* the runner is in ri_tree, where handle_message finds it
  taken       \* messages taken by the runner, in order

runnerVars == <<queue, run, lock, waiting, bus, incoming, runner, app, registered, taken>>

RunnerInit ==
  /\ queue = <<>>
  /\ run = TRUE
  /\ lock = Free
  /\ waiting = FALSE
  /\ bus = "idle"
  /\ incoming = Messages
  /\ runner = "loop"
  /\ app = "idle"
  /\ registered = TRUE
  /\ taken = <<>>

(***************************************************************************)
(* handle_message                                                          *)
(***************************************************************************)
\* query_hash_tree finds the runner; a message for an unknown type is ignored.
BusFind ==
  /\ bus = "idle"
  /\ incoming # {}
  /\ registered
  /\ bus' = "lock"
  /\ UNCHANGED <<queue, run, lock, waiting, incoming, runner, app, registered, taken>>

\* Mutant: the bus thread appends without waiting for the lock.
BusLockIgnored ==
  /\ bus = "lock"
  /\ bus' = "append"
  /\ UNCHANGED <<queue, run, lock, waiting, incoming, runner, app, registered, taken>>

BusLock ==
  /\ bus = "lock"
  /\ lock = Free
  /\ lock' = "bus"
  /\ bus' = "append"
  /\ UNCHANGED <<queue, run, waiting, incoming, runner, app, registered, taken>>

\* Mutant: the message is prepended.
BusPrepend ==
  /\ bus = "append"
  /\ \E m \in incoming : /\ queue' = <<m>> \o queue
                         /\ incoming' = incoming \ {m}
  /\ bus' = "signal"
  /\ UNCHANGED <<run, lock, waiting, runner, app, registered, taken>>

BusAppend ==
  /\ bus = "append"
  /\ \E m \in incoming : /\ queue' = Append(queue, m)
                         /\ incoming' = incoming \ {m}
  /\ bus' = "signal"
  /\ UNCHANGED <<run, lock, waiting, runner, app, registered, taken>>

\* Mutant: nobody is signalled.
BusNoSignal ==
  /\ bus = "signal"
  /\ bus' = "unlock"
  /\ UNCHANGED <<queue, run, lock, waiting, incoming, runner, app, registered, taken>>

BusSignal ==
  /\ bus = "signal"
  /\ waiting' = FALSE
  /\ bus' = "unlock"
  /\ UNCHANGED <<queue, run, lock, incoming, runner, app, registered, taken>>

BusUnlock ==
  /\ bus = "unlock"
  /\ lock' = Free
  /\ bus' = "idle"
  /\ UNCHANGED <<queue, run, waiting, incoming, runner, app, registered, taken>>

(***************************************************************************)
(* runner_loop                                                             *)
(***************************************************************************)
RunnerLoop ==
  /\ runner = "loop"
  /\ runner' = IF run THEN "lock" ELSE "exit"
  /\ UNCHANGED <<queue, run, lock, waiting, bus, incoming, app, registered, taken>>

RunnerLock ==
  /\ runner = "lock"
  /\ lock = Free
  /\ lock' = "runner"
  /\ runner' = "test"
  /\ UNCHANGED <<queue, run, waiting, bus, incoming, app, registered, taken>>

\* while (run && !(im = queue)).  With run = 0 im stays NULL: the loop ends without the
\* unlock.
RunnerTest ==
  /\ runner = "test"
  /\ runner' = IF ~run THEN "loop" ELSE IF queue = <<>> THEN "wait" ELSE "take"
  /\ UNCHANGED <<queue, run, lock, waiting, bus, incoming, app, registered, taken>>

RunnerWait ==
  /\ runner = "wait"
  /\ waiting' = TRUE
  /\ lock' = Free
  /\ runner' = "waiting"
  /\ UNCHANGED <<queue, run, bus, incoming, app, registered, taken>>

\* pthread_cond_wait returns with the lock.
RunnerWake ==
  /\ runner = "waiting"
  /\ ~waiting
  /\ lock = Free
  /\ lock' = "runner"
  /\ runner' = "test"
  /\ UNCHANGED <<queue, run, waiting, bus, incoming, app, registered, taken>>

RunnerTake ==
  /\ runner = "take"
  /\ queue' = Tail(queue)
  /\ taken' = Append(taken, Head(queue))
  /\ runner' = "unlock"
  /\ UNCHANGED <<run, lock, waiting, bus, incoming, app, registered>>

\* The lock is released and the message processed, or dropped after MSG_TIMEOUT.
RunnerUnlock ==
  /\ runner = "unlock"
  /\ lock' = Free
  /\ runner' = "loop"
  /\ UNCHANGED <<queue, run, waiting, bus, incoming, app, registered, taken>>

(***************************************************************************)
(* ua_unregister.  It releases a lock that it has not taken: undefined for *)
(* POSIX, and the release of whoever holds it with the default mutexes of  *)
(* the C library.                                                          *)
(***************************************************************************)
AppStop ==
  /\ app = "idle"
  /\ registered' = FALSE
  /\ run' = FALSE
  /\ app' = "broadcast"
  /\ UNCHANGED <<queue, lock, waiting, bus, incoming, runner, taken>>

AppBroadcast ==
  /\ app = "broadcast"
  /\ waiting' = FALSE
  /\ app' = "unlock"
  /\ UNCHANGED <<queue, run, lock, bus, incoming, runner, registered, taken>>

\* Mutant: the application takes the lock and keeps it.
AppLock ==
  /\ app = "unlock"
  /\ lock' = "app"
  /\ app' = "join"
  /\ UNCHANGED <<queue, run, waiting, bus, incoming, runner, registered, taken>>

AppUnlock ==
  /\ app = "unlock"
  /\ lock' = Free
  /\ app' = "join"
  /\ UNCHANGED <<queue, run, waiting, bus, incoming, runner, registered, taken>>

\* pthread_join returns; the runner is destroyed.
AppJoin ==
  /\ app = "join"
  /\ runner = "exit"
  /\ app' = "done"
  /\ UNCHANGED <<queue, run, lock, waiting, bus, incoming, runner, registered, taken>>

BusStep == BusFind \/ BusLock \/ BusAppend \/ BusSignal \/ BusUnlock

RunnerStep == \/ RunnerLoop \/ RunnerLock \/ RunnerTest \/ RunnerWait
              \/ RunnerWake \/ RunnerTake \/ RunnerUnlock

AppStep == AppStop \/ AppBroadcast \/ AppUnlock \/ AppJoin

RunnerNext == BusStep \/ RunnerStep \/ AppStep

(***************************************************************************)
(* The operating system runs every thread that can run and starves none of *)
(* them at the mutex.  Nothing makes messages arrive or the application    *)
(* call ua_unregister.                                                     *)
(***************************************************************************)
RunnerSpec ==
  /\ RunnerInit /\ [][RunnerNext]_runnerVars
  /\ WF_runnerVars(BusAppend \/ BusSignal \/ BusUnlock) /\ SF_runnerVars(BusLock)
  /\ WF_runnerVars(RunnerStep) /\ SF_runnerVars(RunnerLock \/ RunnerWake)
  /\ WF_runnerVars(AppBroadcast \/ AppUnlock \/ AppJoin)

-----------------------------------------------------------------------------
\* Every variable holds a value the program can store in it.
RunnerTypeOK ==
  /\ queue \in Seq(Messages)
  /\ run \in BOOLEAN
  /\ lock \in {Free, "bus", "runner"}
  /\ waiting \in BOOLEAN
  /\ bus \in {"idle", "lock", "append", "signal", "unlock"}
  /\ incoming \subseteq Messages
  /\ runner \in {"loop", "lock", "test", "wait", "waiting", "take", "unlock", "exit"}
  /\ app \in {"idle", "broadcast", "unlock", "join", "done"}
  /\ registered \in BOOLEAN
  /\ taken \in Seq(Messages)

\* Where each thread touches the queue.
BusInside == bus \in {"append", "signal", "unlock"}
RunnerInside == runner \in {"test", "wait", "take", "unlock"}

(***************************************************************************)
(* As long as the component is registered, the bus thread and the runner   *)
(* never touch the queue at the same time, and the runner sleeps on an     *)
(* empty queue only, unless its wake-up is on the way.                     *)
(***************************************************************************)
QueueGuarded ==
  run => /\ ~(BusInside /\ RunnerInside)
         /\ waiting /\ queue # <<>> => bus = "signal"

(***************************************************************************)
(* The strengthening that makes QueueGuarded inductive: who holds the lock *)
(* is inside, and the test of the queue is not outdated when it is used.   *)
(***************************************************************************)
LockHeld ==
  run => /\ app = "idle"
         /\ lock = "bus" <=> BusInside
         /\ lock = "runner" <=> RunnerInside
         /\ waiting => runner = "waiting"
         /\ runner = "wait" => queue = <<>>

TakesOne == runner = "take" => queue # <<>>

QueueInv == RunnerTypeOK /\ LockHeld /\ TakesOne /\ QueueGuarded

(***************************************************************************)
(* The messages reach the runner in the order in which handle_message      *)
(* queued them and none twice: the threads implement MessageQueue.         *)
(***************************************************************************)
Abstract == INSTANCE MessageQueue WITH pending <- queue

ImplementsQueue == Abstract!QueueSpec

\* A message that handle_message has queued is taken by the runner, unless the component
\* is unregistered: no wake-up of runner_loop is ever lost to a message.
QueuedIsTaken ==
  \A m \in Messages :
    (\E i \in DOMAIN queue : queue[i] = m) ~> (~run \/ \E i \in DOMAIN taken : taken[i] = m)

\* esyncua.h: ua_unregister returns E_UA_OK on success, E_UA_ERR on failure.
UnregisterReturns == app # "idle" ~> app = "done"
=============================================================================
