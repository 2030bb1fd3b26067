-------------------------- MODULE StatusHandshake --------------------------
(***************************************************************************)
(* The request for permission that precedes every installation             *)
(* (pre_update_action): the worker sends update-status INSTALL_IN_PROGRESS *)
(* with a fresh reply id and waits on a condition variable; the runner     *)
(* matches the DMC's response, stores its verdict and signals.  The wait   *)
(* has no predicate: any wake-up or the time-out ends it, and the verdict  *)
(* is whatever update_status_info.successful holds by then.                *)
(***************************************************************************)
EXTENDS Naturals, Sequences

CONSTANTS
  MaxRequests,   \* bound: installations, and with them reply ids
  MaxResponses,  \* bound: responses on the bus at a time
  Spurious,      \* the condition variable may wake up without a signal
  None

Requests == 1 .. MaxRequests

\* A response names the request it replies to; its "successful" may be absent.
Response == [replyTo : Requests, successful : BOOLEAN \cup {None}]

ASSUME StatusHandshakeAssumption ==
  /\ MaxRequests \in Nat /\ MaxResponses \in Nat
  /\ Spurious \in BOOLEAN
  /\ None \notin Nat /\ None \notin BOOLEAN /\ None \notin Response

VARIABLES
  reply_id,    \* update_status_info.reply_id
  successful,  \* update_status_info.successful
  request,     \* requests made so far; the last one is the current one
  sent,        \* requests that reached the DMC
  bus,         \* responses on their way to the runner, in order
  worker,      \* where the worker is
  runner,      \* where the runner is
  msg,         \* the response the runner works on
  verdict      \* per request, the answer that the runner stored for it, if any

handshakeVars == <<reply_id, successful, request, sent, bus, worker, runner, msg, verdict>>

HandshakeInit ==
  /\ reply_id = None
  /\ successful = FALSE
  /\ request = 0
  /\ sent = {}
  /\ bus = <<>>
  /\ worker = "idle"
  /\ runner = "idle"
  /\ msg = None
  /\ verdict = [r \in Requests |-> None]

(***************************************************************************)
(* The DMC answers a request once, twice, late or never.                   *)
(***************************************************************************)
Respond(m) ==
  /\ m.replyTo \in sent
  /\ Len(bus) < MaxResponses
  /\ bus' = Append(bus, m)
  /\ UNCHANGED <<reply_id, successful, request, sent, worker, runner, msg, verdict>>

(***************************************************************************)
(* The worker: pre_update_action.                                          *)
(***************************************************************************)
\* send_install_status(INSTALL_IN_PROGRESS).  When the message cannot be sent the
\* worker does not wait and goes on to install.
WorkerSend ==
  /\ worker = "idle"
  /\ request < MaxRequests
  /\ request' = request + 1
  /\ reply_id' = request'
  /\ \/ sent' = sent \cup {request'} /\ worker' = "sent"
     \/ UNCHANGED sent /\ worker' = "install"
  /\ UNCHANGED <<successful, bus, runner, msg, verdict>>

\* The lock is held only inside the runner's and the worker's critical sections, each
\* of which is one step here; the wait releases it.
WorkerWait ==
  /\ worker = "sent"
  /\ worker' = "waiting"
  /\ UNCHANGED <<reply_id, successful, request, sent, bus, runner, msg, verdict>>

WorkerSpurious ==
  /\ Spurious
  /\ worker = "waiting"
  /\ worker' = "woken"
  /\ UNCHANGED <<reply_id, successful, request, sent, bus, runner, msg, verdict>>

WorkerTimeout ==
  /\ worker = "waiting"
  /\ worker' = "timedout"
  /\ UNCHANGED <<reply_id, successful, request, sent, bus, runner, msg, verdict>>

\* Back from the wait with the lock.
WorkerDecide ==
  /\ worker \in {"woken", "timedout"}
  /\ reply_id' = IF worker = "timedout" THEN None ELSE reply_id
  /\ worker' = IF successful THEN "install" ELSE "idle"
  /\ successful' = FALSE
  /\ UNCHANGED <<request, sent, bus, runner, msg, verdict>>

\* update_action and the rest of the command.
WorkerInstalled ==
  /\ worker = "install"
  /\ worker' = "idle"
  /\ UNCHANGED <<reply_id, successful, request, sent, bus, runner, msg, verdict>>

(***************************************************************************)
(* The runner: process_update_status.  The match and the release of the    *)
(* reply id happen outside the lock.                                       *)
(***************************************************************************)
\* Mutant: every response is taken for the one awaited.
MatchesAny(m) == m.replyTo # None

Matches(m) == m.replyTo = reply_id

RunnerMatch ==
  /\ runner = "idle"
  /\ bus # <<>>
  /\ bus' = Tail(bus)
  /\ msg' = Head(bus)
  /\ runner' = IF Matches(Head(bus)) THEN "matched" ELSE "idle"
  /\ UNCHANGED <<reply_id, successful, request, sent, worker, verdict>>

RunnerFree ==
  /\ runner = "matched"
  /\ reply_id' = None
  /\ runner' = "signal"
  /\ UNCHANGED <<successful, request, sent, bus, worker, msg, verdict>>

\* Mutant: an absent "successful" is stored as it is.
RunnerSignalRaw ==
  /\ runner = "signal"
  /\ runner' = "idle"
  /\ successful' = msg.successful
  /\ verdict' = [verdict EXCEPT ![msg.replyTo] = msg.successful]
  /\ worker' = IF worker = "waiting" THEN "woken" ELSE worker
  /\ UNCHANGED <<reply_id, request, sent, bus, msg>>

RunnerSignal ==
  /\ runner = "signal"
  /\ runner' = "idle"
  /\ successful' = IF msg.successful = None THEN successful ELSE msg.successful
  /\ verdict' = [verdict EXCEPT ![msg.replyTo] = msg.successful]
  /\ worker' = IF worker = "waiting" THEN "woken" ELSE worker
  /\ UNCHANGED <<reply_id, request, sent, bus, msg>>

WorkerStep == \/ WorkerSend \/ WorkerWait \/ WorkerSpurious \/ WorkerTimeout
              \/ WorkerDecide \/ WorkerInstalled

RunnerStep == RunnerMatch \/ RunnerFree \/ RunnerSignal

HandshakeNext == WorkerStep \/ RunnerStep \/ \E m \in Response : Respond(m)

HandshakeSpec == HandshakeInit /\ [][HandshakeNext]_handshakeVars

-----------------------------------------------------------------------------
\* Every variable holds a value the program can store in it.
HandshakeTypeOK ==
  /\ reply_id \in Requests \cup {None}
  /\ successful \in BOOLEAN
  /\ request \in 0 .. MaxRequests
  /\ sent \subseteq Requests
  /\ bus \in Seq(Response)
  /\ worker \in {"idle", "sent", "waiting", "woken", "timedout", "install"}
  /\ runner \in {"idle", "matched", "signal"}
  /\ msg \in Response \cup {None}
  /\ verdict \in [Requests -> BOOLEAN \cup {None}]

(***************************************************************************)
(* The answer to this request, once stored, is the one that decides: the   *)
(* worker installs after a yes and does not after a no, even when the      *)
(* signal came before the wait, when the time-out raced it, or when late   *)
(* or repeated answers to other requests arrive.                           *)
(***************************************************************************)
AnswerDecides ==
  [][ (/\ worker \in {"woken", "timedout"}
       /\ worker' \in {"install", "idle"}
       /\ verdict[request] # None)
      => (worker' = "install" <=> verdict[request]) ]_handshakeVars

(***************************************************************************)
(* The strengthening that makes AnswerDecides inductive.                   *)
(***************************************************************************)
\* Only requests that were made are answered, and so none of the future ones is.
AnswersAreLate ==
  /\ worker # "idle" => request \in Requests
  /\ sent \subseteq 1 .. request
  /\ \A i \in DOMAIN bus : bus[i].replyTo \in sent
  /\ msg # None => msg.replyTo \in sent
  /\ \A r \in Requests : r > request => verdict[r] = None

\* A request is matched once: when its answer is stored, its reply id is gone and the
\* runner has no older response in hand that could still overwrite the answer.
AnswerIsFinal ==
  /\ runner # "idle" => msg # None
  /\ runner = "signal" /\ msg.replyTo = request => reply_id = None
  /\ request \in Requests /\ verdict[request] # None =>
       /\ reply_id = None
       /\ runner = "idle"
       /\ worker \in {"sent", "waiting", "woken", "timedout"} => successful = verdict[request]

HandshakeInv == HandshakeTypeOK /\ AnswersAreLate /\ AnswerIsFinal

(***************************************************************************)
(* pre_update_action, "Check if update-status reponse was set to           *)
(* successful": the worker that has waited installs only if the DMC's      *)
(* response to this request said so.                                       *)
(***************************************************************************)
InstallApproved ==
  worker = "install" /\ request \in sent => verdict[request] = TRUE
=============================================================================
