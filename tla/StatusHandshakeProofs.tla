----------------------- MODULE StatusHandshakeProofs -----------------------
(***************************************************************************)
(* Proofs about StatusHandshake, for any number of installations and of    *)
(* responses, with and without spurious wake-ups.                          *)
(***************************************************************************)
EXTENDS StatusHandshake, TLAPS

USE DEF Requests, Response

\* The initial state satisfies the invariant.
LEMMA HandshakeInitial == HandshakeInit => HandshakeInv
<1> SUFFICES ASSUME HandshakeInit PROVE HandshakeInv
  OBVIOUS
<1> USE StatusHandshakeAssumption DEF HandshakeInit
<1>1. HandshakeTypeOK
  <2>1. bus \in Seq(Response)
    OBVIOUS
  <2>2. verdict \in [Requests -> BOOLEAN \cup {None}]
    OBVIOUS
  <2>3. request \in 0 .. MaxRequests /\ sent \subseteq Requests
    OBVIOUS
  <2> QED BY <2>1, <2>2, <2>3 DEF HandshakeTypeOK
<1>2. AnswersAreLate
  BY DEF AnswersAreLate
<1>3. AnswerIsFinal
  BY DEF AnswerIsFinal
<1> QED BY <1>1, <1>2, <1>3 DEF HandshakeInv

\* Taking a response off the bus yields a response and leaves the others.
LEMMA HeadOfBus ==
  ASSUME bus \in Seq(Response), bus # <<>>
  PROVE  /\ Head(bus) \in Response
         /\ Tail(bus) \in Seq(Response)
         /\ 1 \in DOMAIN bus /\ Head(bus) = bus[1]
         /\ \A i \in DOMAIN Tail(bus) : i + 1 \in DOMAIN bus /\ Tail(bus)[i] = bus[i + 1]
<1> DEFINE S == Response
<1>1. bus \in Seq(S) BY DEF Response
<1> HIDE DEF S
<1>2. /\ Head(bus) \in S /\ Tail(bus) \in Seq(S)
      /\ 1 \in DOMAIN bus /\ Head(bus) = bus[1]
      /\ \A i \in DOMAIN Tail(bus) : i + 1 \in DOMAIN bus /\ Tail(bus)[i] = bus[i + 1]
  BY <1>1
<1> QED BY <1>2 DEF S

\* Every step of the worker, the runner and the DMC keeps the types.
LEMMA HandshakeTypes == HandshakeInv /\ HandshakeNext => HandshakeTypeOK'
<1> SUFFICES ASSUME HandshakeInv, HandshakeNext PROVE HandshakeTypeOK'
  OBVIOUS
<1> USE StatusHandshakeAssumption DEF HandshakeTypeOK, HandshakeInv
<1>1. ASSUME NEW m \in Response, Respond(m) PROVE HandshakeTypeOK'
  BY <1>1 DEF Respond
<1>2. CASE WorkerSend
  <2>1. request' \in Requests
    BY <1>2 DEF WorkerSend
  <2>2. sent' \subseteq Requests
    BY <1>2, <2>1 DEF WorkerSend
  <2> QED BY <1>2, <2>1, <2>2 DEF WorkerSend
<1>3. CASE WorkerWait
  BY <1>3 DEF WorkerWait
<1>4. CASE WorkerSpurious
  BY <1>4 DEF WorkerSpurious
<1>5. CASE WorkerTimeout
  BY <1>5 DEF WorkerTimeout
<1>6. CASE WorkerDecide
  BY <1>6 DEF WorkerDecide
<1>7. CASE WorkerInstalled
  BY <1>7 DEF WorkerInstalled
<1>8. CASE RunnerMatch
  <2>1. Head(bus) \in Response /\ Tail(bus) \in Seq(Response)
    BY <1>8, HeadOfBus DEF RunnerMatch
  <2> QED BY <1>8, <2>1 DEF RunnerMatch
<1>9. CASE RunnerFree
  BY <1>9 DEF RunnerFree
<1>10. CASE RunnerSignal
  <2>1. msg \in Response
    BY <1>10 DEF RunnerSignal, AnswerIsFinal
  <2>2. msg.replyTo \in Requests /\ msg.successful \in BOOLEAN \cup {None}
    BY <2>1
  <2>3. successful' \in BOOLEAN
    BY <1>10, <2>2 DEF RunnerSignal
  <2>4. verdict' \in [Requests -> BOOLEAN \cup {None}]
    BY <1>10, <2>2 DEF RunnerSignal
  <2> QED BY <1>10, <2>3, <2>4 DEF RunnerSignal
<1> QED
  BY <1>1, <1>2, <1>3, <1>4, <1>5, <1>6, <1>7, <1>8, <1>9, <1>10
  DEF HandshakeNext, WorkerStep, RunnerStep

\* No step answers a request before it is made.
LEMMA HandshakeLate == HandshakeInv /\ HandshakeNext => AnswersAreLate'
<1> SUFFICES ASSUME HandshakeInv, HandshakeNext PROVE AnswersAreLate'
  OBVIOUS
<1> USE StatusHandshakeAssumption DEF HandshakeTypeOK, HandshakeInv, AnswersAreLate
<1>1. ASSUME NEW m \in Response, Respond(m) PROVE AnswersAreLate'
  <2>1. \A i \in DOMAIN bus' : bus'[i] = m \/ (i \in DOMAIN bus /\ bus'[i] = bus[i])
    BY <1>1 DEF Respond
  <2> QED BY <1>1, <2>1 DEF Respond
<1>2. CASE WorkerSend
  <2>1. request' = request + 1 /\ request' \in Requests /\ request' > request
    BY <1>2 DEF WorkerSend
  <2>2. sent' \subseteq 1 .. request'
    <3>1. sent' = sent \/ sent' = sent \cup {request'}
      BY <1>2 DEF WorkerSend
    <3>2. sent \subseteq 1 .. request' /\ request' \in 1 .. request'
      BY <2>1
    <3> QED BY <3>1, <3>2
  <2>3. sent \subseteq sent'
    BY <1>2 DEF WorkerSend
  <2> QED BY <1>2, <2>1, <2>2, <2>3 DEF WorkerSend
<1>3. CASE WorkerWait \/ WorkerSpurious \/ WorkerTimeout \/ WorkerDecide \/ WorkerInstalled
  <2>1. /\ UNCHANGED <<request, sent, bus, msg, verdict>>
        /\ worker' # "idle" => worker # "idle"
    BY <1>3 DEF WorkerWait, WorkerSpurious, WorkerTimeout, WorkerDecide, WorkerInstalled
  <2> QED BY <2>1
<1>4. CASE RunnerMatch
  <2>1. Head(bus).replyTo \in sent
    BY <1>4, HeadOfBus DEF RunnerMatch
  <2>2. \A i \in DOMAIN Tail(bus) : Tail(bus)[i].replyTo \in sent
    BY <1>4, HeadOfBus DEF RunnerMatch
  <2> QED BY <1>4, <2>1, <2>2 DEF RunnerMatch
<1>5. CASE RunnerFree
  BY <1>5 DEF RunnerFree
<1>6. CASE RunnerSignal
  <2>1. msg.replyTo \in sent
    BY <1>6 DEF RunnerSignal, AnswerIsFinal
  <2>2. \A r \in Requests : r > request => verdict'[r] = None
    BY <1>6, <2>1 DEF RunnerSignal
  <2> QED BY <1>6, <2>2 DEF RunnerSignal
<1> QED
  BY <1>1, <1>2, <1>3, <1>4, <1>5, <1>6 DEF HandshakeNext, WorkerStep, RunnerStep

\* No step replaces the answer to the current request.
LEMMA HandshakeFinal == HandshakeInv /\ HandshakeNext => AnswerIsFinal'
<1> SUFFICES ASSUME HandshakeInv, HandshakeNext PROVE AnswerIsFinal'
  OBVIOUS
<1> USE StatusHandshakeAssumption DEF HandshakeTypeOK, HandshakeInv, AnswerIsFinal
<1>1. ASSUME NEW m \in Response, Respond(m) PROVE AnswerIsFinal'
  BY <1>1 DEF Respond
<1>2. CASE WorkerSend
  <2>1. request' = request + 1 /\ request' \in Requests /\ verdict'[request'] = None
    BY <1>2 DEF WorkerSend, AnswersAreLate
  <2>2. runner # "idle" => msg.replyTo # request'
    BY <2>1 DEF AnswersAreLate
  <2> QED BY <1>2, <2>1, <2>2 DEF WorkerSend
<1>3. CASE WorkerWait \/ WorkerSpurious \/ WorkerTimeout \/ WorkerDecide \/ WorkerInstalled
  BY <1>3 DEF WorkerWait, WorkerSpurious, WorkerTimeout, WorkerDecide, WorkerInstalled
<1>4. CASE RunnerMatch
  <2>1. Head(bus) \in Response
    BY <1>4, HeadOfBus DEF RunnerMatch
  <2>2. Head(bus) # None
    BY <2>1
  <2>3. Head(bus).replyTo \in Nat
    BY <2>1
  <2>4. reply_id = None => ~Matches(Head(bus))
    BY <2>3 DEF Matches
  <2> QED BY <1>4, <2>2, <2>4 DEF RunnerMatch
<1>5. CASE RunnerFree
  BY <1>5 DEF RunnerFree
<1>6. CASE RunnerSignal
  <2>1. msg \in Response /\ msg.replyTo \in Requests
    BY <1>6 DEF RunnerSignal
  <2>2. request \in Requests => verdict[request] = None
    BY <1>6 DEF RunnerSignal
  <2>3. request \in Requests /\ verdict'[request] # None =>
          msg.replyTo = request /\ verdict'[request] = msg.successful /\ reply_id = None
    BY <1>6, <2>1, <2>2 DEF RunnerSignal
  <2> QED BY <1>6, <2>3 DEF RunnerSignal
<1> QED
  BY <1>1, <1>2, <1>3, <1>4, <1>5, <1>6 DEF HandshakeNext, WorkerStep, RunnerStep

\* The invariant of the handshake.
THEOREM HandshakeInvariant == HandshakeSpec => []HandshakeInv
<1>1. HandshakeInv /\ [HandshakeNext]_handshakeVars => HandshakeInv'
  <2>1. HandshakeInv /\ HandshakeNext => HandshakeInv'
    BY HandshakeTypes, HandshakeLate, HandshakeFinal DEF HandshakeInv
  <2>2. HandshakeInv /\ UNCHANGED handshakeVars => HandshakeInv'
    BY DEF HandshakeInv, HandshakeTypeOK, AnswersAreLate, AnswerIsFinal, handshakeVars
  <2> QED BY <2>1, <2>2
<1> QED BY HandshakeInitial, <1>1, PTL DEF HandshakeSpec

\* pre_update_action and process_update_status keep the types of what they share.
THEOREM HandshakeTypeCorrect == HandshakeSpec => []HandshakeTypeOK
<1>1. HandshakeInv => HandshakeTypeOK
  BY DEF HandshakeInv
<1> QED BY HandshakeInvariant, <1>1, PTL

(***************************************************************************)
(* An installation follows the answer to its own request, once the runner  *)
(* has stored one: neither the missing predicate of the wait in            *)
(* pre_update_action nor the matching outside the lock in                  *)
(* process_update_status lets another response take its place.             *)
(***************************************************************************)
THEOREM AnswerDecidesInstall == HandshakeSpec => AnswerDecides
<1> DEFINE Decides == (/\ worker \in {"woken", "timedout"}
                       /\ worker' \in {"install", "idle"}
                       /\ verdict[request] # None)
                      => (worker' = "install" <=> verdict[request])
<1>1. HandshakeInv /\ [HandshakeNext]_handshakeVars => [Decides]_handshakeVars
  <2> SUFFICES ASSUME HandshakeInv, HandshakeNext,
                      worker \in {"woken", "timedout"}, worker' \in {"install", "idle"},
                      verdict[request] # None
               PROVE  worker' = "install" <=> verdict[request]
    BY DEF handshakeVars
  <2>1. WorkerDecide
    BY DEF HandshakeNext, WorkerStep, RunnerStep, WorkerSend, WorkerWait, WorkerSpurious,
           WorkerTimeout, WorkerInstalled, RunnerMatch, RunnerFree, RunnerSignal, Respond
  <2>2. successful = verdict[request] /\ verdict[request] \in BOOLEAN
    BY DEF HandshakeInv, HandshakeTypeOK, AnswersAreLate, AnswerIsFinal
  <2> QED BY <2>1, <2>2 DEF WorkerDecide
<1> QED BY HandshakeInvariant, <1>1, PTL DEF HandshakeSpec, AnswerDecides
=============================================================================
