------------------------- MODULE SequenceSyncProofs -------------------------
(***************************************************************************)
(* Proofs about SequenceSync, for any number of connections, of            *)
(* prepare-updates, of statuses and of reply ids.                          *)
(***************************************************************************)
EXTENDS SequenceSync, TLAPS

\* Before the first sequence-info was taken: no number is used yet, and an answer on the
\* way tells what the DMC has seen.
BeforeInfo ==
  infos = 0 =>
    /\ ~seq_info_valid /\ seq_out = None
    /\ \A i \in DOMAIN to_dmc : to_dmc[i].kind # "status"
    /\ \A i \in DOMAIN to_agent : to_agent[i].kind = "sequence" => to_agent[i].num = seen

\* After the first one: the package's number has caught up with the DMC, and the statuses
\* on the way have numbers in between, in order.
AfterInfo ==
  infos = 1 =>
    /\ seen # None => seq_out # None /\ seen <= seq_out
    /\ \A i \in DOMAIN to_dmc : to_dmc[i].kind = "status" =>
         /\ to_dmc[i].num # None /\ seq_out # None /\ to_dmc[i].num <= seq_out
         /\ seen # None => to_dmc[i].num > seen
    /\ \A i, j \in DOMAIN to_dmc :
         to_dmc[i].kind = "status" /\ to_dmc[j].kind = "status" /\ i < j =>
           to_dmc[i].num < to_dmc[j].num

SequenceInv == SequenceTypeOK /\ BeforeInfo /\ AfterInfo /\ OneInfoKeepsOrder

-----------------------------------------------------------------------------
\* Taking a message off the bus yields a message and leaves the others in order.
LEMMA TakeMessage ==
  ASSUME NEW q \in Seq(MessageType), q # <<>>
  PROVE  /\ Head(q) \in MessageType /\ Tail(q) \in Seq(MessageType)
         /\ 1 \in DOMAIN q /\ Head(q) = q[1]
         /\ \A i \in DOMAIN Tail(q) : i \in Nat /\ i > 0 /\ i + 1 \in DOMAIN q /\ Tail(q)[i] = q[i + 1]
<1> DEFINE S == MessageType
<1> HIDE DEF S
<1>1. ASSUME NEW r \in Seq(S), r # <<>>
      PROVE  /\ Head(r) \in S /\ Tail(r) \in Seq(S)
             /\ 1 \in DOMAIN r /\ Head(r) = r[1]
             /\ \A i \in DOMAIN Tail(r) : i \in Nat /\ i > 0 /\ i + 1 \in DOMAIN r /\ Tail(r)[i] = r[i + 1]
  BY <1>1
<1> QED BY <1>1 DEF S

\* Putting a message on the bus leaves the others before it.
LEMMA AddMessage ==
  ASSUME NEW q \in Seq(MessageType), NEW m \in MessageType
  PROVE  /\ Append(q, m) \in Seq(MessageType)
         /\ \A i \in DOMAIN Append(q, m) : i \in Nat /\ i <= Len(q) + 1
         /\ \A i \in DOMAIN Append(q, m) :
              (i \in DOMAIN q /\ Append(q, m)[i] = q[i]) \/ (i = Len(q) + 1 /\ Append(q, m)[i] = m)
         /\ \A i \in DOMAIN q : i \in Nat /\ i <= Len(q)
<1> DEFINE S == MessageType
<1> HIDE DEF S
<1>1. ASSUME NEW r \in Seq(S), NEW x \in S
      PROVE  /\ Append(r, x) \in Seq(S)
             /\ \A i \in DOMAIN Append(r, x) : i \in Nat /\ i <= Len(r) + 1
             /\ \A i \in DOMAIN Append(r, x) :
                  (i \in DOMAIN r /\ Append(r, x)[i] = r[i]) \/ (i = Len(r) + 1 /\ Append(r, x)[i] = x)
             /\ \A i \in DOMAIN r : i \in Nat /\ i <= Len(r)
  BY <1>1
<1> QED BY <1>1 DEF S

\* The number of a message on the bus.
LEMMA MessageNumber ==
  ASSUME NEW q \in Seq(MessageType), NEW i \in DOMAIN q
  PROVE  q[i].num \in Nat \cup {None}
<1>1. q[i] \in MessageType
  <2> DEFINE S == MessageType
  <2> HIDE DEF S
  <2>1. ASSUME NEW r \in Seq(S), NEW j \in DOMAIN r PROVE r[j] \in S
    BY <2>1
  <2> QED BY <2>1 DEF S
<1> QED BY <1>1 DEF MessageType

\* A query is a message without number.
LEMMA QueryMessage ==
  ASSUME NEW id \in Ids, NEW kind \in {"sequence", "updates"}
  PROVE  Query(kind, id) \in MessageType /\ Query(kind, id).kind = kind
BY DEF Query, MessageType

\* Sending a query, or losing it, adds no status.
LEMMA SendQuery ==
  ASSUME SequenceInv, NEW id \in Ids, NEW kind \in {"sequence", "updates"},
         Transmit(Query(kind, id)),
         UNCHANGED <<seq_info_valid, seq_out, to_agent, seen, infos, outdated>>
  PROVE  /\ to_dmc' \in Seq(MessageType) /\ lost' \in BOOLEAN
         /\ BeforeInfo' /\ AfterInfo'
<1> DEFINE m == Query(kind, id)
<1>1. m \in MessageType /\ m.kind # "status"
  BY QueryMessage
<1> HIDE DEF m
<1>2. Transmit(m)
  BY DEF m
<1>3. to_dmc \in Seq(MessageType) /\ lost \in BOOLEAN
  BY DEF SequenceInv, SequenceTypeOK
<1>4. CASE to_dmc' = Append(to_dmc, m) /\ UNCHANGED lost
  <2>1. to_dmc' \in Seq(MessageType)
    BY <1>1, <1>3, <1>4, AddMessage
  <2>2. \A i \in DOMAIN to_dmc' : to_dmc'[i].kind = "status" => i \in DOMAIN to_dmc /\ to_dmc'[i] = to_dmc[i]
    BY <1>1, <1>3, <1>4, AddMessage
  <2>3. BeforeInfo'
    BY <2>2 DEF SequenceInv, BeforeInfo
  <2>4. AfterInfo'
    BY <2>2 DEF SequenceInv, AfterInfo
  <2> QED BY <1>3, <1>4, <2>1, <2>3, <2>4
<1>5. CASE lost' = TRUE /\ UNCHANGED to_dmc
  BY <1>3, <1>5 DEF SequenceInv, BeforeInfo, AfterInfo
<1> QED BY <1>2, <1>4, <1>5 DEF Transmit

-----------------------------------------------------------------------------
\* The initial state satisfies the invariant.
LEMMA SequenceStart ==
  ASSUME SequenceInit
  PROVE  SequenceInv
<1> USE SequenceSyncAssumption DEF SequenceInit
<1>1. SequenceTypeOK
  <2>1. to_dmc \in Seq(MessageType) /\ to_agent \in Seq(MessageType)
    OBVIOUS
  <2>2. sync \in [Syncers -> {"off", "test", "send", "done"}]
    OBVIOUS
  <2>3. prepares \in 0 .. MaxPrepares /\ infos \in Nat /\ seen \in Nat \cup {None}
    OBVIOUS
  <2>4. seq_info_valid \in BOOLEAN /\ lost \in BOOLEAN /\ outdated \in BOOLEAN
    OBVIOUS
  <2>5. prepare \in {"idle", "send"} /\ query_reply_id \in Ids \cup {None}
        /\ seq_out \in Nat \cup {None}
    OBVIOUS
  <2> HIDE DEF SequenceInit
  <2> QED BY <2>1, <2>2, <2>3, <2>4, <2>5 DEF SequenceTypeOK
<1>2. BeforeInfo /\ AfterInfo /\ OneInfoKeepsOrder
  BY DEF BeforeInfo, AfterInfo, OneInfoKeepsOrder
<1> QED BY <1>1, <1>2 DEF SequenceInv

\* Every step of the sync threads, the worker, the runner and the DMC keeps it.
LEMMA SequenceStep ==
  ASSUME SequenceInv, SequenceNext
  PROVE  SequenceInv'
<1> USE SequenceSyncAssumption DEF agent, threads, bus
<1>1. ASSUME NEW t \in Syncers, Presence(t) \/ SyncTest(t) PROVE SequenceInv'
  <2>1. /\ UNCHANGED <<agent, prepare, prepares, bus, seen, infos, outdated>>
        /\ sync' \in [Syncers -> {"off", "test", "send", "done"}]
    BY <1>1 DEF Presence, SyncTest, SequenceInv, SequenceTypeOK
  <2> QED BY <2>1 DEF SequenceInv, SequenceTypeOK, BeforeInfo, AfterInfo, OneInfoKeepsOrder
<1>2. ASSUME NEW t \in Syncers, SyncSend(t) PROVE SequenceInv'
  <2>1. UNCHANGED <<seq_info_valid, seq_out, prepare, prepares, to_agent, seen, infos, outdated>>
    BY <1>2 DEF SyncSend
  <2>2. sync' \in [Syncers -> {"off", "test", "send", "done"}]
    BY <1>2 DEF SyncSend, SequenceInv, SequenceTypeOK
  <2>3. CASE UNCHANGED <<query_reply_id, to_dmc, lost>>
    BY <2>1, <2>2, <2>3 DEF SequenceInv, SequenceTypeOK, BeforeInfo, AfterInfo, OneInfoKeepsOrder
  <2>4. ASSUME NEW id \in Ids, query_reply_id' = id, Transmit(Query("sequence", id)) PROVE SequenceInv'
    <3>1. to_dmc' \in Seq(MessageType) /\ lost' \in BOOLEAN /\ BeforeInfo' /\ AfterInfo'
      BY <2>1, <2>4, SendQuery
    <3> QED BY <2>1, <2>2, <2>4, <3>1 DEF SequenceInv, SequenceTypeOK, OneInfoKeepsOrder
  <2> QED BY <1>2, <2>3, <2>4 DEF SyncSend
<1>3. CASE QueryUpdatesTest
  BY <1>3 DEF QueryUpdatesTest, SequenceInv, SequenceTypeOK, BeforeInfo, AfterInfo, OneInfoKeepsOrder
<1>4. CASE QueryUpdatesSend
  <2>1. UNCHANGED <<seq_info_valid, seq_out, sync, prepares, to_agent, seen, infos, outdated>>
    BY <1>4 DEF QueryUpdatesSend
  <2>2. PICK id \in Ids : query_reply_id' = id /\ Transmit(Query("updates", id))
    BY <1>4 DEF QueryUpdatesSend
  <2>3. to_dmc' \in Seq(MessageType) /\ lost' \in BOOLEAN /\ BeforeInfo' /\ AfterInfo'
    BY <2>1, <2>2, SendQuery
  <2> QED BY <1>4, <2>1, <2>2, <2>3 DEF QueryUpdatesSend, SequenceInv, SequenceTypeOK, OneInfoKeepsOrder
<1>5. CASE SequenceInfo
  <2> DEFINE m == Head(to_agent)
  <2>1. /\ to_agent \in Seq(MessageType) /\ to_agent # <<>>
        /\ m.kind = "sequence" /\ to_agent' = Tail(to_agent)
        /\ UNCHANGED <<threads, to_dmc, lost, seen, outdated>> /\ query_reply_id' = None
    BY <1>5 DEF SequenceInfo, SequenceInv, SequenceTypeOK
  <2>2. /\ m \in MessageType /\ to_agent' \in Seq(MessageType)
        /\ 1 \in DOMAIN to_agent /\ m = to_agent[1]
        /\ \A i \in DOMAIN to_agent' : i + 1 \in DOMAIN to_agent /\ to_agent'[i] = to_agent[i + 1]
    BY <2>1, TakeMessage
  <2>3. infos = 0 => m.num = seen
    BY <2>1, <2>2 DEF SequenceInv, BeforeInfo
  <2>4. m.num \in Nat \cup {None}
    BY <2>2 DEF MessageType
  <2>5. CASE m.id = query_reply_id
    <3>1. /\ seq_out' = IF m.num = None THEN seq_out ELSE NextSeq(m.num)
          /\ seq_info_valid' = TRUE /\ infos' = infos + 1
      BY <1>5, <2>5 DEF SequenceInfo
    <3> HIDE DEF m
    <3>2. seq_out' \in Nat \cup {None}
      BY <2>4, <3>1 DEF NextSeq, SequenceInv, SequenceTypeOK
    <3>3. SequenceTypeOK'
      BY <2>1, <2>2, <3>1, <3>2 DEF SequenceInv, SequenceTypeOK
    <3>4. BeforeInfo'
      BY <3>1 DEF BeforeInfo, SequenceInv, SequenceTypeOK
    <3>5. AfterInfo'
      <4> SUFFICES ASSUME infos' = 1 PROVE AfterInfo'
        BY DEF AfterInfo
      <4>1. infos = 0
        BY <3>1 DEF SequenceInv, SequenceTypeOK
      <4>2. seq_out = None /\ \A i \in DOMAIN to_dmc : to_dmc[i].kind # "status"
        BY <4>1 DEF SequenceInv, BeforeInfo
      <4>3. seen # None => seq_out' = seen
        BY <2>3, <2>4, <3>1, <4>1, <4>2 DEF NextSeq
      <4>4. seen \in Nat \cup {None}
        BY DEF SequenceInv, SequenceTypeOK
      <4> QED BY <2>1, <4>2, <4>3, <4>4 DEF AfterInfo
    <3>6. OneInfoKeepsOrder'
      BY <2>1, <3>1 DEF SequenceInv, SequenceTypeOK, OneInfoKeepsOrder
    <3> QED BY <3>3, <3>4, <3>5, <3>6 DEF SequenceInv
  <2>6. CASE m.id # query_reply_id
    <3>1. UNCHANGED <<seq_out, seq_info_valid, infos>>
      BY <1>5, <2>6 DEF SequenceInfo
    <3> HIDE DEF m
    <3> QED BY <2>1, <2>2, <3>1 DEF SequenceInv, SequenceTypeOK, BeforeInfo, AfterInfo, OneInfoKeepsOrder
  <2> QED BY <2>5, <2>6
<1>6. CASE QueryUpdates
  <2>1. /\ to_agent \in Seq(MessageType) /\ to_agent # <<>> /\ to_agent' = Tail(to_agent)
        /\ query_reply_id' = None
        /\ UNCHANGED <<seq_info_valid, seq_out, threads, to_dmc, lost, seen, infos, outdated>>
    BY <1>6 DEF QueryUpdates, SequenceInv, SequenceTypeOK
  <2>2. /\ to_agent' \in Seq(MessageType)
        /\ \A i \in DOMAIN to_agent' : i + 1 \in DOMAIN to_agent /\ to_agent'[i] = to_agent[i + 1]
    BY <2>1, TakeMessage
  <2> QED BY <2>1, <2>2 DEF SequenceInv, SequenceTypeOK, BeforeInfo, AfterInfo, OneInfoKeepsOrder
<1>7. CASE SendStatus
  <2> DEFINE n == NextSeq(0)
             m == [kind |-> "status", id |-> None, num |-> n]
  <2>1. /\ seq_info_valid /\ seq_out' = n /\ to_dmc' = Append(to_dmc, m)
        /\ UNCHANGED <<query_reply_id, seq_info_valid, threads, to_agent, lost, seen, infos, outdated>>
    BY <1>7 DEF SendStatus
  <2>2. n \in Nat /\ (seq_out # None => n > seq_out)
    BY DEF NextSeq, SequenceInv, SequenceTypeOK
  <2>3. m \in MessageType /\ m.kind = "status" /\ m.num = n
    BY <2>2 DEF MessageType
  <2> HIDE DEF n, m
  <2>4. to_dmc \in Seq(MessageType)
    BY DEF SequenceInv, SequenceTypeOK
  <2>5. /\ to_dmc' \in Seq(MessageType)
        /\ \A i \in DOMAIN to_dmc' : i \in Nat /\ i <= Len(to_dmc) + 1
        /\ \A i \in DOMAIN to_dmc' :
             (i \in DOMAIN to_dmc /\ to_dmc'[i] = to_dmc[i]) \/ (i = Len(to_dmc) + 1 /\ to_dmc'[i] = m)
    BY <2>1, <2>3, <2>4, AddMessage
  <2>6. SequenceTypeOK'
    BY <2>1, <2>2, <2>5 DEF SequenceInv, SequenceTypeOK
  <2>7. BeforeInfo' /\ OneInfoKeepsOrder'
    BY <2>1 DEF SequenceInv, BeforeInfo, OneInfoKeepsOrder
  <2>8. AfterInfo'
    <3> SUFFICES ASSUME infos = 1 PROVE AfterInfo'
      BY <2>1 DEF AfterInfo
    <3>1. AfterInfo /\ seen \in Nat \cup {None} /\ seq_out \in Nat \cup {None}
      BY DEF SequenceInv, SequenceTypeOK
    <3>2. \A i \in DOMAIN to_dmc : to_dmc[i].num \in Nat \cup {None}
      BY <2>4, MessageNumber
    <3>3. seen # None => n > seen
      BY <2>2, <3>1 DEF AfterInfo
    <3>4. \A i \in DOMAIN to_dmc : to_dmc[i].kind = "status" => to_dmc[i].num < n
      BY <2>2, <3>1, <3>2 DEF AfterInfo
    <3>5. \A i \in DOMAIN to_dmc' : to_dmc'[i].kind = "status" =>
            to_dmc'[i].num \in Nat /\ to_dmc'[i].num <= n /\ (seen # None => to_dmc'[i].num > seen)
      BY <2>2, <2>3, <2>5, <3>1, <3>2, <3>3, <3>4 DEF AfterInfo
    <3>6. ASSUME NEW i \in DOMAIN to_dmc', NEW j \in DOMAIN to_dmc',
                 to_dmc'[i].kind = "status", to_dmc'[j].kind = "status", i < j
          PROVE  to_dmc'[i].num < to_dmc'[j].num
      <4>1. i \in DOMAIN to_dmc /\ to_dmc'[i] = to_dmc[i]
        BY <2>4, <2>5, <3>6
      <4>2. CASE j \in DOMAIN to_dmc /\ to_dmc'[j] = to_dmc[j]
        BY <3>1, <3>6, <4>1, <4>2 DEF AfterInfo
      <4>3. CASE to_dmc'[j] = m
        BY <2>3, <3>4, <3>6, <4>1, <4>3
      <4> QED BY <2>5, <4>2, <4>3
    <3> QED BY <2>1, <2>2, <3>1, <3>3, <3>5, <3>6 DEF AfterInfo
  <2> QED BY <2>6, <2>7, <2>8 DEF SequenceInv
<1>8. CASE Dmc
  <2> DEFINE m == Head(to_dmc)
             new == seen = None \/ m.num > seen
  <2>1. /\ to_dmc \in Seq(MessageType) /\ to_dmc # <<>> /\ to_dmc' = Tail(to_dmc)
        /\ to_agent \in Seq(MessageType) /\ seen \in Nat \cup {None}
        /\ UNCHANGED <<agent, threads, lost, infos>>
    BY <1>8 DEF Dmc, SequenceInv, SequenceTypeOK
  <2>2. /\ m \in MessageType /\ to_dmc' \in Seq(MessageType)
        /\ 1 \in DOMAIN to_dmc /\ m = to_dmc[1]
        /\ \A i \in DOMAIN to_dmc' : i \in Nat /\ i > 0 /\ i + 1 \in DOMAIN to_dmc
                                     /\ to_dmc'[i] = to_dmc[i + 1]
    BY <2>1, TakeMessage
  <2>3. CASE m.kind = "status"
    <3>1. /\ seen' = IF new THEN m.num ELSE seen
          /\ outdated' = (outdated \/ ~new) /\ UNCHANGED to_agent
      BY <1>8, <2>3 DEF Dmc
    <3>2. m.num \in Nat \cup {None}
      BY <2>2 DEF MessageType
    <3>3. SequenceTypeOK'
      BY <2>1, <2>2, <3>1, <3>2 DEF SequenceInv, SequenceTypeOK
    <3>4. infos # 0
      BY <2>2, <2>3 DEF SequenceInv, BeforeInfo
    <3>5. CASE infos = 1
      <4>1. AfterInfo /\ ~outdated /\ seq_out \in Nat \cup {None}
        BY <3>5 DEF SequenceInv, OneInfoKeepsOrder, SequenceTypeOK
      <4>2. m.num # None /\ seq_out # None /\ m.num <= seq_out /\ new
        BY <2>1, <2>2, <2>3, <3>5, <4>1 DEF AfterInfo
      <4>3. seen' = m.num /\ ~outdated'
        BY <3>1, <4>1, <4>2
      <4>4. \A i \in DOMAIN to_dmc' : to_dmc'[i].kind = "status" => to_dmc'[i].num > m.num
        <5>1. ASSUME NEW i \in DOMAIN to_dmc', to_dmc'[i].kind = "status"
              PROVE  to_dmc'[i].num > m.num
          <6>1. i + 1 \in DOMAIN to_dmc /\ 1 < i + 1 /\ to_dmc'[i] = to_dmc[i + 1]
            BY <2>2, <5>1
          <6>2. to_dmc[1].num < to_dmc[i + 1].num
            BY <2>2, <2>3, <3>5, <4>1, <5>1, <6>1 DEF AfterInfo
          <6>3. to_dmc[i + 1].num \in Nat \cup {None} /\ to_dmc[i + 1].num # None
            BY <2>1, <3>5, <4>1, <5>1, <6>1, MessageNumber DEF AfterInfo
          <6> QED BY <2>2, <3>2, <4>2, <6>1, <6>2, <6>3
        <5> QED BY <5>1
      <4> HIDE DEF m, new
      <4>5. \A i, j \in DOMAIN to_dmc' :
              to_dmc'[i].kind = "status" /\ to_dmc'[j].kind = "status" /\ i < j =>
                to_dmc'[i].num < to_dmc'[j].num
        BY <2>2, <3>5, <4>1 DEF AfterInfo
      <4>6. \A i \in DOMAIN to_dmc' : to_dmc'[i].kind = "status" =>
              to_dmc'[i].num # None /\ to_dmc'[i].num <= seq_out
        BY <2>2, <3>5, <4>1 DEF AfterInfo
      <4>7. AfterInfo'
        BY <2>1, <4>2, <4>3, <4>4, <4>5, <4>6 DEF AfterInfo
      <4> QED BY <2>1, <3>3, <3>5, <4>3, <4>7 DEF SequenceInv, BeforeInfo, OneInfoKeepsOrder
    <3>6. CASE infos # 1
      BY <2>1, <3>3, <3>4, <3>6 DEF SequenceInv, BeforeInfo, AfterInfo, OneInfoKeepsOrder, SequenceTypeOK
    <3> QED BY <3>5, <3>6
  <2>4. CASE m.kind # "status"
    <3> DEFINE r == [m EXCEPT !.num = seen]
    <3>1. to_agent' = Append(to_agent, r) /\ UNCHANGED <<seen, outdated>>
      BY <1>8, <2>4 DEF Dmc
    <3>2. r \in MessageType /\ r.num = seen
      BY <2>1, <2>2 DEF MessageType
    <3> HIDE DEF r, m, new
    <3>3. /\ to_agent' \in Seq(MessageType)
          /\ \A i \in DOMAIN to_agent' :
               (i \in DOMAIN to_agent /\ to_agent'[i] = to_agent[i]) \/ to_agent'[i] = r
      BY <2>1, <3>1, <3>2, AddMessage
    <3>4. SequenceTypeOK' /\ OneInfoKeepsOrder'
      BY <2>1, <2>2, <3>1, <3>3 DEF SequenceInv, SequenceTypeOK, OneInfoKeepsOrder
    <3>5. BeforeInfo'
      BY <2>1, <2>2, <3>1, <3>2, <3>3 DEF SequenceInv, BeforeInfo
    <3>6. AfterInfo'
      BY <2>1, <2>2, <3>1 DEF SequenceInv, AfterInfo
    <3> QED BY <3>4, <3>5, <3>6 DEF SequenceInv
  <2> QED BY <2>3, <2>4
<1> QED BY <1>1, <1>2, <1>3, <1>4, <1>5, <1>6, <1>7, <1>8 DEF SequenceNext, SyncStep, Runner

\* The invariant of the sequence numbers.
THEOREM SequenceInvariant == SequenceSpec => []SequenceInv
<1>1. SequenceInit => SequenceInv
  BY SequenceStart
<1>2. SequenceInv /\ [SequenceNext]_vars => SequenceInv'
  <2>1. SequenceInv /\ UNCHANGED vars => SequenceInv'
    BY DEF SequenceInv, SequenceTypeOK, BeforeInfo, AfterInfo, OneInfoKeepsOrder, vars, agent, threads, bus
  <2> QED BY <2>1, SequenceStep
<1> QED BY <1>1, <1>2, PTL DEF SequenceSpec

\* update_sequence_info, send_query_updates and process_sequence_info keep the types of
\* what they share without a lock.
THEOREM SequenceTypes == SequenceSpec => []SequenceTypeOK
  BY SequenceInvariant, PTL DEF SequenceInv

\* handler_update_outgoing_seq_num: whatever query-updates does to the shared reply id,
\* numbers taken from one sequence-info are always new to the DMC.
THEOREM NumbersStayInOrder == SequenceSpec => []OneInfoKeepsOrder
  BY SequenceInvariant, PTL DEF SequenceInv
=============================================================================
