---------------------------- MODULE SequenceSync ----------------------------
(***************************************************************************)
(* The sequence numbers of outgoing update-status messages.  When the DMC  *)
(* connects, a thread asks it every few seconds for the number it has seen *)
(* last (send_sequence_query) until an answer was taken; from then on      *)
(* every status carries the next number.  The query shares one reply id    *)
(* with query-updates, which the worker sends after a prepare-update and   *)
(* without the lock.                                                       *)
(*                                                                         *)
(* One package; the bus keeps the order of messages.                       *)
(***************************************************************************)
EXTENDS Integers, Sequences

CONSTANTS
  Syncers,      \* threads that update_sequence_info runs in, one per DMC connection
  Ids,          \* random reply ids
  Known,        \* numbers that the DMC may have seen at the start; None if none
  MaxStatus,    \* bound: numbers used in update-status messages
  MaxPrepares,  \* bound: prepare-updates that succeed
  None

ASSUME SequenceSyncAssumption ==
  /\ Known \subseteq Nat \cup {None}
  /\ MaxStatus \in Nat /\ MaxPrepares \in Nat
  /\ None \notin Nat /\ None \notin Ids

VARIABLES
  query_reply_id,   \* ua_intl.query_reply_id
  seq_info_valid,   \* ua_intl.seq_info_valid
  seq_out,          \* the package's entry in ua_intl.seq_out, None if none
  sync,             \* where each sync thread is
  prepare,          \* where the worker is in send_query_updates
  prepares,         \* prepare-updates so far
  to_dmc, to_agent, \* messages on the bus
  lost,             \* a query was not sent or was lost
  seen,             \* the number that the DMC has seen last
  infos,            \* sequence-infos that the agent has taken
  outdated          \* the DMC got a status whose number was not a new one

agent == <<query_reply_id, seq_info_valid, seq_out>>
threads == <<sync, prepare, prepares>>
bus == <<to_dmc, to_agent, lost>>
vars == <<agent, threads, bus, seen, infos, outdated>>

SequenceInit ==
  /\ query_reply_id = None /\ seq_info_valid = FALSE /\ seq_out = None
  /\ sync = [t \in Syncers |-> "off"]
  /\ prepare = "idle" /\ prepares = 0
  /\ to_dmc = <<>> /\ to_agent = <<>> /\ lost = FALSE
  /\ seen \in Known
  /\ infos = 0 /\ outdated = FALSE

\* handle_presence: a connection of the DMC starts a thread.
Presence(t) ==
  /\ sync[t] = "off"
  /\ sync' = [sync EXCEPT ![t] = "test"]
  /\ UNCHANGED <<agent, prepare, prepares, bus, seen, infos, outdated>>

\* Reply ids are random: a new one differs from every one in use.
Fresh(id) ==
  /\ id # query_reply_id
  /\ \A i \in DOMAIN to_dmc : to_dmc[i].id # id
  /\ \A i \in DOMAIN to_agent : to_agent[i].id # id

\* ua_send_message, whose result is ignored.
Transmit(m) ==
  \/ to_dmc' = Append(to_dmc, m) /\ UNCHANGED lost
  \/ lost' = TRUE /\ UNCHANGED to_dmc

Query(kind, id) == [kind |-> kind, id |-> id, num |-> None]

\* update_sequence_info sleeps and tests the flag before every query.
SyncTest(t) ==
  /\ sync[t] = "test"
  /\ sync' = [sync EXCEPT ![t] = IF seq_info_valid THEN "done" ELSE "send"]
  /\ UNCHANGED <<agent, prepare, prepares, bus, seen, infos, outdated>>

\* Mutant: the thread goes on without having sent a query.
SyncSendNever(t) ==
  /\ sync[t] = "send"
  /\ sync' = [sync EXCEPT ![t] = "test"]
  /\ UNCHANGED <<agent, prepare, prepares, bus, seen, infos, outdated>>

\* send_sequence_query, under the lock: nothing is sent while an id is pending.
SyncSend(t) ==
  /\ sync[t] = "send"
  /\ sync' = [sync EXCEPT ![t] = "test"]
  /\ IF query_reply_id # None
     THEN UNCHANGED <<query_reply_id, to_dmc, lost>>
     ELSE \E id \in Ids :
            /\ Fresh(id)
            /\ query_reply_id' = id
            /\ Transmit(Query("sequence", id))
  /\ UNCHANGED <<seq_info_valid, seq_out, prepare, prepares, to_agent, seen, infos, outdated>>

\* send_query_updates, without the lock: the test and the new id are two steps.
QueryUpdatesTest ==
  /\ prepare = "idle" /\ prepares < MaxPrepares
  /\ prepares' = prepares + 1
  /\ prepare' = IF query_reply_id = None THEN "send" ELSE "idle"
  /\ UNCHANGED <<agent, sync, bus, seen, infos, outdated>>

QueryUpdatesSend ==
  /\ prepare = "send"
  /\ prepare' = "idle"
  /\ \E id \in Ids :
       /\ Fresh(id)
       /\ query_reply_id' = id
       /\ Transmit(Query("updates", id))
  /\ UNCHANGED <<seq_info_valid, seq_out, sync, prepares, to_agent, seen, infos, outdated>>

\* Mutant: a status repeats the number of the one before it.
NextSeqSame(num) ==
  IF num # None /\ num > 0 THEN num ELSE IF seq_out = None THEN 0 ELSE seq_out

\* Mutant: a new entry is counted from before the first number.
NextSeqBefore(num) ==
  IF num # None /\ num > 0 THEN num ELSE IF seq_out = None THEN -1 ELSE seq_out + 1

\* handler_update_outgoing_seq_num: a positive number is taken over, otherwise
\* the entry counts on from what it is, or starts at 0.
NextSeq(num) ==
  IF num # None /\ num > 0 THEN num ELSE IF seq_out = None THEN 0 ELSE seq_out + 1

\* process_sequence_info: any answer frees the id, the one to it is taken.
SequenceInfo ==
  /\ to_agent # <<>> /\ Head(to_agent).kind = "sequence"
  /\ to_agent' = Tail(to_agent)
  /\ LET m == Head(to_agent)
     IN  IF m.id = query_reply_id
         THEN /\ seq_out' = IF m.num = None THEN seq_out ELSE NextSeq(m.num)
              /\ seq_info_valid' = TRUE
              /\ infos' = infos + 1
         ELSE UNCHANGED <<seq_out, seq_info_valid, infos>>
  /\ query_reply_id' = None
  /\ UNCHANGED <<threads, to_dmc, lost, seen, outdated>>

\* process_query_updates frees the id as well, whoever it belongs to.
QueryUpdates ==
  /\ to_agent # <<>> /\ Head(to_agent).kind = "updates"
  /\ to_agent' = Tail(to_agent)
  /\ query_reply_id' = None
  /\ UNCHANGED <<seq_info_valid, seq_out, threads, to_dmc, lost, seen, infos, outdated>>

\* send_install_status, once the numbers are known.
SendStatus ==
  /\ seq_info_valid
  /\ NextSeq(0) <= MaxStatus
  /\ seq_out' = NextSeq(0)
  /\ to_dmc' = Append(to_dmc, [kind |-> "status", id |-> None, num |-> NextSeq(0)])
  /\ UNCHANGED <<query_reply_id, seq_info_valid, threads, to_agent, lost, seen, infos, outdated>>

\* The DMC answers queries and drops a status whose number is not a new one.
Dmc ==
  /\ to_dmc # <<>>
  /\ to_dmc' = Tail(to_dmc)
  /\ LET m == Head(to_dmc)
         new == seen = None \/ m.num > seen
     IN  IF m.kind = "status"
         THEN /\ seen' = IF new THEN m.num ELSE seen
              /\ outdated' = (outdated \/ ~new)
              /\ UNCHANGED to_agent
         ELSE /\ to_agent' = Append(to_agent, [m EXCEPT !.num = seen])
              /\ UNCHANGED <<seen, outdated>>
  /\ UNCHANGED <<agent, threads, lost, infos>>

SyncStep(t) == SyncTest(t) \/ SyncSend(t)
Runner == SequenceInfo \/ QueryUpdates

SequenceNext ==
  \/ \E t \in Syncers : Presence(t) \/ SyncStep(t)
  \/ QueryUpdatesTest \/ QueryUpdatesSend
  \/ Runner \/ SendStatus \/ Dmc

\* The threads keep running and the DMC works on what reaches it.
SequenceFairness ==
  /\ \A t \in Syncers : WF_vars(Presence(t)) /\ WF_vars(SyncStep(t))
  /\ WF_vars(QueryUpdatesSend) /\ WF_vars(Runner) /\ WF_vars(Dmc)

SequenceSpec == SequenceInit /\ [][SequenceNext]_vars /\ SequenceFairness

-----------------------------------------------------------------------------
MessageType == [kind : {"sequence", "updates", "status"}, id : Ids \cup {None},
                num : Nat \cup {None}]

\* Every variable keeps its type.
SequenceTypeOK ==
  /\ query_reply_id \in Ids \cup {None}
  /\ seq_info_valid \in BOOLEAN
  /\ seq_out \in Nat \cup {None}
  /\ sync \in [Syncers -> {"off", "test", "send", "done"}]
  /\ prepare \in {"idle", "send"} /\ prepares \in 0 .. MaxPrepares
  /\ to_dmc \in Seq(MessageType) /\ to_agent \in Seq(MessageType)
  /\ lost \in BOOLEAN /\ seen \in Nat \cup {None}
  /\ infos \in Nat /\ outdated \in BOOLEAN

\* Numbers taken from one sequence-info only ever give the DMC new ones, also
\* when the id of the query was overwritten or freed by query-updates.  (A
\* second sequence-info may be older than the last statuses.)
OneInfoKeepsOrder == infos <= 1 => ~outdated

SequenceInFlight ==
  \/ \E i \in DOMAIN to_dmc : to_dmc[i].kind = "sequence"
  \/ \E i \in DOMAIN to_agent : to_agent[i].kind = "sequence"

\* A thread goes on to its next query, 5 seconds later, before the DMC has answered.
SlowAnswer == SequenceInFlight /\ \E t \in Syncers : SyncTest(t)

\* The agent learns its numbers in the end, whatever query-updates does to the
\* reply id ("Spawn a thread to re-sync sequence number."), unless the DMC is
\* too slow again and again, or a query is lost: its reply id stays pending and
\* the thread sends no other.
EventuallySynced == <>(seq_info_valid \/ lost) \/ []<><<SlowAnswer>>_vars
=============================================================================
