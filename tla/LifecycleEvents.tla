--------------------------- MODULE LifecycleEvents ---------------------------
(***************************************************************************)
(* Withdrawal and source-loss requests from the API's handlers over two    *)
(* Redis streams to the workers' consumers.  Requests may be repeated,     *)
(* share keys, or be answered with an error after their entry was added;   *)
(* workers crash, handlers raise, transactions deadlock, acknowledgements  *)
(* get lost.                                                               *)
(*                                                                         *)
(* Locks: the processing record of a key (SELECT ... FOR UPDATE), the row  *)
(* of a published answer (FOR UPDATE by apply_withdrawal, FOR KEY SHARE by *)
(* an insert that refers to it), and the head of the task's audit chain.   *)
(* One answer per task, so the head is named by the answer.  What becomes  *)
(* of the claims of a lost span is the subject of ClaimLedger.             *)
(***************************************************************************)
EXTENDS Naturals, Sequences, FiniteSets

CONSTANTS
  Answers,      \* published answers
  Spans,        \* evidence spans
  ShownBy,      \* the answer that shows the claims linked to each span
  Keys,         \* idempotency keys clients choose
  Menu,         \* bound: the requests clients make
  Workers,
  Nobody,
  BatchSize,    \* count of XREADGROUP
  MaxRequests,  \* bound: requests that got past validation
  MaxFaults,    \* bound: failed publishes and acks, exceptions and crashes
  MaxEntries    \* bound: length of a stream when an operator adds to it

ASSUME EventsAssumption ==
  /\ ShownBy \in [Spans -> Answers]
  /\ Menu \subseteq [stream : {"withdrawal"}, target : Answers, key : Keys]
               \cup [stream : {"loss"}, target : Spans, key : Keys]
  /\ Nobody \notin Workers
  /\ BatchSize \in Nat \ {0}
  /\ {MaxRequests, MaxFaults, MaxEntries} \subseteq Nat

VARIABLES
  requests,    \* what clients asked for, in order: the position is the id
  api,         \* where the handler of each request is
  losses,      \* committed source_loss_events, by request
  stream,      \* the two streams: the request of each entry
  group,       \* the consumer group exists
  cursor,      \* last entry of each stream delivered to the group
  pel,         \* entries delivered to each worker and not acknowledged
  batch,       \* entries of the last XREADGROUP still to handle
  epr,         \* committed processing records: consumer, key -> status
  answer,      \* committed status of each answer
  history,     \* committed published_answer_lifecycle_events
  recorded,    \* committed source_loss_propagation_records
  trail,       \* committed audit events
  pc,          \* where each worker is
  visible,     \* the scope of the worker's event could be resolved
  mine,        \* what its transaction has written
  answerLock,  \* FOR UPDATE on each answer's row
  headLock,    \* lock on the head of the audit chain of each answer's task
  faults

redis == <<stream, group, cursor, pel>>
rows == <<answer, history, recorded, trail>>
txn == <<visible, mine, answerLock, headLock>>
vars == <<requests, api, losses, redis, batch, epr, rows, pc, txn, faults>>

Withdrawal == "withdrawal"
Loss == "loss"
Streams == {Withdrawal, Loss}

Nothing == [answer |-> {}, history |-> {}, recorded |-> {}, trail |-> <<>>]

Init ==
  /\ requests = <<>> /\ api = <<>> /\ losses = {}
  /\ stream = [s \in Streams |-> <<>>]
  /\ group = FALSE
  /\ cursor = [s \in Streams |-> 0]
  /\ pel = [w \in Workers |-> {}]
  /\ batch = [w \in Workers |-> <<>>]
  /\ epr = [s \in Streams |-> [k \in Keys |-> "none"]]
  /\ answer = [a \in Answers |-> "published"]
  /\ history = {} /\ recorded = {} /\ trail = <<>>
  /\ pc = [w \in Workers |-> "down"]
  /\ visible = [w \in Workers |-> FALSE]
  /\ mine = [w \in Workers |-> Nothing]
  /\ answerLock = [a \in Answers |-> Nobody]
  /\ headLock = [a \in Answers |-> Nobody]
  /\ faults = 0

Fault == faults < MaxFaults /\ faults' = faults + 1

-----------------------------------------------------------------------------
(* The API                                                                 *)

Accept(r) ==
  /\ Len(requests) < MaxRequests
  /\ requests' = Append(requests, r)
  /\ api' = Append(api, "open")
  /\ UNCHANGED <<losses, redis, batch, epr, rows, pc, txn, faults>>

\* request_published_answer_withdrawal, once the answer's scope is resolved.
RequestWithdrawal(r) == r.stream = Withdrawal /\ Accept(r)

\* create_source_loss_event, up to its INSERT.  UNIQUE (evidence_span_id,
\* loss_kind, idempotency_key): waits for an open transaction with the same
\* span and key, and is answered 409 if there is a committed row.
CreateLoss(r) ==
  /\ r.stream = Loss
  /\ \A i \in DOMAIN requests : requests[i] = r => api[i] = "refused"
  /\ Accept(r)

\* Mutant: the row is committed before the entry is added.
AddAfterCommit(i) ==
  LET s == requests[i].stream IN
  /\ api[i] = "open"
  /\ losses' = IF s = Loss THEN losses \cup {i} ELSE losses
  /\ \/ /\ stream' = [stream EXCEPT ![s] = Append(@, i)]
        /\ api' = [api EXCEPT ![i] = "accepted"]
        /\ UNCHANGED faults
     \/ /\ Fault
        /\ api' = [api EXCEPT ![i] = "refused"]
        /\ UNCHANGED stream
  /\ UNCHANGED <<requests, group, cursor, pel, batch, epr, rows, pc, txn>>

\* XADD.  For a loss the transaction is still open; if the call raises it is
\* rolled back, although the entry may have been added.
AddEntry(i) ==
  LET s == requests[i].stream IN
  /\ api[i] = "open"
  /\ \/ /\ stream' = [stream EXCEPT ![s] = Append(@, i)]
        /\ api' = [api EXCEPT ![i] = IF s = Loss THEN "added" ELSE "accepted"]
        /\ UNCHANGED faults
     \/ /\ Fault
        /\ stream' \in {stream, [stream EXCEPT ![s] = Append(@, i)]}
        /\ api' = [api EXCEPT ![i] = "refused"]
  /\ UNCHANGED <<requests, losses, group, cursor, pel, batch, epr, rows, pc, txn>>

CommitLoss(i) ==
  /\ api[i] = "added"
  /\ losses' = losses \cup {i}
  /\ api' = [api EXCEPT ![i] = "accepted"]
  /\ UNCHANGED <<requests, redis, batch, epr, rows, pc, txn, faults>>

\* The API's process ends between XADD and COMMIT.
LoseCommit(i) ==
  /\ api[i] = "added"
  /\ Fault
  /\ api' = [api EXCEPT ![i] = "refused"]
  /\ UNCHANGED <<requests, losses, redis, batch, epr, rows, pc, txn>>

-----------------------------------------------------------------------------
(* The worker's loop                                                       *)

\* _ensure_group on every stream, with id "$".
StartWorker(w) ==
  /\ pc[w] = "down"
  /\ group' = TRUE
  /\ cursor' = IF group THEN cursor ELSE [s \in Streams |-> Len(stream[s])]
  /\ pc' = [pc EXCEPT ![w] = "idle"]
  /\ UNCHANGED <<requests, api, losses, stream, pel, batch, epr, rows, txn, faults>>

\* The next entries of a stream that nobody was given.
Fresh(s) ==
  LET upTo == IF cursor[s] + BatchSize < Len(stream[s]) THEN cursor[s] + BatchSize
              ELSE Len(stream[s])
  IN [j \in 1 .. upTo - cursor[s] |-> <<s, cursor[s] + j>>]

\* XREADGROUP ">" on both streams: grouped by stream, withdrawals first.
ReadBatch(w) ==
  LET entries == Fresh(Withdrawal) \o Fresh(Loss) IN
  /\ pc[w] = "idle" /\ batch[w] = <<>> /\ entries # <<>>
  /\ cursor' = [s \in Streams |-> cursor[s] + Len(Fresh(s))]
  /\ batch' = [batch EXCEPT ![w] = entries]
  /\ pel' = [pel EXCEPT ![w] = @ \cup {entries[j] : j \in DOMAIN entries}]
  /\ UNCHANGED <<requests, api, losses, stream, group, epr, rows, pc, txn, faults>>

\* XACK, whose failure is only logged.
Acknowledge(w) ==
  /\ pc[w] = "ack"
  /\ \/ pel' = [pel EXCEPT ![w] = @ \ {Head(batch[w])}] /\ UNCHANGED faults
     \/ Fault /\ UNCHANGED pel
  /\ batch' = [batch EXCEPT ![w] = Tail(@)]
  /\ pc' = [pc EXCEPT ![w] = "idle"]
  /\ UNCHANGED <<requests, api, losses, stream, group, cursor, epr, rows, txn>>

-----------------------------------------------------------------------------
(* The transaction of a consumer                                           *)

RequestOf(entry) == stream[entry[1]][entry[2]]
Current(w) == RequestOf(Head(batch[w]))
Event(w) == requests[Current(w)]
RecordOf(w) == <<Event(w).stream, Event(w).key>>

\* The answer the event is about.
Target(w) == IF Event(w).stream = Loss THEN ShownBy[Event(w).target] ELSE Event(w).target

InService(w) ==
  pc[w] \in {"withdraw", "write", "audit", "propagate", "impact", "succeed"}

Goto(w, p) == pc' = [pc EXCEPT ![w] = p]

\* Mutant: the writes of a finished transaction survive in the session.
ReleaseLocksOnly(w) ==
  /\ UNCHANGED mine
  /\ visible' = [visible EXCEPT ![w] = FALSE]
  /\ answerLock' = [a \in Answers |-> IF answerLock[a] = w THEN Nobody ELSE answerLock[a]]
  /\ headLock' = [a \in Answers |-> IF headLock[a] = w THEN Nobody ELSE headLock[a]]

\* The end of w's transaction.
Release(w) ==
  /\ mine' = [mine EXCEPT ![w] = Nothing]
  /\ visible' = [visible EXCEPT ![w] = FALSE]
  /\ answerLock' = [a \in Answers |-> IF answerLock[a] = w THEN Nobody ELSE answerLock[a]]
  /\ headLock' = [a \in Answers |-> IF headLock[a] = w THEN Nobody ELSE headLock[a]]

\* The transition of the record, and COMMIT.
CommitAs(w, status) ==
  /\ epr' = [epr EXCEPT ![RecordOf(w)[1]][RecordOf(w)[2]] = status]
  /\ answer' = [a \in Answers |-> IF a \in mine[w].answer THEN "withdrawn" ELSE answer[a]]
  /\ history' = history \cup mine[w].history
  /\ recorded' = recorded \cup mine[w].recorded
  /\ trail' = trail \o mine[w].trail
  /\ Release(w)

\* "failed": the entry stays pending, the worker goes on with the next one.
LeavePending(w) ==
  /\ batch' = [batch EXCEPT ![w] = Tail(@)]
  /\ Goto(w, "idle")

\* The scope of the event's subject, in the first statement of the transaction.
\* Answers exist; a loss may not be committed (yet).
ResolveScope(w) ==
  /\ pc[w] = "idle" /\ batch[w] # <<>>
  /\ visible' = [visible EXCEPT ![w] = Event(w).stream = Loss => Current(w) \in losses]
  /\ Goto(w, "begin")
  /\ UNCHANGED <<requests, api, losses, redis, batch, epr, rows, mine, answerLock,
                 headLock, faults>>

\* begin_processing waits while another transaction holds the key's record.
RecordIsFree(w) == \A v \in Workers \ {w} : InService(v) => RecordOf(v) # RecordOf(w)

Status(w) == epr[RecordOf(w)[1]][RecordOf(w)[2]]

\* Mutant: an event that is not visible is taken for done.
BeginForgiving(w) ==
  /\ pc[w] = "begin" /\ RecordIsFree(w)
  /\ IF Status(w) = "succeeded" \/ ~visible[w]
     THEN /\ CommitAs(w, "succeeded")
          /\ Goto(w, "ack")
     ELSE /\ Goto(w, IF Event(w).stream = Loss THEN "propagate" ELSE "withdraw")
          /\ UNCHANGED <<epr, rows, txn>>
  /\ UNCHANGED <<requests, api, losses, redis, batch, faults>>

\* Mutant: a record of a failed attempt ends the handler, too.
BeginOnce(w) ==
  /\ pc[w] = "begin" /\ RecordIsFree(w)
  /\ \/ /\ Status(w) # "none"
        /\ Release(w) /\ Goto(w, "ack")
        /\ UNCHANGED <<batch, epr, rows>>
     \/ /\ Status(w) = "none" /\ ~visible[w]
        /\ CommitAs(w, "failed")
        /\ LeavePending(w)
     \/ /\ Status(w) = "none" /\ visible[w]
        /\ Goto(w, IF Event(w).stream = Loss THEN "propagate" ELSE "withdraw")
        /\ UNCHANGED <<batch, epr, rows, txn>>
  /\ UNCHANGED <<requests, api, losses, redis, faults>>

\* begin_processing: skip what succeeded, mark a record whose subject is not
\* visible failed, else call the service.
Begin(w) ==
  /\ pc[w] = "begin" /\ RecordIsFree(w)
  /\ \/ /\ Status(w) = "succeeded"
        /\ Release(w) /\ Goto(w, "ack")
        /\ UNCHANGED <<batch, epr, rows>>
     \/ /\ Status(w) # "succeeded" /\ ~visible[w]
        /\ CommitAs(w, "failed")
        /\ LeavePending(w)
     \/ /\ Status(w) # "succeeded" /\ visible[w]
        /\ Goto(w, IF Event(w).stream = Loss THEN "propagate" ELSE "withdraw")
        /\ UNCHANGED <<batch, epr, rows, txn>>
  /\ UNCHANGED <<requests, api, losses, redis, faults>>

\* The answer whose row an insert of w refers to (FOR KEY SHARE).
KeyShare(w) == IF \E i \in DOMAIN requests : <<i, "answer">> \in mine[w].recorded
               THEN {Target(w)} ELSE {}

CanLockAnswer(w) ==
  /\ answerLock[Target(w)] \in {Nobody, w}
  /\ \A v \in Workers \ {w} : InService(v) => Target(w) \notin KeyShare(v)
CanLockHead(w) == headLock[Target(w)] \in {Nobody, w}

\* Mutant: the answer's status is read without FOR UPDATE.
ReadAnswer(w) ==
  /\ pc[w] = "withdraw"
  /\ UNCHANGED answerLock
  /\ Goto(w, IF answer[Target(w)] = "published" THEN "write" ELSE "succeed")
  /\ UNCHANGED <<requests, api, losses, redis, batch, epr, rows, visible, mine,
                 headLock, faults>>

\* apply_withdrawal: SELECT ... FOR UPDATE OF pa; a withdrawn answer is left
\* alone.
LockAnswer(w) ==
  /\ pc[w] = "withdraw" /\ CanLockAnswer(w)
  /\ answerLock' = [answerLock EXCEPT ![Target(w)] = w]
  /\ Goto(w, IF answer[Target(w)] = "published" THEN "write" ELSE "succeed")
  /\ UNCHANGED <<requests, api, losses, redis, batch, epr, rows, visible, mine,
                 headLock, faults>>

HistoryOf(a, k) == {<<a, "withdrawal_requested", k>>, <<a, "withdrawn", k>>}

\* The two lifecycle events, and the UPDATE guarded by status = 'published',
\* which waits for the row if another transaction has it.
WriteWithdrawal(w) ==
  LET a == Target(w)
      transitions == answer[a] = "published" IN
  /\ pc[w] = "write" /\ answerLock[a] \in {Nobody, w}
  /\ answerLock' = [answerLock EXCEPT ![a] = w]
  /\ mine' = [mine EXCEPT ![w].history = HistoryOf(a, Event(w).key),
                          ![w].answer = IF transitions THEN {a} ELSE {}]
  /\ Goto(w, IF transitions THEN "audit" ELSE "succeed")
  /\ UNCHANGED <<requests, api, losses, redis, batch, epr, rows, visible, headLock, faults>>

AuditWithdrawal(w) ==
  /\ pc[w] = "audit" /\ CanLockHead(w)
  /\ headLock' = [headLock EXCEPT ![Target(w)] = w]
  /\ mine' = [mine EXCEPT ![w].trail = Append(@, <<"withdrawn", Target(w)>>)]
  /\ Goto(w, "succeed")
  /\ UNCHANGED <<requests, api, losses, redis, batch, epr, rows, visible, answerLock, faults>>

\* propagate_source_loss for the claims of the span: records and audits, once.
PropagateToClaims(w) ==
  LET l == Current(w) IN
  /\ pc[w] = "propagate"
  /\ Goto(w, "impact")
  /\ IF <<l, "claims">> \in recorded
     THEN UNCHANGED <<mine, headLock>>
     ELSE /\ CanLockHead(w)
          /\ headLock' = [headLock EXCEPT ![Target(w)] = w]
          /\ mine' = [mine EXCEPT ![w].recorded = {<<l, "claims">>},
                                  ![w].trail = << <<"claims", l>> >>]
  /\ UNCHANGED <<requests, api, losses, redis, batch, epr, rows, visible, answerLock, faults>>

\* ... and for the answer, which is recorded and audited if it is published by
\* now; the record refers to its row.
PropagateToAnswer(w) ==
  LET l == Current(w) IN
  /\ pc[w] = "impact"
  /\ \/ /\ answer[Target(w)] = "published"
        /\ answerLock[Target(w)] \in {Nobody, w} /\ CanLockHead(w)
        /\ headLock' = [headLock EXCEPT ![Target(w)] = w]
        /\ mine' = [mine EXCEPT ![w].recorded = @ \cup {<<l, "answer">>},
                                ![w].trail = Append(@, <<"answer", l>>)]
     \/ /\ answer[Target(w)] # "published"
        /\ mine' = [mine EXCEPT ![w].recorded = @ \cup {<<l, "no_answer">>}]
        /\ UNCHANGED headLock
  /\ Goto(w, "succeed")
  /\ UNCHANGED <<requests, api, losses, redis, batch, epr, rows, visible, answerLock, faults>>

\* mark_succeeded and COMMIT.
Succeed(w) ==
  /\ pc[w] = "succeed"
  /\ CommitAs(w, "succeeded")
  /\ Goto(w, "ack")
  /\ UNCHANGED <<requests, api, losses, redis, batch, faults>>

-----------------------------------------------------------------------------
(* Failures                                                                *)

\* The service raises between two of its steps: mark_failed, and COMMIT of what
\* was done so far.
ServiceRaises(w) ==
  /\ pc[w] \in {"withdraw", "propagate", "impact"}
  /\ Fault
  /\ CommitAs(w, "failed")
  /\ LeavePending(w)
  /\ UNCHANGED <<requests, api, losses, redis>>

\* The transaction is rolled back and the process ends with the exception.
Die(w) ==
  /\ Release(w)
  /\ batch' = [batch EXCEPT ![w] = <<>>]
  /\ Goto(w, "down")
  /\ UNCHANGED <<requests, api, losses, redis, epr, rows>>

Crash(w) == pc[w] # "down" /\ Fault /\ Die(w)

\* The lock w's next statement waits for is one v holds.
WaitsFor(w, v) ==
  /\ InService(w) /\ InService(v) /\ w # v /\ Target(w) = Target(v)
  /\ \/ pc[w] \in {"audit", "propagate", "impact"} /\ headLock[Target(w)] = v
     \/ pc[w] = "impact" /\ answerLock[Target(w)] = v
     \/ pc[w] = "withdraw" /\ (answerLock[Target(w)] = v \/ KeyShare(v) # {})

\* A withdrawal holds the answer's row and waits for the head, a propagation
\* the other way round: the database aborts one of them.
DeadlockAbort(w, v) ==
  /\ WaitsFor(w, v) /\ WaitsFor(v, w)
  /\ Die(w)
  /\ UNCHANGED faults

Working(e) == \E w \in Workers : \E j \in DOMAIN batch[w] : batch[w][j] = e

\* An operator finds an entry pending that no worker is at work on, adds its
\* event again and acknowledges the pending entry by hand.
Requeue(w, e) ==
  /\ e \in pel[w] /\ ~Working(e)
  /\ Len(stream[e[1]]) < MaxEntries
  /\ stream' = [stream EXCEPT ![e[1]] = Append(@, RequestOf(e))]
  /\ pel' = [pel EXCEPT ![w] = @ \ {e}]
  /\ UNCHANGED <<requests, api, losses, group, cursor, batch, epr, rows, pc, txn, faults>>

-----------------------------------------------------------------------------
ApiStep(i) == AddEntry(i) \/ CommitLoss(i)

ServiceStep(w) ==
  \/ LockAnswer(w)
  \/ WriteWithdrawal(w)
  \/ AuditWithdrawal(w)
  \/ PropagateToClaims(w)
  \/ PropagateToAnswer(w)
  \/ Succeed(w)

WorkerStep(w) ==
  \/ StartWorker(w)
  \/ ReadBatch(w)
  \/ ResolveScope(w)
  \/ Begin(w)
  \/ ServiceStep(w)
  \/ Acknowledge(w)

Client == \E r \in Menu : RequestWithdrawal(r) \/ CreateLoss(r)

Failure ==
  \/ \E i \in DOMAIN requests : LoseCommit(i)
  \/ \E w \in Workers : ServiceRaises(w) \/ Crash(w)
  \/ \E w, v \in Workers : DeadlockAbort(w, v)

Operator == \E w \in Workers : \E e \in pel[w] : Requeue(w, e)

\* Nothing is left to handle, or the bound on the streams keeps the operator
\* from adding what is.
Quiet ==
  /\ Len(requests) = MaxRequests
  /\ \A i \in DOMAIN requests : api[i] \in {"accepted", "refused"}
  /\ \A w \in Workers : pc[w] = "idle" /\ batch[w] = <<>>
  /\ \A s \in Streams : cursor[s] = Len(stream[s])
  /\ \A w \in Workers : \A e \in pel[w] : Len(stream[e[1]]) >= MaxEntries
  /\ UNCHANGED vars

Next ==
  \/ Client
  \/ \E i \in DOMAIN requests : ApiStep(i)
  \/ \E w \in Workers : WorkerStep(w)
  \/ Failure
  \/ Operator
  \/ Quiet

Spec == Init /\ [][Next]_vars

\* Workers are started again and take steps, the API finishes what it began,
\* the deadlock detector runs and an operator looks after pending entries.
Fairness ==
  /\ WF_vars(\E i \in DOMAIN requests : ApiStep(i))
  /\ \A w \in Workers : WF_vars(WorkerStep(w))
  /\ WF_vars(\E w, v \in Workers : DeadlockAbort(w, v))
  /\ WF_vars(Operator)

FairSpec == Spec /\ Fairness

-----------------------------------------------------------------------------
(* Properties                                                              *)

Entries == Streams \X (Nat \ {0})
Events == {"withdrawal_requested", "withdrawn"}
Consequences == {"claims", "answer", "no_answer"}
Audits == {"withdrawn", "claims", "answer"} \X (Answers \cup Nat)

\* The type invariant.
TypeOK ==
  /\ requests \in Seq(Menu)
  /\ api \in Seq({"open", "added", "accepted", "refused"}) /\ Len(api) = Len(requests)
  /\ losses \subseteq DOMAIN requests
  /\ stream \in [Streams -> Seq(DOMAIN requests)]
  /\ group \in BOOLEAN
  /\ cursor \in [Streams -> Nat] /\ \A s \in Streams : cursor[s] <= Len(stream[s])
  /\ pel \in [Workers -> SUBSET Entries]
  /\ batch \in [Workers -> Seq(Entries)]
  /\ epr \in [Streams -> [Keys -> {"none", "failed", "succeeded"}]]
  /\ answer \in [Answers -> {"published", "withdrawn"}]
  /\ history \subseteq Answers \X Events \X Keys
  /\ recorded \subseteq losses \X Consequences
  /\ trail \in Seq(Audits)
  /\ \A w \in Workers :
       /\ pc[w] \in {"down", "idle", "begin", "ack"} => mine[w] = Nothing
       /\ pc[w] \notin {"down", "idle"} => batch[w] # <<>>
       /\ visible[w] \in BOOLEAN
  /\ answerLock \in [Answers -> Workers \cup {Nobody}]
  /\ headLock \in [Answers -> Workers \cup {Nobody}]
  /\ faults \in 0 .. MaxFaults

\* The consequence the request of an entry asked for.
Done(i) ==
  IF requests[i].stream = Loss
  THEN {<<i, "answer">>, <<i, "no_answer">>} \cap recorded # {}
  ELSE answer[requests[i].target] = "withdrawn"

SameKey(i, j) == requests[i].stream = requests[j].stream /\ requests[i].key = requests[j].key

\* An entry is acknowledged only when what it asked for was done, or when
\* another request under the same key, which the processing record cannot tell
\* from it, was.  In particular a loss whose row is not visible yet, or never
\* will be, is not taken for handled.
AcknowledgedIsDone ==
  \A w \in Workers : pc[w] = "ack" =>
    \E i \in DOMAIN requests : SameKey(i, Current(w)) /\ Done(i)

\* "A row in source_loss_events that the worker will never see is a worse
\* failure mode than no row at all" (source_loss.py:63-65): the entry of a
\* committed loss is in the stream, whatever failed in the API.
CommittedLossIsEnqueued ==
  \A i \in losses : \E j \in DOMAIN stream[Loss] : stream[Loss][j] = i

\* An entry of request i is pending, its subject is committed, and there is room
\* in the stream to add the event again if need be.
Pending(i) ==
  /\ i \in DOMAIN requests
  /\ \E w \in Workers : \E e \in pel[w] : RequestOf(e) = i /\ Len(stream[e[1]]) < MaxEntries
  /\ requests[i].stream = Loss => i \in losses

Handled(i) ==
  /\ i \in DOMAIN requests
  /\ \/ epr[requests[i].stream][requests[i].key] = "succeeded"
     \/ Len(stream[requests[i].stream]) >= MaxEntries

\* A delivered entry is handled in the end, whatever raises, crashes or
\* deadlocks on the way, and although a loss may be handled before its row is
\* visible: the entry stays pending and only the operator brings it back.
DeliveredIsHandled ==
  \A i \in 1 .. MaxRequests : Pending(i) ~> Handled(i)

Lifecycle == INSTANCE AnswerLifecycle

\* Retries, shared keys, crashes, deadlocks and concurrent consumers are
\* invisible: each answer is withdrawn once, by one request and with one audit
\* event, each loss has its consequences recorded and audited once.
ImplementsLifecycle == Lifecycle!Spec
=============================================================================
