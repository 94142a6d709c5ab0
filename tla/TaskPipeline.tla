----------------------------- MODULE TaskPipeline -----------------------------
(***************************************************************************)
(* From POST /tasks to a terminal task: the API commits a task and adds a  *)
(* task.created entry to a Redis stream; workers of one consumer group     *)
(* read entries in batches and run consumers/task_created.py, each entry   *)
(* in one database transaction (READ COMMITTED); an entry is acknowledged  *)
(* unless its handler failed.                                              *)
(*                                                                         *)
(* Two locks of the database matter.  A guarded UPDATE of task_masters     *)
(* locks the task's row when its guard matches; audit_append locks the     *)
(* head of the task's audit chain (AuditChain).  Both are kept to the end  *)
(* of the transaction.  The ledger is abstracted to one claim per task,    *)
(* the gate to its verdict on that claim (FinalAnswerGate has the rest).   *)
(***************************************************************************)
EXTENDS Naturals, Sequences

CONSTANTS
  Tasks, Workers,
  Keys, KeyOf,     \* the idempotency key each task's event carries
  Nobody,          \* no transaction holds the lock
  BatchSize,       \* count of XREADGROUP
  MaxFaults,       \* bound: crashes, exceptions, failed acks and publishes
  MaxDups,         \* bound: entries an operator adds while one is in flight
  MaxLosses,       \* bound: source losses
  MaxEntries       \* bound: length of the stream when an operator adds to it

ASSUME PipelineAssumption ==
  /\ KeyOf \in [Tasks -> Keys]
  /\ Nobody \notin Workers
  /\ BatchSize \in Nat \ {0}
  /\ {MaxFaults, MaxDups, MaxLosses, MaxEntries} \subseteq Nat

VARIABLES
  db,        \* committed rows of each task
  unsent,    \* tasks committed by the API and not yet published
  stream,    \* Redis stream task.created: the task of each entry
  group,     \* the consumer group exists
  cursor,    \* last entry delivered to the group
  pel,       \* entries delivered to each worker and not acknowledged
  batch,     \* entries of the last XREADGROUP still to handle
  epr,       \* committed event_processing_records status, per worker and key
  pc,        \* where each worker is
  mine,      \* uncommitted columns of the task the worker is handling
  todo,      \* audit event the last status UPDATE obliges the worker to append
  rowLock,   \* lock on the task_masters row
  headLock,  \* lock on the head of the task's audit chain
  faults, dups, losses

redis == <<stream, group, cursor, pel>>
txn == <<mine, todo, rowLock, headLock>>
budgets == <<faults, dups, losses>>
vars == <<db, unsent, redis, batch, epr, pc, txn, budgets>>

NoTask ==
  [status |-> "none", docs |-> FALSE, sound |-> FALSE, claim |-> "none",
   draft |-> "none", report |-> "none", answer |-> FALSE, trail |-> <<>>]

Nothing == [x \in {} |-> x]

Init ==
  /\ db = [t \in Tasks |-> NoTask]
  /\ unsent = {} /\ stream = <<>> /\ group = FALSE /\ cursor = 0
  /\ pel = [w \in Workers |-> {}]
  /\ batch = [w \in Workers |-> <<>>]
  /\ epr = [w \in Workers |-> [k \in Keys |-> "none"]]
  /\ pc = [w \in Workers |-> "down"]
  /\ mine = [w \in Workers |-> Nothing]
  /\ todo = [w \in Workers |-> "none"]
  /\ rowLock = [t \in Tasks |-> Nobody]
  /\ headLock = [t \in Tasks |-> Nobody]
  /\ faults = 0 /\ dups = 0 /\ losses = 0

-----------------------------------------------------------------------------
(* The API                                                                 *)

\* create_task: the task, its documents and the task.created audit commit
\* together.  Whether it has documents, and whether the quotes of its claims
\* will be found in them, is the client's choice.
CreateTask(t) ==
  /\ db[t].status = "none"
  /\ \E docs, sound \in BOOLEAN :
       /\ sound => docs
       /\ db' = [db EXCEPT ![t] = [NoTask EXCEPT !.status = "created", !.docs = docs,
                                                 !.sound = sound, !.trail = <<"created">>]]
  /\ unsent' = unsent \cup {t}
  /\ UNCHANGED <<redis, batch, epr, pc, txn, budgets>>

\* After the commit: XADD, whose failure is only logged.
PublishTaskCreated(t) ==
  /\ t \in unsent
  /\ unsent' = unsent \ {t}
  /\ \/ stream' = Append(stream, t) /\ UNCHANGED faults
     \/ faults < MaxFaults /\ faults' = faults + 1 /\ UNCHANGED stream
  /\ UNCHANGED <<db, group, cursor, pel, batch, epr, pc, txn, dups, losses>>

-----------------------------------------------------------------------------
(* The worker's loop                                                       *)

\* A process starts (or is started again): _ensure_group with id "$".
StartWorker(w) ==
  /\ pc[w] = "down"
  /\ group' = TRUE
  /\ cursor' = IF group THEN cursor ELSE Len(stream)
  /\ pc' = [pc EXCEPT ![w] = "idle"]
  /\ UNCHANGED <<db, unsent, stream, pel, batch, epr, txn, budgets>>

\* XREADGROUP ">": the next entries nobody was given, never the pending ones.
ReadBatch(w) ==
  LET upTo == IF cursor + BatchSize < Len(stream) THEN cursor + BatchSize ELSE Len(stream)
      entries == [i \in 1 .. (upTo - cursor) |-> cursor + i]
  IN
  /\ pc[w] = "idle" /\ batch[w] = <<>>
  /\ cursor < Len(stream)
  /\ cursor' = upTo
  /\ batch' = [batch EXCEPT ![w] = entries]
  /\ pel' = [pel EXCEPT ![w] = @ \cup {entries[i] : i \in DOMAIN entries}]
  /\ UNCHANGED <<db, unsent, stream, group, epr, pc, txn, budgets>>

\* XACK after a handler that did not fail; its failure is only logged.
Acknowledge(w) ==
  /\ pc[w] = "ack"
  /\ \/ pel' = [pel EXCEPT ![w] = @ \ {Head(batch[w])}] /\ UNCHANGED faults
     \/ faults < MaxFaults /\ faults' = faults + 1 /\ UNCHANGED pel
  /\ batch' = [batch EXCEPT ![w] = Tail(@)]
  /\ pc' = [pc EXCEPT ![w] = "idle"]
  /\ UNCHANGED <<db, unsent, stream, group, cursor, epr, txn, dups, losses>>

-----------------------------------------------------------------------------
(* Transactions                                                            *)

Task(w) == stream[Head(batch[w])]
InHandler(w) == pc[w] \notin {"down", "idle", "ack"}

\* The columns f over those of g.
Overlay(f, g) == [x \in DOMAIN f \cup DOMAIN g |-> IF x \in DOMAIN f THEN f[x] ELSE g[x]]

\* The row as the worker's next statement sees it.
View(w) == Overlay(mine[w], db[Task(w)])

Write(w, columns) == mine' = [mine EXCEPT ![w] = Overlay(columns, @)]

\* Mutant: the writes of a finished transaction survive in the session.
ReleaseLocksOnly(w) ==
  /\ todo' = [todo EXCEPT ![w] = "none"]
  /\ rowLock' = [t \in Tasks |-> IF rowLock[t] = w THEN Nobody ELSE rowLock[t]]
  /\ headLock' = [t \in Tasks |-> IF headLock[t] = w THEN Nobody ELSE headLock[t]]
  /\ UNCHANGED mine

Release(w) ==
  /\ mine' = [mine EXCEPT ![w] = Nothing]
  /\ todo' = [todo EXCEPT ![w] = "none"]
  /\ rowLock' = [t \in Tasks |-> IF rowLock[t] = w THEN Nobody ELSE rowLock[t]]
  /\ headLock' = [t \in Tasks |-> IF headLock[t] = w THEN Nobody ELSE headLock[t]]

\* mark_succeeded or mark_failed, and COMMIT.
CommitAs(w, eprStatus) ==
  /\ db' = [db EXCEPT ![Task(w)] = View(w)]
  /\ epr' = [epr EXCEPT ![w][KeyOf[Task(w)]] = eprStatus]
  /\ Release(w)

\* The rows and the lock of a worker whose transaction is rolled back, and
\* the process with it: nothing catches the exception above the handler.
Die(w) ==
  /\ Release(w)
  /\ batch' = [batch EXCEPT ![w] = <<>>]
  /\ pc' = [pc EXCEPT ![w] = "down"]
  /\ UNCHANGED <<db, unsent, redis, epr, dups, losses>>

\* Mutant: audit_append reads the head without FOR UPDATE.
IgnoreHeadLock(w) == TRUE
CanLockHead(w) == headLock[Task(w)] \in {Nobody, w}
CanLockRow(w) == rowLock[Task(w)] \in {Nobody, w}

\* A step of the handler: it is at pc p and owes no audit event.
At(w, p) == pc[w] = p /\ todo[w] = "none"
Goto(w, p) == pc' = [pc EXCEPT ![w] = p]

\* audit_append of event e, with the column writes that precede it.
AuditedStep(w, p, next, e, writes) ==
  /\ At(w, p)
  /\ CanLockHead(w)
  /\ headLock' = [headLock EXCEPT ![Task(w)] = w]
  /\ Write(w, Overlay([trail |-> Append(View(w).trail, e)], writes))
  /\ Goto(w, next)
  /\ UNCHANGED <<db, unsent, redis, batch, epr, todo, rowLock, budgets>>

\* Mutant: the UPDATE has no status in its WHERE clause.
UnguardedTransition(w, p, from, to, event, next, otherwise) ==
  /\ At(w, p)
  /\ CanLockRow(w)
  /\ rowLock' = [rowLock EXCEPT ![Task(w)] = w]
  /\ Write(w, [status |-> to])
  /\ todo' = [todo EXCEPT ![w] = event]
  /\ Goto(w, next)
  /\ UNCHANGED <<db, unsent, redis, batch, epr, headLock, budgets>>

\* UPDATE task_masters SET status = to WHERE status = from: waits for the row
\* lock if the guard matches the committed row, and is checked again after.
Transition(w, p, from, to, event, next, otherwise) ==
  /\ At(w, p)
  /\ \/ /\ View(w).status = from
        /\ CanLockRow(w)
        /\ rowLock' = [rowLock EXCEPT ![Task(w)] = w]
        /\ Write(w, [status |-> to])
        /\ todo' = [todo EXCEPT ![w] = event]
        /\ Goto(w, next)
     \/ /\ View(w).status # from
        /\ Goto(w, otherwise)
        /\ UNCHANGED <<rowLock, mine, todo>>
  /\ UNCHANGED <<db, unsent, redis, batch, epr, headLock, budgets>>

\* The audit_append that follows a status UPDATE that matched.
AuditTransition(w) ==
  /\ todo[w] # "none"
  /\ CanLockHead(w)
  /\ headLock' = [headLock EXCEPT ![Task(w)] = w]
  /\ Write(w, [trail |-> Append(View(w).trail, todo[w])])
  /\ todo' = [todo EXCEPT ![w] = "none"]
  /\ UNCHANGED <<db, unsent, redis, batch, epr, pc, rowLock, budgets>>

-----------------------------------------------------------------------------
(* handle_task_created                                                     *)

Final(row) ==
  \/ row.status \in {"blocked", "published"}
  \/ row.status = "analyzed_partial" /\ row.report # "none"

\* Mutant: any record, of a failed attempt too, ends the handler.
BeginOnlyOnce(w) ==
  /\ pc[w] = "idle" /\ batch[w] # <<>>
  /\ LET row == db[Task(w)]
         done == epr[w][KeyOf[Task(w)]] # "none" \/ Final(row) IN
     /\ epr' = [epr EXCEPT ![w][KeyOf[Task(w)]] = IF done THEN "succeeded" ELSE @]
     /\ Goto(w, IF done THEN "ack"
                ELSE IF row.status = "created" THEN "advance"
                ELSE IF row.docs THEN "pipeline" ELSE "block")
  /\ UNCHANGED <<db, unsent, redis, batch, txn, budgets>>

\* begin_processing under the worker's own consumer name, then the terminality
\* checks on the committed task.  A record that succeeded, or a terminal task,
\* ends the handler; the entry is acknowledged.
Begin(w) ==
  /\ pc[w] = "idle" /\ batch[w] # <<>>
  /\ LET row == db[Task(w)]
         seen == epr[w][KeyOf[Task(w)]] IN
     \/ /\ seen = "succeeded" \/ Final(row)
        /\ epr' = [epr EXCEPT ![w][KeyOf[Task(w)]] = "succeeded"]
        /\ Goto(w, "ack")
     \/ /\ seen # "succeeded" /\ ~Final(row)
        /\ Goto(w, IF row.status = "created" THEN "advance"
                   ELSE IF row.docs THEN "pipeline" ELSE "block")
        /\ UNCHANGED epr
  /\ UNCHANGED <<db, unsent, redis, batch, txn, budgets>>

AdvanceToAnalyzing(w) ==
  LET next == IF db[Task(w)].docs THEN "pipeline" ELSE "block" IN
  Transition(w, "advance", "created", "analyzing", "analyzing", next, next)

AdvanceToBlockedNoDocs(w) ==
  Transition(w, "block", "analyzing", "blocked", "blocked", "finish", "finish")

\* Mutant: a resumed task with a report is always held.
StageAlwaysHeld(row) ==
  IF row.status \notin {"analyzed_partial", "compiling"} THEN "finish"
  ELSE IF row.report = "none" THEN "to_compiling"
  ELSE IF row.status = "compiling" THEN "to_held" ELSE "finish"

\* The 8.4 stage is entered from these reads of status and gate report.
StageAfterAnalysis(row) ==
  IF row.status \notin {"analyzed_partial", "compiling"} THEN "finish"
  ELSE IF row.report = "none" THEN "to_compiling"
  ELSE IF row.status = "analyzed_partial" THEN "finish"
  ELSE IF row.report = "approved" THEN "to_published" ELSE "to_held"

\* _run_pipeline_with_docs, up to its first stage.
RunPipelineWithDocs(w) ==
  /\ At(w, "pipeline")
  /\ Goto(w, IF View(w).status = "analyzing" THEN "extract" ELSE StageAfterAnalysis(View(w)))
  /\ UNCHANGED <<db, unsent, redis, batch, epr, txn, budgets>>

\* _run_pipeline_with_docs again, after the 8.3 stage.
EnterCompileStage(w) ==
  /\ At(w, "stage")
  /\ Goto(w, StageAfterAnalysis(View(w)))
  /\ UNCHANGED <<db, unsent, redis, batch, epr, txn, budgets>>

\* docs_loaded, run_extraction and the audits of what it created.
Extract(w) == AuditedStep(w, "extract", "verify", "claims_extracted", Nothing)

\* run_cve_lite writes version 2 of each claim once; later versions stay.
Verify(w) ==
  LET outcome == IF View(w).sound THEN "verified" ELSE "unsupported" IN
  AuditedStep(w, "verify", "to_partial", "cve_lite_completed",
    [claim |-> IF View(w).claim = "none" THEN outcome ELSE View(w).claim])

\* Mutant: the assessments run whether or not the transition happened.
AnalyzedPartialUnconditionally(w) ==
  Transition(w, "to_partial", "analyzing", "analyzed_partial", "analyzed_partial",
             "quality", "quality")

AdvanceToAnalyzedPartial(w) ==
  Transition(w, "to_partial", "analyzing", "analyzed_partial", "analyzed_partial",
             "quality", "stage")

\* Their failure is caught under a savepoint and audited like success.
RunSourceQuality(w) ==
  AuditedStep(w, "quality", "entailment", "source_quality_assessed", Nothing)
RunClaimEntailment(w) ==
  AuditedStep(w, "entailment", "stage", "entailment_checked", Nothing)

\* The result of the transition is not looked at.
AdvanceToCompiling(w) ==
  Transition(w, "to_compiling", "analyzed_partial", "compiling", "compiling",
             "compile", "compile")

\* run_compilation: draft v1, with spans for the claims that are verified now.
Compile(w) ==
  LET draft == IF View(w).claim = "verified" THEN "spans" ELSE "empty" IN
  AuditedStep(w, "compile", "gate", "draft_compiled",
    [draft |-> IF View(w).draft = "none" THEN draft ELSE View(w).draft])

Decision(row) ==
  IF row.draft = "spans" /\ row.claim = "verified" THEN "approved" ELSE "rejected"

\* run_final_answer_gate: the report is written once, the answer once, and the
\* handler goes on with the decision just computed.
RunGate(w) ==
  LET row == View(w)
      decision == Decision(row) IN
  AuditedStep(w, "gate", IF decision = "approved" THEN "to_published" ELSE "to_held",
    "final_gate_completed",
    [report |-> IF row.report = "none" THEN decision ELSE row.report,
     answer |-> row.answer \/ decision = "approved"])

AdvanceToPublished(w) ==
  Transition(w, "to_published", "compiling", "published", "published", "finish", "finish")

RevertToAnalyzedPartialWithHeld(w) ==
  Transition(w, "to_held", "compiling", "analyzed_partial", "publication_held",
             "finish", "finish")

\* The last check: a task left compiling without a report fails the entry,
\* which stays pending.
Finish(w) ==
  /\ At(w, "finish")
  /\ \/ /\ View(w).status = "compiling" /\ View(w).report = "none"
        /\ CommitAs(w, "failed")
        /\ batch' = [batch EXCEPT ![w] = Tail(@)]
        /\ Goto(w, "idle")
     \/ /\ View(w).status # "compiling" \/ View(w).report # "none"
        /\ CommitAs(w, "succeeded")
        /\ Goto(w, "ack")
        /\ UNCHANGED batch
  /\ UNCHANGED <<unsent, redis, budgets>>

\* Mutant: a failed attempt is acknowledged.
ServiceRaisesAcked(w) ==
  /\ faults < MaxFaults /\ faults' = faults + 1
  /\ todo[w] = "none"
  /\ pc[w] \in {"extract", "verify", "compile", "gate", "to_published", "to_held"}
  /\ CommitAs(w, "failed")
  /\ Goto(w, "ack")
  /\ UNCHANGED <<unsent, redis, batch, dups, losses>>

\* A service called by the handler raises.  The handler marks the record
\* failed in the same transaction and returns: what was written is committed.
ServiceRaises(w) ==
  /\ faults < MaxFaults /\ faults' = faults + 1
  /\ todo[w] = "none"
  /\ pc[w] \in {"extract", "verify", "compile", "gate", "to_published", "to_held"}
  /\ CommitAs(w, "failed")
  /\ batch' = [batch EXCEPT ![w] = Tail(@)]
  /\ Goto(w, "idle")
  /\ UNCHANGED <<unsent, redis, dups, losses>>

-----------------------------------------------------------------------------
(* What else may happen                                                    *)

\* The process is killed, or a statement fails: the transaction is gone and
\* the handler's own exception ends the process.
Crash(w) ==
  /\ pc[w] # "down"
  /\ faults < MaxFaults /\ faults' = faults + 1
  /\ Die(w)

WaitsForRow(w) ==
  /\ todo[w] = "none"
  /\ \E step \in {<<"advance", "created">>, <<"block", "analyzing">>,
                  <<"to_partial", "analyzing">>, <<"to_compiling", "analyzed_partial">>,
                  <<"to_published", "compiling">>, <<"to_held", "compiling">>} :
       pc[w] = step[1] /\ View(w).status = step[2]
  /\ ~CanLockRow(w)

WaitsForHead(w) ==
  /\ \/ todo[w] # "none"
     \/ pc[w] \in {"extract", "verify", "quality", "entailment", "compile", "gate"}
  /\ ~CanLockHead(w)

\* The holder of the row waits for the head and the holder of the head for the
\* row: the database aborts one of them.
DeadlockAbort(w) ==
  /\ \E v \in Workers \ {w} :
       /\ InHandler(v) /\ InHandler(w) /\ Task(v) = Task(w)
       /\ \/ WaitsForRow(w) /\ rowLock[Task(w)] = v /\ WaitsForHead(v) /\ headLock[Task(w)] = w
          \/ WaitsForHead(w) /\ headLock[Task(w)] = v /\ WaitsForRow(v) /\ rowLock[Task(w)] = w
  /\ Die(w)
  /\ UNCHANGED faults

Working(w, i) == \E j \in DOMAIN batch[w] : batch[w][j] = i

\* An operator finds an entry pending that no worker is at work on, and adds
\* its event again; the pending entry is acknowledged by hand.
Requeue(w, i) ==
  /\ i \in pel[w] /\ ~Working(w, i)
  /\ Len(stream) < MaxEntries
  /\ stream' = Append(stream, stream[i])
  /\ pel' = [pel EXCEPT ![w] = @ \ {i}]
  /\ UNCHANGED <<db, unsent, group, cursor, batch, epr, pc, txn, budgets>>

\* The same while the entry is being handled: it only looked stuck.
Duplicate(w, i) ==
  /\ i \in pel[w] /\ Working(w, i)
  /\ Len(stream) < MaxEntries
  /\ dups < MaxDups /\ dups' = dups + 1
  /\ stream' = Append(stream, stream[i])
  /\ UNCHANGED <<db, unsent, group, cursor, pel, batch, epr, pc, txn, faults, losses>>

\* A source-loss event makes the committed claim unverifiable, and is audited.
LoseSource(t) ==
  /\ losses < MaxLosses /\ losses' = losses + 1
  /\ db[t].claim = "verified"
  /\ headLock[t] = Nobody
  /\ db' = [db EXCEPT ![t].claim = "lost", ![t].trail = Append(@, "source_lost")]
  /\ UNCHANGED <<unsent, redis, batch, epr, pc, txn, faults, dups>>

-----------------------------------------------------------------------------
HandlerStep(w) ==
  \/ AdvanceToAnalyzing(w)
  \/ AdvanceToBlockedNoDocs(w)
  \/ RunPipelineWithDocs(w)
  \/ EnterCompileStage(w)
  \/ Extract(w)
  \/ Verify(w)
  \/ AdvanceToAnalyzedPartial(w)
  \/ RunSourceQuality(w)
  \/ RunClaimEntailment(w)
  \/ AdvanceToCompiling(w)
  \/ Compile(w)
  \/ RunGate(w)
  \/ AdvanceToPublished(w)
  \/ RevertToAnalyzedPartialWithHeld(w)
  \/ AuditTransition(w)
  \/ Finish(w)

WorkerStep(w) ==
  \/ StartWorker(w)
  \/ ReadBatch(w)
  \/ Begin(w)
  \/ HandlerStep(w)
  \/ Acknowledge(w)

Environment ==
  \/ \E t \in Tasks : CreateTask(t) \/ PublishTaskCreated(t) \/ LoseSource(t)
  \/ \E w \in Workers :
       \/ Crash(w)
       \/ ServiceRaises(w)
       \/ DeadlockAbort(w)
       \/ \E i \in pel[w] : Requeue(w, i) \/ Duplicate(w, i)

\* Everything created was handled and the workers wait for entries (or the
\* bound on the stream keeps the operator from adding any).
Quiet ==
  /\ \A w \in Workers : pc[w] = "idle" /\ batch[w] = <<>>
  /\ (\A w \in Workers : pel[w] = {}) \/ Len(stream) >= MaxEntries
  /\ \A t \in Tasks : db[t].status # "none"
  /\ unsent = {} /\ cursor = Len(stream)
  /\ UNCHANGED vars

Next == (\E w \in Workers : WorkerStep(w)) \/ Environment \/ Quiet

\* Workers are started again and take steps, and the deadlock detector runs.
\* Nothing makes the API publish, and faults are bounded by MaxFaults, not by
\* fairness.
Fairness ==
  /\ \A w \in Workers :
       /\ WF_vars(StartWorker(w)) /\ WF_vars(ReadBatch(w)) /\ WF_vars(Begin(w))
       /\ WF_vars(HandlerStep(w)) /\ WF_vars(Acknowledge(w))
  /\ WF_vars(\E w \in Workers : DeadlockAbort(w))

Spec == Init /\ [][Next]_vars
\* main.py leaves it to an operator to retry, claim or drop what stays pending
\* (lines 75-77 and 232-235).  This is one who retries it.
OperatorRetries == \A w \in Workers : WF_vars(\E i \in pel[w] : Requeue(w, i))

FairSpec == Spec /\ Fairness /\ OperatorRetries

-----------------------------------------------------------------------------
(* Properties                                                              *)

Statuses ==
  {"created", "analyzing", "blocked", "analyzed_partial", "compiling", "published"}

\* The status an audited transition leaves and the one it enters.
Edge ==
  [created |-> <<"none", "created">>,
   analyzing |-> <<"created", "analyzing">>,
   blocked |-> <<"analyzing", "blocked">>,
   analyzed_partial |-> <<"analyzing", "analyzed_partial">>,
   compiling |-> <<"analyzed_partial", "compiling">>,
   published |-> <<"compiling", "published">>,
   publication_held |-> <<"compiling", "analyzed_partial">>]

Steps ==
  {"claims_extracted", "cve_lite_completed", "source_quality_assessed",
   "entailment_checked", "draft_compiled", "final_gate_completed", "source_lost"}

Rows ==
  [status : Statuses \cup {"none"}, docs : BOOLEAN, sound : BOOLEAN,
   claim : {"none", "verified", "unsupported", "lost"},
   draft : {"none", "spans", "empty"}, report : {"none", "approved", "rejected"},
   answer : BOOLEAN, trail : Seq(DOMAIN Edge \cup Steps)]

\* The type invariant.
TypeOK ==
  /\ db \in [Tasks -> Rows]
  /\ unsent \subseteq Tasks
  /\ stream \in Seq(Tasks) /\ cursor \in 0 .. Len(stream) /\ group \in BOOLEAN
  /\ pel \in [Workers -> SUBSET (1 .. cursor)]
  /\ batch \in [Workers -> Seq(1 .. cursor)]
  /\ epr \in [Workers -> [Keys -> {"none", "failed", "succeeded"}]]
  /\ \A w \in Workers :
       /\ pc[w] \in {"down", "idle", "ack", "advance", "block", "pipeline", "stage",
                     "extract", "verify", "to_partial", "quality", "entailment",
                     "to_compiling", "compile", "gate", "to_published", "to_held",
                     "finish"}
       /\ InHandler(w) => View(w) \in Rows
       /\ ~InHandler(w) => mine[w] = Nothing /\ todo[w] = "none"
       /\ todo[w] \in DOMAIN Edge \cup {"none"}
  /\ rowLock \in [Tasks -> Workers \cup {Nobody}]
  /\ headLock \in [Tasks -> Workers \cup {Nobody}]
  /\ faults \in 0 .. MaxFaults /\ dups \in 0 .. MaxDups /\ losses \in 0 .. MaxLosses

IsTransition(e) == e \in DOMAIN Edge

\* The events of a trail that are transitions lead from none to status: the
\* first is "created", each leaves the status the one before it entered, and
\* the last enters status.
Replays(events, status) ==
  LET moves == {i \in DOMAIN events : IsTransition(events[i])} IN
  /\ 1 \in moves /\ events[1] = "created"
  /\ \A i, j \in moves : i < j /\ (\A m \in moves : ~(i < m /\ m < j)) =>
       Edge[events[i]][2] = Edge[events[j]][1]
  /\ \E i \in moves : (\A m \in moves : m <= i) /\ Edge[events[i]][2] = status

\* The committed audit trail is a walk through the task's states that ends in
\* the state the task is in, whatever failed, was redelivered or interleaved.
AuditReplaysStatus ==
  \A t \in Tasks : db[t].status # "none" => Replays(db[t].trail, db[t].status)

Positions(events, e) == {i \in DOMAIN events : events[i] = e}

\* task.source_quality_assessed and task.entailment_checked are emitted exactly
\* once per task lifetime, with the one analyzed_partial transition that comes
\* from the analysis (task_created.py:1100-1103): they are committed with it and
\* follow it at once, whatever else is appended to the trail.
AnalysisAuditedOnce ==
  \A t \in Tasks :
    LET at(e) == Positions(db[t].trail, e) IN
    /\ \A i, j \in at("analyzed_partial") : i = j
    /\ at("source_quality_assessed") = {i + 1 : i \in at("analyzed_partial")}
    /\ at("entailment_checked") = {i + 2 : i \in at("analyzed_partial")}
    /\ db[t].status \in {"compiling", "published"} => at("analyzed_partial") # {}

\* Status, gate report and answer tell one story; a task is held on an approved
\* report only if a source was lost since.
CoherentOutcome ==
  \A t \in Tasks :
    LET row == db[t] IN
    /\ row.answer <=> row.report = "approved"
    /\ row.status = "published" => row.answer
    /\ row.status = "analyzed_partial" /\ row.report = "approved" => row.claim = "lost"
    /\ row.report # "none" => row.draft # "none"
    /\ row.status = "blocked" => ~row.docs /\ row.report = "none"

\* Blocked and published are final, whatever is delivered again.
PublishedAndBlockedAreFinal ==
  [][\A t \in Tasks : db[t].status \in {"blocked", "published"} =>
       db'[t].status = db[t].status /\ db'[t].answer = db[t].answer]_vars

\* "analyzed_partial AND final_gate_reports exists for task -> terminal
\* (rejected scenario)" (task_created.py:20): a held task stays held.
HeldIsTerminal ==
  [][\A t \in Tasks : db[t].status = "analyzed_partial" /\ db[t].report # "none" =>
       db'[t].status = "analyzed_partial"]_vars

\* The dispatcher's comment: the worker's name in the record's key "does not
\* affect idempotency because the EPR idempotency_key for this consumer defaults
\* to task_id" (dispatch.py:144-148): an entry is acknowledged only for a task
\* that has its outcome.  With a key of its own for each task this holds through
\* crashes, exceptions and failed acknowledgements; where two tasks have one
\* key, the second is acknowledged for the first.
AcknowledgedIsFinal ==
  \A w \in Workers : pc[w] = "ack" => Final(db[Task(w)])

\* "Idempotent under redelivery: a second invocation on the same draft yields
\* the same decision" (final_answer_gate.py:113-115): the gate never decides
\* against the report it left.
RerunKeepsDecision ==
  [][\A w \in Workers :
       pc[w] = "gate" /\ pc'[w] \in {"to_published", "to_held"} /\ View(w).report # "none" =>
         (pc'[w] = "to_published" <=> View(w).report = "approved")]_vars

\* An operator who retries what stays pending gets every task of a delivered
\* entry to an outcome: no crash, exception or failed acknowledgement on the way
\* strands it, nor do the deadlocks of two workers that handle it at once.  An
\* outcome that was reached may be left again when one of the two finds the
\* task held already (HeldIsTerminal); one at a time, it stays
\* (ImplementsLifecycle).
DeliveredIsFinished ==
  \A t \in Tasks :
    <>(\E w \in Workers : \E i \in pel[w] : stream[i] = t) => <>Final(db[t])

-----------------------------------------------------------------------------
(* The abstract lifecycle the committed rows implement when no entry is    *)
(* handled twice at the same time (MaxDups = 0).                           *)

Outcome(row) ==
  IF row.status \in {"none", "blocked", "published"} THEN row.status
  ELSE IF row.status = "analyzed_partial" /\ row.report # "none" THEN "held"
  ELSE "pending"

Lifecycle ==
  INSTANCE TaskLifecycle WITH outcome <- [t \in Tasks |-> Outcome(db[t])],
                              answered <- [t \in Tasks |-> db[t].answer]

\* Crashes, exceptions and redeliveries are invisible: each task is created,
\* gets one outcome and keeps it.
ImplementsLifecycle == Lifecycle!Spec
=============================================================================
