# TLA+ verification of Evidence-First

Evidence-First answers a question from a closed set of documents and publishes
the answer only if every sentence of it is backed by verified evidence. An API
process accepts tasks, documents, withdrawals and source losses; workers read
events from Redis streams and run the pipeline; PostgreSQL holds all state and
an append-only, hash-chained audit log.

This directory holds the TLA+ models of that program, the TLC instances that
check them and the TLAPS proofs about them. Paths below are relative to the
repository.

    tlc -workers 2 -config <run>.cfg <MC module>     model-check a run
    tlapm AuditChainProofs.tla                       check the proofs
    tlapm FinalAnswerGateProofs.tla
    tlapm EvidenceChecksProofs.tla
    tlapm ClaimLedgerProofs.tla
    tlapm LifecycleEventsProofs.tla
    tlapm TaskPipelineProofs.tla
    tlapm OrchestrationRunProofs.tla
    tlapm NaturalsLemmas.tla

## 1. Inventory

| Component | Keeps | Operations | Talks to | What makes it correct |
|---|---|---|---|---|
| Audit chain, `packages/shared/.../db/audit.py` | `audit_chain_heads` (next sequence number, last hash), `audit_records` | `audit_append` (init head, lock head, insert record, update head), `verify_audit_chain` | called inside every other component's transaction | committed chains verify under any interleaving; damage is found; nobody blocks for ever |
| Task intake, `routes/tasks.py` | `task_masters`, `task_documents` | `create_task` (lookup by Idempotency-Key, insert, audit, publish after commit) | audit chain; stream `task.created` | one task per key; task and audit commit together |
| Worker loop and dispatcher, `worker/app/main.py`, `dispatch.py` | consumer group, pending entries | group creation at `$`, `XREADGROUP >`, dispatch, `XACK` unless failed | streams; consumers | an entry is acknowledged only when its work is done |
| Processing records (EPR), `db/idempotency.py` | `event_processing_records`, unique per (consumer name, key) | `begin_processing`, `mark_succeeded`, `mark_failed` | consumers | a record is marked succeeded only for a finished event |
| task.created consumer, `consumers/task_created.py` | `task_masters.status` | begin, guarded transitions, the 8.3 stage (extract, verify, assess) and the 8.4 stage (compile, gate, publish or hold), resume | all services | one outcome per task; audit trail, status, report and answer agree; every delivered task is finished |
| Claim ledger: `extractor.py`, `cve_lite.py`, `compiler.py` | logical claims, versioned entries, evidence links, drafts and spans | extraction (v1), verification (v2), compilation | consumer | append-only versions; drafts cite the latest verified entry |
| Source quality, `source_quality_*.py` | versioned assessments | evaluate a target, orchestrate a task | consumer, gate | version numbers unique; replay by key |
| Claim entailment, `claim_entailment_*.py` | versioned checks per (entry, span) | check a pair, orchestrate a task | consumer, gate | as above |
| Final answer gate, `final_answer_gate.py` | gate run, `coverage_gap_statements`, `final_gate_reports`, `published_answers` v1 | `run_final_answer_gate` | consumer | nothing unsupported is published; tables agree; idempotent |
| Source loss: `routes/source_loss.py`, `consumers/source_loss.py`, `source_loss_propagator.py` | events, propagation records, new `unverifiable` versions | post a loss (publish inside the transaction), consume, propagate to claims and answers | ledger, audit chain | each claim impacted once; each answer's impact recorded |
| Withdrawal: `routes/answers.py`, its consumer, `published_answer_lifecycle.py` | answer status, lifecycle events | request, consume, apply | stream, audit chain | an answer is withdrawn and audited once; a delivered request is handled |
| Orchestration runner and source resolution, `orchestration_*.py` | runs, agent runs, candidates, resolutions, numbered events | run (one or several agents), replay, resolve candidates | mock provider | one run per key; log and tables agree; a candidate is settled once |
| Documents and storage, `routes/documents.py`, `services/storage.py` | blobs on disk, `storage_objects`, chunks, spans | upload | file system | every row has its blob |
| Read APIs, anti-hallucination report, projects, health, web UI, scripts | none | queries, single inserts | database | out of scope (section 7) |

Hard behaviours: statements of concurrent transactions interleave under READ
COMMITTED; row locks are taken in different orders; the consumer catches an
exception and *commits* what was done so far; a crash leaves an entry pending
that the loop never reads again; an acknowledgement may fail; the processing
record of `task.created` is keyed by the worker's own name, so two workers may
run one task; evidence changes between two runs of the gate; tasks that cite
the same spans lock them against each other; an entry is added before the row
it speaks of is committed; numbers are taken as MAX + 1, with a lock or without;
keys that are unique in one table are used where they are not. `PROJECT.json` lists each
hazard at its line, with the properties that watch it or the reason none does.

## 2. Modules

| Module | Models | Extends / uses |
|---|---|---|
| `AuditChain` | `audit_append` and `verify_audit_chain` | |
| `AuditChainProofs` | theorems about it | `AuditChain` |
| `FinalAnswerGate` | `run_final_answer_gate` | |
| `FinalAnswerGateProofs` | theorems about it | `FinalAnswerGate` |
| `TaskLifecycle` | what the pipeline promises about a task | |
| `TaskPipeline` | intake, stream, workers, EPR, consumer | refines `TaskLifecycle` |
| `TaskPipelineProofs` | theorems about any handling, duplicates included, and about one at a time: the refinement | `TaskPipeline` |
| `ClaimLedger` | extractor, CVE-lite, compiler and the source-loss propagator on one task's claims | |
| `ClaimLedgerProofs` | theorems about it | `ClaimLedger`, `NaturalsLemmas` |
| `AnswerLifecycle` | what withdrawals and source losses promise | |
| `LifecycleEvents` | withdrawal and source-loss API, streams, consumers, `apply_withdrawal` | refines `AnswerLifecycle` |
| `LifecycleEventsProofs` | theorems about it, the refinement included | `LifecycleEvents` |
| `EvidenceChecks` | source quality and entailment of tasks that share spans | |
| `EvidenceChecksProofs` | theorems about it | `EvidenceChecks`, `NaturalsLemmas` |
| `OrchestrationRun` | single and multi-agent runs, source resolution, mock provider | |
| `OrchestrationRunProofs` | theorems about it | `OrchestrationRun` |
| `NaturalsLemmas` | induction over sets of numbers, least and greatest members, enumerations | |
| `MC*` | TLC instances | the module named |

Operators commented "Mutant:" are deliberately wrong variants of the definition
below them. They are not part of any specification; each shows which bug the
property listed with it in `PROJECT.json` would expose.

### AuditChain

Each of the four SQL statements of `audit_append` is an action (`InitHead`,
`LockHead`, `InsertRecord`, `UpdateHead`), preceded by `Call` and followed by
more calls, `Commit` or `Rollback`, so a transaction may write several records
to several chains, as the consumers and the propagator do. `head` and `records`
are committed rows, `newHead` and `newRecs` the uncommitted versions of each
transaction, `holder` the row lock. `INSERT ... ON CONFLICT DO NOTHING` waits
for another transaction's uncommitted row; `SELECT ... FOR UPDATE` waits for
the lock and reads the version committed by then; the unique constraint
`audit_chain_seq_uq` guards the insert; the deadlock detector rolls one
transaction of a cycle back.
A chain is one value for (scope, scope id); a payload is the transaction that
wrote it; sha256 over canonical JSON is the tuple of the hashed fields, that is,
a hash without collisions. `verify_audit_chain`'s scope-id comparison is left
out: the query it checks already selects on that column.

### FinalAnswerGate

One run is one action with the seven branches of the source as disjuncts
(`NoDraft`, A `NoSpans`, C `UnverifiedSpans`, E `EntailmentBlock`, C'
`SourceQualityBlock`, W `ApprovedWithWarnings`, B `ApprovedClean`), each
concluding with the same upserts (`Conclude`). A run is atomic because it is
part of its caller's transaction; two runs of two workers are ordered by the
audit head lock the consumer takes first. Links carry what the two evidence
queries return: which entry they point to, which is the latest and in which
state, and quality and entailment of each evidence span. The evidence is fixed
over the runs of this module; what its change does is shown by `TaskPipeline`.
Reason counters, payload texts and the gate-run row itself (one constant row
per draft) are left out.

### TaskPipeline and TaskLifecycle

`db[t]` holds the committed columns of a task: status, whether it has documents
and quotes that will be found in them, the state of its claim, draft, report,
answer, and its audit trail as a sequence of event names. `mine[w]` holds the
columns the open transaction of worker `w` has written; `View(w)` is what its
next statement sees. A guarded status UPDATE (`Transition`) takes the task's row
lock only if its guard matches; the audit that follows it (`AuditTransition`)
and every other audited step take the head lock. Both are kept to the end.

Each function of `task_created.py` is an action of the same name. Decisions
taken in this abstraction:

- `Begin` merges the visibility check, `begin_processing`, the status read and
  the terminality checks: they write only the worker's own EPR row. That row
  has the worker's name in its key and a worker handles one entry at a time, so
  nobody else reads it. `has_docs` never changes after the task's creation.
- `Extract` merges `task.docs_loaded`, `run_extraction` and the audits that
  follow: the first audit takes the head lock that serialises the rest. `Verify`
  and `Compile` likewise carry the audits next to them; the one insert of the
  compiler that precedes its audit is merged into the step that holds the lock.
- Source-quality and entailment steps run under a savepoint and audit success
  and failure alike; their effect on the gate is in `FinalAnswerGate`.
- `ServiceRaises`: a Python exception of a service. The handler marks the record
  failed and returns, which commits the partial work. A database error makes
  `mark_failed` fail too; it rolls back and ends the process, as does `Crash`.
- A worker keeps its name across restarts (`WORKER_CONSUMER_NAME`). Its loop
  reads only new entries and nothing claims pending ones, so an operator adds a
  pending event again and acknowledges the old entry: `Requeue` when no worker
  is at work on it, `Duplicate` when one is after all.
- `StartWorker` creates the group at `$`, so earlier entries are skipped, and
  `PublishTaskCreated` may fail after the commit. Neither is repaired by the
  code; liveness is stated for delivered entries.
- Inserts with a foreign key to the task take a KEY SHARE lock, which does not
  conflict with the status UPDATE; they are not modelled as locks.
- `LoseSource` is the committed effect of the propagator on a verified claim.

`TaskLifecycle` has no streams, workers or transactions: a task is created, is
pending, and gets one outcome (blocked, held, published) that it keeps; an
answer appears at the latest with "published" and never with the others. The
answer may appear first, since a failing handler can commit the gate's writes
without the status. `TaskPipeline!ImplementsLifecycle` is the refinement, with
`Outcome` as the mapping.

### ClaimLedger

One task's claims, written by the pipeline (`Pipe`) and by source-loss
propagations (`Losers`) at once. `ledger` is `claim_ledger_entries` with the
parent of each version and its evidence links; `mine[w]` is what a transaction
has added, `View(w)` what it sees. Three kinds of locks make the order matter:
the propagator's FOR UPDATE on `logical_claims` (`forUpdate`), the KEY SHARE an
insert of the pipeline takes on the claim it refers to (`keyShare`), and the
audit head (`headLock`).

- The pipeline: `Extract` (version 1 of every sentence, one link per span that
  has it), `VerifyClaim` (one row of `run_cve_lite`: rows come in no order, so
  any span may decide), `SelectVerified` and `CompileSpan` (the compiler's loop,
  with spans found again by index), `RunGate`. `PipelineRaises` commits what was
  done, between steps only: inside a step only the database raises.
- The propagator: `BeginPropagation` (impact query on committed links),
  `LockClaim` in the order of ids, `SkipClaim` or `AppendUnverifiable`,
  `AuditClaim`, then `ReadAnswers` and `AuditAnswer`. The processing record keeps
  two consumers from handling one event at once. Its "failed" records for a claim
  without entry are unreachable: a claim is found through one.
- `Withdraw` is the committed effect of `LifecycleEvents` on the answer.

### LifecycleEvents and AnswerLifecycle

Requests reach the API (`RequestWithdrawal`, `CreateLoss`), which adds an entry
(`AddEntry`) and, for a loss, commits its row afterwards (`CommitLoss`, or
`LoseCommit` when the process ends in between). Workers read batches from both
streams, withdrawals first, and handle an entry in one transaction: `ResolveScope`
is its first statement, `Begin` the processing record, then `LockAnswer`,
`WriteWithdrawal`, `AuditWithdrawal` for a withdrawal, `PropagateToClaims` and
`PropagateToAnswer` for a loss, `Succeed`. The claims of a loss are one step
here; `ClaimLedger` has them one by one.

- A withdrawal holds the answer's row and waits for the audit head; a
  propagation holds the head and its record needs KEY SHARE on the answer's row.
  `DeadlockAbort` ends one of the two workers.
- An entry handled before its loss is committed is marked failed and stays
  pending; `source_loss.py:67-73` calls a crash the only remaining risk, but the
  order alone suffices. The operator's `Requeue` brings it back.
- 404 and 409 answers change no state and are guards. The lifecycle key is the
  consumer's default, the event's key. `Menu` bounds what clients ask for.

`AnswerLifecycle` has neither workers nor locks: an answer is withdrawn by one
request whose history and audit appear with it, a loss has its consequences
recorded and audited once, the claims not after the answer.

### EvidenceChecks

Tasks that cite the same spans, each in a transaction of its worker. `LinkPair`
inserts a claim-evidence link, whose foreign key locks the span FOR KEY SHARE;
`LockSpan` is the FOR UPDATE of `assess_source_quality`, `Assess` its lookup,
MAX + 1 and insert. `QualityFails` is ROLLBACK TO SAVEPOINT: rows and locks of
the step are gone, the failure is audited, the pipeline goes on. Two tasks that
have both linked a span cannot both lock it: where the comments of
`source_quality_evaluator.py` (lines 335-339) say that invocations serialise,
PostgreSQL finds a deadlock and aborts a statement of one. In the quality step
the savepoint absorbs it and the gate later misses the assessments; in
extraction the process ends and the event must be added again.

Chunk and document targets, supplied ratings, version conflicts and integrity
errors have no caller in the pipeline and are left out. Entries belong to one
task, so the entailment step's locks never wait and it is one action.

### OrchestrationRun

A caller makes one call in a transaction of its own: a single-agent run, a
multi-agent run or a resolution pass. `src/` has no caller but the tests; commit,
rollback and retry are the contract of the docstrings ("the caller owns the
transaction"). A run is named by its idempotency key; there is one tenant. An
`agentRuns` row stands for snapshot, messages, invocation, usage and output of
an agent, all written together.

- `Replay` answers from the rows of the key's run, by the kind of the request and
  not of the run: `ReplaySingle` names one agent run of it, the first by creation
  time and id, and that row's error code; `ReplayMulti` names all of them, those
  that failed and one error code of theirs. Rows of one transaction share their
  creation time and ids are random, so "first" is any of them. `AcceptRun` looked
  up without a lock, so `InsertRun` may wait for another transaction and meet its
  key (`IntegrityError`), after which the retry replays.
- A single-agent run is private to its transaction after `InsertRun` and is one
  action; of a multi-agent run every agent is one (`RunAgent`).
- A pass reads candidates and the next event number once (`BeginPass`), then
  replays, skips or resolves each (`StartResolution`, `InsertResolution`,
  `CompleteResolution`). A pass that commits in between takes the numbers, and the
  unique index on (run, number) refuses the other's first event. That index is
  all that keeps two passes under different keys from resolving one candidate
  twice; it also refuses passes over disjoint outputs of one run.
- Candidates of the mock provider never carry a document marker, so "resolved"
  is unreachable for them.

## 3. Runs

| Run | Instance and bounds | Shows |
|---|---|---|
| `audit_chain` | 2 transactions, 2 chains, chains up to 3 records (`MaxRecords`) | `ChainsVerify`, `NoUniqueViolation`, `VerifyRejectsDamage`, `AppendsEnd` |
| `final_answer_gate` | drafts of 0 to 2 spans, 0 to 2 links a span, up to 2 evidence spans, `MaxRuns` 2 | `PublishedIsSupported`, `ReportGapsAnswerAgree`, `ReasonIsHighestPriority`, `OneGapPerSpanAndAxis`, `RerunChangesNothing` |
| `pipeline_duplicates` | 1 task, 2 workers, `MaxFaults` 2, `MaxDups` 1, `MaxLosses` 1, `FairSpec` | coherence of audit trail, status, report and answer with two workers on one task, final outcomes, and `DeliveredIsFinished` through their deadlocks |
| `pipeline_redelivery` | 1 task, 2 workers, `MaxFaults` 3, `MaxLosses` 1, no duplicates | `AcknowledgedIsFinal`, refinement of `TaskLifecycle` |
| `claim_ledger` | 2 claims, 3 spans of which one is misquoted, 2 losses, 2 propagators and the pipeline, `MaxFaults` 3 | versions form a chain, losses are recorded once, nothing outdated is published |
| `lifecycle_events` | 1 answer shown by 2 spans, 2 keys, `MaxRequests` 2, 2 workers, `MaxFaults` 1, `MaxEntries` 3 | refinement of `AnswerLifecycle`, `AcknowledgedIsDone`, `CommittedLossIsEnqueued`, `DeliveredIsHandled` |
| `evidence_checks` | 3 tasks, 2 spans, 5 entries, `MaxFaults` 1 | `VersionsNeverCollide`, `AuditTellsTheTables`, `GateReadsOwnOrNewer`, `EveryTaskIsDecided` |
| `orchestration_run` | 2 callers of runs with up to 2 agents, 3 resolution passes, `MaxFaults` 1 | `LogTellsTheRun`, `CallersAreToldTheTables`, `ResolvedWhileEligible` |
| `held_is_terminal` | 1 task, 2 workers, 2 faults, 1 duplicate | a violation (section 6) |
| `gate_rerun` | as above with 1 source loss | a violation (section 6) |
| `key_collision` | 2 tasks with one key, 1 worker, no fault | a violation (section 6) |
| `compile_rerun` | as `claim_ledger` | a violation (section 6) |

Why the bounds are enough. Audit: two transactions on two chains are the
smallest instance with a lock cycle, and three records give a first, a middle
and a last row. Gate: priorities need two axes on one span and on two different
spans, freshness needs a current link beside an outdated one; a third run
starts in the state in which the second did. Pipeline: duplicates concern one task; two workers reach every
order of row lock and head lock, the cycles included; two faults allow a partial
commit and a crash beside the duplicate, and three, where entries are only
delivered again, a failed acknowledgement as well. Tasks share no row, so a second
task matters only where they share a key, which is the run `key_collision`.
`MaxEntries` bounds what an operator adds; `BatchSize` 2 instead of 10 leaves
entries behind a failing one in the batch, which is the case that matters.

Ledger: one loss touches one claim and the other both, so propagations meet on
a claim in either order; a claim in two spans, one misquoted, has both outcomes
of its verification; three faults suffice for a partial commit on each side and
a crash. Lifecycle events: both kinds of request, equal and different keys and
two workers give every meeting on record, answer row and head; three entries
leave room for one addition by the operator beside two requests. Evidence
checks: two tasks that cite two spans in opposite orders are the smallest lock
cycle, the third extends it and writes a version between the others'; with two
faults (46 617 states) the properties hold as well. Orchestration: the requests
of `Menu` share a key between kinds of run, exceed budgets under both policies,
inject an error in a first or second agent, and pass over the run with and
without a bound, a scope and a second attempt at failed candidates.

Deadlock checking is on in every run. `Finished` and `Quiet` are the states in
which the bounded workload is over and the program waits for more.
`claim_ledger` and `compile_rerun` use symmetry of the propagators: all of their
properties are safety properties and none names a propagator.

## 4. Fairness

`AuditChain`: statements of an open transaction are executed (weak fairness);
waiters for a row lock are served (strong fairness, PostgreSQL queues them);
the deadlock detector runs (weak). No caller has to begin an append, and any
transaction may fail at any point, for ever.

`TaskPipeline`: a worker that is down is started again, reads when there is
something to read and takes its steps; the deadlock detector runs. Without the
detector `DeliveredIsFinished` fails: two workers with an entry of one task each
hold the lock the other waits for. `OperatorRetries` is a condition on people and
not on the code: `main.py` (lines 75-77 and 232-235) leaves a failed entry pending
for an operator to retry, claim or drop, and nothing else reads it again. What
`DeliveredIsFinished` says is therefore what a retry is worth: if pending entries
are added again, every delivered task reaches an outcome; one that is dropped has
no such promise. `MaxEntries` bounds what is
added and is large enough: an entry there is no room for would strand its task and
the property would fail. The API's publish gets no fairness: it is attempted once. Faults
are limited by `MaxFaults`, not by fairness: a handler that fails every time
finishes nothing.

`LifecycleEvents`: the same for its workers, the deadlock detector and the
operator, and an API handler finishes the request it began, by failing perhaps.
`DeliveredIsHandled` speaks of entries that were delivered, whose loss is
committed and that the operator has room to add again.

`EvidenceChecks`: handlers take steps and a pending event is handled again; a
waiter is granted its lock before a process the database has ended is back and
asks for it again (strong fairness of `LockSpan` and `LinkPair`: restarting and
requeueing take an operator, a lock queue does not); every session that is part
of a cycle may be the one to detect it.

`ClaimLedger` and `OrchestrationRun` have no liveness property. Losses on one
task are retried by the operator as in `LifecycleEvents`; nothing in `src/`
calls the orchestration services, so whether a lost call is repeated is not for
this code to say.

## 5. Proofs

*AuditChain*, for any number of transactions and chains and chains of any
length. `ChainsVerify` is not inductive: it says nothing of uncommitted rows.
The inductive invariant `IInv` of `AuditChainProofs` adds that every
transaction's view of a chain is *good* (its records are numbered 1 to next - 1,
each linked to its predecessor, the head holding the last hash), that only the
holder of a head's lock has a view different from the committed one, and that
what `LockHead` read is still the holder's view when it inserts. `AppendKeepsGood`
is the step on data, `NonHolderSeesCommitted` the step on locks, and one lemma
per action puts them together. From it follow `TypeCorrect`,
`CommittedChainsVerify` and `SequenceNumbersUnique`: the row lock alone keeps
sequence numbers unique, the database's constraint is a second line.
`DamageIsRejected` needs no more: the numbers of a good chain have no gap, so a
missing row leaves one at its successor, and a replaced payload no longer has its
hash.

*FinalAnswerGate*, for any finite set of spans and any sets of links. The seven
branches are shown to be a decision procedure: whichever is enabled, decision,
reason and gaps are functions of the links (`BranchDecides`). `IInv` says that
whatever is stored is that decision and those gaps. From it follow
`OnlySupportedIsPublished`, `TablesAgree`, `PriorityIsKept` and
`RedeliveryIsIdempotent`; the last counts the gaps newly inserted, hence the facts
about finite sets. `OneGapEach` counts all stored gaps and needs that two gaps of
one span and axis are the same gap.

*EvidenceChecks*, for any tasks, spans and citations. `VersionsNeverCollide`
speaks of uncommitted assessments too; to be inductive it needs that a
transaction's uncommitted rows are its own and on spans it has locked
(`OwnAndLocked`) and that a span is locked by one task at most (`Exclusive`). Then
the rows a transaction sees of a span it has locked are all there are, and MAX + 1
is free (`AssessIInv`). The effect of every other step on rows and locks is one
of three, keeping, dropping or committing them, with a lemma each; the savepoint
is an instance of dropping, which is why freeing its locks early does no harm.
The theorem is `NoVersionCollides`. `AuditTellsTheTables` and `GateReadsOwnOrNewer`
speak of where a task is when it ends; their invariant `Tells` says of every place of
its handler what a task has left by then, committed or not (`Phase`): nothing but
links before the quality step, assessed and still listed spans together the cited
ones during it (`SpansEnumerated`: the list the lookup orders has each of them), one
audit with the matching rows after each step, and, once committed, all of it. What
another task does leaves this alone (`OthersTell`), since a task writes rows that
name it (`OwnRows`) and entries belong to one task, so the check that a pair has
been checked never finds another task's. The gate reads the greatest version, which a
finite set of versions has (`LatestIsNewest`), of the spans the task has assessed,
which are cited. From it follow `AuditIsTrue`, `GateNeverReadsOlder` and `TypeCorrect`.

*ClaimLedger*, for any claims, spans, losses and consumers, and any partial
commits, crashes and deadlocks. `LedgerIsAChain` speaks of committed entries only; its
`IInv` asks of every transaction that the committed entries of a claim together
with its own are *good* (versions 1 to n, each superseding the one before, a lost
one at the end: `Views`), that whoever has uncommitted entries of a committed claim
has it locked, a propagation with FOR UPDATE and the pipeline by the key-share lock
of its inserts (`PipeOwns`, `LoserOwns`), and that the two locks exclude each other
(`Locks`). So at most one transaction has entries of a claim that are not committed
(`OneWriter`), and a commit makes that transaction's view the committed one. `Reading`
adds that what a propagation read under its lock still holds when it appends; the
verifier's version 2 is only ever the second (`VerifyClaimIInv`). Steps that write or
lock have a lemma each, the others one of four effects. From it follow
`CommittedVersionsChain` (with a bijection between entries and versions for the
cardinality), `LockKeepsVersionFree` and `LostStaysLost`.

What the ledger, its records, its audits and the answers say of each other needs a
second invariant (`AuditHeadInvariant`, over a first one on types). A propagation
writes entry, record and audit of a claim in three statements, so they go together in
its uncommitted rows up to the one claim it is at, and a transaction that has a lost
entry to commit holds the head of the audit chain; the pipeline holds it from the
gate's verdict to its commit. Hence no loss is committed between the verdict and the
answer, nor an answer between the propagator's unlocked read and its commit. The
compiler links the entries it selects, at the indices of a sequence: that there is
one, and that the propagator's list of claims without its first is again one, are
inductions over data, done with the well-ordering of the numbers in
`NaturalsLemmas`. From it follow `LossRecordedOnce`, `AnswerCannotSlipIn`,
`AnswerIsCurrent` and `TypeCorrect`.

*LifecycleEvents*, for any answers, losses, workers, requests and keys. The
processing record of an event's key admits one transaction at a time, and that one
found it not succeeded; so what it is about to commit is not committed yet
(`Written`, `SucceededIsDone`), and what it has written is what its step in the handler says
(`StageWrites`). A withdrawal holds the answer's row from when it saw it published
to its end (`Withdraws`), so nobody else withdraws it. Every commit is then one
step of `AnswerLifecycle` and every other step a stutter (`Refinement`). From the
same invariant follow `AcknowledgedIsAlwaysDone`, `CommittedLossIsAlwaysEnqueued`
and `TypesHold`.

*TaskPipeline*, for any tasks, workers and entries, duplicates handled at once
included. `IInv` of `TaskPipelineProofs` says that the row a worker's next statement
sees is a *good* row (its trail is a walk that ends in its status, draft, report and
answer fit it) but for the one transition it has made and not audited yet; that
it is a later version of the committed row; and that it has what the rest of the
handler relies on, a draft at the gate for instance. The row lock of a transition and
the head lock of an audit make another's commit harmless to it: whoever has written
the row keeps the others from committing a change of it. From it follow
`TrailReplaysStatus`, `AnalysisIsAuditedOnce`, `OutcomeIsCoherent`, `OutcomeIsFinal`
and `TypesHold`.

The second part of `TaskPipelineProofs` assumes `OneAtATime`: no operator adds an
entry of a task that is being handled. The program takes that for granted, and the
run `held_is_terminal` shows that without it an outcome is left again. Tasks may
share an idempotency key, as clients choose it. A task then has at most one entry
that may still be handled (`OneLiveEntry`), so one worker at a time is at work on it,
and its committed row has no outcome yet; a commit gives it one at most. A record
that succeeded is of a key under which some task has its outcome
(`SucceededIsFinal`). From it follow, through crashes, exceptions, failed
acknowledgements and redeliveries, the refinement of `TaskLifecycle` (`Refinement`)
and `AcknowledgedHasOutcome`: an entry is acknowledged only when some task under its
key has an outcome. That is as much as the code gives with the keys it accepts: where
two tasks share one, the other may be acknowledged untouched (`key_collision`); where
each task has its own, `AcknowledgedIsFinal` holds.

*OrchestrationRun*, for any callers, requests, agents and citations. A pass reads
the next event number and which candidates are eligible without a lock, and nothing
but unique indexes orders it with others. `IInv` of `OrchestrationRunProofs` has
three parts.

- The log of a committed run has the numbers 0 to n - 1 once each and tells its
  tables (`Committed`, `Tells`, `Ended`); every resolution has its two events, and
  every started event its resolution.
- The uncommitted events of a pass have the numbers from n on (`PassNumbers`): they
  continue the log committed by now, so nobody has committed an event of the run
  since the pass read it, and what was eligible then still is (`PassRows`,
  `AtHand`). Its first event took n because nobody held that number
  (`NextIsFree`), so no run has uncommitted events of two callers (`Apart`).
- The rows of a run that is being executed have a key no committed run has
  (`Executing`, `NewRun`); nobody else can write to a run he cannot see.

A commit then joins two logs that fit (`Joins`) and, by `Apart`, leaves what the
other callers rely on alone (`PhaseKept`). A pass that continues after a `started`
event it did not insert has met one committed under its key; that event's
resolution is committed too, under the same key, so the insert that follows is
refused. From it follow `LogIsTheTruth`, `CallersKnow`, `OnlyEligibleIsResolved`
and `TypeCorrect`.

Assumed: the `ASSUME`s on constants (`AuditAssumption`, `GateAssumption`,
`ChecksAssumption`, `LedgerAssumption`, `EventsAssumption`, `PipelineAssumption`,
`OrchestrationAssumption`), which the runs evaluate, the collision-free hash, and `OneAtATime` where a theorem
names it.

*NaturalsLemmas*: the library's induction theorems take an operator as a parameter,
which the provers do not instantiate. Induction is stated here of a *set* of numbers
that has 0 and the successor of each member (`SetInduction`), from the well-ordering
of the numbers; a greatest member and an increasing enumeration of a finite set of
numbers follow.

Only model-checked: liveness (`AppendsEnd`, `DeliveredIsFinished`,
`DeliveredIsHandled`, `EveryTaskIsDecided`), since fairness and ENABLED are beyond
this prover. Every other property of a passing run is a theorem.

## 6. Disagreements between the code and its documentation

- **A held task is not terminal** (`held_is_terminal`). `task_created.py:20`
  calls "analyzed_partial AND final_gate_reports exists" terminal. The report is
  read before the compile stage waits for locks (line 1105); a second worker on
  the same task then finds `analyzed_partial` again, moves it to `compiling`, and
  an exception after that commits it. The entry stays pending; added again, the task
  is resumed, unless the worker that reads it is the one whose record succeeded: it
  acknowledges the entry and the task stays `compiling`.
- **A rerun of the gate may decide differently** (`gate_rerun`).
  `final_answer_gate.py:113-115` promises the same decision for the same draft.
  The decision is computed afresh while the first report is kept, and the caller
  follows the new one: after a source loss a task with an approving report and an
  answer is reverted as held.
- **Two tasks, one key** (`key_collision`). `dispatch.py:144-148` argues from a
  key that defaults to the task id; `tasks.py:246` and `262` send the client's
  Idempotency-Key instead, unique per project at most. The second task is
  acknowledged as already succeeded and never processed.
- **A rerun of the compiler mixes claims** (`compile_rerun`). `compiler.py:21`
  promises spans 1:1 with verified claims, lines 42-44 that a rerun is a no-op.
  A span is found again by its index and keeps its text, while the verified
  claims are selected afresh (line 358): after a partial commit and a source loss
  of the first claim its span is linked to the next claim's entry, the gate finds
  every span backed, and the text of the lost claim is published.

Met while modelling, without a run of their own:

- `source_loss_propagator.py:8-11` describes propagation over what the ledger
  holds. Links of a pipeline transaction that is still open are not visible: a
  loss at that moment records "no claims impacted" and the answer is published.
- Migration `0011_orchestration_schema.sql:279-286` has every status transition
  in the event log; pending to running and running to completed append none.
- A pass repeated under its key after `max_candidates` cut it short resolves
  further candidates, while `PHASE_ORCH_MULTI_B_PRE.md:424-426` has a second pass
  under the key insert nothing.
- A replay need not tell what the first call told, where
  `PHASE_ORCH_RUNNER_PRE.md:1070-1071` has the same observable logical outcome. A
  single run that exceeded its budget returned an error code, its replay returns
  none. A single call on the key of a multi-agent run names any one agent run,
  perhaps one that succeeded, without an error, in a run that failed. A multi-agent
  replay with two failures may give the other one's code. `CallersAreToldTheTables`
  holds of each answer what that kind of answer does say.
- `overflow_policy` "warn" stops a single-agent run and lets a multi-agent run go
  on.
- The locks of `source_quality_evaluator.py:335-339` do not serialise (section 2,
  EvidenceChecks).

## 7. Not modelled

- *Read APIs and the anti-hallucination report.* They change no state. The report
  is a dozen SELECTs, each with a snapshot of its own, and may mix two states of
  a task; `PHASE_8_8B_REPORT_PRE.md:81` says so and promises nothing else, so there
  is no property to state.
- *Documents and storage.* An upload writes rows nobody else updates; a blob left
  without a row is found again by its hash.
- *Several tasks under one loss.* A propagation then locks the audit heads of
  several tasks, and two of them may deadlock; `AuditChain` has that cycle
  (`AppendsEnd`), the claims of two tasks share nothing else.
- *Intake's lookup by Idempotency-Key.* It writes nothing; two requests that both
  miss it are two tasks with one key (`key_collision`).
- *Parts without a caller*: assessment of chunks and documents, supplied ratings,
  superseded answers, the provider registry.
- The stream's MAXLEN trimming needs more entries than an instance can hold.
  Malformed events are rejected before any state is touched. Text of payloads and
  audit messages, hashes and redaction are left out. Web UI, scripts, settings
  and schemas have no behaviour of their own.

## 8. Plan

The components with state that others touch are modelled, and every safety and
refinement property a passing run checks is proved. What could be added, in this
order:

1. An abstract specification of one claim's history (verified, unsupported or lost,
   and lost for good), with `ClaimLedger` shown to implement it; it would say in
   one property what `LedgerIsAChain` and `SourceLostIsLast` say in two.
2. The like for a run of `OrchestrationRun`: a log to which one caller at a time
   appends.
