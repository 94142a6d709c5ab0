--------------------------- MODULE EvidenceChecks ---------------------------
(***************************************************************************)
(* Source quality assessments and claim entailment checks of tasks that    *)
(* cite the same evidence spans, each task handled by a worker of its own  *)
(* in one transaction (READ COMMITTED).                                    *)
(*                                                                         *)
(* Locks: linking a claim to a span locks the span FOR KEY SHARE (foreign  *)
(* key), assessing it locks it FOR UPDATE; both are kept to the end of the *)
(* transaction, except that rolling back to the savepoint of the quality   *)
(* step frees what the step has locked.  Two tasks that have both linked a *)
(* span therefore block each other when they assess it, and PostgreSQL     *)
(* aborts a statement of one of them.                                      *)
(***************************************************************************)
EXTENDS Naturals, Sequences, FiniteSets

CONSTANTS
  Tasks,
  Entries,     \* claim ledger entries (versions 1 and 2 of every claim)
  Spans,       \* evidence spans; the order of numbers is that of ids
  Cites,       \* the <<entry, span>> pairs a task links, in the order it does
  Contains,    \* the <<entry, span>> where claim and quote contain each other
  Numbers,     \* the numbers in a claim or quote
  MaxFaults    \* bound: exceptions and crashes

ASSUME ChecksAssumption ==
  /\ Spans \subseteq Nat /\ IsFiniteSet(Spans)
  /\ Cites \in [Tasks -> Seq(Entries \X Spans)]
  /\ \A t, u \in Tasks : \A i \in DOMAIN Cites[t], j \in DOMAIN Cites[u] :
       Cites[t][i][1] = Cites[u][j][1] => t = u     \* an entry is of one task
  /\ Contains \subseteq Entries \X Spans
  /\ MaxFaults \in Nat

VARIABLES
  stage,   \* committed status of each task
  db,      \* committed links, assessments, checks and audit events
  pc,      \* where the handler of each task is
  todo,    \* pairs it still has to link, or spans it still has to assess
  mine,    \* what its transaction has written
  locked,  \* the spans it has locked FOR UPDATE
  read,    \* the version of each span's assessment the gate decided on
  faults

vars == <<stage, db, pc, todo, mine, locked, read, faults>>

Nothing == [links |-> {}, rows |-> {}, checks |-> {}, audits |-> {}]

\* The tables as the transaction of t sees them.
View(t) == [f \in DOMAIN Nothing |-> db[f] \cup mine[t][f]]

Link(t, pair) == [task |-> t, pair |-> pair]
PairsOf(t) == {l.pair : l \in {k \in View(t).links : k.task = t}}

\* claim_evidence_links inserted by the transaction lock their spans.
Shared(t) == {l.pair[2] : l \in mine[t].links}

Init ==
  /\ stage = [t \in Tasks |-> "analyzing"]
  /\ db = Nothing
  /\ pc = [t \in Tasks |-> "waiting"]
  /\ todo = [t \in Tasks |-> <<>>]
  /\ mine = [t \in Tasks |-> Nothing]
  /\ locked = [t \in Tasks |-> {}]
  /\ read = [t \in Tasks |-> [s \in {} |-> 0]]
  /\ faults = 0

-----------------------------------------------------------------------------
(* The transaction of a task                                               *)

\* The quality and entailment steps belong to a fresh run: a task that has
\* left analyzing resumes at the compile stage.
Begin(t) ==
  /\ pc[t] = "waiting"
  /\ IF stage[t] = "analyzing"
     THEN /\ pc' = [pc EXCEPT ![t] = "link"]
          /\ todo' = [todo EXCEPT ![t] = Cites[t]]
     ELSE /\ pc' = [pc EXCEPT ![t] = "gate"]
          /\ UNCHANGED todo
  /\ UNCHANGED <<stage, db, mine, locked, read, faults>>

\* Mutant: the locks survive the transaction.
EndKeepingLocks(t) ==
  /\ mine' = [mine EXCEPT ![t] = Nothing]
  /\ todo' = [todo EXCEPT ![t] = <<>>]
  /\ UNCHANGED locked

End(t) ==
  /\ mine' = [mine EXCEPT ![t] = Nothing]
  /\ locked' = [locked EXCEPT ![t] = {}]
  /\ todo' = [todo EXCEPT ![t] = <<>>]

Commit(t, status, next) ==
  /\ stage' = [stage EXCEPT ![t] = status]
  /\ db' = View(t)
  /\ pc' = [pc EXCEPT ![t] = next]
  /\ End(t)
  /\ UNCHANGED read

\* The worker process ends; an operator adds the pending event again.
RollBack(t) ==
  /\ pc' = [pc EXCEPT ![t] = "waiting"]
  /\ read' = [read EXCEPT ![t] = [s \in {} |-> 0]]
  /\ End(t)
  /\ UNCHANGED <<stage, db>>

Write(t, table, rows) == mine' = [mine EXCEPT ![t][table] = @ \cup rows]

-----------------------------------------------------------------------------
(* Extraction: the links                                                   *)

\* ON CONFLICT DO NOTHING: a link that is there already locks nothing.
LinkPair(t) ==
  /\ pc[t] = "link" /\ todo[t] # <<>>
  /\ Head(todo[t]) \notin PairsOf(t) =>
       \A u \in Tasks \ {t} : Head(todo[t])[2] \notin locked[u]
  /\ Write(t, "links", {Link(t, Head(todo[t]))} \ db.links)
  /\ todo' = [todo EXCEPT ![t] = Tail(@)]
  /\ UNCHANGED <<stage, db, pc, locked, read, faults>>

-----------------------------------------------------------------------------
(* Source quality                                                          *)

\* DISTINCT evidence_span_id ... ORDER BY evidence_span_id.
SpansInOrder(t) ==
  LET cited == {p[2] : p \in PairsOf(t)} IN
  CHOOSE order \in [1 .. Cardinality(cited) -> cited] :
    \A i, j \in DOMAIN order : i < j => order[i] < order[j]

\* The savepoint is opened before the spans are looked up.
StartQuality(t) ==
  /\ pc[t] = "link" /\ todo[t] = <<>>
  /\ pc' = [pc EXCEPT ![t] = "quality"]
  /\ todo' = [todo EXCEPT ![t] = SpansInOrder(t)]
  /\ UNCHANGED <<stage, db, mine, locked, read, faults>>

\* Mutant: the span is read without FOR UPDATE.
ReadSpan(t) ==
  /\ pc[t] = "quality" /\ todo[t] # <<>>
  /\ Head(todo[t]) \notin locked[t]
  /\ locked' = [locked EXCEPT ![t] = @ \cup {Head(todo[t])}]
  /\ UNCHANGED <<stage, db, pc, todo, mine, read, faults>>

\* SELECT ... FOR UPDATE OF es.
LockSpan(t) ==
  /\ pc[t] = "quality" /\ todo[t] # <<>>
  /\ Head(todo[t]) \notin locked[t]
  /\ \A u \in Tasks \ {t} : Head(todo[t]) \notin locked[u] \cup Shared(u)
  /\ locked' = [locked EXCEPT ![t] = @ \cup {Head(todo[t])}]
  /\ UNCHANGED <<stage, db, pc, todo, mine, read, faults>>

\* The assessments of a span.  The key of an assessment names its task.
On(rows, s) == {r \in rows : r.span = s}
AlreadyAssessed(t, s) == \E r \in On(View(t).rows, s) : r.by = t
Assessment(t, s, v) == [span |-> s, version |-> v, by |-> t]

\* The idempotency lookup, MAX(version_no) + 1 and the INSERT.
Assess(t) ==
  LET s == Head(todo[t])
      versions == {r.version : r \in On(View(t).rows, s)}
  IN
  /\ pc[t] = "quality" /\ todo[t] # <<>>
  /\ s \in locked[t]
  /\ \E v \in {1} \cup {w + 1 : w \in versions} :
       /\ \A w \in versions : w < v
       /\ Write(t, "rows", IF AlreadyAssessed(t, s) THEN {} ELSE {Assessment(t, s, v)})
  /\ todo' = [todo EXCEPT ![t] = Tail(@)]
  /\ UNCHANGED <<stage, db, pc, locked, read, faults>>

Audit(event, t, status) == [event |-> event, task |-> t, status |-> status]

\* The success audit is written after the savepoint is released.
FinishQuality(t) ==
  /\ pc[t] = "quality" /\ todo[t] = <<>>
  /\ Write(t, "audits", {Audit("source_quality_assessed", t, "completed")})
  /\ pc' = [pc EXCEPT ![t] = "entailment"]
  /\ UNCHANGED <<stage, db, todo, locked, read, faults>>

\* Mutant: the exception is caught without a savepoint.
QualityFailsKeepingRows(t) ==
  /\ mine' = [mine EXCEPT ![t].audits =
                @ \cup {Audit("source_quality_assessed", t, "failed")}]
  /\ locked' = [locked EXCEPT ![t] = {}]
  /\ todo' = [todo EXCEPT ![t] = <<>>]
  /\ pc' = [pc EXCEPT ![t] = "entailment"]

\* Mutant: the step is tried again from its first span.
QualityRetries(t) ==
  /\ mine' = [mine EXCEPT ![t].rows = {}]
  /\ locked' = [locked EXCEPT ![t] = {}]
  /\ todo' = [todo EXCEPT ![t] = SpansInOrder(t)]
  /\ UNCHANGED pc

\* ROLLBACK TO SAVEPOINT: the assessments and the locks of the step are gone,
\* the failure is audited and the pipeline goes on.
QualityFails(t) ==
  /\ mine' = [mine EXCEPT
       ![t].rows = {},
       ![t].audits = @ \cup {Audit("source_quality_assessed", t, "failed")}]
  /\ locked' = [locked EXCEPT ![t] = {}]
  /\ todo' = [todo EXCEPT ![t] = <<>>]
  /\ pc' = [pc EXCEPT ![t] = "entailment"]

QualityRaises(t) ==
  /\ pc[t] = "quality"
  /\ faults < MaxFaults /\ faults' = faults + 1
  /\ QualityFails(t)
  /\ UNCHANGED <<stage, db, read>>

-----------------------------------------------------------------------------
(* Claim entailment                                                        *)

\* The first of three rules that applies.
Verdict(entry, span) ==
  IF <<entry, span>> \in Contains THEN "entailed"
  ELSE IF Numbers[entry] # {} /\ Numbers[span] # {} /\ Numbers[entry] # Numbers[span]
  THEN "not_supported" ELSE "uncertain"

Check(t, p) == [task |-> t, pair |-> p, verdict |-> Verdict(p[1], p[2])]

\* A pair is checked once, as version 1.
NewChecks(t) ==
  {Check(t, p) : p \in PairsOf(t) \ {c.pair : c \in View(t).checks}}

\* The entries are the task's own: their locks are never waited for.
CheckEntailment(t) ==
  /\ pc[t] = "entailment"
  /\ mine' = [mine EXCEPT
       ![t].checks = @ \cup NewChecks(t),
       ![t].audits = @ \cup {Audit("entailment_checked", t, "completed")}]
  /\ pc' = [pc EXCEPT ![t] = "gate"]
  /\ UNCHANGED <<stage, db, todo, locked, read, faults>>

EntailmentRaises(t) ==
  /\ pc[t] = "entailment"
  /\ faults < MaxFaults /\ faults' = faults + 1
  /\ Write(t, "audits", {Audit("entailment_checked", t, "failed")})
  /\ pc' = [pc EXCEPT ![t] = "gate"]
  /\ UNCHANGED <<stage, db, todo, locked, read>>

-----------------------------------------------------------------------------
(* The gate and the end                                                    *)

\* Mutant: the oldest assessment instead of the newest.
OldestVersion(t, s) ==
  LET versions == {r.version : r \in On(View(t).rows, s)} IN
  IF versions = {} THEN 0
  ELSE CHOOSE v \in versions : \A w \in versions : v <= w

\* ORDER BY version_no DESC LIMIT 1; 0 if the span was never assessed.
LatestVersion(t, s) ==
  LET versions == {r.version : r \in On(View(t).rows, s)} IN
  IF versions = {} THEN 0
  ELSE CHOOSE v \in versions : \A w \in versions : w <= v

ReadAssessments(t) ==
  /\ pc[t] = "gate"
  /\ read' = [read EXCEPT ![t] = [s \in {p[2] : p \in PairsOf(t)} |-> LatestVersion(t, s)]]
  /\ pc' = [pc EXCEPT ![t] = "finish"]
  /\ UNCHANGED <<stage, db, todo, mine, locked, faults>>

Finish(t) ==
  /\ pc[t] = "finish"
  /\ Commit(t, "decided", "done")
  /\ UNCHANGED faults

\* An exception that no step catches: the record is marked failed and what
\* was written is committed.  The status changes before the quality step.
\* (audit_append, between the steps, raises with the database only.)
PipelineRaises(t) ==
  /\ faults < MaxFaults /\ faults' = faults + 1
  /\ \/ pc[t] = "link" /\ Commit(t, "analyzing", "waiting")
     \/ pc[t] = "gate" /\ Commit(t, "analyzed_partial", "waiting")

Crash(t) ==
  /\ pc[t] \notin {"waiting", "done"}
  /\ faults < MaxFaults /\ faults' = faults + 1
  /\ RollBack(t)

-----------------------------------------------------------------------------
(* Deadlock                                                                *)

\* The tasks whose locks the next statement of t waits for.
Blockers(t) ==
  {u \in Tasks \ {t} :
     /\ todo[t] # <<>>
     /\ \/ /\ pc[t] = "link"
           /\ Head(todo[t]) \notin PairsOf(t)
           /\ Head(todo[t])[2] \in locked[u]
        \/ /\ pc[t] = "quality"
           /\ Head(todo[t]) \notin locked[t]
           /\ Head(todo[t]) \in locked[u] \cup Shared(u)}

\* t waits for itself through other tasks: a permutation of some tasks maps
\* each of them to one it waits for.
InCycle(t) ==
  \E some \in SUBSET Tasks :
    /\ t \in some
    /\ \E next \in [some -> some] :
         /\ \A u \in some : next[u] \in Blockers(u)
         /\ \A u, v \in some : next[u] = next[v] => u = v

\* The database aborts one statement of the cycle.  In the quality step the
\* savepoint absorbs it; in extraction the handler cannot even mark the
\* record failed and the process ends.
DeadlockAbort(t) ==
  /\ InCycle(t)
  /\ IF pc[t] = "quality"
     THEN QualityFails(t) /\ UNCHANGED <<stage, db, read>>
     ELSE RollBack(t)
  /\ UNCHANGED faults

-----------------------------------------------------------------------------
TaskStep(t) ==
  \/ Begin(t)
  \/ LinkPair(t)
  \/ StartQuality(t)
  \/ LockSpan(t)
  \/ Assess(t)
  \/ FinishQuality(t)
  \/ CheckEntailment(t)
  \/ ReadAssessments(t)
  \/ Finish(t)

Failure(t) ==
  \/ QualityRaises(t)
  \/ EntailmentRaises(t)
  \/ PipelineRaises(t)
  \/ Crash(t)

AllDone ==
  /\ \A t \in Tasks : pc[t] = "done"
  /\ UNCHANGED vars

Next ==
  \/ \E t \in Tasks : TaskStep(t) \/ Failure(t) \/ DeadlockAbort(t)
  \/ AllDone

Spec == Init /\ [][Next]_vars

\* Every pending event is handled again in the end and handlers take steps.
\* A session that waits looks for a deadlock it is part of after
\* deadlock_timeout, and gets the lock it waits for before the process the
\* database has ended is back and asks for it again.
Fairness ==
  \A t \in Tasks :
    /\ WF_vars(TaskStep(t)) /\ SF_vars(LockSpan(t)) /\ SF_vars(LinkPair(t))
    /\ WF_vars(DeadlockAbort(t))

FairSpec == Spec /\ Fairness

-----------------------------------------------------------------------------
Tables ==
  [links : SUBSET [task : Tasks, pair : Entries \X Spans],
   rows : SUBSET [span : Spans, version : Nat \ {0}, by : Tasks],
   checks : SUBSET [task : Tasks, pair : Entries \X Spans,
                    verdict : {"entailed", "not_supported", "uncertain"}],
   audits : SUBSET [event : {"source_quality_assessed", "entailment_checked"},
                    task : Tasks, status : {"completed", "failed"}]]

\* Types; and a task that is not being handled owns no lock and no write.
TypeOK ==
  /\ stage \in [Tasks -> {"analyzing", "analyzed_partial", "decided"}]
  /\ db \in Tables
  /\ pc \in [Tasks -> {"waiting", "link", "quality", "entailment", "gate", "finish", "done"}]
  /\ mine \in [Tasks -> Tables]
  /\ locked \in [Tasks -> SUBSET Spans]
  /\ faults \in 0 .. MaxFaults
  /\ \A t \in Tasks : pc[t] \in {"waiting", "done"} => mine[t] = Nothing /\ locked[t] = {}

\* Assessments of every task, committed or not.
AllRows == db.rows \cup UNION {mine[t].rows : t \in Tasks}

\* Whoever assesses a span, and whatever is rolled back, no two assessments
\* of it get the same version or the same key, so that the unique indexes
\* never refuse one: the lock on the span is enough
\* (source_quality_evaluator.py:67-72).
VersionsNeverCollide ==
  \A r, q \in AllRows :
    r.span = q.span /\ (r.version = q.version \/ r.by = q.by) => r = q

\* The audit trail tells what the tables hold, whatever deadlocked, raised or
\* crashed: a task whose quality step is audited as completed has assessed
\* each span it cites, one whose step failed or never ended has assessed
\* none, and the same for the pairs of the entailment step
\* (task_created.py:292-585).
AuditTellsTheTables ==
  \A t \in Tasks :
    LET cited == {l.pair : l \in {k \in db.links : k.task = t}}
        assessed == {r.span : r \in {q \in db.rows : q.by = t}}
        checked == {c.pair : c \in {d \in db.checks : d.task = t}}
        done(e) == Audit(e, t, "completed") \in db.audits
    IN
    /\ assessed = IF done("source_quality_assessed") THEN {p[2] : p \in cited} ELSE {}
    /\ checked = IF done("entailment_checked") THEN cited ELSE {}
    /\ stage[t] # "analyzing" =>
         \A e \in {"source_quality_assessed", "entailment_checked"} :
           Cardinality({a \in db.audits : a.event = e /\ a.task = t}) = 1

\* The assessment the gate decided on is the newest there is for the span
\* when it was its task that wrote one, and never older than that one, also
\* when the gate runs in a later attempt, after other tasks have assessed the
\* same span (final_answer_gate.py:293-297: "the absolute latest").
GateReadsOwnOrNewer ==
  \A t \in Tasks : \A r \in db.rows \cup mine[t].rows :
    r.by = t /\ pc[t] \in {"finish", "done"} => read[t][r.span] >= r.version

\* Every task is decided in the end, whatever it waits for: a deadlock costs
\* a task its assessments or an attempt, never the task.
EveryTaskIsDecided == \A t \in Tasks : <>(stage[t] = "decided")
=============================================================================
