----------------------- MODULE EvidenceChecksProofs -----------------------
(***************************************************************************)
(* For any tasks, spans and citations, and any deadlocks, exceptions and   *)
(* crashes: two assessments of a span never get one version, the audit     *)
(* trail tells what the tables hold, and the gate of a task never decides  *)
(* on an assessment older than its own.                                    *)
(*                                                                         *)
(* Versions: a row a transaction has not committed is on a span it has     *)
(* locked, and no span is locked by two, so the versions a transaction     *)
(* sees of a span it has locked are all there are (IInv).                  *)
(*                                                                         *)
(* Audits: what a task has left, committed or not, depends on where its    *)
(* handler is, and nothing another task commits is about it (Tells).       *)
(***************************************************************************)
EXTENDS EvidenceChecks, NaturalsLemmas, FunctionTheorems, SequenceTheorems, TLAPS

Fields == {"links", "rows", "checks", "audits"}

\* What the steps take for granted of the tables and the lock table.
Shape ==
  /\ DOMAIN db = Fields
  /\ DOMAIN mine = Tasks /\ \A t \in Tasks : DOMAIN mine[t] = Fields
  /\ DOMAIN locked = Tasks

Numbered == \A r \in AllRows : r.version \in Nat

\* An uncommitted assessment is its task's own, on a span the task has locked.
OwnAndLocked == \A t \in Tasks : \A r \in mine[t].rows : r.by = t /\ r.span \in locked[t]

\* FOR UPDATE excludes FOR UPDATE.
Exclusive == \A t, u \in Tasks : \A s : s \in locked[t] /\ s \in locked[u] => t = u

IInv == Shape /\ Numbered /\ OwnAndLocked /\ Exclusive /\ VersionsNeverCollide

-----------------------------------------------------------------------------
(* The effects a step can have on assessments and locks                    *)

Keeps ==
  /\ db'.rows = db.rows
  /\ \A t \in Tasks : mine'[t].rows = mine[t].rows
  /\ locked' = locked

\* Task t loses its uncommitted assessments and its locks.
Drops(t) ==
  /\ db'.rows = db.rows
  /\ \A u \in Tasks : mine'[u].rows = IF u = t THEN {} ELSE mine[u].rows
  /\ \A u \in Tasks : locked'[u] = IF u = t THEN {} ELSE locked[u]

\* Task t commits its assessments and frees its locks.
Commits(t) ==
  /\ db'.rows = db.rows \cup mine[t].rows
  /\ \A u \in Tasks : mine'[u].rows = IF u = t THEN {} ELSE mine[u].rows
  /\ \A u \in Tasks : locked'[u] = IF u = t THEN {} ELSE locked[u]

LEMMA InitIInv == Init => IInv
  BY DEF Init, IInv, Shape, Numbered, OwnAndLocked, Exclusive, VersionsNeverCollide,
         AllRows, Nothing, Fields

\* A step that neither writes an assessment nor locks a span.
LEMMA KeepsIInv ==
  ASSUME IInv, Shape', Keeps
  PROVE  IInv'
<1>1. AllRows' = AllRows
  BY DEF AllRows, Keeps
<1>2. Numbered' /\ VersionsNeverCollide'
  BY <1>1 DEF IInv, Numbered, VersionsNeverCollide
<1>3. OwnAndLocked' /\ Exclusive'
  BY DEF IInv, OwnAndLocked, Exclusive, Keeps
<1> QED
  BY <1>2, <1>3 DEF IInv

\* A rollback, of the transaction or to the savepoint.
LEMMA DropsIInv ==
  ASSUME IInv, Shape', NEW t \in Tasks, Drops(t)
  PROVE  IInv'
<1>1. AllRows' \subseteq AllRows
  BY DEF AllRows, Drops
<1>2. Numbered' /\ VersionsNeverCollide'
  BY <1>1 DEF IInv, Numbered, VersionsNeverCollide
<1>3. OwnAndLocked' /\ Exclusive'
  BY DEF IInv, OwnAndLocked, Exclusive, Drops
<1> QED
  BY <1>2, <1>3 DEF IInv

LEMMA CommitsIInv ==
  ASSUME IInv, Shape', NEW t \in Tasks, Commits(t)
  PROVE  IInv'
<1>1. AllRows' = AllRows
  BY DEF AllRows, Commits
<1>2. Numbered' /\ VersionsNeverCollide'
  BY <1>1 DEF IInv, Numbered, VersionsNeverCollide
<1>3. OwnAndLocked' /\ Exclusive'
  BY DEF IInv, OwnAndLocked, Exclusive, Commits
<1> QED
  BY <1>2, <1>3 DEF IInv

\* FOR UPDATE of a span no other task has locked.
LEMMA LockSpanIInv ==
  ASSUME IInv, NEW t \in Tasks, LockSpan(t)
  PROVE  IInv'
<1> DEFINE s == Head(todo[t])
<1>1. /\ UNCHANGED <<db, mine>>
      /\ locked' = [locked EXCEPT ![t] = @ \cup {s}]
      /\ \A u \in Tasks \ {t} : s \notin locked[u]
  BY DEF LockSpan
<1>2. \A u \in Tasks : locked'[u] = IF u = t THEN locked[u] \cup {s} ELSE locked[u]
  BY <1>1 DEF IInv, Shape
<1>3. AllRows' = AllRows
  BY <1>1 DEF AllRows
<1>4. Shape' /\ Numbered' /\ VersionsNeverCollide'
  BY <1>1, <1>3 DEF IInv, Shape, Numbered, VersionsNeverCollide
<1>5. OwnAndLocked'
  BY <1>1, <1>2 DEF IInv, OwnAndLocked
<1>6. Exclusive'
  BY <1>1, <1>2 DEF IInv, Exclusive
<1> QED
  BY <1>4, <1>5, <1>6 DEF IInv

\* An assessment is written on a locked span: what the transaction sees of it
\* is all there is, so the new version is above every other.
LEMMA AssessIInv ==
  ASSUME IInv, NEW t \in Tasks, Assess(t)
  PROVE  IInv'
<1> DEFINE s == Head(todo[t])
           seen == On(View(t).rows, s)
           versions == {r.version : r \in seen}
           added(v) == IF AlreadyAssessed(t, s) THEN {} ELSE {Assessment(t, s, v)}
<1>1. PICK v \in {1} \cup {w + 1 : w \in versions} :
        /\ \A w \in versions : w < v
        /\ mine' = [mine EXCEPT ![t]["rows"] = @ \cup added(v)]
  BY DEF Assess, Write
<1>2. s \in locked[t] /\ UNCHANGED <<db, locked>>
  BY DEF Assess
<1>3. View(t).rows = db.rows \cup mine[t].rows
  BY DEF View, Nothing
<1>4. \A r \in AllRows : r.span = s => r \in seen
  BY <1>2, <1>3 DEF AllRows, On, IInv, OwnAndLocked, Exclusive
<1>5. PICK new : new = added(v)
  OBVIOUS
<1>6. /\ \A u \in Tasks : mine'[u].rows = IF u = t THEN mine[u].rows \cup new
                                                  ELSE mine[u].rows
      /\ Shape'
  BY <1>1, <1>2, <1>5 DEF IInv, Shape, Fields
<1>7. AllRows' = AllRows \cup new
  <2>1. db'.rows = db.rows
    BY <1>2
  <2>2. \A r : r \in AllRows <=> r \in db.rows \/ \E u \in Tasks : r \in mine[u].rows
    BY DEF AllRows
  <2>3. \A r : r \in AllRows' <=> r \in db'.rows \/ \E u \in Tasks : r \in mine'[u].rows
    BY DEF AllRows
  <2>4. \A r : r \in AllRows' <=> r \in AllRows \/ r \in new
    BY <1>6, <2>1, <2>2, <2>3
  <2> QED
    BY <2>4
<1>8. v \in Nat
  <2>1. \A r \in seen : r.version \in Nat
    BY <1>3 DEF On, IInv, Numbered, AllRows
  <2> QED
    BY <1>1, <2>1
<1>9. Numbered'
  BY <1>5, <1>7, <1>8 DEF IInv, Numbered, Assessment
<1>10. OwnAndLocked' /\ Exclusive'
  <2>1. \A r \in new : r.by = t /\ r.span = s
    BY <1>5 DEF Assessment
  <2>2. ASSUME NEW u \in Tasks, NEW r \in mine'[u].rows
        PROVE  r.by = u /\ r.span \in locked[u]
    <3>1. r \in mine[u].rows \/ (u = t /\ r \in new)
      BY <1>6
    <3> QED
      BY <1>2, <2>1, <3>1 DEF IInv, OwnAndLocked
  <2>3. OwnAndLocked'
    BY <1>2, <2>2 DEF OwnAndLocked
  <2> QED
    BY <1>2, <2>3 DEF IInv, Exclusive
<1>11. VersionsNeverCollide'
  <2>1. CASE AlreadyAssessed(t, s)
    BY <1>5, <1>7, <2>1 DEF IInv, VersionsNeverCollide
  <2>2. CASE ~AlreadyAssessed(t, s)
    <3>1. \A r \in AllRows : r.span = s => r.by # t
      BY <1>4, <2>2 DEF AlreadyAssessed
    <3>2. \A r \in AllRows : r.span = s => r.version # v
      <4>1. ASSUME NEW r \in AllRows, r.span = s
            PROVE  r.version < v /\ r.version \in Nat
        BY <1>1, <1>4, <4>1 DEF IInv, Numbered
      <4> QED
        BY <1>8, <4>1
    <3>3. AllRows' = AllRows \cup {Assessment(t, s, v)}
      BY <1>5, <1>7, <2>2
    <3> QED
      BY <3>1, <3>2, <3>3 DEF IInv, VersionsNeverCollide, Assessment
  <2> QED
    BY <2>1, <2>2
<1> QED
  BY <1>6, <1>9, <1>10, <1>11 DEF IInv

-----------------------------------------------------------------------------
(* Every step has one of these effects                                     *)

LEMMA WriteKeeps ==
  ASSUME IInv, NEW t \in Tasks, NEW table \in Fields \ {"rows"}, NEW rows,
         Write(t, table, rows), UNCHANGED <<db, locked>>
  PROVE  Shape' /\ Keeps
  BY DEF IInv, Shape, Write, Keeps, Fields

LEMMA QualityFailsDrops ==
  ASSUME IInv, NEW t \in Tasks, QualityFails(t), UNCHANGED db
  PROVE  Shape' /\ Drops(t)
  BY DEF IInv, Shape, QualityFails, Drops, Fields

LEMMA RollBackDrops ==
  ASSUME IInv, NEW t \in Tasks, RollBack(t)
  PROVE  Shape' /\ Drops(t)
  BY DEF IInv, Shape, RollBack, End, Drops, Nothing, Fields

LEMMA CommitCommits ==
  ASSUME IInv, NEW t \in Tasks, NEW status, NEW next, Commit(t, status, next)
  PROVE  Shape' /\ Commits(t)
  BY DEF IInv, Shape, Commit, End, View, Commits, Nothing, Fields

LEMMA TaskStepIInv ==
  ASSUME IInv, NEW t \in Tasks, TaskStep(t)
  PROVE  IInv'
<1>1. CASE Begin(t) \/ StartQuality(t) \/ ReadAssessments(t)
  <2>1. UNCHANGED <<db, mine, locked>>
    BY <1>1 DEF Begin, StartQuality, ReadAssessments
  <2>2. Shape' /\ Keeps
    BY <2>1 DEF IInv, Shape, Keeps
  <2> QED
    BY <2>2, KeepsIInv
<1>2. CASE LinkPair(t)
  <2>1. Shape' /\ Keeps
    BY <1>2, WriteKeeps DEF LinkPair, Fields
  <2> QED
    BY <2>1, KeepsIInv
<1>3. CASE LockSpan(t)
  BY <1>3, LockSpanIInv
<1>4. CASE Assess(t)
  BY <1>4, AssessIInv
<1>5. CASE FinishQuality(t)
  <2>1. Shape' /\ Keeps
    BY <1>5, WriteKeeps DEF FinishQuality, Fields
  <2> QED
    BY <2>1, KeepsIInv
<1>6. CASE CheckEntailment(t)
  <2>1. Shape' /\ Keeps
    BY <1>6 DEF CheckEntailment, IInv, Shape, Keeps, Fields
  <2> QED
    BY <2>1, KeepsIInv
<1>7. CASE Finish(t)
  BY <1>7, CommitCommits, CommitsIInv DEF Finish
<1> QED
  BY <1>1, <1>2, <1>3, <1>4, <1>5, <1>6, <1>7 DEF TaskStep

LEMMA FailureIInv ==
  ASSUME IInv, NEW t \in Tasks, Failure(t) \/ DeadlockAbort(t)
  PROVE  IInv'
<1>1. CASE QualityRaises(t)
  BY <1>1, QualityFailsDrops, DropsIInv DEF QualityRaises
<1>2. CASE EntailmentRaises(t)
  <2>1. Shape' /\ Keeps
    BY <1>2, WriteKeeps DEF EntailmentRaises, Fields
  <2> QED
    BY <2>1, KeepsIInv
<1>3. CASE PipelineRaises(t)
  BY <1>3, CommitCommits, CommitsIInv DEF PipelineRaises
<1>4. CASE Crash(t)
  BY <1>4, RollBackDrops, DropsIInv DEF Crash
<1>5. CASE DeadlockAbort(t)
  BY <1>5, QualityFailsDrops, RollBackDrops, DropsIInv DEF DeadlockAbort
<1> QED
  BY <1>1, <1>2, <1>3, <1>4, <1>5 DEF Failure

LEMMA StepIInv == IInv /\ [Next]_vars => IInv'
<1> SUFFICES ASSUME IInv, [Next]_vars
             PROVE  IInv'
  OBVIOUS
<1>1. CASE \E t \in Tasks : TaskStep(t) \/ Failure(t) \/ DeadlockAbort(t)
  BY <1>1, TaskStepIInv, FailureIInv
<1>2. CASE UNCHANGED vars
  <2>1. Shape' /\ Keeps
    BY <1>2 DEF vars, IInv, Shape, Keeps
  <2> QED
    BY <2>1, KeepsIInv
<1> QED
  BY <1>1, <1>2 DEF Next, AllDone

\* Under the row lock, and it alone, the versions of the assessments of a span
\* are distinct, uncommitted ones included (source_quality_evaluator.py:67-72).
THEOREM NoVersionCollides == Spec => []VersionsNeverCollide
<1>1. Spec => []IInv
  BY InitIInv, StepIInv, PTL DEF Spec
<1>2. IInv => VersionsNeverCollide
  BY DEF IInv
<1> QED
  BY <1>1, <1>2, PTL

-----------------------------------------------------------------------------
(* What the tables tell of a task, at each place of its handler            *)

\* What the tables T hold of task t.
Cited(T, t) == {l.pair : l \in {k \in T.links : k.task = t}}
Assessed(T, t) == {r.span : r \in {q \in T.rows : q.by = t}}
Checked(T, t) == {c.pair : c \in {d \in T.checks : d.task = t}}
Audited(T, t) == {a \in T.audits : a.task = t}

SpansIn(pairs) == {p[2] : p \in pairs}

\* No step of the task has left anything but links.
Untouched(T, t) == Assessed(T, t) = {} /\ Checked(T, t) = {} /\ Audited(T, t) = {}

Statuses == {"completed", "failed"}
If(status, S) == IF status = "completed" THEN S ELSE {}

\* The quality step is over, and told with its outcome.
QualityTold(T, t, s) ==
  Assessed(T, t) = If(s, SpansIn(Cited(T, t)))

\* Both steps are over, and told.
Told(T, t) ==
  \E q, e \in Statuses :
    /\ Audited(T, t) = {Audit("source_quality_assessed", t, q),
                        Audit("entailment_checked", t, e)}
    /\ QualityTold(T, t, q)
    /\ Checked(T, t) = If(e, Cited(T, t))

\* The gate has read no version below the task's own.
ReadOk(t) ==
  \A r \in View(t).rows : r.by = t => read[t][r.span] >= r.version

\* Where a task is, and what it has left by then.
Phase(t) ==
  /\ stage[t] = "analyzing" =>
       /\ Untouched(db, t) /\ pc[t] # "done"
       /\ pc[t] \in {"waiting", "link"} => Untouched(View(t), t)
  /\ stage[t] # "analyzing" =>
       /\ mine[t] = Nothing /\ Told(View(t), t)
       /\ pc[t] \in {"waiting", "gate", "finish", "done"}
  /\ pc[t] = "quality" =>
       /\ Audited(View(t), t) = {} /\ Checked(View(t), t) = {}
       /\ Assessed(View(t), t) \cup {todo[t][i] : i \in DOMAIN todo[t]} = SpansIn(Cited(View(t), t))
  /\ pc[t] = "entailment" =>
       /\ Checked(View(t), t) = {}
       /\ \E q \in Statuses :
            /\ Audited(View(t), t) = {Audit("source_quality_assessed", t, q)}
            /\ QualityTold(View(t), t, q)
  /\ pc[t] \in {"gate", "finish", "done"} => Told(View(t), t)
  /\ pc[t] \in {"finish", "done"} => ReadOk(t)

\* A task writes rows of its own only.
OwnRows(T, t) ==
  /\ \A l \in T.links : l.task = t
  /\ \A c \in T.checks : c.task = t
  /\ \A a \in T.audits : a.task = t

\* The pairs task t links.
PairsCited(t) == {Cites[t][i] : i \in DOMAIN Cites[t]}

\* Links and checks are of pairs their task cites.
OfPairs(T) ==
  /\ \A l \in T.links : l.task \in Tasks /\ l.pair \in PairsCited(l.task)
  /\ \A c \in T.checks : c.task \in Tasks /\ c.pair \in PairsCited(c.task)

\* What a handler still has to do, by where it is.
Todo(t) ==
  todo[t] \in CASE pc[t] = "link"    -> Seq(PairsCited(t))
                [] pc[t] = "quality" -> Seq(Spans)
                [] OTHER             -> {<<>>}

Tells ==
  /\ OfPairs(db) /\ IsFiniteSet(db.rows)
  /\ \A t \in Tasks :
      OwnRows(mine[t], t) /\ OfPairs(mine[t]) /\ Todo(t) /\ Phase(t) /\ IsFiniteSet(mine[t].rows)

\* Types, and those of the variables TypeOK leaves out.
Typed == TypeOK /\ DOMAIN todo = Tasks /\ DOMAIN read = Tasks

LinkRows == [task : Tasks, pair : Entries \X Spans]
AssessmentRows == [span : Spans, version : Nat \ {0}, by : Tasks]
CheckRows == [task : Tasks, pair : Entries \X Spans,
              verdict : {"entailed", "not_supported", "uncertain"}]
AuditRows == [event : {"source_quality_assessed", "entailment_checked"},
              task : Tasks, status : {"completed", "failed"}]

LEMMA TablesAre ==
  ASSUME NEW T
  PROVE  T \in Tables <=>
           T \in [links : SUBSET LinkRows, rows : SUBSET AssessmentRows,
                  checks : SUBSET CheckRows, audits : SUBSET AuditRows]
  BY DEF Tables, LinkRows, AssessmentRows, CheckRows, AuditRows

\* A task's transaction adds to one table.
LEMMA WriteLinks ==
  ASSUME Typed, NEW t \in Tasks, NEW new \in SUBSET LinkRows, Write(t, "links", new)
  PROVE  /\ mine' \in [Tasks -> Tables] /\ \A u \in Tasks \ {t} : mine'[u] = mine[u]
         /\ mine'[t].links = mine[t].links \cup new /\ mine'[t].rows = mine[t].rows
         /\ mine'[t].checks = mine[t].checks /\ mine'[t].audits = mine[t].audits
<1>1. mine \in [Tasks -> Tables] /\ mine[t] \in Tables
  BY DEF Typed, TypeOK
<1> DEFINE l == mine[t].links \cup new
           m == [mine[t] EXCEPT !.links = l]
<1>2. l \in SUBSET LinkRows
  BY <1>1, TablesAre
<1> HIDE DEF l
<1>3. m \in Tables /\ m.links = l /\ m.rows = mine[t].rows /\ m.checks = mine[t].checks
      /\ m.audits = mine[t].audits
  BY <1>1, <1>2, TablesAre
<1>4. mine' = [mine EXCEPT ![t] = m]
  BY <1>1 DEF Write, l
<1> HIDE DEF m
<1> QED
  BY <1>1, <1>3, <1>4 DEF l

LEMMA WriteRows ==
  ASSUME Typed, NEW t \in Tasks, NEW new \in SUBSET AssessmentRows, Write(t, "rows", new)
  PROVE  /\ mine' \in [Tasks -> Tables] /\ \A u \in Tasks \ {t} : mine'[u] = mine[u]
         /\ mine'[t].links = mine[t].links /\ mine'[t].rows = mine[t].rows \cup new
         /\ mine'[t].checks = mine[t].checks /\ mine'[t].audits = mine[t].audits
<1>1. mine \in [Tasks -> Tables] /\ mine[t] \in Tables
  BY DEF Typed, TypeOK
<1> DEFINE l == mine[t].rows \cup new
           m == [mine[t] EXCEPT !.rows = l]
<1>2. l \in SUBSET AssessmentRows
  BY <1>1, TablesAre
<1> HIDE DEF l
<1>3. m \in Tables /\ m.links = mine[t].links /\ m.rows = l /\ m.checks = mine[t].checks
      /\ m.audits = mine[t].audits
  BY <1>1, <1>2, TablesAre
<1>4. mine' = [mine EXCEPT ![t] = m]
  BY <1>1 DEF Write, l
<1> HIDE DEF m
<1> QED
  BY <1>1, <1>3, <1>4 DEF l

LEMMA WriteAudits ==
  ASSUME Typed, NEW t \in Tasks, NEW new \in SUBSET AuditRows, Write(t, "audits", new)
  PROVE  /\ mine' \in [Tasks -> Tables] /\ \A u \in Tasks \ {t} : mine'[u] = mine[u]
         /\ mine'[t].links = mine[t].links /\ mine'[t].rows = mine[t].rows
         /\ mine'[t].checks = mine[t].checks /\ mine'[t].audits = mine[t].audits \cup new
<1>1. mine \in [Tasks -> Tables] /\ mine[t] \in Tables
  BY DEF Typed, TypeOK
<1> DEFINE l == mine[t].audits \cup new
           m == [mine[t] EXCEPT !.audits = l]
<1>2. l \in SUBSET AuditRows
  BY <1>1, TablesAre
<1> HIDE DEF l
<1>3. m \in Tables /\ m.links = mine[t].links /\ m.rows = mine[t].rows /\ m.checks = mine[t].checks
      /\ m.audits = l
  BY <1>1, <1>2, TablesAre
<1>4. mine' = [mine EXCEPT ![t] = m]
  BY <1>1 DEF Write, l
<1> HIDE DEF m
<1> QED
  BY <1>1, <1>3, <1>4 DEF l

\* A transaction sees what is committed and what it has written.
LEMMA ViewIs ==
  ASSUME NEW t
  PROVE  /\ View(t).links = db.links \cup mine[t].links
         /\ View(t).rows = db.rows \cup mine[t].rows
         /\ View(t).checks = db.checks \cup mine[t].checks
         /\ View(t).audits = db.audits \cup mine[t].audits
  BY DEF View, Nothing

LEMMA ViewTyped ==
  ASSUME Typed, NEW t \in Tasks
  PROVE  View(t) \in Tables
<1>1. db \in Tables /\ mine[t] \in Tables
  BY DEF Typed, TypeOK
<1> DEFINE l == db.links \cup mine[t].links
           r == db.rows \cup mine[t].rows
           c == db.checks \cup mine[t].checks
           a == db.audits \cup mine[t].audits
<1>2. View(t) = [links |-> l, rows |-> r, checks |-> c, audits |-> a]
  <2> DEFINE V == [f \in Fields |-> db[f] \cup mine[t][f]]
  <2>1. DOMAIN Nothing = Fields
    BY DEF Nothing, Fields
  <2>2. View(t) = V
    BY <2>1 DEF View
  <2>3. V["links"] = l /\ V["rows"] = r /\ V["checks"] = c /\ V["audits"] = a
    BY DEF Fields
  <2>4. V = [f \in Fields |-> V[f]]
    OBVIOUS
  <2> HIDE DEF V, l, r, c, a
  <2> QED
    BY <2>2, <2>3, <2>4 DEF Fields
<1>3. l \in SUBSET LinkRows /\ r \in SUBSET AssessmentRows /\ c \in SUBSET CheckRows
      /\ a \in SUBSET AuditRows
  BY <1>1, TablesAre
<1> HIDE DEF l, r, c, a
<1> QED
  BY <1>2, <1>3, TablesAre

\* A transaction that has written nothing.
LEMMA NothingTyped ==
  /\ Nothing \in Tables /\ Nothing.links = {} /\ Nothing.rows = {} /\ Nothing.checks = {}
  /\ Nothing.audits = {}
  BY DEF Nothing, Tables

-----------------------------------------------------------------------------
(* A step of one task tells nothing new of the others                      *)

OwnTells(t) ==
  /\ OwnRows(mine[t], t) /\ OfPairs(mine[t]) /\ Todo(t) /\ Phase(t)
  /\ IsFiniteSet(mine[t].rows)

\* What the step of task t leaves of the others.
Alone(t) ==
  /\ \A u \in Tasks \ {t} :
       /\ stage'[u] = stage[u] /\ pc'[u] = pc[u] /\ mine'[u] = mine[u]
       /\ todo'[u] = todo[u] /\ read'[u] = read[u]
  /\ db' = db \/ db' = View(t)

\* Of task u the tables A and B say the same.
Same(A, B, u) ==
  /\ Cited(A, u) = Cited(B, u) /\ Assessed(A, u) = Assessed(B, u)
  /\ Checked(A, u) = Checked(B, u) /\ Audited(A, u) = Audited(B, u)
  /\ {r \in A.rows : r.by = u} = {r \in B.rows : r.by = u}

LEMMA ForeignRows ==
  ASSUME NEW t, NEW u, u # t, NEW A, NEW B, NEW M, OwnRows(M, t), \A r \in M.rows : r.by = t,
         A.links = B.links \cup M.links, A.rows = B.rows \cup M.rows,
         A.checks = B.checks \cup M.checks, A.audits = B.audits \cup M.audits
  PROVE  Same(A, B, u)
<1>1. \A k : k.task = u => (k \in A.links <=> k \in B.links)
  BY DEF OwnRows
<1>2. \A k : k.task = u => (k \in A.checks <=> k \in B.checks)
  BY DEF OwnRows
<1>3. \A k : k.task = u => (k \in A.audits <=> k \in B.audits)
  BY DEF OwnRows
<1>4. \A r : r.by = u => (r \in A.rows <=> r \in B.rows)
  OBVIOUS
<1>5. /\ {k \in A.links : k.task = u} = {k \in B.links : k.task = u}
      /\ {k \in A.checks : k.task = u} = {k \in B.checks : k.task = u}
      /\ {k \in A.audits : k.task = u} = {k \in B.audits : k.task = u}
      /\ {r \in A.rows : r.by = u} = {r \in B.rows : r.by = u}
  BY <1>1, <1>2, <1>3, <1>4
<1> QED
  BY <1>5 DEF Same, Cited, Assessed, Checked, Audited

LEMMA SameTold ==
  ASSUME NEW A, NEW B, NEW u, Same(A, B, u)
  PROVE  /\ Told(A, u) <=> Told(B, u)
         /\ Untouched(A, u) <=> Untouched(B, u)
         /\ \A q : QualityTold(A, u, q) <=> QualityTold(B, u, q)
  BY DEF Same, Told, Untouched, QualityTold

LEMMA OthersTell ==
  ASSUME Typed, IInv, Tells, NEW t \in Tasks, Alone(t), NEW u \in Tasks \ {t}
  PROVE  OwnTells(u)'
<1>1. /\ stage'[u] = stage[u] /\ pc'[u] = pc[u] /\ mine'[u] = mine[u]
      /\ todo'[u] = todo[u] /\ read'[u] = read[u]
  BY DEF Alone
<1>2. Same(db', db, u) /\ Same(View(u)', View(u), u)
  <2>1. CASE db' = db
    <3>1. View(u)' = View(u)
      BY <1>1, <2>1 DEF View
    <3> QED
      BY <2>1, <3>1 DEF Same
  <2>2. CASE db' = View(t)
    <3>1. OwnRows(mine[t], t) /\ \A r \in mine[t].rows : r.by = t
      BY DEF Tells, IInv, OwnAndLocked
    <3>2. /\ db'.links = db.links \cup mine[t].links /\ db'.rows = db.rows \cup mine[t].rows
          /\ db'.checks = db.checks \cup mine[t].checks
          /\ db'.audits = db.audits \cup mine[t].audits
      BY <2>2, ViewIs
    <3>3. /\ View(u)'.links = db'.links \cup mine'[u].links
          /\ View(u)'.rows = db'.rows \cup mine'[u].rows
          /\ View(u)'.checks = db'.checks \cup mine'[u].checks
          /\ View(u)'.audits = db'.audits \cup mine'[u].audits
      BY DEF View, Nothing
    <3>4. /\ View(u)'.links = View(u).links \cup mine[t].links
          /\ View(u)'.rows = View(u).rows \cup mine[t].rows
          /\ View(u)'.checks = View(u).checks \cup mine[t].checks
          /\ View(u)'.audits = View(u).audits \cup mine[t].audits
      BY <1>1, <3>2, <3>3, ViewIs
    <3>5. Same(db', db, u)
      BY <3>1, <3>2, ForeignRows
    <3>6. Same(View(u)', View(u), u)
      BY <3>1, <3>4, ForeignRows
    <3> QED
      BY <3>5, <3>6
  <2> QED
    BY <2>1, <2>2 DEF Alone
<1>3. OwnTells(u)
  BY DEF Tells, OwnTells
<1>4. ReadOk(u)' <=> ReadOk(u)
  BY <1>1, <1>2 DEF ReadOk, Same
<1>5. /\ Told(View(u), u)' <=> Told(View(u), u)
      /\ Untouched(View(u), u)' <=> Untouched(View(u), u)
      /\ Untouched(db, u)' <=> Untouched(db, u)
      /\ \A q : QualityTold(View(u), u, q)' <=> QualityTold(View(u), u, q)
  BY <1>2, SameTold
<1>6. Phase(u)'
  <2>1. Phase(u)
    BY <1>3 DEF OwnTells
  <2> QED
    BY <1>1, <1>2, <1>4, <1>5, <2>1 DEF Phase, Same
<1> QED
  BY <1>1, <1>3, <1>6 DEF OwnTells, Todo

LEMMA StepTells ==
  ASSUME Typed, IInv, Tells, NEW t \in Tasks, Alone(t), OwnTells(t)'
  PROVE  Tells'
<1>1. OfPairs(db) /\ IsFiniteSet(db.rows) /\ OfPairs(mine[t]) /\ IsFiniteSet(mine[t].rows)
  BY DEF Tells
<1>2. OfPairs(db') /\ IsFiniteSet(db'.rows)
  <2>1. CASE db' = db
    BY <1>1, <2>1
  <2>2. CASE db' = View(t)
    <3>1. /\ db'.links = db.links \cup mine[t].links /\ db'.rows = db.rows \cup mine[t].rows
          /\ db'.checks = db.checks \cup mine[t].checks
      BY <2>2, ViewIs
    <3>2. IsFiniteSet(db'.rows)
      <4>1. IsFiniteSet(db.rows \cup mine[t].rows)
        BY <1>1, FS_Union, Zenon
      <4> QED
        BY <3>1, <4>1
    <3> QED
      BY <1>1, <3>1, <3>2 DEF OfPairs
  <2> QED
    BY <2>1, <2>2 DEF Alone
<1>3. \A u \in Tasks : OwnTells(u)'
  BY OthersTell
<1> QED
  BY <1>2, <1>3 DEF Tells, OwnTells

-----------------------------------------------------------------------------
(* Lists of spans and of pairs                                             *)

\* A list in increasing order has each member of the set.
LEMMA EnumeratesAll ==
  ASSUME NEW S, S \subseteq Nat, IsFiniteSet(S), NEW s, Enumerates(s, S, Cardinality(S))
  PROVE  {s[i] : i \in DOMAIN s} = S
<1> DEFINE n == Cardinality(S)
<1>1. n \in Nat
  BY FS_CardinalityType
<1>2. s \in [1 .. n -> S] /\ DOMAIN s = 1 .. n
  BY DEF Enumerates
<1>3. \A i, j \in 1 .. n : s[i] = s[j] => i = j
  <2> SUFFICES ASSUME NEW i \in 1 .. n, NEW j \in 1 .. n, s[i] = s[j], i # j PROVE FALSE
    OBVIOUS
  <2>1. s[i] \in Nat /\ s[j] \in Nat
    BY <1>2
  <2>2. i < j \/ j < i
    BY <1>1
  <2> QED
    BY <2>1, <2>2 DEF Enumerates
<1>4. IsFiniteSet(1 .. n) /\ Cardinality(1 .. n) = n
  BY <1>1, FS_Interval
<1>5. s \in Injection(1 .. n, S)
  BY <1>2, <1>3, Fun_IsInj
<1>6. s \in Surjection(1 .. n, S)
  BY <1>4, <1>5, FS_Injection
<1>7. \A x \in S : \E i \in 1 .. n : s[i] = x
  BY <1>2, <1>6 DEF Surjection, Range
<1> QED
  BY <1>2, <1>7

LEMMA SpansEnumerated ==
  ASSUME Typed, NEW t \in Tasks
  PROVE  /\ SpansInOrder(t) \in Seq(Spans)
         /\ {SpansInOrder(t)[i] : i \in DOMAIN SpansInOrder(t)} = SpansIn(Cited(View(t), t))
<1> DEFINE cited == {p[2] : p \in PairsOf(t)}
           n == Cardinality(cited)
<1>1. cited = SpansIn(Cited(View(t), t))
  BY DEF PairsOf, SpansIn, Cited
<1>2. \A p \in PairsOf(t) : p \in Entries \X Spans
  <2>1. View(t).links \subseteq LinkRows
    BY ViewTyped, TablesAre
  <2> QED
    BY <2>1 DEF PairsOf, LinkRows
<1>3. cited \subseteq Spans
  BY <1>2
<1>4. cited \subseteq Nat /\ IsFiniteSet(cited)
  BY <1>3, FS_Subset, ChecksAssumption
<1>5. SpansInOrder(t) = CHOOSE order \in [1 .. n -> cited] :
                          \A i, j \in DOMAIN order : i < j => order[i] < order[j]
  BY DEF SpansInOrder
<1> HIDE DEF cited
<1>6. PICK s : Enumerates(s, cited, n)
  BY <1>4, CanEnumerate
<1>7. s \in [1 .. n -> cited] /\ \A i, j \in DOMAIN s : i < j => s[i] < s[j]
  BY <1>6 DEF Enumerates
<1> HIDE DEF n
<1>8. /\ SpansInOrder(t) \in [1 .. n -> cited]
      /\ \A i, j \in DOMAIN SpansInOrder(t) : i < j => SpansInOrder(t)[i] < SpansInOrder(t)[j]
  BY <1>5, <1>7
<1>9. Enumerates(SpansInOrder(t), cited, n)
  BY <1>8 DEF Enumerates
<1>10. {SpansInOrder(t)[i] : i \in DOMAIN SpansInOrder(t)} = cited
  BY <1>4, <1>9, EnumeratesAll DEF n
<1>11. SpansInOrder(t) \in Seq(cited)
  BY <1>4, <1>8, FS_CardinalityType, SeqDef DEF n
<1>12. SpansInOrder(t) \in Seq(Spans)
  BY <1>3, <1>11, SeqMonotonic
<1> QED
  BY <1>1, <1>10, <1>12

LEMMA HeadAndTail ==
  ASSUME NEW S, NEW s \in Seq(S), s # <<>>
  PROVE  /\ Head(s) \in S /\ Tail(s) \in Seq(S)
         /\ {s[i] : i \in DOMAIN s} = {Head(s)} \cup {Tail(s)[i] : i \in DOMAIN Tail(s)}
<1> DEFINE r == Tail(s)
<1>1. Head(s) \in S /\ r \in Seq(S) /\ Head(s) = s[1]
  BY HeadTailProperties
<1>2. /\ Len(s) \in Nat /\ Len(s) >= 1 /\ DOMAIN s = 1 .. Len(s)
      /\ DOMAIN r = 1 .. Len(s) - 1 /\ \A i \in 1 .. Len(s) - 1 : r[i] = s[i + 1]
  <2>1. Len(r) = Len(s) - 1 /\ \A i \in 1 .. Len(r) : r[i] = s[i + 1]
    BY HeadTailProperties
  <2>2. Len(s) \in Nat /\ DOMAIN s = 1 .. Len(s) /\ DOMAIN r = 1 .. Len(r)
    BY <1>1, LenProperties
  <2>3. Len(s) # 0
    BY EmptySeq
  <2> QED
    BY <2>1, <2>2, <2>3
<1> HIDE DEF r
<1>3. ASSUME NEW i \in DOMAIN s PROVE s[i] = Head(s) \/ \E j \in DOMAIN r : s[i] = r[j]
  <2>1. CASE i = 1
    BY <1>1, <2>1
  <2>2. CASE i # 1
    <3>1. i - 1 \in 1 .. Len(s) - 1 /\ (i - 1) + 1 = i
      BY <1>2, <2>2
    <3> QED
      BY <1>2, <3>1
  <2> QED
    BY <2>1, <2>2
<1>4. ASSUME NEW j \in DOMAIN r PROVE \E i \in DOMAIN s : s[i] = r[j]
  <2>1. j + 1 \in DOMAIN s /\ r[j] = s[j + 1]
    BY <1>2
  <2> QED
    BY <2>1
<1>5. 1 \in DOMAIN s
  BY <1>2
<1> QED
  BY <1>1, <1>3, <1>4, <1>5 DEF r

-----------------------------------------------------------------------------
(* The steps of a task                                                     *)

\* The tables as t sees them after a step.
LEMMA ViewThen ==
  ASSUME NEW t
  PROVE  /\ View(t)'.links = db'.links \cup mine'[t].links
         /\ View(t)'.rows = db'.rows \cup mine'[t].rows
         /\ View(t)'.checks = db'.checks \cup mine'[t].checks
         /\ View(t)'.audits = db'.audits \cup mine'[t].audits
  BY DEF View, Nothing

LEMMA CitesOfPairs ==
  ASSUME NEW t \in Tasks
  PROVE  Cites[t] \in Seq(PairsCited(t))
<1>1. Cites[t] \in Seq(Entries \X Spans)
  BY ChecksAssumption
<1>2. Cites[t] \in [1 .. Len(Cites[t]) -> PairsCited(t)] /\ Len(Cites[t]) \in Nat
  BY <1>1, LenProperties DEF PairsCited
<1> QED
  BY <1>2, SeqDef

LEMMA EachTells ==
  ASSUME Tells, NEW t \in Tasks
  PROVE  OwnTells(t)
  BY DEF Tells, OwnTells

LEMMA BeginTells ==
  ASSUME Typed, IInv, Tells, NEW t \in Tasks, Begin(t)
  PROVE  Typed' /\ Alone(t) /\ OwnTells(t)'
<1>1. /\ pc[t] = "waiting" /\ stage' = stage /\ db' = db /\ mine' = mine /\ locked' = locked
      /\ read' = read /\ faults' = faults
  BY DEF Begin
<1>2. OwnTells(t) /\ View(t)' = View(t)
  BY <1>1, EachTells DEF View
<1>3. CASE stage[t] = "analyzing"
  <2>1. pc' = [pc EXCEPT ![t] = "link"] /\ todo' = [todo EXCEPT ![t] = Cites[t]]
    BY <1>3 DEF Begin
  <2>2. Typed' /\ Alone(t) /\ pc'[t] = "link" /\ todo'[t] = Cites[t]
    BY <1>1, <2>1 DEF Typed, TypeOK, Alone
  <2>3. Todo(t)'
    BY <2>2, CitesOfPairs DEF Todo, PairsCited
  <2>4. Phase(t)'
    BY <1>1, <1>2, <1>3, <2>2 DEF OwnTells, Phase
  <2> QED
    BY <1>1, <1>2, <2>2, <2>3, <2>4 DEF OwnTells
<1>4. CASE stage[t] # "analyzing"
  <2>1. pc' = [pc EXCEPT ![t] = "gate"] /\ todo' = todo
    BY <1>4 DEF Begin
  <2>2. Typed' /\ Alone(t) /\ pc'[t] = "gate"
    BY <1>1, <2>1 DEF Typed, TypeOK, Alone
  <2>3. Todo(t)'
    BY <1>1, <1>2, <2>1, <2>2 DEF OwnTells, Todo
  <2>4. Phase(t)'
    BY <1>1, <1>2, <1>4, <2>2 DEF OwnTells, Phase
  <2> QED
    BY <1>1, <1>2, <2>2, <2>3, <2>4 DEF OwnTells
<1> QED
  BY <1>3, <1>4

LEMMA LinkPairTells ==
  ASSUME Typed, IInv, Tells, NEW t \in Tasks, LinkPair(t)
  PROVE  Typed' /\ Alone(t) /\ OwnTells(t)'
<1> DEFINE new == {Link(t, Head(todo[t]))} \ db.links
<1>1. /\ pc[t] = "link" /\ todo[t] # <<>> /\ Write(t, "links", new)
      /\ todo' = [todo EXCEPT ![t] = Tail(@)]
      /\ stage' = stage /\ db' = db /\ pc' = pc /\ locked' = locked /\ read' = read
      /\ faults' = faults
  BY DEF LinkPair
<1>2. OwnTells(t) /\ stage[t] = "analyzing"
  BY <1>1, EachTells DEF OwnTells, Phase, Typed, TypeOK
<1>3. todo[t] \in Seq(PairsCited(t))
  BY <1>1, <1>2 DEF OwnTells, Todo
<1>4. Head(todo[t]) \in PairsCited(t) /\ Tail(todo[t]) \in Seq(PairsCited(t))
  BY <1>1, <1>3, HeadTailProperties
<1>5. PairsCited(t) \subseteq Entries \X Spans
  <2>1. Cites[t] \in Seq(Entries \X Spans)
    BY ChecksAssumption
  <2> QED
    BY <2>1, ElementOfSeq DEF PairsCited
<1>6. new \in SUBSET LinkRows /\ \A l \in new : l.task = t /\ l.pair \in PairsCited(t)
  BY <1>4, <1>5 DEF LinkRows, Link
<1> HIDE DEF new
<1>7. /\ mine' \in [Tasks -> Tables] /\ \A u \in Tasks \ {t} : mine'[u] = mine[u]
      /\ mine'[t].links = mine[t].links \cup new /\ mine'[t].rows = mine[t].rows
      /\ mine'[t].checks = mine[t].checks /\ mine'[t].audits = mine[t].audits
  BY <1>1, <1>6, WriteLinks
<1>8. Typed' /\ Alone(t) /\ todo'[t] = Tail(todo[t])
  BY <1>1, <1>7 DEF Typed, TypeOK, Alone
<1>9. Todo(t)'
  BY <1>1, <1>4, <1>8 DEF Todo, PairsCited
<1>10. /\ View(t)'.rows = View(t).rows /\ View(t)'.checks = View(t).checks
       /\ View(t)'.audits = View(t).audits
  <2>1. /\ View(t).rows = db.rows \cup mine[t].rows /\ View(t).checks = db.checks \cup mine[t].checks
        /\ View(t).audits = db.audits \cup mine[t].audits
    BY ViewIs
  <2>2. /\ View(t)'.rows = db'.rows \cup mine'[t].rows
        /\ View(t)'.checks = db'.checks \cup mine'[t].checks
        /\ View(t)'.audits = db'.audits \cup mine'[t].audits
    BY ViewThen
  <2> QED
    BY <1>1, <1>7, <2>1, <2>2
<1>11. Phase(t)'
  <2>1. Phase(t)
    BY <1>2 DEF OwnTells
  <2>2. Untouched(db', t) /\ Untouched(View(t)', t)
    BY <1>1, <1>2, <1>10, <2>1 DEF Phase, Untouched, Assessed, Checked, Audited
  <2> QED
    BY <1>1, <1>2, <2>2 DEF Phase
<1>12. OwnRows(mine'[t], t) /\ OfPairs(mine'[t])
  BY <1>2, <1>6, <1>7 DEF OwnTells, OwnRows, OfPairs
<1> QED
  BY <1>2, <1>7, <1>8, <1>9, <1>11, <1>12 DEF OwnTells

LEMMA StartQualityTells ==
  ASSUME Typed, IInv, Tells, NEW t \in Tasks, StartQuality(t)
  PROVE  Typed' /\ Alone(t) /\ OwnTells(t)'
<1>1. /\ pc[t] = "link" /\ todo[t] = <<>>
      /\ pc' = [pc EXCEPT ![t] = "quality"]
      /\ todo' = [todo EXCEPT ![t] = SpansInOrder(t)]
      /\ stage' = stage /\ db' = db /\ mine' = mine /\ locked' = locked /\ read' = read
      /\ faults' = faults
  BY DEF StartQuality
<1>2. OwnTells(t) /\ stage[t] = "analyzing" /\ View(t)' = View(t)
  BY <1>1, EachTells DEF OwnTells, Phase, Typed, TypeOK, View
<1>3. Typed' /\ Alone(t) /\ pc'[t] = "quality" /\ todo'[t] = SpansInOrder(t)
  BY <1>1 DEF Typed, TypeOK, Alone
<1>4. Todo(t)'
  BY <1>3, SpansEnumerated DEF Todo
<1>5. {todo'[t][i] : i \in DOMAIN todo'[t]} = SpansIn(Cited(View(t), t))
  BY <1>3, SpansEnumerated
<1>6. Phase(t)'
  <2>1. Phase(t)
    BY <1>2 DEF OwnTells
  <2> QED
    BY <1>1, <1>2, <1>3, <1>5, <2>1 DEF Phase, Untouched
<1> QED
  BY <1>1, <1>2, <1>3, <1>4, <1>6 DEF OwnTells

LEMMA LockSpanTells ==
  ASSUME Typed, IInv, Tells, NEW t \in Tasks, LockSpan(t)
  PROVE  Typed' /\ Alone(t) /\ OwnTells(t)'
<1>1. /\ pc[t] = "quality" /\ todo[t] # <<>>
      /\ locked' = [locked EXCEPT ![t] = @ \cup {Head(todo[t])}]
      /\ stage' = stage /\ db' = db /\ pc' = pc /\ todo' = todo /\ mine' = mine /\ read' = read
      /\ faults' = faults
  BY DEF LockSpan
<1>2. OwnTells(t) /\ View(t)' = View(t)
  BY <1>1, EachTells DEF View
<1>3. Head(todo[t]) \in Spans
  BY <1>1, <1>2, HeadTailProperties DEF OwnTells, Todo
<1>4. Typed' /\ Alone(t)
  BY <1>1, <1>3 DEF Typed, TypeOK, Alone
<1>5. Phase(t)' /\ Todo(t)'
  BY <1>1, <1>2 DEF OwnTells, Phase, Todo, ReadOk
<1> QED
  BY <1>1, <1>2, <1>4, <1>5 DEF OwnTells

LEMMA AssessTells ==
  ASSUME Typed, IInv, Tells, NEW t \in Tasks, Assess(t)
  PROVE  Typed' /\ Alone(t) /\ OwnTells(t)'
<1> DEFINE s == Head(todo[t])
           versions == {r.version : r \in On(View(t).rows, s)}
           added(v) == IF AlreadyAssessed(t, s) THEN {} ELSE {Assessment(t, s, v)}
<1>1. /\ pc[t] = "quality" /\ todo[t] # <<>>
      /\ todo' = [todo EXCEPT ![t] = Tail(@)]
      /\ stage' = stage /\ db' = db /\ pc' = pc /\ locked' = locked /\ read' = read
      /\ faults' = faults
  BY DEF Assess
<1>2. PICK v \in {1} \cup {w + 1 : w \in versions} : Write(t, "rows", added(v))
  BY DEF Assess
<1>3. PICK new : new = added(v)
  OBVIOUS
<1>4. OwnTells(t)
  BY EachTells
<1>5. todo[t] \in Seq(Spans)
  BY <1>1, <1>4 DEF OwnTells, Todo
<1>6. /\ s \in Spans /\ Tail(todo[t]) \in Seq(Spans)
      /\ {todo[t][i] : i \in DOMAIN todo[t]} = {s} \cup {Tail(todo[t])[i] : i \in DOMAIN Tail(todo[t])}
  BY <1>1, <1>5, HeadAndTail
<1>7. View(t).rows \subseteq AssessmentRows
  BY ViewTyped, TablesAre
<1>8. v \in Nat \ {0}
  <2>1. \A w \in versions : w \in Nat
    BY <1>7 DEF On, AssessmentRows
  <2> QED
    BY <1>2, <2>1
<1> HIDE DEF s
<1>9. new \in SUBSET AssessmentRows /\ IsFiniteSet(new) /\ \A r \in new : r.by = t /\ r.span = s
  <2>1. Assessment(t, s, v) \in AssessmentRows
    BY <1>6, <1>8 DEF AssessmentRows, Assessment
  <2>2. new = {} \/ new = {Assessment(t, s, v)}
    BY <1>3
  <2>3. IsFiniteSet(new)
    BY <2>2, FS_EmptySet, FS_Singleton
  <2> QED
    BY <2>1, <2>2, <2>3 DEF Assessment
<1>10. Write(t, "rows", new)
  BY <1>2, <1>3
<1>11. \E r \in View(t).rows \cup new : r.by = t /\ r.span = s
  <2>1. CASE AlreadyAssessed(t, s)
    BY <2>1 DEF AlreadyAssessed, On
  <2>2. CASE ~AlreadyAssessed(t, s)
    <3>1. new = {Assessment(t, s, v)}
      BY <1>3, <2>2
    <3>2. Assessment(t, s, v).by = t /\ Assessment(t, s, v).span = s
      BY DEF Assessment
    <3> QED
      BY <3>1, <3>2
  <2> QED
    BY <2>1, <2>2
<1> HIDE DEF added, versions
<1>12. /\ mine' \in [Tasks -> Tables] /\ \A u \in Tasks \ {t} : mine'[u] = mine[u]
       /\ mine'[t].links = mine[t].links /\ mine'[t].rows = mine[t].rows \cup new
       /\ mine'[t].checks = mine[t].checks /\ mine'[t].audits = mine[t].audits
  BY <1>9, <1>10, WriteRows
<1>13. Typed' /\ Alone(t) /\ todo'[t] = Tail(todo[t])
  BY <1>1, <1>12 DEF Typed, TypeOK, Alone
<1>14. Todo(t)'
  BY <1>1, <1>6, <1>13 DEF Todo
<1>15. IsFiniteSet(mine'[t].rows)
  <2>1. IsFiniteSet(mine[t].rows)
    BY <1>4 DEF OwnTells
  <2>2. IsFiniteSet(mine[t].rows \cup new)
    BY <1>9, <2>1, FS_Union, Zenon
  <2> QED
    BY <1>12, <2>2
<1>16. /\ View(t)'.links = View(t).links /\ View(t)'.checks = View(t).checks
       /\ View(t)'.audits = View(t).audits /\ View(t)'.rows = View(t).rows \cup new
  <2>1. /\ View(t).links = db.links \cup mine[t].links /\ View(t).rows = db.rows \cup mine[t].rows
        /\ View(t).checks = db.checks \cup mine[t].checks
        /\ View(t).audits = db.audits \cup mine[t].audits
    BY ViewIs
  <2>2. /\ View(t)'.links = db'.links \cup mine'[t].links
        /\ View(t)'.rows = db'.rows \cup mine'[t].rows
        /\ View(t)'.checks = db'.checks \cup mine'[t].checks
        /\ View(t)'.audits = db'.audits \cup mine'[t].audits
    BY ViewThen
  <2> QED
    BY <1>1, <1>12, <2>1, <2>2
<1>17. Assessed(View(t)', t) = Assessed(View(t), t) \cup {s}
  <2>1. \A x : x \in Assessed(View(t)', t) <=> \E r \in View(t).rows \cup new : r.by = t /\ r.span = x
    BY <1>16 DEF Assessed
  <2>2. \A x : x \in Assessed(View(t), t) <=> \E r \in View(t).rows : r.by = t /\ r.span = x
    BY DEF Assessed
  <2> QED
    BY <1>9, <1>11, <2>1, <2>2
<1>18. /\ Cited(View(t)', t) = Cited(View(t), t) /\ Checked(View(t)', t) = Checked(View(t), t)
       /\ Audited(View(t)', t) = Audited(View(t), t)
  BY <1>16 DEF Cited, Checked, Audited
<1>19. Phase(t)'
  <2>1. Phase(t)
    BY <1>4 DEF OwnTells
  <2>2. Assessed(View(t)', t) \cup {todo'[t][i] : i \in DOMAIN todo'[t]} = SpansIn(Cited(View(t)', t))
    BY <1>1, <1>6, <1>13, <1>17, <1>18, <2>1 DEF Phase
  <2> QED
    BY <1>1, <1>18, <2>1, <2>2 DEF Phase
<1>20. OwnRows(mine'[t], t) /\ OfPairs(mine'[t])
  BY <1>4, <1>12 DEF OwnTells, OwnRows, OfPairs
<1> QED
  BY <1>13, <1>14, <1>15, <1>19, <1>20 DEF OwnTells

LEMMA FinishQualityTells ==
  ASSUME Typed, IInv, Tells, NEW t \in Tasks, FinishQuality(t)
  PROVE  Typed' /\ Alone(t) /\ OwnTells(t)'
<1> DEFINE a == Audit("source_quality_assessed", t, "completed")
<1>1. /\ pc[t] = "quality" /\ todo[t] = <<>> /\ Write(t, "audits", {a})
      /\ pc' = [pc EXCEPT ![t] = "entailment"]
      /\ stage' = stage /\ db' = db /\ todo' = todo /\ locked' = locked /\ read' = read
      /\ faults' = faults
  BY DEF FinishQuality
<1>2. OwnTells(t)
  BY EachTells
<1>3. {a} \in SUBSET AuditRows /\ a.task = t
  BY DEF AuditRows, Audit
<1> HIDE DEF a
<1>4. /\ mine' \in [Tasks -> Tables] /\ \A u \in Tasks \ {t} : mine'[u] = mine[u]
      /\ mine'[t].links = mine[t].links /\ mine'[t].rows = mine[t].rows
      /\ mine'[t].checks = mine[t].checks /\ mine'[t].audits = mine[t].audits \cup {a}
  BY <1>1, <1>3, WriteAudits
<1>5. Typed' /\ Alone(t) /\ pc'[t] = "entailment"
  BY <1>1, <1>4 DEF Typed, TypeOK, Alone
<1>6. /\ View(t)'.links = View(t).links /\ View(t)'.checks = View(t).checks
      /\ View(t)'.audits = View(t).audits \cup {a} /\ View(t)'.rows = View(t).rows
  <2>1. /\ View(t).links = db.links \cup mine[t].links /\ View(t).rows = db.rows \cup mine[t].rows
        /\ View(t).checks = db.checks \cup mine[t].checks
        /\ View(t).audits = db.audits \cup mine[t].audits
    BY ViewIs
  <2>2. /\ View(t)'.links = db'.links \cup mine'[t].links
        /\ View(t)'.rows = db'.rows \cup mine'[t].rows
        /\ View(t)'.checks = db'.checks \cup mine'[t].checks
        /\ View(t)'.audits = db'.audits \cup mine'[t].audits
    BY ViewThen
  <2> QED
    BY <1>1, <1>4, <2>1, <2>2
<1>7. Phase(t)'
  <2>1. Phase(t)
    BY <1>2 DEF OwnTells
  <2>2. /\ Cited(View(t)', t) = Cited(View(t), t) /\ Checked(View(t)', t) = Checked(View(t), t)
        /\ Assessed(View(t)', t) = Assessed(View(t), t)
        /\ Audited(View(t)', t) = Audited(View(t), t) \cup {a}
    BY <1>3, <1>6 DEF Cited, Checked, Assessed, Audited
  <2>3. {todo[t][i] : i \in DOMAIN todo[t]} = {}
    BY <1>1
  <2>4. stage[t] = "analyzing"
    BY <1>1, <2>1 DEF Phase, Typed, TypeOK
  <2>5. /\ Audited(View(t)', t) = {a} /\ Checked(View(t)', t) = {}
        /\ Assessed(View(t)', t) = SpansIn(Cited(View(t)', t))
    BY <1>1, <2>1, <2>2, <2>3 DEF Phase
  <2>6. QualityTold(View(t)', t, "completed") /\ "completed" \in Statuses
    BY <2>5 DEF QualityTold, If, Statuses
  <2>7. Untouched(db', t)
    BY <1>1, <2>1, <2>4 DEF Phase
  <2> QED
    BY <1>1, <1>5, <2>4, <2>5, <2>6, <2>7 DEF Phase, a
<1>8. OwnRows(mine'[t], t) /\ OfPairs(mine'[t]) /\ IsFiniteSet(mine'[t].rows)
  BY <1>2, <1>3, <1>4 DEF OwnTells, OwnRows, OfPairs
<1>9. Todo(t)'
  BY <1>1, <1>5 DEF Todo
<1> QED
  BY <1>5, <1>7, <1>8, <1>9 DEF OwnTells

\* ROLLBACK TO SAVEPOINT, and the audit of the failure.
LEMMA QualityFailsTells ==
  ASSUME Typed, IInv, Tells, NEW t \in Tasks, QualityFails(t), pc[t] = "quality",
         UNCHANGED <<stage, db, read>>, faults' \in 0 .. MaxFaults
  PROVE  Typed' /\ Alone(t) /\ OwnTells(t)'
<1> DEFINE a == Audit("source_quality_assessed", t, "failed")
           old == mine[t]
           audits == old.audits \cup {a}
           m == [old EXCEPT !.rows = {}, !.audits = audits]
<1>1. /\ mine' = [mine EXCEPT ![t] = m]
      /\ locked' = [locked EXCEPT ![t] = {}]
      /\ todo' = [todo EXCEPT ![t] = <<>>]
      /\ pc' = [pc EXCEPT ![t] = "entailment"]
  <2>1. mine \in [Tasks -> Tables]
    BY DEF Typed, TypeOK
  <2> QED
    BY <2>1 DEF QualityFails
<1>2. OwnTells(t)
  BY EachTells
<1>3. a \in AuditRows /\ a.task = t
  BY DEF AuditRows, Audit
<1> HIDE DEF a
<1>4. old \in Tables
  BY DEF Typed, TypeOK
<1>5. audits \in SUBSET AuditRows
  BY <1>3, <1>4, TablesAre
<1> HIDE DEF audits
<1>6. m \in Tables /\ m.links = old.links /\ m.rows = {} /\ m.checks = old.checks /\ m.audits = audits
  <2> DEFINE n == [old EXCEPT !.rows = {}]
  <2>1. n \in Tables /\ n.links = old.links /\ n.rows = {} /\ n.checks = old.checks
    BY <1>4, TablesAre
  <2>2. m = [n EXCEPT !.audits = audits]
    OBVIOUS
  <2> HIDE DEF n
  <2>3. LET k == [n EXCEPT !.audits = audits] IN
        k \in Tables /\ k.links = n.links /\ k.rows = n.rows /\ k.checks = n.checks /\ k.audits = audits
    BY <1>5, <2>1, TablesAre
  <2> HIDE DEF m
  <2> QED
    BY <2>1, <2>2, <2>3
<1> HIDE DEF m
<1>7. mine \in [Tasks -> Tables] /\ mine'[t] = m
  BY <1>1 DEF Typed, TypeOK
<1>8. Typed' /\ Alone(t) /\ pc'[t] = "entailment" /\ todo'[t] = <<>>
  BY <1>1, <1>6, <1>7 DEF Typed, TypeOK, Alone
<1>9. /\ View(t)'.links = View(t).links /\ View(t)'.checks = View(t).checks
      /\ View(t)'.audits = View(t).audits \cup {a} /\ View(t)'.rows = db.rows
  <2>1. /\ View(t).links = db.links \cup mine[t].links
        /\ View(t).checks = db.checks \cup mine[t].checks
        /\ View(t).audits = db.audits \cup mine[t].audits
    BY ViewIs
  <2>2. /\ View(t)'.links = db'.links \cup mine'[t].links
        /\ View(t)'.rows = db'.rows \cup mine'[t].rows
        /\ View(t)'.checks = db'.checks \cup mine'[t].checks
        /\ View(t)'.audits = db'.audits \cup mine'[t].audits
    BY ViewThen
  <2> QED
    BY <1>6, <1>7, <2>1, <2>2 DEF audits
<1>10. Phase(t)'
  <2>1. Phase(t)
    BY <1>2 DEF OwnTells
  <2>2. stage[t] = "analyzing" /\ Untouched(db, t)
    BY <2>1 DEF Phase, Typed, TypeOK
  <2>3. /\ Checked(View(t)', t) = Checked(View(t), t)
        /\ Assessed(View(t)', t) = Assessed(db, t)
        /\ Audited(View(t)', t) = Audited(View(t), t) \cup {a}
    BY <1>3, <1>9 DEF Checked, Assessed, Audited
  <2>4. /\ Audited(View(t)', t) = {a} /\ Checked(View(t)', t) = {}
        /\ Assessed(View(t)', t) = {}
    BY <2>1, <2>2, <2>3 DEF Phase, Untouched
  <2>5. QualityTold(View(t)', t, "failed") /\ "failed" \in Statuses
    BY <2>4 DEF QualityTold, If, Statuses
  <2> QED
    BY <1>8, <2>2, <2>4, <2>5 DEF Phase, a
<1>11. OwnRows(mine'[t], t) /\ OfPairs(mine'[t]) /\ IsFiniteSet(mine'[t].rows)
  BY <1>2, <1>3, <1>6, <1>7, FS_EmptySet DEF OwnTells, OwnRows, OfPairs, audits
<1>12. Todo(t)'
  BY <1>8 DEF Todo
<1> QED
  BY <1>8, <1>10, <1>11, <1>12 DEF OwnTells

\* The step of the gate that tells both outcomes.
LEMMA ToldBoth ==
  ASSUME NEW T, NEW t, NEW q \in Statuses, NEW e \in Statuses,
         Audited(T, t) = {Audit("source_quality_assessed", t, q),
                          Audit("entailment_checked", t, e)},
         QualityTold(T, t, q), Checked(T, t) = If(e, Cited(T, t))
  PROVE  Told(T, t)
  BY DEF Told

\* A check another task has written is of a pair of its own.
LEMMA NewChecksAre ==
  ASSUME Typed, Tells, NEW t \in Tasks, Checked(View(t), t) = {}
  PROVE  /\ NewChecks(t) = {Check(t, p) : p \in Cited(View(t), t)}
         /\ \A p \in Cited(View(t), t) : p \in PairsCited(t) /\ p \in Entries \X Spans
<1>1. PairsOf(t) = Cited(View(t), t)
  BY DEF PairsOf, Cited
<1>2. View(t).links \subseteq LinkRows
  BY ViewTyped, TablesAre
<1>3. /\ View(t).links = db.links \cup mine[t].links
      /\ View(t).checks = db.checks \cup mine[t].checks
  BY ViewIs
<1>4. OfPairs(db) /\ OfPairs(mine[t])
  BY DEF Tells
<1>5. \A p \in PairsOf(t) : p \in PairsCited(t) /\ p \in Entries \X Spans
  BY <1>2, <1>3, <1>4 DEF PairsOf, OfPairs, LinkRows
<1>6. ASSUME NEW c \in View(t).checks, c.pair \in PairsOf(t) PROVE FALSE
  <2>1. c.task \in Tasks /\ c.pair \in PairsCited(c.task)
    BY <1>3, <1>4 DEF OfPairs
  <2>2. c.task # t
    BY DEF Checked
  <2>3. c.pair \in PairsCited(t)
    BY <1>5, <1>6
  <2>4. PICK i \in DOMAIN Cites[t] : Cites[t][i] = c.pair
    BY <2>3 DEF PairsCited
  <2>5. PICK j \in DOMAIN Cites[c.task] : Cites[c.task][j] = c.pair
    BY <2>1 DEF PairsCited
  <2>6. Cites[t][i][1] = Cites[c.task][j][1]
    BY <2>4, <2>5
  <2>7. t = c.task
    BY <2>1, <2>6, ChecksAssumption
  <2> QED
    BY <2>2, <2>7
<1>7. PairsOf(t) \ {c.pair : c \in View(t).checks} = PairsOf(t)
  BY <1>6
<1> QED
  BY <1>1, <1>5, <1>7 DEF NewChecks

LEMMA CheckEntailmentTells ==
  ASSUME Typed, IInv, Tells, NEW t \in Tasks, CheckEntailment(t)
  PROVE  Typed' /\ Alone(t) /\ OwnTells(t)'
<1> DEFINE a == Audit("entailment_checked", t, "completed")
           old == mine[t]
           audits == old.audits \cup {a}
           checks == old.checks \cup NewChecks(t)
           m == [old EXCEPT !.checks = checks, !.audits = audits]
<1>1. /\ pc[t] = "entailment"
      /\ mine' = [mine EXCEPT ![t] = m]
      /\ pc' = [pc EXCEPT ![t] = "gate"]
      /\ stage' = stage /\ db' = db /\ todo' = todo /\ locked' = locked /\ read' = read
      /\ faults' = faults
  <2>1. mine \in [Tasks -> Tables]
    BY DEF Typed, TypeOK
  <2> QED
    BY <2>1 DEF CheckEntailment
<1>2. OwnTells(t) /\ Phase(t)
  BY EachTells DEF OwnTells
<1>3. stage[t] = "analyzing" /\ Untouched(db, t) /\ Checked(View(t), t) = {}
  BY <1>1, <1>2 DEF Phase, Typed, TypeOK
<1>4. PICK q \in Statuses : /\ Audited(View(t), t) = {Audit("source_quality_assessed", t, q)}
                            /\ QualityTold(View(t), t, q)
  BY <1>1, <1>2 DEF Phase
<1>5. /\ NewChecks(t) = {Check(t, p) : p \in Cited(View(t), t)}
      /\ \A p \in Cited(View(t), t) : p \in PairsCited(t) /\ p \in Entries \X Spans
  BY <1>3, NewChecksAre
<1>6. NewChecks(t) \subseteq CheckRows
  <2>1. \A x, y : Verdict(x, y) \in {"entailed", "not_supported", "uncertain"}
    BY DEF Verdict
  <2>2. \A p \in Entries \X Spans : Check(t, p) \in CheckRows
    BY <2>1 DEF CheckRows, Check
  <2> QED
    BY <1>5, <2>2
<1>7. \A c \in NewChecks(t) : c.task = t /\ c.pair \in PairsCited(t)
  BY <1>5 DEF Check
<1>8. a \in AuditRows /\ a.task = t
  BY DEF AuditRows, Audit
<1> HIDE DEF a
<1>9. old \in Tables
  BY DEF Typed, TypeOK
<1>10. audits \in SUBSET AuditRows /\ checks \in SUBSET CheckRows
  BY <1>6, <1>8, <1>9, TablesAre
<1> HIDE DEF audits, checks
<1>11. m \in Tables /\ m.links = old.links /\ m.rows = old.rows /\ m.checks = checks
       /\ m.audits = audits
  <2> DEFINE n == [old EXCEPT !.checks = checks]
  <2>1. n \in Tables /\ n.links = old.links /\ n.rows = old.rows /\ n.checks = checks
    BY <1>9, <1>10, TablesAre
  <2>2. m = [n EXCEPT !.audits = audits]
    OBVIOUS
  <2> HIDE DEF n
  <2>3. LET k == [n EXCEPT !.audits = audits] IN
        k \in Tables /\ k.links = n.links /\ k.rows = n.rows /\ k.checks = n.checks /\ k.audits = audits
    BY <1>10, <2>1, TablesAre
  <2> HIDE DEF m
  <2> QED
    BY <2>1, <2>2, <2>3
<1> HIDE DEF m
<1>12. mine \in [Tasks -> Tables] /\ mine'[t] = m
  BY <1>1 DEF Typed, TypeOK
<1>13. Typed' /\ Alone(t) /\ pc'[t] = "gate"
  BY <1>1, <1>11, <1>12 DEF Typed, TypeOK, Alone
<1>14. /\ View(t)'.links = View(t).links /\ View(t)'.checks = View(t).checks \cup NewChecks(t)
       /\ View(t)'.audits = View(t).audits \cup {a} /\ View(t)'.rows = View(t).rows
  <2>1. /\ View(t).links = db.links \cup mine[t].links /\ View(t).rows = db.rows \cup mine[t].rows
        /\ View(t).checks = db.checks \cup mine[t].checks
        /\ View(t).audits = db.audits \cup mine[t].audits
    BY ViewIs
  <2>2. /\ View(t)'.links = db'.links \cup mine'[t].links
        /\ View(t)'.rows = db'.rows \cup mine'[t].rows
        /\ View(t)'.checks = db'.checks \cup mine'[t].checks
        /\ View(t)'.audits = db'.audits \cup mine'[t].audits
    BY ViewThen
  <2> QED
    BY <1>1, <1>11, <1>12, <2>1, <2>2 DEF audits, checks
<1>15. Told(View(t)', t)
  <2>1. /\ Cited(View(t)', t) = Cited(View(t), t)
        /\ Assessed(View(t)', t) = Assessed(View(t), t)
        /\ Audited(View(t)', t) = Audited(View(t), t) \cup {a}
    BY <1>8, <1>14 DEF Cited, Assessed, Audited
  <2>2. Checked(View(t)', t) = Cited(View(t), t)
    <3>1. \A x : x \in Checked(View(t)', t)
                 <=> \E c \in View(t).checks \cup NewChecks(t) : c.task = t /\ c.pair = x
      BY <1>14 DEF Checked
    <3>2. \A c \in View(t).checks : c.task # t
      BY <1>3 DEF Checked
    <3>3. \A p \in Cited(View(t), t) :
            Check(t, p) \in NewChecks(t) /\ Check(t, p).task = t /\ Check(t, p).pair = p
      BY <1>5 DEF Check
    <3>4. \A c \in NewChecks(t) : c.pair \in Cited(View(t), t)
      BY <1>5 DEF Check
    <3> QED
      BY <3>1, <3>2, <3>3, <3>4
  <2>3. QualityTold(View(t)', t, q)
    BY <1>4, <2>1 DEF QualityTold
  <2>4. "completed" \in Statuses /\ Checked(View(t)', t) = If("completed", Cited(View(t)', t))
    BY <2>1, <2>2 DEF Statuses, If
  <2>5. Audited(View(t)', t) = {Audit("source_quality_assessed", t, q),
                                Audit("entailment_checked", t, "completed")}
    BY <1>4, <2>1 DEF a
  <2> QED
    BY <2>3, <2>4, <2>5, ToldBoth
<1>16. Phase(t)'
  BY <1>1, <1>3, <1>13, <1>15 DEF Phase
<1>17. OwnRows(mine'[t], t) /\ OfPairs(mine'[t]) /\ IsFiniteSet(mine'[t].rows)
  BY <1>2, <1>7, <1>8, <1>11, <1>12 DEF OwnTells, OwnRows, OfPairs, audits, checks
<1>18. Todo(t)'
  BY <1>1, <1>2, <1>13 DEF Todo, OwnTells
<1> QED
  BY <1>13, <1>16, <1>17, <1>18 DEF OwnTells

LEMMA EntailmentRaisesTells ==
  ASSUME Typed, IInv, Tells, NEW t \in Tasks, EntailmentRaises(t)
  PROVE  Typed' /\ Alone(t) /\ OwnTells(t)'
<1> DEFINE a == Audit("entailment_checked", t, "failed")
<1>1. /\ pc[t] = "entailment" /\ Write(t, "audits", {a})
      /\ pc' = [pc EXCEPT ![t] = "gate"] /\ faults < MaxFaults /\ faults' = faults + 1
      /\ stage' = stage /\ db' = db /\ todo' = todo /\ locked' = locked /\ read' = read
  BY DEF EntailmentRaises
<1>2. OwnTells(t) /\ Phase(t)
  BY EachTells DEF OwnTells
<1>3. stage[t] = "analyzing" /\ Untouched(db, t) /\ Checked(View(t), t) = {}
  BY <1>1, <1>2 DEF Phase, Typed, TypeOK
<1>4. PICK q \in Statuses : /\ Audited(View(t), t) = {Audit("source_quality_assessed", t, q)}
                            /\ QualityTold(View(t), t, q)
  BY <1>1, <1>2 DEF Phase
<1>5. {a} \in SUBSET AuditRows /\ a.task = t
  BY DEF AuditRows, Audit
<1> HIDE DEF a
<1>6. /\ mine' \in [Tasks -> Tables] /\ \A u \in Tasks \ {t} : mine'[u] = mine[u]
      /\ mine'[t].links = mine[t].links /\ mine'[t].rows = mine[t].rows
      /\ mine'[t].checks = mine[t].checks /\ mine'[t].audits = mine[t].audits \cup {a}
  BY <1>1, <1>5, WriteAudits
<1>7. faults' \in 0 .. MaxFaults
  BY <1>1, ChecksAssumption DEF Typed, TypeOK
<1>8. Typed' /\ Alone(t) /\ pc'[t] = "gate"
  BY <1>1, <1>6, <1>7 DEF Typed, TypeOK, Alone
<1>9. /\ View(t)'.links = View(t).links /\ View(t)'.checks = View(t).checks
      /\ View(t)'.audits = View(t).audits \cup {a} /\ View(t)'.rows = View(t).rows
  <2>1. /\ View(t).links = db.links \cup mine[t].links /\ View(t).rows = db.rows \cup mine[t].rows
        /\ View(t).checks = db.checks \cup mine[t].checks
        /\ View(t).audits = db.audits \cup mine[t].audits
    BY ViewIs
  <2>2. /\ View(t)'.links = db'.links \cup mine'[t].links
        /\ View(t)'.rows = db'.rows \cup mine'[t].rows
        /\ View(t)'.checks = db'.checks \cup mine'[t].checks
        /\ View(t)'.audits = db'.audits \cup mine'[t].audits
    BY ViewThen
  <2> QED
    BY <1>1, <1>6, <2>1, <2>2
<1>10. Told(View(t)', t)
  <2>1. /\ Cited(View(t)', t) = Cited(View(t), t) /\ Checked(View(t)', t) = {}
        /\ Assessed(View(t)', t) = Assessed(View(t), t)
        /\ Audited(View(t)', t) = Audited(View(t), t) \cup {a}
    BY <1>3, <1>5, <1>9 DEF Cited, Checked, Assessed, Audited
  <2>2. QualityTold(View(t)', t, q)
    BY <1>4, <2>1 DEF QualityTold
  <2>3. "failed" \in Statuses /\ Checked(View(t)', t) = If("failed", Cited(View(t)', t))
    BY <2>1 DEF Statuses, If
  <2>4. Audited(View(t)', t) = {Audit("source_quality_assessed", t, q),
                                Audit("entailment_checked", t, "failed")}
    BY <1>4, <2>1 DEF a
  <2> QED
    BY <2>2, <2>3, <2>4, ToldBoth
<1>11. Phase(t)'
  BY <1>1, <1>3, <1>8, <1>10 DEF Phase
<1>12. OwnRows(mine'[t], t) /\ OfPairs(mine'[t]) /\ IsFiniteSet(mine'[t].rows)
  BY <1>2, <1>5, <1>6 DEF OwnTells, OwnRows, OfPairs
<1>13. Todo(t)'
  BY <1>1, <1>2, <1>8 DEF Todo, OwnTells
<1> QED
  BY <1>8, <1>11, <1>12, <1>13 DEF OwnTells

\* The newest version is one no assessment of the span is above.
LEMMA LatestIsNewest ==
  ASSUME Typed, Tells, NEW t \in Tasks, NEW r \in View(t).rows
  PROVE  LatestVersion(t, r.span) >= r.version
<1> DEFINE s == r.span
           seen == On(View(t).rows, s)
           versions == {q.version : q \in seen}
           f == [q \in seen |-> q.version]
<1>1. View(t).rows \subseteq AssessmentRows
  BY ViewTyped, TablesAre
<1>2. r.version \in versions /\ versions \subseteq Nat
  BY <1>1 DEF On, AssessmentRows
<1>3. IsFiniteSet(View(t).rows)
  <2>1. IsFiniteSet(db.rows) /\ IsFiniteSet(mine[t].rows)
    BY DEF Tells
  <2>2. IsFiniteSet(db.rows \cup mine[t].rows)
    BY <2>1, FS_Union, Zenon
  <2>3. View(t).rows = db.rows \cup mine[t].rows
    BY ViewIs
  <2> QED
    BY <2>2, <2>3
<1>4. IsFiniteSet(seen)
  <2>1. seen \in SUBSET View(t).rows
    BY DEF On
  <2> HIDE DEF seen
  <2> QED
    BY <1>3, <2>1, FS_Subset
<1>5. f \in Surjection(seen, versions)
  BY DEF Surjection
<1>6. LatestVersion(t, s) = IF versions = {} THEN 0
                            ELSE CHOOSE v \in versions : \A w \in versions : w <= v
  BY DEF LatestVersion
<1> HIDE DEF seen, f, versions
<1>7. IsFiniteSet(versions)
  BY <1>4, <1>5, FS_Surjection
<1>8. PICK v \in versions : \A w \in versions : w <= v
  BY <1>2, <1>7, Greatest
<1>9. \A w \in versions : w <= LatestVersion(t, s)
  BY <1>6, <1>8
<1>10. LatestVersion(t, s) \in versions
  BY <1>6, <1>8
<1> HIDE DEF s
<1>11. r.version <= LatestVersion(t, s) /\ r.version \in Nat /\ LatestVersion(t, s) \in Nat
  BY <1>2, <1>9, <1>10
<1> QED
  BY <1>11 DEF s

LEMMA ReadAssessmentsTells ==
  ASSUME Typed, IInv, Tells, NEW t \in Tasks, ReadAssessments(t)
  PROVE  Typed' /\ Alone(t) /\ OwnTells(t)'
<1> DEFINE new == [s \in {p[2] : p \in PairsOf(t)} |-> LatestVersion(t, s)]
<1>1. /\ pc[t] = "gate" /\ read' = [read EXCEPT ![t] = new]
      /\ pc' = [pc EXCEPT ![t] = "finish"]
      /\ stage' = stage /\ db' = db /\ todo' = todo /\ mine' = mine /\ locked' = locked
      /\ faults' = faults
  BY DEF ReadAssessments
<1>2. OwnTells(t) /\ Phase(t) /\ View(t)' = View(t)
  BY <1>1, EachTells DEF OwnTells, View
<1>3. Told(View(t), t)
  BY <1>1, <1>2 DEF Phase
<1>4. \A r \in View(t).rows : r.by = t => new[r.span] >= r.version
  <2>1. ASSUME NEW r \in View(t).rows, r.by = t
        PROVE  r.span \in {p[2] : p \in PairsOf(t)}
    <3>1. r.span \in Assessed(View(t), t)
      BY <2>1 DEF Assessed
    <3>2. Assessed(View(t), t) \subseteq SpansIn(Cited(View(t), t))
      BY <1>3 DEF Told, QualityTold, If
    <3> QED
      BY <3>1, <3>2 DEF SpansIn, Cited, PairsOf
  <2>2. \A r \in View(t).rows : LatestVersion(t, r.span) >= r.version
    BY LatestIsNewest
  <2>3. \A s \in {p[2] : p \in PairsOf(t)} : new[s] = LatestVersion(t, s)
    OBVIOUS
  <2> HIDE DEF new
  <2> QED
    BY <2>1, <2>2, <2>3
<1> HIDE DEF new
<1>5. read'[t] = new /\ Typed' /\ Alone(t) /\ pc'[t] = "finish"
  BY <1>1 DEF Typed, TypeOK, Alone
<1>6. ReadOk(t)'
  BY <1>2, <1>4, <1>5 DEF ReadOk
<1>7. Phase(t)'
  BY <1>1, <1>2, <1>3, <1>5, <1>6 DEF Phase
<1>8. Todo(t)'
  BY <1>1, <1>2, <1>5 DEF Todo, OwnTells
<1> QED
  BY <1>1, <1>2, <1>5, <1>7, <1>8 DEF OwnTells

LEMMA CommitTells ==
  ASSUME Typed, IInv, Tells, NEW t \in Tasks, NEW status, NEW next, Commit(t, status, next),
         faults' \in 0 .. MaxFaults,
         \/ /\ status = "decided" /\ next = "done" /\ pc[t] = "finish"
         \/ /\ status = "analyzing" /\ next = "waiting" /\ pc[t] = "link"
         \/ /\ status = "analyzed_partial" /\ next = "waiting" /\ pc[t] = "gate"
  PROVE  Typed' /\ Alone(t) /\ OwnTells(t)'
<1>1. /\ stage' = [stage EXCEPT ![t] = status] /\ db' = View(t) /\ pc' = [pc EXCEPT ![t] = next]
      /\ mine' = [mine EXCEPT ![t] = Nothing] /\ locked' = [locked EXCEPT ![t] = {}]
      /\ todo' = [todo EXCEPT ![t] = <<>>] /\ read' = read
  BY DEF Commit, End
<1>2. OwnTells(t) /\ Phase(t)
  BY EachTells DEF OwnTells
<1>3. /\ stage'[t] = status /\ pc'[t] = next /\ mine'[t] = Nothing /\ todo'[t] = <<>>
  BY <1>1 DEF Typed, TypeOK
<1>4. View(t) \in Tables
  BY ViewTyped
<1>5. Typed' /\ Alone(t)
  BY <1>1, <1>4, NothingTyped DEF Typed, TypeOK, Alone
<1>6. Same(db', View(t), t) /\ Same(View(t)', View(t), t) /\ View(t)'.rows = View(t).rows
  <2>1. /\ View(t)'.links = View(t).links /\ View(t)'.rows = View(t).rows
        /\ View(t)'.checks = View(t).checks /\ View(t)'.audits = View(t).audits
    <3>1. /\ View(t)'.links = db'.links \cup mine'[t].links
          /\ View(t)'.rows = db'.rows \cup mine'[t].rows
          /\ View(t)'.checks = db'.checks \cup mine'[t].checks
          /\ View(t)'.audits = db'.audits \cup mine'[t].audits
      BY ViewThen
    <3> QED
      BY <1>1, <1>3, <3>1, NothingTyped
  <2> QED
    BY <1>1, <2>1 DEF Same, Cited, Assessed, Checked, Audited
<1>7. /\ Told(View(t)', t) <=> Told(View(t), t)
      /\ Untouched(View(t)', t) <=> Untouched(View(t), t)
      /\ Untouched(db', t) <=> Untouched(View(t), t)
  BY <1>6, SameTold
<1>8. Phase(t)'
  <2>1. CASE status = "decided" /\ next = "done" /\ pc[t] = "finish"
    <3>1. ReadOk(t)'
      BY <1>1, <1>2, <1>6, <2>1 DEF Phase, ReadOk
    <3> QED
      BY <1>2, <1>3, <1>7, <2>1, <3>1 DEF Phase
  <2>2. CASE status = "analyzing" /\ next = "waiting" /\ pc[t] = "link"
    <3>1. stage[t] = "analyzing"
      BY <1>2, <2>2 DEF Phase, Typed, TypeOK
    <3> QED
      BY <1>2, <1>3, <1>7, <2>2, <3>1 DEF Phase
  <2>3. CASE status = "analyzed_partial" /\ next = "waiting" /\ pc[t] = "gate"
    BY <1>2, <1>3, <1>7, <2>3 DEF Phase
  <2> QED
    BY <2>1, <2>2, <2>3
<1>9. OwnRows(mine'[t], t) /\ OfPairs(mine'[t]) /\ IsFiniteSet(mine'[t].rows)
  BY <1>3, NothingTyped, FS_EmptySet DEF OwnRows, OfPairs
<1>10. Todo(t)'
  BY <1>3 DEF Todo
<1> QED
  BY <1>5, <1>8, <1>9, <1>10 DEF OwnTells

LEMMA RollBackTells ==
  ASSUME Typed, IInv, Tells, NEW t \in Tasks, RollBack(t), pc[t] # "done",
         faults' \in 0 .. MaxFaults
  PROVE  Typed' /\ Alone(t) /\ OwnTells(t)'
<1>1. /\ pc' = [pc EXCEPT ![t] = "waiting"]
      /\ read' = [read EXCEPT ![t] = [s \in {} |-> 0]]
      /\ mine' = [mine EXCEPT ![t] = Nothing] /\ locked' = [locked EXCEPT ![t] = {}]
      /\ todo' = [todo EXCEPT ![t] = <<>>] /\ stage' = stage /\ db' = db
  BY DEF RollBack, End
<1>2. OwnTells(t) /\ Phase(t)
  BY EachTells DEF OwnTells
<1>3. pc'[t] = "waiting" /\ mine'[t] = Nothing /\ todo'[t] = <<>>
  BY <1>1 DEF Typed, TypeOK
<1>4. Typed' /\ Alone(t)
  BY <1>1, NothingTyped DEF Typed, TypeOK, Alone
<1>5. Phase(t)'
  <2>1. CASE stage[t] = "analyzing"
    <3>1. Same(View(t)', db, t)
      BY <1>1, <1>3, ViewThen, NothingTyped DEF Same, Cited, Assessed, Checked, Audited
    <3>2. Untouched(View(t)', t) <=> Untouched(db, t)
      BY <3>1, SameTold
    <3> QED
      BY <1>1, <1>2, <1>3, <2>1, <3>2 DEF Phase
  <2>2. CASE stage[t] # "analyzing"
    <3>1. mine[t] = Nothing
      BY <1>2, <2>2 DEF Phase
    <3>2. View(t)' = View(t)
      BY <1>1, <1>3, <3>1 DEF View
    <3> QED
      BY <1>1, <1>2, <1>3, <2>2, <3>2 DEF Phase
  <2> QED
    BY <2>1, <2>2
<1>6. OwnRows(mine'[t], t) /\ OfPairs(mine'[t]) /\ IsFiniteSet(mine'[t].rows)
  BY <1>3, NothingTyped, FS_EmptySet DEF OwnRows, OfPairs
<1>7. Todo(t)'
  BY <1>3 DEF Todo
<1> QED
  BY <1>4, <1>5, <1>6, <1>7 DEF OwnTells

-----------------------------------------------------------------------------
(* Every step, and the theorems                                            *)

LEMMA TaskStepTells ==
  ASSUME Typed, IInv, Tells, NEW t \in Tasks, TaskStep(t)
  PROVE  Typed' /\ Tells'
<1>1. Typed' /\ Alone(t) /\ OwnTells(t)'
  <2>1. CASE Begin(t)
    BY <2>1, BeginTells
  <2>2. CASE LinkPair(t)
    BY <2>2, LinkPairTells
  <2>3. CASE StartQuality(t)
    BY <2>3, StartQualityTells
  <2>4. CASE LockSpan(t)
    BY <2>4, LockSpanTells
  <2>5. CASE Assess(t)
    BY <2>5, AssessTells
  <2>6. CASE FinishQuality(t)
    BY <2>6, FinishQualityTells
  <2>7. CASE CheckEntailment(t)
    BY <2>7, CheckEntailmentTells
  <2>8. CASE ReadAssessments(t)
    BY <2>8, ReadAssessmentsTells
  <2>9. CASE Finish(t)
    <3>1. pc[t] = "finish" /\ Commit(t, "decided", "done") /\ faults' \in 0 .. MaxFaults
      BY <2>9 DEF Finish, Typed, TypeOK
    <3> QED
      BY <3>1, CommitTells
  <2> QED
    BY <2>1, <2>2, <2>3, <2>4, <2>5, <2>6, <2>7, <2>8, <2>9 DEF TaskStep
<1> QED
  BY <1>1, StepTells

LEMMA FailureTells ==
  ASSUME Typed, IInv, Tells, NEW t \in Tasks, Failure(t) \/ DeadlockAbort(t)
  PROVE  Typed' /\ Tells'
<1>0. faults \in 0 .. MaxFaults
  BY DEF Typed, TypeOK
<1>1. Typed' /\ Alone(t) /\ OwnTells(t)'
  <2>1. CASE QualityRaises(t)
    <3>1. /\ QualityFails(t) /\ pc[t] = "quality" /\ UNCHANGED <<stage, db, read>>
          /\ faults' \in 0 .. MaxFaults
      BY <1>0, <2>1, ChecksAssumption DEF QualityRaises
    <3> QED
      BY <3>1, QualityFailsTells
  <2>2. CASE EntailmentRaises(t)
    BY <2>2, EntailmentRaisesTells
  <2>3. CASE PipelineRaises(t)
    <3>1. faults' \in 0 .. MaxFaults
      BY <1>0, <2>3, ChecksAssumption DEF PipelineRaises
    <3>2. CASE pc[t] = "link" /\ Commit(t, "analyzing", "waiting")
      BY <3>1, <3>2, CommitTells
    <3>3. CASE pc[t] = "gate" /\ Commit(t, "analyzed_partial", "waiting")
      BY <3>1, <3>3, CommitTells
    <3> QED
      BY <2>3, <3>2, <3>3 DEF PipelineRaises
  <2>4. CASE Crash(t)
    <3>1. RollBack(t) /\ pc[t] # "done" /\ faults' \in 0 .. MaxFaults
      BY <1>0, <2>4, ChecksAssumption DEF Crash
    <3> QED
      BY <3>1, RollBackTells
  <2>5. CASE DeadlockAbort(t)
    <3>1. faults' \in 0 .. MaxFaults
      BY <1>0, <2>5 DEF DeadlockAbort
    <3>2. CASE pc[t] = "quality"
      <4>1. QualityFails(t) /\ UNCHANGED <<stage, db, read>>
        BY <2>5, <3>2 DEF DeadlockAbort
      <4> QED
        BY <3>1, <3>2, <4>1, QualityFailsTells
    <3>3. CASE pc[t] # "quality"
      <4>1. RollBack(t)
        BY <2>5, <3>3 DEF DeadlockAbort
      <4>2. pc[t] # "done"
        \* Every task of a cycle has a lock to wait for.
        <5>1. PICK some \in SUBSET Tasks :
                /\ t \in some
                /\ \E next \in [some -> some] : \A u \in some : next[u] \in Blockers(u)
          BY <2>5 DEF DeadlockAbort, InCycle
        <5>2. Blockers(t) # {}
          BY <5>1
        <5> QED
          BY <5>2 DEF Blockers
      <4> QED
        BY <3>1, <4>1, <4>2, RollBackTells
    <3> QED
      BY <3>2, <3>3
  <2> QED
    BY <2>1, <2>2, <2>3, <2>4, <2>5 DEF Failure
<1> QED
  BY <1>1, StepTells

LEMMA StepTellsAll == Typed /\ IInv /\ Tells /\ [Next]_vars => Typed' /\ Tells'
<1> SUFFICES ASSUME Typed, IInv, Tells, [Next]_vars
             PROVE  Typed' /\ Tells'
  OBVIOUS
<1>1. CASE \E t \in Tasks : TaskStep(t) \/ Failure(t) \/ DeadlockAbort(t)
  BY <1>1, TaskStepTells, FailureTells
<1>2. CASE UNCHANGED vars
  <2>1. /\ stage' = stage /\ db' = db /\ pc' = pc /\ todo' = todo /\ mine' = mine
        /\ locked' = locked /\ read' = read /\ faults' = faults
    BY <1>2 DEF vars
  <2>2. Typed'
    BY <2>1 DEF Typed, TypeOK
  <2>3. \A t \in Tasks : OwnTells(t)'
    <3> SUFFICES ASSUME NEW t \in Tasks PROVE OwnTells(t)'
      OBVIOUS
    <3>1. View(t)' = View(t)
      BY <2>1 DEF View
    <3>2. Phase(t)' <=> Phase(t)
      BY <2>1, <3>1 DEF Phase, ReadOk
    <3> QED
      BY <2>1, <3>2, EachTells DEF OwnTells, Todo
  <2> QED
    BY <2>1, <2>2, <2>3 DEF Tells, OwnTells
<1> QED
  BY <1>1, <1>2 DEF Next, AllDone

LEMMA InitTells == Init => Typed /\ Tells
<1> SUFFICES ASSUME Init PROVE Typed /\ Tells
  OBVIOUS
<1>1. Typed
  BY NothingTyped, ChecksAssumption DEF Init, Typed, TypeOK
<1>2. db = Nothing /\ OfPairs(db) /\ IsFiniteSet(db.rows)
  BY NothingTyped, FS_EmptySet DEF Init, OfPairs
<1>3. ASSUME NEW t \in Tasks PROVE OwnTells(t)
  <2>1. mine[t] = Nothing /\ pc[t] = "waiting" /\ todo[t] = <<>> /\ stage[t] = "analyzing"
    BY DEF Init
  <2>2. OwnRows(mine[t], t) /\ OfPairs(mine[t]) /\ IsFiniteSet(mine[t].rows)
    BY <2>1, NothingTyped, FS_EmptySet DEF OwnRows, OfPairs
  <2>3. Untouched(db, t)
    BY <1>2, NothingTyped DEF Untouched, Assessed, Checked, Audited
  <2>4. /\ View(t).rows = {} /\ View(t).checks = {} /\ View(t).audits = {}
    BY <1>2, <2>1, ViewIs, NothingTyped
  <2>5. Untouched(View(t), t)
    BY <2>4 DEF Untouched, Assessed, Checked, Audited
  <2> QED
    BY <2>1, <2>2, <2>3, <2>5 DEF OwnTells, Todo, Phase
<1> QED
  BY <1>1, <1>2, <1>3 DEF Tells, OwnTells

\* The inductive invariant: at each place of its handler, what a task has
\* linked, assessed, checked and audited, whatever the others do.
THEOREM AlwaysTells == Spec => [](Typed /\ IInv /\ Tells)
<1>1. Init => Typed /\ IInv /\ Tells
  BY InitIInv, InitTells
<1>2. Typed /\ IInv /\ Tells /\ [Next]_vars => (Typed /\ IInv /\ Tells)'
  BY StepIInv, StepTellsAll
<1> QED
  BY <1>1, <1>2, PTL DEF Spec

\* Types; a task that is not being handled owns no lock and no write.
THEOREM TypeCorrect == Spec => []TypeOK
<1>1. Typed /\ IInv /\ Tells => TypeOK
  BY DEF Typed
<1> QED
  BY <1>1, AlwaysTells, PTL

\* What the database holds of a task is what its committed audits say.
LEMMA DbTells ==
  ASSUME Typed, Tells, NEW t \in Tasks
  PROVE  IF stage[t] = "analyzing" THEN Untouched(db, t) ELSE Told(db, t)
<1>1. Phase(t)
  BY EachTells DEF OwnTells
<1>2. CASE stage[t] = "analyzing"
  BY <1>1, <1>2 DEF Phase
<1>3. CASE stage[t] # "analyzing"
  <2>1. mine[t] = Nothing /\ Told(View(t), t)
    BY <1>1, <1>3 DEF Phase
  <2>2. Same(View(t), db, t)
    BY <2>1, ViewIs, NothingTyped DEF Same, Cited, Assessed, Checked, Audited
  <2> QED
    BY <1>3, <2>1, <2>2, SameTold
<1> QED
  BY <1>2, <1>3

\* The audits of the two steps of a task, read back.
ReadBack(T, t) ==
  /\ Assessed(T, t) = IF Audit("source_quality_assessed", t, "completed") \in T.audits
                      THEN SpansIn(Cited(T, t)) ELSE {}
  /\ Checked(T, t) = IF Audit("entailment_checked", t, "completed") \in T.audits
                     THEN Cited(T, t) ELSE {}
  /\ \A e \in {"source_quality_assessed", "entailment_checked"} :
       \E a : {b \in T.audits : b.event = e /\ b.task = t} = {a}

LEMMA AuditsOf ==
  ASSUME NEW T, NEW t, Told(T, t)
  PROVE  ReadBack(T, t)
<1>1. PICK q \in Statuses, e \in Statuses :
        /\ Audited(T, t) = {Audit("source_quality_assessed", t, q),
                            Audit("entailment_checked", t, e)}
        /\ QualityTold(T, t, q)
        /\ Checked(T, t) = If(e, Cited(T, t))
  BY DEF Told
<1>2. \A a : a.task = t => (a \in T.audits <=> a = Audit("source_quality_assessed", t, q)
                                               \/ a = Audit("entailment_checked", t, e))
  BY <1>1 DEF Audited
<1>3. \A x, s : Audit(x, t, s).task = t /\ Audit(x, t, s).event = x /\ Audit(x, t, s).status = s
  BY DEF Audit
<1>4. /\ Audit("source_quality_assessed", t, "completed") \in T.audits <=> q = "completed"
      /\ Audit("entailment_checked", t, "completed") \in T.audits <=> e = "completed"
  BY <1>2, <1>3
<1>5. /\ {b \in T.audits : b.event = "source_quality_assessed" /\ b.task = t}
           = {Audit("source_quality_assessed", t, q)}
      /\ {b \in T.audits : b.event = "entailment_checked" /\ b.task = t}
           = {Audit("entailment_checked", t, e)}
  BY <1>2, <1>3
<1> QED
  BY <1>1, <1>4, <1>5 DEF QualityTold, If, ReadBack

\* A task whose quality or entailment step is audited as completed has
\* assessed every span, or checked every pair, it cites; otherwise none; and a
\* task past the steps has one audit of each (task_created.py:292-585).
THEOREM AuditIsTrue == Spec => []AuditTellsTheTables
<1>1. Typed /\ IInv /\ Tells => AuditTellsTheTables
  <2> SUFFICES ASSUME Typed, Tells, NEW t \in Tasks
               PROVE  LET cited == {l.pair : l \in {k \in db.links : k.task = t}}
                          assessed == {r.span : r \in {q \in db.rows : q.by = t}}
                          checked == {c.pair : c \in {d \in db.checks : d.task = t}}
                          done(e) == Audit(e, t, "completed") \in db.audits
                      IN
                      /\ assessed = IF done("source_quality_assessed") THEN {p[2] : p \in cited} ELSE {}
                      /\ checked = IF done("entailment_checked") THEN cited ELSE {}
                      /\ stage[t] # "analyzing" =>
                           \A e \in {"source_quality_assessed", "entailment_checked"} :
                             Cardinality({a \in db.audits : a.event = e /\ a.task = t}) = 1
    BY DEF AuditTellsTheTables
  <2>1. CASE stage[t] = "analyzing"
    <3>1. Untouched(db, t)
      BY <2>1, DbTells
    <3>2. \A e, s : Audit(e, t, s) \notin db.audits
      BY <3>1 DEF Untouched, Audited, Audit
    <3> QED
      BY <2>1, <3>1, <3>2 DEF Untouched, Assessed, Checked
  <2>2. CASE stage[t] # "analyzing"
    <3>1. Told(db, t)
      BY <2>2, DbTells
    <3>2. ReadBack(db, t)
      BY <3>1, AuditsOf
    <3>3. ASSUME NEW e \in {"source_quality_assessed", "entailment_checked"}
          PROVE  Cardinality({a \in db.audits : a.event = e /\ a.task = t}) = 1
      <4>1. PICK a : {b \in db.audits : b.event = e /\ b.task = t} = {a}
        BY <3>2 DEF ReadBack
      <4>2. Cardinality({a}) = 1
        BY FS_Singleton
      <4> QED
        BY <4>1, <4>2
    <3> QED
      BY <3>2, <3>3 DEF ReadBack, Assessed, Checked, SpansIn, Cited
  <2> QED
    BY <2>1, <2>2
<1> QED
  BY <1>1, AlwaysTells, PTL

\* The gate of a task decides on its own assessment of a span or on a newer
\* one, in whatever attempt it runs (final_answer_gate.py:293-297).
THEOREM GateNeverReadsOlder == Spec => []GateReadsOwnOrNewer
<1>1. Typed /\ IInv /\ Tells => GateReadsOwnOrNewer
  <2> SUFFICES ASSUME Typed, Tells, NEW t \in Tasks, NEW r \in db.rows \cup mine[t].rows,
                      r.by = t, pc[t] \in {"finish", "done"}
               PROVE  read[t][r.span] >= r.version
    BY DEF GateReadsOwnOrNewer
  <2>1. ReadOk(t)
    BY EachTells DEF OwnTells, Phase
  <2>2. r \in View(t).rows
    BY ViewIs
  <2> QED
    BY <2>1, <2>2 DEF ReadOk
<1> QED
  BY <1>1, AlwaysTells, PTL
=============================================================================
