----------------------------- MODULE ClaimLedger -----------------------------
(***************************************************************************)
(* The claim ledger of one task: the pipeline of the worker writes it      *)
(* (extractor, CVE-lite, compiler, gate) while source losses are           *)
(* propagated through it.  Every run of the pipeline and every propagation *)
(* is one transaction (READ COMMITTED).                                    *)
(*                                                                         *)
(* Locks: a propagation locks the row of a claim FOR UPDATE; an insert of  *)
(* the pipeline that refers to a claim locks it FOR KEY SHARE, and waits   *)
(* for the former; audit_append locks the head of the task's audit chain   *)
(* (AuditChain).  All are kept to the end of the transaction.              *)
(***************************************************************************)
EXTENDS Naturals, Sequences, FiniteSets

CONSTANTS
  Claims,      \* sentences of the documents; the order of numbers is that of ids
  Spans,       \* evidence spans
  SpansOf,     \* the spans whose chunk contains the sentence
  Intact,      \* spans whose quote is found in their chunk
  Events,      \* committed source_loss_events
  SpanOf,      \* the span each of them lost
  Pipe,        \* the transaction of the pipeline
  Losers,      \* transactions of source-loss consumers
  Nobody,
  MaxFaults    \* bound: exceptions and crashes

ASSUME LedgerAssumption ==
  /\ Claims \subseteq Nat \ {0} /\ IsFiniteSet(Claims)
  /\ SpansOf \in [Claims -> (SUBSET Spans) \ {{}}]
  /\ Intact \subseteq Spans
  /\ SpanOf \in [Events -> Spans]
  /\ Pipe \notin Losers /\ Nobody \notin Losers \cup {Pipe}
  /\ MaxFaults \in Nat

VARIABLES
  ledger,    \* committed claim_ledger_entries, with lineage and evidence links
  task,      \* committed status, draft spans and answer of the task
  records,   \* committed source_loss_propagation_records
  trail,     \* committed source-loss audit events of the task
  done,      \* events whose processing record is succeeded
  pc,        \* where each transaction is
  mine,      \* ledger entries, records and audits a transaction has added
  work,      \* what the pipeline has made of the task
  plan,      \* claims the pipeline still has to verify, or entries to compile
  event,     \* the event each propagation handles
  impact,    \* the claims it found linked to the lost span
  todo,      \* those of them it has not handled yet
  seen,      \* the latest version it read of the claim it has locked
  forUpdate, \* the lock on each logical_claims row
  keyShare,  \* the claims the pipeline's inserts refer to
  headLock,  \* the lock on the head of the task's audit chain
  faults

store == <<ledger, task, records, trail, done>>
pipeline == <<work, plan, keyShare>>
propagation == <<event, impact, todo, seen, forUpdate>>
vars == <<store, pc, mine, pipeline, propagation, headLock, faults>>

Workers == Losers \cup {Pipe}
NoEvent == "none"
Everything == 0      \* target of a record about no single claim
Empty == [ledger |-> {}, records |-> {}, trail |-> <<>>]
Fresh == [status |-> "analyzing", draft |-> <<>>, answer |-> "none"]

Init ==
  /\ ledger = {} /\ task = Fresh /\ records = {} /\ trail = <<>> /\ done = {}
  /\ pc = [w \in Workers |-> "idle"]
  /\ mine = [w \in Workers |-> Empty]
  /\ work = Fresh /\ plan = <<>> /\ keyShare = {}
  /\ event = [w \in Losers |-> NoEvent]
  /\ impact = [w \in Losers |-> {}]
  /\ todo = [w \in Losers |-> {}]
  /\ seen = [w \in Losers |-> 0]
  /\ forUpdate = [c \in Claims |-> Nobody]
  /\ headLock = Nobody
  /\ faults = 0

-----------------------------------------------------------------------------
(* The ledger as a statement of a transaction sees it                      *)

View(w) == ledger \cup mine[w].ledger
EntriesOf(rows, c) == {e \in rows : e.claim = c}

\* ORDER BY version_no DESC LIMIT 1
Latest(rows, c) ==
  CHOOSE e \in EntriesOf(rows, c) : \A d \in EntriesOf(rows, c) : d.version <= e.version

IsLatest(rows, c, version) ==
  /\ EntriesOf(rows, c) # {}
  /\ Latest(rows, c).version = version

Entry(c, version, state, spans, parent, by) ==
  [claim |-> c, version |-> version, state |-> state, spans |-> spans,
   parent |-> parent, by |-> by]

Goto(w, p) == pc' = [pc EXCEPT ![w] = p]

\* Mutant: audit_append reads the head without FOR UPDATE.
IgnoreHeadLock(w) == TRUE
CanLockHead(w) == headLock \in {Nobody, w}

\* Mutant: the lock on the chain's head outlives the transaction.
EndKeepingHead(w) ==
  /\ mine' = [mine EXCEPT ![w] = Empty]
  /\ UNCHANGED headLock
  /\ Goto(w, "idle")

\* The end of w's transaction, COMMIT or ROLLBACK.
End(w) ==
  /\ mine' = [mine EXCEPT ![w] = Empty]
  /\ headLock' = IF headLock = w THEN Nobody ELSE headLock
  /\ Goto(w, "idle")

EndPropagation(w) ==
  /\ End(w)
  /\ event' = [event EXCEPT ![w] = NoEvent]
  /\ impact' = [impact EXCEPT ![w] = {}]
  /\ todo' = [todo EXCEPT ![w] = {}]
  /\ seen' = [seen EXCEPT ![w] = 0]
  /\ forUpdate' = [c \in Claims |-> IF forUpdate[c] = w THEN Nobody ELSE forUpdate[c]]
  /\ UNCHANGED pipeline

EndPipeline(committed) ==
  /\ End(Pipe)
  /\ work' = committed /\ plan' = <<>> /\ keyShare' = {}
  /\ UNCHANGED propagation

Publish(w) ==
  /\ ledger' = ledger \cup mine[w].ledger
  /\ records' = records \cup mine[w].records
  /\ trail' = trail \o mine[w].trail

Fault == faults < MaxFaults /\ faults' = faults + 1

-----------------------------------------------------------------------------
(* The pipeline                                                            *)

AsSequence(S) ==
  CHOOSE s \in [1 .. Cardinality(S) -> S] : \A i, j \in DOMAIN s : i < j => s[i] < s[j]

\* A sentence is one logical claim per task, however often it is found.
NewClaims == {c \in Claims : EntriesOf(ledger, c) = {}}

\* What is stored of it: raw and classified claims (left out), version 1, and a
\* link to every span it was found in.
Candidate(c) == Entry(c, 1, "candidate", SpansOf[c], 0, Pipe)

\* run_extraction, after the audits that come first.
Extract ==
  /\ pc[Pipe] = "idle" /\ task.status = "analyzing"
  /\ CanLockHead(Pipe) /\ headLock' = Pipe
  /\ mine' = [mine EXCEPT ![Pipe].ledger = {Candidate(c) : c \in NewClaims}]
  /\ plan' = AsSequence(Claims)
  /\ Goto(Pipe, "verify")
  /\ UNCHANGED <<store, work, keyShare, propagation, faults>>

Outcome(s) == IF s \in Intact THEN "verified_fact" ELSE "unverifiable"

\* Version 2, its lineage, and its link to the one span that was looked at.
Verification(c, s) == Entry(c, 2, Outcome(s), {s}, 1, Pipe)

HasVersion2(c) == \E e \in EntriesOf(View(Pipe), c) : e.version = 2

\* Mutant: the verification is appended whatever versions exist.
VerifyAlways(i) ==
  LET c == plan[i] IN
  /\ pc[Pipe] = "verify"
  /\ plan' = SubSeq(plan, 1, i - 1) \o SubSeq(plan, i + 1, Len(plan))
  /\ forUpdate[c] = Nobody
  /\ \E s \in SpansOf[c] :
       mine' = [mine EXCEPT ![Pipe].ledger = @ \cup
         {Entry(c, Latest(View(Pipe), c).version + 1, Outcome(s), {s},
                Latest(View(Pipe), c).version, Pipe)}]
  /\ keyShare' = keyShare \cup {c}
  /\ UNCHANGED <<store, pc, work, propagation, headLock, faults>>

\* One claim of run_cve_lite.  Its rows come in no order; the first of them
\* decides about version 2, which is linked to that row's span only.  Where a
\* version 2 exists (or appears while the insert waits) nothing is written.
VerifyClaim(i) ==
  LET c == plan[i] IN
  /\ pc[Pipe] = "verify"
  /\ plan' = SubSeq(plan, 1, i - 1) \o SubSeq(plan, i + 1, Len(plan))
  /\ \/ HasVersion2(c) /\ UNCHANGED <<mine, keyShare>>
     \/ /\ ~HasVersion2(c)
        /\ forUpdate[c] = Nobody
        /\ \E s \in SpansOf[c] :
             mine' = [mine EXCEPT ![Pipe].ledger = @ \cup {Verification(c, s)}]
        /\ keyShare' = keyShare \cup {c}
  /\ UNCHANGED <<store, pc, work, propagation, headLock, faults>>

\* The transition to analyzed_partial, and at once or in a later run of the
\* pipeline the one to compiling, with its audit.
AdvanceToCompiling ==
  /\ \/ pc[Pipe] = "verify" /\ plan = <<>>
     \/ pc[Pipe] = "idle" /\ task.status = "analyzed_partial"
  /\ CanLockHead(Pipe) /\ headLock' = Pipe
  /\ work' = [work EXCEPT !.status = "compiling"]
  /\ Goto(Pipe, "select")
  /\ UNCHANGED <<store, mine, plan, keyShare, propagation, faults>>

\* A task found in compiling goes straight to the compiler: no audit yet.
ResumeCompiling ==
  /\ pc[Pipe] = "idle" /\ task.status = "compiling"
  /\ Goto(Pipe, "select")
  /\ UNCHANGED <<store, mine, pipeline, propagation, headLock, faults>>

VerifiedNow(c) ==
  /\ EntriesOf(View(Pipe), c) # {}
  /\ Latest(View(Pipe), c).state = "verified_fact"

\* run_compilation's query: the latest entry of each claim that is verified, by
\* (created_at, id), which is by id for claims of one transaction.
SelectVerified ==
  /\ pc[Pipe] = "select"
  /\ LET cs == AsSequence({c \in Claims : VerifiedNow(c)}) IN
     plan' = [i \in DOMAIN cs |->
                [claim |-> cs[i], version |-> Latest(View(Pipe), cs[i]).version,
                 span |-> i]]
  /\ Goto(Pipe, "compile")
  /\ UNCHANGED <<store, mine, work, keyShare, propagation, headLock, faults>>

\* The span of this index is inserted unless there is one, whatever its text.
SpanAt(draft, row) ==
  IF row.span > Len(draft) THEN Append(draft, [text |-> row.claim, links |-> {}]) ELSE draft

\* Its link to the entry is inserted unless there is one.
LinkAt(draft, row) ==
  [draft EXCEPT ![row.span].links = @ \cup {<<row.claim, row.version>>}]

\* One round of the compiler's loop; a new link waits for the claim's row.
CompileSpan ==
  /\ pc[Pipe] = "compile" /\ plan # <<>>
  /\ LET row == Head(plan)
         draft == LinkAt(SpanAt(work.draft, row), row) IN
     \/ /\ draft # work.draft
        /\ forUpdate[row.claim] = Nobody
        /\ work' = [work EXCEPT !.draft = draft]
        /\ keyShare' = keyShare \cup {row.claim}
     \/ /\ draft = work.draft
        /\ UNCHANGED <<work, keyShare>>
  /\ plan' = Tail(plan)
  /\ UNCHANGED <<store, pc, mine, propagation, headLock, faults>>

\* A link that points to the latest entry of its claim, a verified one.
Backs(rows, link) ==
  /\ IsLatest(rows, link[1], link[2])
  /\ Latest(rows, link[1]).state = "verified_fact"

Supported(rows, span) == \E link \in span.links : Backs(rows, link)

\* Mutant: any link to an entry that was verified will do.
ApprovesOutdated ==
  /\ work.draft # <<>>
  /\ \A i \in DOMAIN work.draft : work.draft[i].links # {}

Approves ==
  /\ work.draft # <<>>
  /\ \A i \in DOMAIN work.draft : Supported(View(Pipe), work.draft[i])

\* The audit of the compilation, then run_final_answer_gate (FinalAnswerGate).
RunGate ==
  /\ pc[Pipe] = "compile" /\ plan = <<>>
  /\ CanLockHead(Pipe) /\ headLock' = Pipe
  /\ work' = [work EXCEPT !.status = "judged",
                          !.answer = IF Approves THEN "published" ELSE "none"]
  /\ Goto(Pipe, "commit")
  /\ UNCHANGED <<store, mine, plan, keyShare, propagation, faults>>

CommitPipeline ==
  /\ pc[Pipe] = "commit"
  /\ Publish(Pipe) /\ task' = work
  /\ EndPipeline(work)
  /\ UNCHANGED <<done, faults>>

\* A service raises: the handler commits what was done so far.
PipelineRaises ==
  /\ Fault
  /\ \/ pc[Pipe] = "verify" /\ plan = AsSequence(Claims) /\ task' = work
     \/ /\ pc[Pipe] = "verify" /\ plan = <<>>
        /\ task' = [work EXCEPT !.status = "analyzed_partial"]
     \/ pc[Pipe] = "select" /\ task' = work
     \/ pc[Pipe] = "compile" /\ plan = <<>> /\ task' = work
  /\ Publish(Pipe)
  /\ EndPipeline(task')
  /\ UNCHANGED done

PipelineCrashes ==
  /\ Fault
  /\ pc[Pipe] # "idle"
  /\ EndPipeline(task)
  /\ UNCHANGED store

-----------------------------------------------------------------------------
(* propagate_source_loss                                                   *)

\* The claims with any version linked to the lost span, as committed now.
Linked(e) == {c \in Claims : \E r \in EntriesOf(ledger, c) : SpanOf[e] \in r.spans}

Record(e, kind, target) == [event |-> e, kind |-> kind, target |-> target]

\* What occupies the slot of a unique partial index: recorded and skipped
\* share one.
Slot(r) == <<r.event, IF r.kind = "skipped" THEN "recorded" ELSE r.kind, r.target>>
Taken(w, r) == \E q \in records \cup mine[w].records : Slot(q) = Slot(r)

\* ... ON CONFLICT DO NOTHING
AddRecord(w, r) == IF Taken(w, r) THEN {} ELSE {r}

\* begin_processing and the impact query.  The processing record, whose key is
\* the event's, keeps two consumers from handling one event at a time.
BeginPropagation(w, e) ==
  /\ pc[w] = "idle"
  /\ e \notin done /\ \A v \in Losers : event[v] # e
  /\ event' = [event EXCEPT ![w] = e]
  /\ impact' = [impact EXCEPT ![w] = Linked(e)]
  /\ todo' = [todo EXCEPT ![w] = Linked(e)]
  /\ IF Linked(e) = {}
     THEN /\ mine' = [mine EXCEPT ![w].records = AddRecord(w, Record(e, "no_claims", Everything))]
          /\ Goto(w, "commit")
     ELSE Goto(w, "claims") /\ UNCHANGED mine
  /\ UNCHANGED <<store, pipeline, seen, forUpdate, headLock, faults>>

CanLockClaim(w, c) ==
  /\ forUpdate[c] \in {Nobody, w}
  /\ c \notin keyShare

\* Mutant: the latest version is read without locking the claim.
ReadClaim(w, c) ==
  /\ pc[w] = "claims" /\ c \in todo[w] /\ \A d \in todo[w] : c <= d
  /\ seen' = [seen EXCEPT ![w] = Latest(View(w), c).version]
  /\ Goto(w, IF Latest(View(w), c).state = "source_lost" THEN "skip" ELSE "append")
  /\ UNCHANGED <<store, mine, pipeline, event, impact, todo, forUpdate, headLock, faults>>

\* SELECT ... FOR UPDATE on the next claim, in the order of ids, and the latest
\* entry as committed by then.  (An entry always exists: the claim was found
\* through one.)
LockClaim(w, c) ==
  /\ pc[w] = "claims" /\ c \in todo[w] /\ \A d \in todo[w] : c <= d
  /\ CanLockClaim(w, c)
  /\ forUpdate' = [forUpdate EXCEPT ![c] = w]
  /\ seen' = [seen EXCEPT ![w] = Latest(View(w), c).version]
  /\ Goto(w, IF Latest(View(w), c).state = "source_lost" THEN "skip" ELSE "append")
  /\ UNCHANGED <<store, mine, pipeline, event, impact, todo, headLock, faults>>

Current(w) == CHOOSE c \in todo[w] : \A d \in todo[w] : c <= d

ToNextClaim(w) ==
  /\ todo' = [todo EXCEPT ![w] = @ \ {Current(w)}]
  /\ seen' = [seen EXCEPT ![w] = 0]
  /\ Goto(w, IF todo[w] = {Current(w)} THEN "answers" ELSE "claims")

\* The head is already source_lost.
SkipClaim(w) ==
  /\ pc[w] = "skip"
  /\ mine' = [mine EXCEPT ![w].records =
                @ \cup AddRecord(w, Record(event[w], "skipped", Current(w)))]
  /\ ToNextClaim(w)
  /\ UNCHANGED <<store, pipeline, event, impact, forUpdate, headLock, faults>>

\* Mutant: the lineage points to the first version.
LostEntryOfFirst(w) ==
  Entry(Current(w), seen[w] + 1, "source_lost", {}, 1, event[w])
LostEntry(w) ==
  Entry(Current(w), seen[w] + 1, "source_lost", {}, seen[w], event[w])

VersionTaken(w) == \E e \in EntriesOf(ledger, Current(w)) : e.version = seen[w] + 1

\* The next version, its lineage and its propagation record.  The insert has no
\* ON CONFLICT clause: see VersionStaysFree.
AppendUnverifiable(w) ==
  /\ pc[w] = "append" /\ ~VersionTaken(w)
  /\ mine' = [mine EXCEPT
       ![w].ledger = @ \cup {LostEntry(w)},
       ![w].records = @ \cup AddRecord(w, Record(event[w], "recorded", Current(w)))]
  /\ IF Taken(w, Record(event[w], "recorded", Current(w)))
     THEN ToNextClaim(w)
     ELSE Goto(w, "audit") /\ UNCHANGED <<todo, seen>>
  /\ UNCHANGED <<store, pipeline, event, impact, forUpdate, headLock, faults>>

AuditClaim(w) ==
  /\ pc[w] = "audit"
  /\ CanLockHead(w) /\ headLock' = w
  /\ mine' = [mine EXCEPT ![w].trail = Append(@, <<event[w], Current(w)>>)]
  /\ ToNextClaim(w)
  /\ UNCHANGED <<store, pipeline, event, impact, forUpdate, faults>>

\* The published answer, as committed now, shows a span linked to the claims.
Impacted(w) ==
  /\ task.answer = "published"
  /\ \E i \in DOMAIN task.draft : \E link \in task.draft[i].links : link[1] \in impact[w]

\* Mutant: the record of an impacted answer is audited whether it is new or not.
ReadAnswersAuditAlways(w) ==
  /\ pc[w] = "answers"
  /\ LET r == Record(event[w], IF Impacted(w) THEN "answer" ELSE "no_answer", Everything) IN
     /\ mine' = [mine EXCEPT ![w].records = @ \cup AddRecord(w, r)]
     /\ Goto(w, IF Impacted(w) THEN "audit_answer" ELSE "commit")
  /\ UNCHANGED <<store, pipeline, propagation, headLock, faults>>

\* Read after the claims.  The answer's own row is never touched.
ReadAnswers(w) ==
  /\ pc[w] = "answers"
  /\ LET r == Record(event[w], IF Impacted(w) THEN "answer" ELSE "no_answer", Everything) IN
     /\ mine' = [mine EXCEPT ![w].records = @ \cup AddRecord(w, r)]
     /\ Goto(w, IF Impacted(w) /\ ~Taken(w, r) THEN "audit_answer" ELSE "commit")
  /\ UNCHANGED <<store, pipeline, propagation, headLock, faults>>

AuditAnswer(w) ==
  /\ pc[w] = "audit_answer"
  /\ CanLockHead(w) /\ headLock' = w
  /\ mine' = [mine EXCEPT ![w].trail = Append(@, <<event[w], Everything>>)]
  /\ Goto(w, "commit")
  /\ UNCHANGED <<store, pipeline, propagation, faults>>

\* mark_succeeded and COMMIT.
CommitPropagation(w) ==
  /\ pc[w] = "commit"
  /\ Publish(w) /\ done' = done \cup {event[w]}
  /\ EndPropagation(w)
  /\ UNCHANGED <<task, faults>>

\* An exception between two steps: the consumer marks the record failed and
\* commits what was done so far; the event will come again.  Inside a step only
\* the database raises, after which mark_failed fails too (a crash, below).
PropagationRaises(w) ==
  /\ Fault
  /\ pc[w] \in {"claims", "answers", "commit"}
  /\ Publish(w)
  /\ EndPropagation(w)
  /\ UNCHANGED <<task, done>>

PropagationCrashes(w) ==
  /\ Fault
  /\ pc[w] # "idle"
  /\ EndPropagation(w)
  /\ UNCHANGED store

-----------------------------------------------------------------------------
(* What else may happen                                                    *)

\* apply_withdrawal (AnswerLifecycle): the answer is withdrawn and audited.
Withdraw ==
  /\ task.answer = "published" /\ headLock = Nobody
  /\ pc[Pipe] = "idle"
  /\ task' = [task EXCEPT !.answer = "withdrawn"]
  /\ work' = task'
  /\ UNCHANGED <<ledger, records, trail, done, pc, mine, plan, keyShare,
                 propagation, headLock, faults>>

WaitsForHead(w) ==
  /\ \/ pc[w] \in {"audit", "audit_answer"}
     \/ w = Pipe /\ pc[w] = "compile" /\ plan = <<>>
  /\ ~CanLockHead(w)

\* The claims the next statement of a transaction must lock.
Wants(w) ==
  IF w = Pipe
  THEN IF pc[w] = "verify" THEN {plan[i] : i \in DOMAIN plan} \cap {c \in Claims : ~HasVersion2(c)}
       ELSE IF pc[w] = "compile" /\ plan # <<>> THEN {Head(plan).claim} ELSE {}
  ELSE IF pc[w] = "claims" THEN {Current(w)} ELSE {}

Holds(w) == IF w = Pipe THEN keyShare ELSE {c \in Claims : forUpdate[c] = w}

WaitsFor(w, v) ==
  \/ WaitsForHead(w) /\ headLock = v
  \/ Wants(w) \cap Holds(v) # {}

\* Two transactions wait for each other: the database rolls one of them back.
DeadlockAbort(w, v) ==
  /\ WaitsFor(w, v) /\ WaitsFor(v, w)
  /\ IF w = Pipe THEN EndPipeline(task) ELSE EndPropagation(w)
  /\ UNCHANGED <<store, faults>>

PipelineStep ==
  \/ Extract
  \/ \E i \in DOMAIN plan : VerifyClaim(i)
  \/ AdvanceToCompiling
  \/ ResumeCompiling
  \/ SelectVerified
  \/ CompileSpan
  \/ RunGate
  \/ CommitPipeline

PropagationStep(w) ==
  \/ \E e \in Events : BeginPropagation(w, e)
  \/ \E c \in todo[w] : LockClaim(w, c)
  \/ SkipClaim(w)
  \/ AppendUnverifiable(w)
  \/ AuditClaim(w)
  \/ ReadAnswers(w)
  \/ AuditAnswer(w)
  \/ CommitPropagation(w)

Failure ==
  \/ PipelineRaises
  \/ PipelineCrashes
  \/ \E w \in Losers : PropagationRaises(w) \/ PropagationCrashes(w)
  \/ \E w, v \in Workers : DeadlockAbort(w, v)

Finished ==
  /\ task.status = "judged" /\ done = Events
  /\ \A w \in Workers : pc[w] = "idle"
  /\ UNCHANGED vars

Next ==
  \/ PipelineStep
  \/ \E w \in Losers : PropagationStep(w)
  \/ Withdraw
  \/ Failure
  \/ Finished

Spec == Init /\ [][Next]_vars

-----------------------------------------------------------------------------
(* Properties                                                              *)

States == {"candidate", "verified_fact", "unverifiable", "source_lost"}
Entries ==
  [claim : Claims, version : Nat, state : States, spans : SUBSET Spans,
   parent : Nat, by : Events \cup {Pipe}]
TaskRows ==
  [status : {"analyzing", "analyzed_partial", "compiling", "judged"},
   draft : Seq([text : Claims, links : SUBSET (Claims \X Nat)]),
   answer : {"none", "published", "withdrawn"}]
Records ==
  [event : Events, kind : {"recorded", "skipped", "no_claims", "answer", "no_answer"},
   target : Claims \cup {Everything}]

\* The type invariant.
TypeOK ==
  /\ ledger \subseteq Entries /\ task \in TaskRows /\ work \in TaskRows
  /\ records \subseteq Records /\ done \subseteq Events
  /\ \A w \in Workers :
       /\ mine[w].ledger \subseteq Entries
       /\ mine[w].records \subseteq Records
       /\ pc[w] = "idle" => mine[w] = Empty /\ headLock # w
  /\ \A w \in Losers :
       /\ event[w] \in Events \cup {NoEvent}
       /\ todo[w] \subseteq impact[w] /\ impact[w] \subseteq Claims
       /\ seen[w] \in Nat
  /\ forUpdate \in [Claims -> Losers \cup {Nobody}]
  /\ keyShare \subseteq Claims
  /\ headLock \in Workers \cup {Nobody}
  /\ faults \in 0 .. MaxFaults

\* The FOR UPDATE on logical_claims "guarantees that cle_logical_version_uq
\* cannot ... be violated under contention" (source_loss_propagator.py:53-58):
\* the version read under the lock is the latest until the next one is written,
\* the verifier's version 2 included.
VersionStaysFree ==
  \A w \in Losers : pc[w] = "append" => ~VersionTaken(w)

\* The committed versions of a claim are 1, 2, ... and each supersedes the one
\* before it, whoever wrote them and in whatever order the locks were taken.
LedgerIsAChain ==
  \A c \in Claims :
    LET es == EntriesOf(ledger, c) IN
    /\ {e.version : e \in es} = 1 .. Cardinality(es)
    /\ \A e \in es : e.parent = e.version - 1

\* A claim whose source was lost stays lost: no verification that was under way,
\* no rerun and no second loss appends to it.
SourceLostIsLast ==
  [][\A e \in ledger : e.state = "source_lost" =>
       EntriesOf(ledger', e.claim) = EntriesOf(ledger, e.claim)]_vars

Audited(e, target) == Cardinality({i \in DOMAIN trail : trail[i] = <<e, target>>})

\* However often an event is delivered and wherever its handling fails: each
\* claim is recorded at most once, a "recorded" row has the ledger entry it
\* speaks of, and claim and answer are audited once if recorded and else never.
PropagatedOnce ==
  /\ \A r, q \in records : Slot(r) = Slot(q) => r = q
  /\ \A r \in records : r.kind = "recorded" =>
       \E x \in ledger : x.claim = r.target /\ x.by = r.event /\ x.state = "source_lost"
  /\ \A e \in Events :
       /\ \A c \in Claims :
            Audited(e, c) = (IF Record(e, "recorded", c) \in records THEN 1 ELSE 0)
       /\ Audited(e, Everything) = (IF Record(e, "answer", Everything) \in records THEN 1 ELSE 0)

\* When a propagation that changed the ledger commits, an answer that is
\* published by then and shows one of its claims has its record: the answer
\* cannot slip in between the propagator's read and its commit.
ImpactOnAnswerIsRecorded ==
  [][\A w \in Losers :
       LET e == event[w] IN
       /\ pc[w] = "commit" /\ pc'[w] = "idle" /\ e \in done'
       /\ \E r \in mine[w].records : r.kind = "recorded"
       /\ Impacted(w)
       => Record(e, "answer", Everything) \in records']_vars

\* When an answer becomes visible, every span of it has a link to an entry that
\* is verified and still the latest in the committed ledger: no propagation
\* commits between the gate's read and the commit of its answer.
PublishedOnLatestEntries ==
  [][task.answer = "none" /\ task'.answer = "published" =>
       \A i \in DOMAIN task'.draft : Supported(ledger', task'.draft[i])]_vars

\* "final_answer_spans 1:1 with verified claims" (compiler.py:21): a span is
\* linked to the entries of the claim whose text it shows, to no other.
SpansShowTheirClaims ==
  \A i \in DOMAIN task.draft :
    \A link \in task.draft[i].links : link[1] = task.draft[i].text
=============================================================================
