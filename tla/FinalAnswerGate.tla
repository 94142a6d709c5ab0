--------------------------- MODULE FinalAnswerGate ---------------------------
(***************************************************************************)
(* run_final_answer_gate of services/final_answer_gate.py: may the answer  *)
(* drafted for a task be published?  One run is one action (the caller's   *)
(* transaction makes it atomic); a redelivered event runs it again.  The   *)
(* evidence the gate reads is chosen once and does not change: what an     *)
(* evidence change between two runs does is the subject of TaskPipeline.   *)
(*                                                                         *)
(* A span of the draft has a set of links.  A link holds the version of    *)
(* the claim's ledger entry it points to, the claim's latest version and   *)
(* its state, and the evidence of the linked entry: for each evidence span *)
(* the latest source-quality assessment (oq, cs) and the latest entailment *)
(* verdict, Missing when there is none.                                    *)
(***************************************************************************)
EXTENDS Naturals, FiniteSets

CONSTANTS
  Spans,        \* final_answer_spans the draft may have
  LinkSets,     \* the sets of links a span may have
  Missing,      \* no assessment / no entailment check
  NoReport,     \* no final_gate_reports row for the draft
  MaxRuns       \* bound: invocations of the gate

\* What a run may return; the no_draft outcome is never stored.
Outcomes ==
  [decision : {"no_draft", "rejected", "approved"},
   reason : {"draft_missing", "no_verified_claims", "unverified_spans_present",
             "entailment_block", "source_quality_block",
             "all_spans_verified_with_warnings", "all_spans_verified"}]

ASSUME GateAssumption ==
  /\ IsFiniteSet(Spans)
  /\ \A L \in LinkSets : \A l \in L : \A e \in l.evidence :
       e.oq = Missing <=> e.cs = Missing
  /\ NoReport \notin Outcomes
  /\ MaxRuns \in Nat

VARIABLES
  hasDraft,   \* draft_final_answers has a row for the task
  links,      \* the draft's spans and the links of each: a partial function
  gaps,       \* coverage_gap_statements: <<kind, gap_key>>
  report,     \* final_gate_reports row of the draft
  published,  \* published_answers v1 exists
  emitted,    \* coverage_gaps_emitted, summed over the runs
  result,     \* the last outcome returned, NoReport before the first
  runs        \* invocations so far

vars == <<hasDraft, links, gaps, report, published, emitted, result, runs>>
rows == <<gaps, report, published>>

-----------------------------------------------------------------------------
(* Classification                                                          *)

DraftSpans == DOMAIN links

\* Mutant: the state of the latest entry is not looked at.
BacksInAnyState(l) == l.linked = l.latest

\* The link points exactly to the latest entry and that entry is verified.
Backs(l) == l.linked = l.latest /\ l.state = "verified_fact"

Verified(s) == \E l \in links[s] : Backs(l)

\* The rows both evidence queries return for a span.
Supporting(s) == UNION {l.evidence : l \in {k \in links[s] : Backs(k)}}

SqBlocks(e) ==
  e.oq = "unsuitable" \/ e.cs \in {"contradicted_by_stronger_source", "conflicting_sources"}
SqWarns(e) ==
  ~SqBlocks(e) /\ (e.oq \in {Missing, "weak", "unknown"} \/ e.cs = "unchecked")

EcBlocks(e) == e.verdict = "contradicted"
EcWarns(e) == ~EcBlocks(e) /\ e.verdict # "entailed"

SqBlocked == {s \in DraftSpans : \E e \in Supporting(s) : SqBlocks(e)}
\* Mutant: a blocked span is warned about too.
SqWarnedOrBlocked ==
  {s \in DraftSpans : Supporting(s) = {} \/ \E e \in Supporting(s) : SqWarns(e)}
SqWarned ==
  {s \in DraftSpans \ SqBlocked :
     Supporting(s) = {} \/ \E e \in Supporting(s) : SqWarns(e)}

EcBlocked == {s \in DraftSpans : \E e \in Supporting(s) : EcBlocks(e)}
EcWarned ==
  {s \in DraftSpans \ EcBlocked :
     Supporting(s) = {} \/ \E e \in Supporting(s) : EcWarns(e)}

\* Mutant: kind and key are swapped in the row.
GapsSwapped(kind, spans) == {<<s, kind>> : s \in spans}
Gaps(kind, spans) == {<<kind, s>> : s \in spans}

-----------------------------------------------------------------------------
(* The upserts: INSERT ... ON CONFLICT DO NOTHING                          *)

\* Mutant: a gap is counted whether or not a row was inserted.
UpsertGapsCountAll(new) ==
  /\ gaps' = gaps \cup new
  /\ emitted' = emitted + Cardinality(new)

UpsertGaps(new) ==
  /\ gaps' = gaps \cup new
  /\ emitted' = emitted + Cardinality(new \ gaps)

UpsertReport(decision, reason) ==
  report' = IF report = NoReport THEN [decision |-> decision, reason |-> reason]
                                 ELSE report

\* What every run that found a draft does, whatever it decides.
Conclude(decision, reason, new) ==
  /\ hasDraft
  /\ UpsertGaps(new)
  /\ UpsertReport(decision, reason)
  /\ published' = (published \/ decision = "approved")
  /\ result' = [decision |-> decision, reason |-> reason]

-----------------------------------------------------------------------------
(* The branches of run_final_answer_gate, in the order they are tried      *)

\* Mutant: a draft without spans passes.
VacuouslyVerified == \A s \in DraftSpans : Verified(s)
AllVerified == DraftSpans # {} /\ \A s \in DraftSpans : Verified(s)

NoDraft ==
  /\ ~hasDraft
  /\ result' = [decision |-> "no_draft", reason |-> "draft_missing"]
  /\ UNCHANGED <<rows, emitted>>

NoSpans ==
  /\ DraftSpans = {}
  /\ Conclude("rejected", "no_verified_claims",
              {<<"missing_evidence", "no_verified_claims">>})

UnverifiedSpans ==
  /\ DraftSpans # {} /\ ~AllVerified
  /\ Conclude("rejected", "unverified_spans_present",
              Gaps("unverified_claim", {s \in DraftSpans : ~Verified(s)}))

EntailmentBlock ==
  /\ AllVerified
  /\ EcBlocked # {}
  /\ Conclude("rejected", "entailment_block",
              Gaps("entailment_block", EcBlocked)
                \cup Gaps("entailment_warning", EcWarned)
                \cup Gaps("source_quality_block", SqBlocked)
                \cup Gaps("source_quality_warning", SqWarned))

\* Mutant: tried before the entailment branch.
SourceQualityBlockFirst ==
  /\ AllVerified
  /\ SqBlocked # {}
  /\ Conclude("rejected", "source_quality_block",
              Gaps("source_quality_block", SqBlocked)
                \cup Gaps("source_quality_warning", SqWarned)
                \cup Gaps("entailment_warning", EcWarned))

SourceQualityBlock ==
  /\ AllVerified
  /\ EcBlocked = {} /\ SqBlocked # {}
  /\ Conclude("rejected", "source_quality_block",
              Gaps("source_quality_block", SqBlocked)
                \cup Gaps("source_quality_warning", SqWarned)
                \cup Gaps("entailment_warning", EcWarned))

ApprovedWithWarnings ==
  /\ AllVerified
  /\ EcBlocked = {} /\ SqBlocked = {}
  /\ EcWarned \cup SqWarned # {}
  /\ Conclude("approved", "all_spans_verified_with_warnings",
              Gaps("entailment_warning", EcWarned)
                \cup Gaps("source_quality_warning", SqWarned))

ApprovedClean ==
  /\ AllVerified
  /\ EcBlocked = {} /\ SqBlocked = {} /\ EcWarned = {} /\ SqWarned = {}
  /\ Conclude("approved", "all_spans_verified", {})

RunFinalAnswerGate ==
  /\ runs < MaxRuns
  /\ runs' = runs + 1
  /\ UNCHANGED <<hasDraft, links>>
  /\ \/ NoDraft
     \/ NoSpans
     \/ UnverifiedSpans
     \/ EntailmentBlock
     \/ SourceQualityBlock
     \/ ApprovedWithWarnings
     \/ ApprovedClean

\* The bounded number of redeliveries is used up.
Finished == runs = MaxRuns /\ UNCHANGED vars

Init ==
  /\ \E D \in SUBSET Spans : links \in [D -> LinkSets]
  /\ hasDraft \in {TRUE, DraftSpans # {}}
  /\ gaps = {} /\ report = NoReport /\ published = FALSE
  /\ emitted = 0 /\ result = NoReport /\ runs = 0

Next == RunFinalAnswerGate \/ Finished
Spec == Init /\ [][Next]_vars

-----------------------------------------------------------------------------
(* Properties                                                              *)

GapKinds ==
  {"missing_evidence", "unverified_claim", "entailment_block",
   "entailment_warning", "source_quality_block", "source_quality_warning"}
BlockKinds ==
  {"missing_evidence", "unverified_claim", "entailment_block", "source_quality_block"}

\* The type invariant.
TypeOK ==
  /\ hasDraft \in BOOLEAN
  /\ DraftSpans \subseteq Spans
  /\ \A s \in DraftSpans : links[s] \in LinkSets
  /\ gaps \subseteq GapKinds \X (Spans \cup {"no_verified_claims"})
  /\ report \in Outcomes \cup {NoReport}
  /\ published \in BOOLEAN
  /\ emitted \in Nat /\ runs \in 0 .. MaxRuns
  /\ result \in Outcomes \cup {NoReport}

\* An answer is published only when no part of it is unsupported: each span is
\* backed by the latest, verified entry of a claim, and no evidence of a span
\* that the gate can see is contradicted, unsuitable or in conflict.
PublishedIsSupported ==
  published =>
    /\ DraftSpans # {}
    /\ \A s \in DraftSpans :
         /\ \E l \in links[s] : l.linked = l.latest /\ l.state = "verified_fact"
         /\ \A l \in links[s] : l.linked = l.latest /\ l.state = "verified_fact" =>
              \A e \in l.evidence :
                /\ e.verdict # "contradicted"
                /\ e.oq # "unsuitable"
                /\ e.cs \notin {"contradicted_by_stronger_source", "conflicting_sources"}

\* The three tables tell one story: the answer exists exactly when the report
\* approves, the report rejects exactly when a blocking gap is recorded, and a
\* clean approval has no gap at all.
ReportGapsAnswerAgree ==
  /\ published <=> report # NoReport /\ report.decision = "approved"
  /\ report # NoReport =>
       /\ report.decision = "rejected" <=> \E g \in gaps : g[1] \in BlockKinds
       /\ report.reason = "all_spans_verified" => gaps = {}
       /\ report.reason = "all_spans_verified_with_warnings" => gaps # {}
  /\ report = NoReport => gaps = {}

\* The priority of the docstring (CVE-lite, entailment, source quality): the
\* gaps on record never show a higher-priority axis than the reason given.
ReasonIsHighestPriority ==
  LET Fired(kind) == \E g \in gaps : g[1] = kind IN
  report # NoReport =>
    /\ report.reason = "unverified_spans_present" <=> Fired("unverified_claim")
    /\ Fired("unverified_claim") =>
         \A g \in gaps : g[1] = "unverified_claim"
    /\ report.reason = "entailment_block" <=> Fired("entailment_block")
    /\ report.reason = "source_quality_block" <=>
         Fired("source_quality_block") /\ ~Fired("entailment_block")

\* Per span and axis at most one gap, a block hiding no warning of that axis;
\* and each gap is counted once over all runs.
OneGapPerSpanAndAxis ==
  /\ \A s \in Spans :
       /\ ~(<<"entailment_block", s>> \in gaps /\ <<"entailment_warning", s>> \in gaps)
       /\ ~(<<"source_quality_block", s>> \in gaps /\ <<"source_quality_warning", s>> \in gaps)
  /\ emitted = Cardinality(gaps)

\* Idempotent under redelivery: on unchanged evidence a second run returns the
\* same outcome and changes no row.
RerunChangesNothing ==
  [][result # NoReport => result' = result /\ UNCHANGED <<rows, emitted>>]_vars
=============================================================================
