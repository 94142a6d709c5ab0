------------------------ MODULE FinalAnswerGateProofs ------------------------
(***************************************************************************)
(* Proofs about FinalAnswerGate for every set of spans, every choice of    *)
(* links and evidence, and every number of runs.                           *)
(*                                                                         *)
(* The argument: what a run decides and the gaps it records are functions  *)
(* of the links alone (Decision, Reason, Recorded).  The inductive         *)
(* invariant says that the rows hold exactly those values once a run has   *)
(* found a draft; every property is then a statement about the functions.  *)
(***************************************************************************)
EXTENDS FinalAnswerGate, FiniteSetTheorems, TLAPS

Decision ==
  IF AllVerified /\ EcBlocked = {} /\ SqBlocked = {} THEN "approved" ELSE "rejected"

Reason ==
  IF DraftSpans = {} THEN "no_verified_claims"
  ELSE IF ~AllVerified THEN "unverified_spans_present"
  ELSE IF EcBlocked # {} THEN "entailment_block"
  ELSE IF SqBlocked # {} THEN "source_quality_block"
  ELSE IF EcWarned \cup SqWarned # {} THEN "all_spans_verified_with_warnings"
  ELSE "all_spans_verified"

Recorded ==
  IF DraftSpans = {} THEN {<<"missing_evidence", "no_verified_claims">>}
  ELSE IF ~AllVerified THEN Gaps("unverified_claim", {s \in DraftSpans : ~Verified(s)})
  ELSE Gaps("entailment_block", EcBlocked)
         \cup Gaps("entailment_warning", EcWarned)
         \cup Gaps("source_quality_block", SqBlocked)
         \cup Gaps("source_quality_warning", SqWarned)

NotDrafted == [decision |-> "no_draft", reason |-> "draft_missing"]

\* The rows are untouched, or hold what the links decide.
Decided ==
  IF report = NoReport
  THEN gaps = {} /\ ~published /\ result \in {NoReport} \cup (IF hasDraft THEN {} ELSE {NotDrafted})
  ELSE /\ hasDraft
       /\ report = [decision |-> Decision, reason |-> Reason]
       /\ result = report
       /\ gaps = Recorded
       /\ published = (Decision = "approved")

IInv == TypeOK /\ Decided

-----------------------------------------------------------------------------
(* What a run decides is a function of the links                           *)

\* Each branch that found a draft concludes with the functions' values.
LEMMA BranchDecides ==
  ASSUME \/ NoSpans \/ UnverifiedSpans \/ EntailmentBlock
         \/ SourceQualityBlock \/ ApprovedWithWarnings \/ ApprovedClean
  PROVE  Conclude(Decision, Reason, Recorded)
<1>0. \A k : Gaps(k, {}) = {}
  BY DEF Gaps
<1>1. CASE NoSpans
  BY <1>1 DEF NoSpans, Decision, Reason, Recorded, AllVerified
<1>2. CASE UnverifiedSpans
  BY <1>2 DEF UnverifiedSpans, Decision, Reason, Recorded
<1>3. CASE EntailmentBlock
  <2>1. DraftSpans # {}
    BY <1>3 DEF EntailmentBlock, AllVerified
  <2>2. Recorded = Gaps("entailment_block", EcBlocked)
                     \cup Gaps("entailment_warning", EcWarned)
                     \cup Gaps("source_quality_block", SqBlocked)
                     \cup Gaps("source_quality_warning", SqWarned)
    BY <1>3, <2>1 DEF EntailmentBlock, Recorded
  <2> QED
    BY <1>3, <2>1, <2>2 DEF EntailmentBlock, Decision, Reason
<1>4. CASE SourceQualityBlock
  <2>1. DraftSpans # {}
    BY <1>4 DEF SourceQualityBlock, AllVerified
  <2>2. Recorded = Gaps("source_quality_block", SqBlocked)
                     \cup Gaps("source_quality_warning", SqWarned)
                     \cup Gaps("entailment_warning", EcWarned)
    BY <1>0, <1>4, <2>1 DEF SourceQualityBlock, Recorded
  <2> QED
    BY <1>4, <2>1, <2>2 DEF SourceQualityBlock, Decision, Reason
<1>5. CASE ApprovedWithWarnings
  <2>1. DraftSpans # {}
    BY <1>5 DEF ApprovedWithWarnings, AllVerified
  <2>2. Recorded = Gaps("entailment_warning", EcWarned)
                     \cup Gaps("source_quality_warning", SqWarned)
    BY <1>0, <1>5, <2>1 DEF ApprovedWithWarnings, Recorded
  <2> QED
    BY <1>5, <2>1, <2>2 DEF ApprovedWithWarnings, Decision, Reason
<1>6. CASE ApprovedClean
  <2>1. DraftSpans # {}
    BY <1>6 DEF ApprovedClean, AllVerified
  <2>2. Recorded = {}
    BY <1>0, <1>6, <2>1 DEF ApprovedClean, Recorded
  <2> QED
    BY <1>6, <2>1, <2>2 DEF ApprovedClean, Decision, Reason
<1> QED
  BY <1>1, <1>2, <1>3, <1>4, <1>5, <1>6

\* A step that leaves the links alone leaves the functions' values alone.
LEMMA FunctionsOfLinks ==
  ASSUME UNCHANGED links
  PROVE  Decision' = Decision /\ Reason' = Reason /\ Recorded' = Recorded
<1>1. DraftSpans' = DraftSpans /\ AllVerified' = AllVerified
  BY DEF DraftSpans, AllVerified, Verified
<1>2. EcBlocked' = EcBlocked /\ SqBlocked' = SqBlocked
  BY <1>1 DEF EcBlocked, SqBlocked, Supporting
<1>3. EcWarned' = EcWarned /\ SqWarned' = SqWarned
  BY <1>1, <1>2 DEF EcWarned, SqWarned, Supporting
<1>4. {s \in DraftSpans : ~Verified(s)}' = {s \in DraftSpans : ~Verified(s)}
  BY <1>1 DEF Verified
<1> QED
  BY <1>1, <1>2, <1>3, <1>4 DEF Decision, Reason, Recorded, Gaps

GapRows == GapKinds \X (Spans \cup {"no_verified_claims"})

\* The kinds, and so the rows a draft can have, are finitely many.
LEMMA GapRowsFinite == IsFiniteSet(GapRows)
<1>1. IsFiniteSet(GapKinds)
  <2>1. GapKinds = {"missing_evidence"} \cup {"unverified_claim"} \cup {"entailment_block"}
                     \cup {"entailment_warning"} \cup {"source_quality_block"}
                     \cup {"source_quality_warning"}
    BY DEF GapKinds
  <2> QED
    BY <2>1, FS_Singleton, FS_Union
<1>2. IsFiniteSet(Spans \cup {"no_verified_claims"})
  BY GateAssumption, FS_Singleton, FS_Union
<1> QED
  BY <1>1, <1>2, FS_Product DEF GapRows

\* The gaps of a draft are rows of the table.
LEMMA RecordedIsGapRows ==
  ASSUME DraftSpans \subseteq Spans
  PROVE  Recorded \subseteq GapRows
<1>1. \A k \in GapKinds, S \in SUBSET DraftSpans : Gaps(k, S) \subseteq GapRows
  BY DEF Gaps, GapRows
<1>2. /\ EcBlocked \subseteq DraftSpans /\ EcWarned \subseteq DraftSpans
      /\ SqBlocked \subseteq DraftSpans /\ SqWarned \subseteq DraftSpans
      /\ {s \in DraftSpans : ~Verified(s)} \subseteq DraftSpans
  BY DEF EcBlocked, EcWarned, SqBlocked, SqWarned
<1>3. CASE DraftSpans = {}
  BY <1>3 DEF Recorded, GapRows, GapKinds
<1>4. CASE DraftSpans # {} /\ ~AllVerified
  BY <1>1, <1>2, <1>4 DEF Recorded, GapKinds
<1>5. CASE DraftSpans # {} /\ AllVerified
  <2>1. /\ Gaps("entailment_block", EcBlocked) \subseteq GapRows
        /\ Gaps("entailment_warning", EcWarned) \subseteq GapRows
        /\ Gaps("source_quality_block", SqBlocked) \subseteq GapRows
        /\ Gaps("source_quality_warning", SqWarned) \subseteq GapRows
    BY <1>1, <1>2 DEF GapKinds
  <2> QED
    BY <1>5, <2>1 DEF Recorded
<1> QED
  BY <1>3, <1>4, <1>5
-----------------------------------------------------------------------------
(* The inductive invariant                                                 *)

LEMMA InitEstablishesIInv == Init => IInv
<1> SUFFICES ASSUME Init PROVE IInv
  OBVIOUS
<1>1. TypeOK
  <2>1. PICK D \in SUBSET Spans : links \in [D -> LinkSets]
    BY DEF Init
  <2>2. DraftSpans = D /\ \A s \in DraftSpans : links[s] \in LinkSets
    BY <2>1 DEF DraftSpans
  <2>3. 0 \in 0 .. MaxRuns
    BY GateAssumption
  <2> QED
    BY <2>2, <2>3 DEF Init, TypeOK
<1>2. Decided
  BY DEF Init, Decided
<1> QED
  BY <1>1, <1>2 DEF IInv

\* A run that found a draft: the rows hold the functions' values after it.
LEMMA ConcludeKeepsIInv ==
  ASSUME IInv, Conclude(Decision, Reason, Recorded),
         runs < MaxRuns, runs' = runs + 1, UNCHANGED <<hasDraft, links>>
  PROVE  IInv'
<1> USE DEF IInv
<1>1. /\ Decision' = Decision /\ Reason' = Reason /\ Recorded' = Recorded
      /\ DraftSpans' = DraftSpans
  BY FunctionsOfLinks DEF DraftSpans
<1>2. DraftSpans \subseteq Spans /\ Recorded \subseteq GapRows
  BY RecordedIsGapRows DEF TypeOK
<1>3. [decision |-> Decision, reason |-> Reason] \in Outcomes
  BY DEF Outcomes, Decision, Reason
<1>4. [decision |-> Decision, reason |-> Reason] # NoReport
  BY <1>3, GateAssumption
<1>5. Decided'
  <2>1. /\ hasDraft'
        /\ result' = [decision |-> Decision, reason |-> Reason]
        /\ report' = [decision |-> Decision, reason |-> Reason]
    BY DEF Conclude, UpsertReport, Decided
  <2>2. gaps' = Recorded
    BY DEF Conclude, UpsertGaps, Decided
  <2>3. published' = (Decision = "approved")
    BY DEF Conclude, Decided, TypeOK
  <2> QED
    BY <1>1, <1>4, <2>1, <2>2, <2>3 DEF Decided
<1>6. emitted' \in Nat
  <2>1. Recorded \ gaps \in SUBSET GapRows
    BY <1>2
  <2>2. Cardinality(Recorded \ gaps) \in Nat
    BY <2>1, GapRowsFinite, FS_Subset, FS_CardinalityType
  <2> QED
    BY <2>2 DEF Conclude, UpsertGaps, TypeOK
<1>7. runs' \in 0 .. MaxRuns
  BY GateAssumption DEF TypeOK
<1>8. TypeOK'
  <2>1. gaps' \subseteq GapRows
    BY <1>2 DEF Conclude, UpsertGaps, TypeOK, GapRows
  <2>2. report' \in Outcomes \cup {NoReport} /\ result' \in Outcomes
    BY <1>3 DEF Conclude, UpsertReport, TypeOK
  <2>3. published' \in BOOLEAN /\ hasDraft' \in BOOLEAN
    BY DEF Conclude, TypeOK
  <2> QED
    BY <1>1, <1>2, <1>6, <1>7, <2>1, <2>2, <2>3 DEF TypeOK, GapRows
<1> QED
  BY <1>5, <1>8

\* A run that found no draft writes no row.
LEMMA NoDraftKeepsIInv ==
  ASSUME IInv, NoDraft, runs < MaxRuns, runs' = runs + 1, UNCHANGED <<hasDraft, links>>
  PROVE  IInv'
<1> USE DEF IInv
<1>1. DraftSpans' = DraftSpans /\ UNCHANGED <<gaps, report, published, emitted>> /\ ~hasDraft'
  BY DEF NoDraft, rows, DraftSpans
<1>2. TypeOK'
  <2>1. result' \in Outcomes
    BY DEF NoDraft, Outcomes
  <2>2. runs' \in 0 .. MaxRuns
    BY GateAssumption DEF TypeOK
  <2> QED
    BY <1>1, <2>1, <2>2 DEF TypeOK
<1>3. Decided'
  <2>1. report = NoReport /\ gaps = {} /\ ~published
    BY DEF NoDraft, Decided
  <2> QED
    BY <1>1, <2>1 DEF Decided, NoDraft, NotDrafted
<1> QED
  BY <1>2, <1>3

LEMMA StutterKeepsIInv == IInv /\ UNCHANGED vars => IInv'
<1> SUFFICES ASSUME IInv, UNCHANGED vars PROVE IInv'
  OBVIOUS
<1>1. DraftSpans' = DraftSpans /\ Decision' = Decision /\ Reason' = Reason /\ Recorded' = Recorded
  BY FunctionsOfLinks DEF vars, DraftSpans
<1> QED
  BY <1>1 DEF IInv, TypeOK, Decided, vars

LEMMA NextKeepsIInv == IInv /\ [Next]_vars => IInv'
<1> SUFFICES ASSUME IInv, [Next]_vars PROVE IInv'
  OBVIOUS
<1>1. CASE RunFinalAnswerGate
  <2>1. runs < MaxRuns /\ runs' = runs + 1 /\ UNCHANGED <<hasDraft, links>>
    BY <1>1 DEF RunFinalAnswerGate
  <2>2. CASE NoDraft
    BY <2>1, <2>2, NoDraftKeepsIInv
  <2>3. CASE \/ NoSpans \/ UnverifiedSpans \/ EntailmentBlock
             \/ SourceQualityBlock \/ ApprovedWithWarnings \/ ApprovedClean
    BY <2>1, <2>3, BranchDecides, ConcludeKeepsIInv
  <2> QED
    BY <1>1, <2>2, <2>3 DEF RunFinalAnswerGate
<1>2. CASE UNCHANGED vars
  BY <1>2, StutterKeepsIInv
<1> QED
  BY <1>1, <1>2 DEF Next, Finished

\* The rows always hold what the links decide, or are untouched.
THEOREM InductiveInvariant == Spec => []IInv
<1> QED
  BY InitEstablishesIInv, NextKeepsIInv, PTL DEF Spec

-----------------------------------------------------------------------------
(* The properties of the runs                                              *)

\* TypeOK holds for every set of spans and every evidence.
THEOREM TypeCorrect == Spec => []TypeOK
<1>1. IInv => TypeOK
  BY DEF IInv
<1> QED
  BY <1>1, InductiveInvariant, PTL

\* No answer is published with a span that is not backed by the latest verified
\* entry of a claim, or whose evidence is contradicted, unsuitable or disputed.
THEOREM OnlySupportedIsPublished == Spec => []PublishedIsSupported
<1>1. IInv => PublishedIsSupported
  <2> SUFFICES ASSUME IInv, published PROVE PublishedIsSupported
    BY DEF PublishedIsSupported
  <2>1. AllVerified /\ EcBlocked = {} /\ SqBlocked = {}
    BY DEF IInv, Decided, Decision
  <2>2. DraftSpans # {} /\ \A s \in DraftSpans : \E l \in links[s] : Backs(l)
    BY <2>1 DEF AllVerified, Verified
  <2>3. ASSUME NEW s \in DraftSpans, NEW l \in links[s], Backs(l), NEW e \in l.evidence
        PROVE  ~EcBlocks(e) /\ ~SqBlocks(e)
    <3>1. e \in Supporting(s)
      BY <2>3 DEF Supporting
    <3> QED
      BY <2>1, <3>1 DEF EcBlocked, SqBlocked
  <2> QED
    BY <2>2, <2>3 DEF PublishedIsSupported, Backs, EcBlocks, SqBlocks
<1> QED
  BY <1>1, InductiveInvariant, PTL

\* The gap statements of a kind, read off the set recorded for a draft.
LEMMA FiredKinds ==
  ASSUME DraftSpans # {}, AllVerified, NEW k \in GapKinds
  PROVE  (\E g \in Recorded : g[1] = k) <=>
           \/ k = "entailment_block" /\ EcBlocked # {}
           \/ k = "entailment_warning" /\ EcWarned # {}
           \/ k = "source_quality_block" /\ SqBlocked # {}
           \/ k = "source_quality_warning" /\ SqWarned # {}
<1>1. ASSUME NEW kind, NEW S
      PROVE  (\E g \in Gaps(kind, S) : g[1] = k) <=> kind = k /\ S # {}
  <2>1. \A g \in Gaps(kind, S) : g[1] = kind /\ S # {}
    BY DEF Gaps
  <2>2. ASSUME NEW x \in S PROVE \E g \in Gaps(kind, S) : g[1] = kind
    <3>1. <<kind, x>> \in Gaps(kind, S) /\ <<kind, x>>[1] = kind
      BY <2>2 DEF Gaps
    <3> QED
      BY <3>1
  <2> QED
    BY <2>1, <2>2
<1>2. (\E g \in Recorded : g[1] = k) <=>
        \/ \E g \in Gaps("entailment_block", EcBlocked) : g[1] = k
        \/ \E g \in Gaps("entailment_warning", EcWarned) : g[1] = k
        \/ \E g \in Gaps("source_quality_block", SqBlocked) : g[1] = k
        \/ \E g \in Gaps("source_quality_warning", SqWarned) : g[1] = k
  BY DEF Recorded
<1> QED
  BY <1>1, <1>2

\* The gate report, the coverage gaps and the published answer agree.
THEOREM TablesAgree == Spec => []ReportGapsAnswerAgree
<1>1. IInv => ReportGapsAnswerAgree
  <2> SUFFICES ASSUME IInv PROVE ReportGapsAnswerAgree
    OBVIOUS
  <2>1. CASE report = NoReport
    BY <2>1 DEF IInv, Decided, ReportGapsAnswerAgree
  <2>2. CASE report # NoReport
    <3>1. /\ report.decision = Decision /\ report.reason = Reason
          /\ gaps = Recorded /\ published = (Decision = "approved")
      BY <2>2 DEF IInv, Decided
    <3>2. /\ Decision = "rejected" <=> \E g \in Recorded : g[1] \in BlockKinds
          /\ Reason = "all_spans_verified" => Recorded = {}
          /\ Reason = "all_spans_verified_with_warnings" => Recorded # {}
      <4>1. CASE DraftSpans = {}
        BY <4>1 DEF Decision, Reason, Recorded, AllVerified, BlockKinds
      <4>2. CASE DraftSpans # {} /\ ~AllVerified
        <5>1. PICK s \in DraftSpans : ~Verified(s)
          BY <4>2 DEF AllVerified
        <5>2. <<"unverified_claim", s>> \in Recorded
          BY <4>2, <5>1 DEF Recorded, Gaps
        <5>3. <<"unverified_claim", s>>[1] \in BlockKinds
          BY DEF BlockKinds
        <5> QED
          BY <4>2, <5>2, <5>3 DEF Decision, Reason
      <4>3. CASE DraftSpans # {} /\ AllVerified
        <5>1. (\E g \in Recorded : g[1] \in BlockKinds) <=> EcBlocked # {} \/ SqBlocked # {}
          BY <4>3, FiredKinds DEF BlockKinds, GapKinds
        <5>2. Decision = "rejected" <=> EcBlocked # {} \/ SqBlocked # {}
          BY <4>3 DEF Decision
        <5>3. Reason = "all_spans_verified" => Recorded = {}
          BY <4>3 DEF Reason, Recorded, Gaps
        <5>4. ASSUME Reason = "all_spans_verified_with_warnings" PROVE Recorded # {}
          <6>1. EcWarned # {} \/ SqWarned # {}
            BY <4>3, <5>4 DEF Reason
          <6> QED
            BY <4>3, <6>1, FiredKinds DEF GapKinds
        <5> QED
          BY <5>1, <5>2, <5>3, <5>4
      <4> QED
        BY <4>1, <4>2, <4>3
    <3> QED
      BY <2>2, <3>1, <3>2 DEF ReportGapsAnswerAgree
  <2> QED
    BY <2>1, <2>2
<1> QED
  BY <1>1, InductiveInvariant, PTL

\* On unchanged evidence a redelivered run returns the outcome of the first and
\* changes no row.
THEOREM RedeliveryIsIdempotent == Spec => RerunChangesNothing
<1>1. IInv /\ [Next]_vars =>
        [result # NoReport => result' = result /\ UNCHANGED <<rows, emitted>>]_vars
  <2> SUFFICES ASSUME IInv, Next, result # NoReport
               PROVE  result' = result /\ UNCHANGED <<rows, emitted>>
    OBVIOUS
  <2>1. CASE Finished
    BY <2>1 DEF Finished, vars, rows
  <2>2. CASE NoDraft
    <3>1. ~hasDraft /\ report = NoReport
      BY <2>2 DEF NoDraft, IInv, Decided
    <3>2. result = NotDrafted
      BY <3>1 DEF IInv, Decided
    <3> QED
      BY <2>2, <3>2 DEF NoDraft, NotDrafted
  <2>3. CASE \/ NoSpans \/ UnverifiedSpans \/ EntailmentBlock
             \/ SourceQualityBlock \/ ApprovedWithWarnings \/ ApprovedClean
    <3>1. Conclude(Decision, Reason, Recorded)
      BY <2>3, BranchDecides
    <3>2. /\ hasDraft /\ report # NoReport /\ result = report
          /\ report = [decision |-> Decision, reason |-> Reason]
          /\ gaps = Recorded /\ published = (Decision = "approved")
      BY <3>1 DEF Conclude, IInv, Decided
    <3>3. UNCHANGED <<gaps, report, published>> /\ result' = result
      BY <3>1, <3>2 DEF Conclude, UpsertGaps, UpsertReport
    <3>4. emitted' = emitted
      <4>1. Recorded \ gaps = {}
        BY <3>2
      <4>2. emitted' = emitted + 0
        BY <3>1, <4>1, FS_EmptySet DEF Conclude, UpsertGaps
      <4> QED
        BY <4>2 DEF IInv, TypeOK
    <3> QED
      BY <3>3, <3>4 DEF rows
  <2> QED
    BY <2>1, <2>2, <2>3 DEF Next, RunFinalAnswerGate
<1> QED
  BY <1>1, InductiveInvariant, PTL DEF Spec, RerunChangesNothing

\* The gaps on record never show an axis of higher priority than the reason.
THEOREM PriorityIsKept == Spec => []ReasonIsHighestPriority
<1>1. IInv => ReasonIsHighestPriority
  <2> SUFFICES ASSUME IInv, report # NoReport PROVE ReasonIsHighestPriority
    BY DEF ReasonIsHighestPriority
  <2>1. report.reason = Reason /\ gaps = Recorded
    BY DEF IInv, Decided
  <2>2. CASE DraftSpans = {}
    <3>1. gaps = {<<"missing_evidence", "no_verified_claims">>}
      BY <2>1, <2>2 DEF Recorded
    <3>2. \A g \in gaps : g[1] = "missing_evidence"
      BY <3>1
    <3>3. report.reason = "no_verified_claims"
      BY <2>1, <2>2 DEF Reason
    <3> QED
      BY <3>2, <3>3 DEF ReasonIsHighestPriority
  <2>3. CASE DraftSpans # {} /\ ~AllVerified
    <3>1. gaps = Gaps("unverified_claim", {s \in DraftSpans : ~Verified(s)})
      BY <2>1, <2>3 DEF Recorded
    <3>2. \A g \in gaps : g[1] = "unverified_claim"
      BY <3>1 DEF Gaps
    <3>3. PICK s \in DraftSpans : ~Verified(s)
      BY <2>3 DEF AllVerified
    <3>4. <<"unverified_claim", s>> \in gaps
      BY <3>1, <3>3 DEF Gaps
    <3>5. \E g \in gaps : g[1] = "unverified_claim"
      BY <3>2, <3>4
    <3>6. report.reason = "unverified_spans_present"
      BY <2>1, <2>3 DEF Reason
    <3> QED
      BY <3>2, <3>5, <3>6 DEF ReasonIsHighestPriority
  <2>4. CASE DraftSpans # {} /\ AllVerified
    <3>1. /\ ~(\E g \in gaps : g[1] = "unverified_claim")
          /\ (\E g \in gaps : g[1] = "entailment_block") <=> EcBlocked # {}
          /\ (\E g \in gaps : g[1] = "source_quality_block") <=> SqBlocked # {}
      BY <2>1, <2>4, FiredKinds DEF GapKinds
    <3>2. /\ Reason # "unverified_spans_present"
          /\ Reason = "entailment_block" <=> EcBlocked # {}
          /\ Reason = "source_quality_block" <=> EcBlocked = {} /\ SqBlocked # {}
      BY <2>4 DEF Reason
    <3> QED
      BY <2>1, <3>1, <3>2 DEF ReasonIsHighestPriority
  <2> QED
    BY <2>2, <2>3, <2>4
<1> QED
  BY <1>1, InductiveInvariant, PTL

\* The counter of emitted gaps is the number of rows.
Counted == emitted = Cardinality(gaps)

LEMMA NextKeepsCounted == IInv /\ Counted /\ [Next]_vars => Counted'
<1> SUFFICES ASSUME IInv, Counted, [Next]_vars PROVE Counted'
  OBVIOUS
<1>1. CASE UNCHANGED <<gaps, emitted>>
  BY <1>1 DEF Counted
<1>2. CASE \/ NoSpans \/ UnverifiedSpans \/ EntailmentBlock
           \/ SourceQualityBlock \/ ApprovedWithWarnings \/ ApprovedClean
  <2>1. /\ hasDraft /\ gaps' = gaps \cup Recorded
        /\ emitted' = emitted + Cardinality(Recorded \ gaps)
    BY <1>2, BranchDecides DEF Conclude, UpsertGaps
  <2>2. CASE report = NoReport
    <3>1. gaps = {}
      BY <2>2 DEF IInv, Decided
    <3>2. emitted = 0 /\ Recorded \ gaps = Recorded /\ gaps' = Recorded
      BY <2>1, <3>1, FS_EmptySet DEF Counted
    <3>3. Cardinality(Recorded) \in Nat
      BY RecordedIsGapRows, GapRowsFinite, FS_Subset, FS_CardinalityType DEF IInv, TypeOK
    <3> QED
      BY <2>1, <3>2, <3>3 DEF Counted
  <2>3. CASE report # NoReport
    <3>1. gaps = Recorded
      BY <2>3 DEF IInv, Decided
    <3>2. Recorded \ gaps = {} /\ gaps' = gaps
      BY <2>1, <3>1
    <3>3. emitted' = emitted + 0 /\ emitted \in Nat
      BY <2>1, <3>2, FS_EmptySet DEF IInv, TypeOK
    <3> QED
      BY <3>2, <3>3 DEF Counted
  <2> QED
    BY <2>2, <2>3
<1> QED
  BY <1>1, <1>2 DEF Next, RunFinalAnswerGate, NoDraft, Finished, vars, rows

\* A gap of a span is a blocking one or a warning of its axis, and every gap
\* has been counted once over all runs of the gate.
THEOREM OneGapEach == Spec => []OneGapPerSpanAndAxis
<1>1. Init => Counted
  BY FS_EmptySet DEF Init, Counted
<1>2. Spec => []Counted
  BY <1>1, InductiveInvariant, NextKeepsCounted, PTL DEF Spec
<1>3. IInv /\ Counted => OneGapPerSpanAndAxis
  <2> SUFFICES ASSUME IInv, Counted, NEW s \in Spans
               PROVE  /\ ~(<<"entailment_block", s>> \in gaps
                             /\ <<"entailment_warning", s>> \in gaps)
                      /\ ~(<<"source_quality_block", s>> \in gaps
                             /\ <<"source_quality_warning", s>> \in gaps)
    BY DEF OneGapPerSpanAndAxis, Counted
  <2>1. ASSUME NEW kind, NEW k, NEW S
        PROVE  <<k, s>> \in Gaps(kind, S) <=> k = kind /\ s \in S
    BY DEF Gaps
  <2>2. CASE gaps = {} \/ DraftSpans = {} \/ ~AllVerified
    <3>1. \A g \in gaps : g[1] \in {"missing_evidence", "unverified_claim"}
      BY <2>2 DEF IInv, Decided, Recorded, Gaps
    <3>2. \A k : <<k, s>> \in gaps => k \in {"missing_evidence", "unverified_claim"}
      BY <3>1
    <3> QED
      BY <3>2
  <2>3. CASE gaps # {} /\ DraftSpans # {} /\ AllVerified
    <3>1. gaps = Gaps("entailment_block", EcBlocked)
                   \cup Gaps("entailment_warning", EcWarned)
                   \cup Gaps("source_quality_block", SqBlocked)
                   \cup Gaps("source_quality_warning", SqWarned)
      BY <2>3 DEF IInv, Decided, Recorded
    <3>2. EcBlocked \cap EcWarned = {} /\ SqBlocked \cap SqWarned = {}
      BY DEF EcWarned, SqWarned
    <3> QED
      BY <2>1, <3>1, <3>2
  <2> QED
    BY <2>2, <2>3
<1> QED
  BY <1>2, <1>3, InductiveInvariant, PTL
=============================================================================
