-------------------------- MODULE MCFinalAnswerGate --------------------------
(* Model-checking instance of FinalAnswerGate.  A link to the latest       *)
(* verified entry carries up to two pieces of evidence of every class the  *)
(* policies distinguish; a link to an older entry, or to an entry a source *)
(* loss has made unverifiable, carries evidence that would block or        *)
(* approve if the gate wrongly looked at it.                               *)
EXTENDS FinalAnswerGate, TLC

CONSTANTS p1, p2

Quality ==
  {<<Missing, Missing>>, <<"adequate", "no_known_contradiction">>,
   <<"weak", "unchecked">>, <<"unsuitable", "unchecked">>,
   <<"strong", "conflicting_sources">>}
Verdicts == {Missing, "entailed", "uncertain", "contradicted"}

Evidence ==
  {[oq |-> q[1], cs |-> q[2], verdict |-> v] : q \in Quality, v \in Verdicts}
Good == [oq |-> "adequate", cs |-> "no_known_contradiction", verdict |-> "entailed"]
Bad == [oq |-> "unsuitable", cs |-> "unchecked", verdict |-> "contradicted"]

Link(linked, latest, state, evidence) ==
  [linked |-> linked, latest |-> latest, state |-> state, evidence |-> evidence]

Current == {Link(2, 2, "verified_fact", E) : E \in {{}} \cup {{e} : e \in Evidence}}
Outdated == {Link(1, 2, "verified_fact", {Bad}), Link(2, 2, "unverifiable", {Good})}

\* No link, one link, one current link beside an outdated or a good or bad one.
MCLinkSets ==
  {{}} \cup {{l} : l \in Current \cup Outdated}
    \cup {{l, k} : l \in Current,
                  k \in Outdated \cup {Link(2, 2, "verified_fact", {Good, Bad}),
                                      Link(2, 2, "verified_fact", {Good})}}

MCSpans == {p1, p2}
=============================================================================
