-------------------------- MODULE MCEvidenceChecks --------------------------
(* Model-checking instance of EvidenceChecks: two tasks that cite the same *)
(* two spans in opposite orders, and a third that cites one of them.       *)
EXTENDS EvidenceChecks, TLC

CONSTANTS t1, t2, t3, e1, e2, e3, e4, e5

CitesOf ==
  t1 :> << <<e1, 1>>, <<e2, 2>> >>
  @@ t2 :> << <<e3, 2>>, <<e4, 1>> >>
  @@ t3 :> << <<e5, 2>> >>

Quotes == {<<e1, 1>>, <<e3, 2>>}
NumbersIn == [x \in {e1, e2, e3, e4, e5} \cup {1, 2} |->
                IF x = e4 THEN {7} ELSE IF x = 1 THEN {8} ELSE {}]
=============================================================================
