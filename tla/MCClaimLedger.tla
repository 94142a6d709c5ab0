----------------------------- MODULE MCClaimLedger -----------------------------
(* Model-checking instances of ClaimLedger: two sentences, the first found *)
(* in three spans, one of which misquotes its chunk, so that losing one    *)
(* span touches one claim and losing another touches both.                 *)
EXTENDS ClaimLedger, TLC

CONSTANTS s1, s2, s3, e1, e2

FoundIn == <<{s1, s2, s3}, {s2}>>
Losses == e1 :> s2 @@ e2 :> s1

Symmetry == Permutations(Losers)
=============================================================================
