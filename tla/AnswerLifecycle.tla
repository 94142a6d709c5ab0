--------------------------- MODULE AnswerLifecycle ---------------------------
(***************************************************************************)
(* What withdrawal and source-loss requests promise, without streams,      *)
(* workers, processing records or locks.  A published answer is withdrawn  *)
(* at most once, by one request, whose two lifecycle events and audit      *)
(* event appear with the transition.  A detected loss has its consequences *)
(* recorded once each, the claims before the answer, and audited when they *)
(* are.                                                                    *)
(***************************************************************************)
EXTENDS Naturals, Sequences

CONSTANTS Answers, Keys

VARIABLES
  answer,    \* "published" or "withdrawn"
  history,   \* published_answer_lifecycle_events
  losses,    \* committed source_loss_events
  recorded,  \* <<loss, consequence>>: source_loss_propagation_records
  trail      \* audit events about answers and losses

vars == <<answer, history, losses, recorded, trail>>

\* How a request with key k shows in the history of answer a.
HistoryOf(a, k) == {<<a, "withdrawal_requested", k>>, <<a, "withdrawn", k>>}

Init ==
  /\ answer = [a \in Answers |-> "published"]
  /\ history = {} /\ losses = {} /\ recorded = {} /\ trail = <<>>

Withdraw(a, k) ==
  /\ answer[a] = "published"
  /\ answer' = [answer EXCEPT ![a] = "withdrawn"]
  /\ history' = history \cup HistoryOf(a, k)
  /\ trail' = Append(trail, <<"withdrawn", a>>)
  /\ UNCHANGED <<losses, recorded>>

Detect(l) ==
  /\ l \notin losses
  /\ losses' = losses \cup {l}
  /\ UNCHANGED <<answer, history, recorded, trail>>

\* What an answer that shows the lost claims, or none that does, leaves.
Impacts == {"answer", "no_answer"}

\* The claims of l, and then what it means for the answer, in one commit or two.
Record(l, claims, impact) ==
  /\ l \in losses /\ claims \cup impact # {}
  /\ \A c \in claims \cup impact : <<l, c>> \notin recorded
  /\ impact # {} => <<l, "claims">> \in recorded \/ "claims" \in claims
  /\ recorded' = recorded \cup {<<l, c>> : c \in claims \cup impact}
  /\ trail' = trail \o (IF claims = {} THEN <<>> ELSE << <<"claims", l>> >>)
                    \o (IF "answer" \in impact THEN << <<"answer", l>> >> ELSE <<>>)
  /\ UNCHANGED <<answer, history, losses>>

Next ==
  \/ \E a \in Answers, k \in Keys : Withdraw(a, k)
  \/ \E l \in losses' : Detect(l)
  \/ \E l \in losses, claims \in SUBSET {"claims"}, impact \in {{}} \cup {{i} : i \in Impacts} :
       Record(l, claims, impact)

Spec == Init /\ [][Next]_vars
=============================================================================
