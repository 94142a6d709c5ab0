---------------------------- MODULE TaskLifecycle ----------------------------
(***************************************************************************)
(* What the pipeline promises about a task, without streams, workers,      *)
(* transactions or locks: once created it is pending until it gets one of  *)
(* three outcomes, and keeps that outcome.  An answer exists from the time *)
(* the gate approves, which may be before the task shows as published, and *)
(* is never given to a task that is blocked or held.                       *)
(***************************************************************************)
CONSTANT Tasks

VARIABLES
  outcome,   \* "none", "pending", "blocked", "held" or "published"
  answered   \* published_answers v1 exists

vars == <<outcome, answered>>

Outcomes == {"blocked", "held", "published"}

Init ==
  /\ outcome = [t \in Tasks |-> "none"]
  /\ answered = [t \in Tasks |-> FALSE]

Create(t) ==
  /\ outcome[t] = "none"
  /\ outcome' = [outcome EXCEPT ![t] = "pending"]
  /\ UNCHANGED answered

\* Without documents, or with nothing the gate lets through.
Refuse(t) ==
  /\ outcome[t] = "pending" /\ ~answered[t]
  /\ \E o \in {"blocked", "held"} : outcome' = [outcome EXCEPT ![t] = o]
  /\ UNCHANGED answered

Approve(t) ==
  /\ outcome[t] = "pending" /\ ~answered[t]
  /\ answered' = [answered EXCEPT ![t] = TRUE]
  /\ \E o \in {"pending", "published"} : outcome' = [outcome EXCEPT ![t] = o]

Publish(t) ==
  /\ outcome[t] = "pending" /\ answered[t]
  /\ outcome' = [outcome EXCEPT ![t] = "published"]
  /\ UNCHANGED answered

Next == \E t \in Tasks : Create(t) \/ Refuse(t) \/ Approve(t) \/ Publish(t)

Spec == Init /\ [][Next]_vars
=============================================================================
