-------------------------- MODULE OrchestrationRun --------------------------
(***************************************************************************)
(* The mock orchestration services (orchestration_runner.py,               *)
(* orchestration_provider.py, orchestration_source_resolution.py) over the *)
(* tables of migration 0011.  Callers run concurrently.  Each makes one    *)
(* call -- a single-agent run, a multi-agent run, or a source resolution   *)
(* pass over a run -- inside a transaction it owns, commits it, and calls  *)
(* again with the same request when the transaction is lost.               *)
(*                                                                         *)
(* A run is named by its idempotency key, which is unique per tenant; the  *)
(* model has one tenant.  PostgreSQL is READ COMMITTED: a statement sees   *)
(* the committed rows and those of its own transaction; an insert whose    *)
(* unique key another open transaction holds waits for its end and fails   *)
(* with an IntegrityError if that key was committed.  Prompts, hashes,     *)
(* redaction and the counters of the results are left out.                 *)
(***************************************************************************)
EXTENDS Integers, FiniteSets, FiniteSetsExt, Sequences, SequencesExt

CONSTANTS
  Callers,     \* processes that call the services
  Menu,        \* [Callers -> sets of requests]
  Agents,      \* agent_configs rows
  Prompt,      \* [Agents -> master prompts]
  Tokens,      \* [Agents -> Nat], estimated input tokens of an agent's request
  Cites,       \* [Agents -> sequences of what the mock answer cites]
  MaxAgents,   \* MAX_AGENTS
  NoBudget,    \* a request without token_budget_id
  MaxFaults    \* bound on the transactions lost for a reason outside the model

Locators == {"document", "web", "other"}   \* marker, http(s) URL, anything else
RunKinds == {"single", "multi"}

ASSUME OrchestrationAssumption ==
  /\ IsFiniteSet(Callers) /\ IsFiniteSet(Agents)
  /\ \A c \in Callers : \A r \in Menu[c] :
       r.kind = "pass" \/ (r.kind \in RunKinds /\ r.agents \in Seq(ToSet(r.agents)))
  /\ Tokens \in [Agents -> Nat]
  /\ \A a \in Agents : Cites[a] \in Seq(Locators)
  /\ MaxAgents \in Nat \ {0} /\ MaxFaults \in Nat

VARIABLES
  db,       \* the committed rows, by table
  tx,       \* per caller, the rows its open transaction wrote
  call,     \* per caller, how far its call is
  answer,   \* per caller, what the service returned to it
  faults    \* transactions lost so far

vars == <<db, tx, call, answer, faults>>

-----------------------------------------------------------------------------
(* Tables.  An agentRuns row stands for the snapshot, the agent run, its   *)
(* messages, its provider invocation, its usage and, if it succeeded, its  *)
(* output.                                                                 *)

Empty == [runs |-> {}, agentRuns |-> {}, cands |-> {}, events |-> {}, resolutions |-> {}]

RunRow(key, kind, status) == [key |-> key, kind |-> kind, status |-> status]
AgentRow(run, a, ok) == [run |-> run, agent |-> a, ok |-> ok]
Name(cand) == <<cand.agent, cand.i>>
\* of names the entity: <<>> the run, <<a>> an agent run, <<a, i>> a candidate.
Event(run, no, type, key, of) ==
  [run |-> run, no |-> no, type |-> type, key |-> key, of |-> of]

SameEvent(e, f) == e.run = f.run /\ e.type = f.type /\ e.key = f.key /\ e.of = f.of

\* Mutant: without the unique index on (run, sequence_no).
ClashByKey(e, f) == SameEvent(e, f)

\* orchestration_events_run_sequence_uq and _run_type_idem_uq
EventClash(e, f) == e.run = f.run /\ (e.no = f.no \/ SameEvent(e, f))

\* source_resolutions_idem_uq
ResolutionClash(r, s) == r.cand = s.cand /\ r.key = s.key

Sees(c) == [t \in DOMAIN db |-> db[t] \cup tx[c][t]]
Uncommitted(c, t) == UNION {tx[d][t] : d \in Callers \ {c}}

\* Caller c writes rows, a record with some of the tables.
Write(c, rows) ==
  tx' = [tx EXCEPT ![c] = [t \in DOMAIN Empty |->
           IF t \in DOMAIN rows THEN @[t] \cup rows[t] ELSE @[t]]]

-----------------------------------------------------------------------------
(* Requests.  A run request is [kind, key, prompt, agents, broken, budget];*)
(* agents lists the agent configurations in order, broken holds those with *)
(* an injected provider error.  A pass request is [kind, run, key, bound,  *)
(* eligible, scope]; scope is an agent, for its output, or "run".          *)

ValidRunShape(r) ==
  /\ r.agents # <<>> /\ Len(r.agents) <= MaxAgents
  /\ IsInjective(r.agents)
  /\ r.broken \subseteq ToSet(r.agents)

\* Agents of another prompt are refused; so is a budget of another agent or prompt.
LoadsAgents(r) == \A a \in ToSet(r.agents) : a \in Agents /\ Prompt[a] = r.prompt
LoadsBudget(r) ==
  r.budget # NoBudget =>
    /\ r.budget.agent \in ToSet(r.agents) \cup {"any"}
    /\ r.budget.prompt \in {r.prompt, "any"}

ValidPass(r) == r.bound > 0

Estimate(r) == FoldSeq(LAMBDA a, sum : Tokens[a] + sum, 0, r.agents)

\* The single-agent runner stops at the limit whatever the overflow policy.
SingleOverBudget(r) == r.budget # NoBudget /\ Estimate(r) > r.budget.limit

\* The multi-agent runner only stops under hard_stop.
MultiOverBudget(r) ==
  r.budget # NoBudget /\ r.budget.policy = "hard_stop" /\ Estimate(r) > r.budget.limit

-----------------------------------------------------------------------------
(* The mock provider and the rows of one agent                             *)

\* An injected error code makes the invocation fail; otherwise it succeeds
\* with the citations injected for the agent.
Invoke(r, a) ==
  IF a \in r.broken THEN [ok |-> FALSE, cites |-> <<>>]
                    ELSE [ok |-> TRUE, cites |-> Cites[a]]

\* Provider candidates never carry a document marker: their payload has the
\* title, url, locator and text only.
AsCandidate(cited) == IF cited = "document" THEN "other" ELSE cited

Candidate(run, a, i, cited) ==
  [run |-> run, agent |-> a, i |-> i, cites |-> AsCandidate(cited), status |-> "proposed"]

\* The rows one agent writes, its first event numbered no: started, one
\* candidate with its event per citation, completed or failed.
AgentRows(r, a, no) ==
  LET result == Invoke(r, a)
      found(i) == Candidate(r.key, a, i, result.cites[i])
      last == Len(result.cites) + 1
  IN [ agentRuns |-> {AgentRow(r.key, a, result.ok)},
       cands |-> {found(i) : i \in DOMAIN result.cites},
       events |->
         {Event(r.key, no, "agent_run_started", r.key, <<a>>)} \cup
         {Event(r.key, no + i, "source_candidate_created", r.key, Name(found(i))) :
            i \in DOMAIN result.cites} \cup
         {Event(r.key, no + last,
                IF result.ok THEN "agent_run_completed" ELSE "agent_run_failed", r.key, <<a>>)} ]

Failed(run, no) == Event(run, no, "run_failed", run, <<>>)

-----------------------------------------------------------------------------
(* What a candidate's history says of it                                   *)

\* Mutant: the derived state is written where the outcome belongs.
ClassifyAsState(cand) ==
  CASE cand.cites = "document" -> "resolved"
    [] cand.cites = "web" -> "resolution_failed"
    [] OTHER -> "insufficient_metadata"

Classify(cand) ==
  CASE cand.cites = "document" -> "resolved"
    [] cand.cites = "web" -> "unreachable"
    [] OTHER -> "insufficient_metadata"

StateAfter(outcome) ==
  CASE outcome = "resolved" -> "resolved"
    [] outcome = "insufficient_metadata" -> "insufficient_metadata"
    [] OTHER -> "resolution_failed"

\* The latest resolution decides; all those of a candidate have one outcome,
\* so which of them is the latest does not matter.
DerivedState(rows, cand) ==
  IF \E s \in rows.resolutions : s.cand = cand
    THEN StateAfter((CHOOSE s \in rows.resolutions : s.cand = cand).outcome)
    ELSE cand.status

InScope(rows, r) == {d \in rows.cands : d.run = r.run /\ r.scope \in {"run", d.agent}}

\* A fixed order of the candidates: by agent output, then by candidate.
Place(a) == CHOOSE n \in DOMAIN SetToSeq(Agents) : SetToSeq(Agents)[n] = a
Precedes(d, e) == Place(d.agent) < Place(e.agent) \/ (d.agent = e.agent /\ d.i < e.i)

\* The scope as a sorted sequence: the set of them, which has one member.
InOrder(rows, r) ==
  {order \in [1 .. Cardinality(InScope(rows, r)) -> InScope(rows, r)] :
     \A i, j \in DOMAIN order : i < j => Precedes(order[i], order[j])}

\* COALESCE(MAX(sequence_no), -1) + 1
NextSequenceNo(rows, run) == Max({e.no : e \in {f \in rows.events : f.run = run}} \cup {-1}) + 1

-----------------------------------------------------------------------------
(* One call                                                                *)

Idle == [pc |-> "idle"]
NoAnswer == [status |-> "none"]
Refused == [status |-> "failed", run |-> "none"]

At(c, pc) == call[c].pc = pc
Goto(c, pc) == call' = [call EXCEPT ![c].pc = pc]
Return(c, a) == answer' = [answer EXCEPT ![c] = a] /\ Goto(c, "commit")

\* A request with a bad shape, unknown agents or a foreign budget returns
\* failed and writes nothing.
Call(c) ==
  /\ At(c, "idle")
  /\ \E r \in Menu[c] :
       call' = [call EXCEPT ![c] =
         [pc |-> IF r.kind = "pass" THEN "pass" ELSE "lookup", req |-> r,
          i |-> 1, next |-> 0, todo |-> <<>>, handled |-> 0,
          failed |-> {}, error |-> "none", outcomes |-> {}]]
  /\ UNCHANGED <<db, tx, answer, faults>>

RunIn(rows, key) == {x \in rows.runs : x.key = key}

\* Mutant: a replayed run is always reported as succeeded.
ReplaySucceeds(x) == "succeeded"

\* _result_status_for_run: pending and running are passed on as they are.
ResultStatus(x) ==
  CASE x.status = "completed" -> "succeeded"
    [] x.status = "failed" -> "failed"
    [] OTHER -> x.status

RanIn(rows, key) == {m \in rows.agentRuns : m.run = key}
FailedIn(rows, key) == {m.agent : m \in {n \in RanIn(rows, key) : ~n.ok}}

\* An agent stands for the error code its failure has.
ErrorOf(m) == IF m.ok THEN "none" ELSE m.agent

\* A single-agent result names one agent run with its error code: the first by
\* (created_at, id).  The rows of a run share NOW(), so it may be any of them.
ReplaySingle(rows, x) ==
  LET told(a, error) ==
        [status |-> ResultStatus(x), run |-> x.key, agent |-> a, error |-> error]
  IN IF RanIn(rows, x.key) = {}
       THEN {told("none", "none")}
       ELSE {told(m.agent, ErrorOf(m)) : m \in RanIn(rows, x.key)}

\* A multi-agent result has all agent runs and the failed ones.  Its error code
\* is that of the first failed one, or else of the event run_failed, which
\* only the budget leaves in a run without one.
ReplayMulti(rows, x) ==
  {[status |-> ResultStatus(x), run |-> x.key,
    agents |-> {m.agent : m \in RanIn(rows, x.key)},
    failed |-> FailedIn(rows, x.key), error |-> code] :
     code \in IF FailedIn(rows, x.key) # {} THEN FailedIn(rows, x.key)
              ELSE IF \E e \in rows.events : e.run = x.key /\ e.type = "run_failed"
                THEN {"budget_exceeded"} ELSE {"none"}}

\* A known key returns the run it names, whatever this request asks for, in the
\* shape of this request's kind.
Replay(c) ==
  LET r == call[c].req
      rows == Sees(c)
  IN /\ At(c, "lookup") /\ ValidRunShape(r)
     /\ \E x \in RunIn(rows, r.key) :
          \E a \in IF r.kind = "single" THEN ReplaySingle(rows, x) ELSE ReplayMulti(rows, x) :
            Return(c, a)
     /\ UNCHANGED <<db, tx, faults>>

RefuseRun(c) ==
  LET r == call[c].req IN
  /\ At(c, "lookup")
  /\ \/ ~ValidRunShape(r)
     \/ RunIn(Sees(c), r.key) = {} /\ ~(LoadsAgents(r) /\ LoadsBudget(r))
  /\ Return(c, Refused)
  /\ UNCHANGED <<db, tx, faults>>

\* The lookup takes no lock: another call may be writing the same run.
AcceptRun(c) ==
  LET r == call[c].req IN
  /\ At(c, "lookup") /\ ValidRunShape(r)
  /\ RunIn(Sees(c), r.key) = {} /\ LoadsAgents(r) /\ LoadsBudget(r)
  /\ Goto(c, "insert")
  /\ UNCHANGED <<db, tx, answer, faults>>

-----------------------------------------------------------------------------
(* Executing a run: everything is private to the transaction but the       *)
(* insert of the run row.                                                  *)

RunKeyHeld(c) == \E x \in Uncommitted(c, "runs") : x.key = call[c].req.key
RunKeyTaken(c) == RunIn(db, call[c].req.key) # {}

InsertRun(c) ==
  LET r == call[c].req IN
  /\ At(c, "insert") /\ ~RunKeyHeld(c) /\ ~RunKeyTaken(c)
  /\ Write(c, [runs |-> {RunRow(r.key, r.kind, "running")},
                events |-> {Event(r.key, 0, "run_created", r.key, <<>>)}])
  /\ call' = [call EXCEPT ![c].pc = IF r.kind = "single" THEN "single" ELSE "preflight",
                          ![c].next = 1]
  /\ UNCHANGED <<db, answer, faults>>

\* The status column of the run the caller is writing.
Settle(t, status) == [t EXCEPT !.runs = {[x EXCEPT !.status = status] : x \in @}]

Exceeded(c) ==
  LET r == call[c].req
      n == call[c].next
      stop == [tx[c] EXCEPT !.events = @ \cup
                 {Event(r.key, n, "token_budget_exceeded", r.key, <<>>), Failed(r.key, n + 1)}]
  IN /\ tx' = [tx EXCEPT ![c] = Settle(stop, "failed")]
     /\ Return(c, IF r.kind = "single"
          THEN [status |-> "failed", run |-> r.key, agent |-> "none", error |-> "budget_exceeded"]
          ELSE [status |-> "failed", run |-> r.key, agents |-> {}, failed |-> {},
                error |-> "budget_exceeded"])

\* The single-agent run, from the budget check to the terminal status.
RunSingle(c) ==
  LET r == call[c].req
      n == call[c].next
      rows == AgentRows(r, r.agents[1], n)
      ok == Invoke(r, r.agents[1]).ok
      ended == [t \in DOMAIN Empty |->
                  CASE t \in {"agentRuns", "cands"} -> tx[c][t] \cup rows[t]
                    [] t = "events" -> tx[c][t] \cup rows[t] \cup
                         (IF ok THEN {} ELSE {Failed(r.key, n + Cardinality(rows.events))})
                    [] OTHER -> tx[c][t]]
  IN /\ At(c, "single")
     /\ \/ SingleOverBudget(r) /\ Exceeded(c)
        \/ /\ ~SingleOverBudget(r)
           /\ tx' = [tx EXCEPT ![c] = Settle(ended, IF ok THEN "completed" ELSE "failed")]
           /\ Return(c, [status |-> IF ok THEN "succeeded" ELSE "failed", run |-> r.key,
                          agent |-> r.agents[1],
                          error |-> ErrorOf(AgentRow(r.key, r.agents[1], ok))])
     /\ UNCHANGED <<db, faults>>

Preflight(c) ==
  /\ At(c, "preflight")
  /\ IF MultiOverBudget(call[c].req)
       THEN Exceeded(c)
       ELSE Goto(c, "agents") /\ UNCHANGED <<tx, answer>>
  /\ UNCHANGED <<db, faults>>

\* One agent of a multi-agent run; a failed one does not stop the others, and
\* the first of them gives the result its error code.
RunAgent(c) ==
  LET r == call[c].req
      a == r.agents[call[c].i]
      rows == AgentRows(r, a, call[c].next)
  IN /\ At(c, "agents") /\ call[c].i <= Len(r.agents)
     /\ Write(c, rows)
     /\ call' = [call EXCEPT ![c].i = @ + 1,
                             ![c].next = @ + Cardinality(rows.events),
                             ![c].failed = @ \cup (IF Invoke(r, a).ok THEN {} ELSE {a}),
                             ![c].error = IF Invoke(r, a).ok \/ call[c].failed # {}
                                            THEN @ ELSE a]
     /\ UNCHANGED <<db, answer, faults>>

FinishRun(c) ==
  LET r == call[c].req
      ok == call[c].failed = {}
      ended == [tx[c] EXCEPT !.events = @ \cup
                  (IF ok THEN {} ELSE {Failed(r.key, call[c].next)})]
  IN /\ At(c, "agents") /\ call[c].i > Len(r.agents)
     /\ tx' = [tx EXCEPT ![c] = Settle(ended, IF ok THEN "completed" ELSE "failed")]
     /\ Return(c, [status |-> IF ok THEN "succeeded" ELSE "failed", run |-> r.key,
                    agents |-> ToSet(r.agents), failed |-> call[c].failed,
                    error |-> call[c].error])
     /\ UNCHANGED <<db, faults>>

-----------------------------------------------------------------------------
(* A source resolution pass                                                *)

\* Selects the candidates and reads the next sequence number once, with no
\* lock, before the first candidate is looked at.
BeginPass(c) ==
  LET r == call[c].req
      rows == Sees(c)
  IN /\ At(c, "pass")
     /\ IF ValidPass(r) /\ RunIn(rows, r.run) # {}
          THEN /\ \E order \in InOrder(rows, r) :
                    call' = [call EXCEPT ![c].pc = "candidate",
                                         ![c].todo = order,
                                         ![c].next = NextSequenceNo(rows, r.run)]
               /\ UNCHANGED answer
          ELSE Return(c, Refused)
     /\ UNCHANGED <<db, tx, faults>>

Current(c) == call[c].todo[1]
Own(rows, c) == {s \in rows.resolutions : s.cand = Current(c) /\ s.key = call[c].req.key}
Eligible(c) ==
  DerivedState(Sees(c), Current(c)) \in call[c].req.eligible

AtCandidate(c) == At(c, "candidate") /\ call[c].todo # <<>>

\* Already resolved under this pass key: its outcome is reported again.
ReplayCandidate(c) ==
  /\ AtCandidate(c)
  /\ \E s \in Own(Sees(c), c) :
       call' = [call EXCEPT ![c].todo = Tail(@),
                  ![c].outcomes = @ \cup {[cand |-> s.cand, outcome |-> s.outcome]}]
  /\ UNCHANGED <<db, tx, answer, faults>>

\* Mutant: a skipped candidate uses up a sequence number.
SkipCounting(c) ==
  /\ AtCandidate(c) /\ Own(Sees(c), c) = {}
  /\ ~Eligible(c) \/ call[c].handled >= call[c].req.bound
  /\ call' = [call EXCEPT ![c].todo = Tail(@), ![c].next = @ + 1]
  /\ UNCHANGED <<db, tx, answer, faults>>

\* Not eligible, or eligible beyond the bound: left to a later pass.
SkipCandidate(c) ==
  /\ AtCandidate(c) /\ Own(Sees(c), c) = {}
  /\ ~Eligible(c) \/ call[c].handled >= call[c].req.bound
  /\ call' = [call EXCEPT ![c].todo = Tail(@)]
  /\ UNCHANGED <<db, tx, answer, faults>>

TakeCandidate(c) ==
  /\ AtCandidate(c) /\ Own(Sees(c), c) = {}
  /\ Eligible(c) /\ call[c].handled < call[c].req.bound
  /\ call' = [call EXCEPT ![c].pc = "started", ![c].handled = @ + 1]
  /\ UNCHANGED <<db, tx, answer, faults>>

\* The event of the candidate at hand, before or after its resolution.
PassEventType ==
  [started |-> "source_resolution_started", completed |-> "source_resolution_completed"]
PassEvent(c) ==
  Event(call[c].req.run, call[c].next, PassEventType[call[c].pc],
        call[c].req.key, Name(Current(c)))

NewResolution(c) ==
  [cand |-> Current(c), key |-> call[c].req.key, outcome |-> Classify(Current(c))]

EventHeld(c) == \E f \in Uncommitted(c, "events") : EventClash(PassEvent(c), f)
EventTaken(c) == \E f \in Sees(c).events : EventClash(PassEvent(c), f)
EventKnown(c) == \E f \in Sees(c).events : SameEvent(PassEvent(c), f)
ResolutionHeld(c) ==
  \E s \in Uncommitted(c, "resolutions") : ResolutionClash(NewResolution(c), s)
ResolutionTaken(c) ==
  \E s \in Sees(c).resolutions : ResolutionClash(NewResolution(c), s)

\* Known under the pass key, because a call with the same key committed after
\* the candidate was examined, the event is reused; a new one takes the next
\* number.
StartResolution(c) ==
  /\ At(c, "started")
  /\ \/ /\ EventKnown(c)
        /\ Goto(c, "resolution")
        /\ UNCHANGED tx
     \/ /\ ~EventHeld(c) /\ ~EventTaken(c)
        /\ Write(c, [events |-> {PassEvent(c)}])
        /\ call' = [call EXCEPT ![c].pc = "resolution", ![c].next = @ + 1]
  /\ UNCHANGED <<db, answer, faults>>

InsertResolution(c) ==
  /\ At(c, "resolution") /\ ~ResolutionHeld(c) /\ ~ResolutionTaken(c)
  /\ Write(c, [resolutions |-> {NewResolution(c)}])
  /\ Goto(c, "completed")
  /\ UNCHANGED <<db, answer, faults>>

\* The code looks for a known event here too; it never finds one, the resolution
\* just inserted being the first under its key.
CompleteResolution(c) ==
  /\ At(c, "completed") /\ ~EventHeld(c) /\ ~EventTaken(c)
  /\ Write(c, [events |-> {PassEvent(c)}])
  /\ call' = [call EXCEPT ![c].pc = "candidate", ![c].next = @ + 1, ![c].todo = Tail(@),
       ![c].outcomes = @ \cup {[cand |-> Current(c), outcome |-> Classify(Current(c))]}]
  /\ UNCHANGED <<db, answer, faults>>

EndPass(c) ==
  /\ At(c, "candidate") /\ call[c].todo = <<>>
  /\ Return(c, [status |-> "succeeded", run |-> call[c].req.run,
                 outcomes |-> call[c].outcomes])
  /\ UNCHANGED <<db, tx, faults>>

-----------------------------------------------------------------------------
(* The caller's transaction.  No caller exists under src/ but the tests:   *)
(* what follows is the contract of the docstrings, "the caller owns the    *)
(* transaction", with the retry the idempotency keys are there for.        *)

Commit(c) ==
  /\ At(c, "commit")
  /\ db' = Sees(c)
  /\ tx' = [tx EXCEPT ![c] = Empty]
  /\ Goto(c, "done")
  /\ UNCHANGED <<answer, faults>>

Lose(c) ==
  /\ tx' = [tx EXCEPT ![c] = Empty]
  /\ answer' = [answer EXCEPT ![c] = NoAnswer]
  /\ call' = [call EXCEPT ![c] =
       [@ EXCEPT !.pc = IF call[c].req.kind = "pass" THEN "pass" ELSE "lookup",
                 !.i = 1, !.next = 0, !.todo = <<>>, !.handled = 0,
                 !.failed = {}, !.error = "none", !.outcomes = {}]]
  /\ UNCHANGED db

\* The key of an insert was committed by another transaction.  An event known
\* by now still clashes for a caller that was already waiting for it.
IntegrityError(c) ==
  /\ \/ At(c, "insert") /\ ~RunKeyHeld(c) /\ RunKeyTaken(c)
     \/ call[c].pc \in {"started", "completed"} /\ ~EventHeld(c) /\ EventTaken(c)
     \/ At(c, "resolution") /\ ~ResolutionHeld(c) /\ ResolutionTaken(c)
  /\ Lose(c)
  /\ UNCHANGED faults

\* The process dies or a later statement of the transaction fails.
Rollback(c) ==
  /\ call[c].pc \notin {"idle", "done"} /\ faults < MaxFaults
  /\ faults' = faults + 1
  /\ Lose(c)

AllDone == (\A c \in Callers : At(c, "done")) /\ UNCHANGED vars

Init ==
  /\ db = Empty
  /\ tx = [c \in Callers |-> Empty]
  /\ call = [c \in Callers |-> Idle]
  /\ answer = [c \in Callers |-> NoAnswer]
  /\ faults = 0

Step(c) ==
  \/ Call(c) \/ Replay(c) \/ RefuseRun(c) \/ AcceptRun(c)
  \/ InsertRun(c) \/ RunSingle(c) \/ Preflight(c) \/ RunAgent(c) \/ FinishRun(c)
  \/ BeginPass(c) \/ ReplayCandidate(c) \/ SkipCandidate(c) \/ TakeCandidate(c)
  \/ StartResolution(c) \/ InsertResolution(c) \/ CompleteResolution(c) \/ EndPass(c)
  \/ Commit(c) \/ IntegrityError(c) \/ Rollback(c)

Next == (\E c \in Callers : Step(c)) \/ AllDone

Spec == Init /\ [][Next]_vars

-----------------------------------------------------------------------------
(* Properties                                                              *)

Statuses == {"pending", "running", "completed", "failed"}
Outcomes == {"resolved", "unreachable", "insufficient_metadata"}
EventTypes ==
  {"run_created", "agent_run_started", "agent_run_completed", "agent_run_failed",
   "source_candidate_created", "token_budget_exceeded", "run_failed",
   "source_resolution_started", "source_resolution_completed"}

\* Every table holds rows of its codomains (the CHECKs of 0011) and a caller's
\* position is one the services have.
TypeOK ==
  /\ \A rows \in {db} \cup {tx[c] : c \in Callers} :
       /\ DOMAIN rows = DOMAIN Empty
       /\ \A x \in rows.runs : x.status \in Statuses /\ x.kind \in RunKinds
       /\ \A m \in rows.agentRuns : m.agent \in Agents /\ m.ok \in BOOLEAN
       /\ \A d \in rows.cands : d.cites \in Locators /\ d.status = "proposed"
       /\ \A e \in rows.events : e.no \in Nat /\ e.type \in EventTypes
       /\ \A s \in rows.resolutions : s.outcome \in Outcomes
  /\ \A c \in Callers :
       /\ call[c].pc \in {"idle", "lookup", "insert", "single", "preflight", "agents", "pass",
            "candidate", "started", "resolution", "completed", "commit", "done"}
       /\ answer[c].status \in {"none", "succeeded"} \cup Statuses
  /\ faults \in 0 .. MaxFaults

Of(run, t) == {e \in db[t] : e.run = run}
Logged(run, type) == {e \in Of(run, "events") : e.type = type}

\* The committed log of a run has the numbers 0 .. n-1 once each, begins with
\* run_created, and tells the tables: every agent that ran was started and then
\* ended as its row says, every candidate was announced, every resolution lies
\* between its two events, and the run failed exactly if the log has run_failed.
\* A run is completed exactly if all its agents succeeded, which no event of the
\* run's own says (0011_orchestration_schema.sql:279-286 has every status in the
\* log).  The numbers come from several transactions, as MAX + 1 without a lock
\* (orchestration_source_resolution.py:577-590).
LogTellsTheRun ==
  \A x \in db.runs :
    LET log == Of(x.key, "events")
        before(a, b, of) == \E e \in Logged(x.key, a), f \in Logged(x.key, b) :
                              e.of = of /\ f.of = of /\ e.key = f.key /\ e.no < f.no
    IN /\ {e.no : e \in log} = 0 .. Cardinality(log) - 1
       /\ \A e \in log : e.no = 0 <=> e.type = "run_created"
       /\ \A m \in Of(x.key, "agentRuns") :
            before("agent_run_started",
                   IF m.ok THEN "agent_run_completed" ELSE "agent_run_failed", <<m.agent>>)
       /\ {e.of : e \in Logged(x.key, "source_candidate_created")} =
            {Name(d) : d \in Of(x.key, "cands")}
       /\ \A s \in {r \in db.resolutions : r.cand.run = x.key} :
            /\ before("source_resolution_started", "source_resolution_completed", Name(s.cand))
            /\ \E e \in Logged(x.key, "source_resolution_completed") :
                 e.key = s.key /\ e.of = Name(s.cand)
       /\ x.status = "failed" <=> Logged(x.key, "run_failed") # {}
       /\ x.status = "completed" <=>
            Of(x.key, "agentRuns") # {} /\ \A m \in Of(x.key, "agentRuns") : m.ok

\* What a caller was told is what is committed, whether it executed the run or
\* had it replayed: the status of the run; to a multi-agent caller all its
\* agents, the failed ones and the error code of one of these, the budget's if
\* the run failed without; to a single-agent caller one of its agents with the
\* error code of that one, or none where none ran; and for a pass an outcome
\* that is on record under the pass key.  An error code need not be the one the
\* first call was told, nor, for a single-agent caller, be there at all when
\* the budget or another agent failed the run (orchestration_runner.py:1478-1503).
CallersAreToldTheTables ==
  \A c \in Callers : At(c, "done") /\ answer[c].run # "none" =>
    LET a == answer[c]
        kind == call[c].req.kind
        ran == RanIn(db, a.run)
    IN /\ \E x \in RunIn(db, a.run) :
            kind \in RunKinds =>
              a.status = IF x.status = "completed" THEN "succeeded" ELSE "failed"
       /\ kind = "multi" =>
            /\ a.agents = {m.agent : m \in ran} /\ a.failed = FailedIn(db, a.run)
            /\ a.error \in IF a.failed # {} THEN a.failed
                           ELSE IF a.status = "failed" THEN {"budget_exceeded"} ELSE {"none"}
       /\ kind = "single" =>
            \/ \E m \in ran : a.agent = m.agent /\ a.error = ErrorOf(m)
            \/ ran = {} /\ a.agent = "none" /\ a.error \in {"none", "budget_exceeded"}
       /\ kind = "pass" =>
            \A o \in a.outcomes : \E s \in db.resolutions :
              s.cand = o.cand /\ s.key = call[c].req.key /\ s.outcome = o.outcome

\* No pass commits an attempt at a candidate that was no longer eligible: when
\* its transaction commits, every candidate it resolved is still in a state the
\* request asked for, although the state was read without a lock and another
\* pass may have committed since (orchestration_source_resolution.py:808-815).
ResolvedWhileEligible ==
  [][\A c \in Callers : At(c, "commit") /\ call'[c].pc = "done" =>
       \A s \in tx[c].resolutions :
         DerivedState(db, s.cand) \in call[c].req.eligible]_vars

=============================================================================
