------------------------ MODULE OrchestrationRunProofs ------------------------
(***************************************************************************)
(* Proofs about OrchestrationRun, for any callers, requests, agents and    *)
(* citations.  The log of a committed run has the numbers 0 .. n - 1.  A   *)
(* pass that has written an event of a run wrote the number n the log had  *)
(* then, so nobody has committed an event of the run since it read what is *)
(* eligible, and nobody else has one to commit (Apart).                    *)
(***************************************************************************)
EXTENDS OrchestrationRun, FunctionTheorems, FiniteSetTheorems, TLAPS

-----------------------------------------------------------------------------
(* Tables: D are the committed ones, T those of a transaction.             *)

IsTables(T) ==
  T = [runs |-> T.runs, agentRuns |-> T.agentRuns, cands |-> T.cands,
       events |-> T.events, resolutions |-> T.resolutions]

\* What a transaction sees.
View(D, T) ==
  [runs |-> D.runs \cup T.runs, agentRuns |-> D.agentRuns \cup T.agentRuns,
   cands |-> D.cands \cup T.cands, events |-> D.events \cup T.events,
   resolutions |-> D.resolutions \cup T.resolutions]

Typed(T) ==
  /\ IsTables(T) /\ IsFiniteSet(T.cands)
  /\ \A x \in T.runs : x.status \in Statuses /\ x.kind \in RunKinds
  /\ \A m \in T.agentRuns : m.agent \in Agents /\ m.ok \in BOOLEAN
  /\ \A d \in T.cands : d.cites \in Locators /\ d.status = "proposed"
  /\ \A e \in T.events : e.no \in Nat /\ e.type \in EventTypes
  /\ \A s \in T.resolutions : s.outcome \in Outcomes

Keys(T) == {x.key : x \in T.runs}
LogOf(T, k) == {e \in T.events : e.run = k}
Size(T, k) == Cardinality(LogOf(T, k))

\* E has the numbers m .. n - 1 once each.
Numbered(E, m, n) ==
  /\ \A e \in E : e.no \in m .. n - 1
  /\ \A i \in m .. n - 1 : \E e \in E : e.no = i
  /\ \A e, f \in E : e.no = f.no => e = f

\* E has an event of type a of run k, and after it one of type b, about one thing.
Before(E, k, a, b, of, key) ==
  \E e, f \in E :
    /\ e.run = k /\ e.type = a /\ e.of = of /\ e.key = key
    /\ f.run = k /\ f.type = b /\ f.of = of /\ f.key = key
    /\ e.no < f.no

EndOf(m) == IF m.ok THEN "agent_run_completed" ELSE "agent_run_failed"

\* What the log of run k tells of its agents and candidates.
Tells(T, k) ==
  /\ \A e \in T.events : e.run = k => (e.no = 0 <=> e.type = "run_created")
  /\ \A m \in T.agentRuns : m.run = k =>
       Before(T.events, k, "agent_run_started", EndOf(m), <<m.agent>>, k)
  /\ \A d \in T.cands : d.run = k =>
       \E e \in T.events : e.run = k /\ e.type = "source_candidate_created" /\ e.of = Name(d)
  /\ \A e \in T.events : e.run = k /\ e.type = "source_candidate_created" =>
       \E d \in T.cands : d.run = k /\ e.of = Name(d)

ResolutionTold(T, s) ==
  Before(T.events, s.cand.run, "source_resolution_started", "source_resolution_completed",
         Name(s.cand), s.key)

NoneFailed(T, k) == \A e \in T.events : e.run = k => e.type # "run_failed"
AllOk(T, k) ==
  (\E m \in T.agentRuns : m.run = k) /\ \A m \in T.agentRuns : m.run = k => m.ok

\* A run of key k with this status is what log and agents say.
Ended(T, k, status) ==
  /\ status \in {"completed", "failed"}
  /\ (status = "failed") <=> ~NoneFailed(T, k)
  /\ (status = "completed") <=> AllOk(T, k)

Distinct(T) == \A d, e \in T.cands : d.run = e.run /\ Name(d) = Name(e) => d = e

\* The rows of T are of the runs of R.
OfRuns(T, R) ==
  /\ \A e \in T.events : e.run \in R
  /\ \A m \in T.agentRuns : m.run \in R
  /\ \A d \in T.cands : d.run \in R

Committed(D) ==
  /\ Typed(D) /\ OfRuns(D, Keys(D)) /\ Distinct(D)
  /\ \A x, y \in D.runs : x.key = y.key => x = y
  /\ \A x \in D.runs :
       /\ Size(D, x.key) \in Nat \ {0}
       /\ Numbered(LogOf(D, x.key), 0, Size(D, x.key))
       /\ Tells(D, x.key) /\ Ended(D, x.key, x.status)
  /\ \A s \in D.resolutions :
       s.cand \in D.cands /\ s.outcome = Classify(s.cand) /\ ResolutionTold(D, s)
  /\ \A e \in D.events : e.type = "source_resolution_started" =>
       \E s \in D.resolutions : s.cand.run = e.run /\ Name(s.cand) = e.of /\ s.key = e.key

-----------------------------------------------------------------------------
(* A caller of a run: x is its call, r the request, T its rows.            *)

Pcs == {"idle", "lookup", "insert", "single", "preflight", "agents", "pass",
        "candidate", "started", "resolution", "completed", "commit", "done"}
Running == {"single", "preflight", "agents"}
Handling == {"started", "resolution", "completed"}

IsCall(x) ==
  x = [pc |-> x.pc, req |-> x.req, i |-> x.i, next |-> x.next, todo |-> x.todo,
       handled |-> x.handled, failed |-> x.failed, error |-> x.error,
       outcomes |-> x.outcomes]

IsRequest(r) == r.kind = "pass" \/ (r.kind \in RunKinds /\ r.agents \in Seq(ToSet(r.agents)))

\* The rows of a run that nobody else knows.
NewRun(T, r, status) ==
  /\ Typed(T) /\ T.runs = {RunRow(r.key, r.kind, status)}
  /\ OfRuns(T, {r.key}) /\ Distinct(T) /\ T.resolutions = {}
  /\ \A e \in T.events : e.type # "source_resolution_started"
  /\ Cardinality(T.events) \in Nat \ {0}
  /\ Numbered(T.events, 0, Cardinality(T.events))
  /\ Tells(T, r.key)

\* Its agents before the i-th, and no others, have run and nothing has failed it yet.
Progress(T, r, i) ==
  /\ NewRun(T, r, "running") /\ NoneFailed(T, r.key)
  /\ \A m \in T.agentRuns : \E j \in 1 .. i - 1 : m.agent = r.agents[j]
  /\ \A d \in T.cands : \E j \in 1 .. i - 1 : d.agent = r.agents[j]
  /\ \A j \in 1 .. i - 1 : \E m \in T.agentRuns : m.agent = r.agents[j]

\* The agents a run may have.
Loaded(r) ==
  /\ r.kind \in RunKinds /\ r.agents \in Seq(Agents) /\ r.agents # <<>>
  /\ IsInjective(r.agents)

Executing(D, T, x) ==
  /\ Progress(T, x.req, x.i) /\ x.req.key \notin Keys(D) /\ Loaded(x.req)
  /\ x.next = Cardinality(T.events)
  /\ x.i \in 1 .. Len(x.req.agents) + 1 /\ (x.pc # "agents" => x.i = 1)
  /\ (x.pc = "single") <=> (x.req.kind = "single")
  /\ x.failed = FailedIn(T, x.req.key)
  /\ x.error \in IF x.failed = {} THEN {"none"} ELSE x.failed

\* What a caller of a run was told, by the kind of its request.
StatusTold(T, a) ==
  \E x \in T.runs :
    x.key = a.run /\ a.status = IF x.status = "completed" THEN "succeeded" ELSE "failed"

MultiTold(T, a) ==
  /\ a.agents = {m.agent : m \in RanIn(T, a.run)} /\ a.failed = FailedIn(T, a.run)
  /\ a.error \in IF a.failed # {} THEN a.failed
                 ELSE IF a.status = "failed" THEN {"budget_exceeded"} ELSE {"none"}

SingleTold(T, a) ==
  \/ \E m \in RanIn(T, a.run) : a.agent = m.agent /\ a.error = ErrorOf(m)
  \/ RanIn(T, a.run) = {} /\ a.agent = "none" /\ a.error \in {"none", "budget_exceeded"}

RunTold(T, kind, a) ==
  a.run # "none" =>
    /\ StatusTold(T, a)
    /\ kind = "multi" => MultiTold(T, a)
    /\ kind = "single" => SingleTold(T, a)

-----------------------------------------------------------------------------
(* A pass                                                                  *)

OutcomesKept(R, key, outcomes) ==
  \A o \in outcomes : \E s \in R : s.cand = o.cand /\ s.key = key /\ s.outcome = o.outcome

PassTold(D, T, x, a) ==
  a.run # "none" =>
    /\ a.run \in Keys(D)
    /\ OutcomesKept(D.resolutions \cup T.resolutions, x.req.key, a.outcomes)

\* What it has written.
PassRows(D, T, x) ==
  /\ x.req.kind = "pass" /\ x.req.run \in Keys(D)
  /\ Typed(T) /\ T.runs = {} /\ T.agentRuns = {} /\ T.cands = {}
  /\ \A e \in T.events :
       /\ e.run = x.req.run /\ e.key = x.req.key
       /\ e.type \in {"source_resolution_started", "source_resolution_completed"}
  /\ \A s \in T.resolutions :
       /\ s.cand \in D.cands /\ s.cand.run = x.req.run /\ s.key = x.req.key
       /\ s.outcome = Classify(s.cand)
       /\ DerivedState(D, s.cand) \in x.req.eligible
  /\ T.events = {} => T.resolutions = {}

\* Its events continue the log it found.
PassNumbers(D, T, x) ==
  /\ x.next \in Nat
  /\ T.events = {} => x.next <= Size(D, x.req.run)
  /\ T.events # {} =>
       Size(D, x.req.run) < x.next /\ Numbered(T.events, Size(D, x.req.run), x.next)

First(x) == x.todo[1]
StartedHere(T, x) ==
  \E e \in T.events : e.type = "source_resolution_started" /\ e.of = Name(First(x))

\* Every resolution but the one at hand has both of its events, and every
\* started event but the one at hand has its resolution.
Triples(T, x) ==
  /\ \A s \in T.resolutions :
       ResolutionTold(T, s) \/ (x.pc = "completed" /\ s.cand = First(x))
  /\ \A e \in T.events : e.type = "source_resolution_started" =>
       \/ \E s \in T.resolutions : Name(s.cand) = e.of
       \/ x.pc = "resolution" /\ e.of = Name(First(x))

\* What it knows of the candidate at hand.
AtHand(D, T, x) ==
  /\ x.todo # <<>>
  /\ x.pc \in {"started", "resolution"} =>
       \A s \in T.resolutions : s.cand # First(x)
  /\ x.pc = "started" =>
       ((T.events # {} \/ x.next = Size(D, x.req.run)) =>
          DerivedState(D, First(x)) \in x.req.eligible)
  /\ x.pc = "resolution" =>
       \/ StartedHere(T, x) /\ DerivedState(D, First(x)) \in x.req.eligible
       \/ \E s \in D.resolutions : s.cand = First(x) /\ s.key = x.req.key
  /\ x.pc = "completed" =>
       /\ StartedHere(T, x)
       /\ [cand |-> First(x), key |-> x.req.key, outcome |-> Classify(First(x))]
            \in T.resolutions

InRun(D, k) == {d \in D.cands : d.run = k}

Resolving(D, T, x) ==
  /\ PassRows(D, T, x) /\ PassNumbers(D, T, x) /\ Triples(T, x)
  /\ x.todo \in Seq(InRun(D, x.req.run))
  /\ OutcomesKept(D.resolutions \cup T.resolutions, x.req.key, x.outcomes)

-----------------------------------------------------------------------------
(* The invariant                                                           *)

\* What a caller has to commit and was told.
RunDone(D, T, x, a) ==
  /\ x.req.kind \in RunKinds /\ x.req.key \notin Keys(D)
  /\ \E status \in {"completed", "failed"} :
       NewRun(T, x.req, status) /\ Ended(T, x.req.key, status)
  /\ RunTold(T, x.req.kind, a)

PassDone(D, T, x, a) ==
  PassRows(D, T, x) /\ PassNumbers(D, T, x) /\ Triples(T, x) /\ PassTold(D, T, x, a)

\* What the tables have of what a caller was told.
Told(D, x, a) ==
  IF x.req.kind = "pass" THEN PassTold(D, Empty, x, a) ELSE RunTold(D, x.req.kind, a)

Phase(D, T, x, a) ==
  /\ Typed(T) /\ a.status \in {"none", "succeeded"} \cup Statuses
  /\ x.pc \in Pcs
  /\ x # Idle => IsCall(x) /\ IsRequest(x.req) /\ x.pc # "idle"
  /\ x.pc \in {"idle", "lookup", "insert", "pass", "done"} => T = Empty
  /\ x.pc \in {"lookup", "insert"} => x.req.kind \in RunKinds /\ x.i = 1 /\ x.failed = {} /\ x.error = "none"
  /\ x.pc = "insert" => Loaded(x.req)
  /\ x.pc \in Running => Executing(D, T, x)
  /\ x.pc = "pass" => x.req.kind = "pass" /\ x.outcomes = {}
  /\ x.pc \in {"candidate"} \cup Handling => Resolving(D, T, x)
  /\ x.pc \in Handling => AtHand(D, T, x)
  /\ x.pc = "commit" =>
       \/ T = Empty /\ Told(D, x, a)
       \/ RunDone(D, T, x, a)
       \/ PassDone(D, T, x, a)
  /\ x.pc = "done" => Told(D, x, a)

\* No run has uncommitted events of two transactions.
Apart(T, U) == \A e \in T.events, f \in U.events : e.run # f.run

IInv ==
  /\ tx = [c \in Callers |-> tx[c]] /\ call = [c \in Callers |-> call[c]]
  /\ answer = [c \in Callers |-> answer[c]] /\ faults \in 0 .. MaxFaults
  /\ Committed(db)
  /\ \A c \in Callers : Phase(db, tx[c], call[c], answer[c])
  /\ \A c, d \in Callers : c # d => Apart(tx[c], tx[d])

-----------------------------------------------------------------------------
(* Numbers                                                                 *)

\* Rows with the numbers m .. n - 1 are n - m.
LEMMA NumberedCount ==
  ASSUME NEW m \in Nat, NEW n \in Nat, m <= n, NEW E, Numbered(E, m, n)
  PROVE  IsFiniteSet(E) /\ Cardinality(E) = n - m
<1> DEFINE f == [e \in E |-> e.no]
<1>1. f \in Bijection(E, m .. n - 1)
  <2>1. f \in [E -> m .. n - 1]
    BY DEF Numbered
  <2>2. \A d, e \in E : f[d] = f[e] => d = e
    BY DEF Numbered
  <2>3. \A i \in m .. n - 1 : \E e \in E : f[e] = i
    BY DEF Numbered
  <2> HIDE DEF f
  <2> QED BY <2>1, <2>2, <2>3 DEF Bijection, Injection, Surjection, IsInjective
<1>2. IsFiniteSet(m .. n - 1) /\ Cardinality(m .. n - 1) = n - m
  <2>1. n - 1 \in Int /\ m \in Int
    OBVIOUS
  <2>2. IsFiniteSet(m .. n - 1) /\ Cardinality(m .. n - 1) =
          IF m > n - 1 THEN 0 ELSE (n - 1) - m + 1
    BY <2>1, FS_Interval
  <2> QED BY <2>2
<1>3. ExistsBijection(m .. n - 1, E)
  <2>1. ExistsBijection(E, m .. n - 1)
    BY <1>1 DEF ExistsBijection
  <2> QED BY <2>1, Fun_ExistsBijSymmetric
<1> QED BY <1>2, <1>3, FS_Bijection
 
LEMMA NumberedJoin ==
  ASSUME NEW m \in Nat, NEW n \in Nat, NEW p \in Nat, m <= n, n <= p,
         NEW E, NEW F, Numbered(E, m, n), Numbered(F, n, p)
  PROVE  Numbered(E \cup F, m, p)
<1>1. \A i \in m .. p - 1 : i \in m .. n - 1 \/ i \in n .. p - 1
  OBVIOUS
<1>2. m .. n - 1 \subseteq m .. p - 1 /\ n .. p - 1 \subseteq m .. p - 1
  OBVIOUS
<1>3. \A i \in m .. n - 1 : i \notin n .. p - 1
  OBVIOUS
<1> QED BY <1>1, <1>2, <1>3 DEF Numbered

LEMMA NumberedOne ==
  ASSUME NEW n \in Nat, NEW e, e.no = n
  PROVE  Numbered({e}, n, n + 1)
<1>1. n .. (n + 1) - 1 = {n}
  OBVIOUS
<1> QED BY <1>1 DEF Numbered

LEMMA NumberedNone ==
  ASSUME NEW m \in Nat, NEW n \in Nat, Numbered({}, m, n), m <= n
  PROVE  m = n
<1>1. m \in m .. n - 1 \/ m = n
  OBVIOUS
<1> QED BY <1>1 DEF Numbered

\* COALESCE(MAX(sequence_no), -1) + 1 of a log without gaps is its size.
LEMMA NextIsSize ==
  ASSUME NEW T, NEW k, Size(T, k) \in Nat, Numbered(LogOf(T, k), 0, Size(T, k))
  PROVE  NextSequenceNo(T, k) = Size(T, k)
<1> DEFINE n == Size(T, k)
           S == {e.no : e \in {f \in T.events : f.run = k}} \cup {-1}
<1>1. S = 0 .. n - 1 \cup {-1}
  BY DEF Numbered, LogOf
<1>2. n - 1 \in S /\ \A i \in S : n - 1 >= i
  <2>1. n - 1 \in 0 .. n - 1 \/ n - 1 = -1
    OBVIOUS
  <2> QED BY <1>1, <2>1
<1>3. \A i \in S : i \in Int
  BY <1>1
<1> HIDE DEF S
<1>4. Max(S) = n - 1
  <2>1. \A i \in S : (\A j \in S : i >= j) => i = n - 1
    BY <1>2, <1>3
  <2> QED BY <1>2, <2>1 DEF Max
<1> QED BY <1>4 DEF NextSequenceNo, S

-----------------------------------------------------------------------------
(* Tables                                                                  *)

LEMMA EmptyIs ==
  /\ Typed(Empty)
  /\ Empty.runs = {} /\ Empty.agentRuns = {} /\ Empty.cands = {}
  /\ Empty.events = {} /\ Empty.resolutions = {}
  /\ DOMAIN Empty = {"runs", "agentRuns", "cands", "events", "resolutions"}
BY FS_EmptySet DEF Typed, IsTables, Empty

LEMMA ViewIs ==
  ASSUME NEW D, NEW T
  PROVE  /\ View(D, T).runs = D.runs \cup T.runs
         /\ View(D, T).agentRuns = D.agentRuns \cup T.agentRuns
         /\ View(D, T).cands = D.cands \cup T.cands
         /\ View(D, T).events = D.events \cup T.events
         /\ View(D, T).resolutions = D.resolutions \cup T.resolutions
         /\ IsTables(View(D, T))
BY DEF View, IsTables

LEMMA ViewTyped ==
  ASSUME NEW D, NEW T, Typed(D), Typed(T)
  PROVE  Typed(View(D, T))
<1>1. IsFiniteSet(View(D, T).cands)
  <2>1. IsFiniteSet(D.cands \cup T.cands)
    BY FS_Union, Zenon DEF Typed
  <2>2. View(D, T).cands = D.cands \cup T.cands
    BY ViewIs
  <2> QED BY <2>1, <2>2, Zenon
<1> QED BY <1>1, ViewIs DEF Typed

LEMMA SeesIsView ==
  ASSUME NEW c, IsTables(db), IsTables(tx[c])
  PROVE  Sees(c) = View(db, tx[c])
<1>1. DOMAIN db = {"runs", "agentRuns", "cands", "events", "resolutions"}
  BY DEF IsTables
<1>2. Sees(c) = [t \in {"runs", "agentRuns", "cands", "events", "resolutions"} |->
                   db[t] \cup tx[c][t]]
  BY <1>1 DEF Sees
<1> QED BY <1>2 DEF View

\* A transaction that has written nothing sees the committed rows.
LEMMA SeesNothingElse ==
  ASSUME NEW c, IsTables(db), tx[c] = Empty
  PROVE  Sees(c) = db
<1>1. IsTables(tx[c])
  BY EmptyIs DEF Typed
<1>2. Sees(c) = View(db, Empty)
  BY <1>1, SeesIsView
<1> QED BY <1>2, EmptyIs DEF View, IsTables

\* The state of a candidate all of whose resolutions have its outcome.
StateOf(R, d) == IF \E s \in R : s.cand = d THEN StateAfter(Classify(d)) ELSE d.status

LEMMA DerivedIs ==
  ASSUME NEW T, NEW d, \A s \in T.resolutions : s.cand = d => s.outcome = Classify(d)
  PROVE  DerivedState(T, d) = StateOf(T.resolutions, d)
BY DEF DerivedState, StateOf

\* The rows an agent's answer makes, size events from number n on.
RowsOf(rows, r, a, n, size, m) ==
  /\ DOMAIN rows = {"agentRuns", "cands", "events"} /\ rows.agentRuns = {m}
  /\ IsFiniteSet(rows.cands)
  /\ \A d \in rows.cands :
       /\ d.run = r.key /\ d.agent = a /\ d.cites \in Locators /\ d.status = "proposed"
       /\ \E e \in rows.events : e.type = "source_candidate_created" /\ e.of = Name(d)
  /\ \A d, e \in rows.cands : Name(d) = Name(e) => d = e
  /\ Numbered(rows.events, n, n + size)
  /\ \A e \in rows.events :
       /\ e.run = r.key /\ e.no \in Nat \ {0}
       /\ e.type \in {"agent_run_started", "source_candidate_created", EndOf(m)}
       /\ e.type = "source_candidate_created" => \E d \in rows.cands : e.of = Name(d)
  /\ Before(rows.events, r.key, "agent_run_started", EndOf(m), <<a>>, r.key)

LEMMA AgentRowsAre ==
  ASSUME NEW r, NEW a \in Agents, NEW n \in Nat \ {0}
  PROVE  /\ Invoke(r, a).ok \in BOOLEAN /\ Len(Invoke(r, a).cites) \in Nat
         /\ RowsOf(AgentRows(r, a, n), r, a, n, Len(Invoke(r, a).cites) + 2,
                   AgentRow(r.key, a, Invoke(r, a).ok))
<1> DEFINE rows == AgentRows(r, a, n)
           ok == Invoke(r, a).ok
           cites == Invoke(r, a).cites
           m == AgentRow(r.key, a, ok)
           found(i) == Candidate(r.key, a, i, cites[i])
           start == Event(r.key, n, "agent_run_started", r.key, <<a>>)
           made(i) == Event(r.key, n + i, "source_candidate_created", r.key, Name(found(i)))
           end == Event(r.key, n + (Len(cites) + 1),
                        IF ok THEN "agent_run_completed" ELSE "agent_run_failed", r.key, <<a>>)
<1>1. ok \in BOOLEAN /\ cites \in Seq(Locators)
  BY OrchestrationAssumption DEF Invoke
<1> HIDE DEF ok, cites
<1>2. Len(cites) \in Nat /\ DOMAIN cites = 1 .. Len(cites)
      /\ \A i \in DOMAIN cites : cites[i] \in Locators
  BY <1>1
<1>3. /\ rows = [agentRuns |-> {m}, cands |-> {found(i) : i \in DOMAIN cites},
                 events |-> {start} \cup {made(i) : i \in DOMAIN cites} \cup {end}]
  BY DEF AgentRows, ok, cites
<1>4. /\ DOMAIN rows = {"agentRuns", "cands", "events"} /\ rows.agentRuns = {m}
      /\ rows.cands = {found(i) : i \in DOMAIN cites}
      /\ rows.events = {start} \cup {made(i) : i \in DOMAIN cites} \cup {end}
  BY <1>3
<1>5. \A i : /\ found(i).run = r.key /\ found(i).agent = a /\ found(i).i = i
             /\ found(i).status = "proposed" /\ found(i).cites = AsCandidate(cites[i])
             /\ Name(found(i)) = <<a, i>>
  BY DEF Candidate, Name
<1>6. \A i \in DOMAIN cites : found(i).cites \in Locators
  BY <1>2, <1>5 DEF AsCandidate, Locators
<1>7. /\ start.run = r.key /\ start.no = n /\ start.type = "agent_run_started"
      /\ start.of = <<a>> /\ start.key = r.key
      /\ end.run = r.key /\ end.no = n + (Len(cites) + 1) /\ end.type = EndOf(m)
      /\ end.of = <<a>> /\ end.key = r.key
  BY DEF Event, EndOf, AgentRow
<1>8. \A i : /\ made(i).run = r.key /\ made(i).no = n + i
             /\ made(i).type = "source_candidate_created"
             /\ made(i).of = Name(found(i))
  BY DEF Event
<1> HIDE DEF found, start, made, end, m, rows
<1>9. IsFiniteSet(rows.cands)
  <2>1. IsFiniteSet(DOMAIN cites)
    BY <1>2, FS_Interval
  <2> DEFINE C == {found(i) : i \in DOMAIN cites}
             f == [i \in DOMAIN cites |-> found(i)]
  <2>2. f \in Surjection(DOMAIN cites, C)
    <3>1. f \in [DOMAIN cites -> C]
      OBVIOUS
    <3>2. \A d \in C : \E i \in DOMAIN cites : f[i] = d
      OBVIOUS
    <3> HIDE DEF f, C
    <3> QED BY <3>1, <3>2 DEF Surjection, Range
  <2> HIDE DEF f, C
  <2>3. IsFiniteSet(C)
    BY <2>1, <2>2, FS_Surjection
  <2> QED BY <1>4, <2>3 DEF C
<1>10. Numbered(rows.events, n, n + (Len(cites) + 2))
  <2>1. Numbered({start}, n, n + 1)
    BY <1>7, NumberedOne
  <2>2. Numbered({made(i) : i \in DOMAIN cites}, n + 1, n + 1 + Len(cites))
    <3>1. \A i \in 1 .. Len(cites) : n + i \in n + 1 .. (n + 1 + Len(cites)) - 1
      BY <1>2
    <3>2. \A j \in n + 1 .. (n + 1 + Len(cites)) - 1 : j - n \in 1 .. Len(cites) /\ n + (j - n) = j
      BY <1>2
    <3>3. \A i, j \in 1 .. Len(cites) : n + i = n + j => i = j
      BY <1>2
    <3>4. \A e \in {made(i) : i \in DOMAIN cites} :
             \E i \in 1 .. Len(cites) : e = made(i) /\ e.no = n + i
      BY <1>2, <1>8
    <3>5. \A j \in n + 1 .. (n + 1 + Len(cites)) - 1 :
             \E e \in {made(i) : i \in DOMAIN cites} : e.no = j
      BY <1>2, <1>8, <3>2
    <3>6. \A e, f \in {made(i) : i \in DOMAIN cites} : e.no = f.no => e = f
      BY <3>3, <3>4
    <3>7. \A e \in {made(i) : i \in DOMAIN cites} : e.no \in n + 1 .. (n + 1 + Len(cites)) - 1
      BY <3>1, <3>4
    <3> QED BY <3>5, <3>6, <3>7, Zenon DEF Numbered
  <2>3. Numbered({start} \cup {made(i) : i \in DOMAIN cites}, n, n + 1 + Len(cites))
    <3>1. n + 1 \in Nat /\ n + 1 + Len(cites) \in Nat /\ n <= n + 1
          /\ n + 1 <= n + 1 + Len(cites)
      BY <1>2
    <3> QED BY <2>1, <2>2, <3>1, NumberedJoin
  <2>4. Numbered({end}, n + 1 + Len(cites), n + 1 + Len(cites) + 1)
    <3>1. end.no = n + 1 + Len(cites) /\ n + 1 + Len(cites) \in Nat
      BY <1>2, <1>7
    <3> QED BY <3>1, NumberedOne
  <2>5. Numbered({start} \cup {made(i) : i \in DOMAIN cites} \cup {end}, n, n + 1 + Len(cites) + 1)
    <3>1. n + 1 + Len(cites) + 1 \in Nat /\ n + 1 + Len(cites) \in Nat
          /\ n + 1 + Len(cites) <= n + 1 + Len(cites) + 1 /\ n <= n + 1 + Len(cites)
      BY <1>2
    <3> QED BY <2>3, <2>4, <3>1, NumberedJoin
  <2>6. n + 1 + Len(cites) + 1 = n + (Len(cites) + 2)
    BY <1>2
  <2> QED BY <1>4, <2>5, <2>6
<1>11. Before(rows.events, r.key, "agent_run_started", EndOf(m), <<a>>, r.key)
  <2>1. start \in rows.events /\ end \in rows.events /\ start.no < end.no
    BY <1>2, <1>4, <1>7
  <2> QED BY <1>7, <2>1 DEF Before
<1>12. \A d \in rows.cands :
         /\ d.run = r.key /\ d.agent = a /\ d.cites \in Locators /\ d.status = "proposed"
         /\ \E e \in rows.events : e.type = "source_candidate_created" /\ e.of = Name(d)
  BY <1>4, <1>5, <1>6, <1>8
<1>13. \A d, e \in rows.cands : Name(d) = Name(e) => d = e
  BY <1>4, <1>5
<1>14. \A e \in rows.events :
         /\ e.run = r.key /\ e.no \in Nat \ {0}
         /\ e.type \in {"agent_run_started", "source_candidate_created", EndOf(m)}
         /\ e.type = "source_candidate_created" => \E d \in rows.cands : e.of = Name(d)
  <2>1. EndOf(m) # "source_candidate_created"
    BY DEF EndOf
  <2>2. \A i \in DOMAIN cites : n + i \in Nat \ {0}
    BY <1>2
  <2>3. n + (Len(cites) + 1) \in Nat \ {0}
    BY <1>2
  <2> QED BY <1>4, <1>7, <1>8, <2>1, <2>2, <2>3
<1> QED
  BY <1>1, <1>2, <1>4, <1>9, <1>10, <1>11, <1>12, <1>13, <1>14 DEF RowsOf, rows, m, ok, cites

-----------------------------------------------------------------------------
(* Running agents                                                          *)

\* What is told stays told when rows are added that tell themselves.
Adds(T, U, k) ==
  /\ T.events \subseteq U.events /\ T.cands \subseteq U.cands
  /\ \A e \in U.events : e \notin T.events /\ e.run = k =>
       /\ e.no # 0 /\ e.type # "run_created"
       /\ e.type = "source_candidate_created" => \E d \in U.cands : d.run = k /\ e.of = Name(d)
  /\ \A m \in U.agentRuns : m \notin T.agentRuns /\ m.run = k =>
       Before(U.events, k, "agent_run_started", EndOf(m), <<m.agent>>, k)
  /\ \A d \in U.cands : d \notin T.cands /\ d.run = k =>
       \E e \in U.events : e.run = k /\ e.type = "source_candidate_created" /\ e.of = Name(d)

LEMMA TellsMore ==
  ASSUME NEW T, NEW U, NEW k, Tells(T, k), Adds(T, U, k)
  PROVE  Tells(U, k)
<1> USE DEF Adds
<1>1. \A e \in U.events : e.run = k => (e.no = 0 <=> e.type = "run_created")
  BY DEF Tells
<1>2. \A m \in T.agentRuns : m.run = k =>
        Before(U.events, k, "agent_run_started", EndOf(m), <<m.agent>>, k)
  BY DEF Tells, Before
<1>3. \A d \in U.cands : d.run = k =>
        \E e \in U.events : e.run = k /\ e.type = "source_candidate_created" /\ e.of = Name(d)
  BY DEF Tells
<1>4. \A e \in U.events : e.run = k /\ e.type = "source_candidate_created" =>
        \E d \in U.cands : d.run = k /\ e.of = Name(d)
  BY DEF Tells
<1>5. \A m \in U.agentRuns : m.run = k =>
        Before(U.events, k, "agent_run_started", EndOf(m), <<m.agent>>, k)
  BY <1>2
<1> QED BY <1>1, <1>3, <1>4, <1>5 DEF Tells

\* A new run gets further events of its own and another status.
LEMMA NewRunMore ==
  ASSUME NEW T, NEW U, NEW r, NEW old, NEW status \in Statuses, NewRun(T, r, old),
         r.kind \in RunKinds,
         NEW F, NEW p \in Nat, Cardinality(T.events) <= p,
         Numbered(F, Cardinality(T.events), p),
         \A e \in F : /\ e.run = r.key /\ e.no \in Nat \ {0}
                      /\ e.type \in {"token_budget_exceeded", "run_failed"},
         IsTables(U), U.runs = {RunRow(r.key, r.kind, status)}, U.agentRuns = T.agentRuns,
         U.cands = T.cands, U.events = T.events \cup F, U.resolutions = {}
  PROVE  NewRun(U, r, status) /\ Cardinality(U.events) = p
<1> DEFINE n == Cardinality(T.events)
<1>1. n \in Nat \ {0} /\ Numbered(T.events, 0, n)
  BY DEF NewRun
<1>2. Numbered(U.events, 0, p)
  BY <1>1, NumberedJoin
<1>3. Cardinality(U.events) = p - 0
  BY <1>2, NumberedCount
<1>4. Cardinality(U.events) = p /\ p \in Nat \ {0}
  BY <1>1, <1>3
<1>5. Typed(U)
  BY DEF NewRun, Typed, RunRow, EventTypes
<1>6. Tells(U, r.key)
  <2>1. Tells(T, r.key)
    BY DEF NewRun
  <2>2. Adds(T, U, r.key)
    BY DEF Adds
  <2> QED BY <2>1, <2>2, TellsMore
<1>7. OfRuns(U, {r.key}) /\ Distinct(U)
  BY DEF NewRun, OfRuns, Distinct
<1>8. \A e \in U.events : e.type # "source_resolution_started"
  BY DEF NewRun
<1> QED BY <1>2, <1>4, <1>5, <1>6, <1>7, <1>8 DEF NewRun

\* The i-th agent runs: started, one candidate for each citation, ended.
WithRows(T, rows) ==
  [runs |-> T.runs, agentRuns |-> T.agentRuns \cup rows.agentRuns,
   cands |-> T.cands \cup rows.cands, events |-> T.events \cup rows.events,
   resolutions |-> T.resolutions]
RowsOfAgent(T, r, i) == AgentRows(r, r.agents[i], Cardinality(T.events))

AgentRan(T, U, r, i) ==
  /\ Progress(U, r, i + 1)
  /\ Cardinality(U.events) = Cardinality(T.events) + Cardinality(RowsOfAgent(T, r, i).events)
  /\ FailedIn(U, r.key) =
       FailedIn(T, r.key) \cup (IF Invoke(r, r.agents[i]).ok THEN {} ELSE {r.agents[i]})

LEMMA AgentRuns ==
  ASSUME NEW T, NEW r, NEW i, Progress(T, r, i), Loaded(r), i \in 1 .. Len(r.agents)
  PROVE  AgentRan(T, WithRows(T, RowsOfAgent(T, r, i)), r, i)
<1> DEFINE rows == RowsOfAgent(T, r, i)
           U == WithRows(T, rows)
<1>0. /\ IsTables(U) /\ U.runs = T.runs /\ U.agentRuns = T.agentRuns \cup rows.agentRuns
      /\ U.cands = T.cands \cup rows.cands /\ U.events = T.events \cup rows.events
      /\ U.resolutions = T.resolutions
  BY DEF WithRows, IsTables
<1> HIDE DEF U
<1> DEFINE n == Cardinality(T.events)
           a == r.agents[i]
           ok == Invoke(r, a).ok
           m == AgentRow(r.key, a, ok)
           size == Len(Invoke(r, a).cites) + 2
<1>1. /\ a \in Agents /\ i \in Nat /\ Len(r.agents) \in Nat
      /\ \A j \in 1 .. i - 1 : r.agents[j] # a
  <2>1. r.agents \in Seq(Agents) /\ IsInjective(r.agents)
    BY DEF Loaded
  <2>2. DOMAIN r.agents = 1 .. Len(r.agents) /\ Len(r.agents) \in Nat
    BY <2>1
  <2> QED BY <2>1, <2>2 DEF IsInjective
<1>2. n \in Nat \ {0} /\ Numbered(T.events, 0, n)
  BY DEF Progress, NewRun
<1>3. ok \in BOOLEAN /\ size \in Nat /\ RowsOf(rows, r, a, n, size, m)
  BY <1>1, <1>2, AgentRowsAre DEF RowsOfAgent
<1>4. m.run = r.key /\ m.agent = a /\ m.ok = ok /\ EndOf(m) \in {"agent_run_completed", "agent_run_failed"}
  BY DEF AgentRow, EndOf
<1> USE DEF RowsOf
<1> HIDE DEF rows, n, a, ok, m, size
<1>5. Numbered(U.events, 0, n + size) /\ Cardinality(U.events) = n + size
      /\ Cardinality(rows.events) = size
  <2>1. n + size \in Nat /\ n <= n + size /\ (n + size) - 0 = n + size /\ (n + size) - n = size
    BY <1>0, <1>2, <1>3
  <2>2. Numbered(U.events, 0, n + size)
    BY <1>0, <1>2, <1>3, <2>1, NumberedJoin
  <2>3. Cardinality(U.events) = (n + size) - 0
    BY <2>1, <2>2, NumberedCount
  <2>4. Cardinality(rows.events) = (n + size) - n
    BY <1>0, <1>2, <1>3, <2>1, NumberedCount
  <2> QED BY <2>1, <2>2, <2>3, <2>4
<1>6. Typed(U)
  <2>1. IsFiniteSet(T.cands) /\ IsFiniteSet(rows.cands)
    BY <1>0, <1>3 DEF Progress, NewRun, Typed
  <2>2. IsFiniteSet(T.cands \cup rows.cands)
    BY <2>1, FS_Union, Zenon
  <2>3. Typed(T)
    BY DEF Progress, NewRun
  <2> QED BY <1>0, <1>1, <1>3, <1>4, <2>2, <2>3 DEF Typed, EventTypes
<1>7. Tells(U, r.key)
  <2>1. Tells(T, r.key)
    BY DEF Progress, NewRun
  <2>2. \A e \in rows.events :
          /\ e.no # 0 /\ e.type # "run_created"
          /\ e.type = "source_candidate_created" => \E d \in U.cands : d.run = r.key /\ e.of = Name(d)
    BY <1>0, <1>3, <1>4
  <2>3. Before(U.events, r.key, "agent_run_started", EndOf(m), <<m.agent>>, r.key)
    BY <1>0, <1>3, <1>4 DEF Before
  <2>4. \A d \in rows.cands : \E e \in U.events :
          e.run = r.key /\ e.type = "source_candidate_created" /\ e.of = Name(d)
    BY <1>0, <1>3
  <2>5. \A o \in U.agentRuns : o \in T.agentRuns \/ o = m
    BY <1>0, <1>3
  <2>6. Adds(T, U, r.key)
    BY <1>0, <2>2, <2>3, <2>4, <2>5 DEF Adds
  <2> QED BY <2>1, <2>6, TellsMore
<1>8. Distinct(U)
  <2>1. \A d \in T.cands : d.agent # a
    BY <1>0, <1>1 DEF Progress, a
  <2>2. Distinct(T)
    BY DEF Progress, NewRun
  <2>3. \A d, e : Name(d) = Name(e) => d.agent = e.agent
    BY DEF Name
  <2> QED BY <1>0, <1>3, <2>1, <2>2, <2>3 DEF Distinct
<1>9. OfRuns(U, {r.key}) /\ U.resolutions = {}
      /\ \A e \in U.events : e.type # "source_resolution_started"
  BY <1>0, <1>3, <1>4 DEF OfRuns, Progress, NewRun
<1>10. NewRun(U, r, "running")
  <2>1. n + size \in Nat \ {0}
    BY <1>0, <1>2, <1>3
  <2>2. U.runs = {RunRow(r.key, r.kind, "running")}
    BY <1>0 DEF Progress, NewRun
  <2> QED BY <1>0, <1>5, <1>6, <1>7, <1>8, <1>9, <2>1, <2>2 DEF NewRun
<1>11. NoneFailed(U, r.key)
  BY <1>0, <1>3, <1>4 DEF Progress, NoneFailed
<1>12. /\ \A o \in U.agentRuns : \E j \in 1 .. (i + 1) - 1 : o.agent = r.agents[j]
       /\ \A d \in U.cands : \E j \in 1 .. (i + 1) - 1 : d.agent = r.agents[j]
       /\ \A j \in 1 .. (i + 1) - 1 : \E o \in U.agentRuns : o.agent = r.agents[j]
  <2>1. \A j \in 1 .. i - 1 : j \in 1 .. (i + 1) - 1
    BY <1>0, <1>1
  <2>2. i \in 1 .. (i + 1) - 1
    BY <1>0, <1>1
  <2>3. \A j \in 1 .. (i + 1) - 1 : j \in 1 .. i - 1 \/ j = i
    BY <1>0, <1>1
  <2>4. m \in U.agentRuns /\ m.agent = r.agents[i]
    BY <1>0, <1>3, <1>4 DEF a
  <2>5. \A j \in 1 .. (i + 1) - 1 : \E o \in U.agentRuns : o.agent = r.agents[j]
    BY <1>0, <2>3, <2>4 DEF Progress
  <2> QED BY <1>0, <1>3, <1>4, <2>1, <2>2, <2>5 DEF Progress, a
<1>13. FailedIn(U, r.key) = FailedIn(T, r.key) \cup (IF ok THEN {} ELSE {a})
  BY <1>0, <1>3, <1>4 DEF FailedIn, RanIn
<1> QED BY <1>5, <1>10, <1>11, <1>12, <1>13 DEF AgentRan, Progress, n, a, ok, rows, U

\* Every agent has run.
EndStatus(T, r) == IF FailedIn(T, r.key) = {} THEN "completed" ELSE "failed"
EndOfRun(T, r) ==
  [runs |-> {RunRow(r.key, r.kind, EndStatus(T, r))}, agentRuns |-> T.agentRuns,
   cands |-> T.cands, resolutions |-> T.resolutions,
   events |-> T.events \cup
     (IF FailedIn(T, r.key) = {} THEN {} ELSE {Failed(r.key, Cardinality(T.events))})]
RunIs(U, r, status, failed) ==
  NewRun(U, r, status) /\ Ended(U, r.key, status) /\ FailedIn(U, r.key) = failed

LEMMA RunEnds ==
  ASSUME NEW T, NEW r, NEW i, Progress(T, r, i), i \in Nat, i > 1, r.kind \in RunKinds
  PROVE  RunIs(EndOfRun(T, r), r, EndStatus(T, r), FailedIn(T, r.key))
<1> DEFINE U == EndOfRun(T, r)
           ok == FailedIn(T, r.key) = {}
           status == EndStatus(T, r)
<1>0. /\ IsTables(U) /\ U.runs = {RunRow(r.key, r.kind, status)} /\ U.agentRuns = T.agentRuns
      /\ U.cands = T.cands /\ U.resolutions = T.resolutions
      /\ U.events = T.events \cup (IF ok THEN {} ELSE {Failed(r.key, Cardinality(T.events))})
      /\ status = IF ok THEN "completed" ELSE "failed"
  BY DEF EndOfRun, IsTables, EndStatus
<1> HIDE DEF U, status
<1> DEFINE n == Cardinality(T.events)
           f == Failed(r.key, n)
           F == IF ok THEN {} ELSE {f}
           p == IF ok THEN n ELSE n + 1
<1>1. n \in Nat \ {0} /\ NewRun(T, r, "running") /\ T.resolutions = {}
  BY DEF Progress, NewRun
<1>2. f.run = r.key /\ f.no = n /\ f.type = "run_failed"
  BY DEF Failed, Event
<1> HIDE DEF n, f
<1>3. Numbered(F, n, p) /\ p \in Nat /\ n <= p
  <2>1. CASE ok
    BY <1>1, <2>1 DEF Numbered
  <2>2. CASE ~ok
    BY <1>1, <1>2, <2>2, NumberedOne
  <2> QED BY <2>1, <2>2
<1>4. \A e \in F : /\ e.run = r.key /\ e.no \in Nat \ {0}
                   /\ e.type \in {"token_budget_exceeded", "run_failed"}
  BY <1>1, <1>2
<1>5. U.events = T.events \cup F
  BY <1>0 DEF f, n
<1>6. (~ok) => \E e \in U.events : e.run = r.key /\ e.type = "run_failed"
  BY <1>2, <1>5
<1>7. ok => U.events = T.events
  BY <1>5
<1> HIDE DEF F, p
<1>8. NewRun(U, r, status)
  <2>1. status \in Statuses
    BY <1>0 DEF Statuses
  <2> QED BY <1>0, <1>1, <1>3, <1>4, <1>5, <2>1, NewRunMore DEF n
<1>9. \A m \in T.agentRuns : m.run = r.key /\ m.ok \in BOOLEAN
  BY <1>1 DEF NewRun, OfRuns, Typed
<1>10. ok <=> \A m \in T.agentRuns : m.ok
  BY <1>9 DEF FailedIn, RanIn
<1>11. T.agentRuns # {}
  <2>1. 1 \in 1 .. i - 1
    OBVIOUS
  <2> QED BY <2>1 DEF Progress
<1>12. ok <=> AllOk(U, r.key)
  BY <1>0, <1>9, <1>10, <1>11 DEF AllOk
<1>13. ok <=> NoneFailed(U, r.key)
  <2>1. NoneFailed(T, r.key)
    BY DEF Progress
  <2> QED BY <1>6, <1>7, <2>1 DEF NoneFailed
<1>14. FailedIn(U, r.key) = FailedIn(T, r.key)
  BY <1>0 DEF FailedIn, RanIn
<1> QED BY <1>0, <1>8, <1>12, <1>13, <1>14 DEF Ended, RunIs, U, status

\* A run over its budget fails before an agent runs.
Stopped(T, r) ==
  [runs |-> {RunRow(r.key, r.kind, "failed")}, agentRuns |-> T.agentRuns,
   cands |-> T.cands, resolutions |-> T.resolutions,
   events |-> T.events \cup
     {Event(r.key, Cardinality(T.events), "token_budget_exceeded", r.key, <<>>),
      Failed(r.key, Cardinality(T.events) + 1)}]

LEMMA RunStops ==
  ASSUME NEW T, NEW r, Progress(T, r, 1), r.kind \in RunKinds
  PROVE  RunIs(Stopped(T, r), r, "failed", {})
<1> DEFINE U == Stopped(T, r)
<1>0. /\ IsTables(U) /\ U.runs = {RunRow(r.key, r.kind, "failed")} /\ U.agentRuns = T.agentRuns
      /\ U.cands = T.cands /\ U.resolutions = T.resolutions
      /\ U.events = T.events \cup
           {Event(r.key, Cardinality(T.events), "token_budget_exceeded", r.key, <<>>),
            Failed(r.key, Cardinality(T.events) + 1)}
  BY DEF Stopped, IsTables
<1> HIDE DEF U
<1> DEFINE n == Cardinality(T.events)
           e == Event(r.key, n, "token_budget_exceeded", r.key, <<>>)
           f == Failed(r.key, n + 1)
<1>1. n \in Nat \ {0} /\ NewRun(T, r, "running") /\ T.resolutions = {}
  BY DEF Progress, NewRun
<1>2. /\ e.run = r.key /\ e.no = n /\ e.type = "token_budget_exceeded"
      /\ f.run = r.key /\ f.no = n + 1 /\ f.type = "run_failed"
  BY DEF Failed, Event
<1>3. U.events = T.events \cup ({e} \cup {f})
  BY <1>0
<1> HIDE DEF n, e, f
<1>4. Numbered({e} \cup {f}, n, n + 2) /\ n + 2 \in Nat /\ n <= n + 2
  <2>1. n + 1 \in Nat /\ n + 2 \in Nat /\ n <= n + 1 /\ n + 1 <= n + 2 /\ (n + 1) + 1 = n + 2
    BY <1>1
  <2>2. Numbered({e}, n, n + 1) /\ Numbered({f}, n + 1, n + 2)
    BY <1>1, <1>2, <2>1, NumberedOne
  <2> QED BY <1>1, <2>1, <2>2, NumberedJoin
<1>5. \A g \in {e} \cup {f} : /\ g.run = r.key /\ g.no \in Nat \ {0}
                              /\ g.type \in {"token_budget_exceeded", "run_failed"}
  BY <1>1, <1>2
<1>6. NewRun(U, r, "failed")
  <2>1. "failed" \in Statuses
    BY DEF Statuses
  <2> QED BY <1>0, <1>1, <1>3, <1>4, <1>5, <2>1, NewRunMore DEF n
<1>7. T.agentRuns = {}
  BY DEF Progress
<1>8. ~NoneFailed(U, r.key)
  BY <1>2, <1>3 DEF NoneFailed
<1> QED BY <1>0, <1>6, <1>7, <1>8 DEF Ended, AllOk, FailedIn, RanIn, RunIs, U

-----------------------------------------------------------------------------
(* Commits                                                                 *)

\* The rows U can be added to the committed ones D: they make runs of their
\* own and continue the logs of the runs that are there.
Joins(D, U) ==
  /\ \A x \in U.runs : x.key \notin Keys(D) /\ \E e \in U.events : e.run = x.key
  /\ \A m \in U.agentRuns : m.run \notin Keys(D)
  /\ \A d \in U.cands : d.run \notin Keys(D)
  /\ \A e \in U.events : e.run \in Keys(D) =>
       e.type \in {"source_resolution_started", "source_resolution_completed"}
  /\ \A s \in U.resolutions :
       /\ s.cand \in D.cands /\ s.outcome = Classify(s.cand)
       /\ \E e \in U.events : e.run = s.cand.run
  /\ \A k \in Keys(D) : \E n \in Nat :
       Size(D, k) <= n /\ Numbered(LogOf(U, k), Size(D, k), n)

\* The log of a run after more of it is committed.
LEMMA LogAfter ==
  ASSUME NEW D, NEW U, NEW x \in D.runs, Committed(D), Joins(D, U)
  PROVE  /\ Size(View(D, U), x.key) \in Nat \ {0}
         /\ Numbered(LogOf(View(D, U), x.key), 0, Size(View(D, U), x.key))
         /\ IF LogOf(U, x.key) = {} THEN Size(View(D, U), x.key) = Size(D, x.key)
                                    ELSE Size(View(D, U), x.key) > Size(D, x.key)
<1> DEFINE k == x.key
           s == Size(D, k)
<1>1. s \in Nat \ {0} /\ Numbered(LogOf(D, k), 0, s)
  BY DEF Committed
<1>2. PICK n \in Nat : s <= n /\ Numbered(LogOf(U, k), s, n)
  BY DEF Joins, Keys
<1>3. LogOf(View(D, U), k) = LogOf(D, k) \cup LogOf(U, k)
  BY ViewIs DEF LogOf
<1> HIDE DEF k, s
<1>4. Numbered(LogOf(View(D, U), k), 0, n)
  BY <1>1, <1>2, <1>3, NumberedJoin
<1>5. Size(View(D, U), k) = n - 0
  BY <1>4, NumberedCount DEF Size
<1>6. Size(View(D, U), k) = n
  BY <1>5
<1>7. CASE LogOf(U, k) = {}
  <2>1. s = n
    BY <1>1, <1>2, <1>7, NumberedNone
  <2> QED BY <1>1, <1>4, <1>6, <1>7, <2>1 DEF k, s
<1>8. CASE LogOf(U, k) # {}
  <2>1. s < n
    BY <1>1, <1>2, <1>8 DEF Numbered
  <2> QED BY <1>1, <1>4, <1>6, <1>8, <2>1 DEF k, s
<1> QED BY <1>7, <1>8

\* What is committed of a run stays told.
LEMMA RunKept ==
  ASSUME NEW D, NEW U, NEW x \in D.runs, Committed(D), Joins(D, U)
  PROVE  Tells(View(D, U), x.key) /\ Ended(View(D, U), x.key, x.status)
         /\ RanIn(View(D, U), x.key) = RanIn(D, x.key)
<1> DEFINE V == View(D, U)
<1>1. /\ V.agentRuns = D.agentRuns \cup U.agentRuns /\ V.cands = D.cands \cup U.cands
      /\ V.events = D.events \cup U.events
  BY ViewIs
<1> HIDE DEF V
<1>2. x.key \in Keys(D) /\ Tells(D, x.key) /\ Ended(D, x.key, x.status)
      /\ Size(D, x.key) \in Nat \ {0}
  BY DEF Keys, Committed
<1>3. /\ \A m \in V.agentRuns : m.run = x.key => m \in D.agentRuns
      /\ \A d \in V.cands : d.run = x.key => d \in D.cands
      /\ \A e \in V.events : e \notin D.events /\ e.run = x.key =>
           e.type \in {"source_resolution_started", "source_resolution_completed"}
  BY <1>1, <1>2 DEF Joins
<1>4. \A e \in U.events : e.run = x.key => e.no # 0
  <2>1. PICK n \in Nat : Numbered(LogOf(U, x.key), Size(D, x.key), n)
    BY <1>2 DEF Joins
  <2>2. \A e \in U.events : e.run = x.key => e.no \in Size(D, x.key) .. n - 1
    BY <2>1 DEF LogOf, Numbered
  <2> QED BY <1>2, <2>2
<1>5. Tells(V, x.key)
  <2>1. Adds(D, V, x.key)
    BY <1>1, <1>3, <1>4 DEF Adds
  <2> QED BY <1>2, <2>1, TellsMore
<1>6. NoneFailed(V, x.key) <=> NoneFailed(D, x.key)
  BY <1>1, <1>3 DEF NoneFailed
<1>7. AllOk(V, x.key) <=> AllOk(D, x.key)
  BY <1>1, <1>3 DEF AllOk
<1>8. RanIn(V, x.key) = RanIn(D, x.key)
  BY <1>1, <1>3 DEF RanIn
<1> QED BY <1>2, <1>5, <1>6, <1>7, <1>8 DEF V, Ended

\* A resolution's two events stay where they are.
LEMMA ToldMore ==
  ASSUME NEW T, NEW V, T.events \subseteq V.events, NEW s, ResolutionTold(T, s)
  PROVE  ResolutionTold(V, s)
BY DEF ResolutionTold, Before

\* What the commit of a run leaves.
LEMMA RunCommitted ==
  ASSUME NEW D, NEW T, NEW r, NEW status, Committed(D), NewRun(T, r, status),
         r.key \notin Keys(D), Ended(T, r.key, status)
  PROVE  Joins(D, T) /\ Committed(View(D, T))
<1> DEFINE V == View(D, T)
<1>1. /\ V.runs = D.runs \cup T.runs /\ V.agentRuns = D.agentRuns \cup T.agentRuns
      /\ V.cands = D.cands \cup T.cands /\ V.events = D.events \cup T.events
      /\ V.resolutions = D.resolutions \cup T.resolutions
  BY ViewIs
<1>2. /\ OfRuns(T, {r.key}) /\ T.resolutions = {} /\ T.runs = {RunRow(r.key, r.kind, status)}
      /\ Cardinality(T.events) \in Nat \ {0} /\ Numbered(T.events, 0, Cardinality(T.events))
  BY DEF NewRun
<1>3. \A x \in T.runs : x.key = r.key /\ x.status = status
  BY <1>2 DEF RunRow
<1>4. T.events # {} /\ \A e \in T.events : e.run = r.key
  BY <1>2, FS_EmptySet DEF OfRuns
<1>5. Joins(D, T)
  <2>1. \A k \in Keys(D) : \E n \in Nat :
          Size(D, k) <= n /\ Numbered(LogOf(T, k), Size(D, k), n)
    <3> SUFFICES ASSUME NEW k \in Keys(D)
                 PROVE  \E n \in Nat : Size(D, k) <= n /\ Numbered(LogOf(T, k), Size(D, k), n)
      OBVIOUS
    <3>1. LogOf(T, k) = {}
      BY <1>4 DEF LogOf
    <3>2. Size(D, k) \in Nat
      BY DEF Keys, Committed
    <3>3. Numbered({}, Size(D, k), Size(D, k))
      BY <3>2 DEF Numbered
    <3> QED BY <3>1, <3>2, <3>3
  <2> QED BY <1>2, <1>3, <1>4, <2>1 DEF Joins, OfRuns
<1> HIDE DEF V
<1>6. Typed(V)
  BY ViewTyped DEF V, Committed, NewRun
<1>7. /\ \A k \in Keys(D) : k \in Keys(V)
      /\ r.key \in Keys(V)
  BY <1>1, <1>2, <1>3 DEF Keys
<1>8. OfRuns(V, Keys(V))
  BY <1>1, <1>2, <1>7 DEF Committed, OfRuns
<1>9. Distinct(V)
  <2>1. \A d \in D.cands : d.run \in Keys(D)
    BY DEF Committed, OfRuns
  <2>2. \A d \in T.cands : d.run = r.key
    BY <1>2 DEF OfRuns
  <2> QED BY <1>1, <2>1, <2>2 DEF Distinct, Committed, NewRun
<1>10. \A x, y \in V.runs : x.key = y.key => x = y
  BY <1>1, <1>2, <1>3 DEF Committed, Keys
<1>11. ASSUME NEW x \in V.runs
       PROVE  /\ Size(V, x.key) \in Nat \ {0}
              /\ Numbered(LogOf(V, x.key), 0, Size(V, x.key))
              /\ Tells(V, x.key) /\ Ended(V, x.key, x.status)
  <2>1. CASE x \in D.runs
    BY <1>5, <2>1, LogAfter, RunKept DEF V
  <2>2. CASE x \in T.runs
    <3>1. x.key = r.key /\ x.status = status
      BY <1>3, <2>2
    <3>2. \A e \in D.events : e.run # r.key
      BY DEF Committed, OfRuns
    <3>3. LogOf(V, r.key) = T.events
      BY <1>1, <1>4, <3>2 DEF LogOf
    <3>4. Adds(T, V, r.key)
      BY <1>1, <3>2 DEF Committed, OfRuns, Adds
    <3>5. Tells(V, r.key)
      BY <3>4, TellsMore DEF NewRun
    <3>6. \A m \in V.agentRuns : m.run = r.key => m \in T.agentRuns
      BY <1>1 DEF Committed, OfRuns
    <3>7. NoneFailed(V, r.key) <=> NoneFailed(T, r.key)
      BY <1>1, <3>2 DEF NoneFailed
    <3>8. AllOk(V, r.key) <=> AllOk(T, r.key)
      BY <1>1, <3>6 DEF AllOk
    <3> QED BY <1>2, <3>1, <3>3, <3>5, <3>7, <3>8 DEF Ended, Size
  <2> QED BY <1>1, <2>1, <2>2
<1>12. \A s \in V.resolutions :
         s.cand \in V.cands /\ s.outcome = Classify(s.cand) /\ ResolutionTold(V, s)
  BY <1>1, <1>2, ToldMore DEF Committed
<1>13. \A e \in V.events : e.type = "source_resolution_started" =>
         \E s \in V.resolutions : s.cand.run = e.run /\ Name(s.cand) = e.of /\ s.key = e.key
  BY <1>1 DEF Committed, NewRun
<1>14. Committed(V)
  BY <1>6, <1>8, <1>9, <1>10, <1>11, <1>12, <1>13 DEF Committed
<1> QED BY <1>5, <1>14 DEF V

\* What the commit of a pass leaves.
LEMMA PassCommitted ==
  ASSUME NEW D, NEW T, NEW x, Committed(D), PassRows(D, T, x), PassNumbers(D, T, x),
         Triples(T, x), x.pc = "commit"
  PROVE  Joins(D, T) /\ Committed(View(D, T))
<1> DEFINE V == View(D, T)
           k == x.req.run
<1>1. /\ V.runs = D.runs \cup T.runs /\ V.agentRuns = D.agentRuns \cup T.agentRuns
      /\ V.cands = D.cands \cup T.cands /\ V.events = D.events \cup T.events
      /\ V.resolutions = D.resolutions \cup T.resolutions
  BY ViewIs
<1>2. /\ T.runs = {} /\ T.agentRuns = {} /\ T.cands = {} /\ k \in Keys(D)
      /\ \A e \in T.events : e.run = k /\ e.key = x.req.key
      /\ \A s \in T.resolutions :
           s.cand \in D.cands /\ s.cand.run = k /\ s.key = x.req.key /\ s.outcome = Classify(s.cand)
  BY DEF PassRows
<1> HIDE DEF V
<1>3. Joins(D, T)
  <2>1. \A j \in Keys(D) : \E n \in Nat :
          Size(D, j) <= n /\ Numbered(LogOf(T, j), Size(D, j), n)
    <3> SUFFICES ASSUME NEW j \in Keys(D)
                 PROVE  \E n \in Nat : Size(D, j) <= n /\ Numbered(LogOf(T, j), Size(D, j), n)
      OBVIOUS
    <3>1. Size(D, j) \in Nat
      BY DEF Keys, Committed
    <3>2. Numbered({}, Size(D, j), Size(D, j))
      BY <3>1 DEF Numbered
    <3>3. CASE j = k /\ T.events # {}
      <4>1. LogOf(T, j) = T.events
        BY <1>2, <3>3 DEF LogOf
      <4> QED BY <3>1, <3>3, <4>1 DEF PassNumbers
    <3>4. CASE j # k \/ T.events = {}
      <4>1. LogOf(T, j) = {}
        BY <1>2, <3>4 DEF LogOf
      <4> QED BY <3>1, <3>2, <4>1
    <3> QED BY <3>3, <3>4
  <2>2. \A s \in T.resolutions : \E e \in T.events : e.run = s.cand.run
    BY <1>2 DEF PassRows
  <2>3. \A e \in T.events :
          e.type \in {"source_resolution_started", "source_resolution_completed"}
    BY DEF PassRows
  <2> QED BY <1>2, <2>1, <2>2, <2>3 DEF Joins
<1>4. Typed(V)
  BY ViewTyped DEF V, Committed, PassRows
<1>5. Keys(V) = Keys(D) /\ V.runs = D.runs /\ V.cands = D.cands /\ V.agentRuns = D.agentRuns
  BY <1>1, <1>2 DEF Keys
<1>6. OfRuns(V, Keys(V)) /\ Distinct(V)
  BY <1>1, <1>2, <1>5 DEF Committed, OfRuns, Distinct
<1>7. \A y \in V.runs :
         /\ Size(V, y.key) \in Nat \ {0}
         /\ Numbered(LogOf(V, y.key), 0, Size(V, y.key))
         /\ Tells(V, y.key) /\ Ended(V, y.key, y.status)
  BY <1>3, <1>5, LogAfter, RunKept DEF V
<1>8. \A s \in V.resolutions :
        s.cand \in V.cands /\ s.outcome = Classify(s.cand) /\ ResolutionTold(V, s)
  <2>1. \A s \in T.resolutions : ResolutionTold(T, s)
    BY DEF Triples
  <2>2. D.events \subseteq V.events /\ T.events \subseteq V.events
    BY <1>1
  <2>3. \A s \in D.resolutions : ResolutionTold(V, s)
    BY <2>2, ToldMore DEF Committed
  <2>4. \A s \in T.resolutions : ResolutionTold(V, s)
    BY <2>1, <2>2, ToldMore
  <2> QED BY <1>1, <1>2, <1>5, <2>3, <2>4 DEF Committed
<1>9. \A e \in V.events : e.type = "source_resolution_started" =>
        \E s \in V.resolutions : s.cand.run = e.run /\ Name(s.cand) = e.of /\ s.key = e.key
  <2>1. \A e \in T.events : e.type = "source_resolution_started" =>
          \E s \in T.resolutions : Name(s.cand) = e.of
    BY DEF Triples
  <2> QED BY <1>1, <1>2, <2>1 DEF Committed
<1>10. Committed(V)
  BY <1>4, <1>5, <1>6, <1>7, <1>8, <1>9 DEF Committed
<1> QED BY <1>3, <1>10 DEF V

LEMMA NothingCommitted ==
  ASSUME NEW D, Committed(D)
  PROVE  Joins(D, Empty) /\ View(D, Empty) = D
<1>1. \A k \in Keys(D) : \E n \in Nat :
        Size(D, k) <= n /\ Numbered(LogOf(Empty, k), Size(D, k), n)
  <2> SUFFICES ASSUME NEW k \in Keys(D)
               PROVE  \E n \in Nat : Size(D, k) <= n /\ Numbered(LogOf(Empty, k), Size(D, k), n)
    OBVIOUS
  <2>1. Size(D, k) \in Nat /\ LogOf(Empty, k) = {}
    BY EmptyIs DEF Keys, Committed, LogOf
  <2>2. Numbered({}, Size(D, k), Size(D, k))
    BY <2>1 DEF Numbered
  <2> QED BY <2>1, <2>2
<1>2. Joins(D, Empty)
  BY <1>1, EmptyIs DEF Joins
<1>3. View(D, Empty) = D
  BY EmptyIs DEF Committed, Typed, IsTables, View
<1> QED BY <1>2, <1>3

\* Without an event of its run, a candidate has got no resolution.
LEMMA StateKept ==
  ASSUME NEW D, NEW U, Committed(D), Joins(D, U), NEW d \in D.cands, LogOf(U, d.run) = {}
  PROVE  DerivedState(View(D, U), d) = DerivedState(D, d)
<1>1. View(D, U).resolutions = D.resolutions \cup U.resolutions
  BY ViewIs
<1>2. \A s \in U.resolutions : s.cand # d
  BY DEF Joins, LogOf
<1>3. \A s \in D.resolutions : s.cand = d => s.outcome = Classify(d)
  BY DEF Committed
<1>4. \A s \in View(D, U).resolutions : s.cand = d => s.outcome = Classify(d)
  BY <1>1, <1>2, <1>3
<1>5. DerivedState(D, d) = StateOf(D.resolutions, d)
  BY <1>3, DerivedIs
<1>6. DerivedState(View(D, U), d) = StateOf(View(D, U).resolutions, d)
  BY <1>4, DerivedIs
<1> QED BY <1>1, <1>2, <1>5, <1>6 DEF StateOf

\* A caller is told no less by more rows, as long as none is an agent run of its run.
LEMMA RunToldKept ==
  ASSUME NEW T, NEW V, NEW kind, NEW a, RunTold(T, kind, a), T.runs \subseteq V.runs,
         a.run # "none" => RanIn(V, a.run) = RanIn(T, a.run)
  PROVE  RunTold(V, kind, a)
BY DEF RunTold, StatusTold, MultiTold, SingleTold, FailedIn

LEMMA ToldKept ==
  ASSUME NEW D, NEW U, Committed(D), Joins(D, U), NEW x, NEW a, Told(D, x, a)
  PROVE  Told(View(D, U), x, a)
<1>1. CASE x.req.kind = "pass"
  BY <1>1, ViewIs DEF Told, PassTold, OutcomesKept, Keys
<1>2. CASE x.req.kind # "pass"
  <2>1. RunTold(D, x.req.kind, a)
    BY <1>2 DEF Told
  <2>2. D.runs \subseteq View(D, U).runs
    BY ViewIs
  <2>3. \A y \in D.runs : RanIn(View(D, U), y.key) = RanIn(D, y.key)
    BY RunKept
  <2>4. a.run # "none" => RanIn(View(D, U), a.run) = RanIn(D, a.run)
    BY <2>1, <2>3 DEF RunTold, StatusTold
  <2>5. RunTold(View(D, U), x.req.kind, a)
    BY <2>1, <2>2, <2>4, RunToldKept
  <2> QED BY <1>2, <2>5 DEF Told
<1> QED BY <1>1, <1>2

\* What a pass has written and read is as good after another's commit.
LEMMA PassKept ==
  ASSUME NEW D, NEW U, NEW T, NEW x, Committed(D), Joins(D, U), Apart(T, U),
         PassRows(D, T, x), PassNumbers(D, T, x)
  PROVE  /\ PassRows(View(D, U), T, x) /\ PassNumbers(View(D, U), T, x)
         /\ T.events # {} => LogOf(U, x.req.run) = {}
         /\ Size(D, x.req.run) <= Size(View(D, U), x.req.run)
         /\ LogOf(U, x.req.run) # {} => Size(D, x.req.run) < Size(View(D, U), x.req.run)
<1> DEFINE V == View(D, U)
           k == x.req.run
<1>1. V.runs = D.runs \cup U.runs /\ V.cands = D.cands \cup U.cands
  BY ViewIs
<1>2. PICK y \in D.runs : y.key = k
  BY DEF PassRows, Keys
<1>3. Size(D, k) \in Nat /\ Size(V, k) \in Nat
      /\ IF LogOf(U, k) = {} THEN Size(V, k) = Size(D, k) ELSE Size(V, k) > Size(D, k)
  <2>1. Size(D, y.key) \in Nat
    BY DEF Committed
  <2>2. /\ Size(V, y.key) \in Nat
        /\ IF LogOf(U, y.key) = {} THEN Size(V, y.key) = Size(D, y.key)
                                   ELSE Size(V, y.key) > Size(D, y.key)
    BY LogAfter
  <2> HIDE DEF V, k
  <2> QED BY <1>2, <2>1, <2>2
<1>4. T.events # {} => LogOf(U, k) = {}
  BY DEF PassRows, Apart, LogOf
<1>5. \A s \in T.resolutions : DerivedState(V, s.cand) = DerivedState(D, s.cand)
  BY <1>4, StateKept DEF PassRows
<1> HIDE DEF V
<1>6. k \in Keys(V)
  BY <1>1, <1>2 DEF Keys
<1>7. PassRows(V, T, x)
  BY <1>1, <1>5, <1>6 DEF PassRows
<1>8. PassNumbers(V, T, x)
  BY <1>3, <1>4 DEF PassNumbers
<1> QED BY <1>3, <1>4, <1>7, <1>8 DEF V

LEMMA ResolvingKept ==
  ASSUME NEW D, NEW U, NEW T, NEW x, Committed(D), Joins(D, U), Apart(T, U),
         Resolving(D, T, x)
  PROVE  Resolving(View(D, U), T, x)
<1>1. PassRows(View(D, U), T, x) /\ PassNumbers(View(D, U), T, x)
  BY PassKept DEF Resolving
<1>2. InRun(D, x.req.run) = InRun(View(D, U), x.req.run)
  <2>1. \A d \in U.cands : d.run # x.req.run
    BY DEF Resolving, PassRows, Joins
  <2> QED BY <2>1, ViewIs DEF InRun
<1>3. OutcomesKept(View(D, U).resolutions \cup T.resolutions, x.req.key, x.outcomes)
  BY ViewIs DEF Resolving, OutcomesKept
<1> QED BY <1>1, <1>2, <1>3 DEF Resolving

LEMMA AtHandKept ==
  ASSUME NEW D, NEW U, NEW T, NEW x, Committed(D), Joins(D, U), Apart(T, U),
         Resolving(D, T, x), AtHand(D, T, x), x.pc \in Handling
  PROVE  AtHand(View(D, U), T, x)
<1> DEFINE V == View(D, U)
           k == x.req.run
<1> SUFFICES AtHand(V, T, x)
  OBVIOUS
<1>1. First(x) \in D.cands /\ First(x).run = k
  <2>1. x.todo \in Seq(InRun(D, k)) /\ x.todo # <<>>
    BY DEF Resolving, AtHand
  <2>2. x.todo[1] \in InRun(D, k)
    BY <2>1
  <2> QED BY <2>2 DEF First, InRun
<1>2. /\ T.events # {} => LogOf(U, k) = {}
      /\ Size(D, k) <= Size(V, k)
      /\ LogOf(U, k) # {} => Size(D, k) < Size(V, k)
  BY PassKept DEF Resolving
<1>3. LogOf(U, k) = {} => DerivedState(V, First(x)) = DerivedState(D, First(x))
  BY <1>1, StateKept
<1>4. D.resolutions \subseteq V.resolutions
  BY ViewIs
<1>5. Size(D, k) \in Nat /\ Size(V, k) \in Nat
  <2>1. PICK y \in D.runs : y.key = k
    BY DEF Resolving, PassRows, Keys
  <2> QED BY <2>1, LogAfter DEF Committed
<1> HIDE DEF V
<1>6. CASE x.pc = "started"
  <2>1. T.events # {} \/ x.next = Size(V, k) => DerivedState(V, First(x)) \in x.req.eligible
    <3>1. CASE T.events # {}
      BY <1>2, <1>3, <1>6, <3>1 DEF AtHand
    <3>2. CASE T.events = {} /\ x.next = Size(V, k)
      <4>1. x.next <= Size(D, k) /\ x.next \in Nat
        BY <3>2 DEF Resolving, PassNumbers
      <4>2. x.next = Size(D, k) /\ LogOf(U, k) = {}
        BY <1>2, <1>5, <3>2, <4>1
      <4> QED BY <1>3, <1>6, <4>2 DEF AtHand
    <3> QED BY <3>1, <3>2
  <2> QED BY <1>6, <2>1 DEF AtHand
<1>7. CASE x.pc = "resolution"
  <2>1. CASE StartedHere(T, x) /\ DerivedState(D, First(x)) \in x.req.eligible
    <3>1. T.events # {}
      BY <2>1 DEF StartedHere
    <3> QED BY <1>2, <1>3, <1>7, <2>1, <3>1 DEF AtHand
  <2>2. CASE \E s \in D.resolutions : s.cand = First(x) /\ s.key = x.req.key
    BY <1>4, <1>7, <2>2 DEF AtHand
  <2> QED BY <1>7, <2>1, <2>2 DEF AtHand
<1>8. CASE x.pc = "completed"
  BY <1>8 DEF AtHand
<1> QED BY <1>6, <1>7, <1>8 DEF Handling

\* Another's commit takes nothing from a caller.
LEMMA PhaseKept ==
  ASSUME NEW D, NEW U, NEW T, NEW x, NEW a, Committed(D), Joins(D, U), Apart(T, U),
         Phase(D, T, x, a)
  PROVE  Phase(View(D, U), T, x, a)
<1> DEFINE V == View(D, U)
<1>1. \A r, status : NewRun(T, r, status) /\ r.key \notin Keys(D) => r.key \notin Keys(V)
  <2> SUFFICES ASSUME NEW r, NEW status, NewRun(T, r, status), r.key \notin Keys(D),
                      r.key \in Keys(V)
               PROVE  FALSE
    OBVIOUS
  <2>1. PICK y \in U.runs : y.key = r.key
    BY ViewIs DEF Keys
  <2>2. PICK e \in U.events : e.run = r.key
    BY <2>1 DEF Joins
  <2>3. PICK f \in T.events : f.run = r.key
    BY FS_EmptySet DEF NewRun, OfRuns
  <2> QED BY <2>2, <2>3 DEF Apart
<1>2. Executing(D, T, x) => Executing(V, T, x)
  BY <1>1 DEF Executing, Progress
<1>3. RunDone(D, T, x, a) => RunDone(V, T, x, a)
  BY <1>1 DEF RunDone
<1>4. PassDone(D, T, x, a) => PassDone(V, T, x, a)
  <2> SUFFICES ASSUME PassDone(D, T, x, a)
               PROVE  PassDone(V, T, x, a)
    OBVIOUS
  <2>1. PassRows(V, T, x) /\ PassNumbers(V, T, x)
    BY PassKept DEF PassDone
  <2>2. PassTold(V, T, x, a)
    BY ViewIs DEF PassDone, PassTold, OutcomesKept, Keys
  <2> QED BY <2>1, <2>2 DEF PassDone
<1>5. Told(D, x, a) => Told(V, x, a)
  BY ToldKept
<1>6. Resolving(D, T, x) => Resolving(V, T, x)
  BY ResolvingKept
<1>7. Resolving(D, T, x) /\ AtHand(D, T, x) /\ x.pc \in Handling => AtHand(V, T, x)
  BY AtHandKept
<1> HIDE DEF V
<1> QED BY <1>2, <1>3, <1>4, <1>5, <1>6, <1>7 DEF Phase, V

-----------------------------------------------------------------------------
(* Steps                                                                   *)

\* A step of c that commits nothing.
LEMMA OwnStep ==
  ASSUME IInv, NEW c \in Callers, NEW T, NEW x, NEW a, db' = db,
         tx' = [tx EXCEPT ![c] = T], call' = [call EXCEPT ![c] = x],
         answer' = [answer EXCEPT ![c] = a], faults' \in 0 .. MaxFaults,
         Phase(db, T, x, a), \A d \in Callers \ {c} : Apart(T, tx[d])
  PROVE  IInv'
<1>1. tx = [d \in Callers |-> tx[d]] /\ call = [d \in Callers |-> call[d]]
      /\ answer = [d \in Callers |-> answer[d]]
  BY DEF IInv
<1>2. /\ tx' = [d \in Callers |-> IF d = c THEN T ELSE tx[d]]
      /\ call' = [d \in Callers |-> IF d = c THEN x ELSE call[d]]
      /\ answer' = [d \in Callers |-> IF d = c THEN a ELSE answer[d]]
  BY <1>1
<1>3. /\ tx' = [d \in Callers |-> tx'[d]] /\ call' = [d \in Callers |-> call'[d]]
      /\ answer' = [d \in Callers |-> answer'[d]]
  BY <1>2
<1>4. \A d \in Callers : Phase(db', tx'[d], call'[d], answer'[d])
  <2> SUFFICES ASSUME NEW d \in Callers
               PROVE  Phase(db', tx'[d], call'[d], answer'[d])
    OBVIOUS
  <2>1. CASE d = c
    <3>1. tx'[d] = T /\ call'[d] = x /\ answer'[d] = a
      BY <1>2, <2>1
    <3> QED BY <3>1
  <2>2. CASE d # c
    <3>1. tx'[d] = tx[d] /\ call'[d] = call[d] /\ answer'[d] = answer[d]
      BY <1>2, <2>2
    <3>2. Phase(db, tx[d], call[d], answer[d])
      BY DEF IInv
    <3> QED BY <3>1, <3>2
  <2> QED BY <2>1, <2>2
<1>5. \A d, e \in Callers : d # e => Apart(tx'[d], tx'[e])
  <2>1. \A d, e \in Callers : d # e => Apart(tx[d], tx[e])
    BY DEF IInv
  <2>2. \A d \in Callers \ {c} : Apart(T, tx[d]) /\ Apart(tx[d], T)
    BY DEF Apart
  <2>3. tx'[c] = T /\ \A d \in Callers \ {c} : tx'[d] = tx[d]
    BY <1>2
  <2> QED BY <2>1, <2>2, <2>3
<1>6. Committed(db')
  BY DEF IInv
<1> QED BY <1>3, <1>4, <1>5, <1>6 DEF IInv

Fields == {"pc", "req", "i", "next", "todo", "handled", "failed", "error", "outcomes"}

LEMMA CallIs ==
  ASSUME NEW x
  PROVE  IsCall(x) <=> x = [t \in Fields |-> x[t]]
<1>1. ASSUME IsCall(x)
      PROVE  x = [t \in Fields |-> x[t]]
  BY <1>1 DEF IsCall, Fields
<1>2. ASSUME x = [t \in Fields |-> x[t]]
      PROVE  IsCall(x)
  BY <1>2 DEF IsCall, Fields
<1> QED BY <1>1, <1>2

\* Its call moves on.
LEMMA MoveOn ==
  ASSUME NEW x, NEW p, IsCall(x)
  PROVE  LET y == [x EXCEPT !.pc = p] IN
         /\ IsCall(y) /\ y.pc = p /\ y.req = x.req /\ y.i = x.i /\ y.next = x.next
         /\ y.todo = x.todo /\ y.failed = x.failed /\ y.error = x.error
         /\ y.outcomes = x.outcomes
BY DEF IsCall

\* What holds of a caller before its step.
LEMMA PhaseOf ==
  ASSUME IInv, NEW c \in Callers
  PROVE  /\ Phase(db, tx[c], call[c], answer[c]) /\ Committed(db)
         /\ Typed(tx[c]) /\ Typed(db) /\ Sees(c) = View(db, tx[c])
         /\ \A d \in Callers \ {c} : Apart(tx[c], tx[d])
         /\ \A d \in Callers \ {c} : Apart(Empty, tx[d])
<1>1. Phase(db, tx[c], call[c], answer[c]) /\ Committed(db)
  BY DEF IInv
<1>2. Typed(tx[c]) /\ Typed(db)
  BY <1>1 DEF Phase, Committed
<1>3. IsTables(tx[c]) /\ IsTables(db)
  BY <1>2 DEF Typed
<1>4. Sees(c) = View(db, tx[c])
  BY <1>3, SeesIsView
<1>5. \A d \in Callers \ {c} : Apart(Empty, tx[d])
  BY EmptyIs DEF Apart
<1>6. \A d \in Callers \ {c} : Apart(tx[c], tx[d])
  BY DEF IInv
<1> QED BY <1>1, <1>2, <1>4, <1>5, <1>6

\* A step that writes nothing and returns nothing.
LEMMA QuietStep ==
  ASSUME IInv, NEW c \in Callers, NEW x, call' = [call EXCEPT ![c] = x],
         UNCHANGED <<db, tx, answer, faults>>, Phase(db, tx[c], x, answer[c])
  PROVE  IInv'
<1>1. tx = [d \in Callers |-> tx[d]] /\ answer = [d \in Callers |-> answer[d]]
  BY DEF IInv
<1>2. tx' = [tx EXCEPT ![c] = tx[c]]
  BY <1>1
<1>3. answer' = [answer EXCEPT ![c] = answer[c]]
  BY <1>1
<1>4. faults' \in 0 .. MaxFaults
  BY DEF IInv
<1> QED BY <1>2, <1>3, <1>4, OwnStep, PhaseOf

\* A step that writes and returns nothing.
LEMMA WriteStep ==
  ASSUME IInv, NEW c \in Callers, NEW T, NEW x, call' = [call EXCEPT ![c] = x],
         tx' = [tx EXCEPT ![c] = T], UNCHANGED <<db, answer, faults>>,
         Phase(db, T, x, answer[c]), \A d \in Callers \ {c} : Apart(T, tx[d])
  PROVE  IInv'
<1>1. answer = [d \in Callers |-> answer[d]]
  BY DEF IInv
<1>2. answer' = [answer EXCEPT ![c] = answer[c]]
  BY <1>1
<1>3. faults' \in 0 .. MaxFaults
  BY DEF IInv
<1> QED BY <1>2, <1>3, OwnStep

\* A step that returns, having written nothing more.
LEMMA ReturnStep ==
  ASSUME IInv, NEW c \in Callers, NEW a, Return(c, a), UNCHANGED <<db, tx, faults>>,
         Phase(db, tx[c], [call[c] EXCEPT !.pc = "commit"], a)
  PROVE  IInv'
<1>1. tx = [d \in Callers |-> tx[d]]
  BY DEF IInv
<1>2. tx' = [tx EXCEPT ![c] = tx[c]]
  BY <1>1
<1>3. faults' \in 0 .. MaxFaults
  BY DEF IInv
<1>4. /\ call' = [call EXCEPT ![c] = [call[c] EXCEPT !.pc = "commit"]]
      /\ answer' = [answer EXCEPT ![c] = a]
  BY DEF Return, Goto
<1> QED BY <1>2, <1>3, <1>4, OwnStep, PhaseOf

\* A caller that is neither idle nor done has a request.
LEMMA HasCall ==
  ASSUME IInv, NEW c \in Callers, call[c].pc # "idle"
  PROVE  IsCall(call[c]) /\ IsRequest(call[c].req)
<1>1. Idle.pc = "idle"
  BY DEF Idle
<1> QED BY <1>1, PhaseOf DEF Phase

-----------------------------------------------------------------------------
(* Beginning a call                                                        *)

LEMMA CallIInv ==
  ASSUME IInv, NEW c \in Callers, Call(c)
  PROVE  IInv'
<1>1. PICK r \in Menu[c] : call' = [call EXCEPT ![c] =
        [pc |-> IF r.kind = "pass" THEN "pass" ELSE "lookup", req |-> r,
         i |-> 1, next |-> 0, todo |-> <<>>, handled |-> 0,
         failed |-> {}, error |-> "none", outcomes |-> {}]]
  BY DEF Call
<1> DEFINE y == [pc |-> IF r.kind = "pass" THEN "pass" ELSE "lookup", req |-> r,
                 i |-> 1, next |-> 0, todo |-> <<>>, handled |-> 0,
                 failed |-> {}, error |-> "none", outcomes |-> {}]
<1>2. IsRequest(r)
  BY OrchestrationAssumption DEF IsRequest
<1>3. IsCall(y) /\ y.req = r /\ y.i = 1 /\ y.failed = {} /\ y.error = "none" /\ y.outcomes = {}
      /\ y.pc = IF r.kind = "pass" THEN "pass" ELSE "lookup"
  BY DEF IsCall
<1>4. tx[c] = Empty
  BY PhaseOf DEF Call, At, Phase
<1> HIDE DEF y
<1>5. Phase(db, tx[c], y, answer[c])
  BY <1>2, <1>3, <1>4, PhaseOf DEF Phase, Pcs, Running, Handling, IsRequest
<1> QED BY <1>1, <1>5, QuietStep DEF y, Call

\* A replay tells what the tables have.
LEMMA ReplayTold ==
  ASSUME NEW D, NEW x \in D.runs, Ended(D, x.key, x.status), NEW kind \in RunKinds,
         NEW a \in IF kind = "single" THEN ReplaySingle(D, x) ELSE ReplayMulti(D, x)
  PROVE  /\ a.status = IF x.status = "completed" THEN "succeeded" ELSE "failed"
         /\ RunTold(D, kind, a)
<1>1. x.status \in {"completed", "failed"}
  BY DEF Ended
<1>2. ResultStatus(x) = IF x.status = "completed" THEN "succeeded" ELSE "failed"
  BY <1>1 DEF ResultStatus
<1>3. CASE kind = "single"
  <2>1. a.status = ResultStatus(x) /\ a.run = x.key
    BY <1>3 DEF ReplaySingle
  <2>2. SingleTold(D, a)
    BY <1>3 DEF ReplaySingle, SingleTold
  <2> QED BY <1>2, <1>3, <2>1, <2>2 DEF RunTold, StatusTold
<1>4. CASE kind = "multi"
  <2>1. PICK code : /\ a = [status |-> ResultStatus(x), run |-> x.key,
                            agents |-> {m.agent : m \in RanIn(D, x.key)},
                            failed |-> FailedIn(D, x.key), error |-> code]
                    /\ code \in IF FailedIn(D, x.key) # {} THEN FailedIn(D, x.key)
                                ELSE IF \E e \in D.events : e.run = x.key /\ e.type = "run_failed"
                                  THEN {"budget_exceeded"} ELSE {"none"}
    BY <1>4 DEF ReplayMulti
  <2>2. /\ a.status = ResultStatus(x) /\ a.run = x.key /\ a.error = code
        /\ a.agents = {m.agent : m \in RanIn(D, x.key)} /\ a.failed = FailedIn(D, x.key)
    BY <2>1
  <2>3. x.status = "failed" <=> \E e \in D.events : e.run = x.key /\ e.type = "run_failed"
    BY DEF Ended, NoneFailed
  <2>4. code \in IF a.failed # {} THEN a.failed
                ELSE IF a.status = "failed" THEN {"budget_exceeded"} ELSE {"none"}
    BY <1>1, <1>2, <2>1, <2>2, <2>3
  <2>5. MultiTold(D, a)
    BY <2>2, <2>4 DEF MultiTold
  <2> QED BY <1>2, <1>4, <2>2, <2>5 DEF RunTold, StatusTold
<1> QED BY <1>3, <1>4 DEF RunKinds

LEMMA ReplayIInv ==
  ASSUME IInv, NEW c \in Callers, Replay(c)
  PROVE  IInv'
<1>1. tx[c] = Empty /\ call[c].req.kind \in RunKinds
  BY PhaseOf DEF Replay, At, Phase
<1>2. Sees(c) = db
  BY <1>1, SeesNothingElse, PhaseOf DEF Typed
<1> DEFINE r == call[c].req
           y == [call[c] EXCEPT !.pc = "commit"]
<1>3. PICK x \in RunIn(db, r.key) :
        \E a \in IF r.kind = "single" THEN ReplaySingle(db, x) ELSE ReplayMulti(db, x) :
          Return(c, a)
  BY <1>2 DEF Replay
<1>4. PICK a \in IF r.kind = "single" THEN ReplaySingle(db, x) ELSE ReplayMulti(db, x) :
        Return(c, a)
  BY <1>3
<1>5. IsCall(call[c]) /\ IsRequest(r)
  BY HasCall DEF Replay, At
<1>6. IsCall(y) /\ y.pc = "commit" /\ y.req = r
  BY <1>5, MoveOn
<1>7. x \in db.runs /\ Ended(db, x.key, x.status)
  BY <1>3, PhaseOf DEF RunIn, Committed
<1> HIDE DEF y
<1>8. /\ a.status = IF x.status = "completed" THEN "succeeded" ELSE "failed"
      /\ RunTold(db, r.kind, a)
  BY <1>1, <1>4, <1>7, ReplayTold
<1>9. Told(db, y, a)
  BY <1>1, <1>6, <1>8 DEF Told, RunKinds
<1>10. Phase(db, tx[c], y, a)
  <2>1. a.status \in {"none", "succeeded"} \cup Statuses
    BY <1>8 DEF Statuses
  <2> QED BY <1>1, <1>5, <1>6, <1>9, <2>1, PhaseOf DEF Phase, Pcs, Running, Handling
<1> QED BY <1>4, <1>10, ReturnStep DEF y, Replay

\* Refused: the answer names no run.
LEMMA RefusedIInv ==
  ASSUME IInv, NEW c \in Callers, call[c].pc \in {"lookup", "pass"}, Return(c, Refused),
         UNCHANGED <<db, tx, faults>>
  PROVE  IInv'
<1> DEFINE y == [call[c] EXCEPT !.pc = "commit"]
<1>1. IsCall(call[c]) /\ IsRequest(call[c].req)
  BY HasCall
<1>2. IsCall(y) /\ y.pc = "commit" /\ y.req = call[c].req
  BY <1>1, MoveOn
<1>3. tx[c] = Empty
  BY PhaseOf DEF Phase
<1> HIDE DEF y
<1>4. Refused.run = "none" /\ Refused.status \in Statuses
  BY DEF Refused, Statuses
<1>5. Told(db, y, Refused)
  BY <1>4 DEF Told, PassTold, RunTold
<1>6. Phase(db, tx[c], y, Refused)
  BY <1>1, <1>2, <1>3, <1>4, <1>5, PhaseOf DEF Phase, Pcs, Running, Handling
<1> QED BY <1>6, ReturnStep DEF y

LEMMA RefuseRunIInv ==
  ASSUME IInv, NEW c \in Callers, RefuseRun(c)
  PROVE  IInv'
BY RefusedIInv DEF RefuseRun, At

LEMMA AcceptRunIInv ==
  ASSUME IInv, NEW c \in Callers, AcceptRun(c)
  PROVE  IInv'
<1> DEFINE r == call[c].req
           y == [call[c] EXCEPT !.pc = "insert"]
<1>1. IsCall(call[c]) /\ IsRequest(r) /\ r.kind \in RunKinds /\ tx[c] = Empty
      /\ call[c].i = 1 /\ call[c].failed = {} /\ call[c].error = "none"
  BY HasCall, PhaseOf DEF AcceptRun, At, Phase
<1>2. IsCall(y) /\ y.pc = "insert" /\ y.req = r /\ y.i = 1 /\ y.failed = {}
      /\ y.error = "none"
  BY <1>1, MoveOn
<1>3. Loaded(r)
  <2>1. r.agents # <<>> /\ IsInjective(r.agents) /\ ToSet(r.agents) \subseteq Agents
    BY DEF AcceptRun, ValidRunShape, LoadsAgents
  <2>2. r.agents \in Seq(ToSet(r.agents))
    BY <1>1 DEF IsRequest, RunKinds
  <2>3. r.agents \in Seq(Agents)
    BY <2>1, <2>2
  <2> QED BY <1>1, <2>1, <2>3 DEF Loaded
<1> HIDE DEF y
<1>4. Phase(db, tx[c], y, answer[c])
  BY <1>1, <1>2, <1>3, PhaseOf DEF Phase, Pcs, Running, Handling
<1> QED BY <1>4, QuietStep DEF y, AcceptRun, Goto

-----------------------------------------------------------------------------
(* Executing a run                                                         *)

After(T, rows) ==
  [t \in DOMAIN Empty |-> IF t \in DOMAIN rows THEN T[t] \cup rows[t] ELSE T[t]]

LEMMA AfterIs ==
  ASSUME NEW T, NEW rows
  PROVE  LET U == After(T, rows) IN
         /\ IsTables(U)
         /\ U.runs = IF "runs" \in DOMAIN rows THEN T.runs \cup rows.runs ELSE T.runs
         /\ U.agentRuns = IF "agentRuns" \in DOMAIN rows THEN T.agentRuns \cup rows.agentRuns
                                                        ELSE T.agentRuns
         /\ U.cands = IF "cands" \in DOMAIN rows THEN T.cands \cup rows.cands ELSE T.cands
         /\ U.events = IF "events" \in DOMAIN rows THEN T.events \cup rows.events ELSE T.events
         /\ U.resolutions = IF "resolutions" \in DOMAIN rows THEN T.resolutions \cup rows.resolutions
                                                            ELSE T.resolutions
<1> DEFINE U == After(T, rows)
<1>1. /\ DOMAIN U = {"runs", "agentRuns", "cands", "events", "resolutions"}
      /\ \A t \in DOMAIN U : U[t] = IF t \in DOMAIN rows THEN T[t] \cup rows[t] ELSE T[t]
      /\ U = [t \in {"runs", "agentRuns", "cands", "events", "resolutions"} |-> U[t]]
  BY EmptyIs DEF After
<1> HIDE DEF U
<1>2. IsTables(U)
  BY <1>1 DEF IsTables
<1> QED BY <1>1, <1>2 DEF U

LEMMA WriteIs ==
  ASSUME NEW c, NEW rows, Write(c, rows)
  PROVE  tx' = [tx EXCEPT ![c] = After(tx[c], rows)]
BY DEF Write, After

LEMMA SettleIs ==
  ASSUME NEW T, NEW k, NEW kind, NEW status, IsTables(T),
         T.runs = {RunRow(k, kind, "running")}
  PROVE  LET U == Settle(T, status) IN
         /\ IsTables(U) /\ U.runs = {RunRow(k, kind, status)} /\ U.agentRuns = T.agentRuns
         /\ U.cands = T.cands /\ U.events = T.events /\ U.resolutions = T.resolutions
<1>1. {[x EXCEPT !.status = status] : x \in T.runs} = {RunRow(k, kind, status)}
  BY DEF RunRow
<1> DEFINE R == {[x EXCEPT !.status = status] : x \in T.runs}
<1> HIDE DEF R
<1>2. LET U == [T EXCEPT !.runs = R] IN
      /\ IsTables(U) /\ U.runs = R /\ U.agentRuns = T.agentRuns
      /\ U.cands = T.cands /\ U.events = T.events /\ U.resolutions = T.resolutions
  BY DEF IsTables
<1> QED BY <1>1, <1>2 DEF Settle, R

\* The runs that what a caller has written is about.
LEMMA EventsOf ==
  ASSUME IInv, NEW c \in Callers, NEW e \in tx[c].events
  PROVE  e.run \in Keys(tx[c]) \/ e.run \in Keys(db)
<1> DEFINE r == call[c].req
<1>1. Phase(db, tx[c], call[c], answer[c])
  BY PhaseOf
<1>2. tx[c] # Empty
  BY EmptyIs
<1>3. \A status : NewRun(tx[c], r, status) => e.run \in Keys(tx[c])
  <2> SUFFICES ASSUME NEW status, NewRun(tx[c], r, status)
               PROVE  e.run \in Keys(tx[c])
    OBVIOUS
  <2>1. e.run = r.key /\ tx[c].runs = {RunRow(r.key, r.kind, status)}
    BY DEF NewRun, OfRuns
  <2> QED BY <2>1 DEF Keys, RunRow
<1>4. PassRows(db, tx[c], call[c]) => e.run \in Keys(db)
  BY DEF PassRows
<1> QED
  BY <1>1, <1>2, <1>3, <1>4
  DEF Phase, Pcs, Running, Handling, Executing, Progress, Resolving, RunDone, PassDone

\* More events of the run c is writing.
LEMMA StaysApart ==
  ASSUME IInv, NEW c \in Callers, NEW k, NEW T, tx[c].events # {},
         \A e \in tx[c].events : e.run = k, \A e \in T.events : e.run = k
  PROVE  \A d \in Callers \ {c} : Apart(T, tx[d])
BY PhaseOf DEF Apart

LEMMA InsertRunIInv ==
  ASSUME IInv, NEW c \in Callers, InsertRun(c)
  PROVE  IInv'
<1> DEFINE r == call[c].req
           e == Event(r.key, 0, "run_created", r.key, <<>>)
           rows == [runs |-> {RunRow(r.key, r.kind, "running")}, events |-> {e}]
           T == After(tx[c], rows)
           p == IF r.kind = "single" THEN "single" ELSE "preflight"
           y == [call[c] EXCEPT !.pc = p, !.next = 1]
<1>1. /\ IsCall(call[c]) /\ IsRequest(r) /\ tx[c] = Empty /\ r.kind \in RunKinds /\ Loaded(r)
      /\ call[c].i = 1 /\ call[c].failed = {} /\ call[c].error = "none"
  BY HasCall, PhaseOf DEF InsertRun, At, Phase
<1>2. IsCall(y) /\ y.pc = p /\ y.req = r /\ y.i = 1 /\ y.failed = {} /\ y.next = 1
      /\ y.error = "none"
  <2>1. call[c] = [t \in Fields |-> call[c][t]]
    BY <1>1, CallIs
  <2> HIDE DEF p
  <2>2. y = [t \in Fields |-> IF t = "pc" THEN p ELSE IF t = "next" THEN 1 ELSE call[c][t]]
    BY <2>1 DEF Fields
  <2> HIDE DEF y
  <2>3. y = [t \in Fields |-> y[t]]
    BY <2>2
  <2> QED BY <1>1, <2>2, <2>3, CallIs DEF Fields
<1>3. /\ IsTables(T) /\ T.runs = {RunRow(r.key, r.kind, "running")} /\ T.agentRuns = {}
      /\ T.cands = {} /\ T.events = {e} /\ T.resolutions = {}
  <2>1. /\ DOMAIN rows = {"runs", "events"} /\ rows.events = {e}
        /\ rows.runs = {RunRow(r.key, r.kind, "running")}
    OBVIOUS
  <2>2. /\ tx[c].runs = {} /\ tx[c].agentRuns = {} /\ tx[c].cands = {}
        /\ tx[c].events = {} /\ tx[c].resolutions = {}
    BY <1>1, EmptyIs
  <2> HIDE DEF rows, e
  <2>3. /\ IsTables(T) /\ T.runs = tx[c].runs \cup rows.runs
        /\ T.events = tx[c].events \cup rows.events /\ T.agentRuns = tx[c].agentRuns
        /\ T.cands = tx[c].cands /\ T.resolutions = tx[c].resolutions
    BY <2>1, AfterIs
  <2> HIDE DEF T
  <2> QED BY <2>1, <2>2, <2>3
<1>4. tx' = [tx EXCEPT ![c] = T] /\ call' = [call EXCEPT ![c] = y]
      /\ UNCHANGED <<db, answer, faults>>
  BY WriteIs DEF InsertRun
<1>5. e.run = r.key /\ e.no = 0 /\ e.type = "run_created"
  BY DEF Event
<1> HIDE DEF T, y, e
<1>6. Cardinality(T.events) = 1 /\ Numbered(T.events, 0, 1)
  <2>1. Numbered({e}, 0, 0 + 1)
    BY <1>5, NumberedOne
  <2>2. Cardinality({e}) = 1
    BY FS_Singleton
  <2> QED BY <1>3, <2>1, <2>2
<1>7. NewRun(T, r, "running")
  <2>1. Typed(T)
    BY <1>1, <1>3, <1>5, FS_EmptySet DEF Typed, RunRow, Statuses, EventTypes
  <2>2. Tells(T, r.key) /\ OfRuns(T, {r.key}) /\ Distinct(T)
    BY <1>3, <1>5 DEF Tells, OfRuns, Distinct
  <2> QED BY <1>3, <1>5, <1>6, <2>1, <2>2 DEF NewRun
<1>8. Executing(db, T, y)
  <2>1. Progress(T, r, 1)
    BY <1>3, <1>5, <1>7 DEF Progress, NoneFailed
  <2>2. r.key \notin Keys(db)
    BY DEF InsertRun, RunKeyTaken, RunIn, Keys
  <2>3. Len(r.agents) \in Nat
    BY <1>1 DEF Loaded
  <2>4. FailedIn(T, r.key) = {}
    BY <1>3 DEF FailedIn, RanIn
  <2> QED BY <1>1, <1>2, <1>6, <2>1, <2>2, <2>3, <2>4 DEF Executing
<1>9. Phase(db, T, y, answer[c])
  <2>1. y.pc \in {"single", "preflight"}
    BY <1>2
  <2> QED BY <1>1, <1>2, <1>7, <1>8, <2>1, PhaseOf DEF Phase, Pcs, Running, Handling, NewRun
<1>10. \A d \in Callers \ {c} : Apart(T, tx[d])
  <2> SUFFICES ASSUME NEW d \in Callers \ {c}, NEW f \in tx[d].events, f.run = r.key
               PROVE  FALSE
    BY <1>3, <1>5 DEF Apart
  <2>1. r.key \notin Keys(db)
    BY DEF InsertRun, RunKeyTaken, RunIn, Keys
  <2>2. f.run \in Keys(tx[d])
    BY <2>1, EventsOf
  <2> QED BY <2>2 DEF Keys, InsertRun, RunKeyHeld, Uncommitted
<1> QED BY <1>4, <1>9, <1>10, WriteStep

\* What holds of a caller that executes a run.
LEMMA ExecutingOf ==
  ASSUME IInv, NEW c \in Callers, call[c].pc \in Running
  PROVE  /\ IsCall(call[c]) /\ IsRequest(call[c].req) /\ Executing(db, tx[c], call[c])
         /\ IsTables(tx[c]) /\ call[c].req.kind \in RunKinds
         /\ tx[c].runs = {RunRow(call[c].req.key, call[c].req.kind, "running")}
         /\ tx[c].events # {} /\ \A e \in tx[c].events : e.run = call[c].req.key
<1>1. IsCall(call[c]) /\ IsRequest(call[c].req)
  BY HasCall DEF Running
<1>2. Executing(db, tx[c], call[c])
  BY PhaseOf DEF Phase
<1>3. NewRun(tx[c], call[c].req, "running")
  BY <1>2 DEF Executing, Progress
<1>4. tx[c].events # {}
  BY <1>3, FS_EmptySet DEF NewRun
<1> QED BY <1>1, <1>2, <1>3, <1>4 DEF NewRun, Typed, OfRuns, Executing, Loaded

\* The run ends and its caller is told how.
LEMMA RunReturns ==
  ASSUME IInv, NEW c \in Callers, call[c].pc \in Running, NEW T,
         NEW status \in {"completed", "failed"}, NEW a,
         tx' = [tx EXCEPT ![c] = T], Return(c, a), UNCHANGED <<db, faults>>,
         NewRun(T, call[c].req, status), Ended(T, call[c].req.key, status),
         a.run = call[c].req.key,
         a.status = IF status = "completed" THEN "succeeded" ELSE "failed",
         call[c].req.kind = "multi" => MultiTold(T, a),
         call[c].req.kind = "single" => SingleTold(T, a)
  PROVE  IInv'
<1> DEFINE r == call[c].req
           y == [call[c] EXCEPT !.pc = "commit"]
<1>1. IsCall(call[c]) /\ IsRequest(r) /\ Executing(db, tx[c], call[c]) /\ r.kind \in RunKinds
  BY ExecutingOf
<1>2. IsCall(y) /\ y.pc = "commit" /\ y.req = r
  BY <1>1, MoveOn
<1> HIDE DEF y
<1>3. RunDone(db, T, y, a)
  <2>1. T.runs = {RunRow(r.key, r.kind, status)}
    BY DEF NewRun
  <2>2. RunTold(T, r.kind, a)
    BY <2>1 DEF RunTold, StatusTold, RunRow
  <2> QED BY <1>1, <1>2, <2>2 DEF RunDone, Executing
<1>4. Phase(db, T, y, a)
  <2>1. a.status \in {"none", "succeeded"} \cup Statuses
    BY DEF Statuses
  <2> QED BY <1>1, <1>2, <1>3, <2>1 DEF Phase, Pcs, Running, Handling, NewRun
<1>5. \A d \in Callers \ {c} : Apart(T, tx[d])
  <2>1. \A e \in T.events : e.run = r.key
    BY DEF NewRun, OfRuns
  <2> QED BY <2>1, ExecutingOf, StaysApart
<1>6. call' = [call EXCEPT ![c] = y] /\ answer' = [answer EXCEPT ![c] = a]
  BY DEF Return, Goto, y
<1>7. faults' \in 0 .. MaxFaults
  BY DEF IInv
<1> QED BY <1>4, <1>5, <1>6, <1>7, OwnStep

\* Over budget.
LEMMA ExceededIInv ==
  ASSUME IInv, NEW c \in Callers, call[c].pc \in {"single", "preflight"}, Exceeded(c),
         UNCHANGED <<db, faults>>
  PROVE  IInv'
<1> DEFINE r == call[c].req
           n == call[c].next
           e == Event(r.key, n, "token_budget_exceeded", r.key, <<>>)
           f == Failed(r.key, n + 1)
           more == tx[c].events \cup {e, f}
           stop == [tx[c] EXCEPT !.events = more]
           T == Settle(stop, "failed")
           a == IF r.kind = "single"
                  THEN [status |-> "failed", run |-> r.key, agent |-> "none",
                        error |-> "budget_exceeded"]
                  ELSE [status |-> "failed", run |-> r.key, agents |-> {}, failed |-> {},
                        error |-> "budget_exceeded"]
<1>1. call[c].pc \in Running
  BY DEF Running
<1>2. Executing(db, tx[c], call[c]) /\ r.kind \in RunKinds /\ IsTables(tx[c])
      /\ tx[c].runs = {RunRow(r.key, r.kind, "running")}
  BY <1>1, ExecutingOf
<1>3. Progress(tx[c], r, 1) /\ n = Cardinality(tx[c].events) /\ tx[c].resolutions = {}
  BY <1>2 DEF Executing, Progress, NewRun
<1>4. tx' = [tx EXCEPT ![c] = T] /\ Return(c, a)
  BY DEF Exceeded
<1>5. /\ IsTables(stop) /\ stop.runs = tx[c].runs /\ stop.agentRuns = tx[c].agentRuns
      /\ stop.cands = tx[c].cands /\ stop.events = more /\ stop.resolutions = tx[c].resolutions
  <2> HIDE DEF more
  <2> QED BY <1>2 DEF IsTables
<1> HIDE DEF stop
<1>6. /\ IsTables(T) /\ T.runs = {RunRow(r.key, r.kind, "failed")}
      /\ T.agentRuns = tx[c].agentRuns /\ T.cands = tx[c].cands
      /\ T.events = more /\ T.resolutions = tx[c].resolutions
  BY <1>2, <1>5, SettleIs
<1> HIDE DEF T
<1>7. NewRun(T, r, "failed") /\ Ended(T, r.key, "failed") /\ FailedIn(T, r.key) = {}
  <2>1. T = Stopped(tx[c], r)
    BY <1>3, <1>6 DEF Stopped, IsTables
  <2>2. RunIs(Stopped(tx[c], r), r, "failed", {})
    BY <1>2, <1>3, RunStops
  <2> QED BY <2>1, <2>2 DEF RunIs
<1>8. a.status = "failed" /\ a.run = r.key /\ a.error = "budget_exceeded"
      /\ (r.kind = "single" => a.agent = "none")
      /\ (r.kind = "multi" => a.agents = {} /\ a.failed = {})
  OBVIOUS
<1> HIDE DEF a
<1>9. RanIn(T, r.key) = {}
  BY <1>3, <1>6 DEF Progress, RanIn
<1>10. (r.kind = "multi" => MultiTold(T, a)) /\ (r.kind = "single" => SingleTold(T, a))
  BY <1>7, <1>8, <1>9 DEF MultiTold, SingleTold
<1> QED BY <1>1, <1>4, <1>7, <1>8, <1>10, RunReturns

LEMMA RunSingleIInv ==
  ASSUME IInv, NEW c \in Callers, RunSingle(c)
  PROVE  IInv'
<1> DEFINE r == call[c].req
           n == call[c].next
           b == r.agents[1]
           rows == AgentRows(r, b, n)
           ok == Invoke(r, b).ok
<1>1. CASE SingleOverBudget(r) /\ Exceeded(c)
  BY <1>1, ExceededIInv DEF RunSingle, At
<1>2. CASE ~SingleOverBudget(r)
  <2> DEFINE F == IF ok THEN {} ELSE {Failed(r.key, n + Cardinality(rows.events))}
             ended == [t \in DOMAIN Empty |->
                         CASE t \in {"agentRuns", "cands"} -> tx[c][t] \cup rows[t]
                           [] t = "events" -> tx[c][t] \cup rows[t] \cup F
                           [] OTHER -> tx[c][t]]
             status == IF ok THEN "completed" ELSE "failed"
             T == Settle(ended, status)
             a == [status |-> IF ok THEN "succeeded" ELSE "failed", run |-> r.key,
                   agent |-> b, error |-> ErrorOf(AgentRow(r.key, b, ok))]
  <2>1. call[c].pc \in Running /\ At(c, "single")
    BY DEF RunSingle, At, Running
  <2>2. Executing(db, tx[c], call[c]) /\ r.kind \in RunKinds /\ IsTables(tx[c])
        /\ tx[c].runs = {RunRow(r.key, r.kind, "running")}
    BY <2>1, ExecutingOf
  <2>3. /\ Progress(tx[c], r, 1) /\ n = Cardinality(tx[c].events) /\ Loaded(r)
        /\ tx[c].resolutions = {} /\ 1 \in 1 .. Len(r.agents)
    <3>1. call[c].i = 1 /\ r.agents # <<>> /\ r.agents \in Seq(Agents)
      BY <2>1, <2>2 DEF Executing, At, Loaded
    <3>2. Len(r.agents) \in Nat /\ Len(r.agents) # 0
      BY <3>1
    <3> QED BY <2>2, <3>1, <3>2 DEF Executing, Progress, NewRun
  <2>4. tx' = [tx EXCEPT ![c] = T] /\ Return(c, a) /\ UNCHANGED <<db, faults>>
    BY <1>2 DEF RunSingle
  <2> DEFINE ran == WithRows(tx[c], RowsOfAgent(tx[c], r, 1))
  <2>5. /\ IsTables(ran) /\ ran.runs = tx[c].runs
        /\ ran.agentRuns = tx[c].agentRuns \cup rows.agentRuns
        /\ ran.cands = tx[c].cands \cup rows.cands
        /\ ran.events = tx[c].events \cup rows.events /\ ran.resolutions = tx[c].resolutions
    <3>1. RowsOfAgent(tx[c], r, 1) = rows
      BY <2>3 DEF RowsOfAgent
    <3> HIDE DEF rows
    <3> QED BY <3>1 DEF IsTables, WithRows
  <2> HIDE DEF ran
  <2>ran. AgentRow(r.key, b, ok) \in ran.agentRuns
    BY <2>5 DEF AgentRows
  <2>6. /\ Progress(ran, r, 2)
        /\ Cardinality(ran.events) = n + Cardinality(rows.events)
        /\ FailedIn(ran, r.key) = FailedIn(tx[c], r.key) \cup (IF ok THEN {} ELSE {b})
    <3>1. 1 + 1 = 2 /\ rows = RowsOfAgent(tx[c], r, 1)
      BY <2>3 DEF RowsOfAgent
    <3>2. AgentRan(tx[c], ran, r, 1)
      BY <2>3, AgentRuns DEF ran
    <3> HIDE DEF rows
    <3> QED BY <2>3, <3>1, <3>2 DEF AgentRan
  <2> HIDE DEF rows, ok
  <2>7. FailedIn(ran, r.key) = IF ok THEN {} ELSE {b}
    <3>1. FailedIn(tx[c], r.key) = {}
      BY <2>1, <2>2 DEF Executing, At, Progress, FailedIn, RanIn
    <3> QED BY <2>6, <3>1
  <2>8. /\ IsTables(ended) /\ ended.runs = ran.runs /\ ended.agentRuns = ran.agentRuns
        /\ ended.cands = ran.cands /\ ended.events = ran.events \cup F
        /\ ended.resolutions = ran.resolutions
    <3> HIDE DEF F
    <3>1. ended = [t \in {"runs", "agentRuns", "cands", "events", "resolutions"} |->
                         CASE t \in {"agentRuns", "cands"} -> tx[c][t] \cup rows[t]
                           [] t = "events" -> tx[c][t] \cup rows[t] \cup F
                           [] OTHER -> tx[c][t]]
      BY EmptyIs
    <3> HIDE DEF ended
    <3>2. /\ ended = [t \in {"runs", "agentRuns", "cands", "events", "resolutions"} |-> ended[t]]
          /\ ended.runs = tx[c].runs /\ ended.agentRuns = tx[c].agentRuns \cup rows.agentRuns
          /\ ended.cands = tx[c].cands \cup rows.cands
          /\ ended.events = tx[c].events \cup rows.events \cup F
          /\ ended.resolutions = tx[c].resolutions
      BY <3>1
    <3>3. IsTables(ended)
      BY <3>2 DEF IsTables
    <3> QED BY <2>5, <3>2, <3>3
  <2> HIDE DEF ended
  <2>9. /\ IsTables(T) /\ T.runs = {RunRow(r.key, r.kind, status)}
        /\ T.agentRuns = ran.agentRuns /\ T.cands = ran.cands
        /\ T.events = ran.events \cup F /\ T.resolutions = ran.resolutions
    <3>1. ended.runs = {RunRow(r.key, r.kind, "running")}
      BY <2>2, <2>5, <2>8
    <3> HIDE DEF status
    <3>2. /\ IsTables(T) /\ T.runs = {RunRow(r.key, r.kind, status)}
          /\ T.agentRuns = ended.agentRuns /\ T.cands = ended.cands
          /\ T.events = ended.events /\ T.resolutions = ended.resolutions
      BY <2>8, <3>1, SettleIs
    <3> QED BY <2>8, <3>2
  <2>10. ok \in BOOLEAN /\ (ok <=> FailedIn(ran, r.key) = {})
    <3>1. b \in Agents
      BY <2>3 DEF Loaded
    <3>2. ok \in BOOLEAN
      BY DEF ok, Invoke
    <3> QED BY <2>7, <3>2
  <2> HIDE DEF T
  <2>11. /\ NewRun(T, r, status) /\ Ended(T, r.key, status)
         /\ FailedIn(T, r.key) = FailedIn(ran, r.key)
    <3>1. T = EndOfRun(ran, r) /\ status = EndStatus(ran, r)
      BY <2>6, <2>9, <2>10, <2>3 DEF EndOfRun, EndStatus, IsTables
    <3>2. RunIs(EndOfRun(ran, r), r, EndStatus(ran, r), FailedIn(ran, r.key))
      <4> DEFINE two == 2
      <4>1. two \in Nat /\ two > 1 /\ Progress(ran, r, two)
        BY <2>6
      <4> HIDE DEF two
      <4> QED BY <2>2, <4>1, RunEnds
    <3> HIDE DEF status
    <3> QED BY <3>1, <3>2 DEF RunIs
  <2>12. /\ a.run = r.key /\ a.agent = b /\ a.error = ErrorOf(AgentRow(r.key, b, ok))
         /\ a.status = IF status = "completed" THEN "succeeded" ELSE "failed"
         /\ status \in {"completed", "failed"}
    BY <2>10
  <2> HIDE DEF a, status
  <2>13. SingleTold(T, a)
    <3>1. AgentRow(r.key, b, ok) \in RanIn(T, r.key) /\ AgentRow(r.key, b, ok).agent = b
      BY <2>9, <2>ran DEF RanIn, AgentRow
    <3> QED BY <2>12, <3>1 DEF SingleTold
  <2>14. r.kind = "single"
    BY <2>1, <2>2 DEF Executing, At
  <2> QED BY <2>1, <2>4, <2>11, <2>12, <2>13, <2>14, RunReturns
<1> QED BY <1>1, <1>2 DEF RunSingle

LEMMA PreflightIInv ==
  ASSUME IInv, NEW c \in Callers, Preflight(c)
  PROVE  IInv'
<1>1. CASE MultiOverBudget(call[c].req)
  BY <1>1, ExceededIInv DEF Preflight, At
<1>2. CASE ~MultiOverBudget(call[c].req)
  <2> DEFINE y == [call[c] EXCEPT !.pc = "agents"]
  <2>1. call[c].pc = "preflight" /\ call[c].pc \in Running
    BY DEF Preflight, At, Running
  <2>2. IsCall(call[c]) /\ IsRequest(call[c].req) /\ Executing(db, tx[c], call[c])
        /\ call[c].req.kind \in RunKinds
    BY <2>1, ExecutingOf
  <2>3. IsCall(y) /\ y.pc = "agents" /\ y.req = call[c].req /\ y.i = call[c].i
        /\ y.failed = call[c].failed /\ y.error = call[c].error /\ y.next = call[c].next
    BY <2>2, MoveOn
  <2>4. call' = [call EXCEPT ![c] = y] /\ UNCHANGED <<db, tx, answer, faults>>
    BY <1>2 DEF Preflight, Goto
  <2> HIDE DEF y
  <2>5. Executing(db, tx[c], y)
    BY <2>1, <2>2, <2>3 DEF Executing
  <2>6. Phase(db, tx[c], y, answer[c])
    BY <2>2, <2>3, <2>5, PhaseOf DEF Phase, Pcs, Running, Handling
  <2> QED BY <2>4, <2>6, QuietStep
<1> QED BY <1>1, <1>2

LEMMA RunAgentIInv ==
  ASSUME IInv, NEW c \in Callers, RunAgent(c)
  PROVE  IInv'
<1> DEFINE r == call[c].req
           i == call[c].i
           b == r.agents[i]
           rows == AgentRows(r, b, call[c].next)
           ok == Invoke(r, b).ok
           T == After(tx[c], rows)
           failed == call[c].failed \cup (IF ok THEN {} ELSE {b})
           error == IF ok \/ call[c].failed # {} THEN call[c].error ELSE b
           next == call[c].next + Cardinality(rows.events)
           y == [call[c] EXCEPT !.i = i + 1, !.next = next, !.failed = failed,
                              !.error = error]
<1>1. call[c].pc = "agents" /\ call[c].pc \in Running /\ i <= Len(r.agents)
  BY DEF RunAgent, At, Running
<1>2. /\ IsCall(call[c]) /\ IsRequest(r) /\ Executing(db, tx[c], call[c])
      /\ r.kind \in RunKinds /\ IsTables(tx[c])
      /\ tx[c].events # {} /\ \A e \in tx[c].events : e.run = r.key
  BY <1>1, ExecutingOf
<1>3. /\ Progress(tx[c], r, i) /\ call[c].next = Cardinality(tx[c].events) /\ Loaded(r)
      /\ tx[c].resolutions = {} /\ i \in 1 .. Len(r.agents) /\ Len(r.agents) \in Nat
      /\ call[c].failed = FailedIn(tx[c], r.key) /\ r.kind # "single"
      /\ call[c].error \in IF call[c].failed = {} THEN {"none"} ELSE call[c].failed
  BY <1>1, <1>2 DEF Executing, Loaded, Progress, NewRun
<1>4. tx' = [tx EXCEPT ![c] = T] /\ UNCHANGED <<db, answer, faults>>
  BY WriteIs DEF RunAgent
<1>5. call' = [call EXCEPT ![c] = y]
  BY DEF RunAgent
<1>6. DOMAIN rows = {"agentRuns", "cands", "events"}
  BY DEF AgentRows
<1> HIDE DEF rows, ok, failed, error, next
<1>7. /\ IsTables(T) /\ T.runs = tx[c].runs
      /\ T.agentRuns = tx[c].agentRuns \cup rows.agentRuns
      /\ T.cands = tx[c].cands \cup rows.cands
      /\ T.events = tx[c].events \cup rows.events /\ T.resolutions = tx[c].resolutions
  BY <1>6, AfterIs
<1>8. IsCall(y) /\ y.pc = "agents" /\ y.req = r /\ y.i = i + 1 /\ y.next = next
      /\ y.failed = failed /\ y.error = error
  <2>1. call[c] = [t \in Fields |-> call[c][t]]
    BY <1>2, CallIs
  <2> DEFINE j == i + 1
  <2> HIDE DEF j
  <2>2. y = [t \in Fields |-> IF t = "i" THEN j ELSE IF t = "next" THEN next
                               ELSE IF t = "failed" THEN failed
                               ELSE IF t = "error" THEN error ELSE call[c][t]]
    BY <2>1 DEF Fields, j
  <2> HIDE DEF y
  <2>3. y = [t \in Fields |-> y[t]]
    BY <2>2
  <2> QED BY <1>1, <2>2, <2>3, CallIs DEF Fields, j
<1> HIDE DEF T, y
<1>9. /\ Progress(T, r, i + 1)
      /\ Cardinality(T.events) = Cardinality(tx[c].events) + Cardinality(rows.events)
      /\ FailedIn(T, r.key) = FailedIn(tx[c], r.key) \cup (IF ok THEN {} ELSE {b})
  <2>1. rows = RowsOfAgent(tx[c], r, i)
    BY <1>3 DEF rows, RowsOfAgent
  <2>2. T = WithRows(tx[c], RowsOfAgent(tx[c], r, i))
    BY <1>7, <2>1 DEF WithRows, IsTables
  <2>3. AgentRan(tx[c], WithRows(tx[c], RowsOfAgent(tx[c], r, i)), r, i)
    BY <1>3, AgentRuns
  <2> QED BY <2>1, <2>2, <2>3 DEF AgentRan, ok
<1>10. Executing(db, T, y)
  <2>1. y.next = Cardinality(T.events) /\ y.failed = FailedIn(T, r.key)
    BY <1>3, <1>8, <1>9 DEF next, failed
  <2>2. i + 1 \in 1 .. Len(r.agents) + 1
    BY <1>3
  <2>3. r.key \notin Keys(db)
    BY <1>2 DEF Executing
  <2>4. y.error \in IF y.failed = {} THEN {"none"} ELSE y.failed
    BY <1>3, <1>8 DEF failed, error
  <2>5. y.pc # "single" /\ r.kind # "single"
    BY <1>3, <1>8
  <2> QED BY <1>3, <1>8, <1>9, <2>1, <2>2, <2>3, <2>4, <2>5 DEF Executing
<1>11. Phase(db, T, y, answer[c])
  BY <1>2, <1>8, <1>10, PhaseOf DEF Phase, Pcs, Running, Handling, Executing, Progress, NewRun
<1>12. \A d \in Callers \ {c} : Apart(T, tx[d])
  <2>1. \A e \in T.events : e.run = r.key
    BY <1>9 DEF Progress, NewRun, OfRuns
  <2> QED BY <1>2, <2>1, StaysApart
<1> QED BY <1>4, <1>5, <1>11, <1>12, WriteStep

LEMMA FinishRunIInv ==
  ASSUME IInv, NEW c \in Callers, FinishRun(c)
  PROVE  IInv'
<1> DEFINE r == call[c].req
           ok == call[c].failed = {}
           more == tx[c].events \cup (IF ok THEN {} ELSE {Failed(r.key, call[c].next)})
           ended == [tx[c] EXCEPT !.events = more]
           status == IF ok THEN "completed" ELSE "failed"
           T == Settle(ended, status)
           a == [status |-> IF ok THEN "succeeded" ELSE "failed", run |-> r.key,
                 agents |-> ToSet(r.agents), failed |-> call[c].failed,
                 error |-> call[c].error]
<1>1. call[c].pc \in Running /\ call[c].pc = "agents" /\ call[c].i > Len(r.agents)
  BY DEF FinishRun, At, Running
<1>2. Executing(db, tx[c], call[c]) /\ r.kind \in RunKinds /\ IsTables(tx[c])
      /\ tx[c].runs = {RunRow(r.key, r.kind, "running")}
  BY <1>1, ExecutingOf
<1>3. /\ Progress(tx[c], r, call[c].i) /\ call[c].next = Cardinality(tx[c].events)
      /\ tx[c].resolutions = {} /\ call[c].failed = FailedIn(tx[c], r.key)
      /\ call[c].i \in Nat /\ call[c].i > 1 /\ r.kind # "single"
      /\ call[c].error \in IF call[c].failed = {} THEN {"none"} ELSE call[c].failed
  <2>1. r.agents \in Seq(Agents) /\ r.agents # <<>> /\ call[c].i \in 1 .. Len(r.agents) + 1
    BY <1>2 DEF Executing, Loaded
  <2>2. Len(r.agents) \in Nat /\ Len(r.agents) # 0
    BY <2>1
  <2>3. call[c].i \in Nat /\ call[c].i > 1
    BY <1>1, <2>1, <2>2
  <2>4. /\ Progress(tx[c], r, call[c].i) /\ call[c].next = Cardinality(tx[c].events)
        /\ call[c].failed = FailedIn(tx[c], r.key) /\ r.kind # "single"
        /\ call[c].error \in IF call[c].failed = {} THEN {"none"} ELSE call[c].failed
    BY <1>1, <1>2 DEF Executing
  <2>5. tx[c].resolutions = {}
    BY <2>4 DEF Progress, NewRun
  <2> QED BY <2>3, <2>4, <2>5
<1>4. tx' = [tx EXCEPT ![c] = T] /\ Return(c, a) /\ UNCHANGED <<db, faults>>
  BY DEF FinishRun
<1>5. /\ IsTables(ended) /\ ended.runs = tx[c].runs /\ ended.agentRuns = tx[c].agentRuns
      /\ ended.cands = tx[c].cands /\ ended.events = more
      /\ ended.resolutions = tx[c].resolutions
  <2> HIDE DEF more
  <2> QED BY <1>2 DEF IsTables
<1>6. ok \in BOOLEAN /\ (ok <=> FailedIn(tx[c], r.key) = {})
  BY <1>3
<1>7. {m.agent : m \in RanIn(tx[c], r.key)} = ToSet(r.agents)
  <2>1. r.agents \in Seq(Agents) /\ call[c].i - 1 = Len(r.agents) /\ Len(r.agents) \in Nat
    BY <1>1, <1>2 DEF Executing, Loaded
  <2>2. ToSet(r.agents) = {r.agents[j] : j \in 1 .. Len(r.agents)}
    BY <2>1 DEF ToSet
  <2>3. \A m \in tx[c].agentRuns : m.run = r.key
    BY <1>3 DEF Progress, NewRun, OfRuns
  <2>4. /\ \A m \in tx[c].agentRuns : \E j \in 1 .. Len(r.agents) : m.agent = r.agents[j]
        /\ \A j \in 1 .. Len(r.agents) : \E m \in tx[c].agentRuns : m.agent = r.agents[j]
    BY <1>3, <2>1 DEF Progress
  <2> QED BY <2>2, <2>3, <2>4 DEF RanIn
<1> HIDE DEF ended, ok
<1>8. /\ IsTables(T) /\ T.runs = {RunRow(r.key, r.kind, status)}
      /\ T.agentRuns = tx[c].agentRuns /\ T.cands = tx[c].cands
      /\ T.events = more /\ T.resolutions = tx[c].resolutions
  BY <1>2, <1>5, SettleIs
<1> HIDE DEF T
<1>9. /\ NewRun(T, r, status) /\ Ended(T, r.key, status)
      /\ FailedIn(T, r.key) = FailedIn(tx[c], r.key)
  <2>1. T = EndOfRun(tx[c], r) /\ status = EndStatus(tx[c], r)
    BY <1>3, <1>6, <1>8 DEF EndOfRun, EndStatus, IsTables
  <2>2. RunIs(EndOfRun(tx[c], r), r, EndStatus(tx[c], r), FailedIn(tx[c], r.key))
    BY <1>2, <1>3, RunEnds
  <2> HIDE DEF status
  <2> QED BY <2>1, <2>2 DEF RunIs
<1>10. /\ a.run = r.key /\ a.agents = ToSet(r.agents) /\ a.failed = call[c].failed
       /\ a.error = call[c].error
       /\ a.status = IF status = "completed" THEN "succeeded" ELSE "failed"
       /\ status \in {"completed", "failed"} /\ (status = "failed" <=> call[c].failed # {})
  BY DEF ok
<1> HIDE DEF a, status
<1>11. MultiTold(T, a)
  <2>1. RanIn(T, r.key) = RanIn(tx[c], r.key)
    BY <1>8 DEF RanIn
  <2>2. FailedIn(T, r.key) = call[c].failed
    BY <1>3, <1>9
  <2> QED BY <1>3, <1>7, <1>10, <2>1, <2>2 DEF MultiTold
<1> QED BY <1>1, <1>3, <1>4, <1>9, <1>10, <1>11, RunReturns
-----------------------------------------------------------------------------
(* A pass                                                                  *)

LEMMA BeginPassIInv ==
  ASSUME IInv, NEW c \in Callers, BeginPass(c)
  PROVE  IInv'
<1> DEFINE r == call[c].req
           k == r.run
<1>1. /\ IsCall(call[c]) /\ IsRequest(r) /\ tx[c] = Empty /\ r.kind = "pass"
      /\ call[c].outcomes = {} /\ call[c].pc = "pass"
  BY HasCall, PhaseOf DEF BeginPass, At, Phase
<1>2. Sees(c) = db
  BY <1>1, SeesNothingElse, PhaseOf DEF Typed
<1>3. CASE ValidPass(r) /\ RunIn(db, k) # {}
  <2>1. PICK order \in InOrder(db, r) :
          call' = [call EXCEPT ![c].pc = "candidate", ![c].todo = order,
                               ![c].next = NextSequenceNo(db, k)]
    BY <1>2, <1>3 DEF BeginPass
  <2>2. UNCHANGED <<db, tx, answer, faults>>
    BY <1>2, <1>3 DEF BeginPass
  <2>3. PICK x \in db.runs : x.key = k
    BY <1>3 DEF RunIn
  <2>4. k \in Keys(db) /\ Size(db, k) \in Nat /\ Numbered(LogOf(db, k), 0, Size(db, k))
    BY <2>3, PhaseOf DEF Keys, Committed
  <2>5. NextSequenceNo(db, k) = Size(db, k)
    BY <2>4, NextIsSize
  <2>6. order \in Seq(InRun(db, k))
    <3> DEFINE S == InScope(db, r)
    <3>1. IsFiniteSet(S)
      <4>1. IsFiniteSet(db.cands) /\ S \subseteq db.cands
        BY PhaseOf DEF Typed, InScope
      <4> QED BY <4>1, FS_Subset
    <3>2. Cardinality(S) \in Nat
      BY <3>1, FS_CardinalityType
    <3>3. order \in [1 .. Cardinality(S) -> S] /\ S \subseteq InRun(db, k)
      BY DEF InOrder, InScope, InRun
    <3> HIDE DEF S
    <3> QED BY <3>2, <3>3
  <2> DEFINE n == Size(db, k)
             y == [call[c] EXCEPT !.pc = "candidate", !.todo = order, !.next = n]
  <2>7. call' = [call EXCEPT ![c] = y]
    BY <2>1, <2>5
  <2> HIDE DEF n
  <2>8. IsCall(y) /\ y.pc = "candidate" /\ y.req = r /\ y.todo = order /\ y.next = n
        /\ y.outcomes = {}
    <3>1. call[c] = [t \in Fields |-> call[c][t]]
      BY <1>1, CallIs
    <3>2. y = [t \in Fields |-> IF t = "pc" THEN "candidate" ELSE IF t = "todo" THEN order
                                ELSE IF t = "next" THEN n ELSE call[c][t]]
      BY <3>1 DEF Fields
    <3> HIDE DEF y
    <3>3. y = [t \in Fields |-> y[t]]
      BY <3>2
    <3> QED BY <1>1, <3>2, <3>3, CallIs DEF Fields
  <2> HIDE DEF y
  <2>9. Resolving(db, Empty, y)
    <3>1. PassRows(db, Empty, y)
      BY <1>1, <2>4, <2>8, EmptyIs DEF PassRows
    <3>2. PassNumbers(db, Empty, y)
      BY <2>4, <2>8, EmptyIs DEF PassNumbers, n
    <3>3. Triples(Empty, y)
      BY EmptyIs DEF Triples
    <3> QED BY <2>6, <2>8, <3>1, <3>2, <3>3 DEF Resolving, OutcomesKept
  <2>10. Phase(db, tx[c], y, answer[c])
    BY <1>1, <2>8, <2>9, PhaseOf DEF Phase, Pcs, Running, Handling
  <2> QED BY <2>2, <2>7, <2>10, QuietStep
<1>4. CASE ~(ValidPass(r) /\ RunIn(db, k) # {})
  BY <1>1, <1>2, <1>4, RefusedIInv DEF BeginPass
<1> QED BY <1>3, <1>4

\* What holds of a caller that resolves sources.
LEMMA ResolvingOf ==
  ASSUME IInv, NEW c \in Callers, call[c].pc \in {"candidate"} \cup Handling
  PROVE  /\ IsCall(call[c]) /\ IsRequest(call[c].req) /\ Resolving(db, tx[c], call[c])
         /\ call[c].req.kind = "pass" /\ call[c].req.run \in Keys(db)
         /\ call[c].todo \in Seq(InRun(db, call[c].req.run))
         /\ Current(c) = First(call[c])
<1>1. IsCall(call[c]) /\ IsRequest(call[c].req)
  BY HasCall DEF Handling
<1>2. Resolving(db, tx[c], call[c])
  BY PhaseOf DEF Phase
<1> QED BY <1>1, <1>2 DEF Resolving, PassRows, Current, First

\* The candidate at hand is a committed one of the run.
LEMMA FirstIs ==
  ASSUME IInv, NEW c \in Callers, call[c].pc \in {"candidate"} \cup Handling,
         call[c].todo # <<>>
  PROVE  /\ Current(c) \in db.cands /\ Current(c).run = call[c].req.run
         /\ Current(c) = First(call[c])
         /\ Tail(call[c].todo) \in Seq(InRun(db, call[c].req.run))
<1> DEFINE S == InRun(db, call[c].req.run)
<1>1. call[c].todo \in Seq(S)
  BY ResolvingOf
<1> HIDE DEF S
<1>2. call[c].todo[1] \in S /\ Tail(call[c].todo) \in Seq(S)
  BY <1>1
<1> QED BY <1>2 DEF S, InRun, Current, First

\* A pass that moves on with what it has written.
LEMMA ResolvingMoves ==
  ASSUME NEW D, NEW T, NEW x, NEW y, Resolving(D, T, x), y.req = x.req, y.next = x.next,
         Triples(T, y), y.todo \in Seq(InRun(D, x.req.run)),
         OutcomesKept(D.resolutions \cup T.resolutions, x.req.key, y.outcomes)
  PROVE  Resolving(D, T, y)
BY DEF Resolving, PassRows, PassNumbers

\* With no candidate at hand, all it has written is complete.
LEMMA TriplesMove ==
  ASSUME NEW T, NEW x, NEW y, Triples(T, x), x.pc = "candidate",
         y.pc \in {"candidate", "started", "commit"}
  PROVE  Triples(T, y)
BY DEF Triples

LEMMA ReplayCandidateIInv ==
  ASSUME IInv, NEW c \in Callers, ReplayCandidate(c)
  PROVE  IInv'
<1> DEFINE x == call[c]
<1>1. call[c].pc = "candidate" /\ call[c].todo # <<>>
  BY DEF ReplayCandidate, AtCandidate, At
<1>2. /\ IsCall(x) /\ IsRequest(x.req) /\ Resolving(db, tx[c], x) /\ x.req.kind = "pass"
      /\ Tail(x.todo) \in Seq(InRun(db, x.req.run))
  BY <1>1, ResolvingOf, FirstIs
<1>3. PICK s \in Own(Sees(c), c) :
        call' = [call EXCEPT ![c].todo = Tail(@),
                   ![c].outcomes = @ \cup {[cand |-> s.cand, outcome |-> s.outcome]}]
  BY DEF ReplayCandidate
<1>4. s \in db.resolutions \cup tx[c].resolutions /\ s.key = x.req.key
  BY ViewIs, PhaseOf DEF Own
<1> DEFINE rest == Tail(x.todo)
           o == [cand |-> s.cand, outcome |-> s.outcome]
           told == x.outcomes \cup {o}
           y == [x EXCEPT !.todo = rest, !.outcomes = told]
<1>5. call' = [call EXCEPT ![c] = y] /\ UNCHANGED <<db, tx, answer, faults>>
  BY <1>3 DEF ReplayCandidate
<1>6. o.cand = s.cand /\ o.outcome = s.outcome
  OBVIOUS
<1> HIDE DEF rest, told, o
<1>7. IsCall(y) /\ y.pc = "candidate" /\ y.req = x.req /\ y.todo = rest /\ y.next = x.next
      /\ y.outcomes = told
  <2>1. x = [t \in Fields |-> x[t]]
    BY <1>2, CallIs
  <2>2. y = [t \in Fields |-> IF t = "todo" THEN rest ELSE IF t = "outcomes" THEN told ELSE x[t]]
    BY <2>1 DEF Fields
  <2> HIDE DEF y
  <2>3. y = [t \in Fields |-> y[t]]
    BY <2>2
  <2> QED BY <1>1, <2>2, <2>3, CallIs DEF Fields
<1> HIDE DEF y
<1>8. OutcomesKept(db.resolutions \cup tx[c].resolutions, x.req.key, told)
  BY <1>2, <1>4, <1>6 DEF Resolving, OutcomesKept, told
<1>9. Triples(tx[c], y)
  BY <1>1, <1>2, <1>7, TriplesMove DEF Resolving
<1>10. Resolving(db, tx[c], y)
  BY <1>2, <1>7, <1>8, <1>9, ResolvingMoves DEF rest
<1>11. Phase(db, tx[c], y, answer[c])
  BY <1>2, <1>7, <1>10, PhaseOf DEF Phase, Pcs, Running, Handling
<1> QED BY <1>5, <1>11, QuietStep

LEMMA SkipCandidateIInv ==
  ASSUME IInv, NEW c \in Callers, SkipCandidate(c)
  PROVE  IInv'
<1> DEFINE x == call[c]
           rest == Tail(x.todo)
           y == [x EXCEPT !.todo = rest]
<1>1. call[c].pc = "candidate" /\ call[c].todo # <<>>
  BY DEF SkipCandidate, AtCandidate, At
<1>2. /\ IsCall(x) /\ IsRequest(x.req) /\ Resolving(db, tx[c], x) /\ x.req.kind = "pass"
      /\ rest \in Seq(InRun(db, x.req.run))
  BY <1>1, ResolvingOf, FirstIs
<1>3. call' = [call EXCEPT ![c] = y] /\ UNCHANGED <<db, tx, answer, faults>>
  BY DEF SkipCandidate
<1> HIDE DEF rest
<1>4. IsCall(y) /\ y.pc = "candidate" /\ y.req = x.req /\ y.todo = rest /\ y.next = x.next
      /\ y.outcomes = x.outcomes
  BY <1>1, <1>2 DEF IsCall
<1> HIDE DEF y
<1>5. Triples(tx[c], y)
  BY <1>1, <1>2, <1>4, TriplesMove DEF Resolving
<1>6. Resolving(db, tx[c], y)
  <2>1. OutcomesKept(db.resolutions \cup tx[c].resolutions, x.req.key, y.outcomes)
    BY <1>2, <1>4 DEF Resolving
  <2> QED BY <1>2, <1>4, <1>5, <2>1, ResolvingMoves
<1>7. Phase(db, tx[c], y, answer[c])
  BY <1>2, <1>4, <1>6, PhaseOf DEF Phase, Pcs, Running, Handling
<1> QED BY <1>3, <1>7, QuietStep

\* What a pass takes on is eligible in the committed tables: nothing it has
\* written itself is about the candidate.
LEMMA TakeCandidateIInv ==
  ASSUME IInv, NEW c \in Callers, TakeCandidate(c)
  PROVE  IInv'
<1> DEFINE x == call[c]
           d == Current(c)
           h == x.handled + 1
           y == [x EXCEPT !.pc = "started", !.handled = h]
<1>1. call[c].pc = "candidate" /\ call[c].todo # <<>> /\ Own(Sees(c), c) = {} /\ Eligible(c)
  BY DEF TakeCandidate, AtCandidate, At
<1>2. /\ IsCall(x) /\ IsRequest(x.req) /\ Resolving(db, tx[c], x) /\ x.req.kind = "pass"
      /\ x.todo \in Seq(InRun(db, x.req.run)) /\ d = First(x)
  BY <1>1, ResolvingOf
<1>3. call' = [call EXCEPT ![c] = y] /\ UNCHANGED <<db, tx, answer, faults>>
  BY DEF TakeCandidate
<1> HIDE DEF h
<1>4. IsCall(y) /\ y.pc = "started" /\ y.req = x.req /\ y.todo = x.todo /\ y.next = x.next
      /\ y.outcomes = x.outcomes
  <2>1. x = [t \in Fields |-> x[t]]
    BY <1>2, CallIs
  <2>2. y = [t \in Fields |-> IF t = "pc" THEN "started" ELSE IF t = "handled" THEN h ELSE x[t]]
    BY <2>1 DEF Fields
  <2> HIDE DEF y
  <2>3. y = [t \in Fields |-> y[t]]
    BY <2>2
  <2> QED BY <2>2, <2>3, CallIs DEF Fields
<1>5. Sees(c).resolutions = db.resolutions \cup tx[c].resolutions
  BY ViewIs, PhaseOf
<1>6. \A s \in tx[c].resolutions : s.cand # d
  BY <1>1, <1>2, <1>5 DEF Own, Resolving, PassRows
<1>7. DerivedState(db, d) \in x.req.eligible
  <2>1. \A s \in db.resolutions : s.cand = d => s.outcome = Classify(d)
    BY PhaseOf DEF Committed
  <2>2. \A s \in Sees(c).resolutions : s.cand = d => s.outcome = Classify(d)
    BY <1>5, <1>6, <2>1
  <2>3. DerivedState(db, d) = StateOf(db.resolutions, d)
    BY <2>1, DerivedIs
  <2>4. DerivedState(Sees(c), d) = StateOf(Sees(c).resolutions, d)
    BY <2>2, DerivedIs
  <2>5. DerivedState(Sees(c), d) = DerivedState(db, d)
    BY <1>5, <1>6, <2>3, <2>4 DEF StateOf
  <2> QED BY <1>1, <2>5 DEF Eligible
<1> HIDE DEF y
<1>8. Triples(tx[c], y)
  BY <1>1, <1>2, <1>4, TriplesMove DEF Resolving
<1>9. Resolving(db, tx[c], y)
  <2>1. OutcomesKept(db.resolutions \cup tx[c].resolutions, x.req.key, y.outcomes)
    BY <1>2, <1>4 DEF Resolving
  <2> QED BY <1>2, <1>4, <1>8, <2>1, ResolvingMoves
<1>10. AtHand(db, tx[c], y)
  <2>1. First(y) = d
    BY <1>2, <1>4 DEF First
  <2> QED BY <1>1, <1>4, <1>6, <1>7, <2>1 DEF AtHand
<1>11. Phase(db, tx[c], y, answer[c])
  BY <1>2, <1>4, <1>9, <1>10, PhaseOf DEF Phase, Pcs, Running, Handling
<1> QED BY <1>3, <1>11, QuietStep

\* The end of a pass: all it has written is complete.
LEMMA EndPassIInv ==
  ASSUME IInv, NEW c \in Callers, EndPass(c)
  PROVE  IInv'
<1> DEFINE x == call[c]
           y == [x EXCEPT !.pc = "commit"]
           a == [status |-> "succeeded", run |-> x.req.run,
                 outcomes |-> x.outcomes]
<1>1. x.pc = "candidate" /\ Return(c, a) /\ UNCHANGED <<db, tx, faults>>
  BY DEF EndPass, At
<1>2. IsCall(x) /\ IsRequest(x.req) /\ Resolving(db, tx[c], x) /\ x.req.kind = "pass"
      /\ x.req.run \in Keys(db)
  BY <1>1, ResolvingOf
<1>3. IsCall(y) /\ y.pc = "commit" /\ y.req = x.req /\ y.next = x.next
  BY <1>2, MoveOn
<1>4. a.status = "succeeded" /\ a.run = x.req.run /\ a.outcomes = x.outcomes
  OBVIOUS
<1> HIDE DEF y, a
<1>5. Triples(tx[c], y)
  BY <1>1, <1>2, <1>3, TriplesMove DEF Resolving
<1>6. PassDone(db, tx[c], y, a)
  BY <1>2, <1>3, <1>4, <1>5 DEF PassDone, PassTold, Resolving, PassRows, PassNumbers
<1>7. Phase(db, tx[c], y, a)
  BY <1>2, <1>3, <1>4, <1>6, PhaseOf DEF Phase, Pcs, Running, Handling
<1> QED BY <1>1, <1>7, ReturnStep DEF y

\* The event at hand.
LEMMA PassEventIs ==
  ASSUME IInv, NEW c \in Callers, call[c].pc \in {"started", "completed"}
  PROVE  LET e == PassEvent(c) IN
         /\ e.run = call[c].req.run /\ e.no = call[c].next /\ e.key = call[c].req.key
         /\ e.of = Name(Current(c))
         /\ e.type = IF call[c].pc = "started" THEN "source_resolution_started"
                                                ELSE "source_resolution_completed"
BY DEF PassEvent, Event, PassEventType

\* A pass with uncommitted events has one with the next number of the log.
LEMMA HoldsNext ==
  ASSUME IInv, NEW c \in Callers, NEW f \in tx[c].events, f.run \in Keys(db)
  PROVE  \E g \in tx[c].events : g.run = f.run /\ g.no = Size(db, f.run)
<1> DEFINE x == call[c]
<1>1. Phase(db, tx[c], x, answer[c])
  BY PhaseOf
<1>2. tx[c] # Empty
  BY EmptyIs
<1>3. \A status : ~(NewRun(tx[c], x.req, status) /\ x.req.key \notin Keys(db))
  BY DEF NewRun, OfRuns
<1>4. PassRows(db, tx[c], x) /\ PassNumbers(db, tx[c], x)
  BY <1>1, <1>2, <1>3
  DEF Phase, Pcs, Running, Handling, Executing, Progress, Resolving, RunDone, PassDone
<1>5. f.run = x.req.run /\ \A g \in tx[c].events : g.run = x.req.run
  BY <1>4 DEF PassRows
<1>6. Size(db, f.run) \in Nat
  BY PhaseOf DEF Keys, Committed
<1>7. x.next \in Nat /\ Size(db, f.run) < x.next /\ Numbered(tx[c].events, Size(db, f.run), x.next)
  BY <1>4, <1>5 DEF PassNumbers
<1>8. Size(db, f.run) \in Size(db, f.run) .. x.next - 1
  BY <1>6, <1>7
<1>9. PICK g \in tx[c].events : g.no = Size(db, f.run)
  BY <1>7, <1>8 DEF Numbered
<1> QED BY <1>5, <1>9

\* The number a new event takes is free only if it continues the log.
LEMMA NextIsFree ==
  ASSUME IInv, NEW c \in Callers, call[c].pc = "started", ~EventTaken(c), tx[c].events = {}
  PROVE  call[c].next = Size(db, call[c].req.run)
<1> DEFINE k == call[c].req.run
           n == call[c].next
<1>1. Resolving(db, tx[c], call[c]) /\ k \in Keys(db)
  BY ResolvingOf DEF Handling
<1>2. n \in Nat /\ n <= Size(db, k)
  BY <1>1 DEF Resolving, PassNumbers
<1>3. Size(db, k) \in Nat /\ Numbered(LogOf(db, k), 0, Size(db, k))
  BY <1>1, PhaseOf DEF Keys, Committed
<1>4. \A f \in LogOf(db, k) : f.no # n
  <2>1. db.events \subseteq Sees(c).events
    BY ViewIs, PhaseOf
  <2>2. PassEvent(c).run = k /\ PassEvent(c).no = n
    BY PassEventIs
  <2> QED BY <2>1, <2>2 DEF LogOf, EventTaken, EventClash
<1>5. n \notin 0 .. Size(db, k) - 1
  BY <1>3, <1>4 DEF Numbered
<1> QED BY <1>2, <1>3, <1>5

\* A known started event has its resolution, committed under the same key.
LEMMA KnownIIInv ==
  ASSUME IInv, NEW c \in Callers, At(c, "started"), EventKnown(c), Goto(c, "resolution"),
         UNCHANGED <<db, tx, answer, faults>>
  PROVE  IInv'
<1> DEFINE x == call[c]
           d == First(x)
           k == x.req.run
           y == [x EXCEPT !.pc = "resolution"]
<1>1. x.pc = "started" /\ x.pc \in Handling
  BY DEF At, Handling
<1>2. /\ IsCall(x) /\ IsRequest(x.req) /\ Resolving(db, tx[c], x) /\ x.req.kind = "pass"
      /\ x.todo \in Seq(InRun(db, k))
  BY <1>1, ResolvingOf
<1>3. AtHand(db, tx[c], x)
  BY <1>1, PhaseOf DEF Phase
<1>4. d \in db.cands /\ d.run = k /\ Current(c) = d
  BY <1>1, <1>3, FirstIs DEF AtHand
<1>5. call' = [call EXCEPT ![c] = y]
  BY DEF Goto
<1>6. IsCall(y) /\ y.pc = "resolution" /\ y.req = x.req /\ y.todo = x.todo /\ y.next = x.next
      /\ y.outcomes = x.outcomes /\ First(y) = d
  BY <1>2, MoveOn DEF First
<1>7. PICK f \in Sees(c).events :
        f.run = k /\ f.type = "source_resolution_started" /\ f.key = x.req.key /\ f.of = Name(d)
  BY <1>1, <1>4, PassEventIs DEF EventKnown, SameEvent
<1>8. f \in db.events \/ f \in tx[c].events
  BY ViewIs, PhaseOf
<1> HIDE DEF y
<1>9. \A s : s.cand \in db.cands /\ s.cand.run = k /\ Name(s.cand) = Name(d) => s.cand = d
  BY <1>4, PhaseOf DEF Committed, Distinct
<1>10. f \notin tx[c].events
  <2> SUFFICES ASSUME f \in tx[c].events
               PROVE  FALSE
    OBVIOUS
  <2>1. PICK s \in tx[c].resolutions : Name(s.cand) = Name(d)
    BY <1>1, <1>2, <1>7 DEF Resolving, Triples
  <2>2. s.cand = d
    BY <1>2, <1>9, <2>1 DEF Resolving, PassRows
  <2> QED BY <1>1, <1>3, <2>2 DEF AtHand
<1>11. \E s \in db.resolutions : s.cand = d /\ s.key = x.req.key
  <2>1. PICK s \in db.resolutions : s.cand.run = k /\ Name(s.cand) = Name(d) /\ s.key = x.req.key
    BY <1>7, <1>8, <1>10, PhaseOf DEF Committed
  <2>2. s.cand \in db.cands
    BY PhaseOf DEF Committed
  <2> QED BY <1>9, <2>1, <2>2
<1>12. AtHand(db, tx[c], y)
  BY <1>1, <1>3, <1>6, <1>11 DEF AtHand
<1>13. Triples(tx[c], y)
  BY <1>1, <1>2, <1>6 DEF Resolving, Triples
<1>14. Resolving(db, tx[c], y)
  <2>1. OutcomesKept(db.resolutions \cup tx[c].resolutions, x.req.key, y.outcomes)
    BY <1>2, <1>6 DEF Resolving
  <2> QED BY <1>2, <1>6, <1>13, <2>1, ResolvingMoves
<1>15. Phase(db, tx[c], y, answer[c])
  BY <1>2, <1>6, <1>12, <1>14, PhaseOf DEF Phase, Pcs, Running, Handling
<1> QED BY <1>5, <1>15, QuietStep

LEMMA EventWritten ==
  ASSUME NEW T, NEW e
  PROVE  LET U == After(T, [events |-> {e}]) IN
         /\ IsTables(U) /\ U.runs = T.runs /\ U.agentRuns = T.agentRuns
         /\ U.cands = T.cands /\ U.events = T.events \cup {e}
         /\ U.resolutions = T.resolutions
<1> DEFINE rows == [events |-> {e}]
<1>1. DOMAIN rows = {"events"} /\ rows.events = {e}
  OBVIOUS
<1> HIDE DEF rows
<1>2. LET U == After(T, rows) IN
      /\ IsTables(U) /\ U.runs = T.runs /\ U.agentRuns = T.agentRuns
      /\ U.cands = T.cands /\ U.events = T.events \cup {e}
      /\ U.resolutions = T.resolutions
  BY <1>1, AfterIs
<1> QED BY <1>2 DEF rows

LEMMA PassRowsMore ==
  ASSUME NEW D, NEW T, NEW U, NEW x, NEW y, NEW e, PassRows(D, T, x), y.req = x.req, Typed(U),
         U.runs = T.runs, U.agentRuns = T.agentRuns, U.cands = T.cands,
         U.events = T.events \cup {e}, U.resolutions = T.resolutions,
         e.run = x.req.run, e.key = x.req.key,
         e.type \in {"source_resolution_started", "source_resolution_completed"}
  PROVE  PassRows(D, U, y)
BY DEF PassRows

\* An event that c appends to the log it continues.
LEMMA EventAdded ==
  ASSUME IInv, NEW c \in Callers, call[c].pc \in {"started", "completed"}, 
         tx[c].events # {} \/ call[c].next = Size(db, call[c].req.run),
         NEW T, T = After(tx[c], [events |-> {PassEvent(c)}]),
         NEW y, y.req = call[c].req, y.next = call[c].next + 1
  PROVE  /\ PassRows(db, T, y) /\ PassNumbers(db, T, y)
         /\ T.events = tx[c].events \cup {PassEvent(c)} /\ T.resolutions = tx[c].resolutions
         /\ \A e \in tx[c].events : e.no < PassEvent(c).no
<1> DEFINE x == call[c]
           k == x.req.run
           e == PassEvent(c)
           n == x.next
<1>1. Resolving(db, tx[c], x) /\ k \in Keys(db)
  BY ResolvingOf DEF Handling
<1>2. PassRows(db, tx[c], x) /\ PassNumbers(db, tx[c], x)
  BY <1>1 DEF Resolving
<1>3. /\ e.run = k /\ e.no = n /\ e.key = x.req.key
      /\ e.type \in {"source_resolution_started", "source_resolution_completed"}
  BY PassEventIs
<1> HIDE DEF e
<1>4. /\ IsTables(T) /\ T.runs = tx[c].runs /\ T.agentRuns = tx[c].agentRuns
      /\ T.cands = tx[c].cands /\ T.events = tx[c].events \cup {e}
      /\ T.resolutions = tx[c].resolutions
  BY EventWritten DEF e
<1>5. n \in Nat /\ Size(db, k) \in Nat
  BY <1>1, <1>2, PhaseOf DEF PassNumbers, Keys, Committed
<1>6. PassRows(db, T, y)
  <2>1. Typed(T)
    BY <1>2, <1>3, <1>4, <1>5 DEF PassRows, Typed, EventTypes
  <2>2. PassRows(db, tx[c], x) /\ y.req = x.req
    BY <1>2
  <2> HIDE DEF x, n
  <2> QED BY <1>3, <1>4, <2>1, <2>2, PassRowsMore
<1>7. Size(db, k) <= n /\ Numbered(tx[c].events, Size(db, k), n)
  <2>1. CASE tx[c].events # {}
    BY <1>2, <1>5, <2>1 DEF PassNumbers
  <2>2. CASE tx[c].events = {}
    BY <1>5, <2>2 DEF Numbered
  <2> QED BY <2>1, <2>2
<1>8. Numbered(T.events, Size(db, k), n + 1)
  <2>1. Numbered({e}, n, n + 1)
    BY <1>3, <1>5, NumberedOne
  <2>2. n + 1 \in Nat /\ n <= n + 1
    BY <1>5
  <2>3. Numbered(tx[c].events \cup {e}, Size(db, k), n + 1)
    <3> DEFINE m == Size(db, k)
               p == n + 1
    <3>1. m \in Nat /\ p \in Nat /\ m <= n /\ n <= p
          /\ Numbered(tx[c].events, m, n) /\ Numbered({e}, n, p)
      BY <1>5, <1>7, <2>1, <2>2
    <3> HIDE DEF m, p, n
    <3>2. n \in Nat
      BY <1>5
    <3>3. Numbered(tx[c].events \cup {e}, m, p)
      BY <3>1, <3>2, NumberedJoin
    <3> QED BY <3>3 DEF m, p
  <2> QED BY <1>4, <2>3
<1>9. PassNumbers(db, T, y)
  <2>1. y.req.run = k /\ y.next = n + 1 /\ n + 1 \in Nat /\ Size(db, k) < n + 1
    BY <1>5, <1>7
  <2>2. T.events # {}
    BY <1>4
  <2> HIDE DEF n, k
  <2> QED BY <1>8, <2>1, <2>2 DEF PassNumbers
<1>10. \A f \in tx[c].events : f.no < n
  BY <1>5, <1>7 DEF Numbered
<1> QED BY <1>3, <1>4, <1>6, <1>9, <1>10 DEF e

\* The started event is new: nobody has committed an event of the run since
\* the pass read the log, and nobody else has one to commit.
LEMMA StartNewIInv ==
  ASSUME IInv, NEW c \in Callers, At(c, "started"), ~EventHeld(c), ~EventTaken(c),
         Write(c, [events |-> {PassEvent(c)}]),
         call' = [call EXCEPT ![c].pc = "resolution", ![c].next = @ + 1],
         UNCHANGED <<db, answer, faults>>
  PROVE  IInv'
<1> DEFINE x == call[c]
           d == First(x)
           k == x.req.run
           n == x.next + 1
           e == PassEvent(c)
           T == After(tx[c], [events |-> {e}])
           y == [x EXCEPT !.pc = "resolution", !.next = n]
<1>1. x.pc = "started" /\ x.pc \in Handling
  BY DEF At, Handling
<1>2. /\ IsCall(x) /\ IsRequest(x.req) /\ Resolving(db, tx[c], x) /\ x.req.kind = "pass"
      /\ x.todo \in Seq(InRun(db, k)) /\ k \in Keys(db)
  BY <1>1, ResolvingOf
<1>3. AtHand(db, tx[c], x)
  BY <1>1, PhaseOf DEF Phase
<1>4. Current(c) = d
  BY <1>1, ResolvingOf
<1>5. tx' = [tx EXCEPT ![c] = T] /\ call' = [call EXCEPT ![c] = y]
  BY WriteIs
<1> HIDE DEF n
<1>6. IsCall(y) /\ y.pc = "resolution" /\ y.req = x.req /\ y.todo = x.todo /\ y.next = n
      /\ y.outcomes = x.outcomes /\ First(y) = d
  <2>1. x = [t \in Fields |-> x[t]]
    BY <1>2, CallIs
  <2>2. y = [t \in Fields |-> IF t = "pc" THEN "resolution" ELSE IF t = "next" THEN n ELSE x[t]]
    BY <2>1 DEF Fields
  <2> HIDE DEF y
  <2>3. y = [t \in Fields |-> y[t]]
    BY <2>2
  <2> QED BY <2>2, <2>3, CallIs DEF Fields, First
<1> HIDE DEF y
<1>7. /\ e.run = k /\ e.no = x.next /\ e.key = x.req.key /\ e.of = Name(d)
      /\ e.type = "source_resolution_started"
  BY <1>1, <1>4, PassEventIs
<1>8. tx[c].events # {} \/ x.next = Size(db, k)
  BY <1>1, NextIsFree
<1>9. /\ PassRows(db, T, y) /\ PassNumbers(db, T, y)
      /\ T.events = tx[c].events \cup {e} /\ T.resolutions = tx[c].resolutions
  BY <1>1, <1>6, <1>8, EventAdded DEF n
<1> HIDE DEF T, e
<1>10. Triples(T, y)
  <2>1. \A s \in T.resolutions : ResolutionTold(T, s)
    <3>1. \A s \in tx[c].resolutions : ResolutionTold(tx[c], s)
      BY <1>1, <1>2 DEF Resolving, Triples
    <3> QED BY <1>9, <3>1, ToldMore
  <2>2. \A f \in tx[c].events : f.type = "source_resolution_started" =>
          \E s \in T.resolutions : Name(s.cand) = f.of
    BY <1>1, <1>2, <1>9 DEF Resolving, Triples
  <2> QED BY <1>6, <1>7, <1>9, <2>1, <2>2 DEF Triples
<1>11. Resolving(db, T, y)
  BY <1>2, <1>6, <1>9, <1>10 DEF Resolving
<1>12. AtHand(db, T, y)
  <2>1. StartedHere(T, y)
    BY <1>6, <1>7, <1>9 DEF StartedHere
  <2>2. DerivedState(db, d) \in x.req.eligible
    BY <1>1, <1>3, <1>8 DEF AtHand
  <2>3. \A s \in T.resolutions : s.cand # d
    BY <1>1, <1>3, <1>9 DEF AtHand
  <2> QED BY <1>3, <1>6, <2>1, <2>2, <2>3 DEF AtHand
<1>13. Phase(db, T, y, answer[c])
  BY <1>2, <1>6, <1>9, <1>11, <1>12, PhaseOf DEF Phase, Pcs, Running, Handling, PassRows
<1>14. \A o \in Callers \ {c} : Apart(T, tx[o])
  <2> SUFFICES ASSUME NEW o \in Callers \ {c}, NEW f \in tx[o].events, f.run = k
               PROVE  FALSE
    BY <1>9 DEF Apart, PassRows, y
  <2>1. CASE tx[c].events # {}
    BY <1>2, <2>1, PhaseOf DEF Apart, Resolving, PassRows
  <2>2. CASE x.next = Size(db, k)
    <3>1. PICK g \in tx[o].events : g.run = k /\ g.no = Size(db, k)
      BY <1>2, HoldsNext
    <3> QED BY <1>7, <2>2, <3>1 DEF EventHeld, Uncommitted, EventClash, e
  <2> QED BY <1>8, <2>1, <2>2
<1> QED BY <1>5, <1>13, <1>14, WriteStep

LEMMA StartResolutionIInv ==
  ASSUME IInv, NEW c \in Callers, StartResolution(c)
  PROVE  IInv'
BY KnownIIInv, StartNewIInv DEF StartResolution

LEMMA InsertResolutionIInv ==
  ASSUME IInv, NEW c \in Callers, InsertResolution(c)
  PROVE  IInv'
<1> DEFINE x == call[c]
           d == First(x)
           k == x.req.run
           s == NewResolution(c)
           rows == [resolutions |-> {s}]
           T == After(tx[c], rows)
           y == [x EXCEPT !.pc = "completed"]
<1>1. x.pc = "resolution" /\ x.pc \in Handling
  BY DEF InsertResolution, At, Handling
<1>2. /\ IsCall(x) /\ IsRequest(x.req) /\ Resolving(db, tx[c], x) /\ x.req.kind = "pass"
      /\ x.todo \in Seq(InRun(db, k)) /\ k \in Keys(db)
  BY <1>1, ResolvingOf
<1>3. AtHand(db, tx[c], x)
  BY <1>1, PhaseOf DEF Phase
<1>4. d \in db.cands /\ d.run = k /\ Current(c) = d
  BY <1>1, <1>3, FirstIs DEF AtHand
<1>5. tx' = [tx EXCEPT ![c] = T] /\ call' = [call EXCEPT ![c] = y]
      /\ UNCHANGED <<db, answer, faults>>
  BY WriteIs DEF InsertResolution, Goto
<1>6. IsCall(y) /\ y.pc = "completed" /\ y.req = x.req /\ y.todo = x.todo /\ y.next = x.next
      /\ y.outcomes = x.outcomes
  <2>1. IsCall(x)
    BY <1>2
  <2> HIDE DEF d, k, s, rows, T, x
  <2> QED BY <2>1, MoveOn
<1> HIDE DEF y
<1>7. First(y) = d
  BY <1>6 DEF First
<1>8. s = [cand |-> d, key |-> x.req.key, outcome |-> Classify(d)]
      /\ s.cand = d /\ s.key = x.req.key /\ s.outcome = Classify(d)
  BY <1>4 DEF NewResolution
<1> HIDE DEF s
<1>9. /\ IsTables(T) /\ T.runs = tx[c].runs /\ T.agentRuns = tx[c].agentRuns
      /\ T.cands = tx[c].cands /\ T.events = tx[c].events
      /\ T.resolutions = tx[c].resolutions \cup {s}
  <2>1. DOMAIN rows = {"resolutions"} /\ rows.resolutions = {s}
    OBVIOUS
  <2> HIDE DEF rows, s, d, x
  <2> QED BY <2>1, AfterIs
<1> HIDE DEF T
<1>10. StartedHere(tx[c], x) /\ DerivedState(db, d) \in x.req.eligible
  <2>1. \A o \in db.resolutions : ~(o.cand = d /\ o.key = x.req.key)
    <3>1. db.resolutions \subseteq Sees(c).resolutions
      BY ViewIs, PhaseOf
    <3>2. \A o \in Sees(c).resolutions : ~ResolutionClash(s, o)
      BY DEF InsertResolution, ResolutionTaken, s
    <3> QED BY <1>8, <3>1, <3>2 DEF ResolutionClash
  <2> QED BY <1>1, <1>3, <2>1 DEF AtHand
<1>11. tx[c].events # {}
  BY <1>10 DEF StartedHere
<1>12. PassRows(db, T, y)
  <2>1. PassRows(db, tx[c], x)
    BY <1>2 DEF Resolving
  <2>2. s.outcome \in Outcomes
    BY <1>8 DEF Classify, Outcomes
  <2>3. Typed(T)
    BY <1>9, <2>1, <2>2 DEF PassRows, Typed
  <2> QED BY <1>4, <1>6, <1>7, <1>8, <1>9, <1>10, <1>11, <2>1, <2>3 DEF PassRows
<1>13. PassNumbers(db, T, y)
  BY <1>2, <1>6, <1>7, <1>9 DEF Resolving, PassNumbers
<1>14. Triples(T, y)
  <2>1. \A o \in tx[c].resolutions : ResolutionTold(T, o)
    <3>1. \A o \in tx[c].resolutions : ResolutionTold(tx[c], o)
      BY <1>1, <1>2 DEF Resolving, Triples
    <3> QED BY <1>9, <3>1, ToldMore
  <2>2. \A e \in tx[c].events : e.type = "source_resolution_started" =>
          (\E o \in tx[c].resolutions : Name(o.cand) = e.of) \/ e.of = Name(s.cand)
    BY <1>2, <1>8 DEF Resolving, Triples
  <2>3. \A e \in T.events : e.type = "source_resolution_started" =>
          \E o \in T.resolutions : Name(o.cand) = e.of
    BY <1>9, <2>2
  <2> QED BY <1>6, <1>7, <1>8, <1>9, <2>1, <2>3 DEF Triples
<1>15. OutcomesKept(db.resolutions \cup T.resolutions, x.req.key, x.outcomes)
  BY <1>2, <1>9 DEF Resolving, OutcomesKept
<1>16. Resolving(db, T, y)
  BY <1>2, <1>6, <1>7, <1>12, <1>13, <1>14, <1>15 DEF Resolving
<1>17. AtHand(db, T, y)
  <2>1. StartedHere(T, y)
    BY <1>6, <1>7, <1>9, <1>10 DEF StartedHere
  <2> QED BY <1>3, <1>6, <1>7, <1>8, <1>9, <2>1 DEF AtHand
<1>18. Phase(db, T, y, answer[c])
  BY <1>2, <1>6, <1>7, <1>12, <1>16, <1>17, PhaseOf DEF Phase, Pcs, Running, Handling, PassRows
<1>19. \A o \in Callers \ {c} : Apart(T, tx[o])
  BY <1>9, PhaseOf DEF Apart
<1> QED BY <1>5, <1>18, <1>19, WriteStep

LEMMA CompleteResolutionIInv ==
  ASSUME IInv, NEW c \in Callers, CompleteResolution(c)
  PROVE  IInv'
<1> DEFINE x == call[c]
           d == First(x)
           k == x.req.run
           n == x.next + 1
           rest == Tail(x.todo)
           o == [cand |-> d, outcome |-> Classify(d)]
           told == x.outcomes \cup {o}
           e == PassEvent(c)
           T == After(tx[c], [events |-> {e}])
           y == [x EXCEPT !.pc = "candidate", !.next = n, !.todo = rest, !.outcomes = told]
<1>1. x.pc = "completed" /\ x.pc \in Handling
  BY DEF CompleteResolution, At, Handling
<1>2. /\ IsCall(x) /\ IsRequest(x.req) /\ Resolving(db, tx[c], x) /\ x.req.kind = "pass"
      /\ x.todo \in Seq(InRun(db, k)) /\ k \in Keys(db)
  BY <1>1, ResolvingOf
<1>3. AtHand(db, tx[c], x)
  BY <1>1, PhaseOf DEF Phase
<1>4. d \in db.cands /\ d.run = k /\ Current(c) = d /\ rest \in Seq(InRun(db, k))
  BY <1>1, <1>3, FirstIs DEF AtHand
<1>5. tx' = [tx EXCEPT ![c] = T] /\ call' = [call EXCEPT ![c] = y]
      /\ UNCHANGED <<db, answer, faults>>
  BY <1>4, WriteIs DEF CompleteResolution
<1>6. o.cand = d /\ o.outcome = Classify(d)
  OBVIOUS
<1> HIDE DEF n, rest, o, told
<1>7. IsCall(y) /\ y.pc = "candidate" /\ y.req = x.req /\ y.todo = rest /\ y.next = n
      /\ y.outcomes = told
  <2>1. x = [t \in Fields |-> x[t]]
    BY <1>2, CallIs
  <2>2. y = [t \in Fields |->
               IF t = "pc" THEN "candidate" ELSE IF t = "next" THEN n ELSE IF t = "todo" THEN rest
               ELSE IF t = "outcomes" THEN told ELSE x[t]]
    BY <2>1 DEF Fields
  <2> HIDE DEF y
  <2>3. y = [t \in Fields |-> y[t]]
    BY <2>2
  <2> QED BY <2>2, <2>3, CallIs DEF Fields
<1> HIDE DEF y
<1>8. /\ e.run = k /\ e.key = x.req.key /\ e.of = Name(d)
      /\ e.type = "source_resolution_completed"
  BY <1>1, <1>4, PassEventIs
<1>9. PICK f \in tx[c].events : f.type = "source_resolution_started" /\ f.of = Name(d)
  BY <1>1, <1>3 DEF AtHand, StartedHere
<1>10. /\ PassRows(db, T, y) /\ PassNumbers(db, T, y)
       /\ T.events = tx[c].events \cup {e} /\ T.resolutions = tx[c].resolutions
       /\ \A g \in tx[c].events : g.no < e.no
  BY <1>1, <1>7, <1>9, EventAdded DEF n
<1> HIDE DEF T, e
<1>11. Triples(T, y)
  <2>1. ASSUME NEW s \in tx[c].resolutions
        PROVE  ResolutionTold(T, s)
    <3>1. CASE ResolutionTold(tx[c], s)
      BY <1>10, <3>1, ToldMore
    <3>2. CASE s.cand = d
      <4>1. s.key = x.req.key /\ f.run = k /\ f.key = x.req.key
        BY <1>2, <1>9 DEF Resolving, PassRows
      <4>2. f \in T.events /\ e \in T.events /\ f.no < e.no
        BY <1>9, <1>10
      <4> QED BY <1>4, <1>8, <1>9, <3>2, <4>1, <4>2 DEF ResolutionTold, Before
    <3> QED BY <1>1, <1>2, <3>1, <3>2 DEF Resolving, Triples
  <2>2. \A g \in tx[c].events : g.type = "source_resolution_started" =>
          \E s \in tx[c].resolutions : Name(s.cand) = g.of
    BY <1>1, <1>2 DEF Resolving, Triples
  <2> QED BY <1>7, <1>8, <1>10, <2>1, <2>2 DEF Triples
<1>12. OutcomesKept(db.resolutions \cup T.resolutions, x.req.key, told)
  <2>1. \E s \in T.resolutions : s.cand = d /\ s.key = x.req.key /\ s.outcome = Classify(d)
    BY <1>1, <1>3, <1>10 DEF AtHand
  <2> QED BY <1>2, <1>6, <1>10, <2>1 DEF Resolving, OutcomesKept, told
<1>13. Resolving(db, T, y)
  BY <1>4, <1>7, <1>10, <1>11, <1>12 DEF Resolving
<1>14. Phase(db, T, y, answer[c])
  BY <1>2, <1>7, <1>10, <1>13, PhaseOf DEF Phase, Pcs, Running, Handling, PassRows
<1>15. \A p \in Callers \ {c} : Apart(T, tx[p])
  <2>1. tx[c].events # {} /\ (\A g \in tx[c].events : g.run = k) /\ \A g \in T.events : g.run = k
    BY <1>2, <1>8, <1>9, <1>10 DEF Resolving, PassRows
  <2> QED BY <2>1, StaysApart
<1> QED BY <1>5, <1>14, <1>15, WriteStep

-----------------------------------------------------------------------------
(* The transactions of the callers                                         *)

\* What a caller has to commit joins the committed rows.
LEMMA CommitIs ==
  ASSUME IInv, NEW c \in Callers, call[c].pc = "commit"
  PROVE  /\ Joins(db, tx[c]) /\ Committed(View(db, tx[c]))
         /\ Told(View(db, tx[c]), call[c], answer[c])
<1> DEFINE x == call[c]
           T == tx[c]
           a == answer[c]
           V == View(db, T)
<1>1. Committed(db)
  BY PhaseOf
<1>2. CASE T = Empty /\ Told(db, x, a)
  BY <1>1, <1>2, NothingCommitted
<1>3. CASE RunDone(db, T, x, a)
  <2>1. PICK status \in {"completed", "failed"} :
          NewRun(T, x.req, status) /\ Ended(T, x.req.key, status)
    BY <1>3 DEF RunDone
  <2>2. x.req.key \notin Keys(db) /\ x.req.kind \in RunKinds /\ RunTold(T, x.req.kind, a)
    BY <1>3 DEF RunDone
  <2>3. Joins(db, T) /\ Committed(V)
    BY <1>1, <2>1, <2>2, RunCommitted
  <2>4. \A m \in db.agentRuns : m.run # x.req.key
    BY <1>1, <2>2 DEF Committed, OfRuns
  <2>5. RanIn(V, x.req.key) = RanIn(T, x.req.key)
    BY <2>4, ViewIs DEF RanIn
  <2>6. T.runs \subseteq V.runs /\ (a.run # "none" => a.run = x.req.key)
    BY <2>1, <2>2, ViewIs DEF NewRun, RunRow, RunTold, StatusTold
  <2> HIDE DEF V
  <2>7. RunTold(V, x.req.kind, a)
    BY <2>2, <2>5, <2>6, RunToldKept
  <2>8. Told(V, x, a)
    BY <2>2, <2>7 DEF Told, RunKinds
  <2> QED BY <2>3, <2>8 DEF V
<1>4. CASE PassDone(db, T, x, a)
  <2>1. Joins(db, T) /\ Committed(V)
    BY <1>1, <1>4, PassCommitted DEF PassDone
  <2>2. x.req.kind = "pass" /\ PassTold(db, T, x, a)
    BY <1>4 DEF PassDone, PassRows
  <2>3. V.resolutions = db.resolutions \cup T.resolutions /\ V.runs = db.runs \cup T.runs
    BY ViewIs
  <2> HIDE DEF V
  <2>4. PassTold(V, Empty, x, a)
    BY <2>2, <2>3, EmptyIs DEF PassTold, OutcomesKept, Keys
  <2>5. Told(V, x, a)
    BY <2>2, <2>4 DEF Told
  <2> QED BY <2>1, <2>5 DEF V
<1> QED BY <1>2, <1>3, <1>4, PhaseOf DEF Phase

LEMMA CommitIInv ==
  ASSUME IInv, NEW c \in Callers, Commit(c)
  PROVE  IInv'
<1> DEFINE x == call[c]
           V == View(db, tx[c])
           y == [x EXCEPT !.pc = "done"]
<1>1. x.pc = "commit"
  BY DEF Commit, At
<1>2. Joins(db, tx[c]) /\ Committed(V) /\ Told(V, x, answer[c])
  BY <1>1, CommitIs
<1>3. IsCall(x) /\ IsRequest(x.req)
  BY <1>1, HasCall
<1>4. IsCall(y) /\ y.pc = "done" /\ y.req = x.req
  BY <1>3, MoveOn
<1>5. /\ db' = V /\ tx' = [tx EXCEPT ![c] = Empty] /\ call' = [call EXCEPT ![c] = y]
      /\ answer' = answer /\ faults' = faults
  BY PhaseOf DEF Commit, Goto
<1> HIDE DEF V, y
<1>6. tx = [d \in Callers |-> tx[d]] /\ call = [d \in Callers |-> call[d]]
      /\ answer = [d \in Callers |-> answer[d]] /\ faults \in 0 .. MaxFaults
  BY DEF IInv
<1>7. /\ tx' = [d \in Callers |-> IF d = c THEN Empty ELSE tx[d]]
      /\ call' = [d \in Callers |-> IF d = c THEN y ELSE call[d]]
  BY <1>5, <1>6
<1>8. tx' = [d \in Callers |-> tx'[d]] /\ call' = [d \in Callers |-> call'[d]]
  BY <1>7
<1>9. \A d \in Callers : Phase(db', tx'[d], call'[d], answer'[d])
  <2> SUFFICES ASSUME NEW d \in Callers
               PROVE  Phase(db', tx'[d], call'[d], answer'[d])
    OBVIOUS
  <2>1. CASE d = c
    <3>1. tx'[d] = Empty /\ call'[d] = y /\ answer'[d] = answer[c]
      BY <1>5, <1>7, <2>1
    <3>2. Told(V, y, answer[c])
      BY <1>2, <1>4 DEF Told, PassTold
    <3>3. Phase(V, Empty, y, answer[c])
      BY <1>3, <1>4, <3>2, EmptyIs, PhaseOf DEF Phase, Pcs, Running, Handling
    <3> QED BY <1>5, <3>1, <3>3
  <2>2. CASE d # c
    <3>1. tx'[d] = tx[d] /\ call'[d] = call[d] /\ answer'[d] = answer[d]
      BY <1>5, <1>7, <2>2
    <3>2. Apart(tx[d], tx[c])
      BY <2>2 DEF IInv
    <3>3. Phase(V, tx[d], call[d], answer[d])
      BY <1>2, <3>2, PhaseOf, PhaseKept DEF V
    <3> QED BY <1>5, <3>1, <3>3
  <2> QED BY <2>1, <2>2
<1>10. \A d, e \in Callers : d # e => Apart(tx'[d], tx'[e])
  <2>1. \A d, e \in Callers : d # e => Apart(tx[d], tx[e])
    BY DEF IInv
  <2>2. \A d : Apart(Empty, tx[d]) /\ Apart(tx[d], Empty)
    BY EmptyIs DEF Apart
  <2>3. tx'[c] = Empty /\ \A d \in Callers \ {c} : tx'[d] = tx[d]
    BY <1>7
  <2> QED BY <2>1, <2>2, <2>3
<1>11. Committed(db')
  BY <1>2, <1>5
<1> QED BY <1>5, <1>6, <1>8, <1>9, <1>10, <1>11 DEF IInv

\* The transaction is lost, the caller begins its call anew.
LEMMA LoseIInv ==
  ASSUME IInv, NEW c \in Callers, call[c].pc \notin {"idle", "done"}, Lose(c),
         faults' \in 0 .. MaxFaults
  PROVE  IInv'
<1> DEFINE x == call[c]
           p == IF x.req.kind = "pass" THEN "pass" ELSE "lookup"
           y == [x EXCEPT !.pc = p, !.i = 1, !.next = 0, !.todo = <<>>, !.handled = 0,
                          !.failed = {}, !.error = "none", !.outcomes = {}]
<1>1. IsCall(x) /\ IsRequest(x.req)
  BY HasCall
<1>2. /\ db' = db /\ tx' = [tx EXCEPT ![c] = Empty] /\ call' = [call EXCEPT ![c] = y]
      /\ answer' = [answer EXCEPT ![c] = NoAnswer]
  BY DEF Lose
<1> HIDE DEF p
<1>3. IsCall(y) /\ y.pc = p /\ y.req = x.req /\ y.i = 1 /\ y.failed = {} /\ y.error = "none"
      /\ y.outcomes = {}
  <2>1. x = [t \in Fields |-> x[t]]
    BY <1>1, CallIs
  <2>2. /\ DOMAIN y = Fields /\ y.pc = p /\ y.req = x.req /\ y.i = 1
        /\ y.failed = {} /\ y.error = "none" /\ y.outcomes = {}
    BY <2>1 DEF Fields
  <2>3. y = [t \in Fields |-> y[t]]
    BY <2>1 DEF Fields
  <2> HIDE DEF y
  <2> QED BY <2>2, <2>3, CallIs
<1> HIDE DEF y
<1>4. NoAnswer.status = "none"
  BY DEF NoAnswer
<1>5. Phase(db, Empty, y, NoAnswer)
  BY <1>1, <1>3, <1>4, EmptyIs DEF Phase, Pcs, Running, Handling, IsRequest, p
<1> QED BY <1>2, <1>5, OwnStep, PhaseOf

LEMMA IntegrityErrorIInv ==
  ASSUME IInv, NEW c \in Callers, IntegrityError(c)
  PROVE  IInv'
<1>1. call[c].pc \notin {"idle", "done"} /\ Lose(c) /\ faults' = faults
  BY DEF IntegrityError, At
<1>2. faults \in 0 .. MaxFaults
  BY DEF IInv
<1> QED BY <1>1, <1>2, LoseIInv

LEMMA RollbackIInv ==
  ASSUME IInv, NEW c \in Callers, Rollback(c)
  PROVE  IInv'
<1>1. faults' \in 0 .. MaxFaults
  BY OrchestrationAssumption DEF IInv, Rollback
<1> QED BY <1>1, LoseIInv DEF Rollback

-----------------------------------------------------------------------------
(* Theorems                                                                *)

\* The inductive invariant: what is committed tells itself, each caller has
\* written and read what its place in the services says, and no run has
\* uncommitted events of two callers.
THEOREM InductiveInvariant == Spec => []IInv
<1>1. Init => IInv
  <2> SUFFICES ASSUME Init
               PROVE  IInv
    OBVIOUS
  <2>1. /\ db = Empty /\ \A c \in Callers : tx[c] = Empty /\ call[c] = Idle /\ answer[c] = NoAnswer
        /\ tx = [c \in Callers |-> tx[c]] /\ call = [c \in Callers |-> call[c]]
        /\ answer = [c \in Callers |-> answer[c]] /\ faults \in 0 .. MaxFaults
    BY OrchestrationAssumption DEF Init
  <2>2. Committed(Empty)
    BY EmptyIs DEF Committed, OfRuns, Distinct
  <2>3. Idle.pc = "idle" /\ NoAnswer.status = "none"
    BY DEF Idle, NoAnswer
  <2>4. Phase(Empty, Empty, Idle, NoAnswer)
    BY <2>3, EmptyIs DEF Phase, Pcs, Running, Handling
  <2>5. Apart(Empty, Empty)
    BY EmptyIs DEF Apart
  <2> QED BY <2>1, <2>2, <2>4, <2>5 DEF IInv
<1>2. IInv /\ [Next]_vars => IInv'
  <2> SUFFICES ASSUME IInv, [Next]_vars
               PROVE  IInv'
    OBVIOUS
  <2>1. ASSUME NEW c \in Callers, Step(c)
        PROVE  IInv'
    BY <2>1, CallIInv, ReplayIInv, RefuseRunIInv, AcceptRunIInv, InsertRunIInv, RunSingleIInv,
       PreflightIInv, RunAgentIInv, FinishRunIInv, BeginPassIInv, ReplayCandidateIInv,
       SkipCandidateIInv, TakeCandidateIInv, StartResolutionIInv, InsertResolutionIInv,
       CompleteResolutionIInv, EndPassIInv, CommitIInv, IntegrityErrorIInv, RollbackIInv
    DEF Step
  <2>2. CASE UNCHANGED vars
    BY <2>2 DEF IInv, vars
  <2> QED BY <2>1, <2>2 DEF Next, AllDone
<1> QED BY <1>1, <1>2, PTL DEF Spec

\* Every table and position keeps its type (the CHECKs of 0011).
THEOREM TypeCorrect == Spec => []TypeOK
<1>1. IInv => TypeOK
  <2> SUFFICES ASSUME IInv
               PROVE  TypeOK
    OBVIOUS
  <2>1. \A rows \in {db} \cup {tx[c] : c \in Callers} : Typed(rows)
    BY PhaseOf DEF IInv, Committed
  <2>2. \A rows : IsTables(rows) => DOMAIN rows = DOMAIN Empty
    BY EmptyIs DEF IsTables
  <2>3. \A c \in Callers :
          call[c].pc \in Pcs /\ answer[c].status \in {"none", "succeeded"} \cup Statuses
    BY PhaseOf DEF Phase
  <2>4. faults \in 0 .. MaxFaults
    BY DEF IInv
  <2> QED BY <2>1, <2>2, <2>3, <2>4 DEF TypeOK, Typed, Pcs
<1> QED BY <1>1, InductiveInvariant, PTL

\* The committed log of a run is gapless and tells the run's tables, however
\* many calls and passes interleave, fail or are repeated
\* (0011_orchestration_schema.sql:279-286).
THEOREM LogIsTheTruth == Spec => []LogTellsTheRun
<1>1. IInv => LogTellsTheRun
  <2> SUFFICES ASSUME IInv, NEW x \in db.runs
      PROVE  LET log == Of(x.key, "events")
                 before(a, b, of) == \E e \in Logged(x.key, a), f \in Logged(x.key, b) :
                              e.of = of /\ f.of = of /\ e.key = f.key /\ e.no < f.no
             IN /\ {e.no : e \in log} = 0 .. Cardinality(log) - 1
                /\ \A e \in log : e.no = 0 <=> e.type = "run_created"
                /\ \A m \in Of(x.key, "agentRuns") :
                     before("agent_run_started",
                       IF m.ok THEN "agent_run_completed" ELSE "agent_run_failed", <<m.agent>>)
                /\ {e.of : e \in Logged(x.key, "source_candidate_created")} =
                     {Name(d) : d \in Of(x.key, "cands")}
                /\ \A s \in {r \in db.resolutions : r.cand.run = x.key} :
                     /\ before("source_resolution_started", "source_resolution_completed",
                               Name(s.cand))
                     /\ \E e \in Logged(x.key, "source_resolution_completed") :
                          e.key = s.key /\ e.of = Name(s.cand)
                /\ x.status = "failed" <=> Logged(x.key, "run_failed") # {}
                /\ x.status = "completed" <=>
                     Of(x.key, "agentRuns") # {} /\ \A m \in Of(x.key, "agentRuns") : m.ok
    BY DEF LogTellsTheRun
  <2> DEFINE k == x.key
             log == Of(k, "events")
             n == Size(db, k)
             before(a, b, of) == \E e \in Logged(k, a), f \in Logged(k, b) :
                              e.of = of /\ f.of = of /\ e.key = f.key /\ e.no < f.no
  <2>1. /\ n \in Nat \ {0} /\ Numbered(LogOf(db, k), 0, n)
        /\ Tells(db, k) /\ Ended(db, k, x.status) /\ Committed(db)
    BY DEF IInv, Committed
  <2>2. log = LogOf(db, k) /\ Cardinality(log) = n
    BY DEF Of, LogOf, Size
  <2>3. {e.no : e \in log} = 0 .. Cardinality(log) - 1
    BY <2>1, <2>2 DEF Numbered
  <2>4. \A e \in log : e.no = 0 <=> e.type = "run_created"
    BY <2>1 DEF Tells, Of
  <2>5. \A a, b, of, key : Before(db.events, k, a, b, of, key) => before(a, b, of)
    BY DEF Before, Logged, Of
  <2>6. \A m \in Of(k, "agentRuns") :
          before("agent_run_started",
                 IF m.ok THEN "agent_run_completed" ELSE "agent_run_failed", <<m.agent>>)
    <3> SUFFICES ASSUME NEW m \in db.agentRuns, m.run = k
                 PROVE  before("agent_run_started", EndOf(m), <<m.agent>>)
      BY DEF Of, EndOf
    <3>1. Before(db.events, k, "agent_run_started", EndOf(m), <<m.agent>>, k)
      BY <2>1 DEF Tells
    <3> HIDE DEF before
    <3> QED BY <2>5, <3>1
  <2>7. {e.of : e \in Logged(k, "source_candidate_created")} = {Name(d) : d \in Of(k, "cands")}
    <3>1. \A e \in Logged(k, "source_candidate_created") :
            \E d \in Of(k, "cands") : e.of = Name(d)
      BY <2>1 DEF Logged, Of, Tells
    <3>2. \A d \in Of(k, "cands") :
            \E e \in Logged(k, "source_candidate_created") : e.of = Name(d)
      BY <2>1 DEF Logged, Of, Tells
    <3> QED BY <3>1, <3>2
  <2>8. ASSUME NEW s \in db.resolutions, s.cand.run = k
        PROVE  /\ before("source_resolution_started", "source_resolution_completed", Name(s.cand))
               /\ \E e \in Logged(k, "source_resolution_completed") :
                    e.key = s.key /\ e.of = Name(s.cand)
    <3>1. Before(db.events, k, "source_resolution_started", "source_resolution_completed",
                 Name(s.cand), s.key)
      BY <2>1, <2>8 DEF Committed, ResolutionTold
    <3>2. \E e \in Logged(k, "source_resolution_completed") :
            e.key = s.key /\ e.of = Name(s.cand)
      BY <3>1 DEF Before, Logged, Of
    <3> HIDE DEF before
    <3> QED BY <2>5, <3>1, <3>2
  <2>9. x.status = "failed" <=> Logged(k, "run_failed") # {}
    BY <2>1 DEF Ended, NoneFailed, Logged, Of
  <2>10. x.status = "completed" <=>
           Of(k, "agentRuns") # {} /\ \A m \in Of(k, "agentRuns") : m.ok
    BY <2>1 DEF Ended, AllOk, Of
  <2>11. \A s \in {r \in db.resolutions : r.cand.run = k} :
           /\ before("source_resolution_started", "source_resolution_completed", Name(s.cand))
           /\ \E e \in Logged(k, "source_resolution_completed") :
                e.key = s.key /\ e.of = Name(s.cand)
    BY <2>8
  <2> QED BY <2>3, <2>4, <2>6, <2>7, <2>9, <2>10, <2>11
<1> QED BY <1>1, InductiveInvariant, PTL

\* A caller is told what is committed, whether it executed the run or found it:
\* of a run its status; to a multi-agent caller its agents, the failed ones and
\* the error code of one of these; to a single-agent caller one of its agents
\* with the error code of that one; of a pass outcomes on record.
THEOREM CallersKnow == Spec => []CallersAreToldTheTables
<1>1. IInv => CallersAreToldTheTables
  <2> SUFFICES ASSUME IInv, NEW c \in Callers, At(c, "done"), answer[c].run # "none"
      PROVE  LET a == answer[c]
                 kind == call[c].req.kind
                 ran == RanIn(db, a.run)
             IN /\ \E x \in RunIn(db, a.run) :
                     kind \in RunKinds =>
                       a.status = IF x.status = "completed" THEN "succeeded" ELSE "failed"
                /\ kind = "multi" =>
                     /\ a.agents = {m.agent : m \in ran} /\ a.failed = FailedIn(db, a.run)
                     /\ a.error \in IF a.failed # {} THEN a.failed
                                    ELSE IF a.status = "failed" THEN {"budget_exceeded"}
                                                               ELSE {"none"}
                /\ kind = "single" =>
                     \/ \E m \in ran : a.agent = m.agent /\ a.error = ErrorOf(m)
                     \/ ran = {} /\ a.agent = "none" /\ a.error \in {"none", "budget_exceeded"}
                /\ kind = "pass" =>
                     \A o \in a.outcomes : \E s \in db.resolutions :
                       s.cand = o.cand /\ s.key = call[c].req.key /\ s.outcome = o.outcome
    BY DEF CallersAreToldTheTables
  <2>1. Told(db, call[c], answer[c])
    BY PhaseOf DEF Phase, At
  <2>2. CASE call[c].req.kind = "pass"
    <3>1. PassTold(db, Empty, call[c], answer[c])
      BY <2>1, <2>2 DEF Told
    <3>2. \E x \in RunIn(db, answer[c].run) : TRUE
      BY <3>1 DEF PassTold, RunIn, Keys
    <3>3. call[c].req.kind \notin RunKinds
      BY <2>2 DEF RunKinds
    <3> QED BY <2>2, <3>1, <3>2, <3>3, EmptyIs DEF PassTold, OutcomesKept
  <2>3. CASE call[c].req.kind # "pass"
    <3>1. RunTold(db, call[c].req.kind, answer[c])
      BY <2>1, <2>3 DEF Told
    <3> QED BY <2>3, <3>1 DEF RunTold, StatusTold, MultiTold, SingleTold, RunIn
  <2> QED BY <2>2, <2>3
<1> QED BY <1>1, InductiveInvariant, PTL

\* Whatever other passes commit between its unlocked read and its commit, a
\* pass commits no resolution of a candidate that is no longer eligible
\* (orchestration_source_resolution.py:808-815).
THEOREM OnlyEligibleIsResolved == Spec => ResolvedWhileEligible
<1> DEFINE Resolved == \A c \in Callers : At(c, "commit") /\ call'[c].pc = "done" =>
             \A s \in tx[c].resolutions : DerivedState(db, s.cand) \in call[c].req.eligible
<1>1. IInv => Resolved
  <2> SUFFICES ASSUME IInv, NEW c \in Callers, call[c].pc = "commit",
                      NEW s \in tx[c].resolutions
               PROVE  DerivedState(db, s.cand) \in call[c].req.eligible
    BY DEF At
  <2>1. tx[c] # Empty
    BY EmptyIs
  <2>2. ~RunDone(db, tx[c], call[c], answer[c])
    BY DEF RunDone, NewRun
  <2>3. PassDone(db, tx[c], call[c], answer[c])
    BY <2>1, <2>2, PhaseOf DEF Phase
  <2> QED BY <2>3 DEF PassDone, PassRows
<1> QED BY <1>1, InductiveInvariant, PTL DEF ResolvedWhileEligible
=============================================================================
