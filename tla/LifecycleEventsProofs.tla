------------------------ MODULE LifecycleEventsProofs ------------------------
(***************************************************************************)
(* For any answers, spans, keys, requests and workers, and any failed      *)
(* publishes, crashes, exceptions and deadlocks, the consumers of          *)
(* withdrawals and source losses implement AnswerLifecycle: every commit   *)
(* is one of its steps or leaves its variables alone.  The argument: the   *)
(* record of an event's key admits one transaction, which finds it not     *)
(* succeeded, so what the transaction is about to commit is not committed  *)
(* yet; and a withdrawal has the answer's row locked from the time it saw  *)
(* the answer published.                                                   *)
(***************************************************************************)
EXTENDS LifecycleEvents, SequenceTheorems, TLAPS

PCs == {"down", "idle", "begin", "withdraw", "write", "audit", "propagate", "impact",
        "succeed", "ack"}

\* What a transaction may have written.
Writes ==
  [answer : SUBSET Answers, history : SUBSET (Answers \X Events \X Keys),
   recorded : SUBSET (Nat \X Consequences), trail : Seq(Audits)]

Shape ==
  /\ pc \in [Workers -> PCs] /\ visible \in [Workers -> BOOLEAN]
  /\ mine \in [Workers -> Writes]

\* Entry e names a request, of the kind of its stream.
Delivered(e) == e \in Entries /\ e[2] <= Len(stream[e[1]])

References ==
  /\ \A s \in Streams : \A j \in DOMAIN stream[s] : requests[stream[s][j]].stream = s
  /\ \A w \in Workers : \A e \in pel[w] : Delivered(e)
  /\ \A w \in Workers : \A j \in DOMAIN batch[w] : Delivered(batch[w][j])

\* A row of a loss is committed after its entry was added, and once.
Detected ==
  \A i \in DOMAIN requests :
    i \in losses \/ api[i] = "added" =>
      /\ requests[i].stream = Loss
      /\ i \in losses => api[i] = "accepted"
      /\ \E j \in DOMAIN stream[Loss] : stream[Loss][j] = i

\* What a worker's transaction knows about its event.
Scope(w) ==
  /\ pc[w] \notin {"down", "idle"} => batch[w] # <<>>
  /\ pc[w] \in {"withdraw", "write", "audit"} => Event(w).stream = Withdrawal
  /\ pc[w] \in {"propagate", "impact"} => Event(w).stream = Loss
  /\ (InService(w) \/ (pc[w] = "begin" /\ visible[w])) /\ Event(w).stream = Loss =>
       Current(w) \in losses
  /\ InService(w) => Status(w) # "succeeded"
  /\ pc[w] = "ack" => Status(w) = "succeeded"

\* No two transactions hold the record of a key.
OneServer ==
  \A v, w \in Workers : v # w /\ InService(v) /\ InService(w) => RecordOf(v) # RecordOf(w)

\* The writes of a withdrawal, and of a propagation to claims and impact.
WithdrawalWrites(a, k, audits) ==
  [answer |-> {a}, history |-> HistoryOf(a, k), recorded |-> {}, trail |-> audits]
LossAudits(l, claims, impact) ==
  (IF claims = {} THEN <<>> ELSE << <<"claims", l>> >>)
    \o (IF "answer" \in impact THEN << <<"answer", l>> >> ELSE <<>>)
LossWrites(l, claims, impact) ==
  [answer |-> {}, history |-> {}, recorded |-> {<<l, c>> : c \in claims \cup impact},
   trail |-> LossAudits(l, claims, impact)]

\* w holds the row of the answer it withdraws, which is still published.
Withdraws(w) == answerLock[Target(w)] = w /\ answer[Target(w)] = "published"

\* The claims are among the writes of w unless they are on record.
Propagates(w, impact) ==
  \E claims \in {{}, {"claims"}} :
    /\ mine[w] = LossWrites(Current(w), claims, impact)
    /\ claims = {} <=> <<Current(w), "claims">> \in recorded

Written(w) ==
  /\ pc[w] \in {"down", "idle", "begin", "withdraw", "write", "propagate", "ack"} =>
       mine[w] = Nothing
  /\ pc[w] \in {"write", "audit"} => Withdraws(w)
  /\ pc[w] = "audit" => mine[w] = WithdrawalWrites(Target(w), Event(w).key, <<>>)
  /\ pc[w] = "succeed" /\ Event(w).stream = Withdrawal =>
       \/ mine[w] = Nothing /\ answer[Target(w)] = "withdrawn"
       \/ /\ Withdraws(w)
          /\ mine[w] = WithdrawalWrites(Target(w), Event(w).key,
                                        << <<"withdrawn", Target(w)>> >>)
  /\ pc[w] = "impact" => Propagates(w, {})
  /\ pc[w] = "succeed" /\ Event(w).stream = Loss =>
       \E i \in {"answer", "no_answer"} : Propagates(w, {i})

\* A loss whose impact is on record is not handled again, and a record that
\* succeeded is one of an event whose consequence is committed.
RecordedOnce ==
  \A i \in DOMAIN requests :
    {<<i, "answer">>, <<i, "no_answer">>} \cap recorded # {} =>
      epr[Loss][requests[i].key] = "succeeded"
SucceededIsDone ==
  \A s \in Streams, k \in Keys : epr[s][k] = "succeeded" =>
    \E i \in DOMAIN requests : requests[i].stream = s /\ requests[i].key = k /\ Done(i)

\* The type invariant, but for what Scope and Written say of each worker.
Types ==
  /\ requests \in Seq(Menu)
  /\ api \in Seq({"open", "added", "accepted", "refused"}) /\ Len(api) = Len(requests)
  /\ losses \subseteq DOMAIN requests
  /\ stream \in [Streams -> Seq(DOMAIN requests)]
  /\ group \in BOOLEAN
  /\ cursor \in [Streams -> Nat] /\ \A s \in Streams : cursor[s] <= Len(stream[s])
  /\ pel \in [Workers -> SUBSET Entries]
  /\ batch \in [Workers -> Seq(Entries)]
  /\ epr \in [Streams -> [Keys -> {"none", "failed", "succeeded"}]]
  /\ answer \in [Answers -> {"published", "withdrawn"}]
  /\ history \subseteq Answers \X Events \X Keys
  /\ recorded \subseteq losses \X Consequences
  /\ trail \in Seq(Audits)
  /\ answerLock \in [Answers -> Workers \cup {Nobody}]
  /\ headLock \in [Answers -> Workers \cup {Nobody}]
  /\ faults \in 0 .. MaxFaults

IInv ==
  /\ Types /\ Shape /\ References /\ Detected /\ OneServer /\ RecordedOnce /\ SucceededIsDone
  /\ \A w \in Workers : Scope(w) /\ Written(w)

-----------------------------------------------------------------------------
(* Requests and entries                                                    *)

LEMMA MenuItems ==
  ASSUME NEW r \in Menu
  PROVE  /\ r.stream \in Streams /\ r.key \in Keys
         /\ r.stream = Loss => r.target \in Spans
         /\ r.stream = Withdrawal => r.target \in Answers
BY EventsAssumption DEF EventsAssumption, Streams, Loss, Withdrawal

LEMMA CurrentIsRequest ==
  ASSUME Types, References, NEW w \in Workers, batch[w] # <<>>
  PROVE  /\ Head(batch[w]) \in Entries /\ Delivered(Head(batch[w]))
         /\ Current(w) \in DOMAIN requests
         /\ Event(w) \in Menu /\ Event(w).stream \in Streams /\ Event(w).key \in Keys
         /\ Target(w) \in Answers
<1>1. /\ batch[w] \in Seq(Entries) /\ 1 \in DOMAIN batch[w] /\ Head(batch[w]) = batch[w][1]
  BY DEF Types
<1>2. Head(batch[w]) \in Entries /\ Delivered(Head(batch[w]))
  BY <1>1 DEF References, Delivered
<1>3. PICK s \in Streams, n \in Nat \ {0} : Head(batch[w]) = <<s, n>>
  BY <1>2 DEF Entries
<1>4. n \in 1 .. Len(stream[s]) /\ stream[s] \in Seq(DOMAIN requests)
  BY <1>2, <1>3 DEF Delivered, Types
<1>5. Current(w) \in DOMAIN requests
  BY <1>3, <1>4 DEF Current, RequestOf
<1>6. Event(w) \in Menu
  BY <1>5 DEF Event, Types
<1>7. Target(w) \in Answers
  BY <1>6, MenuItems, EventsAssumption DEF Target, EventsAssumption, Streams
<1> QED
  BY <1>2, <1>5, <1>6, <1>7, MenuItems

\* Requests and entries are only ever added.
Extends ==
  /\ Len(requests) <= Len(requests')
  /\ \A i \in DOMAIN requests : requests'[i] = requests[i]
  /\ \A s \in Streams :
       /\ Len(stream[s]) <= Len(stream'[s])
       /\ \A j \in 1 .. Len(stream[s]) : stream'[s][j] = stream[s][j]

\* An entry stays where it is on its stream.
LEMMA EntriesStay ==
  ASSUME stream \in [Streams -> Seq(DOMAIN requests)],
         stream' \in [Streams -> Seq(DOMAIN requests)], Extends,
         NEW s \in Streams, NEW j \in DOMAIN stream[s]
  PROVE  j \in DOMAIN stream'[s] /\ stream'[s][j] = stream[s][j]
<1>1. stream[s] \in Seq(DOMAIN requests) /\ stream'[s] \in Seq(DOMAIN requests)
  OBVIOUS
<1>2. /\ DOMAIN stream[s] = 1 .. Len(stream[s]) /\ Len(stream[s]) \in Nat
      /\ DOMAIN stream'[s] = 1 .. Len(stream'[s]) /\ Len(stream'[s]) \in Nat
  BY <1>1, LenProperties
<1>3. /\ Len(stream[s]) <= Len(stream'[s])
      /\ \A i \in 1 .. Len(stream[s]) : stream'[s][i] = stream[s][i]
  BY DEF Extends
<1> QED
  BY <1>2, <1>3

LEMMA SameEvent ==
  ASSUME Types, References, Extends, NEW w \in Workers, batch[w] # <<>>,
         batch'[w] = batch[w]
  PROVE  /\ Current(w)' = Current(w) /\ Event(w)' = Event(w) /\ Target(w)' = Target(w)
         /\ RecordOf(w)' = RecordOf(w)
<1>1. Delivered(Head(batch[w])) /\ Current(w) \in DOMAIN requests
  BY CurrentIsRequest
<1>2. PICK s \in Streams, n \in Nat \ {0} : Head(batch[w]) = <<s, n>> /\ n <= Len(stream[s])
  BY <1>1 DEF Entries, Delivered
<1>3. Len(stream[s]) \in Nat
  BY DEF Types
<1>4. Current(w)' = Current(w)
  BY <1>2, <1>3 DEF Extends, Current, RequestOf
<1>5. Event(w)' = Event(w)
  BY <1>1, <1>4 DEF Extends, Event
<1> QED
  BY <1>4, <1>5 DEF Target, RecordOf

\* What is committed is never taken back.
Grows ==
  /\ Extends
  /\ losses \subseteq losses' /\ recorded \subseteq recorded'
  /\ \A a \in Answers : answer[a] = "withdrawn" => answer'[a] = "withdrawn"
  /\ \A s \in Streams, k \in Keys : epr[s][k] = "succeeded" => epr'[s][k] = "succeeded"

\* A step of others leaves w where it is, the row it has locked alone, and what
\* it will write unwritten.
Keeps(w) ==
  /\ pc'[w] = pc[w] /\ batch'[w] = batch[w] /\ mine'[w] = mine[w] /\ visible'[w] = visible[w]
  /\ \A a \in Answers : answerLock[a] = w => answerLock'[a] = w /\ answer'[a] = answer[a]
  /\ InService(w) =>
       /\ epr'[RecordOf(w)[1]][RecordOf(w)[2]] = Status(w)
       /\ Event(w).stream = Loss =>
            (<<Current(w), "claims">> \in recorded' => <<Current(w), "claims">> \in recorded)

LEMMA WorkerKept ==
  ASSUME Types, References, Grows, NEW w \in Workers, Keeps(w), Scope(w), Written(w)
  PROVE  Scope(w)' /\ Written(w)'
<1>1. CASE batch[w] = <<>>
  <2>1. pc[w] \in {"down", "idle"} /\ pc'[w] = pc[w]
    BY <1>1 DEF Scope, Keeps
  <2> QED
    BY <2>1 DEF Scope, Written, Keeps, InService
<1>2. CASE batch[w] # <<>>
  <2>1. /\ Current(w)' = Current(w) /\ Event(w)' = Event(w) /\ Target(w)' = Target(w)
        /\ RecordOf(w)' = RecordOf(w)
    BY <1>2, SameEvent DEF Grows, Keeps
  <2>2. Event(w).stream \in Streams /\ Event(w).key \in Keys /\ Target(w) \in Answers
    BY <1>2, CurrentIsRequest
  <2>3. InService(w)' = InService(w)
    BY DEF InService, Keeps
  <2>4. RecordOf(w)[1] \in Streams /\ RecordOf(w)[2] \in Keys
    BY <2>2 DEF RecordOf
  <2>5. /\ InService(w) => Status(w)' = Status(w)
        /\ Status(w) = "succeeded" => Status(w)' = "succeeded"
    BY <2>1, <2>4 DEF Keeps, Grows, Status
  <2>6. Scope(w)'
    BY <2>1, <2>3, <2>5, <1>2 DEF Scope, Keeps, Grows
  <2>7. Withdraws(w) => Withdraws(w)'
    BY <2>1, <2>2 DEF Withdraws, Keeps
  <2>8. /\ <<Current(w), "claims">> \in recorded => <<Current(w), "claims">> \in recorded'
        /\ InService(w) /\ Event(w).stream = Loss =>
             (<<Current(w), "claims">> \in recorded' => <<Current(w), "claims">> \in recorded)
    BY DEF Grows, Keeps
  <2>9. ASSUME NEW impact, InService(w), Event(w).stream = Loss, Propagates(w, impact)
        PROVE  Propagates(w, impact)'
    BY <2>1, <2>8, <2>9 DEF Propagates, Keeps
  <2>10. answer[Target(w)] = "withdrawn" => answer'[Target(w)] = "withdrawn"
    BY <2>2 DEF Grows
  <2>11. pc[w] = "impact" => Propagates(w, {})'
    BY <2>9 DEF Written, Scope, InService
  <2>12. pc[w] = "succeed" /\ Event(w).stream = Loss =>
           \E i \in {"answer", "no_answer"} : Propagates(w, {i})'
    BY <2>9 DEF Written, InService
  <2> QED
    BY <2>1, <2>6, <2>7, <2>10, <2>11, <2>12 DEF Written, Keeps
<1> QED
  BY <1>1, <1>2


-----------------------------------------------------------------------------
(* What follows for the invariant from how little a step changes           *)

LEMMA DoneKept ==
  ASSUME Types, Grows, NEW i \in DOMAIN requests, Done(i)
  PROVE  i \in DOMAIN requests' /\ requests'[i] = requests[i] /\ Done(i)'
<1>1. i \in DOMAIN requests' /\ requests'[i] = requests[i]
  <2>1. Len(requests) \in Nat /\ DOMAIN requests = 1 .. Len(requests)
    BY DEF Types
  <2> QED
    BY <2>1 DEF Grows, Extends
<1>2. requests[i].stream # Loss => requests[i].target \in Answers
  BY MenuItems DEF Types, Streams
<1> QED
  BY <1>1, <1>2 DEF Done, Grows

LEMMA CommittedKept ==
  ASSUME Types, RecordedOnce, SucceededIsDone, Extends, losses \subseteq losses',
         UNCHANGED <<epr, answer, recorded>>
  PROVE  Grows /\ RecordedOnce' /\ SucceededIsDone'
<1>1. Grows
  BY DEF Grows
<1>2. RecordedOnce'
  <2>1. \A i \in DOMAIN requests' :
          {<<i, "answer">>, <<i, "no_answer">>} \cap recorded # {} => i \in DOMAIN requests
    BY DEF Types
  <2> QED
    BY <2>1 DEF RecordedOnce, Extends
<1>3. SucceededIsDone'
  BY <1>1, DoneKept DEF SucceededIsDone
<1> QED
  BY <1>1, <1>2, <1>3

\* Nobody enters service.
LEMMA OneServerKept ==
  ASSUME Types, References, Extends, OneServer, \A w \in Workers : Scope(w),
         \A w \in Workers : InService(w)' => InService(w) /\ batch'[w] = batch[w]
  PROVE  OneServer'
<1>1. ASSUME NEW w \in Workers, InService(w)'
      PROVE  InService(w) /\ RecordOf(w)' = RecordOf(w)
  <2>1. InService(w) /\ batch'[w] = batch[w]
    BY <1>1
  <2>2. batch[w] # <<>>
    BY <2>1 DEF Scope, InService
  <2> QED
    BY <2>1, <2>2, SameEvent
<1> QED
  BY <1>1 DEF OneServer

\* The workers rest, but for those that start.
WorkersRest ==
  /\ UNCHANGED <<epr, rows, mine, visible, answerLock, batch>>
  /\ pc' \in [Workers -> PCs]
  /\ \A w \in Workers : pc'[w] = pc[w] \/ (pc[w] = "down" /\ pc'[w] = "idle")

LEMMA OutsideStep ==
  ASSUME IInv, Extends, losses \subseteq losses', Types', References', Detected', WorkersRest
  PROVE  IInv'
<1> USE DEF IInv, WorkersRest, rows
<1>1. Grows /\ RecordedOnce' /\ SucceededIsDone'
  BY CommittedKept
<1>2. Shape'
  BY DEF Shape, Writes
<1>3. OneServer'
  BY OneServerKept DEF InService
<1>4. ASSUME NEW w \in Workers
      PROVE  Scope(w)' /\ Written(w)'
  <2>1. CASE pc'[w] = pc[w]
    <3>1. InService(w) => RecordOf(w)[1] \in Streams /\ RecordOf(w)[2] \in Keys
      BY CurrentIsRequest DEF Scope, InService, RecordOf
    <3>2. Keeps(w)
      BY <2>1 DEF Keeps, Status
    <3> QED
      BY <1>1, <3>2, WorkerKept
  <2>2. CASE pc[w] = "down" /\ pc'[w] = "idle"
    BY <2>2 DEF Scope, Written, InService
  <2> QED
    BY <2>1, <2>2
<1> QED
  BY <1>1, <1>2, <1>3, <1>4

\* The workers other than v rest and keep the rows they have locked.
Rests(v) ==
  \A w \in Workers \ {v} :
    /\ pc'[w] = pc[w] /\ batch'[w] = batch[w] /\ mine'[w] = mine[w] /\ visible'[w] = visible[w]
    /\ \A a \in Answers : answerLock[a] = w => answerLock'[a] = w

\* v moves, and commits nothing.
LEMMA WorkerMoves ==
  ASSUME IInv, NEW v \in Workers, Rests(v),
         UNCHANGED <<requests, api, losses, stream, epr, answer, history, recorded, trail>>,
         Types', Shape', References', Scope(v)', Written(v)',
         OneServer' \/ (InService(v)' => InService(v) /\ batch'[v] = batch[v])
  PROVE  IInv'
<1> USE DEF IInv, Rests
<1>1. Extends
  BY DEF Extends, Types
<1>2. Grows /\ RecordedOnce' /\ SucceededIsDone'
  BY <1>1, CommittedKept
<1>3. OneServer'
  <2>1. \A w \in Workers \ {v} : InService(w)' => InService(w) /\ batch'[w] = batch[w]
    BY DEF InService
  <2> QED
    BY <1>1, <2>1, OneServerKept
<1>4. ASSUME NEW w \in Workers \ {v}
      PROVE  Scope(w)' /\ Written(w)'
  <2>1. Keeps(w)
    BY DEF Keeps, Status
  <2> QED
    BY <1>2, <2>1, WorkerKept
<1>5. Detected'
  BY DEF Detected
<1> QED
  BY <1>2, <1>3, <1>4, <1>5

-----------------------------------------------------------------------------
(* The API and the operator                                                *)

LEMMA AcceptKeeps ==
  ASSUME IInv, NEW r \in Menu, Accept(r)
  PROVE  IInv'
<1> USE DEF Accept, redis, rows, txn
<1>0. Types /\ Shape /\ References /\ Detected
  BY DEF IInv
<1> USE <1>0
<1>1. /\ Len(requests) \in Nat /\ DOMAIN requests = 1 .. Len(requests)
      /\ requests' \in Seq(Menu) /\ Len(requests') = Len(requests) + 1
      /\ DOMAIN requests' = 1 .. Len(requests) + 1
      /\ \A i \in DOMAIN requests : requests'[i] = requests[i]
  BY DEF Types
<1>2. /\ api' \in Seq({"open", "added", "accepted", "refused"})
      /\ Len(api') = Len(requests')
      /\ \A i \in DOMAIN requests : api'[i] = api[i]
      /\ api'[Len(requests) + 1] = "open"
  BY <1>1 DEF Types
<1>3. Extends
  BY <1>1 DEF Extends, Types
<1>4. Types'
  <2>1. stream \in [Streams -> Seq(DOMAIN requests')]
    <3>1. DOMAIN requests \subseteq DOMAIN requests'
      BY <1>1
    <3> QED
      BY <3>1, SeqMonotonic DEF Types
  <2>2. losses \subseteq DOMAIN requests'
    BY <1>1 DEF Types
  <2> QED
    BY <1>1, <1>2, <2>1, <2>2 DEF Types
<1>5. References'
  <2>1. \A s \in Streams : \A j \in DOMAIN stream[s] : stream[s][j] \in DOMAIN requests
    BY DEF Types
  <2> QED
    BY <1>1, <2>1 DEF References, Delivered
<1>6. Detected'
  <2>1. \A i \in DOMAIN requests' : i \in losses \/ api'[i] = "added" => i \in DOMAIN requests
    BY <1>1, <1>2 DEF Types
  <2>2. UNCHANGED <<losses, stream>>
    OBVIOUS
  <2> QED
    BY <1>1, <1>2, <2>1, <2>2 DEF Detected
<1> QED
  BY <1>3, <1>4, <1>5, <1>6, OutsideStep DEF WorkersRest, Shape

\* An entry is added to a stream, or not; answers of the API.
LEMMA EntryAdded ==
  ASSUME IInv, NEW s \in Streams, NEW i \in DOMAIN requests, requests[i].stream = s,
         stream' = [stream EXCEPT ![s] = Append(@, i)], UNCHANGED requests
  PROVE  /\ Extends
         /\ stream' \in [Streams -> Seq(DOMAIN requests)]
         /\ \E j \in DOMAIN stream'[s] : stream'[s][j] = i
         /\ \A t \in Streams : \A j \in DOMAIN stream'[t] : requests[stream'[t][j]].stream = t
         /\ \A e : Delivered(e) => Delivered(e)'
<1> USE DEF IInv
<1>1. /\ stream \in [Streams -> Seq(DOMAIN requests)]
      /\ \A t \in Streams : stream[t] \in Seq(DOMAIN requests) /\ Len(stream[t]) \in Nat
                            /\ DOMAIN stream[t] = 1 .. Len(stream[t])
  BY DEF Types
<1>2. /\ stream'[s] \in Seq(DOMAIN requests) /\ Len(stream'[s]) = Len(stream[s]) + 1
      /\ DOMAIN stream'[s] = 1 .. Len(stream[s]) + 1
      /\ stream'[s][Len(stream[s]) + 1] = i
      /\ \A j \in 1 .. Len(stream[s]) : stream'[s][j] = stream[s][j]
  BY <1>1
<1>3. \A t \in Streams \ {s} : stream'[t] = stream[t]
  BY <1>1
<1>4. Extends
  BY <1>1, <1>2, <1>3 DEF Extends, Types
<1>5. stream' \in [Streams -> Seq(DOMAIN requests)]
  BY <1>1, <1>2, <1>3
<1>6. \A t \in Streams : \A j \in DOMAIN stream'[t] : requests[stream'[t][j]].stream = t
  BY <1>1, <1>2, <1>3 DEF References
<1>7. \E j \in DOMAIN stream'[s] : stream'[s][j] = i
  BY <1>1, <1>2
<1>8. ASSUME NEW e, Delivered(e)
      PROVE  Delivered(e)'
  <2>1. PICK t \in Streams, n \in Nat \ {0} : e = <<t, n>> /\ n <= Len(stream[t])
    BY <1>8 DEF Delivered, Entries
  <2>2. Len(stream[t]) <= Len(stream'[t]) /\ Len(stream'[t]) \in Nat /\ Len(stream[t]) \in Nat
    BY <1>1, <1>4, <1>5 DEF Extends
  <2> QED
    BY <2>1, <2>2 DEF Delivered, Entries
<1> QED
  BY <1>4, <1>5, <1>6, <1>7, <1>8

LEMMA AddEntryKeeps ==
  ASSUME IInv, NEW i \in DOMAIN requests, AddEntry(i)
  PROVE  IInv'
<1> USE DEF rows, txn
<1>0. Types /\ Shape /\ References /\ Detected
  BY DEF IInv
<1> USE <1>0
<1> DEFINE s == requests[i].stream
<1>1. s \in Streams
  BY MenuItems DEF Types
<1>2. /\ api[i] = "open" /\ i \notin losses /\ UNCHANGED <<requests, losses>>
      /\ DOMAIN api = DOMAIN requests
  BY DEF AddEntry, Detected, Types
<1>3. PICK answered \in {"added", "accepted", "refused"} :
        /\ api' = [api EXCEPT ![i] = answered]
        /\ answered = "added" => s = Loss
        /\ \/ stream' = [stream EXCEPT ![s] = Append(@, i)]
           \/ stream' = stream /\ answered # "added"
        /\ faults' \in 0 .. MaxFaults
  <2>1. CASE /\ stream' = [stream EXCEPT ![s] = Append(@, i)]
             /\ api' = [api EXCEPT ![i] = IF s = Loss THEN "added" ELSE "accepted"]
             /\ UNCHANGED faults
    <3>1. faults' \in 0 .. MaxFaults
      BY <2>1 DEF Types
    <3> QED
      BY <2>1, <3>1
  <2>2. CASE /\ Fault
             /\ stream' \in {stream, [stream EXCEPT ![s] = Append(@, i)]}
             /\ api' = [api EXCEPT ![i] = "refused"]
    <3>1. faults' \in 0 .. MaxFaults
      BY <2>2, EventsAssumption DEF Types, Fault, EventsAssumption
    <3> QED
      BY <2>2, <3>1
  <2> QED
    BY <2>1, <2>2 DEF AddEntry
<1>4. /\ api' \in Seq({"open", "added", "accepted", "refused"}) /\ Len(api') = Len(requests)
      /\ api'[i] = answered /\ \A j \in DOMAIN requests \ {i} : api'[j] = api[j]
  BY <1>2, <1>3 DEF Types
<1>5. /\ UNCHANGED <<group, cursor, pel, batch, epr, rows, pc, txn>>
  BY DEF AddEntry
<1>6. CASE stream' = [stream EXCEPT ![s] = Append(@, i)]
  <2>1. /\ Extends
        /\ stream' \in [Streams -> Seq(DOMAIN requests)]
        /\ \E j \in DOMAIN stream'[s] : stream'[s][j] = i
        /\ \A t \in Streams : \A j \in DOMAIN stream'[t] : requests[stream'[t][j]].stream = t
        /\ \A e : Delivered(e) => Delivered(e)'
    BY <1>1, <1>2, <1>6, EntryAdded
  <2>2. \A t \in Streams : cursor[t] <= Len(stream'[t])
    BY <2>1 DEF Types, Extends
  <2>3. Types'
    BY <1>2, <1>3, <1>4, <1>5, <2>1, <2>2 DEF Types
  <2>4. References'
    BY <1>2, <1>5, <2>1 DEF References
  <2>5. Detected'
    <3>1. ASSUME NEW k \in DOMAIN requests, k \in losses \/ api'[k] = "added"
          PROVE  /\ requests[k].stream = Loss
                 /\ k \in losses => api'[k] = "accepted"
                 /\ \E j \in DOMAIN stream'[Loss] : stream'[Loss][j] = k
      <4>1. CASE k = i
        BY <1>2, <1>3, <1>4, <2>1, <3>1, <4>1
      <4>2. CASE k # i
        <5>1. PICK j \in DOMAIN stream[Loss] : stream[Loss][j] = k
          BY <1>4, <3>1, <4>2 DEF Detected
        <5>2. Loss \in Streams
          BY DEF Streams
        <5>3. j \in DOMAIN stream'[Loss] /\ stream'[Loss][j] = k
          BY <2>1, <5>1, <5>2, EntriesStay DEF Types
        <5> QED
          BY <1>2, <1>4, <3>1, <4>2, <5>3 DEF Detected
      <4> QED
        BY <4>1, <4>2
    <3> QED
      BY <1>2, <3>1 DEF Detected
  <2> QED
    BY <1>2, <1>5, <2>1, <2>3, <2>4, <2>5, OutsideStep DEF WorkersRest, Shape
<1>7. CASE stream' = stream /\ answered # "added"
  <2>1. Types'
    BY <1>2, <1>3, <1>4, <1>5, <1>7 DEF Types
  <2>2. References'
    BY <1>2, <1>5, <1>7 DEF References, Delivered
  <2>3. Detected'
    BY <1>2, <1>4, <1>7 DEF Detected
  <2>4. Extends
    BY <1>2, <1>7 DEF Extends, Types
  <2> QED
    BY <1>2, <1>5, <2>1, <2>2, <2>3, <2>4, OutsideStep DEF WorkersRest, Shape
<1> QED
  BY <1>3, <1>6, <1>7

LEMMA LossAnswered ==
  ASSUME IInv, NEW i \in DOMAIN requests, CommitLoss(i) \/ LoseCommit(i)
  PROVE  IInv'
<1> USE DEF redis, rows, txn
<1>0. Types /\ Shape /\ References /\ Detected
  BY DEF IInv
<1> USE <1>0
<1>1. /\ api[i] = "added" /\ UNCHANGED <<requests, redis, batch, epr, rows, pc, txn>>
      /\ DOMAIN api = DOMAIN requests
  BY DEF CommitLoss, LoseCommit, Types
<1>2. PICK answered \in {"accepted", "refused"} :
        /\ api' = [api EXCEPT ![i] = answered]
        /\ losses' = losses \/ (losses' = losses \cup {i} /\ answered = "accepted")
        /\ faults' \in 0 .. MaxFaults
  BY EventsAssumption DEF CommitLoss, LoseCommit, Fault, Types, EventsAssumption
<1>3. /\ api' \in Seq({"open", "added", "accepted", "refused"}) /\ Len(api') = Len(requests)
      /\ api'[i] = answered /\ \A j \in DOMAIN requests \ {i} : api'[j] = api[j]
  BY <1>1, <1>2 DEF Types
<1>4. Types'
  BY <1>1, <1>2, <1>3 DEF Types
<1>5. References'
  BY <1>1 DEF References, Delivered
<1>6. Detected'
  BY <1>1, <1>2, <1>3 DEF Detected
<1>7. Extends
  BY <1>1 DEF Extends, Types
<1> QED
  BY <1>1, <1>2, <1>4, <1>5, <1>6, <1>7, OutsideStep DEF WorkersRest, Shape

LEMMA RequeueKeeps ==
  ASSUME IInv, NEW w \in Workers, NEW e \in pel[w], Requeue(w, e)
  PROVE  IInv'
<1> USE DEF redis, rows, txn
<1>0. Types /\ Shape /\ References /\ Detected
  BY DEF IInv
<1> USE <1>0
<1>1. PICK s \in Streams, n \in Nat \ {0} : e = <<s, n>> /\ n <= Len(stream[s])
  BY DEF References, Delivered, Entries, Types
<1> DEFINE i == RequestOf(e)
<1>2. i = stream[s][n] /\ n \in DOMAIN stream[s]
  BY <1>1 DEF RequestOf, Types
<1>3. i \in DOMAIN requests /\ requests[i].stream = s
  BY <1>2 DEF References, Types
<1>4. /\ stream' = [stream EXCEPT ![s] = Append(@, i)]
      /\ pel' = [pel EXCEPT ![w] = @ \ {e}]
      /\ UNCHANGED <<requests, api, losses, group, cursor, batch, epr, rows, pc, txn, faults>>
  BY <1>1 DEF Requeue
<1> HIDE DEF i
<1>5. /\ Extends
      /\ stream' \in [Streams -> Seq(DOMAIN requests)]
      /\ \A t \in Streams : \A j \in DOMAIN stream'[t] : requests[stream'[t][j]].stream = t
      /\ \A d : Delivered(d) => Delivered(d)'
  BY <1>3, <1>4, EntryAdded
<1>6. pel' \in [Workers -> SUBSET Entries] /\ \A v \in Workers : pel'[v] \subseteq pel[v]
  BY <1>4 DEF Types
<1>7. Types'
  <2>1. \A t \in Streams : cursor[t] <= Len(stream'[t])
    BY <1>5 DEF Types, Extends
  <2> QED
    BY <1>4, <1>5, <1>6, <2>1 DEF Types
<1>8. References'
  BY <1>4, <1>5, <1>6 DEF References
<1>9. Detected'
  <2>1. Loss \in Streams /\ DOMAIN stream[Loss] = 1 .. Len(stream[Loss])
        /\ DOMAIN stream'[Loss] = 1 .. Len(stream'[Loss])
        /\ Len(stream[Loss]) \in Nat /\ Len(stream'[Loss]) \in Nat
    BY <1>5 DEF Types, Streams
  <2>2. \A j \in DOMAIN stream[Loss] :
          j \in DOMAIN stream'[Loss] /\ stream'[Loss][j] = stream[Loss][j]
    BY <1>5, <2>1 DEF Extends
  <2> QED
    BY <1>4, <2>2 DEF Detected
<1> QED
  BY <1>4, <1>5, <1>7, <1>8, <1>9, OutsideStep DEF WorkersRest, Shape

-----------------------------------------------------------------------------
(* The worker's loop                                                       *)

LEMMA StartKeeps ==
  ASSUME IInv, NEW w \in Workers, StartWorker(w)
  PROVE  IInv'
<1> USE DEF StartWorker, redis, rows, txn
<1>0. Types /\ Shape /\ References /\ Detected
  BY DEF IInv
<1>1. WorkersRest
  BY <1>0 DEF WorkersRest, Shape, PCs
<1>2. Extends
  BY <1>0 DEF Extends, Types
<1>3. Types'
  BY <1>0 DEF Types
<1>4. References'
  BY <1>0 DEF References, Delivered
<1>5. Detected'
  BY <1>0 DEF Detected
<1>6. losses \subseteq losses'
  OBVIOUS
<1> QED
  BY <1>1, <1>2, <1>3, <1>4, <1>5, <1>6, OutsideStep

LEMMA FreshEntries ==
  ASSUME Types, NEW s \in Streams
  PROVE  /\ Fresh(s) \in Seq(Entries) /\ Len(Fresh(s)) \in Nat
         /\ \A j \in 1 .. Len(Fresh(s)) : Delivered(Fresh(s)[j])
         /\ cursor[s] + Len(Fresh(s)) <= Len(stream[s])
<1> DEFINE upTo == IF cursor[s] + BatchSize < Len(stream[s]) THEN cursor[s] + BatchSize
                   ELSE Len(stream[s])
           n == upTo - cursor[s]
<1>1. cursor[s] \in Nat /\ Len(stream[s]) \in Nat /\ cursor[s] <= Len(stream[s])
  BY DEF Types
<1>2. n \in Nat /\ cursor[s] + n <= Len(stream[s])
  BY <1>1, EventsAssumption DEF EventsAssumption
<1>3. Fresh(s) = [j \in 1 .. n |-> <<s, cursor[s] + j>>]
  BY DEF Fresh
<1> HIDE DEF n
<1>4. \A j \in 1 .. n : <<s, cursor[s] + j>> \in Entries /\ Delivered(<<s, cursor[s] + j>>)
  BY <1>1, <1>2 DEF Entries, Delivered
<1>5. Fresh(s) \in Seq(Entries) /\ Len(Fresh(s)) = n
  BY <1>2, <1>3, <1>4
<1> QED
  BY <1>2, <1>3, <1>4, <1>5

LEMMA ReadBatchKeeps ==
  ASSUME IInv, NEW v \in Workers, ReadBatch(v)
  PROVE  IInv'
<1> USE DEF redis, rows, txn
<1>0. Types /\ Shape /\ References
  BY DEF IInv
<1> DEFINE entries == Fresh(Withdrawal) \o Fresh(Loss)
<1>1. /\ pc[v] = "idle"
      /\ cursor' = [s \in Streams |-> cursor[s] + Len(Fresh(s))]
      /\ batch' = [batch EXCEPT ![v] = entries]
      /\ pel' = [pel EXCEPT ![v] = @ \cup {entries[j] : j \in DOMAIN entries}]
      /\ UNCHANGED <<requests, api, losses, stream, group, epr, rows, pc, txn, faults>>
  BY DEF ReadBatch
<1>2. entries \in Seq(Entries) /\ \A j \in DOMAIN entries : Delivered(entries[j])
  <2>1. Withdrawal \in Streams /\ Loss \in Streams
    BY DEF Streams
  <2>2. /\ Fresh(Withdrawal) \in Seq(Entries) /\ Fresh(Loss) \in Seq(Entries)
        /\ \A j \in 1 .. Len(Fresh(Withdrawal)) : Delivered(Fresh(Withdrawal)[j])
        /\ \A j \in 1 .. Len(Fresh(Loss)) : Delivered(Fresh(Loss)[j])
    BY <1>0, <2>1, FreshEntries
  <2> QED
    BY <2>2, ConcatProperties
<1> HIDE DEF entries
<1>3. Types'
  <2>1. \A s \in Streams : cursor'[s] \in Nat /\ cursor'[s] <= Len(stream[s])
    BY <1>0, <1>1, FreshEntries DEF Types
  <2>2. cursor' \in [Streams -> Nat]
    BY <1>1, <2>1
  <2>3. {entries[j] : j \in DOMAIN entries} \subseteq Entries
    BY <1>2 DEF Delivered
  <2>4. pel' \in [Workers -> SUBSET Entries] /\ batch' \in [Workers -> Seq(Entries)]
    BY <1>0, <1>1, <1>2, <2>3 DEF Types
  <2> QED
    BY <1>0, <1>1, <2>1, <2>2, <2>4 DEF Types
<1>4. References'
  <2>1. \A w \in Workers : \A e \in pel'[w] : Delivered(e)
    BY <1>0, <1>1, <1>2 DEF References, Types
  <2>2. \A w \in Workers : \A j \in DOMAIN batch'[w] : Delivered(batch'[w][j])
    BY <1>0, <1>1, <1>2 DEF References, Types
  <2> QED
    BY <1>0, <1>1, <2>1, <2>2 DEF References, Delivered
<1>5. Scope(v)' /\ Written(v)' /\ Shape'
  BY <1>0, <1>1 DEF IInv, Scope, Written, Shape, InService, Writes
<1> QED
  BY <1>0, <1>1, <1>3, <1>4, <1>5, WorkerMoves DEF InService, Types, Rests

\* The rest of a batch.
LEMMA TailDelivered ==
  ASSUME Types, References, NEW v \in Workers, batch[v] # <<>>,
         batch' = [batch EXCEPT ![v] = Tail(@)]
  PROVE  /\ batch' \in [Workers -> Seq(Entries)]
         /\ \A w \in Workers : \A j \in DOMAIN batch'[w] : Delivered(batch'[w][j])
<1>1. batch[v] \in Seq(Entries)
  BY DEF Types
<1>2. Tail(batch[v]) \in Seq(Entries)
  BY <1>1
<1>3. \A j \in DOMAIN Tail(batch[v]) :
        j + 1 \in DOMAIN batch[v] /\ Tail(batch[v])[j] = batch[v][j + 1]
  BY <1>1
<1>4. batch'[v] = Tail(batch[v]) /\ \A w \in Workers \ {v} : batch'[w] = batch[w]
  BY DEF Types
<1> QED
  BY <1>2, <1>3, <1>4 DEF Types, References

LEMMA FaultCounted ==
  ASSUME Types, Fault
  PROVE  faults' \in 0 .. MaxFaults
BY EventsAssumption DEF Types, Fault, EventsAssumption

LEMMA AcknowledgeKeeps ==
  ASSUME IInv, NEW v \in Workers, Acknowledge(v)
  PROVE  IInv'
<1> USE DEF rows, txn
<1>0. Types /\ Shape /\ References /\ Scope(v) /\ Written(v)
  BY DEF IInv
<1>1. /\ pc[v] = "ack" /\ batch[v] # <<>> /\ batch' = [batch EXCEPT ![v] = Tail(@)]
      /\ pc' = [pc EXCEPT ![v] = "idle"]
      /\ UNCHANGED <<requests, api, losses, stream, group, cursor, epr, rows, txn>>
  BY <1>0 DEF Acknowledge, Scope
<1>2. /\ pel' \in [Workers -> SUBSET Entries] /\ \A w \in Workers : pel'[w] \subseteq pel[w]
      /\ faults' \in 0 .. MaxFaults
  <2>1. CASE pel' = [pel EXCEPT ![v] = @ \ {Head(batch[v])}] /\ UNCHANGED faults
    BY <1>0, <2>1 DEF Types
  <2>2. CASE Fault /\ UNCHANGED pel
    BY <1>0, <2>2, FaultCounted DEF Types
  <2> QED
    BY <2>1, <2>2 DEF Acknowledge
<1>3. /\ batch' \in [Workers -> Seq(Entries)]
      /\ \A w \in Workers : \A j \in DOMAIN batch'[w] : Delivered(batch'[w][j])
  BY <1>0, <1>1, TailDelivered
<1>4. Types'
  BY <1>0, <1>1, <1>2, <1>3 DEF Types
<1>5. References'
  BY <1>0, <1>1, <1>2, <1>3 DEF References, Delivered
<1>6. Shape' /\ pc'[v] = "idle"
  BY <1>0, <1>1 DEF Shape, PCs, Writes
<1>7. Scope(v)' /\ Written(v)'
  BY <1>0, <1>1, <1>6 DEF Scope, Written, InService
<1> QED
  BY <1>0, <1>1, <1>4, <1>5, <1>6, <1>7, WorkerMoves DEF InService, Types, Shape, Rests

-----------------------------------------------------------------------------
(* The transaction of a consumer, up to its commit                         *)

LEMMA NothingIsWrites == Nothing \in Writes
  BY DEF Nothing, Writes

LEMMA Released ==
  ASSUME Types, Shape, NEW v \in Workers, Release(v)
  PROVE  /\ mine' \in [Workers -> Writes] /\ visible' \in [Workers -> BOOLEAN]
         /\ mine'[v] = Nothing /\ ~visible'[v]
         /\ answerLock' \in [Answers -> Workers \cup {Nobody}]
         /\ headLock' \in [Answers -> Workers \cup {Nobody}]
         /\ \A w \in Workers \ {v} :
              /\ mine'[w] = mine[w] /\ visible'[w] = visible[w]
              /\ \A a \in Answers : answerLock[a] = w => answerLock'[a] = w
<1>1. mine' = [mine EXCEPT ![v] = Nothing] /\ visible' = [visible EXCEPT ![v] = FALSE]
  BY DEF Release
<1>2. \A a \in Answers : answerLock'[a] = IF answerLock[a] = v THEN Nobody ELSE answerLock[a]
  BY DEF Release
<1>3. answerLock' \in [Answers -> Workers \cup {Nobody}]
  BY DEF Release, Types
<1>4. headLock' \in [Answers -> Workers \cup {Nobody}]
  BY DEF Release, Types
<1> QED
  BY <1>1, <1>2, <1>3, <1>4, NothingIsWrites DEF Shape

LEMMA ResolveScopeKeeps ==
  ASSUME IInv, NEW v \in Workers, ResolveScope(v)
  PROVE  IInv'
<1> USE DEF redis, rows
<1>0. Types /\ Shape /\ References /\ Scope(v) /\ Written(v)
  BY DEF IInv
<1>1. /\ pc[v] = "idle" /\ batch[v] # <<>>
      /\ visible' = [visible EXCEPT ![v] = Event(v).stream = Loss => Current(v) \in losses]
      /\ pc' = [pc EXCEPT ![v] = "begin"]
      /\ UNCHANGED <<requests, api, losses, redis, batch, epr, rows, mine, answerLock,
                     headLock, faults>>
  BY DEF ResolveScope, Goto
<1>2. Extends
  BY <1>0, <1>1 DEF Extends, Types
<1>3. Current(v)' = Current(v) /\ Event(v)' = Event(v)
  BY <1>0, <1>1, <1>2, SameEvent
<1>4. Types' /\ References'
  BY <1>0, <1>1 DEF Types, References, Delivered
<1>5. /\ pc'[v] = "begin" /\ mine'[v] = Nothing /\ Shape'
      /\ visible'[v] = (Event(v).stream = Loss => Current(v) \in losses)
  BY <1>0, <1>1 DEF Shape, PCs, Written, Writes
<1>6. Scope(v)' /\ Written(v)'
  BY <1>1, <1>3, <1>5 DEF Scope, Written, InService
<1> QED
  BY <1>0, <1>1, <1>4, <1>5, <1>6, WorkerMoves DEF InService, Shape, Rests

\* The record of the key has succeeded: the handler is done.
LEMMA SkipKeeps ==
  ASSUME IInv, NEW v \in Workers, pc[v] = "begin", Status(v) = "succeeded",
         Release(v), Goto(v, "ack"),
         UNCHANGED <<requests, api, losses, redis, batch, epr, rows, faults>>
  PROVE  IInv'
<1> USE DEF redis, rows
<1>0. Types /\ Shape /\ References /\ Scope(v)
  BY DEF IInv
<1>1. /\ mine' \in [Workers -> Writes] /\ visible' \in [Workers -> BOOLEAN]
      /\ mine'[v] = Nothing
      /\ answerLock' \in [Answers -> Workers \cup {Nobody}]
      /\ headLock' \in [Answers -> Workers \cup {Nobody}]
      /\ \A w \in Workers \ {v} :
           /\ mine'[w] = mine[w] /\ visible'[w] = visible[w]
           /\ \A a \in Answers : answerLock[a] = w => answerLock'[a] = w
  BY <1>0, Released
<1>2. /\ pc' \in [Workers -> PCs] /\ pc'[v] = "ack"
      /\ \A w \in Workers \ {v} : pc'[w] = pc[w]
  BY <1>0 DEF Goto, Shape, PCs
<1>3. batch[v] # <<>>
  BY <1>0 DEF Scope
<1>4. Extends
  BY <1>0 DEF Extends, Types
<1>5. RecordOf(v)' = RecordOf(v)
  BY <1>0, <1>3, <1>4, SameEvent
<1>6. Scope(v)' /\ Written(v)'
  BY <1>1, <1>2, <1>3, <1>5 DEF Scope, Written, InService, Status
<1>7. Types' /\ References' /\ Shape'
  BY <1>0, <1>1, <1>2 DEF Types, References, Delivered, Shape, Writes
<1> QED
  BY <1>1, <1>2, <1>6, <1>7, WorkerMoves DEF InService, Rests

\* The event is visible and nobody has its record: the service is called.
LEMMA ServeKeeps ==
  ASSUME IInv, NEW v \in Workers, pc[v] = "begin", RecordIsFree(v),
         Status(v) # "succeeded", visible[v],
         Goto(v, IF Event(v).stream = Loss THEN "propagate" ELSE "withdraw"),
         UNCHANGED <<requests, api, losses, redis, batch, epr, rows, txn, faults>>
  PROVE  IInv'
<1> USE DEF redis, rows, txn
<1>0. /\ Types /\ Shape /\ References /\ OneServer
      /\ \A w \in Workers : Scope(w) /\ Written(w)
  BY DEF IInv
<1>1. Extends
  BY <1>0 DEF Extends, Types
<1>2. ASSUME NEW w \in Workers, batch[w] # <<>>
      PROVE  Current(w)' = Current(w) /\ Event(w)' = Event(w) /\ RecordOf(w)' = RecordOf(w)
  BY <1>0, <1>1, <1>2, SameEvent
<1>3. batch[v] # <<>> /\ Event(v).stream \in Streams
  BY <1>0, CurrentIsRequest DEF Scope
<1>4. /\ pc' \in [Workers -> PCs]
      /\ pc'[v] = IF Event(v).stream = Loss THEN "propagate" ELSE "withdraw"
      /\ \A w \in Workers \ {v} : pc'[w] = pc[w]
  BY <1>0 DEF Goto, Shape, PCs
<1>5. OneServer'
  <2>1. ASSUME NEW w \in Workers \ {v}, InService(w)'
        PROVE  InService(w) /\ RecordOf(w)' = RecordOf(w) /\ RecordOf(w) # RecordOf(v)
    <3>1. InService(w)
      BY <1>4, <2>1 DEF InService
    <3>2. batch[w] # <<>>
      BY <1>0, <3>1 DEF Scope, InService
    <3> QED
      BY <1>2, <3>1, <3>2 DEF RecordIsFree
  <2>2. RecordOf(v)' = RecordOf(v)
    BY <1>2, <1>3
  <2>3. ASSUME NEW u \in Workers, NEW w \in Workers, u # w, InService(u)', InService(w)'
        PROVE  RecordOf(u)' # RecordOf(w)'
    <3>1. CASE u = v
      BY <2>1, <2>2, <2>3, <3>1
    <3>2. CASE w = v
      BY <2>1, <2>2, <2>3, <3>2
    <3>3. CASE u # v /\ w # v
      BY <1>0, <2>1, <2>3, <3>3 DEF OneServer
    <3> QED
      BY <3>1, <3>2, <3>3
  <2> QED
    BY <2>3 DEF OneServer
<1>6. Scope(v)'
  <2>1. Event(v).stream # Loss => Event(v).stream = Withdrawal
    BY <1>3 DEF Streams
  <2>2. Event(v).stream = Loss => Current(v) \in losses
    BY <1>0 DEF Scope
  <2>3. Status(v)' = Status(v)
    BY <1>2, <1>3 DEF Status
  <2> QED
    BY <1>2, <1>3, <1>4, <2>1, <2>2, <2>3 DEF Scope, InService
<1>7. Written(v)'
  BY <1>0, <1>4 DEF Written
<1>8. Types' /\ References' /\ Shape'
  BY <1>0, <1>4 DEF Types, References, Delivered, Shape, Writes
<1> QED
  BY <1>4, <1>5, <1>6, <1>7, <1>8, WorkerMoves DEF Rests

\* A step of the service: v stays in service and writes what Written says.
LEMMA ServiceMoves ==
  ASSUME IInv, NEW v \in Workers, InService(v),
         NEW p \in {"write", "audit", "impact", "succeed"}, Goto(v, p),
         p \in {"write", "audit"} => Event(v).stream = Withdrawal,
         p = "impact" => Event(v).stream = Loss,
         UNCHANGED <<requests, api, losses, redis, batch, epr, rows, visible, faults>>,
         mine' \in [Workers -> Writes],
         answerLock' \in [Answers -> Workers \cup {Nobody}],
         headLock' \in [Answers -> Workers \cup {Nobody}],
         \A w \in Workers \ {v} :
           /\ mine'[w] = mine[w]
           /\ \A a \in Answers : answerLock[a] = w => answerLock'[a] = w,
         Written(v)'
  PROVE  IInv'
<1> USE DEF redis, rows
<1>0. Types /\ Shape /\ References /\ Scope(v)
  BY DEF IInv
<1>1. Extends
  BY <1>0 DEF Extends, Types
<1>2. batch[v] # <<>>
  BY <1>0 DEF Scope, InService
<1>3. Current(v)' = Current(v) /\ Event(v)' = Event(v) /\ RecordOf(v)' = RecordOf(v)
  BY <1>0, <1>1, <1>2, SameEvent
<1>4. /\ pc' \in [Workers -> PCs] /\ pc'[v] = p
      /\ \A w \in Workers \ {v} : pc'[w] = pc[w]
  BY <1>0 DEF Goto, Shape, PCs
<1>5. Status(v)' = Status(v)
  BY <1>3 DEF Status
<1>6. Scope(v)'
  BY <1>0, <1>2, <1>3, <1>4, <1>5 DEF Scope, InService
<1>7. Types' /\ References' /\ Shape'
  BY <1>0, <1>4 DEF Types, References, Delivered, Shape, Writes
<1> QED
  BY <1>4, <1>6, <1>7, WorkerMoves DEF Rests

-----------------------------------------------------------------------------
(* What the service writes                                                 *)

LEMMA LossAuditsAre ==
  ASSUME NEW l \in Nat
  PROVE  /\ LossAudits(l, {}, {}) = <<>>
         /\ LossAudits(l, {"claims"}, {}) = << <<"claims", l>> >>
         /\ \A claims \in {{}, {"claims"}} :
              /\ LossAudits(l, claims, {}) \in Seq(Audits)
              /\ Append(LossAudits(l, claims, {}), <<"answer", l>>)
                   = LossAudits(l, claims, {"answer"})
              /\ LossAudits(l, claims, {"no_answer"}) = LossAudits(l, claims, {})
              /\ LossAudits(l, claims, {"answer"}) \in Seq(Audits)
<1> DEFINE c == <<"claims", l>>
           a == <<"answer", l>>
<1>1. c \in Audits /\ a \in Audits
  BY DEF Audits
<1> HIDE DEF c, a
<1>2. <<c>> \in Seq(Audits) /\ <<a>> \in Seq(Audits) /\ <<>> \in Seq(Audits)
  BY <1>1
<1>3. <<>> \o <<>> = <<>> /\ <<c>> \o <<>> = <<c>>
  BY <1>2, ConcatEmptySeq
<1>4. Append(<<>>, a) = <<>> \o <<a>> /\ Append(<<c>>, a) = <<c>> \o <<a>>
  BY <1>1, <1>2, AppendIsConcat
<1>5. Append(<<>>, a) \in Seq(Audits) /\ Append(<<c>>, a) \in Seq(Audits)
  BY <1>1, <1>2
<1>6. /\ LossAudits(l, {}, {}) = <<>> \o <<>>
      /\ LossAudits(l, {"claims"}, {}) = <<c>> \o <<>>
      /\ LossAudits(l, {}, {"answer"}) = <<>> \o <<a>>
      /\ LossAudits(l, {"claims"}, {"answer"}) = <<c>> \o <<a>>
      /\ LossAudits(l, {}, {"no_answer"}) = <<>> \o <<>>
      /\ LossAudits(l, {"claims"}, {"no_answer"}) = <<c>> \o <<>>
  <2>1. {"claims"} # {}
    OBVIOUS
  <2> QED
    BY <2>1 DEF LossAudits, c, a
<1> QED
  BY <1>2, <1>3, <1>4, <1>5, <1>6 DEF c, a

\* A record is known by its fields.
LEMMA WritesOfFields ==
  ASSUME NEW r, r = [f \in {"answer", "history", "recorded", "trail"} |-> r[f]]
  PROVE  r = [answer |-> r.answer, history |-> r.history, recorded |-> r.recorded,
              trail |-> r.trail]
OBVIOUS

LEMMA LossWritesAre ==
  ASSUME NEW l \in Nat, NEW claims \in {{}, {"claims"}}
  PROVE  /\ LossWrites(l, {}, {}) = Nothing
         /\ [Nothing EXCEPT !.recorded = {<<l, "claims">>},
                            !.trail = << <<"claims", l>> >>] = LossWrites(l, {"claims"}, {})
         /\ [LossWrites(l, claims, {}) EXCEPT !.recorded = @ \cup {<<l, "answer">>},
                                              !.trail = Append(@, <<"answer", l>>)]
              = LossWrites(l, claims, {"answer"})
         /\ [LossWrites(l, claims, {}) EXCEPT !.recorded = @ \cup {<<l, "no_answer">>}]
              = LossWrites(l, claims, {"no_answer"})
         /\ \A impact \in {{}, {"answer"}, {"no_answer"}} :
              LossWrites(l, claims, impact) \in Writes
<1>1. /\ {<<l, c>> : c \in {} \cup {}} = {}
      /\ {<<l, c>> : c \in {"claims"} \cup {}} = {<<l, "claims">>}
      /\ \A i : {<<l, c>> : c \in claims \cup {}} \cup {<<l, i>>}
                  = {<<l, c>> : c \in claims \cup {i}}
  OBVIOUS
<1>2. \A impact \in {{}, {"answer"}, {"no_answer"}} : LossWrites(l, claims, impact) \in Writes
  <2> SUFFICES ASSUME NEW impact \in {{}, {"answer"}, {"no_answer"}}
               PROVE  LossWrites(l, claims, impact) \in Writes
    OBVIOUS
  <2>1. LossAudits(l, claims, impact) \in Seq(Audits)
    BY LossAuditsAre
  <2>2. {<<l, c>> : c \in claims \cup impact} \in SUBSET (Nat \X Consequences)
    BY DEF Consequences
  <2> QED
    BY <2>1, <2>2 DEF LossWrites, Writes
<1>3. LossWrites(l, {}, {}) = Nothing
  BY <1>1, LossAuditsAre DEF LossWrites, Nothing
<1>4. [Nothing EXCEPT !.recorded = {<<l, "claims">>}, !.trail = << <<"claims", l>> >>]
        = LossWrites(l, {"claims"}, {})
  <2> DEFINE r == [Nothing EXCEPT !.recorded = {<<l, "claims">>},
                                  !.trail = << <<"claims", l>> >>]
  <2>1. /\ r.answer = {} /\ r.history = {} /\ r.recorded = {<<l, "claims">>}
        /\ r.trail = << <<"claims", l>> >>
        /\ r = [f \in {"answer", "history", "recorded", "trail"} |-> r[f]]
    BY DEF Nothing
  <2> HIDE DEF r
  <2>2. r = LossWrites(l, {"claims"}, {})
    BY <1>1, <2>1, LossAuditsAre, WritesOfFields DEF LossWrites
  <2> QED
    BY <2>2 DEF r
<1>5. [LossWrites(l, claims, {}) EXCEPT !.recorded = @ \cup {<<l, "answer">>},
                                        !.trail = Append(@, <<"answer", l>>)]
        = LossWrites(l, claims, {"answer"})
  <2>1. Append(LossAudits(l, claims, {}), <<"answer", l>>) = LossAudits(l, claims, {"answer"})
    BY LossAuditsAre
  <2> DEFINE r == [LossWrites(l, claims, {}) EXCEPT !.recorded = @ \cup {<<l, "answer">>},
                                                    !.trail = Append(@, <<"answer", l>>)]
  <2>2. /\ r.answer = {} /\ r.history = {}
        /\ r.recorded = {<<l, c>> : c \in claims \cup {}} \cup {<<l, "answer">>}
        /\ r.trail = Append(LossAudits(l, claims, {}), <<"answer", l>>)
        /\ r = [f \in {"answer", "history", "recorded", "trail"} |-> r[f]]
    BY DEF LossWrites
  <2> HIDE DEF r
  <2>3. r = LossWrites(l, claims, {"answer"})
    BY <1>1, <2>1, <2>2, WritesOfFields DEF LossWrites
  <2> QED
    BY <2>3 DEF r
<1>6. [LossWrites(l, claims, {}) EXCEPT !.recorded = @ \cup {<<l, "no_answer">>}]
        = LossWrites(l, claims, {"no_answer"})
  <2>1. LossAudits(l, claims, {"no_answer"}) = LossAudits(l, claims, {})
    BY LossAuditsAre
  <2> DEFINE r == [LossWrites(l, claims, {}) EXCEPT !.recorded = @ \cup {<<l, "no_answer">>}]
  <2>2. /\ r.answer = {} /\ r.history = {}
        /\ r.recorded = {<<l, c>> : c \in claims \cup {}} \cup {<<l, "no_answer">>}
        /\ r.trail = LossAudits(l, claims, {})
        /\ r = [f \in {"answer", "history", "recorded", "trail"} |-> r[f]]
    BY DEF LossWrites
  <2> HIDE DEF r
  <2>3. r = LossWrites(l, claims, {"no_answer"})
    BY <1>1, <2>1, <2>2, WritesOfFields DEF LossWrites
  <2> QED
    BY <2>3 DEF r
<1> QED
  BY <1>2, <1>3, <1>4, <1>5, <1>6

LEMMA LockAnswerKeeps ==
  ASSUME IInv, NEW v \in Workers, LockAnswer(v)
  PROVE  IInv'
<1> USE DEF redis, rows
<1>0. Types /\ Shape /\ References /\ Scope(v) /\ Written(v)
  BY DEF IInv
<1> DEFINE p == IF answer[Target(v)] = "published" THEN "write" ELSE "succeed"
<1>1. /\ pc[v] = "withdraw" /\ InService(v) /\ CanLockAnswer(v) /\ Goto(v, p)
      /\ answerLock' = [answerLock EXCEPT ![Target(v)] = v]
      /\ UNCHANGED <<requests, api, losses, redis, batch, epr, rows, visible, mine,
                     headLock, faults>>
  BY DEF LockAnswer, InService
<1>2. batch[v] # <<>> /\ Event(v).stream = Withdrawal /\ mine[v] = Nothing
  BY <1>0, <1>1 DEF Scope, Written
<1>3. Target(v) \in Answers
  BY <1>0, <1>2, CurrentIsRequest
<1>4. Extends
  BY <1>0, <1>1 DEF Extends, Types
<1>5. Event(v)' = Event(v) /\ Target(v)' = Target(v)
  BY <1>0, <1>1, <1>2, <1>4, SameEvent
<1>6. /\ answerLock' \in [Answers -> Workers \cup {Nobody}] /\ answerLock'[Target(v)] = v
      /\ \A w \in Workers \ {v} : \A a \in Answers : answerLock[a] = w => answerLock'[a] = w
  BY <1>0, <1>1, <1>3, EventsAssumption DEF CanLockAnswer, Types, EventsAssumption
<1>7. pc'[v] = p /\ answer[Target(v)] \in {"published", "withdrawn"}
  BY <1>0, <1>1, <1>3 DEF Goto, Shape, Types
<1>8. Written(v)'
  BY <1>1, <1>2, <1>5, <1>6, <1>7 DEF Written, Withdraws, Loss, Withdrawal
<1>9. mine' \in [Workers -> Writes] /\ headLock' \in [Answers -> Workers \cup {Nobody}]
  BY <1>0, <1>1 DEF Shape, Types
<1>10. p \in {"write", "audit", "impact", "succeed"} /\ p # "impact"
  OBVIOUS
<1> HIDE DEF p
<1> QED
  BY <1>1, <1>2, <1>6, <1>8, <1>9, <1>10, ServiceMoves

LEMMA WriteWithdrawalKeeps ==
  ASSUME IInv, NEW v \in Workers, WriteWithdrawal(v)
  PROVE  IInv'
<1> USE DEF redis, rows
<1>0. Types /\ Shape /\ References /\ Scope(v) /\ Written(v)
  BY DEF IInv
<1> DEFINE a == Target(v)
<1>1. /\ pc[v] = "write" /\ InService(v) /\ batch[v] # <<>>
      /\ Event(v).stream = Withdrawal /\ mine[v] = Nothing /\ Withdraws(v)
  BY <1>0 DEF WriteWithdrawal, InService, Scope, Written
<1>2. a \in Answers /\ Event(v).key \in Keys
  BY <1>0, <1>1, CurrentIsRequest
<1>3. /\ answerLock' = [answerLock EXCEPT ![a] = v]
      /\ mine' = [mine EXCEPT ![v].history = HistoryOf(a, Event(v).key), ![v].answer = {a}]
      /\ Goto(v, "audit")
      /\ UNCHANGED <<requests, api, losses, redis, batch, epr, rows, visible, headLock, faults>>
  BY <1>1 DEF WriteWithdrawal, Withdraws
<1>4. answerLock' = answerLock
  BY <1>0, <1>1, <1>3 DEF Withdraws, Types
<1>5. /\ mine'[v] = WithdrawalWrites(a, Event(v).key, <<>>)
      /\ \A w \in Workers \ {v} : mine'[w] = mine[w]
  <2>1. mine'[v] = [Nothing EXCEPT !.history = HistoryOf(a, Event(v).key), !.answer = {a}]
    BY <1>0, <1>1, <1>3 DEF Shape
  <2>2. \A w \in Workers \ {v} : mine'[w] = mine[w]
    BY <1>0, <1>3 DEF Shape
  <2> HIDE DEF a
  <2> DEFINE r == [Nothing EXCEPT !.history = HistoryOf(a, Event(v).key), !.answer = {a}]
  <2>3. /\ r.answer = {a} /\ r.history = HistoryOf(a, Event(v).key)
        /\ r.recorded = {} /\ r.trail = <<>>
        /\ r = [f \in {"answer", "history", "recorded", "trail"} |-> r[f]]
    BY DEF Nothing
  <2> HIDE DEF r
  <2>4. r = WithdrawalWrites(a, Event(v).key, <<>>)
    BY <2>3, WritesOfFields DEF WithdrawalWrites
  <2> QED
    BY <2>1, <2>2, <2>4 DEF r
<1>6. WithdrawalWrites(a, Event(v).key, <<>>) \in Writes
  BY <1>2 DEF WithdrawalWrites, Writes, HistoryOf, Events
<1>7. mine' \in [Workers -> Writes]
  <2>1. DOMAIN mine' = Workers /\ mine' = [w \in Workers |-> mine'[w]]
    BY <1>0, <1>3 DEF Shape
  <2> QED
    BY <1>0, <1>5, <1>6, <2>1 DEF Shape
<1>8. Extends
  BY <1>0, <1>3 DEF Extends, Types
<1>9. Event(v)' = Event(v) /\ Target(v)' = Target(v)
  BY <1>0, <1>1, <1>3, <1>8, SameEvent
<1>10. pc'[v] = "audit"
  BY <1>0, <1>3 DEF Goto, Shape
<1>11. Written(v)'
  BY <1>1, <1>3, <1>4, <1>5, <1>9, <1>10 DEF Written, Withdraws
<1>12. answerLock' \in [Answers -> Workers \cup {Nobody}]
       /\ headLock' \in [Answers -> Workers \cup {Nobody}]
  BY <1>0, <1>3, <1>4 DEF Types
<1> HIDE DEF a
<1> QED
  BY <1>1, <1>3, <1>4, <1>5, <1>7, <1>11, <1>12, ServiceMoves

LEMMA AuditWithdrawalKeeps ==
  ASSUME IInv, NEW v \in Workers, AuditWithdrawal(v)
  PROVE  IInv'
<1> USE DEF redis, rows
<1>0. Types /\ Shape /\ References /\ Scope(v) /\ Written(v)
  BY DEF IInv
<1> DEFINE a == Target(v)
           k == Event(v).key
<1>1. /\ pc[v] = "audit" /\ InService(v) /\ batch[v] # <<>>
      /\ Event(v).stream = Withdrawal /\ Withdraws(v)
      /\ mine[v] = WithdrawalWrites(a, k, <<>>)
  BY <1>0 DEF AuditWithdrawal, InService, Scope, Written
<1>2. a \in Answers /\ k \in Keys
  BY <1>0, <1>1, CurrentIsRequest
<1>3. /\ headLock' = [headLock EXCEPT ![a] = v]
      /\ mine' = [mine EXCEPT ![v].trail = Append(@, <<"withdrawn", a>>)]
      /\ Goto(v, "succeed")
      /\ UNCHANGED <<requests, api, losses, redis, batch, epr, rows, visible, answerLock, faults>>
  BY DEF AuditWithdrawal
<1>4. Append(<<>>, <<"withdrawn", a>>) = << <<"withdrawn", a>> >>
  OBVIOUS
<1>5. /\ mine'[v] = WithdrawalWrites(a, k, << <<"withdrawn", a>> >>)
      /\ \A w \in Workers \ {v} : mine'[w] = mine[w]
  <2>1. mine'[v] = [mine[v] EXCEPT !.trail = Append(@, <<"withdrawn", a>>)]
    BY <1>0, <1>3 DEF Shape
  <2>2. \A w \in Workers \ {v} : mine'[w] = mine[w]
    BY <1>0, <1>3 DEF Shape
  <2> HIDE DEF a, k
  <2> DEFINE r == [WithdrawalWrites(a, k, <<>>) EXCEPT !.trail = Append(@, <<"withdrawn", a>>)]
  <2>3. /\ r.answer = {a} /\ r.history = HistoryOf(a, k) /\ r.recorded = {}
        /\ r.trail = Append(<<>>, <<"withdrawn", a>>)
        /\ r = [f \in {"answer", "history", "recorded", "trail"} |-> r[f]]
    BY DEF WithdrawalWrites
  <2> HIDE DEF r
  <2>4. r = WithdrawalWrites(a, k, << <<"withdrawn", a>> >>)
    BY <1>4, <2>3, WritesOfFields DEF WithdrawalWrites
  <2> QED
    BY <1>1, <2>1, <2>2, <2>4 DEF r
<1>6. WithdrawalWrites(a, k, << <<"withdrawn", a>> >>) \in Writes
  <2>1. << <<"withdrawn", a>> >> \in Seq(Audits)
    BY <1>2 DEF Audits
  <2> QED
    BY <1>2, <2>1 DEF WithdrawalWrites, Writes, HistoryOf, Events
<1>7. mine' \in [Workers -> Writes]
  <2>1. DOMAIN mine' = Workers /\ mine' = [w \in Workers |-> mine'[w]]
    BY <1>0, <1>3 DEF Shape
  <2> QED
    BY <1>0, <1>5, <1>6, <2>1 DEF Shape
<1>8. Extends
  BY <1>0, <1>3 DEF Extends, Types
<1>9. Event(v)' = Event(v) /\ Target(v)' = Target(v)
  BY <1>0, <1>1, <1>3, <1>8, SameEvent
<1>10. pc'[v] = "succeed"
  BY <1>0, <1>3 DEF Goto, Shape
<1>11. Written(v)'
  BY <1>1, <1>3, <1>5, <1>9, <1>10 DEF Written, Withdraws, Withdrawal, Loss
<1>12. answerLock' \in [Answers -> Workers \cup {Nobody}]
       /\ headLock' \in [Answers -> Workers \cup {Nobody}]
  BY <1>0, <1>2, <1>3 DEF Types
<1> HIDE DEF a, k
<1> QED
  BY <1>1, <1>3, <1>5, <1>7, <1>11, <1>12, ServiceMoves

LEMMA PropagateToClaimsKeeps ==
  ASSUME IInv, NEW v \in Workers, PropagateToClaims(v)
  PROVE  IInv'
<1> USE DEF redis, rows
<1>0. Types /\ Shape /\ References /\ Scope(v) /\ Written(v)
  BY DEF IInv
<1> DEFINE l == Current(v)
<1>1. /\ pc[v] = "propagate" /\ InService(v) /\ batch[v] # <<>>
      /\ Event(v).stream = Loss /\ mine[v] = Nothing
  BY <1>0 DEF PropagateToClaims, InService, Scope, Written
<1>2. Target(v) \in Answers /\ l \in Nat
  BY <1>0, <1>1, CurrentIsRequest DEF Types
<1>3. /\ Goto(v, "impact")
      /\ UNCHANGED <<requests, api, losses, redis, batch, epr, rows, visible, answerLock, faults>>
  BY DEF PropagateToClaims
<1>4. Extends
  BY <1>0, <1>3 DEF Extends, Types
<1>5. Current(v)' = l /\ Event(v)' = Event(v)
  BY <1>0, <1>1, <1>3, <1>4, SameEvent
<1>6. pc'[v] = "impact"
  BY <1>0, <1>3 DEF Goto, Shape
<1> DEFINE claims == IF <<l, "claims">> \in recorded THEN {} ELSE {"claims"}
<1>7. /\ mine'[v] = LossWrites(l, claims, {})
      /\ \A w \in Workers \ {v} : mine'[w] = mine[w]
      /\ DOMAIN mine' = Workers /\ mine' = [w \in Workers |-> mine'[w]]
      /\ headLock' \in [Answers -> Workers \cup {Nobody}]
  <2>1. CASE <<l, "claims">> \in recorded
    <3>1. mine' = mine /\ headLock' = headLock
      BY <2>1 DEF PropagateToClaims
    <3> QED
      BY <1>0, <1>1, <1>2, <2>1, <3>1, LossWritesAre DEF Shape, Types
  <2>2. CASE <<l, "claims">> \notin recorded
    <3>1. /\ headLock' = [headLock EXCEPT ![Target(v)] = v]
          /\ mine' = [mine EXCEPT ![v].recorded = {<<l, "claims">>},
                                  ![v].trail = << <<"claims", l>> >>]
      BY <2>2 DEF PropagateToClaims
    <3>2. mine'[v] = [Nothing EXCEPT !.recorded = {<<l, "claims">>},
                                     !.trail = << <<"claims", l>> >>]
      BY <1>0, <1>1, <3>1 DEF Shape
    <3>3. mine'[v] = LossWrites(l, {"claims"}, {})
      BY <1>2, <3>2, LossWritesAre
    <3> QED
      BY <1>0, <1>2, <2>2, <3>1, <3>3 DEF Shape, Types
  <2> QED
    BY <2>1, <2>2
<1>8. claims \in {{}, {"claims"}} /\ (claims = {} <=> <<l, "claims">> \in recorded)
  OBVIOUS
<1> HIDE DEF l, claims
<1>9. mine' \in [Workers -> Writes]
  <2>1. LossWrites(l, claims, {}) \in Writes
    BY <1>2, <1>8, LossWritesAre
  <2> QED
    BY <1>0, <1>7, <2>1 DEF Shape
<1>10. Propagates(v, {})'
  BY <1>3, <1>5, <1>7, <1>8 DEF Propagates
<1>11. Written(v)'
  BY <1>6, <1>10 DEF Written
<1>12. answerLock' \in [Answers -> Workers \cup {Nobody}]
  BY <1>0, <1>3 DEF Types
<1> QED
  BY <1>1, <1>3, <1>7, <1>9, <1>11, <1>12, ServiceMoves

LEMMA PropagateToAnswerKeeps ==
  ASSUME IInv, NEW v \in Workers, PropagateToAnswer(v)
  PROVE  IInv'
<1> USE DEF redis, rows
<1>0. Types /\ Shape /\ References /\ Scope(v) /\ Written(v)
  BY DEF IInv
<1> DEFINE l == Current(v)
<1>1. /\ pc[v] = "impact" /\ InService(v) /\ batch[v] # <<>>
      /\ Event(v).stream = Loss /\ Propagates(v, {})
  BY <1>0 DEF PropagateToAnswer, InService, Scope, Written
<1>2. Target(v) \in Answers /\ l \in Nat
  BY <1>0, <1>1, CurrentIsRequest DEF Types
<1>3. /\ Goto(v, "succeed")
      /\ UNCHANGED <<requests, api, losses, redis, batch, epr, rows, visible, answerLock, faults>>
  BY DEF PropagateToAnswer
<1>4. Extends
  BY <1>0, <1>3 DEF Extends, Types
<1>5. Current(v)' = l /\ Event(v)' = Event(v)
  BY <1>0, <1>1, <1>3, <1>4, SameEvent
<1>6. pc'[v] = "succeed"
  BY <1>0, <1>3 DEF Goto, Shape
<1>7. PICK claims \in {{}, {"claims"}} :
        /\ mine[v] = LossWrites(l, claims, {})
        /\ claims = {} <=> <<l, "claims">> \in recorded
  BY <1>1 DEF Propagates
<1>8. PICK i \in {"answer", "no_answer"} :
        /\ mine'[v] = LossWrites(l, claims, {i})
        /\ \A w \in Workers \ {v} : mine'[w] = mine[w]
        /\ DOMAIN mine' = Workers /\ mine' = [w \in Workers |-> mine'[w]]
        /\ headLock' \in [Answers -> Workers \cup {Nobody}]
  <2>1. CASE answer[Target(v)] = "published"
    <3>1. /\ headLock' = [headLock EXCEPT ![Target(v)] = v]
          /\ mine' = [mine EXCEPT ![v].recorded = @ \cup {<<l, "answer">>},
                                  ![v].trail = Append(@, <<"answer", l>>)]
      BY <2>1 DEF PropagateToAnswer
    <3>2. mine'[v] = [mine[v] EXCEPT !.recorded = @ \cup {<<l, "answer">>},
                                     !.trail = Append(@, <<"answer", l>>)]
      BY <1>0, <3>1 DEF Shape
    <3>3. mine'[v] = LossWrites(l, claims, {"answer"})
      BY <1>2, <1>7, <3>2, LossWritesAre, ZenonT(30)
    <3> QED
      BY <1>0, <1>2, <3>1, <3>3 DEF Shape, Types
  <2>2. CASE answer[Target(v)] # "published"
    <3>1. /\ headLock' = headLock
          /\ mine' = [mine EXCEPT ![v].recorded = @ \cup {<<l, "no_answer">>}]
      BY <2>2 DEF PropagateToAnswer
    <3>2. mine'[v] = [mine[v] EXCEPT !.recorded = @ \cup {<<l, "no_answer">>}]
      BY <1>0, <3>1 DEF Shape
    <3>3. mine'[v] = LossWrites(l, claims, {"no_answer"})
      BY <1>2, <1>7, <3>2, LossWritesAre, ZenonT(30)
    <3> QED
      BY <1>0, <1>2, <3>1, <3>3 DEF Shape, Types
  <2> QED
    BY <2>1, <2>2
<1> HIDE DEF l
<1>9. mine' \in [Workers -> Writes]
  <2>1. LossWrites(l, claims, {i}) \in Writes
    BY <1>2, LossWritesAre
  <2> QED
    BY <1>0, <1>8, <2>1 DEF Shape
<1>10. Propagates(v, {i})'
  BY <1>3, <1>5, <1>7, <1>8 DEF Propagates
<1>11. Written(v)'
  BY <1>1, <1>5, <1>6, <1>10 DEF Written, Loss, Withdrawal
<1>12. answerLock' \in [Answers -> Workers \cup {Nobody}]
  BY <1>0, <1>3 DEF Types
<1> QED
  BY <1>1, <1>3, <1>8, <1>9, <1>11, <1>12, ServiceMoves

-----------------------------------------------------------------------------
(* Commits and ends of transactions                                        *)

\* The record of v's event turns to status, in the commit of what v has written.
Commits(v, status) ==
  /\ pc[v] \in {"begin", "withdraw", "propagate", "impact", "succeed"}
  /\ status = IF pc[v] = "succeed" THEN "succeeded" ELSE "failed"
  /\ Status(v) # "succeeded" /\ RecordIsFree(v)
  /\ CommitAs(v, status)
  /\ IF pc[v] = "succeed" THEN Goto(v, "ack") /\ UNCHANGED batch ELSE LeavePending(v)
  /\ UNCHANGED <<requests, api, losses, redis>> /\ faults' \in 0 .. MaxFaults

\* What v commits: nothing, a withdrawal, or what a propagation has to add.
CommitsNothing(v) ==
  /\ mine[v] = Nothing
  /\ pc[v] = "succeed" => Event(v).stream = Withdrawal /\ answer[Target(v)] = "withdrawn"
CommitsWithdrawal(v) ==
  /\ pc[v] = "succeed" /\ Event(v).stream = Withdrawal /\ Withdraws(v)
  /\ mine[v] = WithdrawalWrites(Target(v), Event(v).key, << <<"withdrawn", Target(v)>> >>)
CommitsLoss(v, impact) ==
  /\ InService(v) /\ Event(v).stream = Loss /\ Propagates(v, impact)
  /\ impact = {} <=> pc[v] # "succeed"

Impacts == {{}, {"answer"}, {"no_answer"}}

LEMMA WrittenIs ==
  ASSUME IInv, NEW v \in Workers,
         pc[v] \in {"begin", "withdraw", "propagate", "impact", "succeed"}
  PROVE  \/ CommitsNothing(v)
         \/ CommitsWithdrawal(v)
         \/ \E impact \in Impacts : CommitsLoss(v, impact)
<1>0. Types /\ References /\ Scope(v) /\ Written(v)
  BY DEF IInv
<1>1. batch[v] # <<>> /\ Event(v).stream \in {Withdrawal, Loss}
  BY <1>0, CurrentIsRequest DEF Scope, Streams
<1>2. CASE pc[v] \in {"begin", "withdraw", "propagate"}
  BY <1>0, <1>2 DEF Written, CommitsNothing
<1>3. CASE pc[v] = "impact"
  <2>1. CommitsLoss(v, {})
    BY <1>0, <1>3 DEF Written, Scope, CommitsLoss, InService
  <2> QED
    BY <2>1 DEF Impacts
<1>4. CASE pc[v] = "succeed" /\ Event(v).stream = Withdrawal
  BY <1>0, <1>4 DEF Written, CommitsNothing, CommitsWithdrawal
<1>5. CASE pc[v] = "succeed" /\ Event(v).stream = Loss
  <2>1. PICK i \in {"answer", "no_answer"} : Propagates(v, {i})
    BY <1>0, <1>5 DEF Written
  <2>2. CommitsLoss(v, {i})
    BY <1>5, <2>1 DEF CommitsLoss, InService
  <2> QED
    BY <2>2 DEF Impacts
<1> QED
  BY <1>1, <1>2, <1>3, <1>4, <1>5

\* What follows of the writes, whatever they are.
LEMMA WritesAre ==
  ASSUME IInv, NEW v \in Workers,
         pc[v] \in {"begin", "withdraw", "propagate", "impact", "succeed"}
  PROVE  /\ \A a \in mine[v].answer : answerLock[a] = v
         /\ mine[v].recorded # {} => Event(v).stream = Loss /\ InService(v)
         /\ \A x \in mine[v].recorded : \E c \in Consequences : x = <<Current(v), c>>
         /\ pc[v] # "succeed" => \A x \in mine[v].recorded : x = <<Current(v), "claims">>
         /\ pc[v] = "succeed" =>
              IF Event(v).stream = Loss
              THEN \E i \in {"answer", "no_answer"} : <<Current(v), i>> \in mine[v].recorded
              ELSE answer[Target(v)] = "withdrawn" \/ Target(v) \in mine[v].answer
<1>1. CASE CommitsNothing(v)
  BY <1>1 DEF CommitsNothing, Nothing, Withdrawal, Loss
<1>2. CASE CommitsWithdrawal(v)
  BY <1>2 DEF CommitsWithdrawal, WithdrawalWrites, Withdraws, Withdrawal, Loss
<1>3. ASSUME NEW impact \in Impacts, CommitsLoss(v, impact)
      PROVE  /\ mine[v].answer = {}
             /\ Event(v).stream = Loss /\ InService(v)
             /\ \A x \in mine[v].recorded : \E c \in Consequences : x = <<Current(v), c>>
             /\ pc[v] # "succeed" => \A x \in mine[v].recorded : x = <<Current(v), "claims">>
             /\ pc[v] = "succeed" =>
                  \E i \in {"answer", "no_answer"} : <<Current(v), i>> \in mine[v].recorded
  <2>1. PICK claims \in {{}, {"claims"}} : mine[v] = LossWrites(Current(v), claims, impact)
    BY <1>3 DEF CommitsLoss, Propagates
  <2>2. /\ mine[v].answer = {}
        /\ mine[v].recorded = {<<Current(v), c>> : c \in claims \cup impact}
    BY <2>1 DEF LossWrites
  <2>3. claims \subseteq {"claims"} /\ impact \subseteq Consequences
    BY DEF Impacts, Consequences
  <2>4. pc[v] = "succeed" => \E i \in {"answer", "no_answer"} : i \in impact
    BY <1>3 DEF CommitsLoss, Impacts
  <2>5. pc[v] # "succeed" => impact = {}
    BY <1>3 DEF CommitsLoss
  <2> QED
    BY <1>3, <2>2, <2>3, <2>4, <2>5 DEF CommitsLoss, Consequences
<1> QED
  BY <1>1, <1>2, <1>3, WrittenIs

LEMMA CommitKeeps ==
  ASSUME IInv, NEW v \in Workers, NEW status, Commits(v, status)
  PROVE  IInv'
<1> USE DEF redis
<1>0. /\ Types /\ Shape /\ References /\ OneServer /\ RecordedOnce /\ SucceededIsDone
      /\ Detected /\ \A w \in Workers : Scope(w) /\ Written(w)
  BY DEF IInv
<1>1. /\ pc[v] \in {"begin", "withdraw", "propagate", "impact", "succeed"}
      /\ status = IF pc[v] = "succeed" THEN "succeeded" ELSE "failed"
      /\ Status(v) # "succeeded" /\ RecordIsFree(v)
      /\ UNCHANGED <<requests, api, losses, redis>> /\ faults' \in 0 .. MaxFaults
  BY DEF Commits
<1>2. /\ epr' = [epr EXCEPT ![RecordOf(v)[1]][RecordOf(v)[2]] = status]
      /\ answer' = [a \in Answers |-> IF a \in mine[v].answer THEN "withdrawn" ELSE answer[a]]
      /\ history' = history \cup mine[v].history
      /\ recorded' = recorded \cup mine[v].recorded
      /\ trail' = trail \o mine[v].trail
      /\ Release(v)
  BY DEF Commits, CommitAs
<1> DEFINE k == Event(v).key
           s == Event(v).stream
<1>3. /\ batch[v] # <<>> /\ s \in Streams /\ k \in Keys /\ Target(v) \in Answers
      /\ Current(v) \in DOMAIN requests /\ RecordOf(v) = <<s, k>>
      /\ Event(v) = requests[Current(v)]
  BY <1>0, <1>1, CurrentIsRequest DEF Scope, RecordOf, Event
<1>4. /\ epr' \in [Streams -> [Keys -> {"none", "failed", "succeeded"}]]
      /\ epr'[s][k] = status
      /\ \A t \in Streams, j \in Keys : <<t, j>> # <<s, k>> => epr'[t][j] = epr[t][j]
  BY <1>0, <1>1, <1>2, <1>3 DEF Types
<1>5. epr[s][k] # "succeeded"
  BY <1>1, <1>3 DEF Status
<1> HIDE DEF s, k
<1>6. Extends
  BY <1>0, <1>1 DEF Extends, Types
<1>7. Grows
  <2>1. \A t \in Streams, j \in Keys : epr[t][j] = "succeeded" => epr'[t][j] = "succeeded"
    BY <1>4, <1>5
  <2>2. \A a \in Answers : answer[a] = "withdrawn" => answer'[a] = "withdrawn"
    BY <1>2
  <2> QED
    BY <1>1, <1>2, <1>6, <2>1, <2>2 DEF Grows
<1>8. /\ mine' \in [Workers -> Writes] /\ visible' \in [Workers -> BOOLEAN]
      /\ mine'[v] = Nothing
      /\ answerLock' \in [Answers -> Workers \cup {Nobody}]
      /\ headLock' \in [Answers -> Workers \cup {Nobody}]
      /\ \A w \in Workers \ {v} :
           /\ mine'[w] = mine[w] /\ visible'[w] = visible[w]
           /\ \A a \in Answers : answerLock[a] = w => answerLock'[a] = w
  BY <1>0, <1>2, Released
<1>9. /\ pc' \in [Workers -> PCs]
      /\ pc'[v] = IF pc[v] = "succeed" THEN "ack" ELSE "idle"
      /\ \A w \in Workers \ {v} : pc'[w] = pc[w]
  BY <1>0 DEF Commits, LeavePending, Goto, Shape, PCs
<1>10. /\ batch' \in [Workers -> Seq(Entries)]
       /\ \A w \in Workers : \A j \in DOMAIN batch'[w] : Delivered(batch'[w][j])
       /\ \A w \in Workers \ {v} : batch'[w] = batch[w]
       /\ pc[v] = "succeed" => batch' = batch
  <2>1. CASE pc[v] = "succeed"
    BY <1>0, <2>1 DEF Commits, Types, References
  <2>2. CASE pc[v] # "succeed"
    <3>1. batch' = [batch EXCEPT ![v] = Tail(@)]
      BY <2>2 DEF Commits, LeavePending
    <3> QED
      BY <1>0, <1>3, <2>2, <3>1, TailDelivered DEF Types
  <2> QED
    BY <2>1, <2>2
<1>11. /\ \A a \in mine[v].answer : answerLock[a] = v
       /\ mine[v].recorded # {} => s = Loss /\ InService(v)
       /\ \A x \in mine[v].recorded : \E c \in Consequences : x = <<Current(v), c>>
       /\ pc[v] # "succeed" => \A x \in mine[v].recorded : x = <<Current(v), "claims">>
       /\ pc[v] = "succeed" =>
            IF s = Loss
            THEN \E i \in {"answer", "no_answer"} : <<Current(v), i>> \in mine[v].recorded
            ELSE answer[Target(v)] = "withdrawn" \/ Target(v) \in mine[v].answer
  BY <1>1, WritesAre DEF s
<1>12. mine[v].recorded # {} => Current(v) \in losses
  BY <1>0, <1>11 DEF Scope, s
<1>13. Types'
  <2>1. mine[v] \in Writes
    BY <1>0 DEF Shape
  <2>2. answer' \in [Answers -> {"published", "withdrawn"}]
    BY <1>0, <1>2 DEF Types
  <2>3. history' \subseteq Answers \X Events \X Keys
    BY <1>0, <1>2, <2>1 DEF Types, Writes
  <2>4. recorded' \subseteq losses \X Consequences
    BY <1>0, <1>2, <1>11, <1>12 DEF Types
  <2>5. trail' \in Seq(Audits)
    BY <1>0, <1>2, <2>1, ConcatProperties DEF Types, Writes
  <2> QED
    BY <1>0, <1>1, <1>4, <1>8, <1>10, <2>2, <2>3, <2>4, <2>5 DEF Types
<1>14. Shape'
  BY <1>8, <1>9 DEF Shape, Writes
<1>15. References'
  BY <1>0, <1>1, <1>10 DEF References, Delivered
<1>16. Detected'
  BY <1>0, <1>1 DEF Detected
<1>17. ASSUME NEW w \in Workers \ {v}
       PROVE  Scope(w)' /\ Written(w)'
  <2>1. ASSUME InService(w)
        PROVE  /\ epr'[RecordOf(w)[1]][RecordOf(w)[2]] = Status(w)
               /\ RecordOf(w) # RecordOf(v)
    <3>1. batch[w] # <<>>
      BY <1>0, <2>1 DEF Scope, InService
    <3>2. PICK t \in Streams, j \in Keys : RecordOf(w) = <<t, j>>
      BY <1>0, <3>1, CurrentIsRequest DEF RecordOf
    <3>3. RecordOf(w) # RecordOf(v)
      BY <1>1, <2>1 DEF RecordIsFree
    <3> QED
      BY <1>3, <1>4, <3>2, <3>3 DEF Status
  <2>2. ASSUME InService(w), <<Current(w), "claims">> \in recorded'
        PROVE  <<Current(w), "claims">> \in recorded
    <3>1. Current(w) # Current(v)
      BY <2>1, <2>2 DEF RecordOf, Event
    <3> QED
      BY <1>2, <1>11, <2>2, <3>1
  <2>3. \A a \in Answers : answerLock[a] = w => answer'[a] = answer[a]
    BY <1>2, <1>11
  <2>4. Keeps(w)
    BY <1>8, <1>9, <1>10, <2>1, <2>2, <2>3 DEF Keeps
  <2> QED
    BY <1>0, <1>7, <2>4, WorkerKept
<1>18. Scope(v)' /\ Written(v)'
  <2>1. CASE pc[v] = "succeed"
    <3>1. RecordOf(v)' = RecordOf(v)
      BY <1>0, <1>3, <1>6, <1>10, <2>1, SameEvent
    <3>2. Status(v)' = "succeeded"
      BY <1>1, <1>3, <1>4, <2>1, <3>1 DEF Status
    <3> QED
      BY <1>3, <1>8, <1>9, <1>10, <2>1, <3>2 DEF Scope, Written, InService
  <2>2. CASE pc[v] # "succeed"
    BY <1>8, <1>9, <2>2 DEF Scope, Written, InService
  <2> QED
    BY <2>1, <2>2
<1>19. OneServer'
  <2>1. \A w \in Workers : InService(w)' => InService(w) /\ batch'[w] = batch[w]
    BY <1>9, <1>10 DEF InService
  <2> QED
    BY <1>0, <1>6, <2>1, OneServerKept
<1>20. RecordedOnce'
  <2>1. ASSUME NEW i \in DOMAIN requests, NEW c \in {"answer", "no_answer"},
               <<i, c>> \in recorded'
        PROVE  epr'[Loss][requests[i].key] = "succeeded"
    <3>1. Loss \in Streams /\ requests[i].key \in Keys
      BY <1>0, MenuItems DEF Types, Streams
    <3>2. CASE <<i, c>> \in recorded
      <4>1. epr[Loss][requests[i].key] = "succeeded"
        BY <1>0, <3>2 DEF RecordedOnce
      <4> QED
        BY <1>7, <3>1, <4>1 DEF Grows
    <3>3. CASE <<i, c>> \in mine[v].recorded
      <4>1. i = Current(v) /\ s = Loss
        BY <1>11, <3>3
      <4>2. pc[v] = "succeed"
        BY <1>11, <3>3
      <4> QED
        BY <1>1, <1>3, <1>4, <4>1, <4>2 DEF k
    <3> QED
      BY <1>2, <2>1, <3>2, <3>3
  <2> QED
    BY <1>1, <2>1 DEF RecordedOnce
<1>21. SucceededIsDone'
  <2>1. ASSUME NEW t \in Streams, NEW j \in Keys, epr'[t][j] = "succeeded"
        PROVE  \E i \in DOMAIN requests :
                 requests[i].stream = t /\ requests[i].key = j /\ Done(i)'
    <3>1. CASE epr[t][j] = "succeeded"
      BY <1>0, <1>7, <3>1, DoneKept DEF SucceededIsDone
    <3>2. CASE epr[t][j] # "succeeded"
      <4>1. t = s /\ j = k /\ status = "succeeded" /\ pc[v] = "succeed"
        BY <1>1, <1>4, <2>1, <3>2
      <4>2. PICK i \in DOMAIN requests : i = Current(v)
        BY <1>3
      <4>3. requests'[i] = requests[i] /\ requests[i] = Event(v)
        BY <1>1, <1>3, <4>2
      <4>4. Done(i)'
        <5>1. CASE s = Loss
          BY <1>2, <1>11, <4>1, <4>2, <4>3, <5>1 DEF Done, s
        <5>2. CASE s # Loss
          <6>1. Target(v) = requests[i].target
            BY <4>3, <5>2 DEF Target, s
          <6>2. answer'[Target(v)] = "withdrawn"
            BY <1>2, <1>3, <1>11, <4>1, <5>2
          <6>3. answer'[requests'[i].target] = "withdrawn"
            BY <4>3, <6>1, <6>2
          <6> QED
            BY <4>3, <5>2, <6>3 DEF Done, s
        <5> QED
          BY <5>1, <5>2
      <4> QED
        BY <4>1, <4>3, <4>4 DEF s, k
    <3> QED
      BY <3>1, <3>2
  <2> QED
    BY <1>1, <2>1 DEF SucceededIsDone
<1> QED
  BY <1>13, <1>14, <1>15, <1>16, <1>17, <1>18, <1>19, <1>20, <1>21 DEF IInv

LEMMA DieKeeps ==
  ASSUME IInv, NEW v \in Workers, Die(v), faults' \in 0 .. MaxFaults
  PROVE  IInv'
<1> USE DEF redis, rows
<1>0. Types /\ Shape /\ References
  BY DEF IInv
<1>1. /\ Release(v) /\ batch' = [batch EXCEPT ![v] = <<>>] /\ pc' = [pc EXCEPT ![v] = "down"]
      /\ UNCHANGED <<requests, api, losses, redis, epr, rows>>
  BY DEF Die, Goto
<1>2. /\ mine' \in [Workers -> Writes] /\ visible' \in [Workers -> BOOLEAN]
      /\ mine'[v] = Nothing
      /\ answerLock' \in [Answers -> Workers \cup {Nobody}]
      /\ headLock' \in [Answers -> Workers \cup {Nobody}]
      /\ \A w \in Workers \ {v} :
           /\ mine'[w] = mine[w] /\ visible'[w] = visible[w]
           /\ \A a \in Answers : answerLock[a] = w => answerLock'[a] = w
  BY <1>0, <1>1, Released
<1>3. pc' \in [Workers -> PCs] /\ pc'[v] = "down" /\ \A w \in Workers \ {v} : pc'[w] = pc[w]
  BY <1>0, <1>1 DEF Shape, PCs
<1>4. /\ batch' \in [Workers -> Seq(Entries)] /\ batch'[v] = <<>>
      /\ \A w \in Workers \ {v} : batch'[w] = batch[w]
  BY <1>0, <1>1 DEF Types
<1>5. Types' /\ Shape'
  BY <1>0, <1>1, <1>2, <1>3, <1>4 DEF Types, Shape, Writes
<1>6. References'
  <2>1. DOMAIN batch'[v] = {}
    BY <1>4
  <2> QED
    BY <1>0, <1>1, <1>4, <2>1 DEF References, Delivered
<1>7. Scope(v)' /\ Written(v)'
  BY <1>2, <1>3 DEF Scope, Written, InService
<1> QED
  BY <1>1, <1>2, <1>3, <1>4, <1>5, <1>6, <1>7, WorkerMoves DEF InService, Rests

-----------------------------------------------------------------------------
(* Every step keeps the invariant and is one of AnswerLifecycle's           *)

LifecycleStep == [Lifecycle!Next]_(Lifecycle!vars)

LEMMA RowsKept ==
  ASSUME UNCHANGED <<losses, answer, history, recorded, trail>>
  PROVE  LifecycleStep
BY DEF LifecycleStep, Lifecycle!vars

LEMMA CommitStep ==
  ASSUME IInv, NEW v \in Workers, NEW status, Commits(v, status)
  PROVE  LifecycleStep
<1>0. /\ Types /\ Shape /\ References /\ RecordedOnce /\ Scope(v)
  BY DEF IInv
<1>1. /\ pc[v] \in {"begin", "withdraw", "propagate", "impact", "succeed"}
      /\ Status(v) # "succeeded"
      /\ UNCHANGED <<requests, losses>>
      /\ answer' = [a \in Answers |-> IF a \in mine[v].answer THEN "withdrawn" ELSE answer[a]]
      /\ history' = history \cup mine[v].history
      /\ recorded' = recorded \cup mine[v].recorded
      /\ trail' = trail \o mine[v].trail
  BY DEF Commits, CommitAs
<1>2. /\ batch[v] # <<>> /\ Event(v).key \in Keys /\ Target(v) \in Answers
      /\ Current(v) \in DOMAIN requests /\ Event(v) = requests[Current(v)]
      /\ Status(v) = epr[Event(v).stream][Event(v).key]
  BY <1>0, <1>1, CurrentIsRequest DEF Scope, Event, Status, RecordOf
<1>3. /\ answer \in [Answers -> {"published", "withdrawn"}]
      /\ trail \in Seq(Audits) /\ trail \o <<>> = trail
  BY <1>0, ConcatEmptySeq DEF Types
<1>4. ASSUME mine[v] = Nothing
      PROVE  LifecycleStep
  <2>1. answer' = answer /\ history' = history /\ recorded' = recorded /\ trail' = trail
    BY <1>1, <1>3, <1>4 DEF Nothing
  <2> QED
    BY <1>1, <2>1, RowsKept
<1>5. ASSUME CommitsWithdrawal(v)
      PROVE  LifecycleStep
  <2> DEFINE a == Target(v)
             k == Event(v).key
  <2>1. answer[a] = "published"
    BY <1>5 DEF CommitsWithdrawal, Withdraws
  <2>2. /\ mine[v].answer = {a} /\ mine[v].history = HistoryOf(a, k)
        /\ mine[v].recorded = {} /\ mine[v].trail = << <<"withdrawn", a>> >>
    BY <1>5 DEF CommitsWithdrawal, WithdrawalWrites
  <2>3. <<"withdrawn", a>> \in Audits
    BY <1>2 DEF Audits
  <2>4. trail' = Append(trail, <<"withdrawn", a>>)
    BY <1>1, <1>3, <2>2, <2>3, AppendIsConcat
  <2>5. answer' = [answer EXCEPT ![a] = "withdrawn"]
    BY <1>1, <1>3, <2>2
  <2>6. history' = history \cup HistoryOf(a, k) /\ recorded' = recorded /\ losses' = losses
    BY <1>1, <2>2
  <2>7. Lifecycle!Withdraw(a, k)
    BY <2>1, <2>4, <2>5, <2>6 DEF Lifecycle!Withdraw, Lifecycle!HistoryOf, HistoryOf
  <2> QED
    BY <1>2, <2>7 DEF LifecycleStep, Lifecycle!Next
<1>6. ASSUME NEW impact \in Impacts, CommitsLoss(v, impact)
      PROVE  LifecycleStep
  <2> DEFINE l == Current(v)
  <2>1. PICK claims \in {{}, {"claims"}} :
          /\ mine[v] = LossWrites(l, claims, impact)
          /\ claims = {} <=> <<l, "claims">> \in recorded
    BY <1>6 DEF CommitsLoss, Propagates
  <2>2. l \in losses /\ l \in Nat /\ Event(v).stream = Loss
    BY <1>0, <1>2, <1>6 DEF CommitsLoss, Scope, Types
  <2>3. ASSUME NEW c \in claims \cup impact
        PROVE  <<l, c>> \notin recorded
    <3>1. CASE c = "claims" /\ claims # {}
      BY <2>1, <3>1
    <3>2. CASE c \in {"answer", "no_answer"}
      <4>1. epr[Loss][requests[l].key] # "succeeded"
        BY <1>1, <1>2, <2>2
      <4> QED
        BY <1>0, <1>2, <3>2, <4>1 DEF RecordedOnce
    <3> QED
      BY <3>1, <3>2 DEF Impacts
  <2>4. /\ mine[v].answer = {} /\ mine[v].history = {}
        /\ mine[v].recorded = {<<l, c>> : c \in claims \cup impact}
        /\ mine[v].trail = LossAudits(l, claims, impact)
    BY <2>1 DEF LossWrites
  <2>5. answer' = answer /\ history' = history /\ losses' = losses
    BY <1>1, <1>3, <2>4
  <2> DEFINE first == IF claims = {} THEN <<>> ELSE << <<"claims", l>> >>
             second == IF "answer" \in impact THEN << <<"answer", l>> >> ELSE <<>>
  <2>6. trail' = trail \o first \o second
    <3>1. <<"claims", l>> \in Audits /\ <<"answer", l>> \in Audits
      BY <2>2 DEF Audits
    <3>2. first \in Seq(Audits) /\ second \in Seq(Audits)
      BY <3>1
    <3>3. trail' = trail \o (first \o second)
      BY <1>1, <2>4 DEF LossAudits
    <3> HIDE DEF first, second
    <3> QED
      BY <1>3, <3>2, <3>3, ConcatAssociative, SMTT(30)
  <2>7. CASE claims \cup impact = {}
    <3>1. claims = {} /\ impact = {}
      BY <2>7
    <3>2. mine[v] = Nothing
      BY <2>1, <2>2, <3>1, LossWritesAre
    <3> QED
      BY <1>4, <3>2
  <2>8. CASE claims \cup impact # {}
    <3>1. impact # {} => <<l, "claims">> \in recorded \/ "claims" \in claims
      BY <2>1
    <3>2. recorded' = recorded \cup {<<l, c>> : c \in claims \cup impact}
      BY <1>1, <2>4
    <3>3. Lifecycle!Record(l, claims, impact)
      BY <2>2, <2>3, <2>5, <2>6, <2>8, <3>1, <3>2 DEF Lifecycle!Record
    <3>4. claims \in SUBSET {"claims"} /\ impact \in {{}} \cup {{i} : i \in Lifecycle!Impacts}
      BY DEF Impacts, Lifecycle!Impacts
    <3> HIDE DEF l
    <3> QED
      BY <2>2, <3>3, <3>4 DEF LifecycleStep, Lifecycle!Next
  <2> QED
    BY <2>7, <2>8
<1> QED
  BY <1>1, <1>4, <1>5, <1>6, WrittenIs DEF CommitsNothing

\* In service, v alone has the record of its event, which has not succeeded.
LEMMA InServiceCommits ==
  ASSUME IInv, NEW v \in Workers, InService(v)
  PROVE  Status(v) # "succeeded" /\ RecordIsFree(v) /\ batch[v] # <<>>
BY DEF IInv, OneServer, RecordIsFree, Scope, InService

LEMMA BeginStep ==
  ASSUME IInv, NEW v \in Workers, Begin(v)
  PROVE  IInv' /\ LifecycleStep
<1> USE DEF redis, rows, txn
<1>0. Types
  BY DEF IInv
<1>1. /\ pc[v] = "begin" /\ RecordIsFree(v)
      /\ UNCHANGED <<requests, api, losses, redis, faults>>
  BY DEF Begin
<1>2. CASE /\ Status(v) = "succeeded" /\ Release(v) /\ Goto(v, "ack")
           /\ UNCHANGED <<batch, epr, rows>>
  <2>1. IInv'
    BY <1>1, <1>2, SkipKeeps
  <2>2. LifecycleStep
    BY <1>1, <1>2, RowsKept
  <2> QED
    BY <2>1, <2>2
<1>3. CASE Status(v) # "succeeded" /\ ~visible[v] /\ CommitAs(v, "failed") /\ LeavePending(v)
  <2>1. faults' \in 0 .. MaxFaults
    BY <1>0, <1>1 DEF Types
  <2>2. Commits(v, "failed")
    BY <1>1, <1>3, <2>1 DEF Commits
  <2> QED
    BY <2>2, CommitKeeps, CommitStep
<1>4. CASE /\ Status(v) # "succeeded" /\ visible[v]
           /\ Goto(v, IF Event(v).stream = Loss THEN "propagate" ELSE "withdraw")
           /\ UNCHANGED <<batch, epr, rows, txn>>
  <2>1. IInv'
    BY <1>1, <1>4, ServeKeeps
  <2>2. LifecycleStep
    BY <1>1, <1>4, RowsKept
  <2> QED
    BY <2>1, <2>2
<1> QED
  BY <1>2, <1>3, <1>4 DEF Begin

LEMMA ServiceCommits ==
  ASSUME IInv, NEW v \in Workers, Succeed(v) \/ ServiceRaises(v)
  PROVE  IInv' /\ LifecycleStep
<1>0. Types
  BY DEF IInv
<1>1. CASE Succeed(v)
  <2>1. pc[v] = "succeed" /\ InService(v)
    BY <1>1 DEF Succeed, InService
  <2>2. Status(v) # "succeeded" /\ RecordIsFree(v)
    BY <2>1, InServiceCommits
  <2>3. faults' \in 0 .. MaxFaults
    BY <1>0, <1>1 DEF Types, Succeed
  <2>4. Commits(v, "succeeded")
    BY <1>1, <2>1, <2>2, <2>3 DEF Commits, Succeed
  <2> QED
    BY <2>4, CommitKeeps, CommitStep
<1>2. CASE ServiceRaises(v)
  <2>1. pc[v] \in {"withdraw", "propagate", "impact"} /\ InService(v)
    BY <1>2 DEF ServiceRaises, InService
  <2>2. Status(v) # "succeeded" /\ RecordIsFree(v)
    BY <2>1, InServiceCommits
  <2>3. faults' \in 0 .. MaxFaults
    BY <1>0, <1>2, FaultCounted DEF ServiceRaises
  <2>4. Commits(v, "failed")
    BY <1>2, <2>1, <2>2, <2>3 DEF Commits, ServiceRaises
  <2> QED
    BY <2>4, CommitKeeps, CommitStep
<1> QED
  BY <1>1, <1>2

LEMMA WorkerStepKeeps ==
  ASSUME IInv, NEW v \in Workers, WorkerStep(v)
  PROVE  IInv' /\ LifecycleStep
<1> USE DEF rows
<1>1. CASE StartWorker(v)
  BY <1>1, StartKeeps, RowsKept DEF StartWorker
<1>2. CASE ReadBatch(v)
  BY <1>2, ReadBatchKeeps, RowsKept DEF ReadBatch
<1>3. CASE ResolveScope(v)
  BY <1>3, ResolveScopeKeeps, RowsKept DEF ResolveScope
<1>4. CASE Begin(v)
  BY <1>4, BeginStep
<1>5. CASE LockAnswer(v)
  BY <1>5, LockAnswerKeeps, RowsKept DEF LockAnswer
<1>6. CASE WriteWithdrawal(v)
  BY <1>6, WriteWithdrawalKeeps, RowsKept DEF WriteWithdrawal
<1>7. CASE AuditWithdrawal(v)
  BY <1>7, AuditWithdrawalKeeps, RowsKept DEF AuditWithdrawal
<1>8. CASE PropagateToClaims(v)
  BY <1>8, PropagateToClaimsKeeps, RowsKept DEF PropagateToClaims
<1>9. CASE PropagateToAnswer(v)
  BY <1>9, PropagateToAnswerKeeps, RowsKept DEF PropagateToAnswer
<1>10. CASE Succeed(v)
  BY <1>10, ServiceCommits
<1>11. CASE Acknowledge(v)
  BY <1>11, AcknowledgeKeeps, RowsKept DEF Acknowledge
<1> QED
  BY <1>1, <1>2, <1>3, <1>4, <1>5, <1>6, <1>7, <1>8, <1>9, <1>10, <1>11
     DEF WorkerStep, ServiceStep

LEMMA ApiStepKeeps ==
  ASSUME IInv, NEW i \in DOMAIN requests, ApiStep(i) \/ LoseCommit(i)
  PROVE  IInv' /\ LifecycleStep
<1> USE DEF rows
<1>1. CASE AddEntry(i)
  BY <1>1, AddEntryKeeps, RowsKept DEF AddEntry
<1>2. CASE CommitLoss(i)
  <2>1. i \notin losses
    BY <1>2 DEF IInv, Detected, CommitLoss
  <2>2. Lifecycle!Detect(i) /\ i \in losses'
    BY <1>2, <2>1 DEF CommitLoss, Lifecycle!Detect
  <2>3. LifecycleStep
    BY <2>2 DEF LifecycleStep, Lifecycle!Next
  <2> QED
    BY <1>2, <2>3, LossAnswered
<1>3. CASE LoseCommit(i)
  BY <1>3, LossAnswered, RowsKept DEF LoseCommit
<1> QED
  BY <1>1, <1>2, <1>3 DEF ApiStep

LEMMA InitHolds ==
  ASSUME Init
  PROVE  IInv /\ Lifecycle!Init
<1> USE DEF Init
<1>1. Types
  <2>1. /\ <<>> \in Seq(Menu) /\ <<>> \in Seq(Audits) /\ <<>> \in Seq(Entries)
        /\ <<>> \in Seq({"open", "added", "accepted", "refused"}) /\ Len(api) = Len(requests)
    OBVIOUS
  <2>2. stream \in [Streams -> Seq(DOMAIN requests)]
    OBVIOUS
  <2>3. \A s \in Streams : cursor[s] <= Len(stream[s])
    OBVIOUS
  <2>4. faults \in 0 .. MaxFaults
    BY EventsAssumption DEF EventsAssumption
  <2> QED
    BY <2>1, <2>2, <2>3, <2>4 DEF Types
<1>2. Shape
  BY NothingIsWrites DEF Shape, PCs
<1>3. References
  <2>1. \A s \in Streams : DOMAIN stream[s] = {}
    OBVIOUS
  <2>2. \A w \in Workers : pel[w] = {} /\ DOMAIN batch[w] = {}
    OBVIOUS
  <2> QED
    BY <2>1, <2>2 DEF References
<1>4. Detected /\ RecordedOnce
  BY DEF Detected, RecordedOnce
<1>5. OneServer
  BY DEF OneServer, InService
<1>6. SucceededIsDone
  BY DEF SucceededIsDone
<1>7. \A w \in Workers : Scope(w) /\ Written(w)
  BY DEF Scope, Written, InService
<1>8. Lifecycle!Init
  BY DEF Lifecycle!Init
<1> QED
  BY <1>1, <1>2, <1>3, <1>4, <1>5, <1>6, <1>7, <1>8 DEF IInv

LEMMA NextKeeps ==
  ASSUME IInv, [Next]_vars
  PROVE  IInv' /\ LifecycleStep
<1>1. CASE Client
  <2>1. PICK r \in Menu : Accept(r)
    BY <1>1 DEF Client, RequestWithdrawal, CreateLoss
  <2> QED
    BY <2>1, AcceptKeeps, RowsKept DEF Accept, rows
<1>2. CASE \E i \in DOMAIN requests : ApiStep(i)
  BY <1>2, ApiStepKeeps
<1>3. CASE \E w \in Workers : WorkerStep(w)
  BY <1>3, WorkerStepKeeps
<1>4. CASE Failure
  <2>1. CASE \E i \in DOMAIN requests : LoseCommit(i)
    BY <2>1, ApiStepKeeps
  <2>2. CASE \E w \in Workers : ServiceRaises(w)
    BY <2>2, ServiceCommits
  <2>3. ASSUME NEW w \in Workers, Die(w), Fault \/ UNCHANGED faults
        PROVE  IInv' /\ LifecycleStep
    <3>1. faults' \in 0 .. MaxFaults
      BY <2>3, FaultCounted DEF IInv, Types
    <3>2. UNCHANGED <<losses, answer, history, recorded, trail>>
      BY <2>3 DEF Die, rows
    <3> QED
      BY <2>3, <3>1, <3>2, DieKeeps, RowsKept
  <2> QED
    BY <1>4, <2>1, <2>2, <2>3 DEF Failure, Crash, DeadlockAbort
<1>5. CASE Operator
  <2>1. PICK w \in Workers : \E e \in pel[w] : Requeue(w, e)
    BY <1>5 DEF Operator
  <2>2. PICK e \in pel[w] : Requeue(w, e)
    BY <2>1
  <2> QED
    BY <2>2, RequeueKeeps, RowsKept DEF Requeue, rows
<1>6. CASE UNCHANGED vars
  <2> USE DEF vars, redis, rows, txn
  <2>1. UNCHANGED <<losses, answer, history, recorded, trail>>
    BY <1>6
  <2>2. Types' /\ References' /\ Detected' /\ Extends /\ WorkersRest /\ losses \subseteq losses'
    BY <1>6 DEF IInv, Types, References, Delivered, Detected, Extends, WorkersRest, Shape
  <2> QED
    BY <2>1, <2>2, OutsideStep, RowsKept
<1> QED
  BY <1>1, <1>2, <1>3, <1>4, <1>5, <1>6 DEF Next, Quiet

-----------------------------------------------------------------------------
(* Theorems                                                                *)

\* The invariant behind the theorems holds in every reachable state.
THEOREM Invariant == Spec => []IInv
<1>1. Init => IInv
  BY InitHolds
<1>2. IInv /\ [Next]_vars => IInv'
  BY NextKeeps
<1> QED
  BY <1>1, <1>2, PTL DEF Spec

\* The variables keep their types, a worker has writes only inside a
\* transaction and an event only from its batch.
THEOREM TypesHold == Spec => []TypeOK
<1>1. IInv => TypeOK
  BY DEF IInv, Types, Shape, Scope, Written, TypeOK
<1> QED
  BY <1>1, Invariant, PTL

\* However requests, workers and faults are many, an entry is acknowledged only
\* when what it or a request under its key asked for is committed.
THEOREM AcknowledgedIsAlwaysDone == Spec => []AcknowledgedIsDone
<1>1. IInv => AcknowledgedIsDone
  <2> SUFFICES ASSUME IInv, NEW w \in Workers, pc[w] = "ack"
               PROVE  \E i \in DOMAIN requests : SameKey(i, Current(w)) /\ Done(i)
    BY DEF AcknowledgedIsDone
  <2>1. batch[w] # <<>> /\ Status(w) = "succeeded"
    BY DEF IInv, Scope
  <2>2. Event(w).stream \in Streams /\ Event(w).key \in Keys
    BY <2>1, CurrentIsRequest DEF IInv
  <2>3. epr[Event(w).stream][Event(w).key] = "succeeded"
    BY <2>1 DEF Status, RecordOf
  <2>4. PICK i \in DOMAIN requests :
          requests[i].stream = Event(w).stream /\ requests[i].key = Event(w).key /\ Done(i)
    BY <2>2, <2>3 DEF IInv, SucceededIsDone
  <2> QED
    BY <2>4 DEF SameKey, Event
<1> QED
  BY <1>1, Invariant, PTL

\* No failure between XADD and COMMIT leaves a committed loss without an entry.
THEOREM CommittedLossIsAlwaysEnqueued == Spec => []CommittedLossIsEnqueued
<1>1. IInv => CommittedLossIsEnqueued
  BY DEF IInv, Detected, Types, CommittedLossIsEnqueued
<1> QED
  BY <1>1, Invariant, PTL

\* The consumers implement AnswerLifecycle: every commit of a worker or of the
\* API is one of its steps, all others are invisible.
THEOREM Refinement == Spec => ImplementsLifecycle
<1>1. Init => Lifecycle!Init
  BY InitHolds
<1>2. IInv /\ [Next]_vars => [Lifecycle!Next]_(Lifecycle!vars)
  BY NextKeeps DEF LifecycleStep
<1> QED
  BY <1>1, <1>2, Invariant, PTL DEF Spec, ImplementsLifecycle, Lifecycle!Spec
=============================================================================
