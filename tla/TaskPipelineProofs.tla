-------------------------- MODULE TaskPipelineProofs --------------------------
(***************************************************************************)
(* Proofs about TaskPipeline.                                              *)
(*                                                                         *)
(* What a worker in the handler works on is the committed row under the    *)
(* columns it has written (View).  The inductive invariant says that this  *)
(* row is good but for the transition still to be audited, that it is a    *)
(* later version of the committed row, and that it has what the rest of    *)
(* the handler relies on.  All of it is stated of values (a row, the       *)
(* columns over it, the event owed, the stage), and so are the lemmas on   *)
(* what one statement of the handler does to them; that a commit by one    *)
(* worker leaves the work of another sound is one more such lemma          *)
(* (WorksOnNewRow), and what the two row locks are for.                    *)
(***************************************************************************)
EXTENDS TaskPipeline, SequenceTheorems, TLAPS

-----------------------------------------------------------------------------
(* The inductive invariant                                                 *)

Events == DOMAIN Edge \cup Steps

\* The statuses of a task that was analysed.
Later == {"analyzed_partial", "compiling", "published"}

\* The task has been taken to the compile stage.
Entered(row) ==
  \/ row.status \in {"compiling", "published"}
  \/ row.status = "analyzed_partial" /\ row.report # "none"

\* Claim, draft, report and answer of a row fit together, and with its status.
Fits(row, status) ==
  /\ row.draft = "spans" => row.claim \in {"verified", "lost"}
  /\ row.report # "none" => row.draft # "none" /\ row.docs /\ status \in Later
  /\ row.report = "approved" => row.draft = "spans"
  /\ row.report = "rejected" => row.draft = "empty" \/ row.claim = "lost"
  /\ row.answer <=> row.report = "approved"
  /\ status = "published" => row.answer
  /\ status = "analyzed_partial" /\ row.report = "approved" => row.claim = "lost"
  /\ status = "blocked" => ~row.docs /\ row.report = "none"

\* The analysis is in the trail once if at all, its three events in a row, the
\* last ones of which may be missing.
Analysed(events, status) ==
  /\ \A i, j \in DOMAIN events :
       events[i] = "analyzed_partial" /\ events[j] = "analyzed_partial" => i = j
  /\ \A i \in DOMAIN events : i + 1 \in DOMAIN events =>
       /\ events[i] = "analyzed_partial" <=> events[i + 1] = "source_quality_assessed"
       /\ events[i] = "source_quality_assessed" <=> events[i + 1] = "entailment_checked"
  /\ status \in Later <=> \E i \in DOMAIN events : events[i] = "analyzed_partial"

Last(events) == events[Len(events)]
Complete(events) == Last(events) \notin {"analyzed_partial", "source_quality_assessed"}

\* The row, were its status status, is good.
GoodAs(row, status) ==
  /\ row \in Rows /\ status # "none"
  /\ Replays(row.trail, status) /\ Analysed(row.trail, status) /\ Fits(row, status)
Good(row) == GoodAs(row, row.status)

\* What is true of a row and stays so in later versions of it.
Evolves(r, s) ==
  /\ s.docs = r.docs
  /\ r.claim = "lost" => s.claim = "lost"
  /\ r.draft # "none" => s.draft = r.draft
  /\ r.report # "none" => s.report = r.report
  /\ r.answer => s.answer
  /\ r.status \in Later => s.status \in Later
  /\ Entered(r) => Entered(s)
  /\ r.status \in {"blocked", "published"} => s.status = r.status

\* What the handler relies on at stage p, owing event e.
WithDocs ==
  {"pipeline", "stage", "extract", "verify", "to_partial", "quality", "entailment",
   "to_compiling", "compile", "gate", "to_published", "to_held"}
Relies(p, e, row) ==
  /\ p = "block" \/ e = "blocked" => ~row.docs
  /\ p \in WithDocs => row.docs
  /\ p = "to_compiling" => row.status \in Later
  /\ p \in {"compile", "gate", "to_published", "to_held"} => Entered(row)
  /\ p = "gate" => row.draft # "none"
  /\ p = "to_published" \/ e = "published" => row.answer
  /\ p = "to_held" \/ e = "publication_held" =>
       row.report # "none" /\ (row.report = "rejected" \/ row.claim = "lost")

\* How far the audits of the analysis have got in a trail of the transaction's.
Audited(p, e, m, trail) ==
  /\ p = "quality" /\ e # "none" <=> e = "analyzed_partial"
  /\ p = "entailment" => e = "none"
  /\ p \in {"quality", "entailment"} /\ e = "none" => "trail" \in DOMAIN m
  /\ Last(trail) = "analyzed_partial" <=> p = "quality" /\ e = "none"
  /\ Last(trail) = "source_quality_assessed" <=> p = "entailment"

\* The columns m written over the committed row d: a transaction that has any,
\* and does not owe the audit event e of a new status, has the trail.
Columns == {"status", "docs", "sound", "claim", "draft", "report", "answer", "trail"}
Writes(m, d, e) ==
  /\ DOMAIN m \subseteq Columns \ {"docs", "sound"}
  /\ "status" \in DOMAIN m => d.status \notin {"blocked", "published"}
  /\ "trail" \notin DOMAIN m => DOMAIN m \subseteq {"status"}
  /\ e = "none" /\ "trail" \notin DOMAIN m => m = Nothing
  /\ e # "none" =>
       /\ "status" \in DOMAIN m /\ m["status"] = Edge[e][2]
       /\ "trail" \notin DOMAIN m => d.status = Edge[e][1]

\* The status of the row before the transition that is not audited yet.
Before(row, e) == IF e = "none" THEN row.status ELSE Edge[e][1]

\* The work of a transaction at stage p that wrote m over d and owes e.
Works(m, d, e, p) ==
  LET row == Overlay(m, d) IN
  /\ Writes(m, d, e)
  /\ row \in Rows /\ GoodAs(row, Before(row, e)) /\ Evolves(d, row)
  /\ Relies(p, e, row) /\ Audited(p, e, m, row.trail)

\* Only the holder of a task's row has a new status of it, and only the holder
\* of the head of its trail has other columns.
Locks(w) ==
  /\ "status" \in DOMAIN mine[w] => rowLock[Task(w)] = w
  /\ "trail" \in DOMAIN mine[w] => headLock[Task(w)] = w

Transacting(w) ==
  batch[w] # <<>> /\ Locks(w) /\ Works(mine[w], db[Task(w)], todo[w], pc[w])

Resting(w) ==
  /\ mine[w] = Nothing /\ todo[w] = "none"
  /\ pc[w] = "ack" => batch[w] # <<>>

PCs ==
  {"down", "idle", "ack", "advance", "block", "pipeline", "stage", "extract", "verify",
   "to_partial", "quality", "entailment", "to_compiling", "compile", "gate",
   "to_published", "to_held", "finish"}

\* The type invariant, but for the rows workers in the handler work on.
Types ==
  /\ db \in [Tasks -> Rows]
  /\ unsent \subseteq Tasks
  /\ stream \in Seq(Tasks) /\ cursor \in 0 .. Len(stream) /\ group \in BOOLEAN
  /\ pel \in [Workers -> SUBSET (1 .. cursor)]
  /\ batch \in [Workers -> Seq(1 .. cursor)]
  /\ epr \in [Workers -> [Keys -> {"none", "failed", "succeeded"}]]
  /\ pc \in [Workers -> PCs]
  /\ todo \in [Workers -> DOMAIN Edge \cup {"none"}]
  /\ mine = [w \in Workers |-> mine[w]]
  /\ rowLock \in [Tasks -> Workers \cup {Nobody}]
  /\ headLock \in [Tasks -> Workers \cup {Nobody}]
  /\ faults \in 0 .. MaxFaults /\ dups \in 0 .. MaxDups /\ losses \in 0 .. MaxLosses

\* Committed rows.
GoodRow(row) == Good(row) /\ Complete(row.trail)
RowsGood == \A t \in Tasks : db[t] = NoTask \/ GoodRow(db[t])

\* Tasks with an event exist.
Known ==
  /\ \A t \in unsent : db[t] # NoTask
  /\ \A i \in DOMAIN stream : db[stream[i]] # NoTask

WorkerOk(w) == IF InHandler(w) THEN Transacting(w) ELSE Resting(w)

IInv == Types /\ RowsGood /\ Known /\ \A w \in Workers : WorkerOk(w)

-----------------------------------------------------------------------------
(* Appending to a trail                                                    *)

\* Where the elements of a longer sequence come from.
LEMMA Appended ==
  ASSUME NEW S, NEW s \in Seq(S), NEW e \in S
  PROVE  /\ Append(s, e) \in Seq(S)
         /\ Len(s) \in Nat /\ DOMAIN s = 1 .. Len(s)
         /\ Len(Append(s, e)) = Len(s) + 1
         /\ DOMAIN Append(s, e) = 1 .. (Len(s) + 1)
         /\ \A i \in 1 .. Len(s) : Append(s, e)[i] = s[i]
         /\ Append(s, e)[Len(s) + 1] = e
  BY AppendProperties, LenProperties

\* An event that is no transition leaves the walk as it was.
LEMMA ReplaysStep ==
  ASSUME NEW s \in Seq(Events), NEW e \in Events, e \notin DOMAIN Edge,
         NEW status, Replays(s, status)
  PROVE  Replays(Append(s, e), status)
<1> DEFINE r == Append(s, e)
           moves == {i \in DOMAIN s : IsTransition(s[i])}
           moves2 == {i \in DOMAIN r : IsTransition(r[i])}
<1>1. /\ Len(s) \in Nat /\ DOMAIN s = 1 .. Len(s) /\ DOMAIN r = 1 .. (Len(s) + 1)
      /\ \A i \in 1 .. Len(s) : r[i] = s[i]
      /\ r[Len(s) + 1] = e
  BY Appended
<1> HIDE DEF r
<1>2. moves2 = moves
  BY <1>1 DEF IsTransition
<1>3. \A i \in moves : r[i] = s[i]
  BY <1>1
<1>4. /\ 1 \in moves /\ s[1] = "created"
      /\ \A i, j \in moves : i < j /\ (\A m \in moves : ~(i < m /\ m < j)) =>
           Edge[s[i]][2] = Edge[s[j]][1]
      /\ \E i \in moves : (\A m \in moves : m <= i) /\ Edge[s[i]][2] = status
  BY DEF Replays
<1> HIDE DEF moves, moves2
<1>5. /\ 1 \in moves2 /\ r[1] = "created"
      /\ \A i, j \in moves2 : i < j /\ (\A m \in moves2 : ~(i < m /\ m < j)) =>
           Edge[r[i]][2] = Edge[r[j]][1]
      /\ \E i \in moves2 : (\A m \in moves2 : m <= i) /\ Edge[r[i]][2] = status
  BY <1>2, <1>3, <1>4
<1> QED
  BY <1>5 DEF Replays, moves2, r

\* A transition out of the status the walk has reached extends it.
LEMMA ReplaysMove ==
  ASSUME NEW s \in Seq(Events), NEW e \in DOMAIN Edge, Replays(s, Edge[e][1])
  PROVE  Replays(Append(s, e), Edge[e][2])
<1> DEFINE r == Append(s, e)
           n == Len(s)
           moves == {i \in DOMAIN s : IsTransition(s[i])}
           moves2 == {i \in DOMAIN r : IsTransition(r[i])}
<1>1. /\ n \in Nat /\ DOMAIN s = 1 .. n /\ DOMAIN r = 1 .. (n + 1)
      /\ \A i \in 1 .. n : r[i] = s[i]
      /\ r[n + 1] = e
  BY Appended DEF Events
<1> HIDE DEF r, n
<1>2. moves2 = moves \cup {n + 1} /\ moves \subseteq 1 .. n
  BY <1>1 DEF IsTransition
<1>3. \A i \in moves : r[i] = s[i]
  BY <1>1
<1>4. /\ 1 \in moves /\ s[1] = "created"
      /\ \A i, j \in moves : i < j /\ (\A m \in moves : ~(i < m /\ m < j)) =>
           Edge[s[i]][2] = Edge[s[j]][1]
      /\ \E i \in moves : (\A m \in moves : m <= i) /\ Edge[s[i]][2] = Edge[e][1]
  BY DEF Replays
<1> HIDE DEF moves, moves2
<1>5. PICK k \in moves : (\A m \in moves : m <= k) /\ Edge[s[k]][2] = Edge[e][1]
  BY <1>4
<1>6. ASSUME NEW i \in moves2, NEW j \in moves2, i < j,
             \A m \in moves2 : ~(i < m /\ m < j)
      PROVE  Edge[r[i]][2] = Edge[r[j]][1]
  <2>1. CASE j \in moves
    <3>1. i \in moves
      <4>1. j \in 1 .. n /\ i \in moves \cup {n + 1}
        BY <1>2, <2>1
      <4>2. i # n + 1
        BY <1>1, <1>6, <4>1
      <4> QED
        BY <4>1, <4>2
    <3> QED
      BY <1>2, <1>3, <1>4, <1>6, <2>1, <3>1
  <2>2. CASE j = n + 1
    <3>1. i \in moves
      BY <1>1, <1>2, <1>6, <2>2
    <3>2. i = k
      BY <1>1, <1>2, <1>5, <1>6, <2>2, <3>1
    <3> QED
      BY <1>1, <1>3, <1>5, <2>2, <3>2
  <2> QED
    BY <1>2, <2>1, <2>2
<1>7. /\ n + 1 \in moves2 /\ \A m \in moves2 : m <= n + 1
      /\ Edge[r[n + 1]][2] = Edge[e][2]
  BY <1>1, <1>2
<1>8. 1 \in moves2 /\ r[1] = "created"
  BY <1>2, <1>3, <1>4
<1>9. /\ 1 \in moves2 /\ r[1] = "created"
      /\ \A i, j \in moves2 : i < j /\ (\A m \in moves2 : ~(i < m /\ m < j)) =>
           Edge[r[i]][2] = Edge[r[j]][1]
      /\ \E i \in moves2 : (\A m \in moves2 : m <= i) /\ Edge[r[i]][2] = Edge[e][2]
  BY <1>6, <1>7, <1>8
<1> QED
  BY <1>9 DEF Replays, moves2, r

\* Trails are not empty.
LEMMA ReplaysNonEmpty ==
  ASSUME NEW s \in Seq(Events), NEW status, Replays(s, status)
  PROVE  Len(s) \in Nat \ {0} /\ Len(s) \in DOMAIN s /\ DOMAIN s = 1 .. Len(s)
  BY LenProperties DEF Replays

\* The next event of a trail keeps the analysis in one piece when it is the one
\* that is due, or none is due and it starts no other.
Due(last, e) ==
  /\ last = "analyzed_partial" <=> e = "source_quality_assessed"
  /\ last = "source_quality_assessed" <=> e = "entailment_checked"

LEMMA AnalysedAppend ==
  ASSUME NEW s \in Seq(Events), NEW e \in Events, NEW from, NEW to, Len(s) # 0,
         Analysed(s, from), Due(Last(s), e),
         e = "analyzed_partial" => from \notin Later,
         to \in Later <=> from \in Later \/ e = "analyzed_partial"
  PROVE  Analysed(Append(s, e), to)
<1> DEFINE r == Append(s, e)
           n == Len(s)
<1>1. /\ n \in Nat \ {0} /\ DOMAIN s = 1 .. n /\ DOMAIN r = 1 .. (n + 1)
      /\ \A i \in 1 .. n : r[i] = s[i]
      /\ r[n + 1] = e
  BY Appended
<1>2. (s[n] = "analyzed_partial" <=> e = "source_quality_assessed")
      /\ (s[n] = "source_quality_assessed" <=> e = "entailment_checked")
  BY DEF Due, Last
<1> HIDE DEF r, n
<1>3. ASSUME NEW i \in DOMAIN r, NEW j \in DOMAIN r,
             r[i] = "analyzed_partial", r[j] = "analyzed_partial"
      PROVE  i = j
  BY <1>1, <1>3 DEF Analysed
<1>4. ASSUME NEW i \in DOMAIN r, i + 1 \in DOMAIN r
      PROVE  /\ r[i] = "analyzed_partial" <=> r[i + 1] = "source_quality_assessed"
             /\ r[i] = "source_quality_assessed" <=> r[i + 1] = "entailment_checked"
  <2>1. CASE i = n
    BY <1>1, <1>2, <2>1
  <2>2. CASE i # n
    BY <1>1, <1>4, <2>2 DEF Analysed
  <2> QED
    BY <2>1, <2>2
<1>5. to \in Later <=> \E i \in DOMAIN r : r[i] = "analyzed_partial"
  BY <1>1 DEF Analysed
<1>6. Analysed(r, to)
  BY <1>3, <1>4, <1>5 DEF Analysed
<1> QED
  BY <1>6 DEF r

-----------------------------------------------------------------------------
(* Columns over a row                                                      *)

Claims == {"none", "verified", "unsupported", "lost"}
Drafts == {"none", "spans", "empty"}
Reports == {"none", "approved", "rejected"}

LEMMA OverlayFields ==
  ASSUME NEW c, NEW row \in Rows, DOMAIN c \subseteq Columns
  PROVE  /\ DOMAIN row = Columns /\ DOMAIN Overlay(c, row) = Columns
         /\ \A x \in Columns : Overlay(c, row)[x] = IF x \in DOMAIN c THEN c[x] ELSE row[x]
  BY DEF Overlay, Columns, Rows

LEMMA OverlayIsRow ==
  ASSUME NEW c, NEW row \in Rows, DOMAIN c \subseteq Columns, NEW r, r = Overlay(c, row),
         r["status"] \in Statuses \cup {"none"}, r["docs"] \in BOOLEAN,
         r["sound"] \in BOOLEAN, r["claim"] \in Claims, r["draft"] \in Drafts,
         r["report"] \in Reports, r["answer"] \in BOOLEAN, r["trail"] \in Seq(Events)
  PROVE  r \in Rows
<1>1. r = [x \in Columns |-> r[x]]
  BY OverlayFields DEF Overlay
<1> QED
  BY <1>1 DEF Rows, Columns, Claims, Drafts, Reports, Events

LEMMA OverlayAssociates ==
  ASSUME NEW c, NEW m, NEW d
  PROVE  Overlay(Overlay(c, m), d) = Overlay(c, Overlay(m, d))
  BY DEF Overlay

LEMMA OverlayColumns ==
  ASSUME NEW c, NEW m
  PROVE  /\ DOMAIN Overlay(c, m) = DOMAIN c \cup DOMAIN m
         /\ \A x \in DOMAIN c : Overlay(c, m)[x] = c[x]
         /\ \A x \in DOMAIN m \ DOMAIN c : Overlay(c, m)[x] = m[x]
  BY DEF Overlay

LEMMA OverlayNothing ==
  ASSUME NEW row \in Rows
  PROVE  Overlay(Nothing, row) = row /\ DOMAIN Nothing = {}
<1>1. row = [x \in Columns |-> row[x]] /\ DOMAIN row = Columns
  BY DEF Rows, Columns
<1>2. DOMAIN Nothing = {}
  BY DEF Nothing
<1> QED
  BY <1>1, <1>2 DEF Overlay

\* The columns an audited step writes, and the row they make of row.
Appends(row, e, writes) == Overlay([trail |-> Append(row.trail, e)], writes)
Appending(row, e, writes) == Overlay(Appends(row, e, writes), row)
Ledger == {"claim", "draft", "report", "answer"}

\* The columns of c are those.
WrittenBy(c, row, e, writes) ==
  /\ DOMAIN c = DOMAIN writes \cup {"trail"}
  /\ c["trail"] = Append(row.trail, e)
  /\ \A x \in DOMAIN writes : x # "trail" => c[x] = writes[x]

LEMMA AppendsColumns ==
  ASSUME NEW row, NEW e, NEW writes
  PROVE  WrittenBy(Appends(row, e, writes), row, e, writes)
<1> DEFINE c == Appends(row, e, writes)
<1> DEFINE t == [trail |-> Append(row.trail, e)]
<1>1. DOMAIN t = {"trail"} /\ t["trail"] = Append(row.trail, e)
  OBVIOUS
<1>2. c = Overlay(t, writes)
  BY DEF Appends
<1> HIDE DEF t, c
<1>3. WrittenBy(c, row, e, writes)
  BY <1>1, <1>2 DEF Overlay, WrittenBy
<1> QED
  BY <1>3 DEF c

LEMMA AppendingFields ==
  ASSUME NEW row \in Rows, NEW e \in Events, NEW writes, DOMAIN writes \subseteq Ledger
  PROVE  LET r == Appending(row, e, writes) IN
         /\ r.status = row.status /\ r.docs = row.docs /\ r.sound = row.sound
         /\ r.trail = Append(row.trail, e)
         /\ \A x \in Ledger : r[x] = IF x \in DOMAIN writes THEN writes[x] ELSE row[x]
<1> DEFINE c == Appends(row, e, writes)
           r == Overlay(c, row)
<1>1. /\ DOMAIN c = DOMAIN writes \cup {"trail"} /\ DOMAIN c \subseteq Columns
      /\ c["trail"] = Append(row.trail, e)
      /\ \A x \in DOMAIN writes : c[x] = writes[x]
  <2>1. WrittenBy(c, row, e, writes)
    BY AppendsColumns
  <2> HIDE DEF c
  <2> QED
    BY <2>1 DEF WrittenBy, Columns, Ledger
<1> HIDE DEF c
<1>2. \A x \in Columns : r[x] = IF x \in DOMAIN c THEN c[x] ELSE row[x]
  BY <1>1, OverlayFields
<1> HIDE DEF r
<1>3. /\ r["status"] = row["status"] /\ r["docs"] = row["docs"]
      /\ r["sound"] = row["sound"] /\ r["trail"] = Append(row.trail, e)
  BY <1>1, <1>2 DEF Columns, Ledger
<1>4. \A x \in Ledger : r[x] = IF x \in DOMAIN writes THEN writes[x] ELSE row[x]
  BY <1>1, <1>2 DEF Columns, Ledger
<1> QED
  BY <1>3, <1>4 DEF Appending, r, c

LEMMA AppendingIsRow ==
  ASSUME NEW row \in Rows, NEW e \in Events, NEW writes, DOMAIN writes \subseteq Ledger,
         NEW r, r = Appending(row, e, writes),
         r.claim \in Claims, r.draft \in Drafts, r.report \in Reports, r.answer \in BOOLEAN
  PROVE  r \in Rows
<1>1. /\ r.status = row.status /\ r.docs = row.docs /\ r.sound = row.sound
      /\ r.trail = Append(row.trail, e)
  BY AppendingFields
<1>2. /\ row.status \in Statuses \cup {"none"} /\ row.docs \in BOOLEAN
      /\ row.sound \in BOOLEAN /\ row.trail \in Seq(Events)
  BY DEF Rows, Events
<1>3. Append(row.trail, e) \in Seq(Events)
  BY <1>2, Appended
<1>4. DOMAIN Appends(row, e, writes) \subseteq Columns
  <2>1. DOMAIN Appends(row, e, writes) = DOMAIN writes \cup {"trail"}
    BY AppendsColumns DEF WrittenBy
  <2> QED
    BY <2>1 DEF Columns, Ledger
<1>5. r = Overlay(Appends(row, e, writes), row)
  BY DEF Appending
<1> QED
  BY <1>1, <1>2, <1>3, <1>4, <1>5, OverlayIsRow

\* The row under a new status.
LEMMA StatusFields ==
  ASSUME NEW row \in Rows, NEW to \in Statuses,
         NEW r, r = Overlay([status |-> to], row)
  PROVE  /\ r \in Rows /\ r.status = to
         /\ r.docs = row.docs /\ r.sound = row.sound /\ r.claim = row.claim
         /\ r.draft = row.draft /\ r.report = row.report /\ r.answer = row.answer
         /\ r.trail = row.trail
<1> DEFINE c == [status |-> to]
<1>1. DOMAIN c = {"status"} /\ c["status"] = to /\ DOMAIN c \subseteq Columns
  BY DEF Columns
<1> HIDE DEF c
<1>2. \A x \in Columns : r[x] = IF x \in DOMAIN c THEN c[x] ELSE row[x]
  BY <1>1, OverlayFields DEF c
<1>3. /\ r["status"] = to /\ \A x \in Columns \ {"status"} : r[x] = row[x]
  BY <1>1, <1>2 DEF Columns
<1>4. /\ row["docs"] \in BOOLEAN /\ row["sound"] \in BOOLEAN /\ row["claim"] \in Claims
      /\ row["draft"] \in Drafts /\ row["report"] \in Reports /\ row["answer"] \in BOOLEAN
      /\ row["trail"] \in Seq(Events)
  BY DEF Rows, Claims, Drafts, Reports, Events
<1>5. r \in Rows
  <2>1. r = Overlay(c, row)
    BY DEF c
  <2>2. /\ r["docs"] = row["docs"] /\ r["sound"] = row["sound"]
        /\ r["claim"] = row["claim"] /\ r["draft"] = row["draft"]
        /\ r["report"] = row["report"] /\ r["answer"] = row["answer"]
        /\ r["trail"] = row["trail"]
    BY <1>3 DEF Columns
  <2> QED
    BY <1>1, <1>3, <1>4, <2>1, <2>2, OverlayIsRow
<1> QED
  BY <1>3, <1>5 DEF Columns

-----------------------------------------------------------------------------
(* What a statement of the handler does to the work of its transaction     *)

LEMMA EvolvesReflexive ==
  ASSUME NEW r
  PROVE  Evolves(r, r)
  BY DEF Evolves

LEMMA EvolvesTransitive ==
  ASSUME NEW r, NEW s, NEW u, Evolves(r, s), Evolves(s, u)
  PROVE  Evolves(r, u)
  BY DEF Evolves

LEMMA EdgeFacts ==
  /\ \A e \in DOMAIN Edge : Edge[e][2] \in Statuses /\ Edge[e][1] \in Statuses \cup {"none"}
  /\ \A e \in DOMAIN Edge : Edge[e][1] \notin {"blocked", "published"}
  /\ DOMAIN Edge \cap Steps = {} /\ "none" \notin DOMAIN Edge
  /\ DOMAIN Edge \subseteq Events /\ Steps \subseteq Events
  BY DEF Edge, Statuses, Steps, Events

\* A row with a trail has at least the event of its creation.
LEMMA TrailOf ==
  ASSUME NEW row \in Rows, NEW status, GoodAs(row, status)
  PROVE  /\ row.trail \in Seq(Events) /\ Len(row.trail) \in Nat \ {0}
         /\ Len(row.trail) # 0
         /\ \A e \in Events : /\ Append(row.trail, e) \in Seq(Events)
                              /\ Last(Append(row.trail, e)) = e
<1>1. row.trail \in Seq(Events)
  BY DEF Rows, Events
<1>2. Len(row.trail) \in Nat \ {0}
  BY <1>1, ReplaysNonEmpty DEF GoodAs
<1>3. \A e \in Events : Append(row.trail, e) \in Seq(Events) /\ Last(Append(row.trail, e)) = e
  BY <1>1, Appended DEF Last
<1> QED
  BY <1>1, <1>2, <1>3

\* The order of the steps of the analysis, from stage p to stage next.
Follows(p, e, next) ==
  /\ p = "quality" <=> e = "source_quality_assessed"
  /\ p = "entailment" <=> e = "entailment_checked"
  /\ next = "entailment" <=> p = "quality"
  /\ next # "quality"

\* An audited step that keeps the row in order.
LEMMA StepWorks ==
  ASSUME NEW d \in Rows, NEW m, NEW p, NEW next, NEW e \in Steps, NEW writes,
         DOMAIN writes \subseteq Ledger, Works(m, d, "none", p),
         NEW row, row = Overlay(m, d), NEW c, c = Appends(row, e, writes),
         NEW r, r = Appending(row, e, writes),
         r \in Rows, Fits(r, row.status), Evolves(row, r), Relies(next, "none", r),
         Follows(p, e, next)
  PROVE  Works(Overlay(c, m), d, "none", next)
<1> DEFINE m2 == Overlay(c, m)
<1>1. /\ Writes(m, d, "none") /\ row \in Rows /\ GoodAs(row, row.status)
      /\ Evolves(d, row) /\ Audited(p, "none", m, row.trail)
  BY DEF Works, Before
<1>2. e \in Events /\ e \notin DOMAIN Edge
  BY EdgeFacts
<1>3. DOMAIN c = DOMAIN writes \cup {"trail"} /\ r.status = row.status
      /\ r.trail = Append(row.trail, e)
  <2>1. DOMAIN c = DOMAIN writes \cup {"trail"}
    BY AppendsColumns DEF WrittenBy
  <2>2. r.status = row.status /\ r.trail = Append(row.trail, e)
    BY <1>1, <1>2, AppendingFields
  <2> QED
    BY <2>1, <2>2
<1>4. r = Overlay(m2, d) /\ DOMAIN m2 = DOMAIN c \cup DOMAIN m
  <2>1. r = Overlay(c, Overlay(m, d))
    BY DEF Appending
  <2>2. Overlay(Overlay(c, m), d) = Overlay(c, Overlay(m, d))
    BY OverlayAssociates
  <2>3. DOMAIN Overlay(c, m) = DOMAIN c \cup DOMAIN m
    BY OverlayColumns
  <2> QED
    BY <2>1, <2>2, <2>3
<1>5. /\ row.trail \in Seq(Events) /\ Len(row.trail) # 0
      /\ Last(Append(row.trail, e)) = e
  BY <1>1, <1>2, TrailOf
<1>6. Writes(m2, d, "none")
  <2>1. DOMAIN m2 \subseteq Columns \ {"docs", "sound"} /\ "trail" \in DOMAIN m2
    BY <1>1, <1>3, <1>4 DEF Writes, Columns, Ledger
  <2>2. "status" \in DOMAIN m2 => "status" \in DOMAIN m
    BY <1>3, <1>4 DEF Ledger
  <2> QED
    BY <1>1, <2>1, <2>2 DEF Writes
<1>7. GoodAs(r, r.status)
  <2>1. Replays(r.trail, r.status)
    BY <1>1, <1>2, <1>3, <1>5, ReplaysStep DEF GoodAs
  <2>2. Due(Last(row.trail), e)
    BY <1>1 DEF Audited, Follows, Due
  <2>3. e # "analyzed_partial"
    BY <1>2 DEF Edge
  <2>4. Analysed(row.trail, row.status)
    BY <1>1 DEF GoodAs
  <2>5. Analysed(r.trail, r.status)
    BY <1>2, <1>3, <1>5, <2>2, <2>3, <2>4, AnalysedAppend
  <2> QED
    BY <1>1, <1>3, <2>1, <2>5 DEF GoodAs
<1>8. Evolves(d, r)
  BY <1>1, EvolvesTransitive
<1>9. Audited(next, "none", m2, r.trail)
  <2>1. "trail" \in DOMAIN m2
    BY <1>3, <1>4
  <2>2. e # "analyzed_partial"
    BY <1>2 DEF Edge
  <2> QED
    BY <1>3, <1>5, <2>1, <2>2 DEF Audited, Follows
<1> HIDE DEF m2
<1>10. Works(m2, d, "none", next)
  BY <1>4, <1>6, <1>7, <1>8, <1>9 DEF Works, Before
<1> QED
  BY <1>10 DEF m2

\* A transition whose guard matched: its event is owed now.
LEMMA TransitionWorks ==
  ASSUME NEW d \in Rows, NEW m, NEW p, NEW next, NEW e \in DOMAIN Edge, e # "created",
         Works(m, d, "none", p), p \notin {"quality", "entailment"},
         NEW row, row = Overlay(m, d), row.status = Edge[e][1],
         NEW c, c = [status |-> Edge[e][2]], NEW r, r = Overlay(c, row),
         Relies(next, e, r), next # "entailment",
         next = "quality" <=> e = "analyzed_partial"
  PROVE  Works(Overlay(c, m), d, e, next)
<1> DEFINE m2 == Overlay(c, m)
<1>1. /\ Writes(m, d, "none") /\ row \in Rows /\ GoodAs(row, row.status)
      /\ Evolves(d, row) /\ Audited(p, "none", m, row.trail)
      /\ Relies(p, "none", row)
  BY DEF Works, Before
<1>2. /\ Edge[e][2] \in Statuses /\ Edge[e][1] \notin {"blocked", "published"}
      /\ e # "none"
  BY EdgeFacts
<1>3. /\ r \in Rows /\ r.status = Edge[e][2]
      /\ r.docs = row.docs /\ r.sound = row.sound /\ r.claim = row.claim
      /\ r.draft = row.draft /\ r.report = row.report /\ r.answer = row.answer
      /\ r.trail = row.trail
  BY <1>1, <1>2, StatusFields
<1>4. r = Overlay(m2, d) /\ DOMAIN m2 = {"status"} \cup DOMAIN m /\ m2["status"] = Edge[e][2]
  <2>1. DOMAIN c = {"status"} /\ c["status"] = Edge[e][2]
    OBVIOUS
  <2>2. r = Overlay(m2, d)
    BY OverlayAssociates
  <2>3. DOMAIN m2 = DOMAIN c \cup DOMAIN m
    BY OverlayColumns
  <2>4. \A x \in DOMAIN c : Overlay(c, m)[x] = c[x]
    BY ONLY OverlayColumns
  <2> QED
    BY <2>1, <2>2, <2>3, <2>4
<1>5. Writes(m2, d, e)
  <2>1. "trail" \notin DOMAIN m2 => m = Nothing
    BY <1>1, <1>4 DEF Writes
  <2>2. "trail" \notin DOMAIN m2 => d.status = Edge[e][1]
    BY <2>1, OverlayNothing
  <2>3. d.status \notin {"blocked", "published"}
    BY <1>1, <1>2 DEF Evolves
  <2>4. DOMAIN m2 \subseteq Columns \ {"docs", "sound"}
    BY <1>1, <1>4 DEF Writes, Columns
  <2>5. "trail" \notin DOMAIN m2 => DOMAIN m2 \subseteq {"status"}
    BY <1>1, <1>4 DEF Writes
  <2> QED
    BY <1>2, <1>4, <2>2, <2>3, <2>4, <2>5 DEF Writes
<1>6. GoodAs(r, Edge[e][1])
  <2>1. Fits(r, Edge[e][1])
    BY <1>1, <1>3 DEF GoodAs, Fits
  <2> QED
    BY <1>1, <1>3, <2>1 DEF GoodAs
<1>7. Evolves(row, r)
  <2>1. row.status \in Later => r.status \in Later
    BY <1>3 DEF Edge, Later
  <2>2. Entered(row) => Entered(r)
    <3>1. CASE e = "publication_held"
      BY <1>3, <3>1 DEF Entered, Relies, Edge
    <3>2. CASE e # "publication_held"
      BY <1>3, <3>2 DEF Entered, Edge
    <3> QED
      BY <3>1, <3>2
  <2> QED
    BY <1>2, <1>3, <2>1, <2>2 DEF Evolves
<1>8. Evolves(d, r)
  BY <1>1, <1>7, EvolvesTransitive
<1>9. Audited(next, e, m2, r.trail)
  BY <1>1, <1>2, <1>3 DEF Audited
<1> HIDE DEF m2
<1>10. Works(m2, d, e, next)
  BY <1>2, <1>3, <1>4, <1>5, <1>6, <1>8, <1>9 DEF Works, Before
<1> QED
  BY <1>10 DEF m2

\* A step that writes nothing.
LEMMA MoveWorks ==
  ASSUME NEW d, NEW m, NEW p, NEW next, Works(m, d, "none", p),
         p \notin {"quality", "entailment"}, next \notin {"quality", "entailment"},
         Relies(next, "none", Overlay(m, d))
  PROVE  Works(m, d, "none", next)
  BY DEF Works, Audited, Before

\* The audit of the transition: the row is good under the new status.
LEMMA AuditWorks ==
  ASSUME NEW d \in Rows, NEW m, NEW p, NEW e \in DOMAIN Edge, Works(m, d, e, p),
         NEW row, row = Overlay(m, d),
         NEW c, c = [trail |-> Append(row.trail, e)]
  PROVE  Works(Overlay(c, m), d, "none", p)
<1> DEFINE m2 == Overlay(c, m)
           r == Overlay(m2, d)
<1>1. /\ Writes(m, d, e) /\ row \in Rows /\ GoodAs(row, Edge[e][1])
      /\ Evolves(d, row) /\ Audited(p, e, m, row.trail)
      /\ Relies(p, e, row)
  BY EdgeFacts DEF Works, Before
<1>2. e \in Events /\ e # "none"
  BY EdgeFacts
<1>3. DOMAIN c = {"trail"} /\ r = Appending(row, e, Nothing)
  <2>1. DOMAIN c = {"trail"} /\ c = [x \in {"trail"} |-> c[x]]
    OBVIOUS
  <2>2. c = Overlay(c, Nothing)
    BY <2>1 DEF Overlay, Nothing
  <2>3. c = Appends(row, e, Nothing)
    BY <2>2 DEF Appends
  <2>4. r = Overlay(c, row)
    BY OverlayAssociates
  <2> QED
    BY <2>1, <2>3, <2>4 DEF Appending
<1>4. DOMAIN m2 = {"trail"} \cup DOMAIN m
      /\ ("status" \in DOMAIN m => m2["status"] = m["status"])
  <2>1. DOMAIN m2 = DOMAIN c \cup DOMAIN m
    BY OverlayColumns
  <2>2. \A x \in DOMAIN m \ DOMAIN c : Overlay(c, m)[x] = m[x]
    BY ONLY OverlayColumns
  <2> QED
    BY <1>3, <2>1, <2>2
<1>5. "status" \in DOMAIN m /\ m["status"] = Edge[e][2]
  BY <1>1, <1>2 DEF Writes
<1>6. row.status = Edge[e][2]
  <2>1. DOMAIN m \subseteq Columns
    BY <1>1 DEF Writes
  <2> QED
    BY <1>5, <2>1, OverlayFields DEF Columns
<1> HIDE DEF m2, r
<1>7. /\ r \in Rows /\ r.status = row.status /\ r.docs = row.docs
      /\ r.trail = Append(row.trail, e)
      /\ r.claim = row.claim /\ r.draft = row.draft /\ r.report = row.report
      /\ r.answer = row.answer
  <2>1. DOMAIN Nothing = {}
    BY DEF Nothing
  <2>2. row.claim \in Claims /\ row.draft \in Drafts /\ row.report \in Reports
        /\ row.answer \in BOOLEAN
    BY <1>1 DEF Rows, Claims, Drafts, Reports
  <2> QED
    BY <1>1, <1>2, <1>3, <2>1, <2>2, AppendingFields, AppendingIsRow DEF Ledger
<1>8. /\ row.trail \in Seq(Events) /\ Len(row.trail) # 0
      /\ Last(Append(row.trail, e)) = e
  BY <1>1, <1>2, TrailOf
<1>9. Writes(m2, d, "none")
  BY <1>1, <1>4 DEF Writes, Columns
<1>10. GoodAs(r, r.status)
  <2>1. Replays(r.trail, r.status)
    BY <1>1, <1>6, <1>7, <1>8, ReplaysMove DEF GoodAs
  <2>2. Due(Last(row.trail), e)
    <3>1. p # "entailment" /\ (p = "quality" => e = "analyzed_partial")
      BY <1>1, <1>2 DEF Audited
    <3>2. Last(row.trail) \notin {"analyzed_partial", "source_quality_assessed"}
      BY <1>1, <1>2, <3>1 DEF Audited
    <3>3. e \notin {"source_quality_assessed", "entailment_checked"}
      BY DEF Edge
    <3> QED
      BY <3>2, <3>3 DEF Due
  <2>3. /\ e = "analyzed_partial" => Edge[e][1] \notin Later
        /\ Edge[e][2] \in Later <=> Edge[e][1] \in Later \/ e = "analyzed_partial"
    BY DEF Edge, Later
  <2>4. Analysed(row.trail, Edge[e][1])
    BY <1>1 DEF GoodAs
  <2>5. Analysed(r.trail, r.status)
    BY <1>2, <1>6, <1>7, <1>8, <2>2, <2>3, <2>4, AnalysedAppend
  <2>6. Fits(row, Edge[e][1])
    BY <1>1 DEF GoodAs
  <2>7. Fits(r, r.status)
    <3>1. CASE e = "published"
      BY <1>1, <1>6, <1>7, <2>6, <3>1 DEF Fits, Relies, Edge, Later
    <3>2. CASE e = "publication_held"
      BY <1>1, <1>6, <1>7, <2>6, <3>2 DEF Fits, Relies, Edge, Later
    <3>3. CASE e = "blocked"
      BY <1>1, <1>6, <1>7, <2>6, <3>3 DEF Fits, Relies, Edge, Later
    <3>4. CASE e \in {"created", "analyzing", "analyzed_partial", "compiling"}
      BY <1>6, <1>7, <2>6, <3>4 DEF Fits, Edge, Later
    <3> QED
      BY <3>1, <3>2, <3>3, <3>4 DEF Edge
  <2>8. r.status # "none"
    BY <1>6, <1>7 DEF Edge
  <2> QED
    BY <1>7, <2>1, <2>5, <2>7, <2>8 DEF GoodAs
<1>11. Evolves(row, r) /\ Relies(p, "none", r)
  BY <1>1, <1>7 DEF Evolves, Relies, Entered
<1>12. Evolves(d, r)
  BY <1>1, <1>11, EvolvesTransitive
<1>13. Audited(p, "none", m2, r.trail)
  <2>1. "trail" \in DOMAIN m2 /\ Last(r.trail) = e
    BY <1>4, <1>7, <1>8
  <2>2. p # "entailment" /\ (p = "quality" <=> e = "analyzed_partial")
    BY <1>1, <1>2 DEF Audited
  <2>3. e # "source_quality_assessed"
    BY DEF Edge
  <2> QED
    BY <2>1, <2>2, <2>3 DEF Audited
<1>14. Works(m2, d, "none", p)
  <2> HIDE DEF r
  <2>1. r = Overlay(m2, d)
    BY DEF r
  <2>2. r \in Rows
    BY <1>7
  <2> QED
    BY <1>9, <1>10, <1>11, <1>12, <1>13, <2>1, <2>2 DEF Works, Before
<1> QED
  BY <1>14 DEF m2

\* A new transaction.
LEMMA BeginWorks ==
  ASSUME NEW d \in Rows, GoodRow(d), NEW p, p \notin {"quality", "entailment"},
         Relies(p, "none", d)
  PROVE  Works(Nothing, d, "none", p)
<1>1. Overlay(Nothing, d) = d /\ DOMAIN Nothing = {}
  BY OverlayNothing
<1>2. Writes(Nothing, d, "none")
  BY <1>1 DEF Writes
<1>3. Audited(p, "none", Nothing, d.trail)
  BY DEF Audited, GoodRow, Complete
<1> QED
  BY <1>1, <1>2, <1>3, EvolvesReflexive DEF Works, GoodRow, Good, Before

\* What a commit leaves of a row.
LEMMA CommitWorks ==
  ASSUME NEW d, NEW m, NEW p, Works(m, d, "none", p), p \notin {"quality", "entailment"}
  PROVE  GoodRow(Overlay(m, d)) /\ Evolves(d, Overlay(m, d))
  BY DEF Works, GoodRow, Good, Before, Audited, Complete

\* Another worker commits a later version of the row: who has not the head of
\* its trail works on that one.
LEMMA WorksOnNewRow ==
  ASSUME NEW d \in Rows, NEW d2 \in Rows, NEW m, NEW e \in DOMAIN Edge \cup {"none"}, NEW p,
         Works(m, d, e, p), "trail" \notin DOMAIN m,
         GoodRow(d2), Evolves(d, d2), e # "none" => d2.status = d.status
  PROVE  Works(m, d2, e, p)
<1>1. /\ Writes(m, d, e) /\ Overlay(m, d) \in Rows
      /\ Relies(p, e, Overlay(m, d)) /\ Audited(p, e, m, Overlay(m, d).trail)
  BY DEF Works
<1>2. CASE e = "none"
  <2>1. m = Nothing /\ Overlay(m, d) = d
    BY <1>1, <1>2, OverlayNothing DEF Writes
  <2>2. p \notin {"quality", "entailment"}
    BY <1>1, <1>2 DEF Audited
  <2>3. Relies(p, "none", d2)
    BY <1>1, <1>2, <2>1 DEF Relies, Evolves
  <2> QED
    BY <1>2, <2>1, <2>2, <2>3, BeginWorks
<1>3. CASE e # "none"
  <2> DEFINE to == Edge[e][2]
             r == Overlay(m, d)
             r2 == Overlay(m, d2)
  <2>1. /\ DOMAIN m = {"status"} /\ m["status"] = to /\ d2.status = Edge[e][1]
        /\ e \in DOMAIN Edge /\ DOMAIN m \subseteq Columns
    BY <1>1, <1>3 DEF Writes, Columns
  <2>2. to \in Statuses
    BY <2>1, EdgeFacts
  <2>3. r = Overlay([status |-> to], d) /\ r2 = Overlay([status |-> to], d2)
    <3>1. DOMAIN [status |-> to] = {"status"} /\ [status |-> to]["status"] = to
      OBVIOUS
    <3> QED
      BY <2>1, <3>1 DEF Overlay
  <2> HIDE DEF to, r, r2
  <2>4. /\ r.status = to
        /\ r.docs = d.docs /\ r.sound = d.sound /\ r.claim = d.claim
        /\ r.draft = d.draft /\ r.report = d.report /\ r.answer = d.answer
        /\ r.trail = d.trail
    BY <2>2, <2>3, StatusFields
  <2>5. /\ r2 \in Rows /\ r2.status = to
        /\ r2.docs = d2.docs /\ r2.sound = d2.sound /\ r2.claim = d2.claim
        /\ r2.draft = d2.draft /\ r2.report = d2.report /\ r2.answer = d2.answer
        /\ r2.trail = d2.trail
    BY <2>2, <2>3, StatusFields
  <2>6. GoodAs(r2, Edge[e][1])
    <3>1. GoodAs(d2, Edge[e][1])
      BY <2>1 DEF GoodRow, Good
    <3>2. Fits(r2, Edge[e][1])
      BY <2>5, <3>1 DEF GoodAs, Fits
    <3> QED
      BY <2>5, <3>1, <3>2 DEF GoodAs
  <2>7. Relies(p, e, r)
    BY <1>1 DEF r
  <2>8. Relies(p, e, r2)
    <3>1. r.report # "none" => r2.report = r.report
      BY <2>4, <2>5 DEF Evolves
    <3>2. Entered(r) => Entered(r2)
      BY <2>4, <2>5, <3>1 DEF Entered
    <3>3. /\ r2.status = r.status /\ r2.docs = r.docs
          /\ r.claim = "lost" => r2.claim = "lost"
          /\ r.draft # "none" => r2.draft = r.draft
          /\ r.answer => r2.answer
      BY <2>4, <2>5 DEF Evolves
    <3> QED
      BY <2>7, <3>1, <3>2, <3>3 DEF Relies
  <2>9. Evolves(d2, r2)
    <3>1. d2.status \in Later => r2.status \in Later
      BY <2>1, <2>5 DEF Edge, Later, to
    <3>2. Entered(d2) => Entered(r2)
      <4>1. CASE e = "publication_held"
        BY <2>1, <2>5, <2>8, <4>1 DEF Entered, Relies, Edge, to
      <4>2. CASE e # "publication_held"
        BY <2>1, <2>5, <4>2 DEF Entered, Edge, to
      <4> QED
        BY <4>1, <4>2
    <3>3. d2.status \notin {"blocked", "published"}
      BY <2>1, EdgeFacts
    <3> QED
      BY <2>5, <3>1, <3>2, <3>3 DEF Evolves
  <2>10. Audited(p, e, m, r2.trail)
    <3>1. Last(d2.trail) \notin {"analyzed_partial", "source_quality_assessed"}
      BY DEF GoodRow, Complete
    <3> QED
      BY <1>1, <1>3, <2>5, <3>1 DEF Audited
  <2>11. Writes(m, d2, e)
    BY <1>1, <2>1, EdgeFacts DEF Writes
  <2> QED
    BY <1>3, <2>1, <2>5, <2>6, <2>8, <2>9, <2>10, <2>11 DEF Works, Before, r2
<1> QED
  BY <1>2, <1>3

-----------------------------------------------------------------------------
(* The workers a step leaves alone                                         *)

LEMMA TaskTyped ==
  ASSUME Types, NEW w \in Workers, batch[w] # <<>>
  PROVE  /\ Head(batch[w]) \in 1 .. cursor /\ 1 .. cursor \subseteq DOMAIN stream
         /\ Task(w) \in Tasks /\ db[Task(w)] \in Rows
         /\ Tail(batch[w]) \in Seq(1 .. cursor)
<1>1. batch[w] \in Seq(1 .. cursor)
  BY DEF Types
<1>2. Head(batch[w]) \in 1 .. cursor /\ Tail(batch[w]) \in Seq(1 .. cursor)
  BY <1>1, HeadTailProperties
<1>3. stream \in Seq(Tasks) /\ cursor \in 0 .. Len(stream) /\ db \in [Tasks -> Rows]
  BY DEF Types
<1>4. DOMAIN stream = 1 .. Len(stream) /\ Len(stream) \in Nat
  BY <1>3, LenProperties
<1>5. 1 .. cursor \subseteq DOMAIN stream
  BY <1>3, <1>4
<1>6. \A i \in DOMAIN stream : stream[i] \in Tasks
  BY <1>3, <1>4, ElementOfSeq
<1> QED
  BY <1>2, <1>3, <1>5, <1>6 DEF Task

\* An entry read is of a task that exists, and its committed row is good.
LEMMA TaskGood ==
  ASSUME Types, RowsGood, Known, NEW w \in Workers, batch[w] # <<>>
  PROVE  db[Task(w)] # NoTask /\ GoodRow(db[Task(w)])
<1>1. Task(w) \in Tasks /\ Head(batch[w]) \in DOMAIN stream
  BY TaskTyped
<1> QED
  BY <1>1 DEF RowsGood, Known, Task

\* The step is not w's.
Kept(w) ==
  /\ pc'[w] = pc[w] /\ mine'[w] = mine[w] /\ todo'[w] = todo[w] /\ batch'[w] = batch[w]
  /\ batch[w] # <<>> => Task(w)' = Task(w)
  /\ \A t \in Tasks : /\ rowLock[t] = w => rowLock'[t] = w
                      /\ headLock[t] = w => headLock'[t] = w

LEMMA Undisturbed ==
  ASSUME Types, NEW w \in Workers, WorkerOk(w), Kept(w),
         InHandler(w) => Works(mine[w], db'[Task(w)], todo[w], pc[w])
  PROVE  WorkerOk(w)'
<1>1. InHandler(w)' = InHandler(w)
  BY DEF InHandler, Kept
<1>2. CASE InHandler(w)
  <2>1. batch[w] # <<>> /\ Locks(w)
    BY <1>2 DEF WorkerOk, Transacting
  <2>2. Task(w) \in Tasks /\ Task(w)' = Task(w)
    BY <2>1, TaskTyped DEF Kept
  <2>3. PICK t \in Tasks : t = Task(w)
    BY <2>2
  <2>4. Works(mine'[w], db'[t], todo'[w], pc'[w])
    BY <1>2, <2>3 DEF Kept
  <2>5. Task(w)' = t
    BY <2>2, <2>3
  <2>6. Locks(w)'
    BY <2>1, <2>3, <2>5 DEF Locks, Kept
  <2>7. batch'[w] # <<>>
    BY <2>1 DEF Kept
  <2>8. Transacting(w)'
    BY <2>4, <2>5, <2>6, <2>7 DEF Transacting
  <2> QED
    BY <1>1, <1>2, <2>8 DEF WorkerOk
<1>3. CASE ~InHandler(w)
  <2>1. Resting(w)
    BY <1>3 DEF WorkerOk
  <2>2. Resting(w)'
    BY <2>1 DEF Resting, Kept
  <2> QED
    BY <1>1, <1>3, <2>2 DEF WorkerOk
<1> QED
  BY <1>2, <1>3

\* The same, when the committed row is still the one w started from.
LEMMA UndisturbedSameRow ==
  ASSUME Types, NEW w \in Workers, WorkerOk(w), Kept(w),
         InHandler(w) => db'[Task(w)] = db[Task(w)]
  PROVE  WorkerOk(w)'
  BY Undisturbed DEF WorkerOk, Transacting

-----------------------------------------------------------------------------
(* A statement of the handler                                              *)

\* What every statement of a transaction leaves alone, and how w locks.
Statement(w) ==
  /\ UNCHANGED <<db, unsent, redis, batch, epr, budgets>>
  /\ \/ UNCHANGED rowLock
     \/ CanLockRow(w) /\ rowLock' = [rowLock EXCEPT ![Task(w)] = w]
  /\ \/ UNCHANGED headLock
     \/ CanLockHead(w) /\ headLock' = [headLock EXCEPT ![Task(w)] = w]

\* w goes to stage next, having written m and owing e.
Takes(w, next, m, e) ==
  /\ pc' = [pc EXCEPT ![w] = next] /\ next \in PCs \ {"down", "idle", "ack"}
  /\ mine' = [mine EXCEPT ![w] = m]
  /\ todo' = [todo EXCEPT ![w] = e] /\ e \in DOMAIN Edge \cup {"none"}
  /\ "status" \in DOMAIN m => rowLock'[Task(w)] = w
  /\ "trail" \in DOMAIN m => headLock'[Task(w)] = w
  /\ Works(m, db[Task(w)], e, next)

LEMMA StatementKeeps ==
  ASSUME IInv, NEW w \in Workers, InHandler(w), Statement(w),
         NEW next, NEW m, NEW e, Takes(w, next, m, e)
  PROVE  IInv'
<1>1. Types /\ RowsGood /\ Known /\ \A v \in Workers : WorkerOk(v)
  BY DEF IInv
<1>2. batch[w] # <<>>
  BY <1>1 DEF WorkerOk, Transacting
<1>3. Task(w) \in Tasks
  BY <1>1, <1>2, TaskTyped
<1>4. \A v \in Workers : Task(v)' = Task(v)
  BY DEF Statement, Task, redis
<1>5. Types'
  <2>1. /\ pc' \in [Workers -> PCs] /\ todo' \in [Workers -> DOMAIN Edge \cup {"none"}]
        /\ mine' = [v \in Workers |-> mine'[v]]
    BY <1>1 DEF Types, Takes
  <2>2. /\ rowLock' \in [Tasks -> Workers \cup {Nobody}]
        /\ headLock' \in [Tasks -> Workers \cup {Nobody}]
    BY <1>1, <1>3 DEF Types, Statement
  <2> QED
    BY <1>1, <2>1, <2>2 DEF Types, Statement, redis, budgets
<1>6. RowsGood' /\ Known'
  BY <1>1 DEF RowsGood, Known, Statement, redis
<1>7. ASSUME NEW v \in Workers, v # w  PROVE  WorkerOk(v)'
  <2>1. pc'[v] = pc[v] /\ mine'[v] = mine[v] /\ todo'[v] = todo[v] /\ batch'[v] = batch[v]
    BY <1>1, <1>7 DEF Types, Takes, Statement
  <2>2. ASSUME NEW t \in Tasks  PROVE  rowLock[t] = v => rowLock'[t] = v
    BY <1>1, <1>3, <1>7, PipelineAssumption DEF Types, Statement, CanLockRow
  <2>3. ASSUME NEW t \in Tasks  PROVE  headLock[t] = v => headLock'[t] = v
    BY <1>1, <1>3, <1>7, PipelineAssumption DEF Types, Statement, CanLockHead
  <2>4. Kept(v)
    BY <1>4, <2>1, <2>2, <2>3 DEF Kept
  <2>5. db' = db
    BY DEF Statement
  <2> QED
    BY <1>1, <2>4, <2>5, UndisturbedSameRow
<1>8. WorkerOk(w)'
  <2>1. pc'[w] = next /\ mine'[w] = m /\ todo'[w] = e
    BY <1>1 DEF Types, Takes
  <2>2. PICK t \in Tasks : t = Task(w)
    BY <1>3
  <2>3. Task(w)' = t
    BY <1>4, <2>2
  <2>4. Locks(w)'
    BY <2>1, <2>2, <2>3 DEF Locks, Takes
  <2>5. Works(mine'[w], db'[t], todo'[w], pc'[w])
    BY <2>1, <2>2 DEF Takes, Statement
  <2>6. Transacting(w)'
    BY <1>2, <2>3, <2>4, <2>5 DEF Transacting, Statement
  <2>7. InHandler(w)'
    BY <2>1 DEF InHandler, Takes
  <2> QED
    BY <2>6, <2>7 DEF WorkerOk
<1>9. \A v \in Workers : WorkerOk(v)'
  BY <1>7, <1>8
<1> QED
  BY <1>5, <1>6, <1>9 DEF IInv

\* What is known of the row w works on at stage p, owing nothing.
AtWork(w, p, row) ==
  /\ Works(mine[w], db[Task(w)], "none", p)
  /\ row \in Rows /\ Fits(row, row.status) /\ Relies(p, "none", row)

Stages == PCs \ {"down", "idle", "ack"}

LEMMA AtStage ==
  ASSUME IInv, NEW w \in Workers, NEW p \in Stages, At(w, p)
  PROVE  /\ InHandler(w) /\ Transacting(w) /\ batch[w] # <<>>
         /\ db[Task(w)] \in Rows /\ Task(w) \in Tasks
         /\ AtWork(w, p, View(w))
<1>1. InHandler(w)
  BY DEF At, InHandler, Stages
<1>2. Types /\ WorkerOk(w)
  BY DEF IInv
<1>3. Transacting(w) /\ batch[w] # <<>>
  BY <1>1, <1>2 DEF WorkerOk, Transacting
<1>4. Works(mine[w], db[Task(w)], "none", p)
  BY <1>3 DEF Transacting, At
<1>5. db[Task(w)] \in Rows /\ Task(w) \in Tasks
  BY <1>2, <1>3, TaskTyped
<1>6. AtWork(w, p, View(w))
  <2> DEFINE row == View(w)
  <2>1. row = Overlay(mine[w], db[Task(w)])
    BY DEF View
  <2> HIDE DEF row
  <2>2. row \in Rows /\ GoodAs(row, row.status) /\ Relies(p, "none", row)
    BY <1>4, <2>1 DEF Works, Before
  <2>3. Fits(row, row.status)
    BY <2>2 DEF GoodAs
  <2> QED
    BY <1>4, <2>2, <2>3 DEF AtWork, row
<1> QED
  BY <1>1, <1>3, <1>5, <1>6

\* A later version of the row, sound for the stage that is next.
Continues(r, row, next) ==
  /\ r \in Rows /\ Fits(r, row.status) /\ Evolves(row, r) /\ Relies(next, "none", r)

LEMMA AuditedStepKeeps ==
  ASSUME IInv, NEW w \in Workers, NEW p \in Stages, NEW next \in Stages,
         NEW e \in Steps, NEW writes, DOMAIN writes \subseteq Ledger,
         AuditedStep(w, p, next, e, writes), Follows(p, e, next),
         Continues(Appending(View(w), e, writes), View(w), next)
  PROVE  IInv'
<1> DEFINE d == db[Task(w)]
           c == Appends(View(w), e, writes)
           m == Overlay(c, mine[w])
<1>1. At(w, p)
  BY DEF AuditedStep
<1>2. InHandler(w) /\ Transacting(w) /\ d \in Rows /\ Task(w) \in Tasks
      /\ AtWork(w, p, View(w))
  BY <1>1, AtStage
<1>3. Works(m, d, "none", next)
  <2>1. Works(mine[w], d, "none", p) /\ View(w) = Overlay(mine[w], d)
    BY <1>2 DEF AtWork, View
  <2> HIDE DEF d
  <2> QED
    BY <1>2, <2>1, StepWorks DEF Continues
<1>4. mine' = [mine EXCEPT ![w] = m]
  BY DEF AuditedStep, Write, Appends
<1>5. headLock' = [headLock EXCEPT ![Task(w)] = w] /\ CanLockHead(w) /\ UNCHANGED rowLock
  BY DEF AuditedStep
<1>6. headLock'[Task(w)] = w
  BY <1>2, <1>5 DEF IInv, Types
<1>7. "status" \in DOMAIN m => rowLock'[Task(w)] = w
  <2>1. DOMAIN m = DOMAIN c \cup DOMAIN mine[w]
    BY ONLY OverlayColumns
  <2>2. DOMAIN c = DOMAIN writes \cup {"trail"}
    BY AppendsColumns DEF WrittenBy
  <2> QED
    BY <1>2, <1>5, <2>1, <2>2 DEF Transacting, Locks, Ledger
<1>8. /\ todo' = [todo EXCEPT ![w] = "none"]
      /\ pc' = [pc EXCEPT ![w] = next]
      /\ UNCHANGED <<db, unsent, redis, batch, epr, budgets>>
  BY DEF AuditedStep, At, Goto, IInv, Types
<1> HIDE DEF m, d
<1>9. Takes(w, next, m, "none")
  BY <1>3, <1>4, <1>6, <1>7, <1>8 DEF Takes, d, Stages
<1>10. Statement(w)
  BY <1>5, <1>8 DEF Statement
<1> QED
  BY <1>2, <1>9, <1>10, StatementKeeps

LEMMA TransitionKeeps ==
  ASSUME IInv, NEW w \in Workers, NEW p \in Stages \ {"quality", "entailment"},
         NEW event \in DOMAIN Edge \ {"created"},
         NEW next \in Stages \ {"entailment"},
         NEW otherwise \in Stages \ {"quality", "entailment"},
         next = "quality" <=> event = "analyzed_partial",
         Transition(w, p, Edge[event][1], Edge[event][2], event, next, otherwise),
         View(w).status = Edge[event][1] =>
           Relies(next, event, Overlay([status |-> Edge[event][2]], View(w))),
         View(w).status # Edge[event][1] => Relies(otherwise, "none", View(w))
  PROVE  IInv'
<1> DEFINE d == db[Task(w)]
           to == Edge[event][2]
           c == [status |-> to]
           m == Overlay(c, mine[w])
<1>1. At(w, p)
  BY DEF Transition
<1>2. InHandler(w) /\ Transacting(w) /\ d \in Rows /\ Task(w) \in Tasks
      /\ AtWork(w, p, View(w))
  BY <1>1, AtStage
<1>3. Works(mine[w], d, "none", p) /\ View(w) = Overlay(mine[w], d)
  BY <1>2 DEF AtWork, View
<1>4. UNCHANGED <<db, unsent, redis, batch, epr, headLock, budgets>>
  BY DEF Transition
<1>5. CASE View(w).status = Edge[event][1]
  <2>1. /\ CanLockRow(w) /\ rowLock' = [rowLock EXCEPT ![Task(w)] = w]
        /\ mine' = [mine EXCEPT ![w] = m] /\ todo' = [todo EXCEPT ![w] = event]
        /\ pc' = [pc EXCEPT ![w] = next]
    BY <1>5 DEF Transition, Write, Goto
  <2>2. Works(m, d, event, next)
    <3>1. Relies(next, event, Overlay(c, View(w)))
      BY <1>5
    <3> HIDE DEF d
    <3> QED
      BY <1>2, <1>3, <1>5, <3>1, TransitionWorks
  <2>3. rowLock'[Task(w)] = w
    BY <1>2, <2>1 DEF IInv, Types
  <2>4. "trail" \in DOMAIN m => headLock'[Task(w)] = w
    <3>1. DOMAIN m = DOMAIN c \cup DOMAIN mine[w]
      BY ONLY OverlayColumns
    <3>2. DOMAIN c = {"status"}
      OBVIOUS
    <3> QED
      BY <1>2, <1>4, <3>1, <3>2 DEF Transacting, Locks
  <2> HIDE DEF m, d
  <2>5. Takes(w, next, m, event)
    BY <2>1, <2>2, <2>3, <2>4 DEF Takes, d, Stages
  <2>6. Statement(w)
    BY <1>4, <2>1 DEF Statement
  <2> QED
    BY <1>2, <2>5, <2>6, StatementKeeps
<1>6. CASE View(w).status # Edge[event][1]
  <2>1. pc' = [pc EXCEPT ![w] = otherwise] /\ UNCHANGED <<rowLock, mine, todo>>
    BY <1>6 DEF Transition, Goto
  <2>2. Works(mine[w], d, "none", otherwise)
    BY <1>3, <1>6, MoveWorks
  <2>3. Takes(w, otherwise, mine[w], "none")
    BY <1>1, <1>2, <1>4, <2>1, <2>2
    DEF Takes, At, Stages, IInv, Types, Transacting, Locks
  <2>4. Statement(w)
    BY <1>4, <2>1 DEF Statement
  <2> QED
    BY <1>2, <2>3, <2>4, StatementKeeps
<1> QED
  BY <1>5, <1>6

\* A statement that only reads.
LEMMA MoveKeeps ==
  ASSUME IInv, NEW w \in Workers, NEW p \in Stages \ {"quality", "entailment"},
         NEW next \in Stages \ {"quality", "entailment"}, At(w, p), Goto(w, next),
         UNCHANGED <<db, unsent, redis, batch, epr, txn, budgets>>,
         Relies(next, "none", View(w))
  PROVE  IInv'
<1>1. InHandler(w) /\ Transacting(w) /\ AtWork(w, p, View(w))
  BY AtStage
<1>2. Works(mine[w], db[Task(w)], "none", next)
  BY <1>1, MoveWorks DEF AtWork, View
<1>3. Takes(w, next, mine[w], "none")
  BY <1>1, <1>2 DEF Takes, Goto, At, Stages, IInv, Types, Transacting, Locks, txn
<1>4. Statement(w)
  BY DEF Statement, txn
<1> QED
  BY <1>1, <1>3, <1>4, StatementKeeps

LEMMA AuditTransitionKeeps ==
  ASSUME IInv, NEW w \in Workers, AuditTransition(w)
  PROVE  IInv'
<1> DEFINE d == db[Task(w)]
           e == todo[w]
           c == [trail |-> Append(View(w).trail, e)]
           m == Overlay(c, mine[w])
<1>1. Types /\ WorkerOk(w) /\ e # "none"
  BY DEF IInv, AuditTransition
<1>2. InHandler(w) /\ Transacting(w) /\ batch[w] # <<>>
  BY <1>1 DEF WorkerOk, Resting, Transacting
<1>3. d \in Rows /\ Task(w) \in Tasks /\ e \in DOMAIN Edge /\ pc[w] \in PCs
  BY <1>1, <1>2, TaskTyped DEF Types
<1>4. Works(m, d, "none", pc[w])
  <2>1. Works(mine[w], d, e, pc[w]) /\ View(w) = Overlay(mine[w], d)
    BY <1>2 DEF Transacting, View
  <2> HIDE DEF d, e
  <2> QED
    BY <1>3, <2>1, AuditWorks
<1>5. /\ headLock' = [headLock EXCEPT ![Task(w)] = w] /\ CanLockHead(w)
      /\ mine' = [mine EXCEPT ![w] = m] /\ todo' = [todo EXCEPT ![w] = "none"]
      /\ UNCHANGED <<db, unsent, redis, batch, epr, pc, rowLock, budgets>>
  BY DEF AuditTransition, Write
<1>6. headLock'[Task(w)] = w
  BY <1>1, <1>3, <1>5 DEF Types
<1>7. "status" \in DOMAIN m => rowLock'[Task(w)] = w
  <2>1. DOMAIN m = DOMAIN c \cup DOMAIN mine[w]
    BY ONLY OverlayColumns
  <2>2. DOMAIN c = {"trail"}
    OBVIOUS
  <2> QED
    BY <1>2, <1>5, <2>1, <2>2 DEF Transacting, Locks
<1>8. pc' = [pc EXCEPT ![w] = pc[w]]
  BY <1>1, <1>5 DEF Types
<1> HIDE DEF m, d
<1>9. Takes(w, pc[w], m, "none")
  BY <1>2, <1>3, <1>4, <1>5, <1>6, <1>7, <1>8 DEF Takes, d, InHandler
<1>10. Statement(w)
  BY <1>5 DEF Statement
<1> QED
  BY <1>2, <1>9, <1>10, StatementKeeps

\* A step that appends an event and writes nothing else.
LEMMA OnlyAudits ==
  ASSUME NEW row \in Rows, Fits(row, row.status), NEW e \in Steps, NEW next,
         Relies(next, "none", row)
  PROVE  Continues(Appending(row, e, Nothing), row, next) /\ DOMAIN Nothing \subseteq Ledger
<1> DEFINE r == Appending(row, e, Nothing)
<1>1. DOMAIN Nothing = {} /\ e \in Events
  BY EdgeFacts DEF Nothing
<1>2. /\ r.status = row.status /\ r.docs = row.docs /\ r.claim = row.claim
      /\ r.draft = row.draft /\ r.report = row.report /\ r.answer = row.answer
  BY <1>1, AppendingFields DEF Ledger
<1>3. row.claim \in Claims /\ row.draft \in Drafts /\ row.report \in Reports
      /\ row.answer \in BOOLEAN
  BY DEF Rows, Claims, Drafts, Reports
<1>4. r \in Rows
  BY <1>1, <1>2, <1>3, AppendingIsRow
<1> HIDE DEF r
<1>5. Continues(r, row, next)
  BY <1>2, <1>4 DEF Continues, Fits, Evolves, Relies, Entered
<1> QED
  BY <1>1, <1>5 DEF r

LEMMA ExtractKeeps ==
  ASSUME IInv, NEW w \in Workers, Extract(w)
  PROVE  IInv'
<1>1. AuditedStep(w, "extract", "verify", "claims_extracted", Nothing)
  BY DEF Extract
<1>2. At(w, "extract") /\ "extract" \in Stages /\ "verify" \in Stages
      /\ "claims_extracted" \in Steps
  BY <1>1 DEF AuditedStep, Stages, PCs, Steps
<1>3. AtWork(w, "extract", View(w))
  BY <1>2, AtStage
<1>4. Relies("verify", "none", View(w))
  BY <1>3 DEF AtWork, Relies, WithDocs
<1>5. Continues(Appending(View(w), "claims_extracted", Nothing), View(w), "verify")
      /\ DOMAIN Nothing \subseteq Ledger
  BY <1>2, <1>3, <1>4, OnlyAudits DEF AtWork
<1>6. Follows("extract", "claims_extracted", "verify")
  BY DEF Follows
<1> QED
  BY <1>1, <1>2, <1>5, <1>6, AuditedStepKeeps

LEMMA RunSourceQualityKeeps ==
  ASSUME IInv, NEW w \in Workers, RunSourceQuality(w)
  PROVE  IInv'
<1>1. AuditedStep(w, "quality", "entailment", "source_quality_assessed", Nothing)
  BY DEF RunSourceQuality
<1>2. At(w, "quality") /\ "quality" \in Stages /\ "entailment" \in Stages
      /\ "source_quality_assessed" \in Steps
  BY <1>1 DEF AuditedStep, Stages, PCs, Steps
<1>3. AtWork(w, "quality", View(w))
  BY <1>2, AtStage
<1>4. Relies("entailment", "none", View(w))
  BY <1>3 DEF AtWork, Relies, WithDocs
<1>5. /\ Continues(Appending(View(w), "source_quality_assessed", Nothing), View(w),
                   "entailment")
      /\ DOMAIN Nothing \subseteq Ledger
  BY <1>2, <1>3, <1>4, OnlyAudits DEF AtWork
<1>6. Follows("quality", "source_quality_assessed", "entailment")
  BY DEF Follows
<1> QED
  BY <1>1, <1>2, <1>5, <1>6, AuditedStepKeeps

LEMMA RunClaimEntailmentKeeps ==
  ASSUME IInv, NEW w \in Workers, RunClaimEntailment(w)
  PROVE  IInv'
<1>1. AuditedStep(w, "entailment", "stage", "entailment_checked", Nothing)
  BY DEF RunClaimEntailment
<1>2. At(w, "entailment") /\ "entailment" \in Stages /\ "stage" \in Stages
      /\ "entailment_checked" \in Steps
  BY <1>1 DEF AuditedStep, Stages, PCs, Steps
<1>3. AtWork(w, "entailment", View(w))
  BY <1>2, AtStage
<1>4. Relies("stage", "none", View(w))
  BY <1>3 DEF AtWork, Relies, WithDocs
<1>5. Continues(Appending(View(w), "entailment_checked", Nothing), View(w), "stage")
      /\ DOMAIN Nothing \subseteq Ledger
  BY <1>2, <1>3, <1>4, OnlyAudits DEF AtWork
<1>6. Follows("entailment", "entailment_checked", "stage")
  BY DEF Follows
<1> QED
  BY <1>1, <1>2, <1>5, <1>6, AuditedStepKeeps

\* A claim is verified once: no draft nor report exists before that.
LEMMA VerifyKeeps ==
  ASSUME IInv, NEW w \in Workers, Verify(w)
  PROVE  IInv'
<1> DEFINE row == View(w)
           claim == IF row.claim = "none"
                    THEN IF row.sound THEN "verified" ELSE "unsupported"
                    ELSE row.claim
           writes == [claim |-> claim]
           r == Appending(row, "cve_lite_completed", writes)
<1>1. AuditedStep(w, "verify", "to_partial", "cve_lite_completed", writes)
  BY DEF Verify
<1>2. At(w, "verify") /\ "verify" \in Stages /\ "to_partial" \in Stages
      /\ "cve_lite_completed" \in Steps /\ "cve_lite_completed" \in Events
  BY <1>1 DEF AuditedStep, Stages, PCs, Steps, Events
<1>3. AtWork(w, "verify", row)
  BY <1>2, AtStage
<1> HIDE DEF row
<1>4. DOMAIN writes = {"claim"} /\ writes["claim"] = claim
  OBVIOUS
<1>5. claim \in Claims /\ (row.claim # "none" => claim = row.claim)
  BY <1>3 DEF AtWork, Rows, Claims
<1> HIDE DEF writes, claim
<1>6. /\ r.status = row.status /\ r.docs = row.docs /\ r.claim = claim
      /\ r.draft = row.draft /\ r.report = row.report /\ r.answer = row.answer
  BY <1>2, <1>3, <1>4, AppendingFields DEF Ledger, AtWork
<1>7. r \in Rows
  <2>1. row.draft \in Drafts /\ row.report \in Reports /\ row.answer \in BOOLEAN
    BY <1>3 DEF AtWork, Rows, Drafts, Reports
  <2> QED
    BY <1>2, <1>3, <1>4, <1>5, <1>6, <2>1, AppendingIsRow DEF Ledger, AtWork
<1> HIDE DEF r
<1>8. Continues(r, row, "to_partial")
  <2>1. Fits(r, row.status) /\ Evolves(row, r)
    BY <1>3, <1>5, <1>6 DEF AtWork, Fits, Evolves, Entered
  <2>2. Relies("to_partial", "none", r)
    BY <1>3, <1>6 DEF AtWork, Relies, WithDocs
  <2> QED
    BY <1>7, <2>1, <2>2 DEF Continues
<1>9. Follows("verify", "cve_lite_completed", "to_partial")
  BY DEF Follows
<1> QED
  BY <1>1, <1>2, <1>4, <1>8, <1>9, AuditedStepKeeps DEF r, row, Ledger

LEMMA CompileKeeps ==
  ASSUME IInv, NEW w \in Workers, Compile(w)
  PROVE  IInv'
<1> DEFINE row == View(w)
           draft == IF row.draft = "none"
                    THEN IF row.claim = "verified" THEN "spans" ELSE "empty"
                    ELSE row.draft
           writes == [draft |-> draft]
           r == Appending(row, "draft_compiled", writes)
<1>1. AuditedStep(w, "compile", "gate", "draft_compiled", writes)
  BY DEF Compile
<1>2. At(w, "compile") /\ "compile" \in Stages /\ "gate" \in Stages
      /\ "draft_compiled" \in Steps /\ "draft_compiled" \in Events
  BY <1>1 DEF AuditedStep, Stages, PCs, Steps, Events
<1>3. AtWork(w, "compile", row)
  BY <1>2, AtStage
<1> HIDE DEF row
<1>4. DOMAIN writes = {"draft"} /\ writes["draft"] = draft
  OBVIOUS
<1>5. /\ draft \in Drafts /\ (row.draft # "none" => draft = row.draft) /\ draft # "none"
      /\ draft = "spans" => row.claim = "verified" \/ row.draft = "spans"
  BY <1>3 DEF AtWork, Rows, Drafts
<1> HIDE DEF writes, draft
<1>6. /\ r.status = row.status /\ r.docs = row.docs /\ r.claim = row.claim
      /\ r.draft = draft /\ r.report = row.report /\ r.answer = row.answer
  BY <1>2, <1>3, <1>4, AppendingFields DEF Ledger, AtWork
<1>7. r \in Rows
  <2>1. row.claim \in Claims /\ row.report \in Reports /\ row.answer \in BOOLEAN
    BY <1>3 DEF AtWork, Rows, Claims, Reports
  <2> QED
    BY <1>2, <1>3, <1>4, <1>5, <1>6, <2>1, AppendingIsRow DEF Ledger, AtWork
<1> HIDE DEF r
<1>8. Continues(r, row, "gate")
  <2>1. Fits(r, row.status) /\ Evolves(row, r)
    BY <1>3, <1>5, <1>6 DEF AtWork, Fits, Evolves, Entered
  <2>2. Relies("gate", "none", r)
    BY <1>3, <1>5, <1>6 DEF AtWork, Relies, WithDocs, Entered
  <2> QED
    BY <1>7, <2>1, <2>2 DEF Continues
<1>9. Follows("compile", "draft_compiled", "gate")
  BY DEF Follows
<1> QED
  BY <1>1, <1>2, <1>4, <1>8, <1>9, AuditedStepKeeps DEF r, row, Ledger

\* The gate decides as its report says, or a source was lost in between.
LEMMA RunGateKeeps ==
  ASSUME IInv, NEW w \in Workers, RunGate(w)
  PROVE  IInv'
<1> DEFINE row == View(w)
           decision == Decision(row)
           report == IF row.report = "none" THEN decision ELSE row.report
           answer == row.answer \/ decision = "approved"
           next == IF decision = "approved" THEN "to_published" ELSE "to_held"
           writes == [report |-> report, answer |-> answer]
           r == Appending(row, "final_gate_completed", writes)
<1>1. AuditedStep(w, "gate", next, "final_gate_completed", writes)
  BY DEF RunGate
<1>2. At(w, "gate") /\ "gate" \in Stages /\ next \in Stages
      /\ "final_gate_completed" \in Steps /\ "final_gate_completed" \in Events
  BY <1>1 DEF AuditedStep, Stages, PCs, Steps, Events
<1>3. AtWork(w, "gate", row)
  BY <1>2, AtStage
<1> HIDE DEF row
<1>4. DOMAIN writes = {"report", "answer"} /\ writes["report"] = report
      /\ writes["answer"] = answer
  OBVIOUS
<1>5. row.draft \in {"spans", "empty"} /\ row.docs /\ Entered(row)
      /\ row.claim \in Claims /\ row.report \in Reports /\ row.answer \in BOOLEAN
      /\ Fits(row, row.status)
  BY <1>3 DEF AtWork, Relies, WithDocs, Rows, Claims, Reports
<1>6. /\ decision \in {"approved", "rejected"}
      /\ decision = "approved" => row.draft = "spans" /\ row.claim = "verified"
      /\ decision = "rejected" => row.draft = "empty" \/ row.claim # "verified"
  BY <1>5 DEF Decision
<1> HIDE DEF decision
<1>7. /\ report \in {"approved", "rejected"} /\ answer \in BOOLEAN
      /\ row.report # "none" => report = row.report
      /\ answer <=> report = "approved"
      /\ row.answer => answer
      /\ report = "approved" => row.draft = "spans"
      /\ report = "rejected" => row.draft = "empty" \/ row.claim = "lost"
      /\ next = "to_published" => report = "approved"
      /\ next = "to_held" => report = "rejected" \/ row.claim = "lost"
  BY <1>5, <1>6 DEF Fits, Reports
<1> HIDE DEF writes, report, answer
<1>8. /\ r.status = row.status /\ r.docs = row.docs /\ r.claim = row.claim
      /\ r.draft = row.draft /\ r.report = report /\ r.answer = answer
  BY <1>2, <1>3, <1>4, AppendingFields DEF Ledger, AtWork
<1>9. r \in Rows
  <2>1. row.draft \in Drafts /\ report \in Reports
    BY <1>5, <1>7 DEF Drafts, Reports
  <2> QED
    BY <1>2, <1>3, <1>4, <1>5, <1>7, <1>8, <2>1, AppendingIsRow DEF Ledger, AtWork
<1> HIDE DEF r
<1>10. Fits(r, row.status)
  BY <1>5, <1>7, <1>8 DEF Fits, Entered, Later
<1>11. Evolves(row, r)
  BY <1>5, <1>7, <1>8 DEF Evolves, Entered
<1>12. Relies(next, "none", r)
  BY <1>5, <1>7, <1>8 DEF Relies, WithDocs, Entered
<1>13. Continues(r, row, next)
  BY <1>9, <1>10, <1>11, <1>12 DEF Continues
<1>14. Follows("gate", "final_gate_completed", next)
  BY DEF Follows
<1> HIDE DEF next
<1> QED
  BY <1>1, <1>2, <1>4, <1>13, <1>14, AuditedStepKeeps DEF r, row, Ledger

LEMMA EdgeValues ==
  /\ Edge["analyzing"][1] = "created" /\ Edge["analyzing"][2] = "analyzing"
  /\ Edge["blocked"][1] = "analyzing" /\ Edge["blocked"][2] = "blocked"
  /\ Edge["analyzed_partial"][1] = "analyzing"
  /\ Edge["analyzed_partial"][2] = "analyzed_partial"
  /\ Edge["compiling"][1] = "analyzed_partial" /\ Edge["compiling"][2] = "compiling"
  /\ Edge["published"][1] = "compiling" /\ Edge["published"][2] = "published"
  /\ Edge["publication_held"][1] = "compiling"
  /\ Edge["publication_held"][2] = "analyzed_partial"
  /\ {"analyzing", "blocked", "analyzed_partial", "compiling", "published",
      "publication_held"} \subseteq DOMAIN Edge \ {"created"}
  BY DEF Edge

LEMMA AdvanceToAnalyzingKeeps ==
  ASSUME IInv, NEW w \in Workers, AdvanceToAnalyzing(w)
  PROVE  IInv'
<1> DEFINE next == IF db[Task(w)].docs THEN "pipeline" ELSE "block"
           row == View(w)
           r == Overlay([status |-> "analyzing"], row)
<1>1. Transition(w, "advance", "created", "analyzing", "analyzing", next, next)
  BY DEF AdvanceToAnalyzing
<1>2. At(w, "advance") /\ "advance" \in Stages /\ "analyzing" \in Statuses
  BY <1>1 DEF Transition, Stages, PCs, Statuses
<1>3. AtWork(w, "advance", row)
  BY <1>2, AtStage
<1>4. row.docs = db[Task(w)].docs
  BY <1>3 DEF AtWork, Works, Evolves, View
<1>5. next \in {"pipeline", "block"} /\ (next = "pipeline" <=> row.docs)
  BY <1>4
<1>6. r.docs = row.docs
  BY <1>2, <1>3, StatusFields DEF AtWork
<1> HIDE DEF row, next
<1>7. Relies(next, "analyzing", r) /\ Relies(next, "none", row)
  BY <1>5, <1>6 DEF Relies, WithDocs
<1>8. /\ "advance" \in Stages \ {"quality", "entailment"}
      /\ next \in Stages \ {"quality", "entailment"}
  BY <1>5 DEF Stages, PCs
<1> QED
  BY <1>1, <1>5, <1>7, <1>8, EdgeValues, TransitionKeeps DEF row

LEMMA AdvanceToBlockedNoDocsKeeps ==
  ASSUME IInv, NEW w \in Workers, AdvanceToBlockedNoDocs(w)
  PROVE  IInv'
<1> DEFINE row == View(w)
           r == Overlay([status |-> "blocked"], row)
<1>1. Transition(w, "block", "analyzing", "blocked", "blocked", "finish", "finish")
  BY DEF AdvanceToBlockedNoDocs
<1>2. At(w, "block") /\ "block" \in Stages /\ "blocked" \in Statuses
  BY <1>1 DEF Transition, Stages, PCs, Statuses
<1>3. AtWork(w, "block", row)
  BY <1>2, AtStage
<1>4. r.docs = row.docs
  BY <1>2, <1>3, StatusFields DEF AtWork
<1> HIDE DEF row
<1>5. Relies("finish", "blocked", r) /\ Relies("finish", "none", row)
  BY <1>3, <1>4 DEF Relies, WithDocs, AtWork
<1>6. /\ "block" \in Stages \ {"quality", "entailment"}
      /\ "finish" \in Stages \ {"quality", "entailment"}
  BY DEF Stages, PCs
<1> QED
  BY <1>1, <1>5, <1>6, EdgeValues, TransitionKeeps DEF row

LEMMA AdvanceToAnalyzedPartialKeeps ==
  ASSUME IInv, NEW w \in Workers, AdvanceToAnalyzedPartial(w)
  PROVE  IInv'
<1> DEFINE row == View(w)
           r == Overlay([status |-> "analyzed_partial"], row)
<1>1. Transition(w, "to_partial", "analyzing", "analyzed_partial", "analyzed_partial",
                 "quality", "stage")
  BY DEF AdvanceToAnalyzedPartial
<1>2. At(w, "to_partial") /\ "to_partial" \in Stages /\ "analyzed_partial" \in Statuses
  BY <1>1 DEF Transition, Stages, PCs, Statuses
<1>3. AtWork(w, "to_partial", row)
  BY <1>2, AtStage
<1>4. r.docs = row.docs
  BY <1>2, <1>3, StatusFields DEF AtWork
<1> HIDE DEF row
<1>5. Relies("quality", "analyzed_partial", r) /\ Relies("stage", "none", row)
  BY <1>3, <1>4 DEF Relies, WithDocs, AtWork
<1>6. /\ "to_partial" \in Stages \ {"quality", "entailment"}
      /\ "stage" \in Stages \ {"quality", "entailment"}
      /\ "quality" \in Stages \ {"entailment"}
  BY DEF Stages, PCs
<1> QED
  BY <1>1, <1>5, <1>6, EdgeValues, TransitionKeeps DEF row

\* A task that is not analyzed_partial any more has been taken further.
LEMMA AdvanceToCompilingKeeps ==
  ASSUME IInv, NEW w \in Workers, AdvanceToCompiling(w)
  PROVE  IInv'
<1> DEFINE row == View(w)
           r == Overlay([status |-> "compiling"], row)
<1>1. Transition(w, "to_compiling", "analyzed_partial", "compiling", "compiling",
                 "compile", "compile")
  BY DEF AdvanceToCompiling
<1>2. At(w, "to_compiling") /\ "to_compiling" \in Stages /\ "compiling" \in Statuses
  BY <1>1 DEF Transition, Stages, PCs, Statuses
<1>3. AtWork(w, "to_compiling", row)
  BY <1>2, AtStage
<1>4. r.docs = row.docs /\ r.status = "compiling"
  BY <1>2, <1>3, StatusFields DEF AtWork
<1> HIDE DEF row
<1>5. Relies("compile", "compiling", r)
  BY <1>3, <1>4 DEF Relies, WithDocs, AtWork, Entered
<1>6. row.status # "analyzed_partial" => Relies("compile", "none", row)
  BY <1>3 DEF Relies, WithDocs, AtWork, Entered, Later
<1>7. /\ "to_compiling" \in Stages \ {"quality", "entailment"}
      /\ "compile" \in Stages \ {"quality", "entailment"}
  BY DEF Stages, PCs
<1> QED
  BY <1>1, <1>5, <1>6, <1>7, EdgeValues, TransitionKeeps DEF row

LEMMA AdvanceToPublishedKeeps ==
  ASSUME IInv, NEW w \in Workers, AdvanceToPublished(w)
  PROVE  IInv'
<1> DEFINE row == View(w)
           r == Overlay([status |-> "published"], row)
<1>1. Transition(w, "to_published", "compiling", "published", "published",
                 "finish", "finish")
  BY DEF AdvanceToPublished
<1>2. At(w, "to_published") /\ "to_published" \in Stages /\ "published" \in Statuses
  BY <1>1 DEF Transition, Stages, PCs, Statuses
<1>3. AtWork(w, "to_published", row)
  BY <1>2, AtStage
<1>4. r.answer = row.answer
  BY <1>2, <1>3, StatusFields DEF AtWork
<1> HIDE DEF row
<1>5. Relies("finish", "published", r) /\ Relies("finish", "none", row)
  BY <1>3, <1>4 DEF Relies, WithDocs, AtWork
<1>6. /\ "to_published" \in Stages \ {"quality", "entailment"}
      /\ "finish" \in Stages \ {"quality", "entailment"}
  BY DEF Stages, PCs
<1> QED
  BY <1>1, <1>5, <1>6, EdgeValues, TransitionKeeps DEF row

LEMMA RevertToAnalyzedPartialWithHeldKeeps ==
  ASSUME IInv, NEW w \in Workers, RevertToAnalyzedPartialWithHeld(w)
  PROVE  IInv'
<1> DEFINE row == View(w)
           r == Overlay([status |-> "analyzed_partial"], row)
<1>1. Transition(w, "to_held", "compiling", "analyzed_partial", "publication_held",
                 "finish", "finish")
  BY DEF RevertToAnalyzedPartialWithHeld
<1>2. At(w, "to_held") /\ "to_held" \in Stages /\ "analyzed_partial" \in Statuses
  BY <1>1 DEF Transition, Stages, PCs, Statuses
<1>3. AtWork(w, "to_held", row)
  BY <1>2, AtStage
<1>4. r.report = row.report /\ r.claim = row.claim
  BY <1>2, <1>3, StatusFields DEF AtWork
<1> HIDE DEF row
<1>5. Relies("finish", "publication_held", r) /\ Relies("finish", "none", row)
  BY <1>3, <1>4 DEF Relies, WithDocs, AtWork
<1>6. /\ "to_held" \in Stages \ {"quality", "entailment"}
      /\ "finish" \in Stages \ {"quality", "entailment"}
  BY DEF Stages, PCs
<1> QED
  BY <1>1, <1>5, <1>6, EdgeValues, TransitionKeeps DEF row

\* Where the row sends the handler after the analysis has what that needs.
LEMMA StageSound ==
  ASSUME NEW row \in Rows, Fits(row, row.status), row.docs,
         NEW next, next = StageAfterAnalysis(row)
  PROVE  next \in Stages \ {"quality", "entailment"} /\ Relies(next, "none", row)
<1>1. next \in {"finish", "to_compiling", "to_published", "to_held"}
  BY DEF StageAfterAnalysis
<1>2. next \in Stages \ {"quality", "entailment"}
  BY <1>1 DEF Stages, PCs
<1>3. next = "to_compiling" => row.status \in Later
  BY DEF StageAfterAnalysis, Later
<1>4. next \in {"to_published", "to_held"} => Entered(row) /\ row.report # "none"
  BY DEF StageAfterAnalysis, Entered
<1>5. next = "to_published" => row.answer
  BY DEF StageAfterAnalysis, Fits
<1>6. next = "to_held" => row.report = "rejected"
  BY DEF StageAfterAnalysis, Rows
<1> QED
  BY <1>1, <1>2, <1>3, <1>4, <1>5, <1>6 DEF Relies, WithDocs

LEMMA RunPipelineWithDocsKeeps ==
  ASSUME IInv, NEW w \in Workers, RunPipelineWithDocs(w)
  PROVE  IInv'
<1> DEFINE row == View(w)
           next == IF row.status = "analyzing" THEN "extract" ELSE StageAfterAnalysis(row)
<1>1. At(w, "pipeline") /\ "pipeline" \in Stages \ {"quality", "entailment"}
  BY DEF RunPipelineWithDocs, Stages, PCs
<1>2. AtWork(w, "pipeline", row)
  BY <1>1, AtStage
<1> HIDE DEF row
<1>3. row \in Rows /\ Fits(row, row.status) /\ row.docs
  BY <1>2 DEF AtWork, Relies, WithDocs
<1>4. next \in Stages \ {"quality", "entailment"} /\ Relies(next, "none", row)
  <2>1. CASE row.status = "analyzing"
    BY <1>3, <2>1 DEF Relies, WithDocs, Stages, PCs
  <2>2. CASE row.status # "analyzing"
    BY <1>3, <2>2, StageSound
  <2> QED
    BY <2>1, <2>2
<1>5. Goto(w, next) /\ UNCHANGED <<db, unsent, redis, batch, epr, txn, budgets>>
  BY DEF RunPipelineWithDocs, row
<1> HIDE DEF next
<1> QED
  BY <1>1, <1>4, <1>5, MoveKeeps DEF row

LEMMA EnterCompileStageKeeps ==
  ASSUME IInv, NEW w \in Workers, EnterCompileStage(w)
  PROVE  IInv'
<1> DEFINE row == View(w)
           next == StageAfterAnalysis(row)
<1>1. At(w, "stage") /\ "stage" \in Stages \ {"quality", "entailment"}
  BY DEF EnterCompileStage, Stages, PCs
<1>2. AtWork(w, "stage", row)
  BY <1>1, AtStage
<1> HIDE DEF row
<1>3. row \in Rows /\ Fits(row, row.status) /\ row.docs
  BY <1>2 DEF AtWork, Relies, WithDocs
<1>4. next \in Stages \ {"quality", "entailment"} /\ Relies(next, "none", row)
  BY <1>3, StageSound
<1>5. Goto(w, next) /\ UNCHANGED <<db, unsent, redis, batch, epr, txn, budgets>>
  BY DEF EnterCompileStage, row
<1> HIDE DEF next
<1> QED
  BY <1>1, <1>4, <1>5, MoveKeeps DEF row

-----------------------------------------------------------------------------
(* Commits                                                                 *)

\* The row of t becomes d2: who has the head of its trail, or owes the audit of
\* a transition of it, sees nothing of that.
LEMMA OthersOnNewRow ==
  ASSUME Types, RowsGood, Known, NEW t \in Tasks, NEW d2 \in Rows,
         db' = [db EXCEPT ![t] = d2], GoodRow(d2), Evolves(db[t], d2),
         NEW v \in Workers, WorkerOk(v), Kept(v),
         InHandler(v) /\ Task(v) = t =>
           /\ "trail" \in DOMAIN mine[v] => d2 = db[t]
           /\ todo[v] # "none" => d2.status = db[t].status
  PROVE  WorkerOk(v)'
<1>1. CASE InHandler(v) /\ Task(v) = t /\ "trail" \notin DOMAIN mine[v]
  <2>1. Works(mine[v], db[t], todo[v], pc[v])
    BY <1>1 DEF WorkerOk, Transacting
  <2>2. todo[v] \in DOMAIN Edge \cup {"none"} /\ db[t] \in Rows
    BY DEF Types
  <2>3. Works(mine[v], d2, todo[v], pc[v])
    BY <1>1, <2>1, <2>2, WorksOnNewRow
  <2>4. db'[t] = d2
    BY DEF Types
  <2> QED
    BY <1>1, <2>3, <2>4, Undisturbed
<1>2. CASE ~(InHandler(v) /\ Task(v) = t /\ "trail" \notin DOMAIN mine[v])
  <2>1. InHandler(v) => db'[Task(v)] = db[Task(v)]
    BY <1>2 DEF Types
  <2> QED
    BY <2>1, UndisturbedSameRow
<1> QED
  BY <1>1, <1>2

\* w ends its transaction, and acknowledges the entry or leaves it pending.
Ends(w) ==
  /\ \/ pc' = [pc EXCEPT ![w] = "ack"] /\ UNCHANGED batch
     \/ pc' = [pc EXCEPT ![w] = "idle"] /\ batch' = [batch EXCEPT ![w] = Tail(@)]
  /\ UNCHANGED <<unsent, redis, dups, losses>> /\ faults' \in 0 .. MaxFaults

\* The transaction of w is over.
LEMMA Released ==
  ASSUME Types, NEW w \in Workers, Release(w)
  PROVE  /\ mine' = [v \in Workers |-> mine'[v]] /\ mine'[w] = Nothing
         /\ todo' \in [Workers -> DOMAIN Edge \cup {"none"}] /\ todo'[w] = "none"
         /\ rowLock' \in [Tasks -> Workers \cup {Nobody}]
         /\ headLock' \in [Tasks -> Workers \cup {Nobody}]
         /\ \A v \in Workers \ {w} :
              /\ mine'[v] = mine[v] /\ todo'[v] = todo[v]
              /\ \A t \in Tasks : /\ rowLock[t] = v => rowLock'[t] = v
                                  /\ headLock[t] = v => headLock'[t] = v
<1>1. mine' = [v \in Workers |-> mine'[v]] /\ mine'[w] = Nothing
  BY DEF Types, Release
<1>2. todo' \in [Workers -> DOMAIN Edge \cup {"none"}] /\ todo'[w] = "none"
  BY DEF Types, Release
<1>3. /\ rowLock' \in [Tasks -> Workers \cup {Nobody}]
      /\ headLock' \in [Tasks -> Workers \cup {Nobody}]
  BY DEF Types, Release
<1>4. ASSUME NEW v \in Workers \ {w}
      PROVE  /\ mine'[v] = mine[v] /\ todo'[v] = todo[v]
             /\ \A t \in Tasks : /\ rowLock[t] = v => rowLock'[t] = v
                                 /\ headLock[t] = v => headLock'[t] = v
  BY <1>4 DEF Types, Release
<1> QED
  BY <1>1, <1>2, <1>3, <1>4

LEMMA CommitKeeps ==
  ASSUME IInv, NEW w \in Workers, InHandler(w), todo[w] = "none",
         pc[w] \notin {"quality", "entailment"},
         NEW status \in {"failed", "succeeded"}, CommitAs(w, status), Ends(w)
  PROVE  IInv' /\ Evolves(db[Task(w)], View(w)) /\ Good(db[Task(w)]) /\ Good(View(w))
<1>1. Types /\ RowsGood /\ Known /\ \A v \in Workers : WorkerOk(v)
  BY DEF IInv
<1>2. Transacting(w) /\ batch[w] # <<>>
  BY <1>1 DEF WorkerOk, Transacting
<1>3. /\ Task(w) \in Tasks /\ db[Task(w)] \in Rows /\ GoodRow(db[Task(w)])
      /\ Tail(batch[w]) \in Seq(1 .. cursor)
  BY <1>1, <1>2, TaskTyped, TaskGood
<1>4. PICK t \in Tasks : t = Task(w)
  BY <1>3
<1>5. PICK d2 : d2 = View(w)
  OBVIOUS
<1>6. Works(mine[w], db[t], "none", pc[w]) /\ d2 = Overlay(mine[w], db[t])
  BY <1>2, <1>4, <1>5 DEF Transacting, View
<1>7. GoodRow(d2) /\ Evolves(db[t], d2) /\ d2 \in Rows
  BY <1>6, CommitWorks DEF GoodRow, Good, GoodAs
<1>8. db' = [db EXCEPT ![t] = d2] /\ Release(w)
  BY <1>4, <1>5 DEF CommitAs
<1>9. Types'
  <2>1. db' \in [Tasks -> Rows]
    BY <1>1, <1>7, <1>8 DEF Types
  <2>2. epr' \in [Workers -> [Keys -> {"none", "failed", "succeeded"}]]
    <3>1. KeyOf[t] \in Keys /\ epr' = [epr EXCEPT ![w][KeyOf[t]] = status]
      BY <1>4, PipelineAssumption DEF CommitAs
    <3> QED
      BY <1>1, <3>1 DEF Types
  <2>3. pc' \in [Workers -> PCs]
    BY <1>1 DEF Types, Ends, PCs
  <2>4. batch' \in [Workers -> Seq(1 .. cursor)]
    BY <1>1, <1>3 DEF Types, Ends
  <2>5. UNCHANGED <<unsent, stream, group, cursor, pel, dups, losses>>
        /\ faults' \in 0 .. MaxFaults
    BY DEF Ends, redis
  <2>6. /\ mine' = [v \in Workers |-> mine'[v]]
        /\ todo' \in [Workers -> DOMAIN Edge \cup {"none"}]
        /\ rowLock' \in [Tasks -> Workers \cup {Nobody}]
        /\ headLock' \in [Tasks -> Workers \cup {Nobody}]
    BY <1>1, <1>8, Released
  <2> QED
    BY <1>1, <2>1, <2>2, <2>3, <2>4, <2>5, <2>6 DEF Types
<1>10. RowsGood'
  BY <1>1, <1>7, <1>8 DEF RowsGood, Types
<1>11. Known'
  <2>1. db[t] # NoTask /\ d2 # NoTask
    BY <1>3, <1>4, <1>7 DEF GoodRow, Good, GoodAs, NoTask
  <2>2. \A u \in Tasks : db[u] # NoTask => db'[u] # NoTask
    BY <1>1, <1>8, <2>1 DEF Types
  <2>3. unsent' \subseteq Tasks /\ \A i \in DOMAIN stream : stream[i] \in Tasks
    BY <1>1, <1>9, ElementOfSeq, LenProperties DEF Types
  <2> QED
    BY <1>1, <2>2, <2>3 DEF Known, Ends, redis
<1>12. WorkerOk(w)'
  <2>1. mine'[w] = Nothing /\ todo'[w] = "none"
    BY <1>1, <1>8, Released
  <2>2. /\ pc'[w] \in {"ack", "idle"} /\ (pc'[w] = "ack" => batch' = batch)
    BY <1>1 DEF Types, Ends
  <2> QED
    BY <1>2, <2>1, <2>2 DEF WorkerOk, Resting, InHandler
<1>13. ASSUME NEW v \in Workers \ {w}  PROVE  WorkerOk(v)'
  <2>1. /\ mine'[v] = mine[v] /\ todo'[v] = todo[v]
        /\ \A u \in Tasks : /\ rowLock[u] = v => rowLock'[u] = v
                            /\ headLock[u] = v => headLock'[u] = v
    BY <1>1, <1>8, Released
  <2>2. pc'[v] = pc[v] /\ batch'[v] = batch[v]
    BY <1>1 DEF Types, Ends
  <2>3. Kept(v)
    BY <2>1, <2>2 DEF Kept, Task, Ends, redis
  <2>4. ASSUME InHandler(v), Task(v) = t, "trail" \in DOMAIN mine[v]
        PROVE  d2 = db[t]
    <3>1. headLock[t] = v
      BY <1>1, <2>4 DEF WorkerOk, Transacting, Locks
    <3>2. "trail" \notin DOMAIN mine[w]
      BY <1>2, <1>4, <3>1 DEF Transacting, Locks
    <3>3. mine[w] = Nothing
      BY <1>6, <3>2 DEF Works, Writes
    <3> QED
      BY <1>3, <1>4, <1>6, <3>3, OverlayNothing
  <2>5. ASSUME InHandler(v), Task(v) = t, todo[v] # "none"
        PROVE  d2.status = db[t].status
    <3>1. "status" \in DOMAIN mine[v] /\ Locks(v)
      BY <1>1, <2>5 DEF WorkerOk, Transacting, Works, Writes
    <3>2. rowLock[t] = v
      BY <2>5, <3>1 DEF Locks
    <3>3. "status" \notin DOMAIN mine[w]
      BY <1>2, <1>4, <3>2 DEF Transacting, Locks
    <3>4. DOMAIN mine[w] \subseteq Columns
      BY <1>6 DEF Works, Writes
    <3>5. d2["status"] = db[t]["status"]
      BY <1>3, <1>4, <1>6, <3>3, <3>4, OverlayFields DEF Columns
    <3> QED
      BY <3>5
  <2> QED
    BY <1>1, <1>7, <1>8, <2>3, <2>4, <2>5, OthersOnNewRow
<1>14. IInv'
  BY <1>9, <1>10, <1>11, <1>12, <1>13 DEF IInv
<1> QED
  BY <1>3, <1>4, <1>5, <1>7, <1>14 DEF GoodRow

LEMMA FinishKeeps ==
  ASSUME IInv, NEW w \in Workers, Finish(w)
  PROVE  IInv' /\ Evolves(db[Task(w)], View(w)) /\ Good(db[Task(w)]) /\ Good(View(w))
<1>1. InHandler(w) /\ todo[w] = "none" /\ pc[w] \notin {"quality", "entailment"}
  BY DEF Finish, At, InHandler
<1>2. faults' \in 0 .. MaxFaults
  BY DEF Finish, budgets, IInv, Types
<1>3. Ends(w) /\ \E status \in {"failed", "succeeded"} : CommitAs(w, status)
  BY <1>2 DEF Finish, Ends, Goto, budgets
<1> QED
  BY <1>1, <1>3, CommitKeeps

\* A bounded budget that is spent stays within its bound.
LEMMA Spent ==
  ASSUME NEW n, NEW max \in Nat, n \in 0 .. max, n < max
  PROVE  n + 1 \in 0 .. max
  OBVIOUS

LEMMA Bounds ==
  /\ MaxFaults \in Nat /\ MaxDups \in Nat /\ MaxLosses \in Nat /\ MaxEntries \in Nat
  BY PipelineAssumption

LEMMA ServiceRaisesKeeps ==
  ASSUME IInv, NEW w \in Workers, ServiceRaises(w)
  PROVE  IInv' /\ Evolves(db[Task(w)], View(w)) /\ Good(db[Task(w)]) /\ Good(View(w))
<1>1. InHandler(w) /\ todo[w] = "none" /\ pc[w] \notin {"quality", "entailment"}
  BY DEF ServiceRaises, InHandler
<1>2. faults' \in 0 .. MaxFaults
  BY Spent, Bounds DEF ServiceRaises, IInv, Types
<1>3. Ends(w) /\ CommitAs(w, "failed")
  BY <1>2 DEF ServiceRaises, Ends, Goto
<1> QED
  BY <1>1, <1>3, CommitKeeps

-----------------------------------------------------------------------------
(* The worker's loop, the API and the environment                          *)

LEMMA BeginKeeps ==
  ASSUME IInv, NEW w \in Workers, Begin(w)
  PROVE  IInv'
<1>1. Types /\ RowsGood /\ Known /\ \A v \in Workers : WorkerOk(v)
  BY DEF IInv
<1>2. /\ pc[w] = "idle" /\ batch[w] # <<>>
      /\ UNCHANGED <<db, unsent, redis, batch, txn, budgets>>
  BY DEF Begin
<1>3. /\ Task(w) \in Tasks /\ db[Task(w)] \in Rows /\ GoodRow(db[Task(w)])
  BY <1>1, <1>2, TaskTyped, TaskGood
<1>4. Resting(w)
  BY <1>1, <1>2 DEF WorkerOk, InHandler
<1>5. PICK d : d = db[Task(w)]
  OBVIOUS
<1>6. PICK next \in {"ack", "advance", "pipeline", "block"} :
        /\ pc' = [pc EXCEPT ![w] = next]
        /\ next = "pipeline" => d.docs
        /\ next = "block" => ~d.docs
  <2>1. CASE epr[w][KeyOf[Task(w)]] = "succeeded" \/ Final(db[Task(w)])
    BY <2>1 DEF Begin, Goto
  <2>2. CASE ~(epr[w][KeyOf[Task(w)]] = "succeeded" \/ Final(db[Task(w)]))
    BY <1>5, <2>2 DEF Begin, Goto
  <2> QED
    BY <2>1, <2>2
<1>7. Types'
  <2>1. pc' \in [Workers -> PCs]
    BY <1>1, <1>6 DEF Types, PCs
  <2>2. epr' \in [Workers -> [Keys -> {"none", "failed", "succeeded"}]]
    <3>1. PICK k \in Keys : k = KeyOf[Task(w)]
      BY <1>3, PipelineAssumption
    <3>2. CASE epr' = epr
      BY <1>1, <3>2 DEF Types
    <3>3. CASE epr' = [epr EXCEPT ![w][k] = "succeeded"]
      BY <1>1, <3>3 DEF Types
    <3> QED
      BY <3>1, <3>2, <3>3 DEF Begin
  <2> QED
    BY <1>1, <1>2, <2>1, <2>2 DEF Types, redis, txn, budgets
<1>8. RowsGood' /\ Known'
  BY <1>1, <1>2 DEF RowsGood, Known, redis
<1>9. ASSUME NEW v \in Workers \ {w}  PROVE  WorkerOk(v)'
  <2>1. pc'[v] = pc[v]
    BY <1>1, <1>6 DEF Types
  <2>2. Kept(v) /\ db' = db
    BY <1>2, <2>1 DEF Kept, Task, redis, txn
  <2> QED
    BY <1>1, <2>2, UndisturbedSameRow
<1>10. WorkerOk(w)'
  <2>1. /\ pc'[w] = next /\ mine'[w] = Nothing /\ todo'[w] = "none"
        /\ batch'[w] # <<>> /\ Task(w)' = Task(w)
    BY <1>1, <1>2, <1>4, <1>6 DEF Types, Resting, txn, Task, redis
  <2>2. CASE next = "ack"
    BY <2>1, <2>2 DEF WorkerOk, Resting, InHandler
  <2>3. CASE next # "ack"
    <3>1. Relies(next, "none", d)
      BY <1>6, <2>3 DEF Relies, WithDocs
    <3>2. Works(Nothing, d, "none", next)
      BY <1>3, <1>5, <1>6, <3>1, BeginWorks
    <3>3. Works(mine'[w], db'[Task(w)'], todo'[w], pc'[w])
      BY <1>2, <1>5, <2>1, <3>2
    <3>4. DOMAIN mine'[w] = {}
      BY <2>1 DEF Nothing
    <3>5. Transacting(w)'
      BY <2>1, <3>3, <3>4 DEF Transacting, Locks
    <3>6. InHandler(w)'
      BY <1>6, <2>1, <2>3 DEF InHandler
    <3> QED
      BY <3>5, <3>6 DEF WorkerOk
  <2> QED
    BY <2>2, <2>3
<1> QED
  BY <1>7, <1>8, <1>9, <1>10 DEF IInv

\* The transaction of a process that ends is gone with its locks.
LEMMA DieKeeps ==
  ASSUME IInv, NEW w \in Workers, Die(w), faults' \in 0 .. MaxFaults
  PROVE  IInv'
<1>1. Types /\ RowsGood /\ Known /\ \A v \in Workers : WorkerOk(v)
  BY DEF IInv
<1>2. /\ batch' = [batch EXCEPT ![w] = <<>>] /\ pc' = [pc EXCEPT ![w] = "down"]
      /\ UNCHANGED <<db, unsent, redis, epr, dups, losses>> /\ Release(w)
  BY DEF Die
<1>3. Types'
  <2>1. batch' \in [Workers -> Seq(1 .. cursor)] /\ pc' \in [Workers -> PCs]
    BY <1>1, <1>2 DEF Types, PCs
  <2>2. /\ mine' = [v \in Workers |-> mine'[v]]
        /\ todo' \in [Workers -> DOMAIN Edge \cup {"none"}]
        /\ rowLock' \in [Tasks -> Workers \cup {Nobody}]
        /\ headLock' \in [Tasks -> Workers \cup {Nobody}]
    BY <1>1, <1>2, Released
  <2> QED
    BY <1>1, <1>2, <2>1, <2>2 DEF Types, redis
<1>4. RowsGood' /\ Known'
  BY <1>1, <1>2 DEF RowsGood, Known, redis
<1>5. ASSUME NEW v \in Workers \ {w}  PROVE  WorkerOk(v)'
  <2>1. /\ mine'[v] = mine[v] /\ todo'[v] = todo[v]
        /\ \A t \in Tasks : /\ rowLock[t] = v => rowLock'[t] = v
                            /\ headLock[t] = v => headLock'[t] = v
    BY <1>1, <1>2, Released
  <2>2. pc'[v] = pc[v] /\ batch'[v] = batch[v]
    BY <1>1, <1>2 DEF Types
  <2>3. Kept(v) /\ db' = db
    BY <1>2, <2>1, <2>2 DEF Kept, Task, redis
  <2> QED
    BY <1>1, <2>3, UndisturbedSameRow
<1>6. WorkerOk(w)'
  <2>1. mine'[w] = Nothing /\ todo'[w] = "none" /\ pc'[w] = "down"
    BY <1>1, <1>2, Released DEF Types
  <2> QED
    BY <2>1 DEF WorkerOk, Resting, InHandler
<1> QED
  BY <1>3, <1>4, <1>5, <1>6 DEF IInv

LEMMA CrashKeeps ==
  ASSUME IInv, NEW w \in Workers, Crash(w)
  PROVE  IInv'
<1>1. faults' \in 0 .. MaxFaults
  BY Spent, Bounds DEF Crash, IInv, Types
<1> QED
  BY <1>1, DieKeeps DEF Crash

LEMMA DeadlockAbortKeeps ==
  ASSUME IInv, NEW w \in Workers, DeadlockAbort(w)
  PROVE  IInv'
<1>1. faults' \in 0 .. MaxFaults
  BY DEF DeadlockAbort, IInv, Types
<1> QED
  BY <1>1, DieKeeps DEF DeadlockAbort

\* A worker out of the handler moves on, with no transaction before or after.
LEMMA LoopKeeps ==
  ASSUME IInv, NEW w \in Workers, ~InHandler(w), Types',
         UNCHANGED <<db, unsent, stream, txn>>,
         NEW next \in {"idle", "down"}, pc' = [pc EXCEPT ![w] = next],
         NEW entries, batch' = [batch EXCEPT ![w] = entries]
  PROVE  IInv'
<1>1. Types /\ RowsGood /\ Known /\ \A v \in Workers : WorkerOk(v)
  BY DEF IInv
<1>2. RowsGood' /\ Known'
  BY <1>1 DEF RowsGood, Known
<1>3. ASSUME NEW v \in Workers \ {w}  PROVE  WorkerOk(v)'
  <2>1. pc'[v] = pc[v] /\ batch'[v] = batch[v]
    BY <1>1 DEF Types
  <2>2. Kept(v) /\ db' = db
    BY <2>1 DEF Kept, Task, txn
  <2> QED
    BY <1>1, <2>2, UndisturbedSameRow
<1>4. WorkerOk(w)'
  <2>1. Resting(w)
    BY <1>1 DEF WorkerOk
  <2>2. mine'[w] = Nothing /\ todo'[w] = "none" /\ pc'[w] = next
    BY <1>1, <2>1 DEF Resting, txn, Types
  <2> QED
    BY <2>2 DEF WorkerOk, Resting, InHandler
<1> QED
  BY <1>2, <1>3, <1>4 DEF IInv

LEMMA StartWorkerKeeps ==
  ASSUME IInv, NEW w \in Workers, StartWorker(w)
  PROVE  IInv'
<1>1. Types
  BY DEF IInv
<1>2. /\ pc[w] = "down" /\ group' = TRUE
      /\ cursor' = IF group THEN cursor ELSE Len(stream)
      /\ pc' = [pc EXCEPT ![w] = "idle"]
      /\ UNCHANGED <<db, unsent, stream, pel, batch, epr, txn, budgets>>
  BY DEF StartWorker
<1>3. Len(stream) \in Nat /\ cursor \in 0 .. Len(stream)
  BY <1>1, LenProperties DEF Types
<1>4. cursor' \in 0 .. Len(stream) /\ 1 .. cursor \subseteq 1 .. cursor'
  BY <1>2, <1>3
<1>5. pel' \in [Workers -> SUBSET (1 .. cursor')]
  BY <1>1, <1>2, <1>4 DEF Types
<1>6. batch' \in [Workers -> Seq(1 .. cursor')]
  <2>1. \A v \in Workers : batch[v] \in Seq(1 .. cursor')
    BY <1>1, <1>4, SeqMonotonic DEF Types
  <2> QED
    BY <1>1, <1>2, <2>1 DEF Types
<1>7. pc' \in [Workers -> PCs]
  BY <1>1, <1>2 DEF Types, PCs
<1>8. Types'
  BY <1>1, <1>2, <1>4, <1>5, <1>6, <1>7 DEF Types, txn, budgets
<1>9. ~InHandler(w) /\ batch' = [batch EXCEPT ![w] = batch[w]]
  BY <1>1, <1>2 DEF InHandler, Types
<1> QED
  BY <1>2, <1>8, <1>9, LoopKeeps

LEMMA ReadBatchKeeps ==
  ASSUME IInv, NEW w \in Workers, ReadBatch(w)
  PROVE  IInv'
<1> DEFINE upTo == IF cursor + BatchSize < Len(stream) THEN cursor + BatchSize
                   ELSE Len(stream)
           entries == [i \in 1 .. (upTo - cursor) |-> cursor + i]
<1>1. Types
  BY DEF IInv
<1>2. /\ pc[w] = "idle" /\ cursor < Len(stream) /\ cursor' = upTo
      /\ batch' = [batch EXCEPT ![w] = entries]
      /\ pel' = [pel EXCEPT ![w] = @ \cup {entries[i] : i \in DOMAIN entries}]
      /\ UNCHANGED <<db, unsent, stream, group, epr, pc, txn, budgets>>
  BY DEF ReadBatch
<1>3. Len(stream) \in Nat /\ cursor \in 0 .. Len(stream) /\ BatchSize \in Nat \ {0}
  BY <1>1, LenProperties, PipelineAssumption DEF Types
<1>4. upTo \in 0 .. Len(stream) /\ upTo - cursor \in Nat /\ cursor \in Nat /\ upTo \in Nat
  BY <1>2, <1>3
<1> HIDE DEF upTo
<1>5. cursor' \in 0 .. Len(stream) /\ 1 .. cursor \subseteq 1 .. cursor'
  BY <1>2, <1>4
<1>6. entries \in Seq(1 .. cursor')
  <2>1. \A i \in 1 .. (upTo - cursor) : cursor + i \in 1 .. cursor'
    BY <1>2, <1>4
  <2>2. entries \in [1 .. (upTo - cursor) -> 1 .. cursor']
    BY <2>1
  <2> HIDE DEF entries
  <2> QED
    BY <1>4, <2>2, SeqDef
<1>7. {entries[i] : i \in DOMAIN entries} \subseteq 1 .. cursor'
  BY <1>2, <1>4
<1> HIDE DEF entries
<1>8. pel' \in [Workers -> SUBSET (1 .. cursor')]
  BY <1>1, <1>2, <1>5, <1>7 DEF Types
<1>9. batch' \in [Workers -> Seq(1 .. cursor')]
  <2>1. \A v \in Workers : batch[v] \in Seq(1 .. cursor')
    BY <1>1, <1>5, SeqMonotonic DEF Types
  <2> QED
    BY <1>1, <1>2, <1>6, <2>1 DEF Types
<1>10. Types'
  BY <1>1, <1>2, <1>5, <1>8, <1>9 DEF Types, txn, budgets
<1>11. ~InHandler(w) /\ pc' = [pc EXCEPT ![w] = "idle"]
  BY <1>1, <1>2 DEF InHandler, Types
<1> QED
  BY <1>2, <1>10, <1>11, LoopKeeps

LEMMA AcknowledgeKeeps ==
  ASSUME IInv, NEW w \in Workers, Acknowledge(w)
  PROVE  IInv'
<1>1. Types /\ Resting(w)
  BY DEF IInv, WorkerOk, Acknowledge, InHandler
<1>2. /\ pc[w] = "ack" /\ batch' = [batch EXCEPT ![w] = Tail(@)]
      /\ pc' = [pc EXCEPT ![w] = "idle"]
      /\ UNCHANGED <<db, unsent, stream, group, cursor, epr, txn, dups, losses>>
  BY DEF Acknowledge
<1>3. pel' \in [Workers -> SUBSET (1 .. cursor)]
  <2>1. pel \in [Workers -> SUBSET (1 .. cursor)]
    BY <1>1 DEF Types
  <2>2. CASE UNCHANGED pel
    BY <2>1, <2>2
  <2>3. CASE pel' = [pel EXCEPT ![w] = @ \ {Head(batch[w])}]
    BY <2>1, <2>3
  <2> QED
    BY <2>2, <2>3 DEF Acknowledge
<1>4. faults' \in 0 .. MaxFaults
  <2>1. CASE UNCHANGED faults
    BY <1>1, <2>1 DEF Types
  <2>2. CASE faults < MaxFaults /\ faults' = faults + 1
    BY <1>1, <2>2, Spent, Bounds DEF Types
  <2> QED
    BY <2>1, <2>2 DEF Acknowledge
<1>5. batch' \in [Workers -> Seq(1 .. cursor)]
  BY <1>1, <1>2, TaskTyped DEF Types, Resting
<1>6. Types'
  BY <1>1, <1>2, <1>3, <1>4, <1>5 DEF Types, txn, PCs
<1>7. ~InHandler(w)
  BY <1>2 DEF InHandler
<1>8. PICK entries : batch' = [batch EXCEPT ![w] = entries]
  BY <1>2
<1> QED
  BY <1>2, <1>6, <1>7, <1>8, LoopKeeps

\* Only the stream, the pending lists and the budgets change: an entry may be
\* added for a task that has one.
LEMMA StreamKeeps ==
  ASSUME IInv, Types', UNCHANGED <<db, batch, pc, txn>>,
         unsent' \subseteq unsent,
         \/ UNCHANGED stream
         \/ \E t \in Tasks : db[t] # NoTask /\ stream' = Append(stream, t)
  PROVE  IInv'
<1>1. Types /\ RowsGood /\ Known /\ \A v \in Workers : WorkerOk(v)
  BY DEF IInv
<1>2. /\ DOMAIN stream \subseteq DOMAIN stream'
      /\ \A i \in DOMAIN stream : stream'[i] = stream[i]
      /\ \A i \in DOMAIN stream' : db[stream'[i]] # NoTask
  <2>1. CASE UNCHANGED stream
    BY <1>1, <2>1 DEF Known
  <2>2. CASE \E t \in Tasks : db[t] # NoTask /\ stream' = Append(stream, t)
    <3>1. PICK t \in Tasks : db[t] # NoTask /\ stream' = Append(stream, t)
      BY <2>2
    <3>2. /\ Len(stream) \in Nat /\ DOMAIN stream = 1 .. Len(stream)
          /\ DOMAIN stream' = 1 .. (Len(stream) + 1)
          /\ \A i \in 1 .. Len(stream) : stream'[i] = stream[i]
          /\ stream'[Len(stream) + 1] = t
      BY <1>1, <3>1, Appended DEF Types
    <3>3. ASSUME NEW i \in DOMAIN stream'  PROVE  db[stream'[i]] # NoTask
      <4>1. CASE i \in DOMAIN stream
        BY <1>1, <3>2, <4>1 DEF Known
      <4>2. CASE i = Len(stream) + 1
        BY <3>1, <3>2, <4>2
      <4> QED
        BY <3>2, <4>1, <4>2
    <3> QED
      BY <3>2, <3>3
  <2> QED
    BY <2>1, <2>2
<1>3. RowsGood' /\ Known'
  BY <1>1, <1>2 DEF RowsGood, Known
<1>4. ASSUME NEW v \in Workers  PROVE  WorkerOk(v)'
  <2>1. batch[v] # <<>> => Head(batch[v]) \in DOMAIN stream
    BY <1>1, TaskTyped
  <2>2. batch[v] # <<>> => Task(v)' = Task(v)
    BY <1>2, <2>1 DEF Task
  <2>3. Kept(v)
    BY <2>2 DEF Kept, txn
  <2> QED
    BY <1>1, <2>3, UndisturbedSameRow
<1> QED
  BY <1>3, <1>4 DEF IInv

LEMMA PublishTaskCreatedKeeps ==
  ASSUME IInv, NEW t \in Tasks, PublishTaskCreated(t)
  PROVE  IInv'
<1>1. Types /\ Known
  BY DEF IInv
<1>2. /\ t \in unsent /\ unsent' = unsent \ {t}
      /\ UNCHANGED <<db, group, cursor, pel, batch, epr, pc, txn, dups, losses>>
  BY DEF PublishTaskCreated
<1>3. /\ stream' \in Seq(Tasks) /\ Len(stream) \in Nat /\ Len(stream') \in Nat
      /\ Len(stream') >= Len(stream)
      /\ UNCHANGED stream \/ stream' = Append(stream, t)
  <2>1. stream \in Seq(Tasks) /\ Len(stream) \in Nat
    BY <1>1, LenProperties DEF Types
  <2>2. UNCHANGED stream \/ stream' = Append(stream, t)
    BY DEF PublishTaskCreated
  <2>3. Append(stream, t) \in Seq(Tasks) /\ Len(Append(stream, t)) = Len(stream) + 1
    BY <2>1, AppendProperties
  <2> QED
    BY <2>1, <2>2, <2>3
<1>4. faults' \in 0 .. MaxFaults
  <2>1. CASE UNCHANGED faults
    BY <1>1, <2>1 DEF Types
  <2>2. CASE faults < MaxFaults /\ faults' = faults + 1
    BY <1>1, <2>2, Spent, Bounds DEF Types
  <2> QED
    BY <2>1, <2>2 DEF PublishTaskCreated
<1>5. cursor' \in 0 .. Len(stream')
  BY <1>1, <1>2, <1>3 DEF Types
<1>6. Types'
  BY <1>1, <1>2, <1>3, <1>4, <1>5 DEF Types, txn
<1>7. db[t] # NoTask
  BY <1>1, <1>2 DEF Known
<1> QED
  BY <1>2, <1>3, <1>6, <1>7, StreamKeeps

\* An operator adds the event of an entry again.
LEMMA AddAgainKeeps ==
  ASSUME IInv, NEW w \in Workers, NEW i \in pel[w], stream' = Append(stream, stream[i]),
         pel' \in [Workers -> SUBSET (1 .. cursor)], dups' \in 0 .. MaxDups,
         UNCHANGED <<db, unsent, group, cursor, batch, epr, pc, txn, faults, losses>>
  PROVE  IInv'
<1>1. Types /\ Known
  BY DEF IInv
<1>2. i \in 1 .. cursor /\ cursor \in 0 .. Len(stream) /\ Len(stream) \in Nat
      /\ DOMAIN stream = 1 .. Len(stream)
  BY <1>1, LenProperties DEF Types
<1>3. i \in DOMAIN stream
  BY <1>2
<1>4. stream[i] \in Tasks /\ db[stream[i]] # NoTask
  BY <1>1, <1>3, ElementOfSeq, LenProperties DEF Types, Known
<1>5. stream' \in Seq(Tasks) /\ Len(stream') = Len(stream) + 1
  BY <1>1, <1>4, AppendProperties DEF Types
<1>6. cursor' \in 0 .. Len(stream')
  BY <1>2, <1>5
<1>7. Types'
  BY <1>1, <1>5, <1>6 DEF Types, txn
<1> QED
  BY <1>4, <1>7, StreamKeeps

LEMMA RequeueKeeps ==
  ASSUME IInv, NEW w \in Workers, NEW i \in pel[w], Requeue(w, i)
  PROVE  IInv'
<1>1. pel' \in [Workers -> SUBSET (1 .. cursor)]
  BY DEF Requeue, IInv, Types
<1>2. dups' \in 0 .. MaxDups
  BY DEF Requeue, IInv, Types, budgets
<1> QED
  BY <1>1, <1>2, AddAgainKeeps DEF Requeue, budgets

LEMMA DuplicateKeeps ==
  ASSUME IInv, NEW w \in Workers, NEW i \in pel[w], Duplicate(w, i)
  PROVE  IInv'
<1>1. pel' \in [Workers -> SUBSET (1 .. cursor)]
  BY DEF Duplicate, IInv, Types
<1>2. dups' \in 0 .. MaxDups
  BY Spent, Bounds DEF Duplicate, IInv, Types
<1> QED
  BY <1>1, <1>2, AddAgainKeeps DEF Duplicate

\* A task has no event before it exists: nobody works on it.
LEMMA CreateTaskKeeps ==
  ASSUME IInv, NEW t \in Tasks, CreateTask(t)
  PROVE  IInv'
<1>1. Types /\ RowsGood /\ Known /\ \A v \in Workers : WorkerOk(v)
  BY DEF IInv
<1>2. PICK docs \in BOOLEAN, sound \in BOOLEAN :
        db' = [db EXCEPT ![t] = [NoTask EXCEPT !.status = "created", !.docs = docs,
                                               !.sound = sound, !.trail = <<"created">>]]
  BY DEF CreateTask
<1> DEFINE d == [NoTask EXCEPT !.status = "created", !.docs = docs,
                               !.sound = sound, !.trail = <<"created">>]
<1>3. /\ DOMAIN d = Columns
      /\ d = [x \in Columns |-> d[x]]
      /\ d.status = "created" /\ d.docs = docs /\ d.sound = sound /\ d.claim = "none"
      /\ d.draft = "none" /\ d.report = "none" /\ d.answer = FALSE
      /\ d.trail = <<"created">>
  BY DEF NoTask, Columns
<1>4. db' = [db EXCEPT ![t] = d]
  BY <1>2
<1> HIDE DEF d
<1>5. <<"created">> \in Seq(Events) /\ "created" \in DOMAIN Edge
  BY DEF Events, Edge
<1>6. d \in Rows
  <2>1. d.status \in Statuses \cup {"none"} /\ d.trail \in Seq(DOMAIN Edge \cup Steps)
    BY <1>3, <1>5 DEF Statuses, Events
  <2> QED
    BY <1>3, <2>1 DEF Rows, Columns
<1>7. GoodRow(d)
  <2>1. DOMAIN <<"created">> = {1} /\ <<"created">>[1] = "created"
        /\ Len(<<"created">>) = 1
    OBVIOUS
  <2>2. Edge["created"][2] = "created"
    BY DEF Edge
  <2>3. Replays(<<"created">>, "created")
    BY <1>5, <2>1, <2>2 DEF Replays, IsTransition
  <2>4. Analysed(<<"created">>, "created")
    BY <2>1 DEF Analysed, Later
  <2>5. Fits(d, "created")
    BY <1>3 DEF Fits
  <2>6. Complete(<<"created">>)
    BY <2>1 DEF Complete, Last
  <2> QED
    BY <1>3, <1>6, <2>3, <2>4, <2>5, <2>6 DEF GoodRow, Good, GoodAs
<1>8. db[t].status = "none" /\ db[t] \in Rows
  BY <1>1 DEF CreateTask, Types
<1>9. db[t] = NoTask
  BY <1>1, <1>8 DEF RowsGood, GoodRow, Good, GoodAs
<1>10. /\ unsent' = unsent \cup {t}
       /\ UNCHANGED <<redis, batch, epr, pc, txn, budgets>>
  BY DEF CreateTask
<1>11. Types'
  BY <1>1, <1>4, <1>6, <1>10 DEF Types, redis, txn, budgets
<1>12. RowsGood'
  BY <1>1, <1>4, <1>7 DEF RowsGood, Types
<1>13. d # NoTask
  BY <1>3 DEF NoTask
<1>14. Known'
  <2>1. \A u \in Tasks : db[u] # NoTask => db'[u] # NoTask
    BY <1>1, <1>4, <1>13 DEF Types
  <2>2. db'[t] # NoTask
    BY <1>1, <1>4, <1>13 DEF Types
  <2>3. unsent \subseteq Tasks /\ \A i \in DOMAIN stream : stream[i] \in Tasks
    BY <1>1, ElementOfSeq, LenProperties DEF Types
  <2> QED
    BY <1>1, <1>10, <2>1, <2>2, <2>3 DEF Known, redis
<1>15. ASSUME NEW v \in Workers  PROVE  WorkerOk(v)'
  <2>1. Kept(v)
    BY <1>10 DEF Kept, Task, redis, txn
  <2>2. ASSUME InHandler(v)  PROVE  db'[Task(v)] = db[Task(v)]
    <3>1. batch[v] # <<>>
      BY <1>1, <2>2 DEF WorkerOk, Transacting
    <3>2. Task(v) # t
      BY <1>1, <1>9, <3>1, TaskGood
    <3> QED
      BY <1>1, <1>4, <3>2 DEF Types
  <2> QED
    BY <1>1, <2>1, <2>2, UndisturbedSameRow
<1> QED
  BY <1>11, <1>12, <1>14, <1>15 DEF IInv

\* The loss holds the head of the trail: who works on the task has not got it.
LEMMA LoseSourceKeeps ==
  ASSUME IInv, NEW t \in Tasks, LoseSource(t)
  PROVE  IInv' /\ Evolves(db[t], db'[t]) /\ Good(db[t]) /\ Good(db'[t])
         /\ \A u \in Tasks \ {t} : db'[u] = db[u]
<1>1. Types /\ RowsGood /\ Known /\ \A v \in Workers : WorkerOk(v)
  BY DEF IInv
<1> DEFINE d == db[t]
           d2 == [d EXCEPT !.claim = "lost", !.trail = Append(@, "source_lost")]
<1>2. /\ losses < MaxLosses /\ losses' = losses + 1 /\ d.claim = "verified"
      /\ headLock[t] = Nobody
      /\ UNCHANGED <<unsent, redis, batch, epr, pc, txn, faults, dups>>
  BY DEF LoseSource
<1>3. db' = [db EXCEPT ![t] = d2]
  <2>1. db' = [db EXCEPT ![t].claim = "lost", ![t].trail = Append(@, "source_lost")]
    BY DEF LoseSource
  <2> QED
    BY <1>1, <2>1 DEF Types
<1>4. d \in Rows /\ GoodRow(d)
  <2>1. d # NoTask
    BY <1>2 DEF NoTask
  <2> QED
    BY <1>1, <2>1 DEF Types, RowsGood
<1> HIDE DEF d
<1>5. /\ d2 = [x \in Columns |-> d2[x]]
      /\ d2.status = d.status /\ d2.docs = d.docs /\ d2.sound = d.sound
      /\ d2.claim = "lost" /\ d2.draft = d.draft /\ d2.report = d.report
      /\ d2.answer = d.answer /\ d2.trail = Append(d.trail, "source_lost")
  BY <1>4 DEF Rows, Columns
<1> HIDE DEF d2
<1>6. /\ "source_lost" \in Events /\ "source_lost" \notin DOMAIN Edge
      /\ d.trail \in Seq(Events) /\ Len(d.trail) # 0
      /\ Append(d.trail, "source_lost") \in Seq(Events)
      /\ Last(Append(d.trail, "source_lost")) = "source_lost"
  <2>1. "source_lost" \in Events /\ "source_lost" \notin DOMAIN Edge
    BY DEF Events, Steps, Edge
  <2> QED
    BY <1>4, <2>1, TrailOf DEF GoodRow, Good
<1>7. d2 \in Rows
  <2>1. d2.trail \in Seq(DOMAIN Edge \cup Steps)
    BY <1>5, <1>6 DEF Events
  <2>2. /\ d2.status \in Statuses \cup {"none"} /\ d2.docs \in BOOLEAN
        /\ d2.sound \in BOOLEAN /\ d2.draft \in {"none", "spans", "empty"}
        /\ d2.report \in {"none", "approved", "rejected"} /\ d2.answer \in BOOLEAN
    BY <1>4, <1>5 DEF Rows
  <2> QED
    BY <1>5, <2>1, <2>2 DEF Rows, Columns
<1>8. GoodRow(d2)
  <2>1. Replays(d2.trail, d2.status)
    BY <1>4, <1>5, <1>6, ReplaysStep DEF GoodRow, Good, GoodAs
  <2>2. Due(Last(d.trail), "source_lost")
    BY <1>4 DEF GoodRow, Complete, Due
  <2>3. Analysed(d.trail, d.status)
    BY <1>4 DEF GoodRow, Good, GoodAs
  <2>4. Analysed(d2.trail, d2.status)
    BY <1>5, <1>6, <2>2, <2>3, AnalysedAppend
  <2>5. Fits(d2, d2.status)
    BY <1>4, <1>5 DEF GoodRow, Good, GoodAs, Fits
  <2>6. Complete(d2.trail)
    BY <1>5, <1>6 DEF Complete
  <2> QED
    BY <1>4, <1>5, <1>7, <2>1, <2>4, <2>5, <2>6 DEF GoodRow, Good, GoodAs
<1>9. Evolves(d, d2)
  BY <1>5 DEF Evolves, Entered
<1>10. Types'
  <2>1. losses' \in 0 .. MaxLosses
    BY <1>1, <1>2, Spent, Bounds DEF Types
  <2>2. db' \in [Tasks -> Rows]
    BY <1>1, <1>3, <1>7 DEF Types
  <2> QED
    BY <1>1, <1>2, <2>1, <2>2 DEF Types, redis, txn
<1>11. RowsGood'
  BY <1>1, <1>3, <1>8 DEF RowsGood, Types
<1>12. Known'
  <2>1. d2 # NoTask
    BY <1>5 DEF NoTask
  <2>2. \A u \in Tasks : db[u] # NoTask => db'[u] # NoTask
    BY <1>1, <1>3, <2>1 DEF Types
  <2>3. unsent \subseteq Tasks /\ \A i \in DOMAIN stream : stream[i] \in Tasks
    BY <1>1, ElementOfSeq, LenProperties DEF Types
  <2> QED
    BY <1>1, <1>2, <2>2, <2>3 DEF Known, redis
<1>13. ASSUME NEW v \in Workers  PROVE  WorkerOk(v)'
  <2>1. Kept(v)
    BY <1>2 DEF Kept, Task, redis, txn
  <2>2. ASSUME InHandler(v), Task(v) = t  PROVE  "trail" \notin DOMAIN mine[v]
    BY <1>1, <1>2, <2>2, PipelineAssumption DEF WorkerOk, Transacting, Locks
  <2> QED
    BY <1>1, <1>3, <1>5, <1>7, <1>8, <1>9, <2>1, <2>2, OthersOnNewRow DEF d
<1>14. db'[t] = d2 /\ \A u \in Tasks \ {t} : db'[u] = db[u]
  BY <1>1, <1>3 DEF Types
<1> QED
  BY <1>4, <1>8, <1>9, <1>10, <1>11, <1>12, <1>13, <1>14 DEF IInv, GoodRow, d

-----------------------------------------------------------------------------
(* The theorems                                                            *)

LEMMA InitInvariant ==
  ASSUME Init
  PROVE  IInv
<1>1. /\ db = [t \in Tasks |-> NoTask]
      /\ unsent = {} /\ stream = <<>> /\ group = FALSE /\ cursor = 0
      /\ pel = [w \in Workers |-> {}] /\ batch = [w \in Workers |-> <<>>]
      /\ epr = [w \in Workers |-> [k \in Keys |-> "none"]]
      /\ pc = [w \in Workers |-> "down"] /\ mine = [w \in Workers |-> Nothing]
      /\ todo = [w \in Workers |-> "none"]
      /\ rowLock = [t \in Tasks |-> Nobody] /\ headLock = [t \in Tasks |-> Nobody]
      /\ faults = 0 /\ dups = 0 /\ losses = 0
  BY DEF Init
<1>2. NoTask \in Rows
  BY DEF NoTask, Rows
<1>3. /\ stream \in Seq(Tasks) /\ Len(stream) = 0 /\ DOMAIN stream = {}
      /\ batch \in [Workers -> Seq(1 .. cursor)]
  BY <1>1
<1>4. Types
  <2>1. db \in [Tasks -> Rows]
    BY <1>1, <1>2
  <2>2. /\ 0 \in 0 .. MaxFaults /\ 0 \in 0 .. MaxDups /\ 0 \in 0 .. MaxLosses
    BY Bounds
  <2>3. /\ pc \in [Workers -> PCs] /\ todo \in [Workers -> DOMAIN Edge \cup {"none"}]
        /\ epr \in [Workers -> [Keys -> {"none", "failed", "succeeded"}]]
        /\ pel \in [Workers -> SUBSET (1 .. cursor)]
        /\ rowLock \in [Tasks -> Workers \cup {Nobody}]
        /\ headLock \in [Tasks -> Workers \cup {Nobody}]
    BY <1>1 DEF PCs
  <2>4. mine = [w \in Workers |-> mine[w]]
    BY <1>1
  <2>5. unsent \subseteq Tasks /\ cursor \in 0 .. Len(stream) /\ group \in BOOLEAN
    <3>1. unsent \subseteq Tasks /\ group \in BOOLEAN
      BY <1>1
    <3>2. cursor \in 0 .. Len(stream)
      BY <1>1, <1>3
    <3> QED
      BY <3>1, <3>2
  <2>6. /\ faults \in 0 .. MaxFaults /\ dups \in 0 .. MaxDups
        /\ losses \in 0 .. MaxLosses
    BY <1>1, <2>2
  <2> QED
    BY <1>3, <2>1, <2>3, <2>4, <2>5, <2>6 DEF Types
<1>5. RowsGood /\ Known
  BY <1>1, <1>3 DEF RowsGood, Known
<1>6. \A w \in Workers : WorkerOk(w)
  BY <1>1 DEF WorkerOk, InHandler, Resting
<1> QED
  BY <1>4, <1>5, <1>6 DEF IInv

\* What a step does to the committed rows: a task is created, or its row
\* becomes a good later version of itself.
RowsEvolve ==
  \A t \in Tasks :
    \/ db'[t] = db[t] \/ db[t] = NoTask
    \/ Good(db[t]) /\ Good(db'[t]) /\ Evolves(db[t], db'[t])

LEMMA CommitEvolves ==
  ASSUME Types, NEW w \in Workers, NEW status, CommitAs(w, status),
         Evolves(db[Task(w)], View(w)), Good(db[Task(w)]), Good(View(w))
  PROVE  RowsEvolve
  BY DEF RowsEvolve, CommitAs, Types

LEMMA HandlerStepKeeps ==
  ASSUME IInv, NEW w \in Workers, HandlerStep(w)
  PROVE  IInv' /\ RowsEvolve
<1>1. ASSUME UNCHANGED db  PROVE  RowsEvolve
  BY <1>1 DEF RowsEvolve
<1>2. CASE AdvanceToAnalyzing(w)
  BY <1>1, <1>2, AdvanceToAnalyzingKeeps DEF AdvanceToAnalyzing, Transition
<1>3. CASE AdvanceToBlockedNoDocs(w)
  BY <1>1, <1>3, AdvanceToBlockedNoDocsKeeps DEF AdvanceToBlockedNoDocs, Transition
<1>4. CASE RunPipelineWithDocs(w)
  BY <1>1, <1>4, RunPipelineWithDocsKeeps DEF RunPipelineWithDocs
<1>5. CASE EnterCompileStage(w)
  BY <1>1, <1>5, EnterCompileStageKeeps DEF EnterCompileStage
<1>6. CASE Extract(w)
  BY <1>1, <1>6, ExtractKeeps DEF Extract, AuditedStep
<1>7. CASE Verify(w)
  BY <1>1, <1>7, VerifyKeeps DEF Verify, AuditedStep
<1>8. CASE AdvanceToAnalyzedPartial(w)
  BY <1>1, <1>8, AdvanceToAnalyzedPartialKeeps DEF AdvanceToAnalyzedPartial, Transition
<1>9. CASE RunSourceQuality(w)
  BY <1>1, <1>9, RunSourceQualityKeeps DEF RunSourceQuality, AuditedStep
<1>10. CASE RunClaimEntailment(w)
  BY <1>1, <1>10, RunClaimEntailmentKeeps DEF RunClaimEntailment, AuditedStep
<1>11. CASE AdvanceToCompiling(w)
  BY <1>1, <1>11, AdvanceToCompilingKeeps DEF AdvanceToCompiling, Transition
<1>12. CASE Compile(w)
  BY <1>1, <1>12, CompileKeeps DEF Compile, AuditedStep
<1>13. CASE RunGate(w)
  BY <1>1, <1>13, RunGateKeeps DEF RunGate, AuditedStep
<1>14. CASE AdvanceToPublished(w)
  BY <1>1, <1>14, AdvanceToPublishedKeeps DEF AdvanceToPublished, Transition
<1>15. CASE RevertToAnalyzedPartialWithHeld(w)
  BY <1>1, <1>15, RevertToAnalyzedPartialWithHeldKeeps
  DEF RevertToAnalyzedPartialWithHeld, Transition
<1>16. CASE AuditTransition(w)
  BY <1>1, <1>16, AuditTransitionKeeps DEF AuditTransition
<1>17. CASE Finish(w)
  <2>1. Types
    BY DEF IInv
  <2>2. \E status \in {"failed", "succeeded"} : CommitAs(w, status)
    BY <1>17 DEF Finish
  <2> QED
    BY <1>17, <2>1, <2>2, FinishKeeps, CommitEvolves
<1> QED
  BY <1>2, <1>3, <1>4, <1>5, <1>6, <1>7, <1>8, <1>9, <1>10, <1>11, <1>12, <1>13,
     <1>14, <1>15, <1>16, <1>17 DEF HandlerStep

LEMMA StutterKeeps ==
  ASSUME IInv, UNCHANGED vars
  PROVE  IInv'
<1>1. Types /\ RowsGood /\ Known /\ \A w \in Workers : WorkerOk(w)
  BY DEF IInv
<1>2. Types' /\ RowsGood' /\ Known'
  BY <1>1 DEF vars, redis, txn, budgets, Types, RowsGood, Known
<1>3. ASSUME NEW w \in Workers  PROVE  WorkerOk(w)'
  <2>1. Kept(w) /\ db' = db
    BY DEF Kept, Task, vars, redis, txn
  <2> QED
    BY <1>1, <2>1, UndisturbedSameRow
<1> QED
  BY <1>2, <1>3 DEF IInv

LEMMA NextKeeps ==
  ASSUME IInv, Next
  PROVE  IInv' /\ RowsEvolve
<1>1. ASSUME UNCHANGED db  PROVE  RowsEvolve
  BY <1>1 DEF RowsEvolve
<1>2. CASE \E w \in Workers : WorkerStep(w)
  <2>1. PICK w \in Workers : WorkerStep(w)
    BY <1>2
  <2>2. CASE StartWorker(w)
    BY <1>1, <2>2, StartWorkerKeeps DEF StartWorker
  <2>3. CASE ReadBatch(w)
    BY <1>1, <2>3, ReadBatchKeeps DEF ReadBatch
  <2>4. CASE Begin(w)
    BY <1>1, <2>4, BeginKeeps DEF Begin
  <2>5. CASE HandlerStep(w)
    BY <2>5, HandlerStepKeeps
  <2>6. CASE Acknowledge(w)
    BY <1>1, <2>6, AcknowledgeKeeps DEF Acknowledge
  <2> QED
    BY <2>1, <2>2, <2>3, <2>4, <2>5, <2>6 DEF WorkerStep
<1>3. CASE \E t \in Tasks : CreateTask(t) \/ PublishTaskCreated(t) \/ LoseSource(t)
  <2>1. PICK t \in Tasks : CreateTask(t) \/ PublishTaskCreated(t) \/ LoseSource(t)
    BY <1>3
  <2>2. CASE CreateTask(t)
    <3>1. db[t] = NoTask
      <4>1. db[t].status = "none" /\ RowsGood
        BY <2>2 DEF CreateTask, IInv
      <4> QED
        BY <4>1 DEF RowsGood, GoodRow, Good, GoodAs
    <3>2. \A u \in Tasks \ {t} : db'[u] = db[u]
      BY <2>2 DEF CreateTask, IInv, Types
    <3> QED
      BY <2>2, <3>1, <3>2, CreateTaskKeeps DEF RowsEvolve
  <2>3. CASE PublishTaskCreated(t)
    BY <1>1, <2>3, PublishTaskCreatedKeeps DEF PublishTaskCreated
  <2>4. CASE LoseSource(t)
    BY <2>4, LoseSourceKeeps DEF RowsEvolve
  <2> QED
    BY <2>1, <2>2, <2>3, <2>4
<1>4. CASE \E w \in Workers :
             \/ Crash(w)
             \/ ServiceRaises(w)
             \/ DeadlockAbort(w)
             \/ \E i \in pel[w] : Requeue(w, i) \/ Duplicate(w, i)
  <2>1. PICK w \in Workers :
          \/ Crash(w)
          \/ ServiceRaises(w)
          \/ DeadlockAbort(w)
          \/ \E i \in pel[w] : Requeue(w, i) \/ Duplicate(w, i)
    BY <1>4
  <2>2. CASE Crash(w)
    BY <1>1, <2>2, CrashKeeps DEF Crash, Die
  <2>3. CASE ServiceRaises(w)
    <3>1. Types /\ CommitAs(w, "failed")
      BY <2>3 DEF IInv, ServiceRaises
    <3> QED
      BY <2>3, <3>1, ServiceRaisesKeeps, CommitEvolves
  <2>4. CASE DeadlockAbort(w)
    BY <1>1, <2>4, DeadlockAbortKeeps DEF DeadlockAbort, Die
  <2>5. CASE \E i \in pel[w] : Requeue(w, i) \/ Duplicate(w, i)
    <3>1. PICK i \in pel[w] : Requeue(w, i) \/ Duplicate(w, i)
      BY <2>5
    <3>2. CASE Requeue(w, i)
      BY <1>1, <3>2, RequeueKeeps DEF Requeue
    <3>3. CASE Duplicate(w, i)
      BY <1>1, <3>3, DuplicateKeeps DEF Duplicate
    <3> QED
      BY <3>1, <3>2, <3>3
  <2> QED
    BY <2>1, <2>2, <2>3, <2>4, <2>5
<1>5. CASE Quiet
  <2>1. UNCHANGED vars
    BY <1>5 DEF Quiet
  <2> QED
    BY <1>1, <2>1, StutterKeeps DEF vars
<1> QED
  BY <1>2, <1>3, <1>4, <1>5 DEF Next, Environment

\* Whatever is interleaved, redelivered, lost or aborted, each transaction works
\* on a good row under its own columns, and commits a later version of it.
THEOREM Invariant == Spec => []IInv
<1>1. Init => IInv
  BY InitInvariant
<1>2. IInv /\ [Next]_vars => IInv'
  BY NextKeeps, StutterKeeps
<1> QED
  BY <1>1, <1>2, PTL DEF Spec

\* The variables keep their types; a worker out of the handler holds nothing.
THEOREM TypesHold == Spec => []TypeOK
<1>1. ASSUME IInv  PROVE  TypeOK
  <2>1. Types /\ \A w \in Workers : WorkerOk(w)
    BY <1>1 DEF IInv
  <2>2. ASSUME NEW w \in Workers
        PROVE  /\ InHandler(w) => View(w) \in Rows
               /\ ~InHandler(w) => mine[w] = Nothing /\ todo[w] = "none"
    BY <2>1 DEF WorkerOk, Transacting, Resting, Works, View
  <2> QED
    BY <2>1, <2>2 DEF TypeOK, Types, PCs
<1> QED
  BY <1>1, Invariant, PTL

\* The committed trail of a task is a walk through its states that ends in the
\* state it is in.
THEOREM TrailReplaysStatus == Spec => []AuditReplaysStatus
<1>1. ASSUME IInv  PROVE  AuditReplaysStatus
  <2>1. RowsGood
    BY <1>1 DEF IInv
  <2>2. NoTask.status = "none"
    BY DEF NoTask
  <2> QED
    BY <2>1, <2>2 DEF AuditReplaysStatus, RowsGood, GoodRow, Good, GoodAs
<1> QED
  BY <1>1, Invariant, PTL

\* A complete trail that has the analysis in one piece has its three events one
\* after the other.
LEMMA AnalysisInTrail ==
  ASSUME NEW row, GoodRow(row)
  PROVE  LET at(e) == Positions(row.trail, e) IN
         /\ \A i, j \in at("analyzed_partial") : i = j
         /\ at("source_quality_assessed") = {i + 1 : i \in at("analyzed_partial")}
         /\ at("entailment_checked") = {i + 2 : i \in at("analyzed_partial")}
         /\ row.status \in Later => at("analyzed_partial") # {}
<1>1. PICK s : s = row.trail
  OBVIOUS
<1> DEFINE n == Len(s)
           at(e) == Positions(s, e)
<1>2. /\ s \in Seq(Events) /\ Replays(s, row.status) /\ Analysed(s, row.status)
      /\ Complete(s)
  BY <1>1 DEF GoodRow, Good, GoodAs, Rows, Events
<1>3. n \in Nat \ {0} /\ DOMAIN s = 1 .. n /\ s[1] = "created"
  BY <1>2, ReplaysNonEmpty DEF Replays
<1>4. s[n] \notin {"analyzed_partial", "source_quality_assessed"}
  BY <1>2 DEF Complete, Last
<1>5. ASSUME NEW i \in 1 .. n, i + 1 \in 1 .. n
      PROVE  /\ s[i] = "analyzed_partial" <=> s[i + 1] = "source_quality_assessed"
             /\ s[i] = "source_quality_assessed" <=> s[i + 1] = "entailment_checked"
  BY <1>2, <1>3, <1>5 DEF Analysed
<1> HIDE DEF n
<1>6. \A i \in 1 .. n : s[i] = "analyzed_partial" =>
        i + 1 \in 1 .. n /\ s[i + 1] = "source_quality_assessed"
  BY <1>3, <1>4, <1>5
<1>7. \A i \in 1 .. n : s[i] = "source_quality_assessed" =>
        /\ i + 1 \in 1 .. n /\ s[i + 1] = "entailment_checked"
        /\ i - 1 \in 1 .. n /\ s[i - 1] = "analyzed_partial"
  <2> SUFFICES ASSUME NEW i \in 1 .. n, s[i] = "source_quality_assessed"
               PROVE  /\ i + 1 \in 1 .. n /\ s[i + 1] = "entailment_checked"
                      /\ i - 1 \in 1 .. n /\ s[i - 1] = "analyzed_partial"
    OBVIOUS
  <2>1. i # n /\ i # 1
    BY <1>3, <1>4
  <2>2. i + 1 \in 1 .. n /\ i - 1 \in 1 .. n /\ (i - 1) + 1 = i
    BY <1>3, <2>1
  <2> QED
    BY <1>5, <2>2
<1>8. \A i \in 1 .. n : s[i] = "entailment_checked" =>
        i - 1 \in 1 .. n /\ s[i - 1] = "source_quality_assessed"
  <2> SUFFICES ASSUME NEW i \in 1 .. n, s[i] = "entailment_checked"
               PROVE  i - 1 \in 1 .. n /\ s[i - 1] = "source_quality_assessed"
    OBVIOUS
  <2>1. i # 1
    BY <1>3
  <2>2. i - 1 \in 1 .. n /\ (i - 1) + 1 = i
    BY <1>3, <2>1
  <2> QED
    BY <1>5, <2>2
<1>9. \A i, j \in at("analyzed_partial") : i = j
  BY <1>2 DEF Analysed, Positions
<1>10. at("source_quality_assessed") = {i + 1 : i \in at("analyzed_partial")}
  BY <1>3, <1>6, <1>7 DEF Positions
<1>11. at("entailment_checked") = {i + 2 : i \in at("analyzed_partial")}
  <2>1. ASSUME NEW i \in at("entailment_checked")
        PROVE  i \in {k + 2 : k \in at("analyzed_partial")}
    <3>1. i \in 1 .. n /\ s[i] = "entailment_checked"
      BY <1>3, <2>1 DEF Positions
    <3>2. i - 1 \in 1 .. n /\ s[i - 1] = "source_quality_assessed"
      BY <1>8, <3>1
    <3>3. (i - 1) - 1 \in 1 .. n /\ s[(i - 1) - 1] = "analyzed_partial"
      BY <1>7, <3>2
    <3>4. (i - 1) - 1 \in at("analyzed_partial") /\ i = ((i - 1) - 1) + 2
      BY <1>3, <3>1, <3>3 DEF Positions
    <3> QED
      BY <3>4
  <2>2. ASSUME NEW k \in at("analyzed_partial")
        PROVE  k + 2 \in at("entailment_checked")
    <3>1. k \in 1 .. n /\ s[k] = "analyzed_partial"
      BY <1>3 DEF Positions
    <3>2. k + 1 \in 1 .. n /\ s[k + 1] = "source_quality_assessed"
      BY <1>6, <3>1
    <3>3. (k + 1) + 1 \in 1 .. n /\ s[(k + 1) + 1] = "entailment_checked"
      BY <1>7, <3>2
    <3>4. (k + 1) + 1 = k + 2
      BY <3>1
    <3> QED
      BY <1>3, <3>3, <3>4 DEF Positions
  <2> QED
    BY <2>1, <2>2
<1>12. row.status \in Later => at("analyzed_partial") # {}
  BY <1>2 DEF Analysed, Positions
<1> QED
  BY <1>1, <1>9, <1>10, <1>11, <1>12

\* The assessments of the analysis are committed with the one transition to
\* analyzed_partial that comes from it, and follow it at once.
THEOREM AnalysisIsAuditedOnce == Spec => []AnalysisAuditedOnce
<1>1. ASSUME IInv  PROVE  AnalysisAuditedOnce
  <2> SUFFICES ASSUME NEW t \in Tasks
               PROVE  LET at(e) == Positions(db[t].trail, e) IN
                      /\ \A i, j \in at("analyzed_partial") : i = j
                      /\ at("source_quality_assessed") =
                           {i + 1 : i \in at("analyzed_partial")}
                      /\ at("entailment_checked") = {i + 2 : i \in at("analyzed_partial")}
                      /\ db[t].status \in {"compiling", "published"} =>
                           at("analyzed_partial") # {}
    BY DEF AnalysisAuditedOnce
  <2>1. CASE db[t] = NoTask
    <3>1. db[t].status = "none" /\ db[t].trail = <<>>
      BY <2>1 DEF NoTask
    <3>2. \A e : Positions(<<>>, e) = {}
      BY DEF Positions
    <3> QED
      BY <3>1, <3>2
  <2>2. CASE GoodRow(db[t])
    BY <2>2, AnalysisInTrail DEF Later
  <2>3. RowsGood
    BY <1>1 DEF IInv
  <2> QED
    BY <2>1, <2>2, <2>3 DEF RowsGood
<1> QED
  BY <1>1, Invariant, PTL

\* Status, gate report and answer of a task tell one story.
THEOREM OutcomeIsCoherent == Spec => []CoherentOutcome
<1>1. ASSUME IInv  PROVE  CoherentOutcome
  <2>1. RowsGood
    BY <1>1 DEF IInv
  <2>2. NoTask.status = "none" /\ NoTask.report = "none" /\ NoTask.answer = FALSE
    BY DEF NoTask
  <2>3. ASSUME NEW t \in Tasks, db[t] = NoTask \/ Fits(db[t], db[t].status)
        PROVE  /\ db[t].answer <=> db[t].report = "approved"
               /\ db[t].status = "published" => db[t].answer
               /\ db[t].status = "analyzed_partial" /\ db[t].report = "approved" =>
                    db[t].claim = "lost"
               /\ db[t].report # "none" => db[t].draft # "none"
               /\ db[t].status = "blocked" => ~db[t].docs /\ db[t].report = "none"
    BY <2>2, <2>3 DEF Fits
  <2>4. \A t \in Tasks : db[t] = NoTask \/ Fits(db[t], db[t].status)
    BY <2>1 DEF RowsGood, GoodRow, Good, GoodAs
  <2> QED
    BY <2>3, <2>4 DEF CoherentOutcome
<1> QED
  BY <1>1, Invariant, PTL

\* A blocked or published task stays so, with the answer it has.
THEOREM OutcomeIsFinal == Spec => PublishedAndBlockedAreFinal
<1> DEFINE StaysFinal == \A t \in Tasks : db[t].status \in {"blocked", "published"} =>
                      db'[t].status = db[t].status /\ db'[t].answer = db[t].answer
<1>1. ASSUME IInv, RowsEvolve  PROVE  StaysFinal
  <2> SUFFICES ASSUME NEW t \in Tasks, db[t].status \in {"blocked", "published"}
               PROVE  db'[t].status = db[t].status /\ db'[t].answer = db[t].answer
    OBVIOUS
  <2>1. CASE db'[t] = db[t]
    BY <2>1
  <2>2. CASE Good(db[t]) /\ Good(db'[t]) /\ Evolves(db[t], db'[t])
    <3>1. PICK r, s : r = db[t] /\ s = db'[t]
      OBVIOUS
    <3>2. /\ r \in Rows /\ s \in Rows /\ Fits(r, r.status) /\ Fits(s, s.status)
          /\ Evolves(r, s) /\ r.status \in {"blocked", "published"}
      BY <2>2, <3>1 DEF Good, GoodAs
    <3>3. s.status = r.status
      BY <3>2 DEF Evolves
    <3>4. r.answer \in BOOLEAN /\ s.answer \in BOOLEAN
      BY <3>2 DEF Rows
    <3>5. r.answer <=> s.answer
      BY <3>2, <3>3 DEF Fits
    <3> QED
      BY <3>1, <3>3, <3>4, <3>5
  <2>3. db[t] # NoTask
    BY DEF NoTask
  <2> QED
    BY <1>1, <2>1, <2>2, <2>3 DEF RowsEvolve
<1>2. IInv /\ [Next]_vars => [StaysFinal]_vars
  BY <1>1, NextKeeps
<1> QED
  BY <1>2, Invariant, PTL DEF Spec, PublishedAndBlockedAreFinal

-----------------------------------------------------------------------------
(***************************************************************************)
(* When no operator adds an entry of a task that is being handled, the     *)
(* pipeline implements TaskLifecycle, whatever crashes, fails or is        *)
(* delivered again, and an acknowledged entry has its outcome under its    *)
(* idempotency key.  Tasks may share a key, as their clients choose it.    *)
(*                                                                         *)
(* A task then has at most one live entry (still to be read, or pending    *)
(* with one worker), so one worker at a time is at work on it, and the     *)
(* committed row of a task in the handler has no outcome yet.              *)
(***************************************************************************)

\* What the operators have to keep to.
OneAtATime == MaxDups = 0

-----------------------------------------------------------------------------
(* The inductive invariant                                                 *)

\* Entries still to be read, or delivered and not acknowledged.
Live(i) == i > cursor \/ \E w \in Workers : i \in pel[w]

\* A worker has each entry of its batch once, and pending.
Holds(entries, pending) ==
  /\ \A i \in DOMAIN entries : entries[i] \in pending
  /\ \A i, j \in DOMAIN entries : entries[i] = entries[j] => i = j

OneLiveEntry ==
  /\ \A w \in Workers : Holds(batch[w], pel[w])
  /\ \A v, w \in Workers : pel[v] \cap pel[w] # {} => v = w
  /\ \A i, j \in DOMAIN stream : Live(i) /\ Live(j) /\ stream[i] = stream[j] => i = j
  /\ \A i \in DOMAIN stream : Live(i) => stream[i] \notin unsent

\* How far the row of a task is at stage p of the handler.
Progress(p, row) ==
  /\ row.status \in Later => row.docs
  /\ p = "advance" => row.status = "created"
  /\ p \in {"block", "extract", "verify", "to_partial"} => row.status = "analyzing"
  /\ p = "pipeline" => ~Final(row) /\ row.status # "created"
  /\ p \in {"quality", "entailment", "stage"} =>
       row.status = "analyzed_partial" /\ row.report = "none"
  /\ p = "to_compiling" =>
       row.status \in {"analyzed_partial", "compiling"} /\ row.report = "none"
  /\ p \in {"compile", "gate"} => row.status = "compiling" /\ row.report = "none"
  /\ p = "to_published" => row.status = "compiling" /\ row.report = "approved"
  /\ p = "to_held" => row.status = "compiling" /\ row.report = "rejected"
  /\ p = "finish" =>
       \/ row.status \in {"blocked", "published"}
       \/ row.status = "analyzed_partial" /\ row.report = "rejected"

AnalysedHaveDocs == \A t \in Tasks : db[t].status \in Later => db[t].docs

\* Some task under the key has its outcome.
Answered(rows, k) == \E t \in Tasks : KeyOf[t] = k /\ Final(rows[t])

SucceededIsFinal ==
  \A w \in Workers, k \in Keys : epr[w][k] = "succeeded" => Answered(db, k)

OnePass(w) ==
  /\ InHandler(w) => ~Final(db[Task(w)]) /\ Progress(pc[w], View(w))
  /\ pc[w] = "ack" => Answered(db, KeyOf[Task(w)])

RInv ==
  /\ OneLiveEntry /\ AnalysedHaveDocs /\ SucceededIsFinal
  /\ \A w \in Workers : OnePass(w)

-----------------------------------------------------------------------------
(* What a statement makes of the row                                       *)

\* The audits of the handler leave alone what it is guided by, but for the
\* report of the gate.
LEMMA AppendingProgress ==
  ASSUME NEW row \in Rows, NEW e \in Events, NEW writes, DOMAIN writes \subseteq Ledger,
         "report" \notin DOMAIN writes, NEW r, r = Appending(row, e, writes)
  PROVE  /\ r.status = row.status /\ r.docs = row.docs /\ r.report = row.report
  BY AppendingFields DEF Ledger

\* Stages of the analysis and the compilation that only append.
LEMMA AnalysisProgress ==
  ASSUME NEW row, NEW r,
         r.status = row.status, r.docs = row.docs, r.report = row.report
  PROVE  /\ Progress("extract", row) => Progress("verify", r)
         /\ Progress("verify", row) => Progress("to_partial", r)
         /\ Progress("quality", row) => Progress("entailment", r)
         /\ Progress("entailment", row) => Progress("stage", r)
         /\ Progress("compile", row) => Progress("gate", r)
  BY DEF Progress, Later

\* The gate writes the first report: it goes on with the decision that stands.
LEMMA GateProgress ==
  ASSUME NEW row, NEW r, Progress("gate", row), NEW decision \in {"approved", "rejected"},
         r.status = row.status, r.docs = row.docs, r.report = decision
  PROVE  Progress(IF decision = "approved" THEN "to_published" ELSE "to_held", r)
  BY DEF Progress, Later

\* The status transitions.
LEMMA MoveProgress ==
  ASSUME NEW row, NEW r, r.docs = row.docs, r.report = row.report
  PROVE  /\ Progress("advance", row) /\ r.status = "analyzing" =>
              Progress("pipeline", r) /\ Progress("block", r)
         /\ Progress("block", row) /\ r.status = "blocked" => Progress("finish", r)
         /\ Progress("to_partial", row) /\ r.status = "analyzed_partial"
              /\ row.report = "none" /\ row.docs => Progress("quality", r)
         /\ Progress("to_compiling", row) /\ r.status = "compiling" => Progress("compile", r)
         /\ Progress("to_published", row) /\ r.status = "published" => Progress("finish", r)
         /\ Progress("to_held", row) /\ r.status = "analyzed_partial" => Progress("finish", r)
  BY DEF Progress, Later, Final

\* A stage whose transition has nothing to move goes on only when it was made.
LEMMA UnmatchedProgress ==
  ASSUME NEW row
  PROVE  /\ Progress("advance", row) => row.status = "created"
         /\ Progress("block", row) => row.status = "analyzing"
         /\ Progress("to_partial", row) => row.status = "analyzing"
         /\ Progress("to_compiling", row) /\ row.status # "analyzed_partial" =>
              Progress("compile", row)
         /\ Progress("to_published", row) => row.status = "compiling"
         /\ Progress("to_held", row) => row.status = "compiling"
  BY DEF Progress

\* Where the compile stage is entered.
LEMMA StageProgress ==
  ASSUME NEW row \in Rows,
         \/ Progress("stage", row)
         \/ Progress("pipeline", row) /\ row.status \notin {"none", "analyzing"}
  PROVE  Progress(StageAfterAnalysis(row), row)
<1>1. row.status \in Statuses \cup {"none"} /\ row.report \in Reports
  BY DEF Rows, Reports
<1>2. row.status \in {"analyzed_partial", "compiling"}
      /\ (row.status = "analyzed_partial" => row.report = "none")
      /\ (row.status \in Later => row.docs)
  BY <1>1 DEF Progress, Final, Statuses
<1>3. CASE row.report = "none"
  BY <1>2, <1>3 DEF Progress, StageAfterAnalysis
<1>4. CASE row.report # "none" /\ row.status = "compiling"
  BY <1>1, <1>2, <1>4 DEF Progress, StageAfterAnalysis, Reports
<1> QED
  BY <1>2, <1>3, <1>4

LEMMA PipelineProgress ==
  ASSUME NEW row \in Rows, row.status # "none", Progress("pipeline", row),
         NEW next, next = IF row.status = "analyzing" THEN "extract"
                          ELSE StageAfterAnalysis(row)
  PROVE  Progress(next, row)
<1>1. CASE row.status = "analyzing"
  BY <1>1 DEF Progress
<1>2. CASE row.status # "analyzing"
  BY <1>2, StageProgress
<1> QED
  BY <1>1, <1>2

\* Where the handler begins, with a task that has no outcome.
LEMMA BeginProgress ==
  ASSUME NEW row \in Rows, row.status # "none", ~Final(row), row.status \in Later => row.docs
  PROVE  Progress(IF row.status = "created" THEN "advance"
                  ELSE IF row.docs THEN "pipeline" ELSE "block", row)
<1>1. row.status \in Statuses \cup {"none"}
  BY DEF Rows
<1>2. CASE row.status = "created"
  BY <1>2 DEF Progress
<1>3. CASE row.status # "created" /\ row.docs
  BY <1>3 DEF Progress
<1>4. CASE row.status # "created" /\ ~row.docs
  <2>1. row.status = "analyzing"
    BY <1>1, <1>4 DEF Statuses, Later, Final
  <2> QED
    BY <1>4, <2>1 DEF Progress
<1> QED
  BY <1>2, <1>3, <1>4

LEMMA SameProgress ==
  ASSUME NEW p, NEW row, NEW r,
         r.status = row.status, r.docs = row.docs, r.report = row.report
  PROVE  /\ Progress(p, row) => Progress(p, r)
         /\ Final(row) <=> Final(r)
  BY DEF Progress, Later, Final

-----------------------------------------------------------------------------
(* A statement of the handler                                              *)

\* What a step keeps of the pass of a worker that it is not a step of.
SamePass(v) ==
  /\ pc'[v] = pc[v] /\ batch'[v] = batch[v]
  /\ InHandler(v) \/ pc[v] = "ack" => Task(v)' = Task(v)

\* An outcome reached under a key is kept while no task loses its own.
LEMMA AnsweredStays ==
  ASSUME NEW rows, NEW later, \A u \in Tasks : Final(rows[u]) => Final(later[u]),
         NEW k, Answered(rows, k)
  PROVE  Answered(later, k)
  BY DEF Answered

LEMMA OthersPass ==
  ASSUME NEW v \in Workers, OnePass(v), SamePass(v),
         InHandler(v) =>
           /\ ~Final(db'[Task(v)])
           /\ Progress(pc[v], Overlay(mine'[v], db'[Task(v)])),
         pc[v] = "ack" => Answered(db', KeyOf[Task(v)])
  PROVE  OnePass(v)'
<1>1. InHandler(v)' = InHandler(v) /\ (pc[v] = "ack")' = (pc[v] = "ack")
  BY DEF InHandler, SamePass
<1>2. CASE InHandler(v)
  <2>1. PICK t : t = Task(v)
    OBVIOUS
  <2>2. Task(v)' = t /\ pc'[v] = pc[v]
    BY <1>2, <2>1 DEF SamePass
  <2>3. ~Final(db'[t]) /\ Progress(pc'[v], Overlay(mine'[v], db'[t]))
    BY <1>2, <2>1, <2>2
  <2>4. (~Final(db[Task(v)]) /\ Progress(pc[v], View(v)))'
    BY <2>2, <2>3 DEF View
  <2>5. pc[v] # "ack"
    BY <1>2 DEF InHandler
  <2> QED
    BY <1>1, <2>4, <2>5 DEF OnePass
<1>3. CASE ~InHandler(v)
  <2>1. CASE pc[v] = "ack"
    <3>1. PICK t : t = Task(v)
      OBVIOUS
    <3>2. Task(v)' = t
      BY <2>1, <3>1 DEF SamePass
    <3>3. Answered(db', KeyOf[t])
      BY <2>1, <3>1
    <3>4. Answered(db, KeyOf[Task(v)])'
      BY <3>2, <3>3
    <3> QED
      BY <1>1, <1>3, <3>4 DEF OnePass
  <2> QED
    BY <1>1, <1>3, <2>1 DEF OnePass
<1> QED
  BY <1>2, <1>3

\* w goes to stage next; the row it works on is then r.
Passes(w, next, r) ==
  /\ UNCHANGED <<db, unsent, redis, batch, epr>>
  /\ pc' = [pc EXCEPT ![w] = next] /\ next \in Stages
  /\ \A v \in Workers \ {w} : mine'[v] = mine[v]
  /\ r = Overlay(mine'[w], db[Task(w)])
  /\ Progress(next, r)

LEMMA StatementPasses ==
  ASSUME IInv, RInv, NEW w \in Workers, InHandler(w), NEW next, NEW r, Passes(w, next, r)
  PROVE  RInv'
<1>1. Types /\ OneLiveEntry /\ AnalysedHaveDocs /\ SucceededIsFinal
      /\ \A v \in Workers : OnePass(v)
  BY DEF IInv, RInv
<1>2. OneLiveEntry' /\ AnalysedHaveDocs' /\ SucceededIsFinal'
  BY <1>1 DEF OneLiveEntry, Live, Holds, AnalysedHaveDocs, SucceededIsFinal, Passes, redis
<1>3. \A v \in Workers : Task(v)' = Task(v)
  BY DEF Passes, Task, redis
<1>4. ASSUME NEW v \in Workers \ {w}  PROVE  OnePass(v)'
  <2>1. pc'[v] = pc[v] /\ batch'[v] = batch[v] /\ mine'[v] = mine[v] /\ db' = db
    BY <1>1 DEF Types, Passes
  <2>2. SamePass(v)
    BY <1>3, <2>1 DEF SamePass
  <2>3. OnePass(v)
    BY <1>1
  <2>4. /\ InHandler(v) => /\ ~Final(db'[Task(v)])
                           /\ Progress(pc[v], Overlay(mine'[v], db'[Task(v)]))
        /\ pc[v] = "ack" => Answered(db', KeyOf[Task(v)])
    BY <2>1, <2>3 DEF OnePass, View
  <2> QED
    BY <2>2, <2>3, <2>4, OthersPass
<1>5. OnePass(w)'
  <2>1. PICK t : t = Task(w)
    OBVIOUS
  <2>2. Task(w)' = t /\ pc'[w] = next /\ db' = db
    BY <1>1, <1>3, <2>1 DEF Types, Passes
  <2>3. ~Final(db'[t])
    BY <1>1, <2>1, <2>2 DEF OnePass
  <2>4. Progress(pc'[w], Overlay(mine'[w], db'[t]))
    BY <2>1, <2>2 DEF Passes
  <2>5. (~Final(db[Task(w)]) /\ Progress(pc[w], View(w)))'
    BY <2>2, <2>3, <2>4 DEF View
  <2>6. pc'[w] # "ack"
    BY <2>2 DEF Passes, Stages
  <2> QED
    BY <2>5, <2>6 DEF OnePass
<1> QED
  BY <1>2, <1>4, <1>5 DEF RInv

\* The pass of a worker at stage p.
LEMMA AtPass ==
  ASSUME IInv, RInv, NEW w \in Workers, NEW p \in Stages, At(w, p)
  PROVE  /\ InHandler(w) /\ View(w) \in Rows /\ db[Task(w)] \in Rows
         /\ Fits(View(w), View(w).status) /\ Relies(p, "none", View(w))
         /\ View(w).status # "none"
         /\ Progress(p, View(w)) /\ ~Final(db[Task(w)])
         /\ pc[w] = p
<1>1. InHandler(w) /\ AtWork(w, p, View(w)) /\ db[Task(w)] \in Rows
  BY AtStage
<1>2. OnePass(w) /\ pc[w] = p
  BY DEF RInv, At
<1>3. Works(mine[w], db[Task(w)], "none", p)
  BY <1>1 DEF AtWork
<1>4. View(w).status # "none"
  BY <1>3 DEF Works, GoodAs, Before, View
<1> QED
  BY <1>1, <1>2, <1>4 DEF OnePass, AtWork

LEMMA AuditedStepPasses ==
  ASSUME IInv, RInv, NEW w \in Workers, InHandler(w), NEW p, NEW next \in Stages,
         NEW e, NEW writes, AuditedStep(w, p, next, e, writes),
         Progress(next, Appending(View(w), e, writes))
  PROVE  RInv'
<1> DEFINE c == Appends(View(w), e, writes)
<1>1. /\ mine' = [mine EXCEPT ![w] = Overlay(c, mine[w])]
      /\ pc' = [pc EXCEPT ![w] = next] /\ UNCHANGED <<db, unsent, redis, batch, epr>>
  BY DEF AuditedStep, Write, Goto, Appends
<1> HIDE DEF c
<1>2. Types
  BY DEF IInv
<1>3. mine'[w] = Overlay(c, mine[w]) /\ \A v \in Workers \ {w} : mine'[v] = mine[v]
  BY <1>1, <1>2 DEF Types
<1>4. Overlay(mine'[w], db[Task(w)]) = Appending(View(w), e, writes)
  BY <1>3, OverlayAssociates DEF c, Appending, View
<1>5. Passes(w, next, Appending(View(w), e, writes))
  BY <1>1, <1>3, <1>4 DEF Passes
<1> QED
  BY <1>5, StatementPasses

LEMMA TransitionPasses ==
  ASSUME IInv, RInv, NEW w \in Workers, InHandler(w), NEW p, NEW from, NEW to, NEW event,
         NEW next \in Stages, NEW otherwise \in Stages,
         Transition(w, p, from, to, event, next, otherwise),
         View(w).status = from => Progress(next, Overlay([status |-> to], View(w))),
         View(w).status # from => Progress(otherwise, View(w))
  PROVE  RInv'
<1>1. Types /\ UNCHANGED <<db, unsent, redis, batch, epr>>
  BY DEF IInv, Transition
<1>2. CASE View(w).status = from
  <2> DEFINE c == [status |-> to]
             r == Overlay(c, View(w))
  <2>1. mine' = [mine EXCEPT ![w] = Overlay(c, mine[w])] /\ pc' = [pc EXCEPT ![w] = next]
    BY <1>2 DEF Transition, Write, Goto
  <2>2. Progress(next, r)
    BY <1>2
  <2> HIDE DEF c
  <2>3. mine'[w] = Overlay(c, mine[w]) /\ \A v \in Workers \ {w} : mine'[v] = mine[v]
    BY <1>1, <2>1 DEF Types
  <2>4. Overlay(mine'[w], db[Task(w)]) = r
    BY <2>3, OverlayAssociates DEF View
  <2> HIDE DEF r
  <2>5. Passes(w, next, r)
    BY <1>1, <2>1, <2>2, <2>3, <2>4 DEF Passes
  <2> QED
    BY <2>5, StatementPasses
<1>3. CASE View(w).status # from
  <2>1. mine' = mine /\ pc' = [pc EXCEPT ![w] = otherwise]
    BY <1>3 DEF Transition, Goto
  <2>2. Passes(w, otherwise, View(w))
    BY <1>1, <1>3, <2>1 DEF Passes, View
  <2> QED
    BY <2>2, StatementPasses
<1> QED
  BY <1>2, <1>3

LEMMA MovePasses ==
  ASSUME IInv, RInv, NEW w \in Workers, InHandler(w), NEW next \in Stages, Goto(w, next),
         UNCHANGED <<db, unsent, redis, batch, epr, mine>>, Progress(next, View(w))
  PROVE  RInv'
<1>1. Passes(w, next, View(w))
  BY DEF Passes, View, Goto
<1> QED
  BY <1>1, StatementPasses

-----------------------------------------------------------------------------
(* The statements, one by one                                              *)

LEMMA StageNames ==
  /\ {"advance", "block", "pipeline", "stage", "extract", "verify", "to_partial", "quality",
      "entailment", "to_compiling", "compile", "gate", "to_published", "to_held",
      "finish"} = Stages
  /\ {"claims_extracted", "cve_lite_completed", "source_quality_assessed",
      "entailment_checked", "draft_compiled", "final_gate_completed"} \subseteq Events
  BY DEF Stages, PCs, Events, Steps

LEMMA AuditsPass ==
  ASSUME IInv, RInv, NEW w \in Workers,
         Extract(w) \/ Verify(w) \/ RunSourceQuality(w) \/ RunClaimEntailment(w) \/ Compile(w)
  PROVE  RInv'
<1> DEFINE row == View(w)
<1>1. ASSUME NEW p \in Stages, NEW next \in Stages, NEW e \in Events, NEW writes,
             DOMAIN writes \subseteq Ledger, "report" \notin DOMAIN writes,
             AuditedStep(w, p, next, e, writes),
             <<p, next>> \in {<<"extract", "verify">>, <<"verify", "to_partial">>,
                              <<"quality", "entailment">>, <<"entailment", "stage">>,
                              <<"compile", "gate">>}
      PROVE  RInv'
  <2>1. InHandler(w) /\ row \in Rows /\ Progress(p, row)
    BY <1>1, AtPass DEF AuditedStep
  <2> DEFINE r == Appending(row, e, writes)
  <2> HIDE DEF row
  <2>2. r.status = row.status /\ r.docs = row.docs /\ r.report = row.report
    BY <1>1, <2>1, AppendingProgress
  <2> HIDE DEF r
  <2>3. Progress(next, r)
    BY <1>1, <2>1, <2>2, AnalysisProgress
  <2> QED
    BY <1>1, <2>1, <2>3, AuditedStepPasses DEF r, row
<1>2. CASE Extract(w)
  <2>1. AuditedStep(w, "extract", "verify", "claims_extracted", Nothing)
    BY <1>2 DEF Extract
  <2>2. DOMAIN Nothing \subseteq Ledger /\ "report" \notin DOMAIN Nothing
    BY DEF Nothing
  <2> QED
    BY <1>1, <2>1, <2>2, StageNames
<1>3. CASE Verify(w)
  <2> DEFINE writes == [claim |-> IF row.claim = "none"
                                  THEN IF row.sound THEN "verified" ELSE "unsupported"
                                  ELSE row.claim]
  <2>1. AuditedStep(w, "verify", "to_partial", "cve_lite_completed", writes)
    BY <1>3 DEF Verify
  <2>2. DOMAIN writes \subseteq Ledger /\ "report" \notin DOMAIN writes
    BY DEF Ledger
  <2> HIDE DEF writes
  <2> QED
    BY <1>1, <2>1, <2>2, StageNames
<1>4. CASE RunSourceQuality(w)
  <2>1. AuditedStep(w, "quality", "entailment", "source_quality_assessed", Nothing)
    BY <1>4 DEF RunSourceQuality
  <2>2. DOMAIN Nothing \subseteq Ledger /\ "report" \notin DOMAIN Nothing
    BY DEF Nothing
  <2> QED
    BY <1>1, <2>1, <2>2, StageNames
<1>5. CASE RunClaimEntailment(w)
  <2>1. AuditedStep(w, "entailment", "stage", "entailment_checked", Nothing)
    BY <1>5 DEF RunClaimEntailment
  <2>2. DOMAIN Nothing \subseteq Ledger /\ "report" \notin DOMAIN Nothing
    BY DEF Nothing
  <2> QED
    BY <1>1, <2>1, <2>2, StageNames
<1>6. CASE Compile(w)
  <2> DEFINE writes == [draft |-> IF row.draft = "none"
                                  THEN IF row.claim = "verified" THEN "spans" ELSE "empty"
                                  ELSE row.draft]
  <2>1. AuditedStep(w, "compile", "gate", "draft_compiled", writes)
    BY <1>6 DEF Compile
  <2>2. DOMAIN writes \subseteq Ledger /\ "report" \notin DOMAIN writes
    BY DEF Ledger
  <2> HIDE DEF writes
  <2> QED
    BY <1>1, <2>1, <2>2, StageNames
<1> QED
  BY <1>2, <1>3, <1>4, <1>5, <1>6

LEMMA RunGatePasses ==
  ASSUME IInv, RInv, NEW w \in Workers, RunGate(w)
  PROVE  RInv'
<1> DEFINE row == View(w)
           decision == Decision(row)
           report == IF row.report = "none" THEN decision ELSE row.report
           answer == row.answer \/ decision = "approved"
           next == IF decision = "approved" THEN "to_published" ELSE "to_held"
           writes == [report |-> report, answer |-> answer]
           r == Appending(row, "final_gate_completed", writes)
<1>1. AuditedStep(w, "gate", next, "final_gate_completed", writes)
  BY DEF RunGate
<1>2. next \in Stages /\ "gate" \in Stages /\ "final_gate_completed" \in Events
  BY StageNames
<1>3. InHandler(w) /\ row \in Rows /\ Progress("gate", row)
  BY <1>1, <1>2, AtPass DEF AuditedStep
<1> HIDE DEF row
<1>4. decision \in {"approved", "rejected"}
  BY DEF Decision
<1> HIDE DEF decision
<1>5. row.report = "none"
  BY <1>3 DEF Progress
<1>6. DOMAIN writes = {"report", "answer"} /\ writes["report"] = decision
  BY <1>5
<1> HIDE DEF writes
<1>7. r.status = row.status /\ r.docs = row.docs /\ r.report = decision
  BY <1>2, <1>3, <1>6, AppendingFields DEF Ledger
<1> HIDE DEF r
<1>8. Progress(next, r)
  BY <1>3, <1>4, <1>7, GateProgress
<1> QED
  BY <1>1, <1>2, <1>3, <1>8, AuditedStepPasses DEF r, row

LEMMA TransitionsPass ==
  ASSUME IInv, RInv, NEW w \in Workers,
         \/ AdvanceToAnalyzing(w) \/ AdvanceToBlockedNoDocs(w) \/ AdvanceToAnalyzedPartial(w)
         \/ AdvanceToCompiling(w) \/ AdvanceToPublished(w)
         \/ RevertToAnalyzedPartialWithHeld(w)
  PROVE  RInv'
<1> DEFINE row == View(w)
<1>1. ASSUME NEW p \in Stages, At(w, p), NEW to \in Statuses
      PROVE  /\ InHandler(w) /\ row \in Rows /\ Progress(p, row)
             /\ Fits(row, row.status) /\ Relies(p, "none", row)
             /\ LET r == Overlay([status |-> to], row) IN
                r.status = to /\ r.docs = row.docs /\ r.report = row.report
  <2>1. InHandler(w) /\ row \in Rows /\ Progress(p, row)
        /\ Fits(row, row.status) /\ Relies(p, "none", row)
    BY <1>1, AtPass
  <2> HIDE DEF row
  <2> QED
    BY <1>1, <2>1, StatusFields
<1>2. {"analyzing", "blocked", "analyzed_partial", "compiling", "published"} \subseteq Statuses
  BY DEF Statuses
<1>3. CASE AdvanceToAnalyzing(w)
  <2> DEFINE next == IF db[Task(w)].docs THEN "pipeline" ELSE "block"
             r == Overlay([status |-> "analyzing"], row)
  <2>1. Transition(w, "advance", "created", "analyzing", "analyzing", next, next)
    BY <1>3 DEF AdvanceToAnalyzing
  <2>2. next \in Stages /\ "advance" \in Stages /\ At(w, "advance")
    BY <2>1, StageNames DEF Transition
  <2>3. InHandler(w) /\ Progress("advance", row)
        /\ r.status = "analyzing" /\ r.docs = row.docs /\ r.report = row.report
    BY <1>1, <1>2, <2>2
  <2>4. row.status = "created"
    BY <2>3, UnmatchedProgress
  <2> HIDE DEF r
  <2>5. Progress(next, r)
    BY <2>3, MoveProgress
  <2> QED
    BY <2>1, <2>2, <2>3, <2>4, <2>5, TransitionPasses DEF r
<1>4. CASE AdvanceToBlockedNoDocs(w)
  <2> DEFINE r == Overlay([status |-> "blocked"], row)
  <2>1. Transition(w, "block", "analyzing", "blocked", "blocked", "finish", "finish")
    BY <1>4 DEF AdvanceToBlockedNoDocs
  <2>2. "finish" \in Stages /\ "block" \in Stages /\ At(w, "block")
    BY <2>1, StageNames DEF Transition
  <2>3. InHandler(w) /\ Progress("block", row)
        /\ r.status = "blocked" /\ r.docs = row.docs /\ r.report = row.report
    BY <1>1, <1>2, <2>2
  <2>4. row.status = "analyzing"
    BY <2>3, UnmatchedProgress
  <2> HIDE DEF r
  <2>5. Progress("finish", r)
    BY <2>3, MoveProgress
  <2> QED
    BY <2>1, <2>2, <2>3, <2>4, <2>5, TransitionPasses DEF r
<1>5. CASE AdvanceToAnalyzedPartial(w)
  <2> DEFINE r == Overlay([status |-> "analyzed_partial"], row)
  <2>1. Transition(w, "to_partial", "analyzing", "analyzed_partial", "analyzed_partial",
                   "quality", "stage")
    BY <1>5 DEF AdvanceToAnalyzedPartial
  <2>2. "quality" \in Stages /\ "stage" \in Stages /\ "to_partial" \in Stages
        /\ At(w, "to_partial")
    BY <2>1, StageNames DEF Transition
  <2>3. InHandler(w) /\ Progress("to_partial", row) /\ row \in Rows
        /\ Fits(row, row.status) /\ Relies("to_partial", "none", row)
        /\ r.status = "analyzed_partial" /\ r.docs = row.docs /\ r.report = row.report
    BY <1>1, <1>2, <2>2
  <2>4. row.status = "analyzing"
    BY <2>3, UnmatchedProgress
  <2> HIDE DEF r
  <2>5. row.report = "none" /\ row.docs
    BY <2>3, <2>4 DEF Fits, Relies, WithDocs, Later
  <2>6. Progress("quality", r)
    BY <2>3, <2>5, MoveProgress
  <2> QED
    BY <2>1, <2>2, <2>3, <2>4, <2>6, TransitionPasses DEF r
<1>6. CASE AdvanceToCompiling(w)
  <2> DEFINE r == Overlay([status |-> "compiling"], row)
  <2>1. Transition(w, "to_compiling", "analyzed_partial", "compiling", "compiling",
                   "compile", "compile")
    BY <1>6 DEF AdvanceToCompiling
  <2>2. "compile" \in Stages /\ "to_compiling" \in Stages /\ At(w, "to_compiling")
    BY <2>1, StageNames DEF Transition
  <2>3. InHandler(w) /\ Progress("to_compiling", row)
        /\ r.status = "compiling" /\ r.docs = row.docs /\ r.report = row.report
    BY <1>1, <1>2, <2>2
  <2> HIDE DEF r
  <2>4. Progress("compile", r)
    BY <2>3, MoveProgress
  <2>5. row.status # "analyzed_partial" => Progress("compile", row)
    BY <2>3, UnmatchedProgress
  <2> QED
    BY <2>1, <2>2, <2>3, <2>4, <2>5, TransitionPasses DEF r
<1>7. CASE AdvanceToPublished(w)
  <2> DEFINE r == Overlay([status |-> "published"], row)
  <2>1. Transition(w, "to_published", "compiling", "published", "published",
                   "finish", "finish")
    BY <1>7 DEF AdvanceToPublished
  <2>2. "finish" \in Stages /\ "to_published" \in Stages /\ At(w, "to_published")
    BY <2>1, StageNames DEF Transition
  <2>3. InHandler(w) /\ Progress("to_published", row)
        /\ r.status = "published" /\ r.docs = row.docs /\ r.report = row.report
    BY <1>1, <1>2, <2>2
  <2>4. row.status = "compiling"
    BY <2>3, UnmatchedProgress
  <2> HIDE DEF r
  <2>5. Progress("finish", r)
    BY <2>3, MoveProgress
  <2> QED
    BY <2>1, <2>2, <2>3, <2>4, <2>5, TransitionPasses DEF r
<1>8. CASE RevertToAnalyzedPartialWithHeld(w)
  <2> DEFINE r == Overlay([status |-> "analyzed_partial"], row)
  <2>1. Transition(w, "to_held", "compiling", "analyzed_partial", "publication_held",
                   "finish", "finish")
    BY <1>8 DEF RevertToAnalyzedPartialWithHeld
  <2>2. "finish" \in Stages /\ "to_held" \in Stages /\ At(w, "to_held")
    BY <2>1, StageNames DEF Transition
  <2>3. InHandler(w) /\ Progress("to_held", row)
        /\ r.status = "analyzed_partial" /\ r.docs = row.docs /\ r.report = row.report
    BY <1>1, <1>2, <2>2
  <2>4. row.status = "compiling"
    BY <2>3, UnmatchedProgress
  <2> HIDE DEF r
  <2>5. Progress("finish", r)
    BY <2>3, MoveProgress
  <2> QED
    BY <2>1, <2>2, <2>3, <2>4, <2>5, TransitionPasses DEF r
<1> QED
  BY <1>3, <1>4, <1>5, <1>6, <1>7, <1>8

LEMMA AuditTransitionPasses ==
  ASSUME IInv, RInv, NEW w \in Workers, AuditTransition(w)
  PROVE  RInv'
<1>1. /\ todo[w] # "none"
      /\ mine' = [mine EXCEPT ![w] = Overlay([trail |-> Append(View(w).trail, todo[w])], @)]
      /\ UNCHANGED <<db, unsent, redis, batch, epr, pc, rowLock, budgets>>
  BY DEF AuditTransition, Write
<1>2. Types /\ InHandler(w) /\ OnePass(w)
  BY <1>1 DEF IInv, RInv, WorkerOk, Resting
<1>3. pc[w] \in Stages
  BY <1>2 DEF Types, InHandler, Stages
<1>4. Transacting(w)
  BY <1>2 DEF IInv, WorkerOk
<1>5. View(w) \in Rows
  BY <1>4 DEF Transacting, Works, View
<1> DEFINE row == View(w)
           c == [trail |-> Append(row.trail, todo[w])]
           r == Overlay(c, row)
<1>6. mine'[w] = Overlay(c, mine[w]) /\ \A v \in Workers \ {w} : mine'[v] = mine[v]
  BY <1>1, <1>2 DEF Types
<1>7. DOMAIN c = {"trail"}
  OBVIOUS
<1> HIDE DEF c
<1>8. Overlay(mine'[w], db[Task(w)]) = r
  BY <1>6, OverlayAssociates DEF View
<1>9. Progress(pc[w], row)
  BY <1>2 DEF OnePass
<1> HIDE DEF row
<1>10. \A x \in Columns \ {"trail"} : r[x] = row[x]
  BY <1>5, <1>7, OverlayFields DEF row, Columns
<1>11. r["status"] = row["status"] /\ r["docs"] = row["docs"] /\ r["report"] = row["report"]
  BY <1>10 DEF Columns
<1> HIDE DEF r
<1>12. Progress(pc[w], r)
  BY <1>9, <1>11, SameProgress
<1>13. pc' = [pc EXCEPT ![w] = pc[w]]
  BY <1>1, <1>2 DEF Types
<1>14. Passes(w, pc[w], r)
  BY <1>1, <1>3, <1>6, <1>8, <1>12, <1>13 DEF Passes
<1> QED
  BY <1>2, <1>14, StatementPasses

LEMMA MovesPass ==
  ASSUME IInv, RInv, NEW w \in Workers, RunPipelineWithDocs(w) \/ EnterCompileStage(w)
  PROVE  RInv'
<1> DEFINE row == View(w)
<1>1. CASE RunPipelineWithDocs(w)
  <2> DEFINE next == IF row.status = "analyzing" THEN "extract" ELSE StageAfterAnalysis(row)
  <2>1. At(w, "pipeline") /\ Goto(w, next)
        /\ UNCHANGED <<db, unsent, redis, batch, epr, mine>>
    BY <1>1 DEF RunPipelineWithDocs, txn
  <2>2. InHandler(w) /\ row \in Rows /\ row.status # "none" /\ Progress("pipeline", row)
    BY <2>1, AtPass, StageNames
  <2> HIDE DEF row
  <2>3. Progress(next, row)
    BY <2>2, PipelineProgress
  <2>4. next \in Stages
    BY StageNames DEF StageAfterAnalysis
  <2> QED
    BY <2>1, <2>2, <2>3, <2>4, MovePasses DEF row
<1>2. CASE EnterCompileStage(w)
  <2> DEFINE next == StageAfterAnalysis(row)
  <2>1. At(w, "stage") /\ Goto(w, next)
        /\ UNCHANGED <<db, unsent, redis, batch, epr, mine>>
    BY <1>2 DEF EnterCompileStage, txn
  <2>2. InHandler(w) /\ row \in Rows /\ Progress("stage", row)
    BY <2>1, AtPass, StageNames
  <2> HIDE DEF row
  <2>3. Progress(next, row)
    BY <2>2, StageProgress
  <2>4. next \in Stages
    BY StageNames DEF StageAfterAnalysis
  <2> QED
    BY <2>1, <2>2, <2>3, <2>4, MovePasses DEF row
<1> QED
  BY <1>1, <1>2

-----------------------------------------------------------------------------
(* Entries                                                                 *)

LEMMA HoldsTail ==
  ASSUME NEW S, NEW s \in Seq(S), s # <<>>, NEW pending, Holds(s, pending)
  PROVE  /\ Holds(Tail(s), pending) /\ Holds(Tail(s), pending \ {Head(s)})
         /\ Head(s) \in pending
<1>1. /\ Len(s) \in Nat \ {0} /\ DOMAIN s = 1 .. Len(s)
      /\ Head(s) = s[1] /\ 1 \in DOMAIN s
  BY LenProperties, HeadTailProperties
<1>2. /\ DOMAIN Tail(s) = 1 .. (Len(s) - 1)
      /\ \A i \in 1 .. (Len(s) - 1) : Tail(s)[i] = s[i + 1]
  <2>1. Tail(s) \in Seq(S) /\ Len(Tail(s)) = Len(s) - 1
        /\ \A i \in 1 .. Len(Tail(s)) : Tail(s)[i] = s[i + 1]
    BY HeadTailProperties
  <2>2. DOMAIN Tail(s) = 1 .. Len(Tail(s))
    BY <2>1, LenProperties
  <2> QED
    BY <2>1, <2>2
<1>3. \A i \in DOMAIN Tail(s) : i + 1 \in DOMAIN s /\ i + 1 # 1 /\ Tail(s)[i] = s[i + 1]
  BY <1>1, <1>2
<1>4. \A i, j \in DOMAIN Tail(s) : i + 1 = j + 1 => i = j
  BY <1>1, <1>2
<1>5. \A i \in DOMAIN s : s[i] \in pending
  BY DEF Holds
<1>6. \A i, j \in DOMAIN s : s[i] = s[j] => i = j
  BY DEF Holds
<1>7. \A i \in DOMAIN Tail(s) : Tail(s)[i] \in pending \ {Head(s)}
  BY <1>1, <1>3, <1>5, <1>6
<1>8. \A i, j \in DOMAIN Tail(s) : Tail(s)[i] = Tail(s)[j] => i = j
  BY <1>3, <1>4, <1>6
<1> QED
  BY <1>1, <1>5, <1>7, <1>8 DEF Holds

\* Workers at work are at work on different tasks.
LEMMA Alone ==
  ASSUME Types, OneLiveEntry, NEW v \in Workers, NEW w \in Workers, v # w,
         batch[v] # <<>>, batch[w] # <<>>
  PROVE  Task(v) # Task(w)
<1>1. ASSUME NEW u \in Workers, batch[u] # <<>>
      PROVE  Head(batch[u]) \in pel[u] /\ Head(batch[u]) \in DOMAIN stream
  <2>1. batch[u] \in Seq(1 .. cursor) /\ Holds(batch[u], pel[u])
    BY DEF Types, OneLiveEntry
  <2> QED
    BY <1>1, <2>1, HoldsTail, TaskTyped
<1>2. Live(Head(batch[v])) /\ Live(Head(batch[w]))
  BY <1>1 DEF Live
<1>3. Task(v) = Task(w) => Head(batch[v]) = Head(batch[w])
  BY <1>1, <1>2 DEF OneLiveEntry, Task
<1> QED
  BY <1>1, <1>3 DEF OneLiveEntry

\* Entries are only done with.
LEMMA LessLive ==
  ASSUME Types, OneLiveEntry, stream' = stream, unsent' \subseteq unsent,
         cursor' \in Nat, cursor <= cursor',
         \A v \in Workers : pel'[v] \subseteq pel[v] /\ Holds(batch'[v], pel'[v])
  PROVE  OneLiveEntry'
<1>1. cursor \in Nat /\ DOMAIN stream = 1 .. Len(stream)
  BY LenProperties DEF Types
<1>2. \A i \in DOMAIN stream : Live(i)' => Live(i)
  BY <1>1 DEF Live
<1> QED
  BY <1>2 DEF OneLiveEntry

\* An entry is added for a task that has none to be handled any more.
LEMMA EntryForTask ==
  ASSUME Types, OneLiveEntry, NEW t \in Tasks, stream' = Append(stream, t),
         cursor' = cursor, batch' = batch, unsent' \subseteq unsent, t \notin unsent',
         \A v \in Workers : pel'[v] \subseteq pel[v] /\ Holds(batch[v], pel'[v]),
         \A i \in DOMAIN stream : stream[i] = t =>
           i <= cursor /\ \A v \in Workers : i \notin pel'[v]
  PROVE  OneLiveEntry'
<1> DEFINE n == Len(stream) + 1
<1>1. /\ Len(stream) \in Nat /\ DOMAIN stream = 1 .. Len(stream)
      /\ DOMAIN stream' = 1 .. n /\ stream'[n] = t
      /\ \A i \in 1 .. Len(stream) : stream'[i] = stream[i]
      /\ cursor \in Nat
  BY LenProperties, AppendProperties DEF Types
<1>2. \A i \in DOMAIN stream' : i \in DOMAIN stream \/ i = n
  BY <1>1
<1>3. \A i \in DOMAIN stream : Live(i)' => Live(i) /\ stream'[i] = stream[i] /\ stream[i] # t
  BY <1>1 DEF Live
<1> HIDE DEF n
<1>4. ASSUME NEW i \in DOMAIN stream', NEW j \in DOMAIN stream', Live(i)', Live(j)',
             stream'[i] = stream'[j]
      PROVE  i = j
  BY <1>1, <1>2, <1>3, <1>4 DEF OneLiveEntry
<1>5. ASSUME NEW i \in DOMAIN stream', Live(i)'  PROVE  stream'[i] \notin unsent'
  BY <1>1, <1>2, <1>3, <1>5 DEF OneLiveEntry
<1>6. /\ \A v \in Workers : Holds(batch'[v], pel'[v])
      /\ \A v, w \in Workers : pel'[v] \cap pel'[w] # {} => v = w
  BY DEF OneLiveEntry
<1> QED
  BY <1>4, <1>5, <1>6 DEF OneLiveEntry

\* What is read was live before, and with nobody.
LEMMA BatchRead ==
  ASSUME Types, OneLiveEntry, NEW w \in Workers, ReadBatch(w)
  PROVE  OneLiveEntry'
<1> DEFINE upTo == IF cursor + BatchSize < Len(stream) THEN cursor + BatchSize
                   ELSE Len(stream)
           entries == [i \in 1 .. (upTo - cursor) |-> cursor + i]
           new == {entries[i] : i \in DOMAIN entries}
<1>1. /\ cursor < Len(stream) /\ cursor' = upTo
      /\ batch' = [batch EXCEPT ![w] = entries]
      /\ pel' = [pel EXCEPT ![w] = @ \cup new]
      /\ UNCHANGED <<unsent, stream>>
  BY DEF ReadBatch
<1>2. /\ Len(stream) \in Nat /\ cursor \in 0 .. Len(stream) /\ BatchSize \in Nat \ {0}
      /\ DOMAIN stream = 1 .. Len(stream)
  BY LenProperties, PipelineAssumption DEF Types
<1>3. upTo \in Nat /\ cursor \in Nat /\ cursor < upTo /\ upTo <= Len(stream)
      /\ upTo - cursor \in Nat
  BY <1>1, <1>2
<1> HIDE DEF upTo
<1>4. /\ \A i \in DOMAIN entries : entries[i] \in new
      /\ \A i, j \in DOMAIN entries : entries[i] = entries[j] => i = j
  BY <1>3
<1>5. \A e \in new : e \in Nat /\ cursor < e /\ e <= upTo
  BY <1>3
<1>6. Holds(entries, pel[w] \cup new)
  BY <1>4 DEF Holds
<1> HIDE DEF entries, new
<1>7. /\ pel \in [Workers -> SUBSET (1 .. cursor)] /\ \A v \in Workers : pel[v] \cap new = {}
  <2>1. pel \in [Workers -> SUBSET (1 .. cursor)]
    BY DEF Types
  <2> QED
    BY <1>3, <1>5, <2>1
<1>8. /\ pel'[w] = pel[w] \cup new /\ batch'[w] = entries
      /\ \A v \in Workers \ {w} : pel'[v] = pel[v] /\ batch'[v] = batch[v]
  BY <1>1, <1>7 DEF Types
<1>9. \A v \in Workers : Holds(batch'[v], pel'[v])
  BY <1>6, <1>8 DEF OneLiveEntry
<1>10. \A u, v \in Workers : pel'[u] \cap pel'[v] # {} => u = v
  BY <1>7, <1>8 DEF OneLiveEntry
<1>11. ASSUME NEW i \in DOMAIN stream, Live(i)'  PROVE  Live(i)
  <2>1. i \in Nat /\ (i > cursor' \/ \E v \in Workers : i \in pel'[v])
    BY <1>2, <1>11 DEF Live
  <2>2. i \in new => i > cursor
    BY <1>3, <1>5
  <2>3. i > cursor' => i > cursor
    BY <1>1, <1>3, <2>1
  <2> QED
    BY <1>8, <2>1, <2>2, <2>3 DEF Live
<1> QED
  BY <1>1, <1>9, <1>10, <1>11 DEF OneLiveEntry

\* A worker that leaves its batch or its first entry.
LEMMA BatchLeft ==
  ASSUME Types, OneLiveEntry, NEW w \in Workers, UNCHANGED <<stream, unsent, cursor>>,
         \/ batch' = [batch EXCEPT ![w] = <<>>] /\ pel' = pel
         \/ /\ batch[w] # <<>> /\ batch' = [batch EXCEPT ![w] = Tail(@)]
            /\ pel' \in {pel, [pel EXCEPT ![w] = @ \ {Head(batch[w])}]}
  PROVE  OneLiveEntry'
<1>1. batch \in [Workers -> Seq(1 .. cursor)] /\ pel \in [Workers -> SUBSET (1 .. cursor)]
      /\ cursor \in Nat /\ cursor <= cursor
  BY LenProperties DEF Types
<1>2. \A v \in Workers : Holds(batch[v], pel[v])
  BY DEF OneLiveEntry
<1>3. CASE batch' = [batch EXCEPT ![w] = <<>>] /\ pel' = pel
  <2>1. \A v \in Workers : pel'[v] \subseteq pel[v] /\ Holds(batch'[v], pel'[v])
    BY <1>1, <1>2, <1>3 DEF Holds
  <2> QED
    BY <1>1, <2>1, LessLive
<1>4. CASE /\ batch[w] # <<>> /\ batch' = [batch EXCEPT ![w] = Tail(@)]
           /\ pel' \in {pel, [pel EXCEPT ![w] = @ \ {Head(batch[w])}]}
  <2>1. Holds(Tail(batch[w]), pel[w]) /\ Holds(Tail(batch[w]), pel[w] \ {Head(batch[w])})
    BY <1>1, <1>2, <1>4, HoldsTail
  <2>2. \A v \in Workers : pel'[v] \subseteq pel[v] /\ Holds(batch'[v], pel'[v])
    BY <1>1, <1>2, <1>4, <2>1
  <2> QED
    BY <1>1, <2>2, LessLive
<1> QED
  BY <1>3, <1>4

-----------------------------------------------------------------------------
(* The lifecycle the committed rows implement                              *)

LifecycleStep == [Lifecycle!Next]_(Lifecycle!vars)

LEMMA SameOutcomes ==
  ASSUME \A t \in Tasks : Outcome(db'[t]) = Outcome(db[t]) /\ db'[t].answer = db[t].answer
  PROVE  LifecycleStep
  BY DEF LifecycleStep, Lifecycle!vars

\* The row of one task changes, as a step of the lifecycle allows.
Advances(o, a, o2, a2) ==
  \/ o = "none" /\ o2 = "pending" /\ a2 = a
  \/ o = "pending" /\ o2 = "pending" /\ (a2 = a \/ (a2 = TRUE /\ ~a))
  \/ o = "pending" /\ o2 \in {"blocked", "held"} /\ ~a /\ a2 = a
  \/ o = "pending" /\ o2 = "published" /\ a2 = TRUE

LEMMA OneRowAdvances ==
  ASSUME Types, NEW t \in Tasks, NEW d2 \in Rows, db' = [db EXCEPT ![t] = d2],
         Advances(Outcome(db[t]), db[t].answer, Outcome(d2), d2.answer)
  PROVE  LifecycleStep
<1> DEFINE o == [u \in Tasks |-> Outcome(db[u])]
           a == [u \in Tasks |-> db[u].answer]
<1>1. db \in [Tasks -> Rows] /\ db'[t] = d2 /\ \A u \in Tasks \ {t} : db'[u] = db[u]
  BY DEF Types
<1>2. db[t].answer \in BOOLEAN /\ d2.answer \in BOOLEAN
  BY <1>1 DEF Rows
<1>3. o[t] = Outcome(db[t]) /\ a[t] = db[t].answer
  OBVIOUS
<1>4. /\ [u \in Tasks |-> Outcome(db'[u])] = [o EXCEPT ![t] = Outcome(d2)]
      /\ [u \in Tasks |-> db'[u].answer] = [a EXCEPT ![t] = d2.answer]
  BY <1>1
<1>5. [o EXCEPT ![t] = Outcome(db[t])] = o /\ [a EXCEPT ![t] = db[t].answer] = a
  OBVIOUS
<1>6. CASE Outcome(db[t]) = "none" /\ Outcome(d2) = "pending" /\ d2.answer = db[t].answer
  <2>1. Lifecycle!Create(t)
    BY <1>3, <1>4, <1>5, <1>6 DEF Lifecycle!Create
  <2> QED
    BY <2>1 DEF LifecycleStep, Lifecycle!Next
<1>7. CASE Outcome(db[t]) = "pending" /\ Outcome(d2) = "pending" /\ d2.answer = db[t].answer
  BY <1>4, <1>5, <1>7 DEF LifecycleStep, Lifecycle!vars
<1>8. CASE /\ Outcome(db[t]) = "pending" /\ Outcome(d2) \in {"pending", "published"}
           /\ d2.answer = TRUE /\ ~db[t].answer
  <2>1. Lifecycle!Approve(t)
    BY <1>3, <1>4, <1>8 DEF Lifecycle!Approve
  <2> QED
    BY <2>1 DEF LifecycleStep, Lifecycle!Next
<1>9. CASE /\ Outcome(db[t]) = "pending" /\ Outcome(d2) = "published"
           /\ d2.answer = TRUE /\ db[t].answer
  <2>1. d2.answer = db[t].answer
    BY <1>2, <1>9
  <2>2. Lifecycle!Publish(t)
    BY <1>3, <1>4, <1>5, <1>9, <2>1 DEF Lifecycle!Publish
  <2> QED
    BY <2>2 DEF LifecycleStep, Lifecycle!Next
<1>10. CASE /\ Outcome(db[t]) = "pending" /\ Outcome(d2) \in {"blocked", "held"}
            /\ ~db[t].answer /\ d2.answer = db[t].answer
  <2>1. Lifecycle!Refuse(t)
    BY <1>3, <1>4, <1>5, <1>10 DEF Lifecycle!Refuse
  <2> QED
    BY <2>1 DEF LifecycleStep, Lifecycle!Next
<1> QED
  BY <1>2, <1>6, <1>7, <1>8, <1>9, <1>10 DEF Advances

\* The stages a transaction can be committed at.
CommitStages ==
  {"finish", "extract", "verify", "compile", "gate", "to_published", "to_held"}

\* What is committed for a task without an outcome.
LEMMA CommitAdvances ==
  ASSUME NEW d, NEW d2, Good(d), Good(d2), Evolves(d, d2), ~Final(d),
         NEW p \in CommitStages, Progress(p, d2)
  PROVE  Advances(Outcome(d), d.answer, Outcome(d2), d2.answer)
<1>1. /\ d.status \in Statuses /\ d2.status \in Statuses
      /\ d.answer \in BOOLEAN /\ d2.answer \in BOOLEAN /\ d2.report \in Reports
      /\ Fits(d2, d2.status) /\ (d.answer => d2.answer)
  BY DEF Good, GoodAs, Rows, Evolves, Reports
<1>2. Outcome(d) = "pending"
  BY <1>1 DEF Outcome, Final, Statuses
<1>3. CASE p # "finish"
  <2>1. d2.status \in {"analyzing", "compiling"}
    BY <1>3 DEF CommitStages, Progress
  <2>2. Outcome(d2) = "pending"
    BY <2>1 DEF Outcome
  <2>3. d2.answer = d.answer \/ (d2.answer = TRUE /\ ~d.answer)
    BY <1>1
  <2> QED
    BY <1>2, <2>2, <2>3 DEF Advances
<1>4. CASE p = "finish"
  <2>1. CASE d2.status = "published"
    BY <1>1, <1>2, <2>1 DEF Advances, Outcome, Fits
  <2>2. CASE d2.status = "blocked"
    <3>1. d2.answer = FALSE /\ d.answer = FALSE
      BY <1>1, <2>2 DEF Fits
    <3> QED
      BY <1>2, <2>2, <3>1 DEF Advances, Outcome
  <2>3. CASE d2.status = "analyzed_partial" /\ d2.report = "rejected"
    <3>1. d2.answer = FALSE /\ d.answer = FALSE
      BY <1>1, <2>3 DEF Fits
    <3>2. Outcome(d2) = "held"
      BY <2>3 DEF Outcome
    <3> QED
      BY <1>2, <3>1, <3>2 DEF Advances
  <2> QED
    BY <1>4, <2>1, <2>2, <2>3 DEF Progress
<1> QED
  BY <1>3, <1>4

-----------------------------------------------------------------------------
(* Commits                                                                 *)

LEMMA CommitPasses ==
  ASSUME OneAtATime, IInv, RInv, NEW w \in Workers, InHandler(w), todo[w] = "none",
         pc[w] \in CommitStages, NEW status \in {"failed", "succeeded"},
         CommitAs(w, status), Ends(w),
         status = "succeeded" \/ pc'[w] = "ack" => Final(View(w))
  PROVE  RInv' /\ LifecycleStep
<1>1. Types /\ RowsGood /\ Known /\ OneLiveEntry /\ AnalysedHaveDocs /\ SucceededIsFinal
      /\ \A v \in Workers : WorkerOk(v) /\ OnePass(v)
  BY DEF IInv, RInv
<1>2. /\ Transacting(w) /\ batch[w] # <<>> /\ OnePass(w)
  BY <1>1 DEF WorkerOk, Transacting
<1>3. /\ Task(w) \in Tasks /\ db[Task(w)] \in Rows
  BY <1>1, <1>2, TaskTyped
<1>4. pc[w] \notin {"quality", "entailment"}
  BY DEF CommitStages
<1>5. Evolves(db[Task(w)], View(w)) /\ Good(db[Task(w)]) /\ Good(View(w))
  BY <1>4, CommitKeeps
<1>6. PICK t \in Tasks : t = Task(w)
  BY <1>3
<1>7. PICK d2 : d2 = View(w)
  OBVIOUS
<1>8. /\ db' = [db EXCEPT ![t] = d2] /\ Release(w)
      /\ epr' = [epr EXCEPT ![w][KeyOf[t]] = status]
  BY <1>6, <1>7 DEF CommitAs
<1>9. /\ Evolves(db[t], d2) /\ Good(db[t]) /\ Good(d2) /\ d2 \in Rows
      /\ ~Final(db[t]) /\ Progress(pc[w], d2)
  BY <1>2, <1>5, <1>6, <1>7 DEF OnePass, Good, GoodAs
<1>10. LifecycleStep
  <2>1. Advances(Outcome(db[t]), db[t].answer, Outcome(d2), d2.answer)
    BY <1>9, CommitAdvances
  <2> QED
    BY <1>1, <1>8, <1>9, <2>1, OneRowAdvances
<1>11. db'[t] = d2 /\ \A u \in Tasks \ {t} : db'[u] = db[u]
  BY <1>1, <1>8 DEF Types
<1>12. OneLiveEntry'
  <2>1. UNCHANGED <<stream, unsent, cursor, pel>>
    BY DEF Ends, redis
  <2>2. CASE batch' = batch
    BY <1>1, <2>1, <2>2 DEF OneLiveEntry, Live
  <2>3. CASE batch' = [batch EXCEPT ![w] = Tail(@)]
    BY <1>1, <1>2, <2>1, <2>3, BatchLeft
  <2> QED
    BY <2>2, <2>3 DEF Ends
<1>13. AnalysedHaveDocs'
  BY <1>1, <1>9, <1>11 DEF AnalysedHaveDocs, Progress
<1>14. \A u \in Tasks : Final(db[u]) => Final(db'[u])
  BY <1>9, <1>11
<1>15. SucceededIsFinal'
  <2> SUFFICES ASSUME NEW v \in Workers, NEW k \in Keys, epr'[v][k] = "succeeded"
               PROVE  Answered(db', k)
    BY DEF SucceededIsFinal
  <2>1. CASE epr[v][k] = "succeeded"
    <3>1. Answered(db, k)
      BY <1>1, <2>1 DEF SucceededIsFinal
    <3> QED
      BY <1>14, <3>1, AnsweredStays
  <2>2. CASE epr[v][k] # "succeeded"
    <3>1. v = w /\ k = KeyOf[t] /\ status = "succeeded"
      BY <1>1, <1>8, <2>2 DEF Types
    <3>2. Final(db'[t])
      BY <1>7, <1>11, <3>1
    <3> QED
      BY <3>1, <3>2 DEF Answered
  <2> QED
    BY <2>1, <2>2
<1>16. ASSUME NEW v \in Workers \ {w}  PROVE  OnePass(v)'
  <2>1. mine'[v] = mine[v]
    BY <1>1, <1>8, Released
  <2>2. pc'[v] = pc[v] /\ batch'[v] = batch[v] /\ stream' = stream
    BY <1>1 DEF Types, Ends, redis
  <2>3. SamePass(v)
    BY <2>2 DEF SamePass, Task
  <2>4. OnePass(v)
    BY <1>1
  <2>5. InHandler(v) \/ pc[v] = "ack" => db'[Task(v)] = db[Task(v)]
    <3>1. SUFFICES ASSUME InHandler(v) \/ pc[v] = "ack"
                   PROVE  db'[Task(v)] = db[Task(v)]
      OBVIOUS
    <3>2. batch[v] # <<>>
      BY <1>1, <3>1 DEF WorkerOk, Transacting, Resting
    <3>3. Task(v) # t /\ Task(v) \in Tasks
      BY <1>1, <1>2, <1>6, <3>2, Alone, TaskTyped
    <3> QED
      BY <1>11, <3>3
  <2>6. InHandler(v) => /\ ~Final(db'[Task(v)])
                        /\ Progress(pc[v], Overlay(mine'[v], db'[Task(v)]))
    BY <2>1, <2>4, <2>5 DEF OnePass, View
  <2>7. pc[v] = "ack" => Answered(db', KeyOf[Task(v)])
    <3> SUFFICES ASSUME pc[v] = "ack"  PROVE  Answered(db', KeyOf[Task(v)])
      OBVIOUS
    <3>1. Answered(db, KeyOf[Task(v)])
      BY <2>4 DEF OnePass
    <3> QED
      BY <1>14, <3>1, AnsweredStays
  <2> QED
    BY <2>3, <2>4, <2>6, <2>7, OthersPass
<1>17. OnePass(w)'
  <2>1. /\ pc'[w] \in {"ack", "idle"}
        /\ pc'[w] = "ack" => batch' = batch /\ stream' = stream
    BY <1>1 DEF Types, Ends, redis
  <2>2. ~InHandler(w)'
    BY <2>1 DEF InHandler
  <2>3. CASE pc'[w] = "ack"
    <3>1. Task(w)' = t
      BY <1>6, <2>1, <2>3 DEF Task
    <3>2. Final(db'[t])
      BY <1>7, <1>11, <2>3
    <3>3. Answered(db', KeyOf[t])
      BY <3>2 DEF Answered
    <3>4. Answered(db, KeyOf[Task(w)])'
      BY <3>1, <3>3
    <3> QED
      BY <2>2, <3>4 DEF OnePass
  <2>4. CASE pc'[w] # "ack"
    BY <2>2, <2>4 DEF OnePass
  <2> QED
    BY <2>3, <2>4
<1> QED
  BY <1>10, <1>12, <1>13, <1>16, <1>17, <1>15 DEF RInv

LEMMA FinishPasses ==
  ASSUME OneAtATime, IInv, RInv, NEW w \in Workers, Finish(w)
  PROVE  RInv' /\ LifecycleStep
<1>1. At(w, "finish") /\ "finish" \in Stages
  BY StageNames DEF Finish
<1>2. InHandler(w) /\ Progress("finish", View(w)) /\ pc[w] = "finish" /\ todo[w] = "none"
  BY <1>1, AtPass DEF At
<1>3. View(w).status # "compiling" /\ Final(View(w))
  BY <1>2 DEF Progress, Final
<1>4. CommitAs(w, "succeeded") /\ Goto(w, "ack") /\ UNCHANGED <<batch, unsent, redis, budgets>>
  BY <1>3 DEF Finish
<1>5. Ends(w)
  BY <1>4 DEF Ends, Goto, budgets, IInv, Types
<1> QED
  BY <1>2, <1>3, <1>4, <1>5, CommitPasses DEF CommitStages

LEMMA ServiceRaisesPasses ==
  ASSUME OneAtATime, IInv, RInv, NEW w \in Workers, ServiceRaises(w)
  PROVE  RInv' /\ LifecycleStep
<1>1. InHandler(w) /\ todo[w] = "none" /\ pc[w] \in CommitStages
  BY DEF ServiceRaises, InHandler, CommitStages
<1>2. faults' \in 0 .. MaxFaults
  BY Spent, Bounds DEF ServiceRaises, IInv, Types
<1>3. Ends(w) /\ CommitAs(w, "failed")
  BY <1>2 DEF ServiceRaises, Ends, Goto
<1>4. pc'[w] = "idle"
  BY DEF ServiceRaises, Goto, IInv, Types
<1> QED
  BY <1>1, <1>3, <1>4, CommitPasses

-----------------------------------------------------------------------------
(* The worker's loop, the API and the environment                          *)

\* Nothing is committed; who is not at rest goes on as before.
LEMMA LoopPasses ==
  ASSUME RInv, OneLiveEntry', UNCHANGED <<db, epr>>,
         \A v \in Workers :
           (SamePass(v) /\ mine'[v] = mine[v]) \/ pc'[v] \in {"down", "idle"}
  PROVE  RInv'
<1>1. AnalysedHaveDocs' /\ SucceededIsFinal'
  BY DEF RInv, AnalysedHaveDocs, SucceededIsFinal
<1>2. ASSUME NEW v \in Workers  PROVE  OnePass(v)'
  <2>1. CASE SamePass(v) /\ mine'[v] = mine[v]
    <3>1. OnePass(v)
      BY DEF RInv
    <3> QED
      BY <2>1, <3>1, OthersPass DEF OnePass, View
  <2>2. CASE pc'[v] \in {"down", "idle"}
    BY <2>2 DEF OnePass, InHandler
  <2> QED
    BY <1>2, <2>1, <2>2
<1> QED
  BY <1>1, <1>2 DEF RInv

LEMMA BeginPasses ==
  ASSUME OneAtATime, IInv, RInv, NEW w \in Workers, Begin(w)
  PROVE  RInv'
<1>1. Types /\ RowsGood /\ Known /\ OneLiveEntry /\ AnalysedHaveDocs /\ SucceededIsFinal
      /\ \A v \in Workers : WorkerOk(v) /\ OnePass(v)
  BY DEF IInv, RInv
<1>2. /\ pc[w] = "idle" /\ batch[w] # <<>>
      /\ UNCHANGED <<db, unsent, redis, batch, txn, budgets>>
  BY DEF Begin
<1>3. PICK t \in Tasks : t = Task(w)
  BY <1>1, <1>2, TaskTyped
<1>4. GoodRow(db[t]) /\ db[t] \in Rows /\ db[t].status # "none"
  BY <1>1, <1>2, <1>3, TaskGood DEF GoodRow, Good, GoodAs
<1>5. mine[w] = Nothing
  BY <1>1, <1>2 DEF WorkerOk, InHandler, Resting
<1>6. OneLiveEntry' /\ AnalysedHaveDocs'
  BY <1>1, <1>2 DEF OneLiveEntry, Live, AnalysedHaveDocs, redis
<1>7. /\ \A v \in Workers \ {w} : pc'[v] = pc[v]
      /\ \A v \in Workers : mine'[v] = mine[v] /\ batch'[v] = batch[v] /\ Task(v)' = Task(v)
      /\ db' = db
  BY <1>1, <1>2 DEF Begin, Goto, Types, txn, redis, Task
<1>8. ASSUME NEW v \in Workers \ {w}  PROVE  OnePass(v)'
  <2>1. SamePass(v) /\ OnePass(v)
    BY <1>1, <1>7 DEF SamePass
  <2> QED
    BY <1>7, <2>1, OthersPass DEF OnePass, View
<1>9. CASE epr[w][KeyOf[t]] = "succeeded" \/ Final(db[t])
  <2>1. Answered(db, KeyOf[t])
    <3>1. KeyOf[t] \in Keys
      BY PipelineAssumption
    <3>2. CASE epr[w][KeyOf[t]] = "succeeded"
      BY <1>1, <3>1, <3>2 DEF SucceededIsFinal
    <3>3. CASE Final(db[t])
      BY <3>3 DEF Answered
    <3> QED
      BY <1>9, <3>2, <3>3
  <2>2. epr' = [epr EXCEPT ![w][KeyOf[t]] = "succeeded"] /\ pc'[w] = "ack"
    BY <1>1, <1>3, <1>9 DEF Begin, Goto, Types
  <2>3. SucceededIsFinal'
    <3> SUFFICES ASSUME NEW v \in Workers, NEW k \in Keys, epr'[v][k] = "succeeded"
                 PROVE  Answered(db, k)
      BY <1>7 DEF SucceededIsFinal
    <3>1. CASE k = KeyOf[t]
      BY <2>1, <3>1
    <3>2. CASE k # KeyOf[t]
      <4>1. epr[v][k] = "succeeded"
        BY <1>1, <2>2, <3>2 DEF Types
      <4> QED
        BY <1>1, <4>1 DEF SucceededIsFinal
    <3> QED
      BY <3>1, <3>2
  <2>4. Answered(db, KeyOf[Task(w)])'
    <3>1. Answered(db', KeyOf[t])
      BY <1>7, <2>1
    <3>2. Task(w)' = t
      BY <1>3, <1>7
    <3> QED
      BY <3>1, <3>2
  <2>5. OnePass(w)'
    BY <2>2, <2>4 DEF OnePass, InHandler
  <2> QED
    BY <1>6, <1>8, <2>3, <2>5 DEF RInv
<1>10. CASE ~(epr[w][KeyOf[t]] = "succeeded" \/ Final(db[t]))
  <2> DEFINE next == IF db[t].status = "created" THEN "advance"
                     ELSE IF db[t].docs THEN "pipeline" ELSE "block"
  <2>1. pc'[w] = next /\ epr' = epr
    BY <1>1, <1>3, <1>10 DEF Begin, Goto, Types
  <2>2. SucceededIsFinal'
    BY <1>1, <1>7, <2>1 DEF SucceededIsFinal
  <2>3. Progress(next, db[t])
    BY <1>1, <1>4, <1>10, BeginProgress DEF AnalysedHaveDocs
  <2>4. next # "ack"
    OBVIOUS
  <2> HIDE DEF next
  <2>5. Overlay(mine'[w], db'[t]) = db[t]
    BY <1>4, <1>5, <1>7, OverlayNothing
  <2>6. Task(w)' = t
    BY <1>3, <1>7
  <2>7. Progress(pc'[w], Overlay(mine'[w], db'[t])) /\ ~Final(db'[t])
    BY <1>7, <1>10, <2>1, <2>3, <2>5
  <2>8. (~Final(db[Task(w)]) /\ Progress(pc[w], View(w)))'
    BY <2>6, <2>7 DEF View
  <2>9. OnePass(w)'
    BY <2>1, <2>4, <2>8 DEF OnePass
  <2> QED
    BY <1>6, <1>8, <2>2, <2>9 DEF RInv
<1> QED
  BY <1>9, <1>10

LEMMA ReadsAndStartsPass ==
  ASSUME IInv, RInv, NEW w \in Workers, StartWorker(w) \/ ReadBatch(w) \/ Acknowledge(w)
  PROVE  RInv'
<1>1. Types /\ OneLiveEntry
  BY DEF IInv, RInv
<1>2. /\ UNCHANGED <<db, epr, stream, unsent, txn>>
      /\ pc'[w] = "idle" /\ \A v \in Workers \ {w} : pc'[v] = pc[v] /\ batch'[v] = batch[v]
  BY <1>1 DEF StartWorker, ReadBatch, Acknowledge, Types
<1>3. \A v \in Workers \ {w} : SamePass(v) /\ mine'[v] = mine[v]
  BY <1>2 DEF SamePass, Task, txn
<1>4. CASE StartWorker(w)
  <2>1. /\ cursor \in Nat /\ cursor' \in Nat /\ cursor <= cursor'
    BY <1>1, <1>4, LenProperties DEF StartWorker, Types
  <2>2. UNCHANGED <<pel, batch, stream, unsent>>
    BY <1>4 DEF StartWorker
  <2>3. OneLiveEntry'
    BY <1>1, <2>1, <2>2, LessLive DEF OneLiveEntry
  <2> QED
    BY <1>2, <1>3, <2>3, LoopPasses
<1>5. CASE ReadBatch(w)
  BY <1>1, <1>2, <1>3, <1>5, BatchRead, LoopPasses
<1>6. CASE Acknowledge(w)
  <2>1. batch[w] # <<>>
    BY <1>6 DEF IInv, WorkerOk, Resting, InHandler, Acknowledge
  <2>2. OneLiveEntry'
    BY <1>1, <1>6, <2>1, BatchLeft DEF Acknowledge
  <2> QED
    BY <1>2, <1>3, <2>2, LoopPasses
<1> QED
  BY <1>4, <1>5, <1>6

LEMMA DiePasses ==
  ASSUME IInv, RInv, NEW w \in Workers, Die(w)
  PROVE  RInv'
<1>1. Types /\ OneLiveEntry
  BY DEF IInv, RInv
<1>2. /\ batch' = [batch EXCEPT ![w] = <<>>] /\ pc' = [pc EXCEPT ![w] = "down"]
      /\ UNCHANGED <<db, unsent, redis, epr>> /\ Release(w)
  BY DEF Die
<1>3. OneLiveEntry'
  BY <1>1, <1>2, BatchLeft DEF redis
<1>4. pc'[w] = "down" /\ \A v \in Workers \ {w} : SamePass(v) /\ mine'[v] = mine[v]
  BY <1>1, <1>2, Released DEF Types, SamePass, Task, redis
<1> QED
  BY <1>2, <1>3, <1>4, LoopPasses

\* Entries are added behind those that workers have.
LEMMA AddedPasses ==
  ASSUME IInv, RInv, OneLiveEntry', UNCHANGED <<db, epr, pc, batch, mine>>,
         UNCHANGED stream \/ \E t \in Tasks : stream' = Append(stream, t)
  PROVE  RInv'
<1>1. Types /\ \A v \in Workers : WorkerOk(v)
  BY DEF IInv
<1>2. \A i \in DOMAIN stream : stream'[i] = stream[i]
  <2>1. CASE UNCHANGED stream
    BY <2>1
  <2>2. ASSUME NEW t \in Tasks, stream' = Append(stream, t)
        PROVE  \A i \in DOMAIN stream : stream'[i] = stream[i]
    BY <1>1, <2>2, Appended DEF Types
  <2> QED
    BY <2>1, <2>2
<1>3. ASSUME NEW v \in Workers  PROVE  SamePass(v)
  <2>1. InHandler(v) \/ pc[v] = "ack" => batch[v] # <<>>
    BY <1>1 DEF WorkerOk, Transacting, Resting
  <2>2. batch[v] # <<>> => Head(batch[v]) \in DOMAIN stream
    BY <1>1, TaskTyped
  <2> QED
    BY <1>2, <2>1, <2>2 DEF SamePass, Task
<1> QED
  BY <1>3, LoopPasses

LEMMA PublishPasses ==
  ASSUME IInv, RInv, NEW t \in Tasks, PublishTaskCreated(t)
  PROVE  RInv'
<1>1. Types /\ OneLiveEntry
  BY DEF IInv, RInv
<1>2. /\ t \in unsent /\ unsent' = unsent \ {t}
      /\ UNCHANGED <<db, cursor, pel, batch, epr, pc, txn>>
      /\ UNCHANGED stream \/ stream' = Append(stream, t)
  BY DEF PublishTaskCreated
<1>3. cursor \in Nat /\ cursor <= cursor /\ DOMAIN stream \subseteq Nat
  BY <1>1, LenProperties DEF Types
<1>4. \A v \in Workers : Holds(batch[v], pel[v])
  BY <1>1 DEF OneLiveEntry
<1>5. CASE UNCHANGED stream
  <2>1. OneLiveEntry'
    BY <1>1, <1>2, <1>3, <1>4, <1>5, LessLive
  <2> QED
    BY <1>2, <1>5, <2>1, AddedPasses DEF txn
<1>6. CASE stream' = Append(stream, t)
  <2>1. ASSUME NEW i \in DOMAIN stream, stream[i] = t
        PROVE  i <= cursor /\ \A v \in Workers : i \notin pel'[v]
    <3>1. ~Live(i)
      BY <1>1, <1>2, <2>1 DEF OneLiveEntry
    <3>2. i \in Nat
      BY <1>3
    <3> QED
      BY <1>2, <1>3, <3>1, <3>2 DEF Live
  <2>2. OneLiveEntry'
    BY <1>1, <1>2, <1>4, <1>6, <2>1, EntryForTask
  <2> QED
    BY <1>2, <1>6, <2>2, AddedPasses DEF txn
<1> QED
  BY <1>2, <1>5, <1>6

LEMMA RequeuePasses ==
  ASSUME IInv, RInv, NEW w \in Workers, NEW i \in pel[w], Requeue(w, i)
  PROVE  RInv'
<1>1. Types /\ OneLiveEntry
  BY DEF IInv, RInv
<1>2. /\ ~Working(w, i) /\ stream' = Append(stream, stream[i])
      /\ pel' = [pel EXCEPT ![w] = @ \ {i}]
      /\ UNCHANGED <<db, unsent, group, cursor, batch, epr, pc, txn>>
  BY DEF Requeue
<1>3. /\ stream \in Seq(Tasks) /\ Len(stream) \in Nat /\ DOMAIN stream = 1 .. Len(stream)
      /\ cursor \in 0 .. Len(stream) /\ pel \in [Workers -> SUBSET (1 .. cursor)]
  BY <1>1, LenProperties DEF Types
<1>4. i \in 1 .. cursor /\ i \in DOMAIN stream /\ cursor \in Nat
  BY <1>3
<1>5. PICK t \in Tasks : t = stream[i]
  BY <1>3, <1>4, ElementOfSeq
<1>6. pel'[w] = pel[w] \ {i} /\ \A v \in Workers \ {w} : pel'[v] = pel[v]
  BY <1>2, <1>3
<1>7. Live(i)
  BY DEF Live
<1>8. t \notin unsent'
  BY <1>1, <1>2, <1>4, <1>5, <1>7 DEF OneLiveEntry
<1>9. ASSUME NEW v \in Workers
      PROVE  pel'[v] \subseteq pel[v] /\ Holds(batch[v], pel'[v])
  <2>1. Holds(batch[v], pel[v])
    BY <1>1 DEF OneLiveEntry
  <2>2. CASE v = w
    BY <1>2, <1>6, <2>1, <2>2 DEF Holds, Working
  <2>3. CASE v # w
    BY <1>6, <2>1, <2>3
  <2> QED
    BY <2>2, <2>3
<1>10. ASSUME NEW j \in DOMAIN stream, stream[j] = t
       PROVE  j <= cursor /\ \A v \in Workers : j \notin pel'[v]
  <2>1. CASE j = i
    <3>1. \A v \in Workers \ {w} : i \notin pel[v]
      BY <1>1 DEF OneLiveEntry
    <3> QED
      BY <1>4, <1>6, <2>1, <3>1
  <2>2. CASE j # i
    <3>1. ~Live(j)
      BY <1>1, <1>4, <1>5, <1>7, <1>10, <2>2 DEF OneLiveEntry
    <3>2. j \in Nat
      BY <1>3
    <3> QED
      BY <1>4, <1>9, <3>1, <3>2 DEF Live
  <2> QED
    BY <2>1, <2>2
<1>11. OneLiveEntry'
  <2>1. stream' = Append(stream, t) /\ cursor' = cursor /\ batch' = batch
        /\ unsent' \subseteq unsent
    BY <1>2, <1>5
  <2> QED
    BY <1>1, <1>8, <1>9, <1>10, <2>1, EntryForTask
<1> QED
  BY <1>2, <1>5, <1>11, AddedPasses DEF txn

LEMMA DuplicateIsNone ==
  ASSUME OneAtATime, IInv, NEW w \in Workers, NEW i, Duplicate(w, i)
  PROVE  FALSE
  BY DEF OneAtATime, IInv, Types, Duplicate

\* A new task has no event yet.
LEMMA CreatePasses ==
  ASSUME IInv, RInv, NEW t \in Tasks, CreateTask(t)
  PROVE  RInv' /\ LifecycleStep
<1>1. Types /\ RowsGood /\ Known /\ OneLiveEntry /\ AnalysedHaveDocs /\ SucceededIsFinal
      /\ \A v \in Workers : WorkerOk(v) /\ OnePass(v)
  BY DEF IInv, RInv
<1>2. /\ db[t].status = "none" /\ unsent' = unsent \cup {t}
      /\ UNCHANGED <<redis, batch, epr, pc, txn, budgets>>
  BY DEF CreateTask
<1>3. PICK docs \in BOOLEAN, sound \in BOOLEAN :
        db' = [db EXCEPT ![t] = [NoTask EXCEPT !.status = "created", !.docs = docs,
                                               !.sound = sound, !.trail = <<"created">>]]
  BY DEF CreateTask
<1> DEFINE d2 == [NoTask EXCEPT !.status = "created", !.docs = docs,
                                !.sound = sound, !.trail = <<"created">>]
<1>4. d2.status = "created" /\ d2.answer = FALSE /\ db' = [db EXCEPT ![t] = d2]
  BY <1>3 DEF NoTask
<1> HIDE DEF d2
<1>5. db'[t] = d2 /\ \A u \in Tasks \ {t} : db'[u] = db[u]
  BY <1>1, <1>4 DEF Types
<1>6. d2 \in Rows
  <2>1. IInv'
    BY CreateTaskKeeps
  <2>2. db' \in [Tasks -> Rows]
    BY <2>1 DEF IInv, Types
  <2> QED
    BY <1>5, <2>2
<1>7. db[t] = NoTask
  BY <1>1, <1>2 DEF RowsGood, GoodRow, Good, GoodAs
<1>8. LifecycleStep
  <2>1. Outcome(db[t]) = "none" /\ Outcome(d2) = "pending" /\ db[t].answer = FALSE
    BY <1>2, <1>4, <1>7 DEF Outcome, NoTask
  <2>2. Advances(Outcome(db[t]), db[t].answer, Outcome(d2), d2.answer)
    BY <1>4, <2>1 DEF Advances
  <2> QED
    BY <1>1, <1>4, <1>6, <2>2, OneRowAdvances
<1>9. OneLiveEntry'
  <2>1. \A i \in DOMAIN stream : stream[i] # t
    BY <1>1, <1>7 DEF Known
  <2> QED
    BY <1>1, <1>2, <2>1 DEF OneLiveEntry, Live, redis
<1>10. AnalysedHaveDocs'
  BY <1>1, <1>4, <1>5 DEF AnalysedHaveDocs, Later
<1>11. SucceededIsFinal' /\ \A k : Answered(db, k) => Answered(db', k)
  <2>1. ~Final(db[t])
    BY <1>2 DEF Final
  <2>2. \A u \in Tasks : Final(db[u]) => Final(db'[u])
    BY <1>5, <2>1
  <2>3. \A k : Answered(db, k) => Answered(db', k)
    BY <2>2, AnsweredStays
  <2> QED
    BY <1>1, <1>2, <2>3 DEF SucceededIsFinal
<1>12. ASSUME NEW v \in Workers  PROVE  OnePass(v)'
  <2>1. SamePass(v) /\ OnePass(v) /\ mine'[v] = mine[v]
    BY <1>1, <1>2 DEF SamePass, Task, redis, txn
  <2>2. InHandler(v) \/ pc[v] = "ack" => db'[Task(v)] = db[Task(v)]
    <3>1. InHandler(v) \/ pc[v] = "ack" => batch[v] # <<>>
      BY <1>1 DEF WorkerOk, Transacting, Resting
    <3>2. batch[v] # <<>> => Task(v) # t /\ Task(v) \in Tasks
      BY <1>1, <1>7, TaskGood, TaskTyped
    <3> QED
      BY <1>5, <3>1, <3>2
  <2>3. pc[v] = "ack" => Answered(db', KeyOf[Task(v)])
    BY <1>11, <2>1 DEF OnePass
  <2>4. InHandler(v) => /\ ~Final(db'[Task(v)])
                        /\ Progress(pc[v], Overlay(mine'[v], db'[Task(v)]))
    BY <2>1, <2>2 DEF OnePass, View
  <2> QED
    BY <2>1, <2>3, <2>4, OthersPass
<1> QED
  BY <1>8, <1>9, <1>10, <1>11, <1>12 DEF RInv

\* A loss changes neither status nor report.
LEMMA LosePasses ==
  ASSUME IInv, RInv, NEW t \in Tasks, LoseSource(t)
  PROVE  RInv' /\ LifecycleStep
<1>1. Types /\ OneLiveEntry /\ AnalysedHaveDocs /\ SucceededIsFinal
      /\ \A v \in Workers : WorkerOk(v) /\ OnePass(v)
  BY DEF IInv, RInv
<1>2. UNCHANGED <<unsent, redis, batch, epr, pc, txn>>
  BY DEF LoseSource
<1>3. /\ db'[t].status = db[t].status /\ db'[t].docs = db[t].docs
      /\ db'[t].report = db[t].report /\ db'[t].answer = db[t].answer
      /\ \A u \in Tasks \ {t} : db'[u] = db[u]
  <2>1. db' = [db EXCEPT ![t].claim = "lost", ![t].trail = Append(@, "source_lost")]
    BY DEF LoseSource
  <2>2. db[t] \in Rows
    BY <1>1 DEF Types
  <2>3. db'[t] = [db[t] EXCEPT !.claim = "lost", !.trail = Append(@, "source_lost")]
        /\ \A u \in Tasks \ {t} : db'[u] = db[u]
    BY <1>1, <2>1 DEF Types
  <2> QED
    BY <2>2, <2>3 DEF Rows
<1>4. \A u \in Tasks : /\ db'[u].status = db[u].status /\ db'[u].docs = db[u].docs
                       /\ db'[u].report = db[u].report /\ db'[u].answer = db[u].answer
  BY <1>3
<1>5. \A u \in Tasks : Final(db'[u]) <=> Final(db[u])
  BY <1>4 DEF Final
<1>6. LifecycleStep
  BY <1>4, SameOutcomes DEF Outcome
<1>7. OneLiveEntry' /\ AnalysedHaveDocs' /\ SucceededIsFinal'
      /\ \A k : Answered(db, k) => Answered(db', k)
  <2>1. \A k : Answered(db, k) => Answered(db', k)
    BY <1>5, AnsweredStays
  <2>2. OneLiveEntry' /\ AnalysedHaveDocs'
    BY <1>1, <1>2, <1>4 DEF OneLiveEntry, Live, AnalysedHaveDocs, redis
  <2>3. SucceededIsFinal'
    BY <1>1, <1>2, <2>1 DEF SucceededIsFinal
  <2> QED
    BY <2>1, <2>2, <2>3
<1>8. ASSUME NEW v \in Workers  PROVE  OnePass(v)'
  <2>1. SamePass(v) /\ OnePass(v) /\ mine'[v] = mine[v]
    BY <1>1, <1>2 DEF SamePass, Task, redis, txn
  <2>2. InHandler(v) \/ pc[v] = "ack" => batch[v] # <<>> /\ Task(v) \in Tasks
    BY <1>1, TaskTyped DEF WorkerOk, Transacting, Resting
  <2>3. InHandler(v) => Progress(pc[v], Overlay(mine[v], db'[Task(v)]))
    <3> SUFFICES ASSUME InHandler(v)
                 PROVE  Progress(pc[v], Overlay(mine[v], db'[Task(v)]))
      OBVIOUS
    <3>1. PICK u \in Tasks : u = Task(v)
      BY <2>2
    <3>2. Progress(pc[v], Overlay(mine[v], db[u]))
      BY <2>1, <3>1 DEF OnePass, View
    <3>3. DOMAIN mine[v] \subseteq Columns
      BY <1>1 DEF WorkerOk, Transacting, Works, Writes
    <3>4. db[u] \in Rows /\ db'[u] \in Rows
      <4>1. IInv'
        BY LoseSourceKeeps
      <4> QED
        BY <1>1, <4>1 DEF IInv, Types
    <3> DEFINE r == Overlay(mine[v], db[u])
               r2 == Overlay(mine[v], db'[u])
    <3>5. \A x \in Columns :
            /\ r[x] = IF x \in DOMAIN mine[v] THEN mine[v][x] ELSE db[u][x]
            /\ r2[x] = IF x \in DOMAIN mine[v] THEN mine[v][x] ELSE db'[u][x]
      BY <3>3, <3>4, OverlayFields
    <3> HIDE DEF r, r2
    <3>6. r2["status"] = r["status"] /\ r2["docs"] = r["docs"] /\ r2["report"] = r["report"]
      BY <1>4, <3>5 DEF Columns
    <3>7. Progress(pc[v], r)
      BY <3>2 DEF r
    <3>8. Progress(pc[v], r2)
      BY <3>6, <3>7, SameProgress
    <3> QED
      BY <3>1, <3>8 DEF r2
  <2>4. InHandler(v) => ~Final(db'[Task(v)])
    BY <1>5, <2>1, <2>2 DEF OnePass
  <2>5. pc[v] = "ack" => Answered(db', KeyOf[Task(v)])
    BY <1>7, <2>1 DEF OnePass
  <2> QED
    BY <2>1, <2>3, <2>4, <2>5, OthersPass
<1> QED
  BY <1>6, <1>7, <1>8 DEF RInv

-----------------------------------------------------------------------------
(* The theorems                                                            *)

LEMMA InitPasses ==
  ASSUME Init
  PROVE  RInv /\ Lifecycle!Init
<1>1. /\ db = [t \in Tasks |-> NoTask] /\ unsent = {} /\ stream = <<>> /\ cursor = 0
      /\ pel = [w \in Workers |-> {}] /\ batch = [w \in Workers |-> <<>>]
      /\ epr = [w \in Workers |-> [k \in Keys |-> "none"]]
      /\ pc = [w \in Workers |-> "down"]
  BY DEF Init
<1>2. DOMAIN stream = {} /\ \A w \in Workers : DOMAIN batch[w] = {}
  BY <1>1
<1>3. OneLiveEntry
  BY <1>1, <1>2 DEF OneLiveEntry, Holds
<1>4. \A t \in Tasks : db[t].status = "none" /\ db[t].answer = FALSE
  BY <1>1 DEF NoTask
<1>5. AnalysedHaveDocs
  BY <1>4 DEF AnalysedHaveDocs, Later
<1>6. SucceededIsFinal
  BY <1>1, PipelineAssumption DEF SucceededIsFinal
<1>7. \A w \in Workers : OnePass(w)
  BY <1>1 DEF OnePass, InHandler
<1>8. Lifecycle!Init
  BY <1>4 DEF Lifecycle!Init, Outcome
<1> QED
  BY <1>3, <1>5, <1>6, <1>7, <1>8 DEF RInv

LEMMA SameRows ==
  ASSUME UNCHANGED db
  PROVE  LifecycleStep
  BY SameOutcomes

LEMMA HandlerStepPasses ==
  ASSUME OneAtATime, IInv, RInv, NEW w \in Workers, HandlerStep(w)
  PROVE  RInv' /\ LifecycleStep
<1>1. CASE \/ Extract(w) \/ Verify(w) \/ RunSourceQuality(w) \/ RunClaimEntailment(w)
           \/ Compile(w)
  <2>1. UNCHANGED db
    BY <1>1 DEF Extract, Verify, RunSourceQuality, RunClaimEntailment, Compile, AuditedStep
  <2> QED
    BY <1>1, <2>1, AuditsPass, SameRows
<1>2. CASE RunGate(w)
  BY <1>2, RunGatePasses, SameRows DEF RunGate, AuditedStep
<1>3. CASE \/ AdvanceToAnalyzing(w) \/ AdvanceToBlockedNoDocs(w) \/ AdvanceToAnalyzedPartial(w)
           \/ AdvanceToCompiling(w) \/ AdvanceToPublished(w)
           \/ RevertToAnalyzedPartialWithHeld(w)
  <2>1. UNCHANGED db
    BY <1>3 DEF AdvanceToAnalyzing, AdvanceToBlockedNoDocs, AdvanceToAnalyzedPartial,
                AdvanceToCompiling, AdvanceToPublished, RevertToAnalyzedPartialWithHeld,
                Transition
  <2> QED
    BY <1>3, <2>1, TransitionsPass, SameRows
<1>4. CASE AuditTransition(w)
  BY <1>4, AuditTransitionPasses, SameRows DEF AuditTransition
<1>5. CASE RunPipelineWithDocs(w) \/ EnterCompileStage(w)
  BY <1>5, MovesPass, SameRows DEF RunPipelineWithDocs, EnterCompileStage
<1>6. CASE Finish(w)
  BY <1>6, FinishPasses
<1> QED
  BY <1>1, <1>2, <1>3, <1>4, <1>5, <1>6 DEF HandlerStep

LEMMA NextPasses ==
  ASSUME OneAtATime, IInv, RInv, [Next]_vars
  PROVE  RInv' /\ LifecycleStep
<1>1. ASSUME NEW w \in Workers, WorkerStep(w)  PROVE  RInv' /\ LifecycleStep
  <2>1. CASE StartWorker(w) \/ ReadBatch(w) \/ Acknowledge(w)
    BY <2>1, ReadsAndStartsPass, SameRows DEF StartWorker, ReadBatch, Acknowledge
  <2>2. CASE Begin(w)
    BY <2>2, BeginPasses, SameRows DEF Begin
  <2>3. CASE HandlerStep(w)
    BY <2>3, HandlerStepPasses
  <2> QED
    BY <1>1, <2>1, <2>2, <2>3 DEF WorkerStep
<1>2. ASSUME NEW t \in Tasks, CreateTask(t) \/ PublishTaskCreated(t) \/ LoseSource(t)
      PROVE  RInv' /\ LifecycleStep
  <2>1. CASE PublishTaskCreated(t)
    BY <2>1, PublishPasses, SameRows DEF PublishTaskCreated
  <2> QED
    BY <1>2, <2>1, CreatePasses, LosePasses
<1>3. ASSUME NEW w \in Workers, Crash(w) \/ DeadlockAbort(w)  PROVE  RInv' /\ LifecycleStep
  <2>1. Die(w)
    BY <1>3 DEF Crash, DeadlockAbort
  <2> QED
    BY <2>1, DiePasses, SameRows DEF Die
<1>4. ASSUME NEW w \in Workers, NEW i \in pel[w], Requeue(w, i) \/ Duplicate(w, i)
      PROVE  RInv' /\ LifecycleStep
  <2>1. Requeue(w, i)
    BY <1>4, DuplicateIsNone
  <2> QED
    BY <2>1, RequeuePasses, SameRows DEF Requeue
<1>5. CASE UNCHANGED vars
  <2>1. UNCHANGED <<db, stream, cursor, pel, unsent, batch, epr, pc, mine>>
    BY <1>5 DEF vars, redis, txn
  <2>2. OneLiveEntry'
    BY <2>1 DEF RInv, OneLiveEntry, Live
  <2> QED
    BY <2>1, <2>2, AddedPasses, SameRows
<1>6. CASE Environment
  BY <1>2, <1>3, <1>4, <1>6, ServiceRaisesPasses DEF Environment
<1> QED
  BY <1>1, <1>5, <1>6 DEF Next, Quiet

\* One worker at a time is at work on a task, one that has no outcome yet.
THEOREM OnePassInvariant == OneAtATime /\ Spec => [](IInv /\ RInv)
<1>1. SUFFICES ASSUME OneAtATime  PROVE  Spec => [](IInv /\ RInv)
  BY DEF OneAtATime
<1>2. Init => IInv /\ RInv
  BY InitInvariant, InitPasses
<1>3. IInv /\ RInv /\ [Next]_vars => (IInv /\ RInv)'
  <2> SUFFICES ASSUME IInv, RInv, [Next]_vars  PROVE  IInv' /\ RInv'
    OBVIOUS
  <2>1. RInv'
    BY <1>1, NextPasses
  <2>2. IInv'
    BY NextKeeps, StutterKeeps
  <2> QED
    BY <2>1, <2>2
<1> QED
  BY <1>2, <1>3, PTL DEF Spec

\* An entry is acknowledged only when a task under its key has an outcome.
AcknowledgedUnderItsKey ==
  \A w \in Workers : pc[w] = "ack" =>
    \E t \in Tasks : KeyOf[t] = KeyOf[Task(w)] /\ Final(db[t])

KeysOfTheirOwn == \A s, t \in Tasks : KeyOf[s] = KeyOf[t] => s = t

\* When no entry of a task is added while one is being handled, a worker
\* acknowledges an entry only when some task under its idempotency key has an
\* outcome, through every crash, exception and redelivery: two tasks under one
\* key are the only way an entry of a task without an outcome is let go, and
\* where each task has a key of its own none is.
THEOREM AcknowledgedHasOutcome ==
  OneAtATime /\ Spec => /\ []AcknowledgedUnderItsKey
                        /\ KeysOfTheirOwn => []AcknowledgedIsFinal
<1>1. RInv => AcknowledgedUnderItsKey
  BY DEF RInv, OnePass, Answered, AcknowledgedUnderItsKey
<1>2. IInv /\ RInv /\ KeysOfTheirOwn => AcknowledgedIsFinal
  <2> SUFFICES ASSUME IInv, RInv, KeysOfTheirOwn, NEW w \in Workers, pc[w] = "ack"
               PROVE  Final(db[Task(w)])
    BY DEF AcknowledgedIsFinal
  <2>1. PICK t \in Tasks : KeyOf[t] = KeyOf[Task(w)] /\ Final(db[t])
    BY <1>1 DEF AcknowledgedUnderItsKey
  <2>2. batch[w] # <<>>
    BY DEF IInv, WorkerOk, InHandler, Resting
  <2>3. Task(w) \in Tasks
    BY <2>2, TaskTyped DEF IInv
  <2>4. t = Task(w)
    BY <2>1, <2>3 DEF KeysOfTheirOwn
  <2> QED
    BY <2>1, <2>4
<1>3. CASE KeysOfTheirOwn
  <2>1. IInv /\ RInv => AcknowledgedIsFinal
    BY <1>2, <1>3
  <2>2. OneAtATime /\ Spec => []AcknowledgedUnderItsKey
    BY <1>1, OnePassInvariant, PTL
  <2>3. OneAtATime /\ Spec => []AcknowledgedIsFinal
    BY <2>1, OnePassInvariant, PTL
  <2> QED
    BY <2>2, <2>3
<1>4. CASE ~KeysOfTheirOwn
  <2>1. OneAtATime /\ Spec => []AcknowledgedUnderItsKey
    BY <1>1, OnePassInvariant, PTL
  <2> QED
    BY <1>4, <2>1
<1> QED
  BY <1>3, <1>4

\* Under the same conditions the committed rows implement TaskLifecycle: every
\* commit of a task's row is one of its steps, or invisible.
THEOREM Refinement == OneAtATime /\ Spec => ImplementsLifecycle
<1>1. SUFFICES ASSUME OneAtATime  PROVE  Spec => ImplementsLifecycle
  BY DEF OneAtATime
<1>2. Init => Lifecycle!Init
  BY InitPasses
<1>3. IInv /\ RInv /\ [Next]_vars => [Lifecycle!Next]_(Lifecycle!vars)
  BY <1>1, NextPasses DEF LifecycleStep
<1>4. Spec => [](IInv /\ RInv)
  BY <1>1, OnePassInvariant
<1> QED
  BY <1>2, <1>3, <1>4, PTL DEF Spec, ImplementsLifecycle, Lifecycle!Spec
=============================================================================
