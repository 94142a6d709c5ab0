----------------------------- MODULE AuditChain -----------------------------
(***************************************************************************)
(* The hash-chained audit log of packages/shared .../db/audit.py, as       *)
(* concurrent database transactions use it.  A transaction may append to   *)
(* several chains before it commits; audit_append is four SQL statements,  *)
(* each an action here, and every statement of another transaction may     *)
(* run in between (PostgreSQL, READ COMMITTED).                            *)
(*                                                                         *)
(* A chain is named by its scope, one value for the pair (chain_scope,     *)
(* scope_id).  The payload of a record is abstracted to the transaction    *)
(* that wrote it, and sha256 over the canonical JSON to the tuple of the   *)
(* hashed fields: distinct inputs have distinct hashes.                    *)
(***************************************************************************)
EXTENDS Naturals, FiniteSets

CONSTANTS
  Txns,        \* database transactions (API requests, worker messages)
  Scopes,      \* audit chains
  NoTxn,       \* nobody holds the row lock of a head
  NoScope,     \* the transaction is not inside audit_append
  NoHash,      \* SQL NULL in previous_event_hash and last_event_hash
  MaxRecords   \* bound: no append is begun on a chain already this long

ASSUME AuditAssumption ==
  NoTxn \notin Txns /\ NoScope \notin Scopes /\ MaxRecords \in Nat

VARIABLES
  head,     \* committed audit_chain_heads rows; next = 0: no row
  records,  \* committed audit_records rows of each chain
  holder,   \* who holds the row lock on the head of each chain
  pc,       \* the next statement of each transaction
  scope,    \* the chain of the audit_append being executed
  read,     \* the head version its SELECT ... FOR UPDATE returned
  newHead,  \* uncommitted head versions; next = 0: not written
  newRecs   \* uncommitted records

vars == <<head, records, holder, pc, scope, read, newHead, newRecs>>

NoHead == [next |-> 0, hash |-> NoHash]
\* Mutant: a chain that starts at 0.
FreshHeadFromZero == [next |-> 0, hash |-> NoHash]
FreshHead == [next |-> 1, hash |-> NoHash]

EventHash(s, seq, writer, prev) == <<s, seq, writer, prev>>

NewRecord(s, h, t) ==
  [seq |-> h.next, writer |-> t, prev |-> h.hash,
   hash |-> EventHash(s, h.next, t, h.hash)]

\* What a statement of transaction t sees: its own writes, else the last
\* committed version.
ViewHead(t, s) == IF newHead[t][s].next > 0 THEN newHead[t][s] ELSE head[s]
ViewRecords(t, s) == records[s] \cup newRecs[t][s]

Locked(t, s) == holder[s] \notin {NoTxn, t}

Init ==
  /\ head = [s \in Scopes |-> NoHead]
  /\ records = [s \in Scopes |-> {}]
  /\ holder = [s \in Scopes |-> NoTxn]
  /\ pc = [t \in Txns |-> "idle"]
  /\ scope = [t \in Txns |-> NoScope]
  /\ read = [t \in Txns |-> NoHead]
  /\ newHead = [t \in Txns |-> [s \in Scopes |-> NoHead]]
  /\ newRecs = [t \in Txns |-> [s \in Scopes |-> {}]]

-----------------------------------------------------------------------------
(* audit_append, statement by statement                                    *)

\* The caller enters audit_append, in a new transaction or in an open one.
Call(t, s) ==
  /\ pc[t] \in {"idle", "open"}
  /\ Cardinality(ViewRecords(t, s)) < MaxRecords
  /\ pc' = [pc EXCEPT ![t] = "init"]
  /\ scope' = [scope EXCEPT ![t] = s]
  /\ UNCHANGED <<head, records, holder, read, newHead, newRecs>>

\* INSERT ... ON CONFLICT DO NOTHING: waits for another transaction's
\* uncommitted insert of the same row, and takes the row it inserts.
InitHead(t) ==
  LET s == scope[t] IN
  /\ pc[t] = "init"
  /\ \/ /\ ViewHead(t, s).next > 0
        /\ UNCHANGED <<holder, newHead>>
     \/ /\ ViewHead(t, s).next = 0
        /\ ~Locked(t, s)
        /\ holder' = [holder EXCEPT ![s] = t]
        /\ newHead' = [newHead EXCEPT ![t][s] = FreshHead]
  /\ pc' = [pc EXCEPT ![t] = "lock"]
  /\ UNCHANGED <<head, records, scope, read, newRecs>>

\* Mutant: a plain SELECT, which neither waits nor locks.
ReadHead(t) ==
  /\ pc[t] = "lock"
  /\ read' = [read EXCEPT ![t] = ViewHead(t, scope[t])]
  /\ pc' = [pc EXCEPT ![t] = "insert"]
  /\ UNCHANGED <<head, records, holder, scope, newHead, newRecs>>

\* SELECT ... FOR UPDATE: waits for the row lock, then reads the version
\* that is committed by then.
LockHead(t) ==
  LET s == scope[t] IN
  /\ pc[t] = "lock"
  /\ ~Locked(t, s)
  /\ holder' = [holder EXCEPT ![s] = t]
  /\ read' = [read EXCEPT ![t] = ViewHead(t, s)]
  /\ pc' = [pc EXCEPT ![t] = "insert"]
  /\ UNCHANGED <<head, records, scope, newHead, newRecs>>

\* Another row of the chain has the sequence number t is about to insert.
SeqTaken(t) ==
  \E u \in Txns : \E r \in ViewRecords(u, scope[t]) : r.seq = read[t].next

\* INSERT INTO audit_records, under audit_chain_seq_uq.
InsertRecord(t) ==
  LET s == scope[t] IN
  /\ pc[t] = "insert"
  /\ ~SeqTaken(t)
  /\ newRecs' = [newRecs EXCEPT ![t][s] = @ \cup {NewRecord(s, read[t], t)}]
  /\ pc' = [pc EXCEPT ![t] = "update"]
  /\ UNCHANGED <<head, records, holder, scope, read, newHead>>

\* Mutant: last_event_hash is left as it was read.
UpdateHeadSeqOnly(t) ==
  /\ pc[t] = "update"
  /\ newHead' = [newHead EXCEPT ![t][scope[t]] = [read[t] EXCEPT !.next = @ + 1]]
  /\ pc' = [pc EXCEPT ![t] = "open"]
  /\ scope' = [scope EXCEPT ![t] = NoScope]
  /\ read' = [read EXCEPT ![t] = NoHead]
  /\ UNCHANGED <<head, records, holder, newRecs>>

UpdateHead(t) ==
  LET s == scope[t] IN
  /\ pc[t] = "update"
  /\ newHead' = [newHead EXCEPT ![t][s] =
                   [next |-> read[t].next + 1,
                    hash |-> NewRecord(s, read[t], t).hash]]
  /\ pc' = [pc EXCEPT ![t] = "open"]
  /\ scope' = [scope EXCEPT ![t] = NoScope]
  /\ read' = [read EXCEPT ![t] = NoHead]
  /\ UNCHANGED <<head, records, holder, newRecs>>

-----------------------------------------------------------------------------
(* The end of a transaction                                                *)

\* Mutant: the connection goes back to the pool with its locks.
EndKeepingLocks(t) ==
  /\ pc' = [pc EXCEPT ![t] = "idle"]
  /\ read' = [read EXCEPT ![t] = NoHead]
  /\ newHead' = [newHead EXCEPT ![t] = [s \in Scopes |-> NoHead]]
  /\ newRecs' = [newRecs EXCEPT ![t] = [s \in Scopes |-> {}]]
  /\ scope' = [scope EXCEPT ![t] = NoScope]
  /\ UNCHANGED holder

\* The locks are released and the uncommitted versions are gone.
End(t) ==
  /\ pc' = [pc EXCEPT ![t] = "idle"]
  /\ holder' = [s \in Scopes |-> IF holder[s] = t THEN NoTxn ELSE holder[s]]
  /\ read' = [read EXCEPT ![t] = NoHead]
  /\ newHead' = [newHead EXCEPT ![t] = [s \in Scopes |-> NoHead]]
  /\ newRecs' = [newRecs EXCEPT ![t] = [s \in Scopes |-> {}]]
  /\ scope' = [scope EXCEPT ![t] = NoScope]

Commit(t) ==
  /\ pc[t] = "open"
  /\ head' = [s \in Scopes |-> ViewHead(t, s)]
  /\ records' = [s \in Scopes |-> ViewRecords(t, s)]
  /\ End(t)

\* An exception in the caller, a crash of its process, or a lost connection.
Rollback(t) ==
  /\ pc[t] # "idle"
  /\ End(t)
  /\ UNCHANGED <<head, records>>

Waiting(t) ==
  \/ pc[t] = "init" /\ ViewHead(t, scope[t]).next = 0 /\ Locked(t, scope[t])
  \/ pc[t] = "lock" /\ Locked(t, scope[t])

WaitsFor(t, u) == Waiting(t) /\ holder[scope[t]] = u

\* t is on a cycle of transactions that wait for each other.
Deadlocked(t) ==
  \E C \in SUBSET Txns :
    /\ t \in C
    /\ \A u \in C : \E v \in C : WaitsFor(u, v)
    /\ \A v \in C : \E u \in C : WaitsFor(u, v)

\* The database's deadlock detector aborts one transaction of the cycle.
DeadlockAbort(t) ==
  /\ Deadlocked(t)
  /\ End(t)
  /\ UNCHANGED <<head, records>>

\* The bounded workload is over: every chain is as long as the bound allows.
Finished ==
  /\ \A t \in Txns : pc[t] = "idle"
  /\ \A s \in Scopes : Cardinality(records[s]) >= MaxRecords
  /\ UNCHANGED vars

Next ==
  \/ \E t \in Txns :
       \/ \E s \in Scopes : Call(t, s)
       \/ InitHead(t)
       \/ LockHead(t)
       \/ InsertRecord(t)
       \/ UpdateHead(t)
       \/ Commit(t)
       \/ Rollback(t)
       \/ DeadlockAbort(t)
  \/ Finished

\* Statements of a running transaction are executed, row-lock waiters are
\* served in turn, the deadlock detector runs; nothing obliges a caller to
\* begin an append, and nothing prevents it from failing at every attempt.
Fairness ==
  /\ \A t \in Txns :
       /\ SF_vars(InitHead(t)) /\ SF_vars(LockHead(t))
       /\ WF_vars(InsertRecord(t)) /\ WF_vars(UpdateHead(t))
       /\ WF_vars(Commit(t))
  /\ WF_vars(\E t \in Txns : DeadlockAbort(t))

Spec == Init /\ [][Next]_vars
FairSpec == Spec /\ Fairness

-----------------------------------------------------------------------------
(* verify_audit_chain over the rows R of chain s                           *)

\* The row the loop of verify_audit_chain met just before r.
IsPrevious(R, p, r) ==
  /\ p.seq < r.seq
  /\ \A q \in R : q.seq < r.seq => q.seq <= p.seq

IsFirst(R, r) == \A q \in R : q.seq >= r.seq

SeqGap(R, r) ==
  IF IsFirst(R, r) THEN r.seq # 1
  ELSE \E p \in R : IsPrevious(R, p, r) /\ r.seq # p.seq + 1

PrevMismatch(R, r) ==
  IF IsFirst(R, r) THEN r.prev # NoHash
  ELSE \E p \in R : IsPrevious(R, p, r) /\ r.prev # p.hash

\* Mutant: the recomputed hash leaves the payload out.
HashMismatchNoPayload(s, r) ==
  <<r.hash[1], r.hash[2], r.hash[4]>> # <<s, r.seq, r.prev>>
HashMismatch(s, r) == r.hash # EventHash(s, r.seq, r.writer, r.prev)

VerifyOk(s, R) ==
  \A r \in R : ~SeqGap(R, r) /\ ~PrevMismatch(R, r) /\ ~HashMismatch(s, r)

-----------------------------------------------------------------------------
(* Properties                                                              *)

IsHead(h) == DOMAIN h = {"next", "hash"} /\ h.next \in Nat

IsRecord(r) ==
  /\ DOMAIN r = {"seq", "writer", "prev", "hash"}
  /\ r.seq \in Nat \ {0}
  /\ r.writer \in Txns

\* The type invariant; hashes are opaque values.
TypeOK ==
  /\ DOMAIN head = Scopes
  /\ DOMAIN records = Scopes
  /\ \A s \in Scopes : IsHead(head[s]) /\ \A r \in records[s] : IsRecord(r)
  /\ holder \in [Scopes -> Txns \cup {NoTxn}]
  /\ pc \in [Txns -> {"idle", "init", "lock", "insert", "update", "open"}]
  /\ scope \in [Txns -> Scopes \cup {NoScope}]
  /\ DOMAIN read = Txns /\ DOMAIN newHead = Txns /\ DOMAIN newRecs = Txns
  /\ \A t \in Txns :
       /\ IsHead(read[t])
       /\ scope[t] = NoScope <=> pc[t] \in {"idle", "open"}
       /\ DOMAIN newHead[t] = Scopes /\ DOMAIN newRecs[t] = Scopes
       /\ \A s \in Scopes :
            /\ IsHead(newHead[t][s])
            /\ \A r \in newRecs[t][s] : IsRecord(r)

\* Whatever transactions interleave, fail or deadlock, the committed rows of
\* every chain pass verify_audit_chain: no gap, no broken link, no bad hash.
ChainsVerify == \A s \in Scopes : VerifyOk(s, records[s])

\* The INSERT of audit_append never meets a row with its chain_seq: the lock
\* taken by SELECT ... FOR UPDATE makes audit_chain_seq_uq redundant.
NoUniqueViolation == \A t \in Txns : pc[t] = "insert" => ~SeqTaken(t)

\* The copies of the rows R of a chain that an accident outside the program
\* leaves behind: a row before the last one missing, or one row's content
\* replaced.  (A missing tail is not detectable from the rows alone.)
Damaged(R) ==
  {R \ {r} : r \in {q \in R : \E p \in R : p.seq > q.seq}}
    \cup {(R \ {rw[1]}) \cup {[rw[1] EXCEPT !.writer = rw[2]]} :
            rw \in {x \in R \X Txns : x[1].writer # x[2]}}

\* verify_audit_chain reports every such damage to a committed chain.
VerifyRejectsDamage ==
  \A s \in Scopes : \A D \in Damaged(records[s]) : ~VerifyOk(s, D)

\* Every audit_append that has begun ends: its transaction gets through the
\* head lock, or is rolled back; chains locked in opposite orders by two
\* transactions do not leave both waiting.
AppendsEnd == \A t \in Txns : scope[t] # NoScope ~> scope[t] = NoScope
=============================================================================
