-------------------------- MODULE AuditChainProofs --------------------------
(***************************************************************************)
(* What AuditChain guarantees for any number of transactions and chains of *)
(* any length: committed chains verify, damaged ones do not, and the row   *)
(* lock alone keeps sequence numbers unique.                               *)
(***************************************************************************)
EXTENDS AuditChain, TLAPS

\* R and h are the rows and the head of a chain that audit_append built: the
\* rows are numbered 1 .. h.next - 1 without repetition, each links to the
\* one before it, and h carries the hash of the last one.
GoodChain(s, R, h) ==
  /\ \A r \in R : /\ IsRecord(r)
                  /\ r.seq < h.next
                  /\ r.hash = EventHash(s, r.seq, r.writer, r.prev)
  /\ \A n \in Nat : 1 <= n /\ n < h.next => \E r \in R : r.seq = n
  /\ \A r, q \in R : r.seq = q.seq => r = q
  /\ \A r \in R : r.seq = 1 => r.prev = NoHash
  /\ \A r, q \in R : q.seq = r.seq + 1 => q.prev = r.hash
  /\ h.next <= 1 => h.hash = NoHash
  /\ \A r \in R : h.next = r.seq + 1 => h.hash = r.hash

\* The head row t is about to lock, or has read, exists.
HeadExists ==
  \A t \in Txns :
    /\ pc[t] = "lock" => ViewHead(t, scope[t]).next > 0
    /\ pc[t] \in {"insert", "update"} => read[t].next > 0

\* Only the holder of a head's lock has uncommitted versions of its chain,
\* and what it read is still the version it sees.
HolderWrites ==
  \A t \in Txns :
    /\ \A s \in Scopes :
         newHead[t][s].next > 0 \/ newRecs[t][s] # {} => holder[s] = t
    /\ pc[t] \in {"insert", "update"} =>
         /\ holder[scope[t]] = t
         /\ read[t] = ViewHead(t, scope[t])

Adding(t, s) == pc[t] = "update" /\ scope[t] = s

\* Committed chains are good, and so is every chain as a transaction sees it,
\* up to the row whose head update is still to come.
GoodViews ==
  /\ \A s \in Scopes : GoodChain(s, records[s], head[s])
  /\ \A t \in Txns, s \in Scopes :
       IF Adding(t, s)
       THEN \E R : /\ GoodChain(s, R, ViewHead(t, s))
                   /\ ViewRecords(t, s) = R \cup {NewRecord(s, read[t], t)}
       ELSE GoodChain(s, ViewRecords(t, s), ViewHead(t, s))

IInv == TypeOK /\ HeadExists /\ HolderWrites /\ GoodViews

-----------------------------------------------------------------------------
\* Appending the record audit_append builds from the head it read, and
\* advancing the head to it, keeps a chain good.
LEMMA AppendKeepsGood ==
  ASSUME NEW s, NEW R, NEW h, NEW t \in Txns,
         GoodChain(s, R, h), IsHead(h), h.next > 0
  PROVE  GoodChain(s, R \cup {NewRecord(s, h, t)},
                   [next |-> h.next + 1, hash |-> NewRecord(s, h, t).hash])
<1> DEFINE n == NewRecord(s, h, t)
           g == [next |-> h.next + 1, hash |-> n.hash]
<1>1. /\ h.next \in Nat \ {0}
      /\ n = [seq |-> n.seq, writer |-> n.writer, prev |-> n.prev, hash |-> n.hash]
      /\ n.seq = h.next /\ n.writer = t /\ n.prev = h.hash
      /\ n.hash = EventHash(s, h.next, t, h.hash)
      /\ g.next = h.next + 1 /\ g.hash = n.hash
  BY DEF IsHead, NewRecord
<1>2. IsRecord(n)
  BY <1>1 DEF IsRecord
<1> HIDE DEF n, g
<1>3. \A r \in R : r.seq \in Nat /\ r.seq < h.next
  BY DEF GoodChain, IsRecord
<1>4. \A r \in R \cup {n} :
        IsRecord(r) /\ r.seq < g.next /\ r.hash = EventHash(s, r.seq, r.writer, r.prev)
  <2> TAKE r \in R \cup {n}
  <2>1. CASE r \in R
    BY <2>1, <1>1, <1>3 DEF GoodChain
  <2>2. CASE r = n
    BY <2>2, <1>1, <1>2
  <2> QED BY <2>1, <2>2
<1>5. \A m \in Nat : 1 <= m /\ m < g.next => \E r \in R \cup {n} : r.seq = m
  <2> SUFFICES ASSUME NEW m \in Nat, 1 <= m, m < g.next
               PROVE  \E r \in R \cup {n} : r.seq = m
    OBVIOUS
  <2>1. CASE m = h.next
    BY <2>1, <1>1
  <2>2. CASE m < h.next
    BY <2>2 DEF GoodChain
  <2> QED BY <2>1, <2>2, <1>1
<1>6. \A r, q \in R \cup {n} : r.seq = q.seq => r = q
  BY <1>1, <1>3 DEF GoodChain
<1>7. \A r \in R \cup {n} : r.seq = 1 => r.prev = NoHash
  BY <1>1, <1>3 DEF GoodChain
<1>8. \A r, q \in R \cup {n} : q.seq = r.seq + 1 => q.prev = r.hash
  BY <1>1, <1>3 DEF GoodChain
<1>9. /\ g.next <= 1 => g.hash = NoHash
      /\ \A r \in R \cup {n} : g.next = r.seq + 1 => g.hash = r.hash
  BY <1>1, <1>3
<1> QED
  BY <1>4, <1>5, <1>6, <1>7, <1>8, <1>9 DEF GoodChain, n, g

\* The head row a first append inserts fits the empty chain.
LEMMA FreshHeadIsGood ==
  ASSUME NEW s, NEW R, NEW h, GoodChain(s, R, h), IsHead(h), h.next = 0
  PROVE  GoodChain(s, R, FreshHead)
<1>1. R = {}
  BY DEF GoodChain, IsRecord
<1> QED BY <1>1 DEF GoodChain, FreshHead

\* verify_audit_chain reports nothing on a good chain.
LEMMA GoodChainVerifies ==
  ASSUME NEW s, NEW R, NEW h, GoodChain(s, R, h), IsHead(h)
  PROVE  VerifyOk(s, R)
<1> SUFFICES ASSUME NEW r \in R
             PROVE  ~SeqGap(R, r) /\ ~PrevMismatch(R, r) /\ ~HashMismatch(s, r)
  BY DEF VerifyOk
<1>1. /\ h.next \in Nat
      /\ \A q \in R : q.seq \in Nat \ {0} /\ q.seq < h.next
  BY DEF GoodChain, IsRecord, IsHead
<1>2. CASE r.seq = 1
  <2>1. IsFirst(R, r)
    BY <1>1, <1>2 DEF IsFirst
  <2> QED BY <2>1, <1>2 DEF SeqGap, PrevMismatch, HashMismatch, GoodChain
<1>3. CASE r.seq # 1
  <2>1. PICK p \in R : p.seq = r.seq - 1
    <3>1. r.seq - 1 \in Nat /\ 1 <= r.seq - 1 /\ r.seq - 1 < h.next
      BY <1>1, <1>3
    <3> QED BY <3>1 DEF GoodChain
  <2>2. ~IsFirst(R, r)
    BY <1>1, <2>1 DEF IsFirst
  <2>3. \A q \in R : IsPrevious(R, q, r) => q.seq = r.seq - 1
    BY <1>1, <2>1 DEF IsPrevious
  <2>4. \A q \in R : IsPrevious(R, q, r) => r.seq = q.seq + 1
    BY <1>1, <2>3
  <2> QED BY <2>2, <2>4 DEF SeqGap, PrevMismatch, HashMismatch, GoodChain
<1> QED BY <1>2, <1>3

-----------------------------------------------------------------------------
\* A transaction that does not hold the lock of a chain's head has written
\* nothing to the chain.
LEMMA NonHolderSeesCommitted ==
  ASSUME IInv, NEW t \in Txns, NEW s \in Scopes, holder[s] # t
  PROVE  /\ newHead[t][s].next = 0 /\ newRecs[t][s] = {}
         /\ ViewHead(t, s) = head[s] /\ ViewRecords(t, s) = records[s]
<1>1. newHead[t][s].next = 0 /\ newRecs[t][s] = {}
  BY DEF IInv, TypeOK, IsHead, HolderWrites
<1> QED BY <1>1 DEF ViewHead, ViewRecords

LEMMA InitEstablishesIInv == Init => IInv
<1> SUFFICES ASSUME Init PROVE IInv
  OBVIOUS
<1>1. TypeOK
  BY AuditAssumption DEF Init, TypeOK, IsHead, NoHead
<1>2. \A t \in Txns, s \in Scopes :
        /\ ViewHead(t, s) = NoHead
        /\ ViewRecords(t, s) = {}
        /\ ~Adding(t, s)
  BY DEF Init, ViewHead, ViewRecords, NoHead, Adding
<1>3. \A s : GoodChain(s, {}, NoHead)
  BY DEF GoodChain, NoHead
<1>4. HeadExists /\ HolderWrites
  BY DEF Init, HeadExists, HolderWrites, NoHead
<1>5. GoodViews
  BY <1>2, <1>3 DEF Init, GoodViews
<1> QED
  BY <1>1, <1>4, <1>5 DEF IInv

\* The effect of the end of transaction t on what the others see: nothing is
\* left of its versions and locks.
LEMMA EndedTransaction ==
  ASSUME IInv, NEW t \in Txns, End(t)
  PROVE  /\ pc'[t] = "idle"
         /\ \A u \in Txns \ {t} : pc'[u] = pc[u] /\ scope'[u] = scope[u] /\ read'[u] = read[u]
         /\ \A s \in Scopes : /\ newHead'[t][s] = NoHead
                              /\ newRecs'[t][s] = {}
                              /\ holder[s] # t => holder'[s] = holder[s]
         /\ \A u \in Txns \ {t}, s \in Scopes :
              /\ newHead'[u][s] = newHead[u][s]
              /\ newRecs'[u][s] = newRecs[u][s]
  BY DEF IInv, TypeOK, End

LEMMA EndKeepsTypes ==
  ASSUME IInv, NEW t \in Txns, End(t),
         DOMAIN head' = Scopes, DOMAIN records' = Scopes,
         \A s \in Scopes : IsHead(head'[s]),
         \A s \in Scopes : \A r \in records'[s] : IsRecord(r)
  PROVE  TypeOK'
  BY AuditAssumption DEF IInv, TypeOK, End, IsHead, NoHead

LEMMA EndKeepsHolders ==
  ASSUME IInv, NEW t \in Txns, End(t),
         \A u \in Txns \ {t}, s \in Scopes :
           holder[s] # t => ViewHead(u, s)' = ViewHead(u, s),
         \A u \in Txns \ {t}, s \in Scopes :
           ViewHead(u, s).next > 0 => ViewHead(u, s)'.next > 0
  PROVE  HeadExists' /\ HolderWrites'
<1> USE EndedTransaction
<1>1. \A u \in Txns \ {t} : pc[u] \in {"lock", "insert", "update"} => scope[u] \in Scopes
  BY AuditAssumption DEF IInv, TypeOK
<1>2. HeadExists'
  <2> SUFFICES ASSUME NEW u \in Txns
               PROVE  /\ (pc[u] = "lock" => ViewHead(u, scope[u]).next > 0)'
                      /\ (pc[u] \in {"insert", "update"} => read[u].next > 0)'
    BY DEF HeadExists
  <2>1. CASE u = t
    BY <2>1
  <2>2. CASE u # t
    BY <2>2, <1>1 DEF IInv, HeadExists, ViewHead
  <2> QED BY <2>1, <2>2
<1>3. HolderWrites'
  <2> SUFFICES ASSUME NEW u \in Txns
               PROVE  /\ \A s \in Scopes :
                           (newHead[u][s].next > 0 \/ newRecs[u][s] # {} => holder[s] = u)'
                      /\ (pc[u] \in {"insert", "update"} =>
                            /\ holder[scope[u]] = u
                            /\ read[u] = ViewHead(u, scope[u]))'
    BY DEF HolderWrites
  <2>1. CASE u = t
    BY <2>1 DEF NoHead
  <2>2. CASE u # t
    BY <2>2, <1>1 DEF IInv, HolderWrites, ViewHead
  <2> QED BY <2>1, <2>2
<1> QED BY <1>2, <1>3

\* A transaction that is rolled back leaves the committed chains and what the
\* others see unchanged.
LEMMA DiscardKeepsIInv ==
  ASSUME IInv, NEW t \in Txns, End(t), UNCHANGED <<head, records>>
  PROVE  IInv'
<1> USE EndedTransaction
<1>1. TypeOK'
  BY EndKeepsTypes DEF IInv, TypeOK
<1>2. \A u \in Txns \ {t}, s \in Scopes :
        /\ ViewHead(u, s)' = ViewHead(u, s)
        /\ ViewRecords(u, s)' = ViewRecords(u, s)
        /\ Adding(u, s)' = Adding(u, s)
  BY DEF ViewHead, ViewRecords, Adding
<1>3. HeadExists' /\ HolderWrites'
  BY <1>2, EndKeepsHolders
<1>4. GoodViews'
  <2>1. \A s \in Scopes : GoodChain(s, records[s], head[s])'
    BY DEF IInv, GoodViews
  <2>2. ASSUME NEW u \in Txns, NEW s \in Scopes
        PROVE  (IF Adding(u, s)
                THEN \E R : /\ GoodChain(s, R, ViewHead(u, s))
                            /\ ViewRecords(u, s) = R \cup {NewRecord(s, read[u], u)}
                ELSE GoodChain(s, ViewRecords(u, s), ViewHead(u, s)))'
    <3>1. CASE u = t
      <4>1. ~Adding(t, s)' /\ ViewHead(t, s)' = head[s] /\ ViewRecords(t, s)' = records[s]
        BY DEF Adding, ViewHead, ViewRecords, NoHead
      <4> QED BY <3>1, <4>1 DEF IInv, GoodViews
    <3>2. CASE u # t
      BY <3>2, <1>2 DEF IInv, GoodViews
    <3> QED BY <3>1, <3>2
  <2> QED BY <2>1, <2>2 DEF GoodViews
<1> QED BY <1>1, <1>3, <1>4 DEF IInv

\* Committing publishes what the transaction saw of the chains it had locked.
LEMMA CommitKeepsIInv ==
  ASSUME IInv, NEW t \in Txns, Commit(t)
  PROVE  IInv'
<1>0. End(t) /\ pc[t] = "open"
  BY DEF Commit
<1> USE <1>0, EndedTransaction
<1>1. \A s \in Scopes : head'[s] = ViewHead(t, s) /\ records'[s] = ViewRecords(t, s)
  BY DEF Commit
<1>2. \A s \in Scopes : holder[s] # t =>
        ViewHead(t, s) = head[s] /\ ViewRecords(t, s) = records[s]
  BY NonHolderSeesCommitted
<1>3. \A u \in Txns \ {t}, s \in Scopes : holder[s] = t =>
        ViewHead(u, s) = head[s] /\ ViewRecords(u, s) = records[s]
  BY NonHolderSeesCommitted
<1>4. \A u \in Txns \ {t}, s \in Scopes :
        holder[s] # t => /\ ViewHead(u, s)' = ViewHead(u, s)
                         /\ ViewRecords(u, s)' = ViewRecords(u, s)
  BY <1>1, <1>2 DEF ViewHead, ViewRecords
<1>5. TypeOK'
  <2>1. DOMAIN head' = Scopes /\ DOMAIN records' = Scopes
    BY DEF Commit
  <2>2. \A s \in Scopes : IsHead(head'[s])
    BY <1>1 DEF IInv, TypeOK, ViewHead
  <2>3. \A s \in Scopes : \A r \in records'[s] : IsRecord(r)
    BY <1>1 DEF IInv, TypeOK, ViewRecords
  <2> QED BY <2>1, <2>2, <2>3, EndKeepsTypes
<1>6. \A u \in Txns \ {t}, s \in Scopes :
        ViewHead(u, s).next > 0 => ViewHead(u, s)'.next > 0
  <2> SUFFICES ASSUME NEW u \in Txns \ {t}, NEW s \in Scopes, ViewHead(u, s).next > 0
               PROVE  ViewHead(u, s)'.next > 0
    OBVIOUS
  <2>1. CASE holder[s] # t
    BY <2>1, <1>4
  <2>2. CASE holder[s] = t
    <3>1. head[s].next > 0
      BY <2>2, <1>3
    <3>2. head'[s].next > 0
      BY <3>1, <1>1 DEF ViewHead
    <3> QED BY <3>2 DEF ViewHead
  <2> QED BY <2>1, <2>2
<1>7. HeadExists' /\ HolderWrites'
  BY <1>4, <1>6, EndKeepsHolders
<1>8. GoodViews'
  <2>0. \A s \in Scopes : ~Adding(t, s)
    BY DEF Adding
  <2>1. \A s \in Scopes : GoodChain(s, records'[s], head'[s])
    BY <1>1, <2>0 DEF IInv, GoodViews
  <2>2. ASSUME NEW u \in Txns, NEW s \in Scopes
        PROVE  (IF Adding(u, s)
                THEN \E R : /\ GoodChain(s, R, ViewHead(u, s))
                            /\ ViewRecords(u, s) = R \cup {NewRecord(s, read[u], u)}
                ELSE GoodChain(s, ViewRecords(u, s), ViewHead(u, s)))'
    <3>1. CASE u = t \/ holder[s] = t
      <4>1. ~Adding(u, s)'
        BY <3>1 DEF IInv, HolderWrites, Adding
      <4>2. ViewHead(u, s)' = head'[s] /\ ViewRecords(u, s)' = records'[s]
        BY <3>1 DEF IInv, TypeOK, IsHead, HolderWrites, ViewHead, ViewRecords, NoHead
      <4> QED BY <4>1, <4>2, <2>1
    <3>2. CASE u # t /\ holder[s] # t
      <4>1. /\ ViewHead(u, s)' = ViewHead(u, s)
            /\ ViewRecords(u, s)' = ViewRecords(u, s)
            /\ Adding(u, s)' = Adding(u, s)
            /\ read'[u] = read[u]
        BY <3>2, <1>4 DEF Adding
      <4> QED BY <4>1 DEF IInv, GoodViews
    <3> QED BY <3>1, <3>2
  <2> QED BY <2>1, <2>2 DEF GoodViews
<1> QED BY <1>5, <1>7, <1>8 DEF IInv

\* The statements of audit_append, and the call itself.
LEMMA StatementKeepsTypes ==
  ASSUME IInv, NEW t \in Txns,
         \/ \E s \in Scopes : Call(t, s)
         \/ InitHead(t) \/ LockHead(t) \/ InsertRecord(t) \/ UpdateHead(t)
  PROVE  TypeOK'
<1> USE AuditAssumption DEF IInv, TypeOK, IsHead
<1>1. ASSUME NEW s \in Scopes, Call(t, s) PROVE TypeOK'
  BY <1>1 DEF Call
<1>2. CASE InitHead(t)
  <2>1. scope[t] \in Scopes /\ IsHead(FreshHead)
    BY <1>2 DEF InitHead, FreshHead
  <2>2. CASE UNCHANGED <<holder, newHead>>
    BY <1>2, <2>1, <2>2 DEF InitHead
  <2>3. CASE /\ holder' = [holder EXCEPT ![scope[t]] = t]
             /\ newHead' = [newHead EXCEPT ![t][scope[t]] = FreshHead]
    BY <1>2, <2>1, <2>3 DEF InitHead
  <2> QED BY <1>2, <2>2, <2>3 DEF InitHead
<1>3. CASE LockHead(t)
  <2>1. scope[t] \in Scopes
    BY <1>3 DEF LockHead
  <2>2. IsHead(ViewHead(t, scope[t]))
    BY <2>1 DEF ViewHead
  <2> QED BY <1>3, <2>1, <2>2 DEF LockHead
<1>4. CASE InsertRecord(t)
  <2>0. pc[t] = "insert"
    BY <1>4 DEF InsertRecord
  <2>1. scope[t] \in Scopes /\ read[t].next \in Nat \ {0}
    <3>1. scope[t] \in Scopes
      BY <2>0
    <3>2. read[t].next \in Nat
      OBVIOUS
    <3>3. read[t].next > 0
      BY <2>0 DEF HeadExists
    <3> QED BY <3>1, <3>2, <3>3
  <2>2. IsRecord(NewRecord(scope[t], read[t], t))
    BY <2>1 DEF IsRecord, NewRecord
  <2> QED BY <1>4, <2>1, <2>2 DEF InsertRecord
<1>5. CASE UpdateHead(t)
  BY <1>5 DEF UpdateHead, NoHead
<1> QED BY <1>1, <1>2, <1>3, <1>4, <1>5

LEMMA CallKeepsIInv ==
  ASSUME IInv, NEW t \in Txns, NEW s \in Scopes, Call(t, s)
  PROVE  IInv'
<1>1. TypeOK'
  BY StatementKeepsTypes
<1>2. /\ pc'[t] = "init" /\ pc[t] \in {"idle", "open"}
      /\ \A u \in Txns \ {t} : pc'[u] = pc[u] /\ scope'[u] = scope[u]
      /\ UNCHANGED <<head, records, holder, read, newHead, newRecs>>
  BY DEF IInv, TypeOK, Call
<1>3. \A u \in Txns : \A z :
        ViewHead(u, z)' = ViewHead(u, z) /\ ViewRecords(u, z)' = ViewRecords(u, z)
  BY <1>2 DEF ViewHead, ViewRecords
<1>4. \A u \in Txns : \A z : Adding(u, z)' = Adding(u, z)
  BY <1>2 DEF Adding
<1>5. HeadExists'
  BY <1>2, <1>3 DEF IInv, HeadExists
<1>6. HolderWrites'
  BY <1>2, <1>3 DEF IInv, HolderWrites
<1>7. GoodViews'
  BY <1>2, <1>3, <1>4 DEF IInv, GoodViews
<1> QED BY <1>1, <1>5, <1>6, <1>7 DEF IInv

\* One lemma per statement: what the others see is unchanged, and what t sees
\* stays a good chain.
LEMMA InitHeadKeepsIInv ==
  ASSUME IInv, NEW t \in Txns, InitHead(t)
  PROVE  IInv'
<1> DEFINE s == scope[t]
<1>1. TypeOK'
  BY StatementKeepsTypes
<1>2. /\ pc[t] = "init" /\ pc'[t] = "lock" /\ s \in Scopes
      /\ \A u \in Txns \ {t} : pc'[u] = pc[u]
      /\ UNCHANGED <<head, records, scope, read, newRecs>>
  BY AuditAssumption DEF IInv, TypeOK, InitHead
<1>3. \A u \in Txns, z \in Scopes : Adding(u, z)' = Adding(u, z)
  BY <1>2 DEF Adding
<1>4. CASE ViewHead(t, s).next > 0 /\ UNCHANGED <<holder, newHead>>
  <2>1. \A u \in Txns : \A z :
          ViewHead(u, z)' = ViewHead(u, z) /\ ViewRecords(u, z)' = ViewRecords(u, z)
    BY <1>2, <1>4 DEF ViewHead, ViewRecords
  <2>2. HeadExists'
    BY <1>2, <1>4, <2>1 DEF IInv, HeadExists
  <2>3. HolderWrites'
    BY <1>2, <1>4, <2>1 DEF IInv, HolderWrites
  <2>4. GoodViews'
    BY <1>2, <1>3, <2>1 DEF IInv, GoodViews
  <2> QED BY <1>1, <2>2, <2>3, <2>4 DEF IInv
<1>5. CASE /\ ViewHead(t, s).next = 0
           /\ ~Locked(t, s)
           /\ holder' = [holder EXCEPT ![s] = t]
           /\ newHead' = [newHead EXCEPT ![t][s] = FreshHead]
  <2>1. /\ newHead'[t][s] = FreshHead /\ holder'[s] = t
        /\ \A u \in Txns, z \in Scopes : u # t \/ z # s => newHead'[u][z] = newHead[u][z]
        /\ \A z \in Scopes : z # s => holder'[z] = holder[z]
        /\ holder[s] = t \/ holder[s] = NoTxn
    BY <1>2, <1>5 DEF IInv, TypeOK, Locked
  <2>2. \A u \in Txns, z \in Scopes : u # t \/ z # s => ViewHead(u, z)' = ViewHead(u, z)
    BY <1>2, <2>1 DEF ViewHead
  <2>3. \A u \in Txns, z \in Scopes : ViewRecords(u, z)' = ViewRecords(u, z)
    BY <1>2 DEF ViewRecords
  <2>4. ViewHead(t, s)' = FreshHead
    BY <1>2, <2>1 DEF ViewHead, FreshHead
  <2>5. \A u \in Txns \ {t} : pc[u] \in {"lock", "insert", "update"} => scope[u] \in Scopes
    BY AuditAssumption DEF IInv, TypeOK
  <2>6. HeadExists'
    BY <1>2, <2>2, <2>4, <2>5 DEF IInv, HeadExists, FreshHead
  <2>7. \A u \in Txns \ {t} : pc[u] \in {"insert", "update"} => scope[u] # s
    BY <2>1, AuditAssumption DEF IInv, HolderWrites
  <2>8. \A u \in Txns \ {t} : newHead[u][s].next = 0 /\ newRecs[u][s] = {}
    BY <1>2, <2>1, AuditAssumption, NonHolderSeesCommitted
  <2>9. HolderWrites'
    BY <1>2, <2>1, <2>2, <2>5, <2>7, <2>8 DEF IInv, HolderWrites
  <2>10. GoodChain(s, ViewRecords(t, s), FreshHead)
    <3>1. GoodChain(s, ViewRecords(t, s), ViewHead(t, s))
      BY <1>2 DEF IInv, GoodViews, Adding
    <3>2. IsHead(ViewHead(t, s))
      BY <1>2 DEF IInv, TypeOK, ViewHead
    <3> QED BY <3>1, <3>2, <1>5, FreshHeadIsGood
  <2>11. GoodViews'
    <3>1. \A z \in Scopes : GoodChain(z, records[z], head[z])'
      BY <1>2 DEF IInv, GoodViews
    <3>2. ASSUME NEW u \in Txns, NEW z \in Scopes
          PROVE  (IF Adding(u, z)
                  THEN \E R : /\ GoodChain(z, R, ViewHead(u, z))
                              /\ ViewRecords(u, z) = R \cup {NewRecord(z, read[u], u)}
                  ELSE GoodChain(z, ViewRecords(u, z), ViewHead(u, z)))'
      <4>1. CASE u = t /\ z = s
        BY <4>1, <1>2, <2>3, <2>4, <2>10 DEF Adding
      <4>2. CASE u # t \/ z # s
        BY <4>2, <1>2, <1>3, <2>2, <2>3 DEF IInv, GoodViews
      <4> QED BY <4>1, <4>2
    <3> QED BY <3>1, <3>2 DEF GoodViews
  <2> QED BY <1>1, <2>6, <2>9, <2>11 DEF IInv
<1> QED BY <1>4, <1>5 DEF InitHead

LEMMA LockHeadKeepsIInv ==
  ASSUME IInv, NEW t \in Txns, LockHead(t)
  PROVE  IInv'
<1> DEFINE s == scope[t]
<1>1. TypeOK'
  BY StatementKeepsTypes
<1>2. /\ pc[t] = "lock" /\ pc'[t] = "insert" /\ s \in Scopes
      /\ \A u \in Txns \ {t} : pc'[u] = pc[u] /\ read'[u] = read[u]
      /\ read'[t] = ViewHead(t, s) /\ holder'[s] = t
      /\ \A z \in Scopes : z # s => holder'[z] = holder[z]
      /\ holder[s] = t \/ holder[s] = NoTxn
      /\ UNCHANGED <<head, records, scope, newHead, newRecs>>
  BY AuditAssumption DEF IInv, TypeOK, LockHead, Locked
<1>3. \A u \in Txns : \A z :
        ViewHead(u, z)' = ViewHead(u, z) /\ ViewRecords(u, z)' = ViewRecords(u, z)
  BY <1>2 DEF ViewHead, ViewRecords
<1>4. \A u \in Txns : \A z : Adding(u, z)' = Adding(u, z)
  BY <1>2 DEF Adding
<1>5. HeadExists'
  BY <1>2, <1>3 DEF IInv, HeadExists
<1>6. \A u \in Txns \ {t} : /\ pc[u] \in {"insert", "update"} => scope[u] # s
                            /\ pc[u] \in {"insert", "update"} => scope[u] \in Scopes
                            /\ newHead[u][s].next = 0 /\ newRecs[u][s] = {}
  BY <1>2, AuditAssumption, NonHolderSeesCommitted DEF IInv, TypeOK, HolderWrites
<1>7. HolderWrites'
  BY <1>2, <1>3, <1>6 DEF IInv, HolderWrites
<1>8. GoodViews'
  BY <1>2, <1>3, <1>4 DEF IInv, GoodViews, Adding
<1> QED BY <1>1, <1>5, <1>7, <1>8 DEF IInv

LEMMA InsertRecordKeepsIInv ==
  ASSUME IInv, NEW t \in Txns, InsertRecord(t)
  PROVE  IInv'
<1> DEFINE s == scope[t]
           n == NewRecord(s, read[t], t)
<1>1. TypeOK'
  BY StatementKeepsTypes
<1>2. /\ pc[t] = "insert" /\ pc'[t] = "update" /\ s \in Scopes
      /\ \A u \in Txns \ {t} : pc'[u] = pc[u]
      /\ newRecs'[t][s] = newRecs[t][s] \cup {n}
      /\ \A u \in Txns, z \in Scopes : u # t \/ z # s => newRecs'[u][z] = newRecs[u][z]
      /\ UNCHANGED <<head, records, holder, scope, read, newHead>>
  BY AuditAssumption DEF IInv, TypeOK, InsertRecord
<1>3. holder[s] = t /\ read[t] = ViewHead(t, s)
  BY <1>2 DEF IInv, HolderWrites
<1>4. \A u \in Txns : \A z : ViewHead(u, z)' = ViewHead(u, z)
  BY <1>2 DEF ViewHead
<1>5. \A u \in Txns, z \in Scopes : u # t \/ z # s =>
        ViewRecords(u, z)' = ViewRecords(u, z) /\ Adding(u, z)' = Adding(u, z)
  BY <1>2 DEF ViewRecords, Adding
<1>6. HeadExists'
  BY <1>2, <1>4 DEF IInv, HeadExists
<1>7. HolderWrites'
  BY <1>2, <1>3, <1>4 DEF IInv, HolderWrites
<1>8. Adding(t, s)' /\ ~Adding(t, s)
  BY <1>2 DEF Adding
<1>9. /\ GoodChain(s, ViewRecords(t, s), ViewHead(t, s)')
      /\ ViewRecords(t, s)' = ViewRecords(t, s) \cup {NewRecord(s, read'[t], t)}
  BY <1>2, <1>4, <1>8 DEF IInv, GoodViews, ViewRecords
<1>10. GoodViews'
  <2>1. \A z \in Scopes : GoodChain(z, records[z], head[z])'
    BY <1>2 DEF IInv, GoodViews
  <2>2. ASSUME NEW u \in Txns, NEW z \in Scopes
        PROVE  (IF Adding(u, z)
                THEN \E R : /\ GoodChain(z, R, ViewHead(u, z))
                            /\ ViewRecords(u, z) = R \cup {NewRecord(z, read[u], u)}
                ELSE GoodChain(z, ViewRecords(u, z), ViewHead(u, z)))'
    <3>1. CASE u = t /\ z = s
      BY <3>1, <1>2, <1>8, <1>9
    <3>2. CASE u # t \/ z # s
      BY <3>2, <1>2, <1>4, <1>5 DEF IInv, GoodViews
    <3> QED BY <3>1, <3>2
  <2> QED BY <2>1, <2>2 DEF GoodViews
<1> QED BY <1>1, <1>6, <1>7, <1>10 DEF IInv

LEMMA UpdateHeadKeepsIInv ==
  ASSUME IInv, NEW t \in Txns, UpdateHead(t)
  PROVE  IInv'
<1> DEFINE s == scope[t]
           h == [next |-> read[t].next + 1, hash |-> NewRecord(s, read[t], t).hash]
<1>1. TypeOK'
  BY StatementKeepsTypes
<1>2. /\ pc[t] = "update" /\ pc'[t] = "open" /\ s \in Scopes
      /\ \A u \in Txns \ {t} : pc'[u] = pc[u] /\ scope'[u] = scope[u] /\ read'[u] = read[u]
      /\ newHead'[t][s] = h
      /\ \A u \in Txns, z \in Scopes : u # t \/ z # s => newHead'[u][z] = newHead[u][z]
      /\ UNCHANGED <<head, records, holder, newRecs>>
  BY AuditAssumption DEF IInv, TypeOK, UpdateHead
<1>3. /\ holder[s] = t /\ read[t] = ViewHead(t, s)
      /\ read[t].next \in Nat \ {0} /\ IsHead(read[t])
  BY <1>2 DEF IInv, HolderWrites, HeadExists, TypeOK, IsHead
<1>4. \A u \in Txns, z \in Scopes : u # t \/ z # s => ViewHead(u, z)' = ViewHead(u, z)
  BY <1>2 DEF ViewHead
<1>5. \A u \in Txns : \A z : ViewRecords(u, z)' = ViewRecords(u, z)
  BY <1>2 DEF ViewRecords
<1>6. \A u \in Txns \ {t} : \A z : Adding(u, z)' = Adding(u, z)
  BY <1>2 DEF Adding
<1>7. \A u \in Txns \ {t} :
        /\ pc[u] \in {"lock", "insert", "update"} => scope[u] \in Scopes
        /\ pc[u] \in {"insert", "update"} => scope[u] # s
  BY <1>2, <1>3, AuditAssumption DEF IInv, TypeOK, HolderWrites
<1>8. HeadExists'
  BY <1>2, <1>4, <1>7 DEF IInv, HeadExists
<1>9. HolderWrites'
  BY <1>2, <1>3, <1>4, <1>7 DEF IInv, HolderWrites
<1>10. Adding(t, s) /\ \A z : ~Adding(t, z)'
  BY <1>2 DEF Adding
<1>11. \A z \in Scopes \ {s} : ~Adding(t, z)
  BY <1>2 DEF Adding
<1>12. GoodChain(s, ViewRecords(t, s), h)
  <2>1. PICK R : /\ GoodChain(s, R, read[t])
                 /\ ViewRecords(t, s) = R \cup {NewRecord(s, read[t], t)}
    BY <1>2, <1>3, <1>10 DEF IInv, GoodViews
  <2> QED BY <2>1, <1>3, AppendKeepsGood
<1>13. h.next > 0
  BY <1>3
<1>14. newHead'[t][s].next > 0 /\ newHead'[t][s] = h
  BY <1>2, <1>13
<1> HIDE DEF h
<1>15. GoodViews'
  <2>1. \A z \in Scopes : GoodChain(z, records[z], head[z])'
    BY <1>2 DEF IInv, GoodViews
  <2>2. ASSUME NEW u \in Txns, NEW z \in Scopes
        PROVE  (IF Adding(u, z)
                THEN \E R : /\ GoodChain(z, R, ViewHead(u, z))
                            /\ ViewRecords(u, z) = R \cup {NewRecord(z, read[u], u)}
                ELSE GoodChain(z, ViewRecords(u, z), ViewHead(u, z)))'
    <3>1. CASE u = t /\ z = s
      <4>1. ViewHead(u, z)' = h
        BY <3>1, <1>14 DEF ViewHead
      <4> QED BY <3>1, <4>1, <1>5, <1>10, <1>12
    <3>2. CASE u = t /\ z # s
      BY <3>2, <1>4, <1>5, <1>10, <1>11 DEF IInv, GoodViews
    <3>3. CASE u # t
      BY <3>3, <1>2, <1>4, <1>5, <1>6 DEF IInv, GoodViews
    <3> QED BY <3>1, <3>2, <3>3
  <2> QED BY <2>1, <2>2 DEF GoodViews
<1> QED BY <1>1, <1>8, <1>9, <1>15 DEF IInv

LEMMA StutterKeepsIInv == IInv /\ UNCHANGED vars => IInv'
<1> SUFFICES ASSUME IInv, UNCHANGED vars PROVE IInv'
  OBVIOUS
<1>1. TypeOK'
  BY DEF vars, IInv, TypeOK
<1>2. /\ \A u, z : ViewHead(u, z)' = ViewHead(u, z) /\ ViewRecords(u, z)' = ViewRecords(u, z)
      /\ \A u, z : Adding(u, z)' = Adding(u, z)
  BY DEF vars, ViewHead, ViewRecords, Adding
<1>3. HeadExists' /\ HolderWrites'
  BY <1>2 DEF vars, IInv, HeadExists, HolderWrites
<1>4. GoodViews'
  BY <1>2 DEF vars, IInv, GoodViews
<1> QED BY <1>1, <1>3, <1>4 DEF IInv

\* The inductive invariant: it holds of every reachable state.
THEOREM InductiveInvariant == Spec => []IInv
<1>1. Init => IInv
  BY InitEstablishesIInv
<1>2. IInv /\ [Next]_vars => IInv'
  <2> SUFFICES ASSUME IInv, [Next]_vars PROVE IInv'
    OBVIOUS
  <2>1. ASSUME NEW t \in Txns, NEW s \in Scopes, Call(t, s) PROVE IInv'
    BY <2>1, CallKeepsIInv
  <2>2. ASSUME NEW t \in Txns, InitHead(t) PROVE IInv'
    BY <2>2, InitHeadKeepsIInv
  <2>3. ASSUME NEW t \in Txns, LockHead(t) PROVE IInv'
    BY <2>3, LockHeadKeepsIInv
  <2>4. ASSUME NEW t \in Txns, InsertRecord(t) PROVE IInv'
    BY <2>4, InsertRecordKeepsIInv
  <2>5. ASSUME NEW t \in Txns, UpdateHead(t) PROVE IInv'
    BY <2>5, UpdateHeadKeepsIInv
  <2>6. ASSUME NEW t \in Txns, Commit(t) PROVE IInv'
    BY <2>6, CommitKeepsIInv
  <2>7. ASSUME NEW t \in Txns, Rollback(t) PROVE IInv'
    BY <2>7, DiscardKeepsIInv DEF Rollback
  <2>8. ASSUME NEW t \in Txns, DeadlockAbort(t) PROVE IInv'
    BY <2>8, DiscardKeepsIInv DEF DeadlockAbort
  <2>9. CASE Finished \/ UNCHANGED vars
    BY <2>9, StutterKeepsIInv DEF Finished
  <2> QED
    BY <2>1, <2>2, <2>3, <2>4, <2>5, <2>6, <2>7, <2>8, <2>9 DEF Next
<1> QED BY <1>1, <1>2, PTL DEF Spec

\* Every variable keeps its type.
THEOREM TypeCorrect == Spec => []TypeOK
<1>1. IInv => TypeOK
  BY DEF IInv
<1> QED BY <1>1, InductiveInvariant, PTL

\* Whatever the number of transactions and chains, however they interleave,
\* fail or deadlock, verify_audit_chain finds nothing wrong with any chain.
THEOREM CommittedChainsVerify == Spec => []ChainsVerify
<1>1. IInv => ChainsVerify
  BY GoodChainVerifies DEF IInv, TypeOK, GoodViews, ChainsVerify
<1> QED BY <1>1, InductiveInvariant, PTL

\* No INSERT of audit_append ever violates audit_chain_seq_uq.
THEOREM SequenceNumbersUnique == Spec => []NoUniqueViolation
<1>1. IInv => NoUniqueViolation
  <2> SUFFICES ASSUME IInv, NEW t \in Txns, pc[t] = "insert", SeqTaken(t)
               PROVE  FALSE
    BY DEF NoUniqueViolation
  <2>1. /\ scope[t] \in Scopes /\ holder[scope[t]] = t
        /\ read[t] = ViewHead(t, scope[t])
    BY AuditAssumption DEF IInv, TypeOK, HolderWrites
  <2>2. PICK u \in Txns : \E r \in ViewRecords(u, scope[t]) : r.seq = read[t].next
    BY DEF SeqTaken
  <2>3. ViewRecords(u, scope[t]) \subseteq ViewRecords(t, scope[t])
    BY <2>1, NonHolderSeesCommitted DEF ViewRecords
  <2>4. \A r \in ViewRecords(t, scope[t]) : r.seq \in Nat /\ r.seq < read[t].next
    BY <2>1 DEF IInv, GoodViews, GoodChain, IsRecord, Adding
  <2>5. read[t].next \in Nat
    BY DEF IInv, TypeOK, IsHead
  <2> QED BY <2>2, <2>3, <2>4, <2>5
<1> QED BY <1>1, InductiveInvariant, PTL

\* A chain without a row before its last one has a gap where the row was.
LEMMA MissingRowIsFound ==
  ASSUME NEW s, NEW R, NEW h, GoodChain(s, R, h), IsHead(h),
         NEW r \in R, NEW last \in R, last.seq > r.seq
  PROVE  ~VerifyOk(s, R \ {r})
<1> DEFINE D == R \ {r}
<1>1. /\ h.next \in Nat
      /\ \A q \in R : q.seq \in Nat \ {0} /\ q.seq < h.next
      /\ \A q \in R : q.seq = r.seq => q = r
  BY DEF GoodChain, IsRecord, IsHead
<1>2. PICK next \in R : next.seq = r.seq + 1
  <2>1. r.seq + 1 \in Nat /\ 1 <= r.seq + 1 /\ r.seq + 1 < h.next
    BY <1>1
  <2> QED BY <2>1 DEF GoodChain
<1>3. next \in D /\ \A q \in D : q \in R /\ q.seq # r.seq
  BY <1>1, <1>2
<1> HIDE DEF D
<1>4. SeqGap(D, next)
  <2>1. CASE r.seq = 1
    <3>1. IsFirst(D, next)
      BY <1>1, <1>2, <1>3, <2>1 DEF IsFirst
    <3> QED BY <1>2, <2>1, <3>1 DEF SeqGap
  <2>2. CASE r.seq # 1
    <3>1. PICK p \in R : p.seq = r.seq - 1
      <4>1. r.seq - 1 \in Nat /\ 1 <= r.seq - 1 /\ r.seq - 1 < h.next
        BY <1>1, <2>2
      <4> QED BY <4>1 DEF GoodChain
    <3>2. p \in D
      BY <1>1, <3>1 DEF D
    <3>3. ~IsFirst(D, next) /\ IsPrevious(D, p, next) /\ next.seq # p.seq + 1
      BY <1>1, <1>2, <1>3, <3>1, <3>2 DEF IsFirst, IsPrevious
    <3> QED BY <3>2, <3>3 DEF SeqGap
  <2> QED BY <2>1, <2>2
<1> QED BY <1>3, <1>4 DEF VerifyOk, D

\* A row whose payload is replaced no longer has the hash of what it says.
LEMMA ReplacedPayloadIsFound ==
  ASSUME NEW s, NEW R, NEW h, GoodChain(s, R, h), NEW r \in R, NEW w \in Txns, r.writer # w
  PROVE  ~VerifyOk(s, (R \ {r}) \cup {[r EXCEPT !.writer = w]})
<1> DEFINE q == [r EXCEPT !.writer = w]
<1>1. IsRecord(r) /\ r.hash = EventHash(s, r.seq, r.writer, r.prev)
  BY DEF GoodChain
<1>2. q.seq = r.seq /\ q.writer = w /\ q.prev = r.prev /\ q.hash = r.hash
  BY <1>1 DEF IsRecord
<1> HIDE DEF q
<1>3. HashMismatch(s, q)
  BY <1>1, <1>2 DEF HashMismatch, EventHash
<1> QED BY <1>3 DEF VerifyOk, q

\* verify_audit_chain reports a committed chain of any length in which a row
\* before the last one is missing or one row's payload is replaced
\* (audit.py, verify_audit_chain).
THEOREM DamageIsRejected == Spec => []VerifyRejectsDamage
<1>1. IInv => VerifyRejectsDamage
  <2> SUFFICES ASSUME IInv, NEW s \in Scopes, NEW D \in Damaged(records[s])
               PROVE  ~VerifyOk(s, D)
    BY DEF VerifyRejectsDamage
  <2> DEFINE R == records[s]
             h == head[s]
  <2>1. GoodChain(s, R, h) /\ IsHead(h)
    BY DEF IInv, GoodViews, TypeOK
  <2>2. \/ \E r, last \in R : last.seq > r.seq /\ D = R \ {r}
        \/ \E r \in R, w \in Txns :
             r.writer # w /\ D = (R \ {r}) \cup {[r EXCEPT !.writer = w]}
    BY DEF Damaged
  <2> HIDE DEF R, h
  <2>3. CASE \E r, last \in R : last.seq > r.seq /\ D = R \ {r}
    <3>1. PICK r \in R, last \in R : last.seq > r.seq /\ D = R \ {r}
      BY <2>3
    <3>2. ~VerifyOk(s, R \ {r})
      BY <2>1, <3>1, MissingRowIsFound
    <3> QED BY <3>1, <3>2
  <2>4. CASE \E r \in R, w \in Txns :
               r.writer # w /\ D = (R \ {r}) \cup {[r EXCEPT !.writer = w]}
    <3>1. PICK r \in R, w \in Txns :
                 r.writer # w /\ D = (R \ {r}) \cup {[r EXCEPT !.writer = w]}
      BY <2>4
    <3>2. ~VerifyOk(s, (R \ {r}) \cup {[r EXCEPT !.writer = w]})
      BY <2>1, <3>1, ReplacedPayloadIsFound
    <3> QED BY <3>1, <3>2
  <2> QED BY <2>2, <2>3, <2>4
<1> QED BY <1>1, InductiveInvariant, PTL
=============================================================================
