------------------------- MODULE ClaimLedgerProofs -------------------------
(***************************************************************************)
(* For any claims, spans, losses and consumers, and any partial commits,   *)
(* crashes and deadlocks:                                                  *)
(*                                                                         *)
(* - The committed versions of a claim are 1, 2, ... without a gap or a    *)
(*   double, a propagation never meets a version that is taken, and a lost *)
(*   claim stays lost.  Of a claim only one transaction at a time has      *)
(*   uncommitted versions, the one with its lock, and those continue the   *)
(*   committed ones (IInv).                                                *)
(*                                                                         *)
(* - Records and audits of a loss are written once, and an answer is not   *)
(*   published on entries a loss supersedes, nor unseen by a propagation   *)
(*   that supersedes them.  A propagation that has lost entries to commit  *)
(*   holds the head of the task's audit chain, as does the pipeline from   *)
(*   its gate to its commit (RecordsInv).                                  *)
(***************************************************************************)
EXTENDS ClaimLedger, NaturalsLemmas, FunctionTheorems, SequenceTheorems, TLAPS

\* S holds the versions 1 .. n of a claim: a candidate, then what supersedes
\* it, a lost one at the end only.
Good(S, n) ==
  /\ {e.version : e \in S} = 1 .. n
  /\ \A e, d \in S : e.version = d.version => e = d
  /\ \A e \in S : e.parent = e.version - 1
  /\ \A e \in S : e.version = 1 => e.state = "candidate"
  /\ \A e \in S : e.state = "source_lost" => e.version = n

Chain(S) == \E n \in Nat : Good(S, n)

Committed(c) == EntriesOf(ledger, c)
Own(w, c) == EntriesOf(mine[w].ledger, c)

Fields == {"ledger", "records", "trail"}

Shape ==
  /\ DOMAIN mine = Workers /\ \A w \in Workers : DOMAIN mine[w] = Fields
  /\ DOMAIN pc = Workers
  /\ DOMAIN todo = Losers /\ DOMAIN seen = Losers /\ DOMAIN forUpdate = Claims

Chains == \A c \in Claims : Chain(Committed(c))
Views == \A w \in Workers, c \in Claims : Chain(Committed(c) \cup Own(w, c))

\* The pipeline has versions of a new claim, or of one its inserts have locked.
PipeOwns == \A c \in Claims : Own(Pipe, c) # {} => Committed(c) = {} \/ c \in keyShare

\* A propagation has versions of claims it has locked.
LoserOwns == \A w \in Losers, c \in Claims : Own(w, c) # {} => forUpdate[c] = w

\* A claim a propagation has locked was committed, and the pipeline has not
\* locked it.
Locks ==
  \A c \in Claims, w \in Losers : forUpdate[c] = w => c \notin keyShare /\ Committed(c) # {}

\* What a propagation has still to handle is committed and not yet written by it.
ToDo ==
  \A w \in Losers :
    /\ todo[w] \subseteq Claims
    /\ \A c \in todo[w] :
         /\ Committed(c) # {}
         /\ pc[w] # "audit" \/ c # Current(w) => Own(w, c) = {}
    /\ pc[w] = "idle" => \A c \in Claims : Own(w, c) = {}

\* What a propagation read of a claim it is about to append to is still so.
Reading ==
  \A w \in Losers : pc[w] = "append" =>
    /\ Current(w) \in todo[w] /\ forUpdate[Current(w)] = w
    /\ seen[w] \in Nat /\ Good(Committed(Current(w)), seen[w])
    /\ \A e \in Committed(Current(w)) : e.state # "source_lost"

\* A claim that is verified has been extracted.
Extracted ==
  pc[Pipe] = "verify" => \A c \in Claims : Committed(c) \cup Own(Pipe, c) # {}

\* Only claims of the task are lost.
LostAreClaims ==
  \A w \in Workers : \A e \in ledger \cup mine[w].ledger :
    e.state = "source_lost" => e.claim \in Claims

IInv ==
  /\ Shape /\ Chains /\ Views /\ PipeOwns /\ LoserOwns /\ Locks /\ ToDo /\ Reading
  /\ Extracted /\ LostAreClaims

-----------------------------------------------------------------------------
(* Facts about chains                                                      *)

LEMMA EmptyIsGood == Good({}, 0)
  BY DEF Good

LEMMA NonEmptyGood ==
  ASSUME NEW S, NEW n \in Nat, Good(S, n), S # {}
  PROVE  n >= 1
<1>1. PICK e \in S : TRUE
  OBVIOUS
<1>2. e.version \in 1 .. n
  BY DEF Good
<1> QED
  BY <1>2

LEMMA NextVersion ==
  ASSUME NEW S, NEW n \in Nat, Good(S, n), n >= 1,
         \A e \in S : e.state # "source_lost",
         NEW x, x.version = n + 1, x.parent = n
  PROVE  Good(S \cup {x}, n + 1)
<1> DEFINE T == S \cup {x}
<1>1. \A e \in S : e.version \in 1 .. n
  BY DEF Good
<1>2. {e.version : e \in T} = 1 .. n + 1
  <2>1. \A v \in 1 .. n : \E e \in S : e.version = v
    BY DEF Good
  <2> QED
    BY <1>1, <2>1
<1>3. \A e, d \in T : e.version = d.version => e = d
  BY <1>1 DEF Good
<1>4. \A e \in T : e.parent = e.version - 1
  BY DEF Good
<1> QED
  BY <1>1, <1>2, <1>3, <1>4 DEF Good

\* The latest entry is the one with version n.
LEMMA LatestIsLast ==
  ASSUME NEW rows, NEW c, NEW n \in Nat, Good(EntriesOf(rows, c), n),
         EntriesOf(rows, c) # {}
  PROVE  Latest(rows, c) \in EntriesOf(rows, c) /\ Latest(rows, c).version = n
<1> DEFINE S == EntriesOf(rows, c)
<1>1. n >= 1
  BY NonEmptyGood
<1>2. \A e \in S : e.version \in 1 .. n
  BY DEF Good
<1>3. PICK l \in S : l.version = n
  BY <1>1 DEF Good
<1>4. Latest(rows, c) = CHOOSE e \in S : \A d \in S : d.version <= e.version
  BY DEF Latest
<1>5. \A d \in S : d.version <= l.version
  BY <1>2, <1>3
<1> HIDE DEF S
<1>6. /\ Latest(rows, c) \in S
      /\ \A d \in S : d.version <= Latest(rows, c).version
  BY <1>3, <1>4, <1>5
<1>7. l.version <= Latest(rows, c).version /\ Latest(rows, c).version \in 1 .. n
  BY <1>2, <1>3, <1>6
<1> QED
  BY <1>3, <1>6, <1>7 DEF S

LEMMA EmptyOwn == \A c : EntriesOf({}, c) = {}
  BY DEF EntriesOf

LEMMA UnionEntries ==
  \A a, b, c : EntriesOf(a \cup b, c) = EntriesOf(a, c) \cup EntriesOf(b, c)
  BY DEF EntriesOf

LEMMA WorkersAre == /\ Losers \subseteq Workers /\ Pipe \in Workers /\ Pipe \notin Losers
                    /\ Workers = Losers \cup {Pipe}
                    /\ Nobody \notin Workers
  BY LedgerAssumption DEF Workers

LEMMA CurrentIs ==
  ASSUME NEW w, todo[w] \subseteq Nat, NEW c \in todo[w], \A d \in todo[w] : c <= d
  PROVE  Current(w) = c
<1>1. /\ Current(w) \in todo[w]
      /\ \A d \in todo[w] : Current(w) <= d
  BY DEF Current
<1> QED
  BY <1>1

LEMMA InitIInv == Init => IInv
<1> SUFFICES ASSUME Init PROVE IInv
  OBVIOUS
<1>1. /\ \A c : Committed(c) = {}
      /\ \A w \in Workers, c \in Claims : Own(w, c) = {}
  BY EmptyOwn DEF Init, Committed, Own, Empty
<1>2. Chains /\ Views
  BY <1>1, EmptyIsGood DEF Chains, Views, Chain
<1>3. Shape
  BY DEF Init, Shape, Empty, Fields
<1>4. PipeOwns /\ LoserOwns
  BY <1>1, WorkersAre DEF PipeOwns, LoserOwns
<1>5. Locks /\ ToDo /\ Reading /\ Extracted /\ LostAreClaims
  BY <1>1, WorkersAre DEF Init, Locks, ToDo, Reading, Extracted, LostAreClaims, Empty
<1> QED
  BY <1>2, <1>3, <1>4, <1>5 DEF IInv

-----------------------------------------------------------------------------
(* The effects a step can have on entries, locks and plans                 *)

SameEntries == ledger' = ledger /\ \A w \in Workers : mine'[w].ledger = mine[w].ledger

OthersAsBefore(w) ==
  \A v \in Losers \ {w} : pc'[v] = pc[v] /\ todo'[v] = todo[v] /\ seen'[v] = seen[v]

\* The pipeline goes on, locking at most claims no propagation has locked.
PipeMoves ==
  /\ SameEntries
  /\ UNCHANGED <<todo, seen, forUpdate>>
  /\ keyShare \subseteq keyShare'
  /\ \A c \in keyShare' \ keyShare : c \in Claims => forUpdate[c] = Nobody
  /\ \A w \in Losers : pc'[w] = pc[w]
  /\ pc'[Pipe] = "verify" => pc[Pipe] = "verify"

\* Propagation w goes on.
LoserMoves(w) ==
  /\ SameEntries
  /\ UNCHANGED <<forUpdate, keyShare>>
  /\ OthersAsBefore(w) /\ pc'[Pipe] = pc[Pipe]
  /\ \A c \in todo'[w] : c \in Claims /\ Committed(c) # {} /\ Own(w, c) = {}
  /\ pc'[w] \notin {"idle", "append", "audit"}

\* Transaction w is over: its entries are committed or dropped.
Ends(w) ==
  /\ ledger' \in {ledger, ledger \cup mine[w].ledger}
  /\ \A v \in Workers : mine'[v].ledger = IF v = w THEN {} ELSE mine[v].ledger
  /\ pc'[w] = "idle"
  /\ \A v \in Workers \ {w} : pc'[v] = pc[v]

PipeEnds == Ends(Pipe) /\ keyShare' = {} /\ UNCHANGED <<todo, seen, forUpdate>>

LoserEnds(w) ==
  /\ Ends(w) /\ OthersAsBefore(w) /\ todo'[w] = {}
  /\ \A c \in Claims : forUpdate'[c] = IF forUpdate[c] = w THEN Nobody ELSE forUpdate[c]
  /\ UNCHANGED keyShare

LEMMA SameRows ==
  ASSUME SameEntries
  PROVE  /\ \A c : Committed(c)' = Committed(c)
         /\ \A w \in Workers, c \in Claims : Own(w, c)' = Own(w, c)
  BY DEF SameEntries, Committed, Own

LEMMA SameChains ==
  ASSUME IInv, SameEntries
  PROVE  Chains' /\ Views' /\ LostAreClaims'
<1>1. Chains' /\ Views'
  BY SameRows DEF IInv, Chains, Views
<1>2. LostAreClaims'
  BY DEF IInv, LostAreClaims, SameEntries
<1> QED
  BY <1>1, <1>2

LEMMA PipeMovesIInv ==
  ASSUME IInv, Shape', PipeMoves
  PROVE  IInv'
<1>1. /\ \A c : Committed(c)' = Committed(c)
      /\ \A w \in Workers, c \in Claims : Own(w, c)' = Own(w, c)
      /\ Chains' /\ Views' /\ LostAreClaims'
  BY SameRows, SameChains DEF PipeMoves
<1>2. \A w \in Losers : Current(w)' = Current(w)
  BY DEF PipeMoves, Current
<1>3. PipeOwns' /\ LoserOwns'
  BY <1>1, WorkersAre DEF PipeMoves, IInv, PipeOwns, LoserOwns
<1>4. Locks'
  BY <1>1, WorkersAre DEF PipeMoves, IInv, Locks
<1>5. ToDo'
  BY <1>1, <1>2, WorkersAre DEF PipeMoves, IInv, ToDo
<1>6. Reading'
  BY <1>1, <1>2 DEF PipeMoves, IInv, Reading
<1>7. Extracted'
  BY <1>1, WorkersAre DEF PipeMoves, IInv, Extracted
<1> QED
  BY <1>1, <1>3, <1>4, <1>5, <1>6, <1>7 DEF IInv

LEMMA LoserMovesIInv ==
  ASSUME IInv, Shape', NEW w \in Losers, LoserMoves(w)
  PROVE  IInv'
<1>1. /\ \A c : Committed(c)' = Committed(c)
      /\ \A v \in Workers, c \in Claims : Own(v, c)' = Own(v, c)
      /\ Chains' /\ Views' /\ LostAreClaims'
  BY SameRows, SameChains DEF LoserMoves
<1>2. \A v \in Losers \ {w} : Current(v)' = Current(v)
  BY DEF LoserMoves, OthersAsBefore, Current
<1>3. PipeOwns' /\ LoserOwns' /\ Locks'
  BY <1>1, WorkersAre DEF LoserMoves, IInv, PipeOwns, LoserOwns, Locks
<1>4. ToDo'
  <2> SUFFICES ASSUME NEW v \in Losers
               PROVE  /\ todo'[v] \subseteq Claims
                      /\ \A c \in todo'[v] :
                           /\ Committed(c)' # {}
                           /\ pc'[v] # "audit" \/ c # Current(v)' => Own(v, c)' = {}
                      /\ pc'[v] = "idle" => \A c \in Claims : Own(v, c)' = {}
    BY DEF ToDo
  <2>1. CASE v = w
    BY <1>1, <2>1, WorkersAre DEF LoserMoves
  <2>2. CASE v # w
    BY <1>1, <1>2, <2>2, WorkersAre DEF LoserMoves, OthersAsBefore, IInv, ToDo
  <2> QED
    BY <2>1, <2>2
<1>5. Reading'
  <2> SUFFICES ASSUME NEW v \in Losers, pc'[v] = "append"
               PROVE  /\ Current(v)' \in todo'[v] /\ forUpdate'[Current(v)'] = v
                      /\ seen'[v] \in Nat /\ Good(Committed(Current(v)'), seen'[v])
                      /\ \A e \in Committed(Current(v)') : e.state # "source_lost"
    BY <1>1 DEF Reading
  <2>1. v # w
    BY DEF LoserMoves
  <2> QED
    BY <1>2, <2>1 DEF LoserMoves, OthersAsBefore, IInv, Reading
<1>6. Extracted'
  BY <1>1, WorkersAre DEF LoserMoves, IInv, Extracted
<1> QED
  BY <1>1, <1>3, <1>4, <1>5, <1>6 DEF IInv

\* What a transaction has written of a claim is all that is not committed.
LEMMA OneWriter ==
  ASSUME IInv, NEW c \in Claims, NEW w \in Workers, NEW v \in Workers, w # v,
         Own(w, c) # {}
  PROVE  Own(v, c) = {}
  BY WorkersAre DEF IInv, PipeOwns, LoserOwns, Locks

\* What the end of a transaction does to the entries of a claim.
LEMMA EndRows ==
  ASSUME NEW w \in Workers, Ends(w), NEW c
  PROVE  /\ Committed(c)' \in {Committed(c), Committed(c) \cup Own(w, c)}
         /\ Own(w, c)' = {}
         /\ \A v \in Workers \ {w} : Own(v, c)' = Own(v, c)
  BY UnionEntries, EmptyOwn DEF Ends, Committed, Own

LEMMA EndChains ==
  ASSUME IInv, NEW w \in Workers, Ends(w)
  PROVE  Chains' /\ Views' /\ LostAreClaims'
<1>1. \A c \in Claims : Committed(c)' \in {Committed(c), Committed(c) \cup Own(w, c)}
  BY EndRows
<1>2. Chains'
  BY <1>1 DEF IInv, Chains, Views
<1>3. Views'
  <2> SUFFICES ASSUME NEW v \in Workers, NEW c \in Claims
               PROVE  Chain(Committed(c)' \cup Own(v, c)')
    BY DEF Views
  <2>1. Chain(Committed(c)')
    BY <1>2 DEF Chains
  <2>2. CASE Own(v, c)' = {}
    BY <2>1, <2>2
  <2>3. CASE Own(v, c)' # {}
    <3>1. v # w /\ Own(v, c)' = Own(v, c)
      BY <2>3, EndRows
    <3>2. Own(w, c) = {}
      BY <2>3, <3>1, OneWriter
    <3>3. Committed(c)' = Committed(c)
      BY <1>1, <3>2
    <3> QED
      BY <3>1, <3>3 DEF IInv, Views
  <2> QED
    BY <2>2, <2>3
<1>4. LostAreClaims'
  BY DEF IInv, LostAreClaims, Ends
<1> QED
  BY <1>2, <1>3, <1>4

\* A claim another transaction has locked or written keeps its entries.
LEMMA EndLeavesReading ==
  ASSUME IInv, NEW w \in Workers, Ends(w), NEW v \in Losers \ {w}, NEW c \in Claims,
         forUpdate[c] = v
  PROVE  Committed(c)' = Committed(c)
<1>1. Own(w, c) = {}
  BY WorkersAre DEF IInv, PipeOwns, LoserOwns, Locks
<1> QED
  BY <1>1, EndRows

LEMMA EndReading ==
  ASSUME IInv, NEW w \in Workers, Ends(w), NEW v \in Losers \ {w},
         pc'[v] = pc[v], todo'[v] = todo[v], seen'[v] = seen[v],
         \A c \in Claims : forUpdate[c] = v => forUpdate'[c] = v,
         pc'[v] = "append"
  PROVE  /\ Current(v)' \in todo'[v] /\ forUpdate'[Current(v)'] = v
         /\ seen'[v] \in Nat /\ Good(Committed(Current(v))', seen'[v])
         /\ \A e \in Committed(Current(v))' : e.state # "source_lost"
<1>1. Current(v)' = Current(v)
  BY DEF Current
<1>2. /\ Current(v) \in todo[v] /\ forUpdate[Current(v)] = v
      /\ seen[v] \in Nat /\ Good(Committed(Current(v)), seen[v])
      /\ \A e \in Committed(Current(v)) : e.state # "source_lost"
  BY DEF IInv, Reading
<1>3. Current(v) \in Claims
  BY <1>2 DEF IInv, ToDo
<1>4. PICK c \in Claims : c = Current(v)
  BY <1>3
<1>5. Committed(c)' = Committed(c)
  BY <1>2, <1>4, EndLeavesReading
<1>6. Committed(Current(v))' = Committed(Current(v))
  BY <1>1, <1>4, <1>5 DEF Committed
<1> QED
  BY <1>1, <1>2, <1>3, <1>6

LEMMA EndToDo ==
  ASSUME IInv, NEW w \in Workers, Ends(w), NEW v \in Losers \ {w},
         pc'[v] = pc[v], todo'[v] = todo[v]
  PROVE  /\ todo'[v] \subseteq Claims
         /\ \A c \in todo'[v] :
              /\ Committed(c)' # {}
              /\ pc'[v] # "audit" \/ c # Current(v)' => Own(v, c)' = {}
         /\ pc'[v] = "idle" => \A c \in Claims : Own(v, c)' = {}
<1>1. Current(v)' = Current(v)
  BY DEF Current
<1>2. \A c : Own(v, c)' = Own(v, c) /\ Committed(c) \subseteq Committed(c)'
  BY EndRows, WorkersAre
<1> QED
  BY <1>1, <1>2 DEF IInv, ToDo

LEMMA PipeEndsIInv ==
  ASSUME IInv, Shape', PipeEnds
  PROVE  IInv'
<1>1. Ends(Pipe) /\ Pipe \in Workers /\ \A v \in Losers : v # Pipe /\ v \in Workers
  BY WorkersAre DEF PipeEnds
<1>2. Chains' /\ Views' /\ LostAreClaims'
  BY <1>1, EndChains
<1>3. \A c : /\ Committed(c) \subseteq Committed(c)' /\ Own(Pipe, c)' = {}
             /\ \A v \in Losers : Own(v, c)' = Own(v, c)
  BY <1>1, EndRows
<1>4. PipeOwns' /\ LoserOwns' /\ Locks'
  BY <1>3 DEF PipeEnds, IInv, PipeOwns, LoserOwns, Locks
<1>5. \A v \in Losers : pc'[v] = pc[v] /\ todo'[v] = todo[v] /\ seen'[v] = seen[v]
  BY <1>1 DEF PipeEnds, Ends
<1>6. ToDo'
  BY <1>1, <1>5, EndToDo DEF ToDo
<1>7. Reading'
  BY <1>1, <1>5, EndReading DEF Reading, PipeEnds
<1>8. Extracted'
  BY <1>1 DEF Extracted, Ends
<1> QED
  BY <1>2, <1>4, <1>6, <1>7, <1>8 DEF IInv

LEMMA LoserEndsIInv ==
  ASSUME IInv, Shape', NEW w \in Losers, LoserEnds(w)
  PROVE  IInv'
<1>1. Ends(w) /\ w \in Workers /\ w # Pipe /\ Nobody \notin Losers
  BY WorkersAre DEF LoserEnds
<1>2. Chains' /\ Views' /\ LostAreClaims'
  BY <1>1, EndChains
<1>3. \A c : /\ Committed(c)' \in {Committed(c), Committed(c) \cup Own(w, c)}
             /\ Own(w, c)' = {}
             /\ \A v \in Workers \ {w} : Own(v, c)' = Own(v, c)
  BY <1>1, EndRows
<1>4. PipeOwns'
  <2> SUFFICES ASSUME NEW c \in Claims, Own(Pipe, c)' # {}
               PROVE  Committed(c)' = {} \/ c \in keyShare'
    BY DEF PipeOwns
  <2>1. Own(Pipe, c) # {}
    BY <1>1, <1>3, WorkersAre
  <2>2. Own(w, c) = {}
    BY <1>1, <2>1, OneWriter, WorkersAre
  <2> QED
    BY <1>3, <2>1, <2>2 DEF LoserEnds, IInv, PipeOwns
<1>5. LoserOwns' /\ Locks'
  BY <1>1, <1>3, WorkersAre DEF LoserEnds, IInv, LoserOwns, Locks
<1>6. ToDo'
  <2> SUFFICES ASSUME NEW v \in Losers
               PROVE  /\ todo'[v] \subseteq Claims
                      /\ \A c \in todo'[v] :
                           /\ Committed(c)' # {}
                           /\ pc'[v] # "audit" \/ c # Current(v)' => Own(v, c)' = {}
                      /\ pc'[v] = "idle" => \A c \in Claims : Own(v, c)' = {}
    BY DEF ToDo
  <2>1. CASE v = w
    BY <1>3, <2>1 DEF LoserEnds
  <2>2. CASE v # w
    BY <1>1, <2>2, EndToDo DEF LoserEnds, OthersAsBefore
  <2> QED
    BY <2>1, <2>2
<1>7. Reading'
  <2> SUFFICES ASSUME NEW v \in Losers, pc'[v] = "append"
               PROVE  /\ Current(v)' \in todo'[v] /\ forUpdate'[Current(v)'] = v
                      /\ seen'[v] \in Nat /\ Good(Committed(Current(v))', seen'[v])
                      /\ \A e \in Committed(Current(v))' : e.state # "source_lost"
    BY DEF Reading
  <2>1. v # w
    BY <1>1 DEF Ends
  <2>2. \A c \in Claims : forUpdate[c] = v => forUpdate'[c] = v
    BY <2>1 DEF LoserEnds
  <2> QED
    BY <1>1, <2>1, <2>2, EndReading DEF LoserEnds, OthersAsBefore
<1>8. Extracted'
  BY <1>1, <1>3, WorkersAre DEF IInv, Extracted, Ends
<1> QED
  BY <1>2, <1>4, <1>5, <1>6, <1>7, <1>8 DEF IInv

-----------------------------------------------------------------------------
(* The steps that write or lock                                            *)

\* A first entry for every claim that has none.
LEMMA ExtractIInv ==
  ASSUME IInv, Extract
  PROVE  IInv'
<1> DEFINE new == {Candidate(c) : c \in NewClaims}
<1>1. /\ ledger' = ledger /\ UNCHANGED <<todo, seen, forUpdate, keyShare>>
      /\ mine' = [mine EXCEPT ![Pipe].ledger = new]
      /\ pc' = [pc EXCEPT ![Pipe] = "verify"]
  BY DEF Extract, Goto, store, propagation
<1>2. /\ \A w \in Workers : mine'[w].ledger = IF w = Pipe THEN new ELSE mine[w].ledger
      /\ \A w \in Losers : pc'[w] = pc[w] /\ Current(w)' = Current(w)
      /\ Shape'
  BY <1>1, WorkersAre DEF IInv, Shape, Fields, Current
<1>3. \A c \in Claims : EntriesOf(new, c) = IF Committed(c) = {} THEN {Candidate(c)} ELSE {}
  BY DEF NewClaims, EntriesOf, Committed, Candidate, Entry
<1>4. /\ \A c : Committed(c)' = Committed(c)
      /\ \A c \in Claims : Own(Pipe, c)' = EntriesOf(new, c)
      /\ \A w \in Losers, c \in Claims : Own(w, c)' = Own(w, c)
  BY <1>1, <1>2, WorkersAre DEF Committed, Own
<1>5. \A c \in Claims : Own(Pipe, c)' = IF Committed(c) = {} THEN {Candidate(c)} ELSE {}
  BY <1>3, <1>4
<1> HIDE DEF new
<1>5a. Chains'
  BY <1>4 DEF IInv, Chains
<1>6. \A c : Good({Candidate(c)}, 1)
  BY DEF Good, Candidate, Entry
<1>7. Views'
  <2> SUFFICES ASSUME NEW w \in Workers, NEW c \in Claims
               PROVE  Chain(Committed(c)' \cup Own(w, c)')
    BY DEF Views
  <2>1. CASE w = Pipe
    <3>1. CASE Committed(c) = {}
      BY <1>4, <1>5, <1>6, <2>1, <3>1 DEF Chain
    <3>2. CASE Committed(c) # {}
      BY <1>4, <1>5, <2>1, <3>2 DEF IInv, Chains
    <3> QED
      BY <3>1, <3>2
  <2>2. CASE w \in Losers
    BY <1>4, <2>2 DEF IInv, Views
  <2> QED
    BY <2>1, <2>2, WorkersAre
<1>8. PipeOwns' /\ LoserOwns' /\ Locks'
  BY <1>1, <1>4, <1>5 DEF IInv, PipeOwns, LoserOwns, Locks
<1>9. ToDo' /\ Reading'
  BY <1>1, <1>2, <1>4 DEF IInv, ToDo, Reading
<1>10. Extracted'
  BY <1>4, <1>5 DEF Extracted
<1>11. LostAreClaims'
  <2>1. \A e \in new : e.state # "source_lost"
    BY DEF new, Candidate, Entry
  <2> QED
    BY <1>1, <1>2, <2>1, WorkersAre DEF IInv, LostAreClaims
<1> QED
  BY <1>2, <1>5a, <1>7, <1>8, <1>9, <1>10, <1>11 DEF IInv

\* A version 2: the pipeline sees one version of the claim, and no propagation
\* has the claim.
LEMMA VerifyClaimIInv ==
  ASSUME IInv, NEW i, VerifyClaim(i)
  PROVE  IInv'
<1> DEFINE c == plan[i]
<1>1. /\ ledger' = ledger /\ UNCHANGED <<todo, seen, forUpdate, pc>>
      /\ pc[Pipe] = "verify"
  BY DEF VerifyClaim, store, propagation
<1>2. CASE HasVersion2(c)
  <2>1. UNCHANGED <<mine, keyShare>>
    BY <1>2 DEF VerifyClaim
  <2>2. Shape' /\ PipeMoves
    BY <1>1, <2>1 DEF IInv, Shape, PipeMoves, SameEntries
  <2> QED
    BY <2>2, PipeMovesIInv
<1>3. CASE ~HasVersion2(c)
  <2>1. PICK s : /\ mine' = [mine EXCEPT ![Pipe].ledger = @ \cup {Verification(c, s)}]
                 /\ forUpdate[c] = Nobody /\ keyShare' = keyShare \cup {c}
    BY <1>3 DEF VerifyClaim
  <2> DEFINE x == Verification(c, s)
  <2>2. /\ x.claim = c /\ x.version = 2 /\ x.parent = 1 /\ x.state # "source_lost"
    BY DEF Verification, Entry, Outcome
  <2> HIDE DEF c, x
  <2>3. /\ \A w \in Workers :
             mine'[w].ledger = IF w = Pipe THEN mine[w].ledger \cup {x} ELSE mine[w].ledger
        /\ \A w \in Losers : Current(w)' = Current(w)
        /\ Shape'
    BY <1>1, <2>1, WorkersAre DEF IInv, Shape, Fields, Current, x
  <2>4. /\ \A d : Committed(d)' = Committed(d)
        /\ \A w \in Losers, d \in Claims : Own(w, d)' = Own(w, d)
        /\ \A d \in Claims : Own(Pipe, d)' = IF d = c THEN Own(Pipe, d) \cup {x} ELSE Own(Pipe, d)
    BY <1>1, <2>2, <2>3, WorkersAre DEF Committed, Own, EntriesOf
  <2>5. c \in Claims => \A w \in Losers : Own(w, c) = {}
    BY <2>1, WorkersAre DEF IInv, LoserOwns, c
  <2>6. c \in Claims => Good(Committed(c) \cup Own(Pipe, c) \cup {x}, 2)
    <3> SUFFICES ASSUME c \in Claims
                 PROVE  Good(Committed(c) \cup Own(Pipe, c) \cup {x}, 2)
      OBVIOUS
    <3> DEFINE S == Committed(c) \cup Own(Pipe, c)
    <3>1. PICK n \in Nat : Good(S, n)
      BY WorkersAre DEF IInv, Views, Chain
    <3>2. S # {}
      BY <1>1 DEF IInv, Extracted
    <3>3. \A e \in S : e.version # 2
      BY <1>3, UnionEntries DEF HasVersion2, View, Committed, Own, c
    <3> HIDE DEF S
    <3>4. n >= 1
      BY <3>1, <3>2, NonEmptyGood
    <3>5. n = 1
      <4>1. n >= 2 => \E e \in S : e.version = 2
        BY <3>1 DEF Good
      <4> QED
        BY <3>3, <3>4, <4>1
    <3>6. \A e \in S : e.state # "source_lost"
      <4>1. \A e \in S : e.version \in 1 .. 1
        BY <3>1, <3>5 DEF Good
      <4> QED
        BY <3>1, <4>1 DEF Good
    <3>7. Good(S \cup {x}, 1 + 1)
      BY <2>2, <3>1, <3>5, <3>6, NextVersion
    <3> QED
      BY <3>7 DEF S
  <2>7. Chains' /\ Views'
    <3>1. Chains'
      BY <2>4 DEF IInv, Chains
    <3>2. ASSUME NEW w \in Workers, NEW d \in Claims
          PROVE  Chain(Committed(d)' \cup Own(w, d)')
      <4>1. CASE w = Pipe /\ d = c
        <5>1. Committed(d)' \cup Own(w, d)' = Committed(c) \cup Own(Pipe, c) \cup {x}
          BY <2>4, <4>1
        <5> QED
          BY <2>6, <4>1, <5>1 DEF Chain
      <4>2. CASE ~(w = Pipe /\ d = c)
        <5>1. Own(w, d)' = Own(w, d)
          BY <2>4, <4>2, WorkersAre
        <5> QED
          BY <2>4, <5>1 DEF IInv, Views
      <4> QED
        BY <4>1, <4>2
    <3> QED
      BY <3>1, <3>2 DEF Views
  <2>8. PipeOwns' /\ LoserOwns' /\ Locks'
    BY <1>1, <2>1, <2>4, WorkersAre DEF IInv, PipeOwns, LoserOwns, Locks, c
  <2>9. ToDo' /\ Reading' /\ Extracted'
    BY <1>1, <2>3, <2>4 DEF IInv, ToDo, Reading, Extracted
  <2>10. LostAreClaims'
    BY <1>1, <2>2, <2>3 DEF IInv, LostAreClaims
  <2> QED
    BY <2>3, <2>7, <2>8, <2>9, <2>10 DEF IInv
<1> QED
  BY <1>2, <1>3

\* What the propagation reads under the lock is all there is of the claim.
LEMMA LockClaimIInv ==
  ASSUME IInv, NEW w \in Losers, NEW c \in todo[w], LockClaim(w, c)
  PROVE  IInv'
<1>1. /\ ledger' = ledger /\ UNCHANGED <<mine, todo, keyShare>>
      /\ pc[w] = "claims" /\ \A d \in todo[w] : c <= d
      /\ forUpdate[c] \in {Nobody, w} /\ c \notin keyShare
      /\ forUpdate' = [forUpdate EXCEPT ![c] = w]
      /\ seen' = [seen EXCEPT ![w] = Latest(View(w), c).version]
      /\ pc' = [pc EXCEPT ![w] = IF Latest(View(w), c).state = "source_lost"
                                 THEN "skip" ELSE "append"]
  BY DEF LockClaim, CanLockClaim, Goto, store, pipeline
<1>2. /\ todo[w] \subseteq Nat /\ c \in Claims
      /\ Committed(c) # {} /\ Own(w, c) = {}
  BY <1>1, LedgerAssumption DEF IInv, ToDo
<1>3. /\ SameEntries /\ OthersAsBefore(w) /\ Shape'
      /\ \A v \in Losers : Current(v)' = Current(v)
      /\ w # Pipe /\ pc'[Pipe] = pc[Pipe]
      /\ \A d \in Claims : forUpdate'[d] = IF d = c THEN w ELSE forUpdate[d]
      /\ pc'[w] \in {"skip", "append"}
  BY <1>1, <1>2, WorkersAre DEF IInv, Shape, SameEntries, OthersAsBefore, Current
<1>4. Current(w) = c
  BY <1>1, <1>2, CurrentIs
<1>5. /\ \A d : Committed(d)' = Committed(d)
      /\ \A v \in Workers, d \in Claims : Own(v, d)' = Own(v, d)
      /\ Chains' /\ Views' /\ LostAreClaims'
  BY <1>3, SameRows, SameChains
<1>6. PipeOwns' /\ LoserOwns' /\ Locks'
  <2>1. PipeOwns'
    BY <1>1, <1>5, WorkersAre DEF IInv, PipeOwns
  <2>2. LoserOwns'
    BY <1>1, <1>2, <1>3, <1>5, WorkersAre DEF IInv, LoserOwns
  <2>3. Locks'
    BY <1>1, <1>2, <1>3, <1>5 DEF IInv, Locks
  <2> QED
    BY <2>1, <2>2, <2>3
<1>7. ToDo'
  <2> SUFFICES ASSUME NEW v \in Losers
               PROVE  /\ todo'[v] \subseteq Claims
                      /\ \A d \in todo'[v] :
                           /\ Committed(d)' # {}
                           /\ pc'[v] # "audit" \/ d # Current(v)' => Own(v, d)' = {}
                      /\ pc'[v] = "idle" => \A d \in Claims : Own(v, d)' = {}
    BY DEF ToDo
  <2>1. CASE v = w
    BY <1>1, <1>3, <1>5, <2>1, WorkersAre DEF IInv, ToDo
  <2>2. CASE v # w
    BY <1>1, <1>3, <1>5, <2>2, WorkersAre DEF OthersAsBefore, IInv, ToDo
  <2> QED
    BY <2>1, <2>2
<1>8. Reading'
  <2> SUFFICES ASSUME NEW v \in Losers, pc'[v] = "append"
               PROVE  /\ Current(v)' \in todo'[v] /\ forUpdate'[Current(v)'] = v
                      /\ seen'[v] \in Nat /\ Good(Committed(Current(v))', seen'[v])
                      /\ \A e \in Committed(Current(v))' : e.state # "source_lost"
    BY DEF Reading
  <2>1. Committed(Current(v))' = Committed(Current(v))
    BY <1>3, <1>5 DEF Committed
  <2>2. CASE v = w
    <3>1. EntriesOf(View(w), c) = Committed(c)
      <4>1. EntriesOf(View(w), c) = Committed(c) \cup Own(w, c)
        BY UnionEntries DEF View, Committed, Own
      <4> QED
        BY <1>2, <4>1
    <3>2. PICK n \in Nat : Good(Committed(c), n)
      BY <1>2 DEF IInv, Chains, Chain
    <3>3. Latest(View(w), c) \in Committed(c) /\ Latest(View(w), c).version = n
      BY <1>2, <3>1, <3>2, LatestIsLast
    <3>4. Latest(View(w), c).state # "source_lost" /\ seen'[w] = n
      BY <1>1, <2>2, <3>3 DEF IInv, Shape
    <3>5. \A e \in Committed(c) : e.state # "source_lost"
      BY <3>2, <3>3, <3>4 DEF Good
    <3> QED
      BY <1>1, <1>2, <1>3, <1>4, <2>1, <2>2, <3>2, <3>4, <3>5
  <2>3. CASE v # w
    <3>1. /\ Current(v) \in todo[v] /\ forUpdate[Current(v)] = v
          /\ seen[v] \in Nat /\ Good(Committed(Current(v)), seen[v])
          /\ \A e \in Committed(Current(v)) : e.state # "source_lost"
      BY <1>3, <2>3 DEF OthersAsBefore, IInv, Reading
    <3>2. Current(v) \in Claims /\ Current(v) # c
      BY <1>1, <2>3, <3>1, WorkersAre DEF IInv, ToDo
    <3> QED
      BY <1>3, <2>1, <2>3, <3>1, <3>2 DEF OthersAsBefore
  <2> QED
    BY <2>2, <2>3
<1>9. Extracted'
  BY <1>3, <1>5, WorkersAre DEF IInv, Extracted
<1> QED
  BY <1>3, <1>5, <1>6, <1>7, <1>8, <1>9 DEF IInv

\* The next version after the one read: the claim is locked, so it still is the
\* latest, and nobody else has written one.
LEMMA AppendIInv ==
  ASSUME IInv, NEW w \in Losers, AppendUnverifiable(w)
  PROVE  IInv'
<1> DEFINE c == Current(w)
           x == LostEntry(w)
<1>1. /\ ledger' = ledger /\ UNCHANGED <<forUpdate, keyShare>>
      /\ pc[w] = "append"
      /\ \E r : mine' = [mine EXCEPT ![w].ledger = @ \cup {x}, ![w].records = @ \cup r]
      /\ \/ /\ todo' = [todo EXCEPT ![w] = @ \ {c}] /\ seen' = [seen EXCEPT ![w] = 0]
            /\ pc' = [pc EXCEPT ![w] = IF todo[w] = {c} THEN "answers" ELSE "claims"]
         \/ todo' = todo /\ seen' = seen /\ pc' = [pc EXCEPT ![w] = "audit"]
  BY DEF AppendUnverifiable, ToNextClaim, Goto, store, pipeline
<1>2. /\ c \in todo[w] /\ forUpdate[c] = w /\ seen[w] \in Nat
      /\ Good(Committed(c), seen[w])
      /\ \A e \in Committed(c) : e.state # "source_lost"
      /\ c \in Claims /\ Committed(c) # {} /\ Own(w, c) = {} /\ c \notin keyShare
  BY <1>1 DEF IInv, Reading, ToDo, Locks
<1>3. x.claim = c /\ x.version = seen[w] + 1 /\ x.parent = seen[w]
  BY DEF LostEntry, Entry
<1> HIDE DEF x
<1>4. /\ OthersAsBefore(w) /\ w # Pipe /\ pc'[Pipe] = pc[Pipe]
      /\ pc'[w] \in {"answers", "claims", "audit"}
      /\ todo'[w] \subseteq todo[w]
      /\ todo'[w] = todo[w] \/ c \notin todo'[w]
      /\ pc'[w] = "audit" \/ c \notin todo'[w]
      /\ DOMAIN pc' = Workers /\ DOMAIN todo' = Losers /\ DOMAIN seen' = Losers
  <2>1. /\ w # Pipe /\ w \in Workers /\ Pipe \in Workers /\ Losers \subseteq Workers
        /\ DOMAIN pc = Workers /\ DOMAIN todo = Losers /\ DOMAIN seen = Losers
    BY WorkersAre DEF IInv, Shape
  <2> HIDE DEF c
  <2>2. CASE todo' = todo /\ seen' = seen /\ pc' = [pc EXCEPT ![w] = "audit"]
    BY <2>1, <2>2 DEF OthersAsBefore
  <2>3. CASE /\ todo' = [todo EXCEPT ![w] = @ \ {c}] /\ seen' = [seen EXCEPT ![w] = 0]
             /\ pc' = [pc EXCEPT ![w] = IF todo[w] = {c} THEN "answers" ELSE "claims"]
    BY <2>1, <2>3 DEF OthersAsBefore
  <2> QED
    BY <1>1, <2>2, <2>3 DEF c
<1>4a. /\ Shape' /\ mine'[w].ledger = mine[w].ledger \cup {x}
       /\ \A v \in Workers \ {w} : mine'[v].ledger = mine[v].ledger
  <2>1. PICK r : mine' = [mine EXCEPT ![w].ledger = @ \cup {x}, ![w].records = @ \cup r]
    BY <1>1
  <2>2. /\ w \in DOMAIN mine /\ DOMAIN mine = Workers
        /\ \A v \in Workers : DOMAIN mine[v] = {"ledger", "records", "trail"}
    BY WorkersAre DEF IInv, Shape, Fields
  <2>3. /\ DOMAIN mine' = Workers
        /\ \A v \in Workers \ {w} : mine'[v] = mine[v]
        /\ mine'[w].ledger = mine[w].ledger \cup {x}
        /\ DOMAIN mine'[w] = {"ledger", "records", "trail"}
    BY <2>1, <2>2
  <2> QED
    BY <1>1, <1>4, <2>2, <2>3 DEF IInv, Shape, Fields
<1>5. /\ \A d : Committed(d)' = Committed(d)
      /\ \A v \in Workers \ {w}, d \in Claims : Own(v, d)' = Own(v, d)
      /\ \A d \in Claims : Own(w, d)' = IF d = c THEN {x} ELSE Own(w, d)
  <2>1. /\ \A d : Committed(d)' = Committed(d)
        /\ \A v \in Workers \ {w}, d \in Claims : Own(v, d)' = Own(v, d)
    BY <1>1, <1>4a DEF Committed, Own
  <2> HIDE DEF c
  <2>2. \A d : EntriesOf({x}, d) = IF d = c THEN {x} ELSE {}
    BY <1>3 DEF EntriesOf
  <2>3. \A d : Own(w, d)' = Own(w, d) \cup EntriesOf({x}, d)
    BY <1>4a, UnionEntries DEF Own
  <2>4. \A d \in Claims : Own(w, d)' = IF d = c THEN {x} ELSE Own(w, d)
    <3> SUFFICES ASSUME NEW d \in Claims
                 PROVE  Own(w, d)' = IF d = c THEN {x} ELSE Own(w, d)
      OBVIOUS
    <3>1. Own(w, d)' = Own(w, d) \cup EntriesOf({x}, d)
      BY <2>3
    <3>2. CASE d = c
      <4>1. Own(w, d) = {}
        BY <1>2, <3>2
      <4> QED
        BY <2>2, <3>1, <3>2, <4>1
    <3>3. CASE d # c
      BY <2>2, <3>1, <3>3
    <3> QED
      BY <3>2, <3>3
  <2> QED
    BY <2>1, <2>4
<1>6. /\ \A v \in Losers \ {w} : Current(v)' = Current(v)
      /\ todo'[w] = todo[w] => Current(w)' = c
  BY <1>4 DEF Current, OthersAsBefore
<1>7. Good(Committed(c) \cup {x}, seen[w] + 1)
  BY <1>2, <1>3, NonEmptyGood, NextVersion
<1>8. Chains' /\ Views'
  <2>1. Chains'
    BY <1>5 DEF IInv, Chains
  <2>2. ASSUME NEW v \in Workers, NEW d \in Claims
        PROVE  Chain(Committed(d)' \cup Own(v, d)')
    <3>1. CASE v = w /\ d = c
      <4>1. Committed(d)' \cup Own(v, d)' = Committed(c) \cup {x}
        BY <1>5, <3>1
      <4>2. seen[w] + 1 \in Nat
        BY <1>2
      <4> QED
        BY <1>7, <4>1, <4>2 DEF Chain
    <3>2. CASE ~(v = w /\ d = c)
      <4>1. Own(v, d)' = Own(v, d)
        BY <1>5, <3>2
      <4> QED
        BY <1>5, <4>1 DEF IInv, Views
    <3> QED
      BY <3>1, <3>2
  <2> QED
    BY <2>1, <2>2 DEF Views
<1>9. PipeOwns' /\ LoserOwns' /\ Locks'
  BY <1>1, <1>2, <1>4, <1>5, WorkersAre DEF IInv, PipeOwns, LoserOwns, Locks
<1>10. ToDo'
  <2> SUFFICES ASSUME NEW v \in Losers
               PROVE  /\ todo'[v] \subseteq Claims
                      /\ \A d \in todo'[v] :
                           /\ Committed(d)' # {}
                           /\ pc'[v] # "audit" \/ d # Current(v)' => Own(v, d)' = {}
                      /\ pc'[v] = "idle" => \A d \in Claims : Own(v, d)' = {}
    BY DEF ToDo
  <2>1. CASE v = w
    <3>1. ASSUME NEW d \in todo'[w]
          PROVE  /\ d \in Claims /\ Committed(d)' # {}
                 /\ pc'[w] # "audit" \/ d # Current(w)' => Own(w, d)' = {}
      <4>1. d \in Claims /\ Committed(d) # {} /\ Own(w, d) = {}
        BY <1>1, <1>4 DEF IInv, ToDo
      <4> QED
        BY <1>4, <1>5, <1>6, <4>1
    <3> QED
      BY <1>4, <2>1, <3>1
  <2>2. CASE v # w
    BY <1>4, <1>5, <1>6, <2>2, WorkersAre DEF OthersAsBefore, IInv, ToDo
  <2> QED
    BY <2>1, <2>2
<1>11. Reading'
  <2> SUFFICES ASSUME NEW v \in Losers, pc'[v] = "append"
               PROVE  /\ Current(v)' \in todo'[v] /\ forUpdate'[Current(v)'] = v
                      /\ seen'[v] \in Nat /\ Good(Committed(Current(v))', seen'[v])
                      /\ \A e \in Committed(Current(v))' : e.state # "source_lost"
    BY DEF Reading
  <2>1. v # w
    BY <1>4
  <2>2. Committed(Current(v))' = Committed(Current(v))
    BY <1>5, <1>6, <2>1 DEF Committed
  <2> QED
    BY <1>1, <1>4, <1>6, <2>1, <2>2 DEF OthersAsBefore, IInv, Reading
<1>12. Extracted'
  BY <1>4, <1>5, WorkersAre DEF IInv, Extracted
<1>13. LostAreClaims'
  <2> SUFFICES ASSUME NEW v \in Workers, NEW e \in ledger' \cup mine'[v].ledger,
                      e.state = "source_lost"
               PROVE  e.claim \in Claims
    BY DEF LostAreClaims
  <2>1. e = x \/ e \in ledger \cup mine[v].ledger
    BY <1>1, <1>4a
  <2> QED
    BY <1>2, <1>3, <2>1 DEF IInv, LostAreClaims
<1> QED
  BY <1>4a, <1>8, <1>9, <1>10, <1>11, <1>12, <1>13 DEF IInv

-----------------------------------------------------------------------------
(* Every other step has one of the effects                                 *)

LEMMA PipelineMoves ==
  ASSUME IInv,
         \/ AdvanceToCompiling \/ ResumeCompiling \/ SelectVerified \/ CompileSpan
         \/ RunGate \/ Withdraw \/ UNCHANGED vars
  PROVE  Shape' /\ PipeMoves
<1> USE WorkersAre DEF IInv, Shape, PipeMoves, SameEntries, store, propagation
<1>1. CASE AdvanceToCompiling
  BY <1>1 DEF AdvanceToCompiling, Goto
<1>2. CASE ResumeCompiling
  BY <1>2 DEF ResumeCompiling, Goto, pipeline
<1>3. CASE SelectVerified
  BY <1>3 DEF SelectVerified, Goto
<1>4. CASE CompileSpan
  <2>1. /\ UNCHANGED <<store, pc, mine, propagation>>
        /\ \/ keyShare' = keyShare
           \/ \E c : forUpdate[c] = Nobody /\ keyShare' = keyShare \cup {c}
    BY <1>4 DEF CompileSpan
  <2> QED
    BY <2>1
<1>5. CASE RunGate
  BY <1>5 DEF RunGate, Goto
<1>6. CASE Withdraw
  BY <1>6 DEF Withdraw
<1>7. CASE UNCHANGED vars
  BY <1>7 DEF vars, pipeline
<1> QED
  BY <1>1, <1>2, <1>3, <1>4, <1>5, <1>6, <1>7

\* A step of w that changes no entry and leaves it to handle only claims it has
\* not written.
LEMMA MovesIf ==
  ASSUME IInv, NEW w \in Losers, NEW T, NEW p,
         UNCHANGED <<ledger, forUpdate, keyShare>>,
         \/ UNCHANGED mine
         \/ \E r : mine' = [mine EXCEPT ![w].records = r]
         \/ \E r : mine' = [mine EXCEPT ![w].trail = r],
         todo' = [todo EXCEPT ![w] = T] \/ (todo' = todo /\ T = todo[w]),
         seen' = seen \/ seen' = [seen EXCEPT ![w] = 0],
         pc' = [pc EXCEPT ![w] = p], p \notin {"idle", "append", "audit"},
         \A c \in T : c \in Claims /\ Committed(c) # {} /\ Own(w, c) = {}
  PROVE  Shape' /\ LoserMoves(w)
<1>1. /\ w # Pipe /\ w \in Workers /\ Pipe \in Workers /\ Losers \subseteq Workers
      /\ DOMAIN mine = Workers /\ \A v \in Workers : DOMAIN mine[v] = Fields
      /\ DOMAIN pc = Workers
      /\ DOMAIN todo = Losers /\ DOMAIN seen = Losers /\ DOMAIN forUpdate = Claims
  BY WorkersAre DEF IInv, Shape
<1>2. /\ DOMAIN mine' = Workers /\ \A v \in Workers : DOMAIN mine'[v] = Fields
      /\ SameEntries
  BY <1>1 DEF SameEntries, Fields
<1>3. /\ DOMAIN pc' = Workers
      /\ DOMAIN todo' = Losers /\ DOMAIN seen' = Losers /\ DOMAIN forUpdate' = Claims
      /\ OthersAsBefore(w) /\ pc'[Pipe] = pc[Pipe]
      /\ todo'[w] = T /\ pc'[w] = p
  BY <1>1 DEF OthersAsBefore
<1> QED
  BY <1>2, <1>3 DEF Shape, LoserMoves

LEMMA BeginMoves ==
  ASSUME IInv, NEW w \in Losers, NEW e, BeginPropagation(w, e)
  PROVE  Shape' /\ LoserMoves(w)
<1>1. /\ UNCHANGED <<ledger, forUpdate, keyShare, seen>>
      /\ pc[w] = "idle" /\ todo' = [todo EXCEPT ![w] = Linked(e)]
  BY DEF BeginPropagation, store, pipeline
<1>2. \A c \in Linked(e) : c \in Claims /\ Committed(c) # {} /\ Own(w, c) = {}
  BY <1>1 DEF Linked, Committed, IInv, ToDo
<1>3. CASE Linked(e) = {}
  <2>1. \E r : mine' = [mine EXCEPT ![w].records = r]
    BY <1>3 DEF BeginPropagation
  <2>2. pc' = [pc EXCEPT ![w] = "commit"]
    BY <1>3 DEF BeginPropagation, Goto
  <2> QED
    BY <1>1, <1>2, <2>1, <2>2, MovesIf
<1>4. CASE Linked(e) # {}
  <2>1. UNCHANGED mine /\ pc' = [pc EXCEPT ![w] = "claims"]
    BY <1>4 DEF BeginPropagation, Goto
  <2> QED
    BY <1>1, <1>2, <2>1, MovesIf
<1> QED
  BY <1>3, <1>4

LEMMA NextClaimMoves ==
  ASSUME IInv, NEW w \in Losers, SkipClaim(w) \/ AuditClaim(w)
  PROVE  Shape' /\ LoserMoves(w)
<1> DEFINE T == todo[w] \ {Current(w)}
           p == IF todo[w] = {Current(w)} THEN "answers" ELSE "claims"
<1>1. /\ UNCHANGED <<ledger, forUpdate, keyShare>>
      /\ todo' = [todo EXCEPT ![w] = T] /\ seen' = [seen EXCEPT ![w] = 0]
      /\ pc' = [pc EXCEPT ![w] = p]
  BY DEF SkipClaim, AuditClaim, ToNextClaim, Goto, store, pipeline
<1>2. \A c \in T : c \in Claims /\ Committed(c) # {} /\ Own(w, c) = {}
  BY DEF IInv, ToDo
<1>3. \/ \E r : mine' = [mine EXCEPT ![w].records = r]
      \/ \E r : mine' = [mine EXCEPT ![w].trail = r]
  <2>1. CASE SkipClaim(w)
    BY <2>1 DEF SkipClaim
  <2>2. CASE AuditClaim(w)
    BY <2>2 DEF AuditClaim
  <2> QED
    BY <2>1, <2>2
<1>4. p \notin {"idle", "append", "audit"}
  OBVIOUS
<1> HIDE DEF T, p
<1> QED
  BY <1>1, <1>2, <1>3, <1>4, MovesIf

LEMMA AnswerMoves ==
  ASSUME IInv, NEW w \in Losers, ReadAnswers(w) \/ AuditAnswer(w)
  PROVE  Shape' /\ LoserMoves(w)
<1>1. /\ UNCHANGED <<ledger, forUpdate, keyShare, todo, seen>>
      /\ pc[w] \in {"answers", "audit_answer"}
      /\ \E p \in {"audit_answer", "commit"} : pc' = [pc EXCEPT ![w] = p]
  BY DEF ReadAnswers, AuditAnswer, Goto, store, pipeline, propagation
<1>2. \A c \in todo[w] : c \in Claims /\ Committed(c) # {} /\ Own(w, c) = {}
  BY <1>1 DEF IInv, ToDo
<1>3. \/ \E r : mine' = [mine EXCEPT ![w].records = r]
      \/ \E r : mine' = [mine EXCEPT ![w].trail = r]
  <2>1. CASE ReadAnswers(w)
    BY <2>1 DEF ReadAnswers
  <2>2. CASE AuditAnswer(w)
    BY <2>2 DEF AuditAnswer
  <2> QED
    BY <2>1, <2>2
<1> QED
  BY <1>1, <1>2, <1>3, MovesIf

LEMMA EndEnds ==
  ASSUME IInv, NEW w \in Workers, End(w), Publish(w) \/ UNCHANGED ledger
  PROVE  /\ Ends(w)
         /\ DOMAIN mine' = Workers /\ \A v \in Workers : DOMAIN mine'[v] = Fields
         /\ DOMAIN pc' = Workers
<1>1. /\ DOMAIN mine = Workers /\ \A v \in Workers : DOMAIN mine[v] = Fields
      /\ DOMAIN pc = Workers
  BY DEF IInv, Shape
<1>2. mine' = [mine EXCEPT ![w] = Empty] /\ pc' = [pc EXCEPT ![w] = "idle"]
  BY DEF End, Goto
<1>3. Empty.ledger = {} /\ DOMAIN Empty = Fields
  BY DEF Empty, Fields
<1>4. ledger' \in {ledger, ledger \cup mine[w].ledger}
  BY DEF Publish
<1> HIDE DEF Empty
<1> QED
  BY <1>1, <1>2, <1>3, <1>4 DEF Ends

LEMMA EndPipelineEnds ==
  ASSUME IInv, NEW t, EndPipeline(t), Publish(Pipe) \/ UNCHANGED ledger
  PROVE  Shape' /\ PipeEnds
<1>1. End(Pipe) /\ keyShare' = {} /\ UNCHANGED <<todo, seen, forUpdate>>
  BY DEF EndPipeline, propagation
<1> QED
  BY <1>1, EndEnds, WorkersAre DEF Shape, PipeEnds, IInv

LEMMA EndPropagationEnds ==
  ASSUME IInv, NEW w \in Losers, EndPropagation(w), Publish(w) \/ UNCHANGED ledger
  PROVE  Shape' /\ LoserEnds(w)
<1>1. /\ End(w) /\ UNCHANGED keyShare
      /\ todo' = [todo EXCEPT ![w] = {}] /\ seen' = [seen EXCEPT ![w] = 0]
      /\ forUpdate' = [c \in Claims |-> IF forUpdate[c] = w THEN Nobody ELSE forUpdate[c]]
  BY DEF EndPropagation, pipeline
<1>2. /\ Ends(w)
      /\ DOMAIN mine' = Workers /\ \A v \in Workers : DOMAIN mine'[v] = Fields
      /\ DOMAIN pc' = Workers
  BY <1>1, EndEnds, WorkersAre
<1>3. \A v \in Losers \ {w} : pc'[v] = pc[v]
  BY <1>2, WorkersAre DEF Ends
<1> QED
  BY <1>1, <1>2, <1>3 DEF IInv, Shape, LoserEnds, OthersAsBefore

LEMMA FailureIInv ==
  ASSUME IInv, Failure
  PROVE  IInv'
<1>1. CASE PipelineRaises \/ PipelineCrashes
  <2>1. \E t : EndPipeline(t) /\ (Publish(Pipe) \/ UNCHANGED ledger)
    BY <1>1 DEF PipelineRaises, PipelineCrashes, store
  <2> QED
    BY <2>1, EndPipelineEnds, PipeEndsIInv
<1>2. ASSUME NEW w \in Losers, PropagationRaises(w) \/ PropagationCrashes(w)
      PROVE  IInv'
  <2>1. EndPropagation(w) /\ (Publish(w) \/ UNCHANGED ledger)
    BY <1>2 DEF PropagationRaises, PropagationCrashes, store
  <2> QED
    BY <2>1, EndPropagationEnds, LoserEndsIInv
<1>3. ASSUME NEW w \in Workers, NEW v \in Workers, DeadlockAbort(w, v)
      PROVE  IInv'
  <2>1. UNCHANGED ledger
    BY <1>3 DEF DeadlockAbort, store
  <2>2. CASE w = Pipe
    BY <1>3, <2>1, <2>2, EndPipelineEnds, PipeEndsIInv DEF DeadlockAbort
  <2>3. CASE w # Pipe
    BY <1>3, <2>1, <2>3, EndPropagationEnds, LoserEndsIInv, WorkersAre DEF DeadlockAbort
  <2> QED
    BY <2>2, <2>3
<1> QED
  BY <1>1, <1>2, <1>3 DEF Failure

LEMMA PropagationIInv ==
  ASSUME IInv, NEW w \in Losers, PropagationStep(w)
  PROVE  IInv'
<1>1. CASE \E e \in Events : BeginPropagation(w, e)
  BY <1>1, BeginMoves, LoserMovesIInv
<1>2. CASE \E c \in todo[w] : LockClaim(w, c)
  BY <1>2, LockClaimIInv
<1>3. CASE SkipClaim(w) \/ AuditClaim(w)
  BY <1>3, NextClaimMoves, LoserMovesIInv
<1>4. CASE AppendUnverifiable(w)
  BY <1>4, AppendIInv
<1>5. CASE ReadAnswers(w) \/ AuditAnswer(w)
  BY <1>5, AnswerMoves, LoserMovesIInv
<1>6. CASE CommitPropagation(w)
  <2>1. EndPropagation(w) /\ Publish(w)
    BY <1>6 DEF CommitPropagation
  <2> QED
    BY <2>1, EndPropagationEnds, LoserEndsIInv
<1> QED
  BY <1>1, <1>2, <1>3, <1>4, <1>5, <1>6 DEF PropagationStep

LEMMA NextIInv == IInv /\ [Next]_vars => IInv'
<1> SUFFICES ASSUME IInv, [Next]_vars PROVE IInv'
  OBVIOUS
<1>1. CASE Extract
  BY <1>1, ExtractIInv
<1>2. CASE \E i \in DOMAIN plan : VerifyClaim(i)
  BY <1>2, VerifyClaimIInv
<1>3. CASE \/ AdvanceToCompiling \/ ResumeCompiling \/ SelectVerified \/ CompileSpan
           \/ RunGate \/ Withdraw \/ UNCHANGED vars
  BY <1>3, PipelineMoves, PipeMovesIInv
<1>4. CASE CommitPipeline
  <2>1. EndPipeline(work) /\ Publish(Pipe)
    BY <1>4 DEF CommitPipeline
  <2> QED
    BY <2>1, EndPipelineEnds, PipeEndsIInv
<1>5. CASE \E w \in Losers : PropagationStep(w)
  BY <1>5, PropagationIInv
<1>6. CASE Failure
  BY <1>6, FailureIInv
<1> QED
  BY <1>1, <1>2, <1>3, <1>4, <1>5, <1>6 DEF Next, PipelineStep, Finished

\* Entries are never changed or removed.
LEMMA EntriesStay == [Next]_vars => ledger \subseteq ledger'
<1> SUFFICES ASSUME [Next]_vars PROVE ledger \subseteq ledger'
  OBVIOUS
<1> QED
  BY DEF Next, PipelineStep, PropagationStep, Failure, Finished, vars, store,
         Extract, VerifyClaim, AdvanceToCompiling, ResumeCompiling, SelectVerified,
         CompileSpan, RunGate, CommitPipeline, PipelineRaises, PipelineCrashes,
         BeginPropagation, LockClaim, SkipClaim, AppendUnverifiable, AuditClaim,
         ReadAnswers, AuditAnswer, CommitPropagation, PropagationRaises,
         PropagationCrashes, DeadlockAbort, Withdraw, Publish

-----------------------------------------------------------------------------
(* Versions: the theorems                                                  *)

\* Of a claim one transaction at a time has uncommitted versions, and they
\* continue the committed ones without a gap.
THEOREM InductiveInvariant == Spec => []IInv
  BY InitIInv, NextIInv, PTL DEF Spec

\* The version a propagation read under the lock is the latest until it appends.
THEOREM LockKeepsVersionFree == Spec => []VersionStaysFree
<1>1. IInv => VersionStaysFree
  <2> SUFFICES ASSUME IInv, NEW w \in Losers, pc[w] = "append"
               PROVE  ~VersionTaken(w)
    BY DEF VersionStaysFree
  <2>1. seen[w] \in Nat /\ Good(Committed(Current(w)), seen[w])
    BY DEF IInv, Reading
  <2>2. \A e \in Committed(Current(w)) : e.version \in 1 .. seen[w]
    BY <2>1 DEF Good
  <2> QED
    BY <2>1, <2>2 DEF VersionTaken, Committed
<1> QED
  BY <1>1, InductiveInvariant, PTL

\* As many entries as the highest version.
LEMMA GoodCardinality ==
  ASSUME NEW S, NEW n \in Nat, Good(S, n)
  PROVE  Cardinality(S) = n
<1> DEFINE f == [e \in S |-> e.version]
<1>1. f \in [S -> 1 .. n]
  BY DEF Good
<1>2. \A a, b \in S : f[a] = f[b] => a = b
  BY DEF Good
<1>3. \A v \in 1 .. n : \E e \in S : f[e] = v
  BY DEF Good
<1> HIDE DEF f
<1>4. f \in Bijection(S, 1 .. n)
  BY <1>1, <1>2, <1>3, Fun_IsBij
<1>5. ExistsBijection(S, 1 .. n)
  BY <1>4, Fun_ExistsBij
<1>6. ExistsBijection(1 .. n, S)
  BY <1>5, Fun_ExistsBijSymmetric
<1> QED
  BY <1>6, FS_CountingElements

\* The committed versions of a claim are 1, 2, ... and each supersedes the one
\* before it.
THEOREM CommittedVersionsChain == Spec => []LedgerIsAChain
<1>1. IInv => LedgerIsAChain
  <2> SUFFICES ASSUME IInv, NEW c \in Claims
               PROVE  /\ {e.version : e \in Committed(c)} = 1 .. Cardinality(Committed(c))
                      /\ \A e \in Committed(c) : e.parent = e.version - 1
    BY DEF LedgerIsAChain, Committed
  <2>1. PICK n \in Nat : Good(Committed(c), n)
    BY DEF IInv, Chains, Chain
  <2>2. Cardinality(Committed(c)) = n
    BY <2>1, GoodCardinality
  <2> QED
    BY <2>1, <2>2 DEF Good
<1> QED
  BY <1>1, InductiveInvariant, PTL

\* Nothing is appended to a claim whose source was lost.
THEOREM LostStaysLost == Spec => SourceLostIsLast
<1>1. ASSUME IInv, IInv', [Next]_vars
      PROVE  \A e \in ledger : e.state = "source_lost" =>
               EntriesOf(ledger', e.claim) = EntriesOf(ledger, e.claim)
  <2> SUFFICES ASSUME NEW e \in ledger, e.state = "source_lost"
               PROVE  EntriesOf(ledger', e.claim) = EntriesOf(ledger, e.claim)
    OBVIOUS
  <2>1. PICK c \in Claims : c = e.claim
    BY <1>1, WorkersAre DEF IInv, LostAreClaims
  <2> DEFINE old == EntriesOf(ledger, c)
             new == EntriesOf(ledger', c)
  <2>2. PICK n \in Nat : Good(old, n)
    BY <1>1 DEF IInv, Chains, Chain, Committed
  <2>3. PICK m \in Nat : Good(new, m)
    BY <1>1 DEF IInv, Chains, Chain, Committed
  <2>4. old \subseteq new /\ e \in old
    BY <1>1, <2>1, EntriesStay DEF EntriesOf
  <2> HIDE DEF old, new
  <2>5. e.version = n /\ e.version = m
    BY <2>2, <2>3, <2>4 DEF Good
  <2>6. ASSUME NEW d \in new PROVE d \in old
    <3>1. d.version \in 1 .. n
      BY <2>3, <2>5 DEF Good
    <3>2. PICK b \in old : b.version = d.version
      BY <2>2, <3>1 DEF Good
    <3> QED
      BY <2>3, <2>4, <3>2 DEF Good
  <2> QED
    BY <2>1, <2>4, <2>6 DEF old, new
<1> QED
  BY <1>1, InductiveInvariant, PTL DEF Spec, SourceLostIsLast

-----------------------------------------------------------------------------
(* Types: the invariant                                                    *)

Audits == Events \X (Claims \cup {Everything})
Writes == [ledger : SUBSET Entries, records : SUBSET Records, trail : Seq(Audits)]
SpanRows == [text : Claims, links : SUBSET (Claims \X Nat)]
PlanRows == [claim : Claims, version : Nat, span : Nat]

Tables ==
  /\ ledger \subseteq Entries /\ records \subseteq Records /\ trail \in Seq(Audits)
  /\ done \subseteq Events /\ task \in TaskRows

\* A transaction that has not begun has written and locked nothing.
Rest(w) == pc[w] = "idle" => mine[w] = Empty /\ headLock # w

PipelineTypes ==
  /\ pc[Pipe] \in {"idle", "verify", "select", "compile", "commit"}
  /\ mine[Pipe] \in Writes /\ work \in TaskRows /\ keyShare \subseteq Claims
  /\ plan \in CASE pc[Pipe] = "verify"  -> Seq(Claims)
                [] pc[Pipe] = "compile" -> Seq(PlanRows)
                [] OTHER                -> {<<>>}
  /\ Rest(Pipe)

PropagationTypes(w) ==
  /\ pc[w] \in {"idle", "claims", "skip", "append", "audit", "answers", "audit_answer",
                "commit"}
  /\ mine[w] \in Writes
  /\ event[w] \in Events \cup {NoEvent} /\ seen[w] \in Nat
  /\ todo[w] \subseteq impact[w] /\ impact[w] \subseteq Claims
  /\ pc[w] # "idle" => event[w] \in Events \ done
  /\ pc[w] \in {"skip", "append", "audit"} => Current(w) \in todo[w]
  /\ Rest(w)

\* No two propagations handle one event.
Apart ==
  \A v, w \in Losers : v # w /\ pc[v] # "idle" /\ pc[w] # "idle" => event[v] # event[w]

LockTypes ==
  /\ forUpdate \in [Claims -> Losers \cup {Nobody}]
  /\ headLock \in Workers \cup {Nobody} /\ faults \in 0 .. MaxFaults
  /\ DOMAIN event = Losers /\ DOMAIN impact = Losers /\ DOMAIN todo = Losers
  /\ DOMAIN seen = Losers

Types ==
  /\ Tables /\ PipelineTypes /\ (\A w \in Losers : PropagationTypes(w)) /\ Apart /\ LockTypes

-----------------------------------------------------------------------------
(* Types: steps of the pipeline                                            *)

LEMMA EmptyWrites == Empty \in Writes
  BY DEF Empty, Writes

LEMMA InitTypes == Init => Types
<1> SUFFICES ASSUME Init PROVE Types
  OBVIOUS
<1>1. Fresh \in TaskRows
  BY DEF Fresh, TaskRows
<1>2. Tables
  BY <1>1 DEF Init, Tables
<1>3. PipelineTypes
  BY <1>1, EmptyWrites, WorkersAre DEF Init, PipelineTypes, Rest
<1>4. ASSUME NEW w \in Losers PROVE PropagationTypes(w)
  BY EmptyWrites, WorkersAre DEF Init, PropagationTypes, Rest
<1>5. Apart /\ LockTypes
  BY WorkersAre, LedgerAssumption DEF Init, Apart, LockTypes
<1> QED
  BY <1>2, <1>3, <1>4, <1>5 DEF Types

\* What the step of a transaction leaves of the others, and of the head's lock.
HeadMoves(w) ==
  headLock' = headLock \/ (headLock \in {Nobody, w} /\ headLock' \in {Nobody, w})

Alone(w) ==
  /\ \A v \in Workers \ {w} : pc'[v] = pc[v] /\ mine'[v] = mine[v]
  /\ HeadMoves(w)

PropagationAlone(w) ==
  /\ Alone(w)
  /\ UNCHANGED <<task, work, plan, keyShare>>
  /\ \A v \in Losers \ {w} : /\ event'[v] = event[v] /\ impact'[v] = impact[v]
                             /\ todo'[v] = todo[v] /\ seen'[v] = seen[v]
  /\ done' \in {done, done \cup {event[w]}}
  /\ pc[w] = "idle" => done' = done

PipelineAlone ==
  /\ Alone(Pipe)
  /\ UNCHANGED <<event, impact, todo, seen, forUpdate, done>>

LEMMA OtherRests ==
  ASSUME NEW w \in Workers, NEW v \in Workers \ {w}, Alone(w), Rest(v)
  PROVE  Rest(v)'
  BY WorkersAre DEF Alone, HeadMoves, Rest

LEMMA OtherPropagation ==
  ASSUME NEW w \in Workers, NEW v \in Losers \ {w}, Alone(w), PropagationTypes(v),
         event'[v] = event[v], impact'[v] = impact[v], todo'[v] = todo[v],
         seen'[v] = seen[v], pc[v] # "idle" => event[v] \notin done' \ done
  PROVE  PropagationTypes(v)'
<1>1. v \in Workers \ {w}
  BY WorkersAre
<1>2. Rest(v)'
  BY <1>1, OtherRests DEF PropagationTypes
<1>3. Current(v)' = Current(v)
  BY DEF Current
<1> QED
  BY <1>1, <1>2, <1>3 DEF PropagationTypes, Alone

LEMMA PropagationStepTypes ==
  ASSUME Types, NEW w \in Losers, PropagationAlone(w), Tables', PropagationTypes(w)',
         LockTypes',
         pc[w] = "idle" /\ pc'[w] # "idle" =>
           \A v \in Losers \ {w} : pc[v] # "idle" => event'[w] # event[v],
         pc[w] # "idle" /\ pc'[w] # "idle" => event'[w] = event[w]
  PROVE  Types'
<1>1. w \in Workers /\ Pipe \in Workers \ {w} /\ \A v \in Losers : v \in Workers
  BY WorkersAre
<1>2. Rest(Pipe)'
  BY <1>1, OtherRests DEF PropagationAlone, Types, PipelineTypes
<1>3. PipelineTypes'
  BY <1>1, <1>2 DEF PropagationAlone, Alone, Types, PipelineTypes
<1>4. ASSUME NEW v \in Losers PROVE PropagationTypes(v)'
  <2>1. CASE v = w
    BY <2>1
  <2>2. CASE v # w
    <3>1. pc[v] # "idle" => event[v] \notin done' \ done
      BY <2>2 DEF Types, Apart, PropagationAlone
    <3> QED
      BY <1>1, <2>2, <3>1, OtherPropagation DEF PropagationAlone, Types
  <2> QED
    BY <2>1, <2>2
<1>5. Apart'
  <2> SUFFICES ASSUME NEW u \in Losers, NEW v \in Losers, u # v, pc'[u] # "idle",
                      pc'[v] # "idle"
               PROVE  event'[u] # event'[v]
    BY DEF Apart
  <2>1. CASE u # w /\ v # w
    BY <1>1, <2>1 DEF PropagationAlone, Alone, Types, Apart
  <2>2. CASE u = w
    BY <1>1, <2>2 DEF PropagationAlone, Alone, Types, Apart
  <2>3. CASE v = w
    BY <1>1, <2>3 DEF PropagationAlone, Alone, Types, Apart
  <2> QED
    BY <2>1, <2>2, <2>3
<1> QED
  BY <1>3, <1>4, <1>5 DEF Types

LEMMA PipelineStepTypes ==
  ASSUME Types, PipelineAlone, Tables', PipelineTypes',
         headLock' \in Workers \cup {Nobody}, faults' \in 0 .. MaxFaults
  PROVE  Types'
<1>1. Pipe \in Workers /\ \A v \in Losers : v \in Workers \ {Pipe}
  BY WorkersAre
<1>2. ASSUME NEW v \in Losers PROVE PropagationTypes(v)'
  BY <1>1, OtherPropagation DEF PipelineAlone, Types
<1>3. Apart'
  BY <1>1 DEF PipelineAlone, Alone, Types, Apart
<1>4. LockTypes'
  BY DEF PipelineAlone, Types, LockTypes
<1> QED
  BY <1>2, <1>3, <1>4 DEF Types

\* What the steps of a transaction leave of the others.
LEMMA PipelineStepAlone ==
  ASSUME Types, IInv,
         \/ Extract \/ (\E i \in DOMAIN plan : VerifyClaim(i)) \/ AdvanceToCompiling
         \/ ResumeCompiling \/ SelectVerified \/ CompileSpan \/ RunGate \/ Withdraw
  PROVE  PipelineAlone
<1> USE WorkersAre DEF PipelineAlone, Alone, HeadMoves, propagation, store, IInv, Shape
<1>1. CASE Extract
  BY <1>1 DEF Extract, CanLockHead, Goto
<1>2. CASE \E i \in DOMAIN plan : VerifyClaim(i)
  <2>1. PICK i \in DOMAIN plan : VerifyClaim(i)
    BY <1>2
  <2>2. \A v \in Workers \ {Pipe} : mine'[v] = mine[v]
    BY <2>1 DEF VerifyClaim
  <2> QED
    BY <2>1, <2>2 DEF VerifyClaim
<1>3. CASE AdvanceToCompiling
  BY <1>3 DEF AdvanceToCompiling, CanLockHead, Goto
<1>4. CASE ResumeCompiling
  BY <1>4 DEF ResumeCompiling, Goto
<1>5. CASE SelectVerified
  BY <1>5 DEF SelectVerified, Goto
<1>6. CASE CompileSpan
  BY <1>6 DEF CompileSpan
<1>7. CASE RunGate
  BY <1>7 DEF RunGate, CanLockHead, Goto
<1>8. CASE Withdraw
  BY <1>8 DEF Withdraw
<1> QED
  BY <1>1, <1>2, <1>3, <1>4, <1>5, <1>6, <1>7, <1>8

LEMMA EndPipelineAlone ==
  ASSUME IInv, NEW row, EndPipeline(row), done' = done
  PROVE  PipelineAlone /\ pc'[Pipe] = "idle" /\ mine'[Pipe] = Empty /\ work' = row
  BY WorkersAre DEF EndPipeline, End, PipelineAlone, Alone, HeadMoves, Goto, IInv, Shape,
                    propagation

LEMMA NextClaimTyped ==
  ASSUME Types, IInv, NEW w \in Losers, ToNextClaim(w)
  PROVE  /\ todo'[w] \subseteq todo[w] /\ seen'[w] \in Nat
         /\ pc'[w] \in {"answers", "claims"}
         /\ DOMAIN todo' = Losers /\ DOMAIN seen' = Losers
         /\ \A v \in Workers \ {w} : pc'[v] = pc[v]
         /\ \A v \in Losers \ {w} : todo'[v] = todo[v] /\ seen'[v] = seen[v]
  BY WorkersAre DEF ToNextClaim, Goto, IInv, Shape, Types, LockTypes

LEMMA PropagationStepAlone ==
  ASSUME Types, IInv, NEW w \in Losers,
         \/ \E e \in Events : BeginPropagation(w, e)
         \/ \E c \in todo[w] : LockClaim(w, c)
         \/ SkipClaim(w) \/ AppendUnverifiable(w) \/ AuditClaim(w)
         \/ ReadAnswers(w) \/ AuditAnswer(w)
  PROVE  PropagationAlone(w)
<1> USE DEF PropagationAlone, Alone, HeadMoves, pipeline, store, IInv, Shape
<1>0. w \in Workers /\ w # Nobody /\ w # Pipe
  BY WorkersAre
<1>1. CASE \E e \in Events : BeginPropagation(w, e)
  BY <1>0, <1>1 DEF BeginPropagation, Goto, Types, LockTypes
<1>2. CASE \E c \in todo[w] : LockClaim(w, c)
  BY <1>0, <1>2 DEF LockClaim, Goto, Types, LockTypes
<1>3. CASE SkipClaim(w)
  BY <1>0, <1>3, NextClaimTyped DEF SkipClaim
<1>4. CASE AppendUnverifiable(w)
  <2>1. ToNextClaim(w) \/ (UNCHANGED <<todo, seen>> /\ pc' = [pc EXCEPT ![w] = "audit"])
    BY <1>4 DEF AppendUnverifiable, Goto
  <2> QED
    BY <1>0, <1>4, <2>1, NextClaimTyped DEF AppendUnverifiable
<1>5. CASE AuditClaim(w)
  BY <1>0, <1>5, NextClaimTyped DEF AuditClaim, CanLockHead
<1>6. CASE ReadAnswers(w) \/ AuditAnswer(w)
  BY <1>0, <1>6 DEF ReadAnswers, AuditAnswer, propagation, CanLockHead, Goto
<1> QED
  BY <1>1, <1>2, <1>3, <1>4, <1>5, <1>6

LEMMA EndPropagationAlone ==
  ASSUME Types, IInv, NEW w \in Losers, EndPropagation(w), task' = task,
         done' = done \/ (pc[w] # "idle" /\ done' = done \cup {event[w]})
  PROVE  PropagationAlone(w)
  BY WorkersAre DEF EndPropagation, End, PropagationAlone, Alone, HeadMoves, Goto, pipeline,
                    IInv, Shape, Types, LockTypes

LEMMA EntryType ==
  ASSUME NEW c \in Claims, NEW n \in Nat, NEW s \in States, NEW spans \in SUBSET Spans,
         NEW p \in Nat, NEW by \in Events \cup {Pipe}
  PROVE  Entry(c, n, s, spans, p, by) \in Entries
  BY DEF Entry, Entries

LEMMA RecordType ==
  ASSUME NEW e \in Events, NEW t \in Claims \cup {Everything},
         NEW k \in {"recorded", "skipped", "no_claims", "answer", "no_answer"}
  PROVE  Record(e, k, t) \in Records
  BY DEF Record, Records

LEMMA SpansTyped == \A c \in Claims : SpansOf[c] \subseteq Spans
  BY LedgerAssumption

LEMMA ClaimsFinite == Claims \in SUBSET Nat /\ IsFiniteSet(Claims)
  BY LedgerAssumption

LEMMA SequenceOf ==
  ASSUME NEW S \in SUBSET Nat, IsFiniteSet(S)
  PROVE  /\ Enumerates(AsSequence(S), S, Cardinality(S))
         /\ AsSequence(S) \in Seq(S)
<1> DEFINE n == Cardinality(S)
<1>1. n \in Nat
  BY FS_CardinalityType
<1>2. PICK s : Enumerates(s, S, n)
  BY CanEnumerate
<1>3. DOMAIN s = 1 .. n /\ s \in [1 .. n -> S]
  BY <1>2 DEF Enumerates
<1>4. \E r \in [1 .. n -> S] : \A i, j \in DOMAIN r : i < j => r[i] < r[j]
  BY <1>2, <1>3 DEF Enumerates
<1>5. AsSequence(S) = CHOOSE r \in [1 .. n -> S] : \A i, j \in DOMAIN r : i < j => r[i] < r[j]
  BY DEF AsSequence
<1> HIDE DEF n
<1>6. /\ AsSequence(S) \in [1 .. n -> S]
      /\ \A i, j \in DOMAIN AsSequence(S) : i < j => AsSequence(S)[i] < AsSequence(S)[j]
  BY <1>4, <1>5
<1>7. Enumerates(AsSequence(S), S, n)
  BY <1>6 DEF Enumerates
<1>8. AsSequence(S) \in Seq(S)
  BY <1>1, <1>6, SeqDef
<1> QED
  BY <1>7, <1>8 DEF n

LEMMA ListsClaims ==
  ASSUME NEW S \in SUBSET Claims
  PROVE  AsSequence(S) \in Seq(Claims)
<1>1. S \in SUBSET Nat /\ IsFiniteSet(S)
  BY ClaimsFinite, FS_Subset
<1>2. AsSequence(S) \in Seq(S)
  BY <1>1, SequenceOf
<1> QED
  BY <1>2, SeqMonotonic

LEMMA ExtractTypes ==
  ASSUME Types, IInv, Extract
  PROVE  Types'
<1>1. PipelineAlone
  BY PipelineStepAlone
<1> DEFINE new == {Candidate(c) : c \in NewClaims}
<1>2. new \in SUBSET Entries
  BY EntryType, SpansTyped DEF Candidate, NewClaims, States
<1>3. mine'[Pipe] = [mine[Pipe] EXCEPT !.ledger = new]
  BY WorkersAre DEF Extract, IInv, Shape
<1> HIDE DEF new
<1>4. mine'[Pipe] \in Writes
  <2>1. mine[Pipe] \in Writes
    BY DEF Types, PipelineTypes
  <2> QED
    BY <1>2, <1>3, <2>1 DEF Writes
<1>5. pc'[Pipe] = "verify" /\ plan' \in Seq(Claims)
  BY ListsClaims, WorkersAre DEF Extract, Goto, IInv, Shape
<1>6. PipelineTypes'
  BY <1>4, <1>5 DEF Extract, Types, PipelineTypes, Rest
<1>7. Tables' /\ headLock' \in Workers \cup {Nobody} /\ faults' \in 0 .. MaxFaults
  BY WorkersAre DEF Extract, Types, Tables, LockTypes, store
<1> QED
  BY <1>1, <1>6, <1>7, PipelineStepTypes

LEMMA VerifyClaimTypes ==
  ASSUME Types, IInv, NEW i \in DOMAIN plan, VerifyClaim(i)
  PROVE  Types'
<1>1. pc[Pipe] = "verify" /\ plan \in Seq(Claims) /\ pc' = pc
  BY DEF VerifyClaim, Types, PipelineTypes
<1>2. plan[i] \in Claims /\ i \in 1 .. Len(plan) /\ Len(plan) \in Nat
  BY <1>1, ElementOfSeq, LenProperties
<1>3. plan' \in Seq(Claims)
  <2>1. plan' = SubSeq(plan, 1, i - 1) \o SubSeq(plan, i + 1, Len(plan))
    BY DEF VerifyClaim
  <2>2. SubSeq(plan, 1, i - 1) \in Seq(Claims)
    <3>1. \A j \in 1 .. (i - 1) : j \in 1 .. Len(plan)
      BY <1>2
    <3> QED
      BY <1>1, <1>2, <3>1, SubSeqProperties, i - 1 \in Nat
  <2>3. SubSeq(plan, i + 1, Len(plan)) \in Seq(Claims)
    BY <1>1, <1>2, SubSeqProperties
  <2> QED
    BY <2>1, <2>2, <2>3, ConcatProperties
<1>4. /\ keyShare' \subseteq keyShare \cup {plan[i]}
      /\ \A v \in Workers \ {Pipe} : mine'[v] = mine[v]
      /\ mine'[Pipe] \in Writes
  <2>1. CASE HasVersion2(plan[i])
    BY <2>1 DEF VerifyClaim, Types, PipelineTypes
  <2>2. CASE ~HasVersion2(plan[i])
    <3>1. PICK s \in SpansOf[plan[i]] :
            mine' = [mine EXCEPT ![Pipe].ledger = @ \cup {Verification(plan[i], s)}]
      BY <2>2 DEF VerifyClaim
    <3>2. Verification(plan[i], s) \in Entries
      <4>1. {s} \in SUBSET Spans
        BY <1>2, SpansTyped
      <4>2. Outcome(s) \in States
        BY DEF Outcome, States
      <4> QED
        BY <1>2, <4>1, <4>2, EntryType DEF Verification
    <3> DEFINE l == mine[Pipe].ledger \cup {Verification(plan[i], s)}
    <3>3. mine'[Pipe] = [mine[Pipe] EXCEPT !.ledger = l]
      BY <3>1, WorkersAre DEF IInv, Shape
    <3>4. mine[Pipe] \in Writes /\ l \in SUBSET Entries
      BY <3>2 DEF Types, PipelineTypes, Writes
    <3> HIDE DEF l
    <3>5. mine'[Pipe] \in Writes
      BY <3>3, <3>4 DEF Writes
    <3> QED
      BY <2>2, <3>1, <3>5 DEF VerifyClaim
  <2> QED
    BY <2>1, <2>2
<1>5. PipelineAlone
  BY PipelineStepAlone
<1>6. PipelineTypes'
  BY <1>1, <1>2, <1>3, <1>4 DEF VerifyClaim, Types, PipelineTypes, Rest
<1>7. Tables' /\ headLock' \in Workers \cup {Nobody} /\ faults' \in 0 .. MaxFaults
  BY DEF VerifyClaim, Types, Tables, LockTypes, store
<1> QED
  BY <1>5, <1>6, <1>7, PipelineStepTypes

LEMMA AdvanceTypes ==
  ASSUME Types, IInv, AdvanceToCompiling \/ ResumeCompiling
  PROVE  Types'
<1>1. PipelineAlone
  BY PipelineStepAlone
<1>2. plan = <<>> /\ pc'[Pipe] = "select" /\ plan' = plan /\ mine' = mine
  BY WorkersAre DEF AdvanceToCompiling, ResumeCompiling, Goto, IInv, Shape, pipeline, Types,
                    PipelineTypes
<1>3. work' \in TaskRows
  BY DEF AdvanceToCompiling, ResumeCompiling, Types, PipelineTypes, TaskRows, pipeline
<1>4. PipelineTypes'
  BY <1>2, <1>3 DEF AdvanceToCompiling, ResumeCompiling, pipeline, Types, PipelineTypes, Rest
<1>5. Tables' /\ headLock' \in Workers \cup {Nobody} /\ faults' \in 0 .. MaxFaults
  BY WorkersAre DEF AdvanceToCompiling, ResumeCompiling, Types, Tables, LockTypes, store
<1> QED
  BY <1>1, <1>4, <1>5, PipelineStepTypes

\* The latest entry of a claim a transaction sees, where there is one.
LEMMA LatestIn ==
  ASSUME IInv, NEW w \in Workers, NEW c \in Claims, EntriesOf(View(w), c) # {}
  PROVE  Latest(View(w), c) \in EntriesOf(View(w), c)
<1>1. EntriesOf(View(w), c) = Committed(c) \cup Own(w, c)
  BY UnionEntries DEF View, Committed, Own
<1>2. PICK n \in Nat : Good(EntriesOf(View(w), c), n)
  BY <1>1 DEF IInv, Views, Chain
<1> QED
  BY <1>2, LatestIsLast

LEMMA ViewTyped ==
  ASSUME Types, NEW w \in Workers
  PROVE  View(w) \subseteq Entries
<1>1. mine[w] \in Writes
  BY WorkersAre DEF Types, PipelineTypes, PropagationTypes
<1> QED
  BY <1>1 DEF View, Types, Tables, Writes

LEMMA LatestTyped ==
  ASSUME Types, IInv, NEW w \in Workers, NEW c \in Claims, EntriesOf(View(w), c) # {}
  PROVE  Latest(View(w), c).version \in Nat
<1>1. Latest(View(w), c) \in View(w)
  BY LatestIn DEF EntriesOf
<1>2. Latest(View(w), c) \in Entries
  BY <1>1, ViewTyped
<1> QED
  BY <1>2 DEF Entries

LEMMA SelectTypes ==
  ASSUME Types, IInv, SelectVerified
  PROVE  Types'
<1> DEFINE cs == AsSequence({c \in Claims : VerifiedNow(c)})
           rows == [i \in DOMAIN cs |->
                      [claim |-> cs[i], version |-> Latest(View(Pipe), cs[i]).version,
                       span |-> i]]
<1>1. {c \in Claims : VerifiedNow(c)} \in SUBSET Nat /\ IsFiniteSet({c \in Claims : VerifiedNow(c)})
  BY ClaimsFinite, FS_Subset
<1>2. cs \in Seq({c \in Claims : VerifiedNow(c)})
  BY <1>1, SequenceOf
<1>3. DOMAIN cs = 1 .. Len(cs) /\ Len(cs) \in Nat
  BY <1>2, LenProperties
<1>4. \A i \in DOMAIN cs : cs[i] \in Claims /\ VerifiedNow(cs[i])
  BY <1>2, <1>3, ElementOfSeq
<1> HIDE DEF cs
<1>5. \A i \in DOMAIN cs : Latest(View(Pipe), cs[i]).version \in Nat
  BY <1>4, LatestTyped, WorkersAre DEF VerifiedNow
<1>6. rows \in [1 .. Len(cs) -> PlanRows]
  BY <1>3, <1>4, <1>5 DEF PlanRows
<1> HIDE DEF rows
<1>7. rows \in Seq(PlanRows)
  BY <1>3, <1>6, SeqDef
<1>8. plan' = rows /\ pc'[Pipe] = "compile"
  BY WorkersAre DEF SelectVerified, Goto, IInv, Shape, cs, rows
<1>9. PipelineAlone
  BY PipelineStepAlone
<1>10. PipelineTypes'
  BY <1>7, <1>8 DEF SelectVerified, Types, PipelineTypes, Rest
<1>11. Tables' /\ headLock' \in Workers \cup {Nobody} /\ faults' \in 0 .. MaxFaults
  BY DEF SelectVerified, Types, Tables, LockTypes, store
<1> QED
  BY <1>9, <1>10, <1>11, PipelineStepTypes

LEMMA DraftTyped ==
  ASSUME NEW draft \in Seq(SpanRows), NEW row \in PlanRows
  PROVE  LinkAt(SpanAt(draft, row), row) \in Seq(SpanRows)
<1> DEFINE d == SpanAt(draft, row)
           i == row.span
<1>1. row.claim \in Claims /\ row.version \in Nat
  BY DEF PlanRows
<1>2. d \in Seq(SpanRows)
  <2>1. [text |-> row.claim, links |-> {}] \in SpanRows
    BY <1>1 DEF SpanRows
  <2> QED
    BY <2>1, AppendProperties DEF SpanAt
<1> HIDE DEF d, i
<1>3. LinkAt(d, row) = [d EXCEPT ![i].links = @ \cup {<<row.claim, row.version>>}]
  BY DEF LinkAt, i
<1>4. CASE i \in 1 .. Len(d)
  <2>1. d[i] \in SpanRows
    BY <1>2, <1>4, ElementOfSeq
  <2>2. [d[i] EXCEPT !.links = @ \cup {<<row.claim, row.version>>}] \in SpanRows
    BY <1>1, <2>1 DEF SpanRows
  <2>3. LinkAt(d, row) =
          [d EXCEPT ![i] = [d[i] EXCEPT !.links = @ \cup {<<row.claim, row.version>>}]]
    BY <1>3
  <2> DEFINE x == [d[i] EXCEPT !.links = @ \cup {<<row.claim, row.version>>}]
  <2>4. x \in SpanRows /\ LinkAt(d, row) = [d EXCEPT ![i] = x]
    BY <2>2, <2>3
  <2> HIDE DEF x
  <2> QED
    BY <1>2, <1>4, <2>4, ExceptSeq DEF d
<1>5. CASE i \notin 1 .. Len(d)
  <2>1. DOMAIN d = 1 .. Len(d) /\ d \in [1 .. Len(d) -> SpanRows] /\ Len(d) \in Nat
    BY <1>2, LenProperties
  <2>2. LinkAt(d, row) = d
    BY Z3, <1>3, <1>5, <2>1
  <2> QED
    BY <1>2, <2>2 DEF d
<1> QED
  BY <1>4, <1>5

LEMMA CompileSpanTypes ==
  ASSUME Types, IInv, CompileSpan
  PROVE  Types'
<1> DEFINE row == Head(plan)
           draft == LinkAt(SpanAt(work.draft, row), row)
<1>1. pc[Pipe] = "compile" /\ plan \in Seq(PlanRows) /\ plan # <<>> /\ pc' = pc
  BY DEF CompileSpan, Types, PipelineTypes
<1>2. row \in PlanRows /\ Tail(plan) \in Seq(PlanRows)
  BY <1>1, HeadTailProperties
<1>3. work \in TaskRows
  BY DEF Types, PipelineTypes
<1>4. work.draft \in Seq(SpanRows)
  BY <1>3 DEF TaskRows, SpanRows
<1>5. draft \in Seq(SpanRows)
  BY <1>2, <1>4, DraftTyped
<1>6. row.claim \in Claims
  BY <1>2 DEF PlanRows
<1>7. /\ work' \in {work, [work EXCEPT !.draft = draft]}
      /\ keyShare' \in {keyShare, keyShare \cup {row.claim}}
      /\ plan' = Tail(plan) /\ mine' = mine
  BY DEF CompileSpan, store
<1> HIDE DEF row, draft
<1>8. work' \in TaskRows
  BY <1>3, <1>5, <1>7 DEF TaskRows, SpanRows
<1>9. PipelineAlone
  BY PipelineStepAlone
<1>10. PipelineTypes'
  BY <1>1, <1>2, <1>6, <1>7, <1>8 DEF Types, PipelineTypes, Rest
<1>11. Tables' /\ headLock' \in Workers \cup {Nobody} /\ faults' \in 0 .. MaxFaults
  BY DEF CompileSpan, Types, Tables, LockTypes, store
<1> QED
  BY <1>9, <1>10, <1>11, PipelineStepTypes

LEMMA RunGateTypes ==
  ASSUME Types, IInv, RunGate
  PROVE  Types'
<1>1. PipelineAlone
  BY PipelineStepAlone
<1>2. pc'[Pipe] = "commit" /\ plan' = <<>> /\ mine' = mine /\ keyShare' = keyShare
  BY WorkersAre DEF RunGate, Goto, IInv, Shape, store
<1>3. work' \in TaskRows
  BY DEF RunGate, Types, PipelineTypes, TaskRows
<1>4. PipelineTypes'
  BY <1>2, <1>3 DEF Types, PipelineTypes, Rest
<1>5. Tables' /\ headLock' \in Workers \cup {Nobody} /\ faults' \in 0 .. MaxFaults
  BY WorkersAre DEF RunGate, Types, Tables, LockTypes, store
<1> QED
  BY <1>1, <1>4, <1>5, PipelineStepTypes

LEMMA EndPipelineTypes ==
  ASSUME Types, IInv, NEW row \in TaskRows, EndPipeline(row), Tables', done' = done,
         faults' \in 0 .. MaxFaults
  PROVE  Types'
<1>1. PipelineAlone /\ pc'[Pipe] = "idle" /\ mine'[Pipe] = Empty
  BY EndPipelineAlone
<1>2. headLock' # Pipe
  BY WorkersAre DEF EndPipeline, End
<1>3. PipelineTypes'
  BY <1>1, <1>2, EmptyWrites DEF EndPipeline, PipelineTypes, Rest
<1>4. headLock' \in Workers \cup {Nobody}
  BY DEF EndPipeline, End, Types, LockTypes
<1> QED
  BY <1>1, <1>3, <1>4, PipelineStepTypes

\* What a transaction commits has the types of the tables.
LEMMA PublishTyped ==
  ASSUME Types, NEW w \in Workers, Publish(w)
  PROVE  ledger' \subseteq Entries /\ records' \subseteq Records /\ trail' \in Seq(Audits)
<1>1. mine[w] \in Writes
  BY WorkersAre DEF Types, PipelineTypes, PropagationTypes
<1>2. /\ mine[w].ledger \subseteq Entries /\ mine[w].records \subseteq Records
      /\ mine[w].trail \in Seq(Audits)
  BY <1>1 DEF Writes
<1>3. trail' \in Seq(Audits)
  BY <1>2, ConcatProperties DEF Publish, Types, Tables
<1> QED
  BY <1>2, <1>3 DEF Publish, Types, Tables

LEMMA PipelineEndsTypes ==
  ASSUME Types, IInv, CommitPipeline \/ PipelineRaises \/ PipelineCrashes
  PROVE  Types'
<1>1. Pipe \in Workers /\ task \in TaskRows /\ work \in TaskRows
  BY WorkersAre DEF Types, Tables, PipelineTypes
<1>2. faults' \in 0 .. MaxFaults
  BY LedgerAssumption DEF CommitPipeline, PipelineRaises, PipelineCrashes, Fault, Types, LockTypes
<1>3. CASE CommitPipeline
  <2>1. EndPipeline(work) /\ Publish(Pipe) /\ task' = work /\ done' = done
    BY <1>3 DEF CommitPipeline
  <2>2. Tables'
    BY <1>1, <2>1, PublishTyped DEF Tables, Types
  <2> QED
    BY <1>1, <1>2, <2>1, <2>2, EndPipelineTypes
<1>4. CASE PipelineRaises
  <2>1. /\ EndPipeline(task') /\ Publish(Pipe) /\ done' = done
        /\ task' \in {work, [work EXCEPT !.status = "analyzed_partial"]}
    BY <1>4 DEF PipelineRaises
  <2>2. task' \in TaskRows
    BY <1>1, <2>1 DEF TaskRows
  <2>3. Tables'
    BY <1>1, <2>1, <2>2, PublishTyped DEF Tables, Types
  <2>4. PICK row \in TaskRows : row = task'
    BY <2>2
  <2>5. EndPipeline(row)
    BY <2>1, <2>4
  <2> QED
    BY <1>2, <2>1, <2>3, <2>5, EndPipelineTypes
<1>5. CASE PipelineCrashes
  <2>1. EndPipeline(task) /\ UNCHANGED store
    BY <1>5 DEF PipelineCrashes
  <2>2. Tables' /\ done' = done
    BY <2>1 DEF Types, Tables, store
  <2>3. PICK row \in TaskRows : row = task
    BY <1>1
  <2>4. EndPipeline(row)
    BY <2>1, <2>3
  <2> QED
    BY <1>2, <2>2, <2>4, EndPipelineTypes
<1> QED
  BY <1>3, <1>4, <1>5

LEMMA WithdrawTypes ==
  ASSUME Types, IInv, Withdraw
  PROVE  Types'
<1>1. PipelineAlone
  BY PipelineStepAlone
<1>2. task' \in TaskRows /\ work' = task'
  BY DEF Withdraw, Types, Tables, TaskRows
<1>3. PipelineTypes' /\ Tables'
  BY <1>2 DEF Withdraw, Types, Tables, PipelineTypes, Rest
<1>4. headLock' \in Workers \cup {Nobody} /\ faults' \in 0 .. MaxFaults
  BY DEF Withdraw, Types, LockTypes
<1> QED
  BY <1>1, <1>3, <1>4, PipelineStepTypes

LEMMA PipelineTypesKept ==
  ASSUME Types, IInv, PipelineStep \/ PipelineRaises \/ PipelineCrashes \/ Withdraw
  PROVE  Types'
<1>1. CASE Extract
  BY <1>1, ExtractTypes
<1>2. CASE \E i \in DOMAIN plan : VerifyClaim(i)
  BY <1>2, VerifyClaimTypes
<1>3. CASE AdvanceToCompiling \/ ResumeCompiling
  BY <1>3, AdvanceTypes
<1>4. CASE SelectVerified
  BY <1>4, SelectTypes
<1>5. CASE CompileSpan
  BY <1>5, CompileSpanTypes
<1>6. CASE RunGate
  BY <1>6, RunGateTypes
<1>7. CASE CommitPipeline \/ PipelineRaises \/ PipelineCrashes
  BY <1>7, PipelineEndsTypes
<1>8. CASE Withdraw
  BY <1>8, WithdrawTypes
<1> QED
  BY <1>1, <1>2, <1>3, <1>4, <1>5, <1>6, <1>7, <1>8 DEF PipelineStep

-----------------------------------------------------------------------------
(* Types: steps of a propagation                                           *)

LEMMA BeginTypes ==
  ASSUME Types, IInv, NEW w \in Losers, NEW e \in Events, BeginPropagation(w, e)
  PROVE  Types'
<1>0. w \in Workers /\ w # Nobody /\ w # Pipe
  BY WorkersAre
<1>1. PropagationAlone(w)
  BY PropagationStepAlone
<1>2. Linked(e) \subseteq Claims
  BY DEF Linked
<1>3. /\ event'[w] = e /\ e \in Events \ done /\ impact'[w] = Linked(e) /\ todo'[w] = Linked(e)
      /\ seen'[w] \in Nat /\ pc'[w] \in {"claims", "commit"} /\ pc[w] = "idle"
      /\ \A v \in Losers : event[v] # e
  BY <1>0 DEF BeginPropagation, Goto, IInv, Shape, Types, LockTypes, PropagationTypes
<1>4. mine'[w] \in Writes
  <2>1. AddRecord(w, Record(e, "no_claims", Everything)) \in SUBSET Records
    BY RecordType DEF AddRecord
  <2>2. mine[w] \in Writes
    BY DEF Types, PropagationTypes
  <2> DEFINE r == AddRecord(w, Record(e, "no_claims", Everything))
  <2>3. mine'[w] \in {mine[w], [mine[w] EXCEPT !.records = r]}
    BY <1>0 DEF BeginPropagation, IInv, Shape
  <2>4. r \in SUBSET Records
    BY <2>1
  <2> HIDE DEF r
  <2> QED
    BY <2>2, <2>3, <2>4 DEF Writes
<1>5. PropagationTypes(w)'
  BY <1>0, <1>2, <1>3, <1>4 DEF BeginPropagation, PropagationTypes, store, Rest
<1>6. Tables' /\ LockTypes'
  BY DEF BeginPropagation, Types, Tables, LockTypes, store
<1> QED
  BY <1>1, <1>3, <1>5, <1>6, PropagationStepTypes

LEMMA LockClaimTypes ==
  ASSUME Types, IInv, NEW w \in Losers, NEW c \in todo[w], LockClaim(w, c)
  PROVE  Types'
<1>0. w \in Workers /\ w # Nobody /\ w # Pipe /\ c \in Claims /\ todo[w] \subseteq Nat
  BY WorkersAre, ClaimsFinite DEF Types, PropagationTypes
<1>1. PropagationAlone(w)
  BY PropagationStepAlone
<1>2. Current(w) = c /\ Current(w)' = Current(w)
  BY <1>0, CurrentIs DEF LockClaim, Current
<1>3. EntriesOf(View(w), c) # {}
  <2>1. EntriesOf(View(w), c) = Committed(c) \cup EntriesOf(mine[w].ledger, c)
    BY UnionEntries DEF View, Committed
  <2>2. Committed(c) # {}
    BY DEF IInv, ToDo
  <2> QED
    BY <2>1, <2>2
<1>4. Latest(View(w), c).version \in Nat
  BY <1>0, <1>3, LatestTyped
<1>5. seen'[w] \in Nat /\ pc'[w] \in {"skip", "append"} /\ pc[w] = "claims"
  BY <1>0, <1>4 DEF LockClaim, Goto, IInv, Shape
<1>6. PropagationTypes(w)'
  BY <1>0, <1>2, <1>5 DEF LockClaim, Types, PropagationTypes, store, Rest
<1>7. Tables' /\ LockTypes'
  BY <1>0 DEF LockClaim, Types, Tables, LockTypes, store
<1> QED
  BY <1>1, <1>5, <1>6, <1>7, PropagationStepTypes DEF LockClaim

LEMMA SkipTypes ==
  ASSUME Types, IInv, NEW w \in Losers, SkipClaim(w)
  PROVE  Types'
<1>0. w \in Workers /\ w # Nobody /\ w # Pipe /\ ToNextClaim(w) /\ pc[w] = "skip"
  BY WorkersAre DEF SkipClaim
<1>1. PropagationAlone(w)
  BY PropagationStepAlone
<1>2. event[w] \in Events /\ Current(w) \in Claims /\ mine[w] \in Writes
  BY <1>0 DEF Types, PropagationTypes
<1> DEFINE r == mine[w].records \cup AddRecord(w, Record(event[w], "skipped", Current(w)))
<1>3. r \in SUBSET Records
  BY <1>2, RecordType DEF AddRecord, Writes
<1>4. mine'[w] = [mine[w] EXCEPT !.records = r]
  BY <1>0 DEF SkipClaim, IInv, Shape
<1> HIDE DEF r
<1>5. mine'[w] \in Writes
  BY <1>2, <1>3, <1>4 DEF Writes
<1>6. PropagationTypes(w)'
  BY <1>0, <1>5, NextClaimTyped DEF SkipClaim, Types, PropagationTypes, store, Rest
<1>7. Tables' /\ LockTypes'
  BY <1>0, NextClaimTyped DEF SkipClaim, Types, Tables, LockTypes, store
<1> QED
  BY <1>0, <1>1, <1>6, <1>7, PropagationStepTypes DEF SkipClaim

LEMMA AppendTypes ==
  ASSUME Types, IInv, NEW w \in Losers, AppendUnverifiable(w)
  PROVE  Types'
<1> DEFINE q == Record(event[w], "recorded", Current(w))
<1>0. w \in Workers /\ w # Nobody /\ w # Pipe /\ pc[w] = "append"
  BY WorkersAre DEF AppendUnverifiable
<1>1. \/ ToNextClaim(w)
      \/ UNCHANGED <<todo, seen>> /\ pc' = [pc EXCEPT ![w] = "audit"]
  BY DEF AppendUnverifiable, Goto
<1>2. PropagationAlone(w)
  BY PropagationStepAlone
<1>3. /\ event[w] \in Events /\ Current(w) \in Claims /\ Current(w) \in todo[w]
      /\ mine[w] \in Writes /\ seen[w] \in Nat
  BY <1>0 DEF Types, PropagationTypes
<1>4. LostEntry(w) \in Entries
  BY <1>3, EntryType DEF LostEntry, States
<1> DEFINE l == mine[w].ledger \cup {LostEntry(w)}
           r == mine[w].records \cup AddRecord(w, q)
<1>5. l \in SUBSET Entries /\ r \in SUBSET Records
  BY <1>3, <1>4, RecordType DEF AddRecord, Writes
<1>6. mine'[w] = [mine[w] EXCEPT !.ledger = l, !.records = r]
  BY <1>0 DEF AppendUnverifiable, IInv, Shape
<1> HIDE DEF l, r
<1>7. mine'[w] \in Writes
  BY <1>3, <1>5, <1>6 DEF Writes
<1>8. /\ pc'[w] \in {"answers", "claims", "audit"}
      /\ todo'[w] \subseteq todo[w] /\ seen'[w] \in Nat
      /\ pc'[w] = "audit" => todo' = todo
  BY <1>0, <1>1, <1>3, NextClaimTyped DEF IInv, Shape
<1>9. pc'[w] = "audit" => Current(w)' = Current(w)
  BY <1>8 DEF Current
<1>10. PropagationTypes(w)'
  BY <1>0, <1>3, <1>7, <1>8, <1>9 DEF AppendUnverifiable, Types, PropagationTypes, store, Rest
<1>11. Tables' /\ LockTypes'
  BY <1>0, <1>1, NextClaimTyped DEF AppendUnverifiable, Types, Tables, LockTypes, store
<1> QED
  BY <1>0, <1>2, <1>10, <1>11, PropagationStepTypes DEF AppendUnverifiable

LEMMA AuditClaimTypes ==
  ASSUME Types, IInv, NEW w \in Losers, AuditClaim(w)
  PROVE  Types'
<1>0. w \in Workers /\ w # Nobody /\ w # Pipe /\ ToNextClaim(w) /\ pc[w] = "audit"
  BY WorkersAre DEF AuditClaim
<1>1. PropagationAlone(w)
  BY PropagationStepAlone
<1>2. event[w] \in Events /\ Current(w) \in Claims /\ mine[w] \in Writes
  BY <1>0 DEF Types, PropagationTypes
<1> DEFINE s == Append(mine[w].trail, <<event[w], Current(w)>>)
<1>3. s \in Seq(Audits)
  BY <1>2, AppendProperties DEF Audits, Writes
<1>4. mine'[w] = [mine[w] EXCEPT !.trail = s]
  BY <1>0 DEF AuditClaim, IInv, Shape
<1> HIDE DEF s
<1>5. mine'[w] \in Writes
  BY <1>2, <1>3, <1>4 DEF Writes
<1>6. PropagationTypes(w)'
  BY <1>0, <1>5, NextClaimTyped DEF AuditClaim, Types, PropagationTypes, store, Rest
<1>7. Tables' /\ LockTypes'
  BY <1>0, NextClaimTyped DEF AuditClaim, Types, Tables, LockTypes, store
<1> QED
  BY <1>0, <1>1, <1>6, <1>7, PropagationStepTypes DEF AuditClaim

LEMMA AnswerTypes ==
  ASSUME Types, IInv, NEW w \in Losers, ReadAnswers(w) \/ AuditAnswer(w)
  PROVE  Types'
<1>0. /\ w \in Workers /\ w # Nobody /\ w # Pipe /\ pc[w] \in {"answers", "audit_answer"}
      /\ UNCHANGED <<store, pipeline, propagation, faults>>
  BY WorkersAre DEF ReadAnswers, AuditAnswer
<1>1. PropagationAlone(w)
  BY PropagationStepAlone
<1>2. event[w] \in Events /\ mine[w] \in Writes
  BY <1>0 DEF Types, PropagationTypes
<1>3. pc'[w] \in {"audit_answer", "commit"}
  BY <1>0 DEF ReadAnswers, AuditAnswer, Goto, IInv, Shape
<1>4. mine'[w] \in Writes
  <2>1. CASE AuditAnswer(w)
    <3> DEFINE s == Append(mine[w].trail, <<event[w], Everything>>)
    <3>1. s \in Seq(Audits)
      BY <1>2, AppendProperties DEF Audits, Writes
    <3>2. mine'[w] = [mine[w] EXCEPT !.trail = s]
      BY <1>0, <2>1 DEF AuditAnswer, IInv, Shape
    <3> HIDE DEF s
    <3> QED
      BY <1>2, <3>1, <3>2 DEF Writes
  <2>2. CASE ReadAnswers(w)
    <3> DEFINE q == Record(event[w], IF Impacted(w) THEN "answer" ELSE "no_answer", Everything)
               r == mine[w].records \cup AddRecord(w, q)
    <3>1. q \in Records
      BY <1>2, RecordType
    <3>2. r \in SUBSET Records
      BY <1>2, <3>1 DEF AddRecord, Writes
    <3>3. mine'[w] = [mine[w] EXCEPT !.records = r]
      BY <1>0, <2>2 DEF ReadAnswers, IInv, Shape
    <3> HIDE DEF r
    <3> QED
      BY <1>2, <3>2, <3>3 DEF Writes
  <2> QED
    BY <2>1, <2>2
<1>5. PropagationTypes(w)'
  BY <1>0, <1>3, <1>4 DEF Types, PropagationTypes, propagation, store, Rest
<1>6. Tables' /\ LockTypes'
  BY <1>0 DEF ReadAnswers, AuditAnswer, Types, Tables, LockTypes, propagation, store
<1> QED
  BY <1>0, <1>1, <1>5, <1>6, PropagationStepTypes DEF propagation

LEMMA EndPropagationTypes ==
  ASSUME Types, IInv, NEW w \in Losers, EndPropagation(w), Tables', task' = task,
         done' = done \/ (pc[w] # "idle" /\ done' = done \cup {event[w]}),
         faults' \in 0 .. MaxFaults
  PROVE  Types'
<1>0. w \in Workers /\ w # Nobody /\ w # Pipe
  BY WorkersAre
<1>1. PropagationAlone(w)
  BY EndPropagationAlone
<1>2. /\ pc'[w] = "idle" /\ mine'[w] = Empty /\ headLock' # w
      /\ event'[w] = NoEvent /\ impact'[w] = {} /\ todo'[w] = {} /\ seen'[w] = 0
  BY <1>0 DEF EndPropagation, End, Goto, IInv, Shape, Types, LockTypes
<1>3. PropagationTypes(w)'
  BY <1>2, EmptyWrites DEF PropagationTypes, Rest
<1>4. LockTypes'
  BY <1>0 DEF EndPropagation, End, Types, LockTypes
<1> QED
  BY <1>1, <1>2, <1>3, <1>4, PropagationStepTypes

LEMMA PropagationEndsTypes ==
  ASSUME Types, IInv, NEW w \in Losers,
         CommitPropagation(w) \/ PropagationRaises(w) \/ PropagationCrashes(w)
  PROVE  Types'
<1>1. w \in Workers
  BY WorkersAre
<1>2. faults' \in 0 .. MaxFaults
  BY LedgerAssumption DEF CommitPropagation, PropagationRaises, PropagationCrashes, Fault,
                          Types, LockTypes
<1>3. EndPropagation(w) /\ task' = task
  BY DEF CommitPropagation, PropagationRaises, PropagationCrashes, store
<1>4. /\ done' \in {done, done \cup {event[w]}}
      /\ pc[w] = "idle" => done' = done
      /\ done' = done \/ (pc[w] # "idle" /\ done' = done \cup {event[w]})
  BY DEF CommitPropagation, PropagationRaises, PropagationCrashes, store
<1>5. done' \subseteq Events
  BY <1>4 DEF Types, Tables, PropagationTypes
<1>6. CASE PropagationCrashes(w)
  <2>1. Tables'
    BY <1>6 DEF PropagationCrashes, store, Types, Tables
  <2> QED
    BY <1>2, <1>3, <1>4, <2>1, EndPropagationTypes
<1>7. CASE CommitPropagation(w) \/ PropagationRaises(w)
  <2>1. Publish(w)
    BY <1>7 DEF CommitPropagation, PropagationRaises
  <2>2. Tables'
    BY <1>1, <1>3, <1>5, <2>1, PublishTyped DEF Types, Tables
  <2> QED
    BY <1>2, <1>3, <1>4, <2>2, EndPropagationTypes
<1> QED
  BY <1>6, <1>7

LEMMA DeadlockTypes ==
  ASSUME Types, IInv, NEW w \in Workers, NEW v \in Workers, DeadlockAbort(w, v)
  PROVE  Types'
<1>1. Tables' /\ done' = done /\ task' = task /\ faults' \in 0 .. MaxFaults
  BY DEF DeadlockAbort, store, Types, Tables, LockTypes
<1>2. CASE w = Pipe
  <2>1. PICK row \in TaskRows : row = task
    BY DEF Types, Tables
  <2>2. EndPipeline(row)
    BY <1>2, <2>1 DEF DeadlockAbort
  <2> QED
    BY <1>1, <2>2, EndPipelineTypes
<1>3. CASE w # Pipe
  <2>1. w \in Losers /\ EndPropagation(w)
    BY <1>3, WorkersAre DEF DeadlockAbort
  <2> QED
    BY <1>1, <2>1, EndPropagationTypes
<1> QED
  BY <1>2, <1>3

LEMMA NextTypes == Types /\ IInv /\ [Next]_vars => Types'
<1> SUFFICES ASSUME Types, IInv, [Next]_vars PROVE Types'
  OBVIOUS
<1>1. CASE PipelineStep \/ Withdraw
  BY <1>1, PipelineTypesKept
<1>2. CASE \E w \in Losers : PropagationStep(w)
  <2>1. PICK w \in Losers : PropagationStep(w)
    BY <1>2
  <2> QED
    BY <2>1, BeginTypes, LockClaimTypes, SkipTypes, AppendTypes, AuditClaimTypes, AnswerTypes,
       PropagationEndsTypes DEF PropagationStep
<1>3. CASE Failure
  BY <1>3, PipelineTypesKept, PropagationEndsTypes, DeadlockTypes DEF Failure
<1>4. CASE UNCHANGED vars
  <2>1. UNCHANGED <<store, pc, mine, pipeline, propagation, headLock, faults>>
    BY <1>4 DEF vars
  <2>2. /\ Tables' = Tables /\ PipelineTypes' = PipelineTypes /\ Apart' = Apart
        /\ LockTypes' = LockTypes
    BY <2>1 DEF store, pipeline, propagation, Tables, PipelineTypes, Rest, Apart, LockTypes
  <2>3. \A w \in Losers : PropagationTypes(w)' = PropagationTypes(w)
    BY <2>1 DEF store, propagation, PropagationTypes, Rest, Current
  <2> QED
    BY <2>2, <2>3 DEF Types
<1> QED
  BY <1>1, <1>2, <1>3, <1>4 DEF Next, Finished

\* Type correctness.
THEOREM TypeCorrect == Spec => []TypeOK
<1>1. Types => TypeOK
  <2> SUFFICES ASSUME Types PROVE TypeOK
    OBVIOUS
  <2>1. \A w \in Workers : mine[w] \in Writes /\ Rest(w)
    BY WorkersAre DEF Types, PipelineTypes, PropagationTypes
  <2>2. \A w \in Workers : /\ mine[w].ledger \subseteq Entries
                           /\ mine[w].records \subseteq Records
                           /\ pc[w] = "idle" => mine[w] = Empty /\ headLock # w
    BY <2>1 DEF Writes, Rest
  <2> QED
    BY <2>2 DEF Types, Tables, PipelineTypes, PropagationTypes, LockTypes, TypeOK
<1>2. Spec => []Types
  BY InitTypes, NextTypes, InductiveInvariant, PTL DEF Spec
<1> QED
  BY <1>1, <1>2, PTL

-----------------------------------------------------------------------------
(* Records, audits and answers: the invariant                              *)

\* A lost version of c is among the rows.
Lost(rows, c) == \E x \in rows : x.claim = c /\ x.state = "source_lost"

\* What a propagation record says holds of the rows.
Says(r, rows) ==
  /\ r.kind \in {"recorded", "skipped"} => r.target \in Claims /\ Lost(rows, r.target)
  /\ r.kind = "recorded" =>
       \E x \in rows : x.claim = r.target /\ x.by = r.event /\ x.state = "source_lost"
  /\ r.kind = "answer" => r.target = Everything

SlotsDiffer(rs) == \A r, q \in rs : Slot(r) = Slot(q) => r = q

\* The audits the records call for.
CallsForAudit(r) == r.kind \in {"recorded", "answer"}
AuditsOf(rs) == {<<r.event, r.target>> : r \in {q \in rs : CallsForAudit(q)}}

\* s lists the members of S, each once.
Lists(s, S) ==
  /\ {s[i] : i \in DOMAIN s} = S
  /\ \A i, j \in DOMAIN s : s[i] = s[j] => i = j

RecordsOk ==
  /\ SlotsDiffer(records)
  /\ \A r \in records : Says(r, ledger)
  /\ Lists(trail, AuditsOf(records))

\* The audit that goes with the record just added.
Pending(w) ==
  CASE pc[w] = "audit"        -> {<<event[w], Current(w)>>}
    [] pc[w] = "audit_answer" -> {<<event[w], Everything>>}
    [] OTHER                  -> {}

OwnRecords(w) ==
  /\ \A r \in mine[w].records :
       /\ r.event = event[w] /\ Says(r, View(w))
       /\ r.kind = "recorded" => mine[w].ledger # {}
       /\ r.kind \in {"recorded", "skipped"} /\ r.target \in todo[w] =>
            pc[w] = "audit" /\ r.target = Current(w)
  /\ SlotsDiffer(records \cup mine[w].records) /\ records \cap mine[w].records = {}
  /\ Pending(w) \subseteq AuditsOf(mine[w].records)
  /\ Lists(mine[w].trail, AuditsOf(mine[w].records) \ Pending(w))

SkipsLost(w) == pc[w] = "skip" => Lost(ledger, Current(w))

\* Whoever has lost entries to commit holds the head of the audit chain, ...
HeadHeld(w) == mine[w].ledger # {} /\ pc[w] # "audit" => headLock = w

\* ... so that no answer is published after it looked for one.
AnswerRead(w) ==
  pc[w] \in {"audit_answer", "commit"} /\ mine[w].ledger # {} /\ Impacted(w) =>
    Record(event[w], "answer", Everything) \in records \cup mine[w].records

AllSupported(rows, draft) == \A i \in DOMAIN draft : Supported(rows, draft[i])

Judgement ==
  /\ mine[Pipe].records = {} /\ mine[Pipe].trail = <<>>
  /\ pc[Pipe] = "idle" => work = task
  /\ pc[Pipe] # "commit" => work.answer = task.answer
  /\ pc[Pipe] # "idle" => task.status # "judged"
  /\ task.answer # "none" => task.status = "judged"
  /\ pc[Pipe] = "commit" =>
       /\ headLock = Pipe /\ work.status = "judged"
       /\ work.answer = "published" => AllSupported(View(Pipe), work.draft)

RecordsInv ==
  /\ RecordsOk /\ Judgement
  /\ \A w \in Losers : OwnRecords(w) /\ SkipsLost(w) /\ HeadHeld(w) /\ AnswerRead(w)

-----------------------------------------------------------------------------
(* Lists of audits                                                         *)

LEMMA ListsNothing == Lists(<<>>, {})
  BY DEF Lists

LEMMA ListsAppend ==
  ASSUME NEW T, NEW s \in Seq(T), NEW S, Lists(s, S), NEW x \in T, x \notin S
  PROVE  Lists(Append(s, x), S \cup {x})
<1> DEFINE r == Append(s, x)
<1>1. /\ Len(s) \in Nat /\ DOMAIN s = 1 .. Len(s)
      /\ DOMAIN r = 1 .. Len(s) + 1
      /\ \A i \in DOMAIN s : r[i] = s[i]
      /\ r[Len(s) + 1] = x
  <2>1. r \in Seq(T)
    BY AppendProperties
  <2>2. DOMAIN r = 1 .. Len(r) /\ DOMAIN s = 1 .. Len(s) /\ Len(s) \in Nat
    BY <2>1, LenProperties
  <2> QED
    BY <2>2, AppendProperties
<1> HIDE DEF r
<1>2. \A i \in DOMAIN r : i \in DOMAIN s \/ i = Len(s) + 1
  BY <1>1
<1>3. {r[i] : i \in DOMAIN r} = S \cup {x}
  <2>1. ASSUME NEW i \in DOMAIN r PROVE r[i] \in S \cup {x}
    BY <1>1, <1>2 DEF Lists
  <2>2. ASSUME NEW y \in S PROVE \E i \in DOMAIN r : r[i] = y
    <3>1. PICK i \in DOMAIN s : s[i] = y
      BY DEF Lists
    <3> QED
      BY <1>1, <3>1
  <2>3. Len(s) + 1 \in DOMAIN r
    BY <1>1
  <2> QED
    BY <1>1, <2>1, <2>2, <2>3
<1>4. \A i \in DOMAIN s : s[i] # x
  BY DEF Lists
<1>5. \A i, j \in DOMAIN r : r[i] = r[j] => i = j
  BY <1>1, <1>2, <1>4 DEF Lists
<1> QED
  BY <1>3, <1>5 DEF Lists, r

LEMMA ListsBoth ==
  ASSUME NEW T, NEW s \in Seq(T), NEW t \in Seq(T), NEW S, NEW R, Lists(s, S), Lists(t, R),
         S \cap R = {}
  PROVE  Lists(s \o t, S \cup R)
<1> DEFINE r == s \o t
           n == Len(s)
<1>1. /\ n \in Nat /\ Len(t) \in Nat
      /\ DOMAIN s = 1 .. n /\ DOMAIN t = 1 .. Len(t)
      /\ DOMAIN r = 1 .. n + Len(t)
      /\ \A i \in DOMAIN r : r[i] = IF i <= n THEN s[i] ELSE t[i - n]
  <2>1. r \in Seq(T) /\ Len(r) = n + Len(t)
    BY ConcatProperties
  <2>2. DOMAIN r = 1 .. Len(r) /\ DOMAIN s = 1 .. Len(s) /\ DOMAIN t = 1 .. Len(t)
    BY <2>1, LenProperties
  <2>3. \A i \in 1 .. Len(s) + Len(t) : r[i] = IF i <= Len(s) THEN s[i] ELSE t[i - Len(s)]
    BY ConcatProperties
  <2> QED
    BY <2>1, <2>2, <2>3, LenProperties
<1> HIDE DEF r, n
<1>2. \A i \in DOMAIN r : \/ i \in DOMAIN s /\ r[i] = s[i] /\ i <= n
                          \/ i - n \in DOMAIN t /\ r[i] = t[i - n] /\ i > n
  BY <1>1
<1>3. /\ \A i \in DOMAIN s : i \in DOMAIN r /\ r[i] = s[i]
      /\ \A i \in DOMAIN t : n + i \in DOMAIN r /\ r[n + i] = t[i]
  <2>1. ASSUME NEW i \in DOMAIN t PROVE n + i \in DOMAIN r /\ r[n + i] = t[i]
    <3>1. i \in 1 .. Len(t) /\ ~(n + i <= n) /\ (n + i) - n = i
      BY <1>1
    <3> QED
      BY <1>1, <3>1
  <2> QED
    BY <1>1, <2>1
<1>4. {r[i] : i \in DOMAIN r} = S \cup R
  <2>1. ASSUME NEW i \in DOMAIN r PROVE r[i] \in S \cup R
    BY <1>2 DEF Lists
  <2>2. ASSUME NEW y \in S \cup R PROVE \E i \in DOMAIN r : r[i] = y
    <3>1. CASE y \in S
      BY <1>3, <3>1 DEF Lists
    <3>2. CASE y \in R
      <4>1. PICK i \in DOMAIN t : t[i] = y
        BY <3>2 DEF Lists
      <4> QED
        BY <1>3, <4>1
    <3> QED
      BY <3>1, <3>2
  <2> QED
    BY <2>1, <2>2
<1>5. ASSUME NEW i \in DOMAIN r, NEW j \in DOMAIN r, r[i] = r[j] PROVE i = j
  <2>1. i \in Nat /\ j \in Nat
    BY <1>1
  <2>2. CASE i \in DOMAIN s /\ r[i] = s[i] /\ j \in DOMAIN s /\ r[j] = s[j]
    BY <1>5, <2>2 DEF Lists
  <2>3. CASE i - n \in DOMAIN t /\ r[i] = t[i - n] /\ j - n \in DOMAIN t /\ r[j] = t[j - n]
    <3>1. i - n = j - n
      BY <1>5, <2>3 DEF Lists
    <3> QED
      BY <1>1, <2>1, <3>1
  <2>4. ASSUME NEW a \in DOMAIN s, NEW b \in DOMAIN t PROVE s[a] # t[b]
    BY DEF Lists
  <2> QED
    BY <1>2, <1>5, <2>2, <2>3, <2>4
<1> QED
  BY <1>4, <1>5 DEF Lists, r

\* A member of S is listed once, anything else never.
LEMMA ListsCount ==
  ASSUME NEW s, NEW S, Lists(s, S), NEW x
  PROVE  Cardinality({i \in DOMAIN s : s[i] = x}) = IF x \in S THEN 1 ELSE 0
<1>1. CASE x \in S
  <2>1. PICK i \in DOMAIN s : s[i] = x
    BY <1>1 DEF Lists
  <2>2. {j \in DOMAIN s : s[j] = x} = {i}
    BY <2>1 DEF Lists
  <2> QED
    BY <1>1, <2>2, FS_Singleton
<1>2. CASE x \notin S
  <2>1. {j \in DOMAIN s : s[j] = x} = {}
    BY <1>2 DEF Lists
  <2> QED
    BY <1>2, <2>1, FS_EmptySet
<1> QED
  BY <1>1, <1>2

-----------------------------------------------------------------------------
(* Records, audits and answers: what a step of another leaves              *)

LEMMA SaysMore ==
  ASSUME NEW r, NEW rows, NEW more, Says(r, rows), rows \subseteq more
  PROVE  Says(r, more)
  BY DEF Says, Lost

LEMMA AuditsOfBoth == \A a, b : AuditsOf(a \cup b) = AuditsOf(a) \cup AuditsOf(b)
  BY DEF AuditsOf

LEMMA AuditsOfNothing == AuditsOf({}) = {}
  BY DEF AuditsOf

\* Records of another event have other slots.
LEMMA SlotsApart ==
  ASSUME NEW a, NEW b, SlotsDiffer(a), SlotsDiffer(b), \A r \in a, q \in b : Slot(r) # Slot(q)
  PROVE  SlotsDiffer(a \cup b)
  BY DEF SlotsDiffer

LEMMA SlotEvent == \A r, q : Slot(r) = Slot(q) => r.event = q.event
  BY DEF Slot

\* What a step of another does not disturb.
Propagation(v) == OwnRecords(v) /\ SkipsLost(v) /\ HeadHeld(v) /\ AnswerRead(v)

LEMMA OtherKeeps ==
  ASSUME Types, RecordsInv, NEW v \in Losers,
         pc'[v] = pc[v], mine'[v] = mine[v], event'[v] = event[v], impact'[v] = impact[v],
         todo'[v] = todo[v],
         ledger \subseteq ledger', records \subseteq records', SlotsDiffer(records'),
         pc[v] # "idle" => \A r \in records' \ records : r.event # event[v],
         headLock = v => headLock' = v,
         Impacted(v)' => Impacted(v) \/ mine[v].ledger = {} \/ pc[v] = "audit"
  PROVE  Propagation(v)'
<1>0. OwnRecords(v) /\ SkipsLost(v) /\ HeadHeld(v) /\ AnswerRead(v) /\ PropagationTypes(v)
  BY DEF RecordsInv, Types
<1>1. Current(v)' = Current(v) /\ Pending(v)' = Pending(v)
  BY DEF Current, Pending
<1>2. View(v) \subseteq View(v)'
  BY DEF View
<1>3. pc[v] = "idle" => mine[v].records = {}
  BY <1>0 DEF PropagationTypes, Rest, Empty
<1>4. \A r \in records' \ records, q \in mine[v].records : Slot(r) # Slot(q)
  <2>1. ASSUME NEW r \in records' \ records, NEW q \in mine[v].records PROVE Slot(r) # Slot(q)
    <3>1. pc[v] # "idle"
      BY <1>3
    <3>2. q.event = event[v]
      BY <1>0 DEF OwnRecords
    <3>3. r.event # event[v]
      BY <3>1
    <3> QED
      BY <3>2, <3>3, SlotEvent
  <2> QED
    BY <2>1
<1>5. SlotsDiffer(records' \cup mine[v].records)
  <2>1. SlotsDiffer(records \cup mine[v].records)
    BY <1>0 DEF OwnRecords
  <2> QED
    BY <1>4, <2>1 DEF SlotsDiffer
<1>6. records' \cap mine[v].records = {}
  BY <1>0, <1>4 DEF OwnRecords
<1>7. OwnRecords(v)'
  BY <1>0, <1>1, <1>2, <1>5, <1>6, SaysMore DEF OwnRecords
<1>8. SkipsLost(v)'
  BY <1>0, <1>1 DEF SkipsLost, Lost
<1>9. HeadHeld(v)' /\ AnswerRead(v)'
  BY <1>0 DEF HeadHeld, AnswerRead
<1> QED
  BY <1>7, <1>8, <1>9 DEF Propagation

\* A step of the propagation w that commits nothing, or its own.
LEMMA PropagationKeeps ==
  ASSUME Types, RecordsInv, NEW w \in Losers, PropagationAlone(w),
         ledger' = ledger \/ (headLock # Pipe /\ ledger \subseteq ledger'),
         records \subseteq records',
         \A r \in records' \ records : pc[w] # "idle" /\ r.event = event[w],
         RecordsOk', Propagation(w)'
  PROVE  RecordsInv'
<1>1. w \in Workers /\ w # Pipe /\ Pipe \in Workers \ {w} /\ \A v \in Losers : v \in Workers
      /\ Pipe # Nobody
  BY WorkersAre
<1>2. Judgement'
  <2>1. Judgement
    BY DEF RecordsInv
  <2>2. /\ pc'[Pipe] = pc[Pipe] /\ mine'[Pipe] = mine[Pipe]
        /\ task' = task /\ work' = work
        /\ headLock = Pipe => headLock' = Pipe /\ ledger' = ledger
    BY <1>1 DEF PropagationAlone, Alone, HeadMoves
  <2>3. headLock = Pipe => View(Pipe)' = View(Pipe)
    BY <2>2 DEF View
  <2> QED
    BY <2>1, <2>2, <2>3 DEF Judgement
<1>3. ASSUME NEW v \in Losers PROVE Propagation(v)'
  <2>1. CASE v = w
    BY <2>1
  <2>2. CASE v # w
    <3>1. Impacted(v)' => Impacted(v)
      BY <1>1, <2>2 DEF PropagationAlone, Impacted
    <3>2. headLock = v => headLock' = v
      BY <1>1, <2>2, WorkersAre DEF PropagationAlone, Alone, HeadMoves
    <3>3. pc[v] # "idle" => \A r \in records' \ records : r.event # event[v]
      BY <2>2 DEF Types, Apart
    <3>4. SlotsDiffer(records')
      BY DEF RecordsOk
    <3>5. /\ pc'[v] = pc[v] /\ mine'[v] = mine[v] /\ event'[v] = event[v]
          /\ impact'[v] = impact[v] /\ todo'[v] = todo[v] /\ ledger \subseteq ledger'
      BY <1>1, <2>2 DEF PropagationAlone, Alone
    <3> QED
      BY <3>1, <3>2, <3>3, <3>4, <3>5, OtherKeeps
  <2> QED
    BY <2>1, <2>2
<1> QED
  BY <1>2, <1>3 DEF RecordsInv, Propagation

\* A step of the pipeline.
LEMMA PipelineKeeps ==
  ASSUME Types, RecordsInv, PipelineAlone, ledger \subseteq ledger', records' = records,
         trail' = trail, Judgement',
         \A v \in Losers :
           Impacted(v)' => Impacted(v) \/ mine[v].ledger = {} \/ pc[v] = "audit"
  PROVE  RecordsInv'
<1>1. \A v \in Losers : v \in Workers \ {Pipe} /\ v # Nobody
  BY WorkersAre
<1>2. RecordsOk'
  BY SaysMore DEF RecordsInv, RecordsOk
<1>3. ASSUME NEW v \in Losers PROVE Propagation(v)'
  <2>1. headLock = v => headLock' = v
    BY <1>1, WorkersAre DEF PipelineAlone, Alone, HeadMoves
  <2>2. SlotsDiffer(records')
    BY <1>2 DEF RecordsOk
  <2>3. /\ pc'[v] = pc[v] /\ mine'[v] = mine[v] /\ event'[v] = event[v]
        /\ impact'[v] = impact[v] /\ todo'[v] = todo[v]
    BY <1>1 DEF PipelineAlone, Alone
  <2> QED
    BY <2>1, <2>2, <2>3, OtherKeeps
<1> QED
  BY <1>2, <1>3 DEF RecordsInv, Propagation

-----------------------------------------------------------------------------
(* Records, audits and answers: steps of a propagation                     *)

LEMMA AddSlots ==
  ASSUME NEW w, NEW q, SlotsDiffer(records \cup mine[w].records),
         records \cap mine[w].records = {}
  PROVE  /\ SlotsDiffer(records \cup (mine[w].records \cup AddRecord(w, q)))
         /\ records \cap (mine[w].records \cup AddRecord(w, q)) = {}
<1>1. CASE Taken(w, q)
  BY <1>1 DEF AddRecord
<1>2. CASE ~Taken(w, q)
  <2>1. \A r \in records \cup mine[w].records : Slot(r) # Slot(q)
    BY <1>2 DEF Taken
  <2>2. AddRecord(w, q) = {q}
    BY <1>2 DEF AddRecord
  <2> QED
    BY <2>1, <2>2 DEF SlotsDiffer
<1> QED
  BY <1>1, <1>2

LEMMA AuditsOfOne ==
  ASSUME NEW rs, NEW q
  PROVE  AuditsOf(rs \cup {q}) =
           IF CallsForAudit(q) THEN AuditsOf(rs) \cup {<<q.event, q.target>>} ELSE AuditsOf(rs)
  BY DEF AuditsOf

LEMMA NotAClaim == Everything \notin Claims
  BY LedgerAssumption DEF Everything

LEMMA Parts ==
  ASSUME RecordsInv, NEW w \in Losers
  PROVE  /\ OwnRecords(w) /\ SkipsLost(w) /\ HeadHeld(w) /\ AnswerRead(w)
         /\ RecordsOk /\ Judgement
  BY DEF RecordsInv

LEMMA SameRecordsOk ==
  ASSUME RecordsOk, UNCHANGED store
  PROVE  RecordsOk'
  BY DEF RecordsOk, store

LEMMA BeginKeeps ==
  ASSUME Types, IInv, RecordsInv, NEW w \in Losers, NEW e \in Events, BeginPropagation(w, e),
         PropagationAlone(w)
  PROVE  RecordsInv'
<1> DEFINE q == Record(e, "no_claims", Everything)
<1>1. /\ w \in Workers /\ pc[w] = "idle" /\ mine[w] = Empty
      /\ UNCHANGED store
  BY WorkersAre DEF BeginPropagation, Types, PropagationTypes, Rest
<1>2. /\ event'[w] = e /\ mine'[w].ledger = {} /\ mine'[w].trail = <<>>
      /\ mine'[w].records \in {{}, AddRecord(w, q)}
      /\ pc'[w] \in {"claims", "commit"}
  BY <1>1 DEF BeginPropagation, Goto, IInv, Shape, Types, LockTypes, Empty
<1>3. /\ SlotsDiffer(records \cup mine[w].records) /\ records \cap mine[w].records = {}
      /\ mine[w].records = {}
  <2>1. OwnRecords(w)
    BY Parts
  <2>2. mine[w].records = {}
    BY <1>1 DEF Empty
  <2> QED
    BY <2>1, <2>2 DEF OwnRecords
<1>4. /\ SlotsDiffer(records \cup mine'[w].records)
      /\ records \cap mine'[w].records = {}
  <2> HIDE DEF q
  <2>1. /\ SlotsDiffer(records \cup (mine[w].records \cup AddRecord(w, q)))
        /\ records \cap (mine[w].records \cup AddRecord(w, q)) = {}
    BY <1>3, AddSlots
  <2> QED
    BY <1>2, <1>3, <2>1
<1>5. /\ q.event = e /\ q.kind = "no_claims" /\ ~CallsForAudit(q)
      /\ \A rows : Says(q, rows)
  BY DEF Record, CallsForAudit, Says
<1> HIDE DEF q
<1>6. \A r \in mine'[w].records : r = q
  BY <1>2 DEF AddRecord
<1>7. AuditsOf(mine'[w].records) = {}
  BY <1>5, <1>6 DEF AuditsOf
<1>8. Pending(w)' = {}
  BY <1>2 DEF Pending
<1>9. OwnRecords(w)'
  BY <1>1, <1>2, <1>4, <1>5, <1>6, <1>7, <1>8, ListsNothing DEF OwnRecords, store
<1>10. SkipsLost(w)' /\ HeadHeld(w)' /\ AnswerRead(w)'
  BY <1>2 DEF SkipsLost, HeadHeld, AnswerRead
<1>11. RecordsOk'
  BY <1>1, Parts, SameRecordsOk
<1> QED
  BY <1>1, <1>9, <1>10, <1>11, PropagationKeeps DEF Propagation, store

LEMMA LockClaimKeeps ==
  ASSUME Types, IInv, RecordsInv, NEW w \in Losers, NEW c \in todo[w], LockClaim(w, c),
         PropagationAlone(w)
  PROVE  RecordsInv'
<1>1. /\ w \in Workers /\ c \in Claims /\ todo[w] \subseteq Nat /\ pc[w] = "claims"
      /\ UNCHANGED <<store, mine, event, impact, todo, headLock>>
      /\ OwnRecords(w) /\ SkipsLost(w) /\ HeadHeld(w) /\ AnswerRead(w) /\ RecordsOk
  BY WorkersAre, ClaimsFinite, Parts DEF LockClaim, Types, PropagationTypes
<1>2. Current(w) = c /\ Current(w)' = Current(w)
  BY <1>1, CurrentIs DEF LockClaim, Current
<1>3. pc'[w] = IF Latest(View(w), c).state = "source_lost" THEN "skip" ELSE "append"
  BY <1>1 DEF LockClaim, Goto, IInv, Shape
<1>4. EntriesOf(View(w), c) = Committed(c) /\ Committed(c) # {}
  <2>1. EntriesOf(View(w), c) = Committed(c) \cup Own(w, c)
    BY UnionEntries DEF View, Committed, Own
  <2> QED
    BY <1>1, <2>1 DEF IInv, ToDo
<1>5. Latest(View(w), c) \in Committed(c)
  BY <1>1, <1>4, LatestIn
<1>6. SkipsLost(w)'
  <2>1. Latest(View(w), c) \in ledger /\ Latest(View(w), c).claim = c
    BY <1>5 DEF Committed, EntriesOf
  <2>2. Latest(View(w), c).state = "source_lost" => Lost(ledger, c)
    BY <2>1 DEF Lost
  <2> QED
    BY <1>1, <1>2, <1>3, <2>2 DEF SkipsLost, store
<1>7. Pending(w)' = Pending(w) /\ View(w)' = View(w)
  BY <1>1, <1>3 DEF Pending, View, store
<1>8. OwnRecords(w)'
  BY <1>1, <1>7 DEF OwnRecords, store
<1>9. HeadHeld(w)' /\ AnswerRead(w)'
  BY <1>1, <1>3 DEF HeadHeld, AnswerRead
<1>10. RecordsOk'
  BY <1>1, SameRecordsOk
<1> QED
  BY <1>1, <1>6, <1>8, <1>9, <1>10, PropagationKeeps DEF Propagation, store

LEMMA SkipKeeps ==
  ASSUME Types, IInv, RecordsInv, NEW w \in Losers, SkipClaim(w), PropagationAlone(w)
  PROVE  RecordsInv'
<1> DEFINE c == Current(w)
           q == Record(event[w], "skipped", c)
<1>1. /\ w \in Workers /\ pc[w] = "skip" /\ ToNextClaim(w)
      /\ UNCHANGED <<store, event, impact, headLock>>
      /\ OwnRecords(w) /\ SkipsLost(w) /\ HeadHeld(w) /\ AnswerRead(w) /\ RecordsOk
  BY WorkersAre, Parts DEF SkipClaim
<1>2. /\ mine'[w].ledger = mine[w].ledger /\ mine'[w].trail = mine[w].trail
      /\ mine'[w].records = mine[w].records \cup AddRecord(w, q)
      /\ pc'[w] \in {"answers", "claims"}
      /\ todo'[w] = todo[w] \ {c}
  BY <1>1 DEF SkipClaim, ToNextClaim, Goto, IInv, Shape
<1>3. c \in Claims /\ Lost(ledger, c)
  BY <1>1 DEF SkipsLost, Types, PropagationTypes
<1>4. /\ q.event = event[w] /\ q.kind = "skipped" /\ q.target = c /\ ~CallsForAudit(q)
      /\ Says(q, View(w))
  BY <1>3 DEF Record, CallsForAudit, Says, View, Lost
<1> HIDE DEF q, c
<1>5. AddRecord(w, q) \in {{}, {q}}
  BY DEF AddRecord
<1>6. AuditsOf(mine'[w].records) = AuditsOf(mine[w].records)
  BY <1>2, <1>4, <1>5, AuditsOfOne
<1>7. /\ SlotsDiffer(records \cup mine'[w].records)
      /\ records \cap mine'[w].records = {}
  BY <1>1, <1>2, AddSlots DEF OwnRecords
<1>8. Pending(w)' = {} /\ Pending(w) = {} /\ View(w)' = View(w)
  BY <1>1, <1>2 DEF Pending, View, store
<1>9. \A r \in mine'[w].records :
        /\ r.event = event[w] /\ Says(r, View(w))
        /\ r.kind = "recorded" => mine[w].ledger # {}
        /\ r.kind \in {"recorded", "skipped"} => r.target \notin todo'[w]
  BY <1>1, <1>2, <1>4, <1>5 DEF OwnRecords
<1>10. OwnRecords(w)'
  BY <1>1, <1>2, <1>6, <1>7, <1>8, <1>9 DEF OwnRecords, store
<1>11. SkipsLost(w)' /\ HeadHeld(w)' /\ AnswerRead(w)'
  BY <1>1, <1>2 DEF SkipsLost, HeadHeld, AnswerRead
<1>12. RecordsOk'
  BY <1>1, SameRecordsOk
<1> QED
  BY <1>1, <1>10, <1>11, <1>12, PropagationKeeps DEF Propagation, store

\* No record of the claim is there when a propagation appends to it.
LEMMA NotTaken ==
  ASSUME Types, IInv, RecordsInv, NEW w \in Losers, pc[w] = "append"
  PROVE  ~Taken(w, Record(event[w], "recorded", Current(w)))
<1> SUFFICES ASSUME NEW q \in records \cup mine[w].records,
                    Slot(q) = Slot(Record(event[w], "recorded", Current(w)))
             PROVE  FALSE
  BY DEF Taken
<1>1. q.kind \in {"recorded", "skipped"} /\ q.target = Current(w)
  BY DEF Slot, Record
<1>2. Current(w) \in todo[w] /\ \A x \in Committed(Current(w)) : x.state # "source_lost"
  BY DEF IInv, Reading
<1>3. ~Lost(ledger, Current(w))
  BY <1>2 DEF Lost, Committed, EntriesOf
<1>4. CASE q \in records
  BY <1>1, <1>3, <1>4, Parts DEF RecordsOk, Says
<1>5. CASE q \in mine[w].records
  BY <1>1, <1>2, <1>5, Parts DEF OwnRecords
<1> QED
  BY <1>4, <1>5

LEMMA AppendKeeps ==
  ASSUME Types, IInv, RecordsInv, NEW w \in Losers, AppendUnverifiable(w), PropagationAlone(w)
  PROVE  RecordsInv'
<1> DEFINE c == Current(w)
           q == Record(event[w], "recorded", c)
           x == LostEntry(w)
<1>1. /\ w \in Workers /\ pc[w] = "append" /\ ~Taken(w, q)
      /\ UNCHANGED <<store, event, impact, headLock>>
      /\ OwnRecords(w) /\ SkipsLost(w) /\ HeadHeld(w) /\ AnswerRead(w) /\ RecordsOk
  BY WorkersAre, Parts, NotTaken DEF AppendUnverifiable
<1>2. /\ mine'[w].ledger = mine[w].ledger \cup {x} /\ mine'[w].trail = mine[w].trail
      /\ mine'[w].records = mine[w].records \cup {q}
      /\ pc'[w] = "audit" /\ todo' = todo
  BY <1>1 DEF AppendUnverifiable, AddRecord, Goto, IInv, Shape
<1>3. /\ x.claim = c /\ x.state = "source_lost" /\ x.by = event[w]
      /\ c \in Claims /\ c \in todo[w] /\ Current(w)' = c
  BY <1>1, <1>2 DEF LostEntry, Entry, Types, PropagationTypes, Current
<1>4. /\ q.event = event[w] /\ q.kind = "recorded" /\ q.target = c /\ CallsForAudit(q)
  BY DEF Record, CallsForAudit
<1>5. /\ SlotsDiffer(records \cup mine'[w].records)
      /\ records \cap mine'[w].records = {}
  <2>1. AddRecord(w, q) = {q}
    BY <1>1 DEF AddRecord
  <2>2. SlotsDiffer(records \cup mine[w].records) /\ records \cap mine[w].records = {}
    BY <1>1 DEF OwnRecords
  <2> HIDE DEF q
  <2> QED
    BY <1>2, <2>1, <2>2, AddSlots
<1>6. <<event[w], c>> \notin AuditsOf(mine[w].records)
  <2> SUFFICES ASSUME <<event[w], c>> \in AuditsOf(mine[w].records) PROVE FALSE
    OBVIOUS
  <2>1. PICK r \in mine[w].records : r.event = event[w] /\ r.target = c /\ r.kind = "recorded"
    <3> DEFINE rs == mine[w].records
    <3>0. <<event[w], c>> \in AuditsOf(rs)
      OBVIOUS
    <3>1. \A r \in rs : Says(r, View(w))
      BY <1>1 DEF OwnRecords
    <3> HIDE DEF rs, c
    <3>2. \E r \in rs : /\ r.event = event[w] /\ r.target = c
                     /\ \/ r.kind = "recorded" /\ c \in Claims
                        \/ r.kind = "answer" /\ c = Everything
      BY <3>0, <3>1 DEF AuditsOf, CallsForAudit, Says
    <3> QED
      BY <1>3, <3>2, NotAClaim DEF rs, c
  <2>2. Slot(r) = Slot(q)
    BY <1>4, <2>1 DEF Slot
  <2> QED
    BY <1>1, <2>2 DEF Taken
<1> HIDE DEF c, q, x
<1>7. View(w)' = View(w) \cup {x}
  BY <1>1, <1>2 DEF View, store
<1>8. Says(q, View(w)')
  BY <1>3, <1>4, <1>7 DEF Says, Lost
<1>9. AuditsOf(mine'[w].records) = AuditsOf(mine[w].records) \cup {<<event[w], c>>}
  BY <1>2, <1>4, AuditsOfOne
<1>10. Pending(w)' = {<<event[w], c>>} /\ Pending(w) = {}
  BY <1>1, <1>2, <1>3 DEF Pending
<1>11. AuditsOf(mine'[w].records) \ Pending(w)' = AuditsOf(mine[w].records)
  BY <1>6, <1>9, <1>10
<1>12. \A r \in mine'[w].records :
         /\ r.event = event[w] /\ Says(r, View(w)')
         /\ r.kind \in {"recorded", "skipped"} /\ r.target \in todo[w] => r.target = c
  BY <1>1, <1>2, <1>4, <1>7, <1>8, SaysMore DEF OwnRecords
<1>13. mine'[w].ledger # {}
  BY <1>2
<1>14. Pending(w)' \subseteq AuditsOf(mine'[w].records)
  BY <1>9, <1>10
<1>15. Lists(mine'[w].trail, AuditsOf(mine'[w].records) \ Pending(w)')
  BY <1>1, <1>2, <1>10, <1>11 DEF OwnRecords
<1>16. OwnRecords(w)'
  BY <1>1, <1>2, <1>3, <1>5, <1>12, <1>13, <1>14, <1>15 DEF OwnRecords, store
<1>17. SkipsLost(w)' /\ HeadHeld(w)' /\ AnswerRead(w)'
  BY <1>2 DEF SkipsLost, HeadHeld, AnswerRead
<1>18. RecordsOk'
  BY <1>1, SameRecordsOk
<1> QED
  BY <1>1, <1>16, <1>17, <1>18, PropagationKeeps DEF Propagation, store

LEMMA AuditClaimKeeps ==
  ASSUME Types, IInv, RecordsInv, NEW w \in Losers, AuditClaim(w), PropagationAlone(w)
  PROVE  RecordsInv'
<1> DEFINE c == Current(w)
           a == <<event[w], c>>
           as == AuditsOf(mine[w].records)
<1>1. /\ w \in Workers /\ pc[w] = "audit" /\ ToNextClaim(w) /\ headLock' = w
      /\ UNCHANGED <<store, event, impact>>
      /\ OwnRecords(w) /\ RecordsOk
  BY WorkersAre, Parts DEF AuditClaim
<1>2. /\ mine'[w].ledger = mine[w].ledger /\ mine'[w].records = mine[w].records
      /\ mine'[w].trail = Append(mine[w].trail, a)
      /\ pc'[w] \in {"answers", "claims"}
      /\ todo'[w] = todo[w] \ {c}
  BY <1>1 DEF AuditClaim, ToNextClaim, Goto, IInv, Shape
<1>3. mine[w].trail \in Seq(Audits) /\ a \in Audits
  BY <1>1 DEF Types, PropagationTypes, Writes, Audits
<1>4. Pending(w)' = {} /\ Pending(w) = {a} /\ View(w)' = View(w)
  BY <1>1, <1>2 DEF Pending, View, store
<1>5. a \in as /\ Lists(mine[w].trail, as \ {a})
  BY <1>1, <1>4 DEF OwnRecords
<1> HIDE DEF a, as
<1>6. Lists(mine'[w].trail, (as \ {a}) \cup {a})
  <2> DEFINE s == mine[w].trail
             S == as \ {a}
  <2>1. s \in Seq(Audits) /\ Lists(s, S) /\ a \in Audits /\ a \notin S
    BY <1>3, <1>5
  <2> HIDE DEF s, S
  <2>2. Lists(Append(s, a), S \cup {a})
    BY <2>1, ListsAppend
  <2> QED
    BY <1>2, <2>2 DEF s, S
<1>7. (as \ {a}) \cup {a} = as \ Pending(w)'
  BY <1>4, <1>5
<1>8. Lists(mine'[w].trail, as \ Pending(w)')
  BY <1>6, <1>7
<1>9. OwnRecords(w)'
  BY <1>1, <1>2, <1>4, <1>8 DEF OwnRecords, store, as
<1>10. SkipsLost(w)' /\ HeadHeld(w)' /\ AnswerRead(w)'
  BY <1>1, <1>2 DEF SkipsLost, HeadHeld, AnswerRead
<1>11. RecordsOk'
  BY <1>1, SameRecordsOk
<1> QED
  BY <1>1, <1>9, <1>10, <1>11, PropagationKeeps DEF Propagation, store

\* The record of an answer is the only one in its slot.
LEMMA AnswerSlot ==
  ASSUME NEW r \in Records, NEW e, Slot(r) = Slot(Record(e, "answer", Everything))
  PROVE  r = Record(e, "answer", Everything)
<1>1. r.event = e /\ r.target = Everything /\ r.kind = "answer"
  BY DEF Slot, Record
<1>2. r = [event |-> r.event, kind |-> r.kind, target |-> r.target]
  BY DEF Records
<1> QED
  BY <1>1, <1>2 DEF Record

LEMMA ReadAnswersKeeps ==
  ASSUME Types, IInv, RecordsInv, NEW w \in Losers, ReadAnswers(w), PropagationAlone(w)
  PROVE  RecordsInv'
<1> DEFINE q == Record(event[w], IF Impacted(w) THEN "answer" ELSE "no_answer", Everything)
           a == <<event[w], Everything>>
           as == AuditsOf(mine[w].records)
<1>1. /\ w \in Workers /\ pc[w] = "answers"
      /\ UNCHANGED <<store, event, impact, todo, headLock>>
      /\ OwnRecords(w) /\ HeadHeld(w) /\ RecordsOk
  BY WorkersAre, Parts DEF ReadAnswers, propagation
<1>2. /\ mine'[w].ledger = mine[w].ledger /\ mine'[w].trail = mine[w].trail
      /\ mine'[w].records = mine[w].records \cup AddRecord(w, q)
      /\ pc'[w] = IF Impacted(w) /\ ~Taken(w, q) THEN "audit_answer" ELSE "commit"
  BY <1>1 DEF ReadAnswers, Goto, IInv, Shape
<1>3. /\ q.event = event[w] /\ q.target = Everything
      /\ q.kind = IF Impacted(w) THEN "answer" ELSE "no_answer"
      /\ CallsForAudit(q) <=> Impacted(w)
      /\ Says(q, View(w))
  BY DEF Record, CallsForAudit, Says
<1>4. Impacted(w)' = Impacted(w) /\ View(w)' = View(w) /\ Pending(w) = {}
  BY <1>1, <1>2 DEF Impacted, View, Pending, store
<1>5. Taken(w, q) /\ Impacted(w) =>
        Record(event[w], "answer", Everything) \in records \cup mine[w].records
  <2> SUFFICES ASSUME Taken(w, q), Impacted(w)
               PROVE  Record(event[w], "answer", Everything) \in records \cup mine[w].records
    OBVIOUS
  <2>1. q = Record(event[w], "answer", Everything)
    OBVIOUS
  <2>2. PICK r \in records \cup mine[w].records : Slot(r) = Slot(q)
    BY DEF Taken
  <2>3. r \in Records
    BY DEF Types, Tables, PropagationTypes, Writes
  <2> QED
    BY <2>1, <2>2, <2>3, AnswerSlot
<1>6. ~Taken(w, q) => q \in mine'[w].records
  BY <1>2 DEF AddRecord
<1>7. AnswerRead(w)'
  BY <1>1, <1>2, <1>4, <1>5, <1>6 DEF AnswerRead, store
<1>8. a \in as /\ Impacted(w) => Taken(w, q)
  <2> SUFFICES ASSUME a \in as, Impacted(w) PROVE Taken(w, q)
    OBVIOUS
  <2>1. \A r \in mine[w].records : Says(r, View(w))
    BY <1>1 DEF OwnRecords
  <2>2. PICK r \in mine[w].records :
          r.event = event[w] /\ r.target = Everything /\ r.kind = "answer"
    BY <2>1, NotAClaim DEF AuditsOf, CallsForAudit, Says
  <2>3. Slot(r) = Slot(q)
    BY <1>3, <2>2 DEF Slot
  <2> QED
    BY <2>3 DEF Taken
<1> HIDE DEF q
<1>9. /\ SlotsDiffer(records \cup mine'[w].records)
      /\ records \cap mine'[w].records = {}
  BY <1>1, <1>2, AddSlots DEF OwnRecords
<1>10. \A r \in mine'[w].records :
         /\ r.event = event[w] /\ Says(r, View(w))
         /\ r.kind = "recorded" => mine[w].ledger # {}
         /\ r.kind \in {"recorded", "skipped"} => r.target \notin todo[w]
  BY <1>1, <1>2, <1>3 DEF OwnRecords, AddRecord
<1>11. Lists(mine[w].trail, as)
  BY <1>1, <1>4 DEF OwnRecords
<1>12. /\ Pending(w)' \subseteq AuditsOf(mine'[w].records)
       /\ AuditsOf(mine'[w].records) \ Pending(w)' = as
  <2>1. CASE Impacted(w) /\ ~Taken(w, q)
    <3>1. mine'[w].records = mine[w].records \cup {q}
      BY <1>2, <2>1 DEF AddRecord
    <3>2. AuditsOf(mine'[w].records) = as \cup {a}
      <4>1. AuditsOf(mine[w].records \cup {q}) =
              IF CallsForAudit(q) THEN as \cup {<<q.event, q.target>>} ELSE as
        BY AuditsOfOne
      <4> QED
        BY <1>3, <2>1, <3>1, <4>1
    <3>3. Pending(w)' = {a}
      BY <1>1, <1>2, <2>1 DEF Pending
    <3> QED
      BY <1>8, <2>1, <3>2, <3>3
  <2>2. CASE ~(Impacted(w) /\ ~Taken(w, q))
    <3>1. \/ mine'[w].records = mine[w].records
          \/ mine'[w].records = mine[w].records \cup {q} /\ ~Impacted(w)
      BY <1>2, <2>2 DEF AddRecord
    <3>2. AuditsOf(mine'[w].records) = as
      BY <1>3, <3>1, AuditsOfOne
    <3>3. Pending(w)' = {}
      BY <1>2, <2>2 DEF Pending
    <3> QED
      BY <3>2, <3>3
  <2> QED
    BY <2>1, <2>2
<1>13. OwnRecords(w)'
  BY <1>1, <1>2, <1>4, <1>9, <1>10, <1>11, <1>12 DEF OwnRecords, store
<1>14. SkipsLost(w)' /\ HeadHeld(w)'
  BY <1>1, <1>2 DEF SkipsLost, HeadHeld
<1>15. RecordsOk'
  BY <1>1, SameRecordsOk
<1> QED
  BY <1>1, <1>7, <1>13, <1>14, <1>15, PropagationKeeps DEF Propagation, store

LEMMA AuditAnswerKeeps ==
  ASSUME Types, IInv, RecordsInv, NEW w \in Losers, AuditAnswer(w), PropagationAlone(w)
  PROVE  RecordsInv'
<1> DEFINE a == <<event[w], Everything>>
           as == AuditsOf(mine[w].records)
<1>1. /\ w \in Workers /\ pc[w] = "audit_answer" /\ headLock' = w
      /\ UNCHANGED <<store, event, impact, todo>>
      /\ OwnRecords(w) /\ AnswerRead(w) /\ RecordsOk
  BY WorkersAre, Parts DEF AuditAnswer, propagation
<1>2. /\ mine'[w].ledger = mine[w].ledger /\ mine'[w].records = mine[w].records
      /\ mine'[w].trail = Append(mine[w].trail, a)
      /\ pc'[w] = "commit"
  BY <1>1 DEF AuditAnswer, Goto, IInv, Shape
<1>3. mine[w].trail \in Seq(Audits) /\ a \in Audits
  BY <1>1 DEF Types, PropagationTypes, Writes, Audits
<1>4. Pending(w)' = {} /\ Pending(w) = {a} /\ View(w)' = View(w) /\ Impacted(w)' = Impacted(w)
  BY <1>1, <1>2 DEF Pending, View, Impacted, store
<1>5. a \in as /\ Lists(mine[w].trail, as \ {a})
  BY <1>1, <1>4 DEF OwnRecords
<1> HIDE DEF a, as
<1>6. Lists(mine'[w].trail, (as \ {a}) \cup {a})
  <2> DEFINE s == mine[w].trail
             S == as \ {a}
  <2>1. s \in Seq(Audits) /\ Lists(s, S) /\ a \in Audits /\ a \notin S
    BY <1>3, <1>5
  <2> HIDE DEF s, S
  <2>2. Lists(Append(s, a), S \cup {a})
    BY <2>1, ListsAppend
  <2> QED
    BY <1>2, <2>2 DEF s, S
<1>7. (as \ {a}) \cup {a} = as \ Pending(w)'
  BY <1>4, <1>5
<1>8. Lists(mine'[w].trail, as \ Pending(w)')
  BY <1>6, <1>7
<1>9. OwnRecords(w)'
  BY <1>1, <1>2, <1>4, <1>8 DEF OwnRecords, store, as
<1>10. SkipsLost(w)' /\ HeadHeld(w)' /\ AnswerRead(w)'
  BY <1>1, <1>2, <1>4 DEF SkipsLost, HeadHeld, AnswerRead, store
<1>11. RecordsOk'
  BY <1>1, SameRecordsOk
<1> QED
  BY <1>1, <1>9, <1>10, <1>11, PropagationKeeps DEF Propagation, store

\* The audits of the committed records and of a transaction's own are apart.
LEMMA AuditsApart ==
  ASSUME RecordsInv, NEW w \in Losers
  PROVE  AuditsOf(records) \cap AuditsOf(mine[w].records) = {}
<1> SUFFICES ASSUME NEW r \in records, NEW q \in mine[w].records, CallsForAudit(r),
                    CallsForAudit(q), r.event = q.event, r.target = q.target
             PROVE  FALSE
  BY DEF AuditsOf
<1>1. OwnRecords(w) /\ RecordsOk
  BY Parts
<1>2. Says(r, ledger) /\ Says(q, View(w))
  BY <1>1 DEF OwnRecords, RecordsOk
<1>3. r.kind = q.kind
  BY <1>2, NotAClaim DEF Says, CallsForAudit
<1>4. r = q
  BY <1>1, <1>3 DEF OwnRecords, SlotsDiffer, Slot
<1> QED
  BY <1>1, <1>4 DEF OwnRecords

LEMMA PublishKeepsRecords ==
  ASSUME Types, RecordsInv, NEW w \in Losers, Publish(w), pc[w] \in {"claims", "answers", "commit"}
  PROVE  RecordsOk'
<1>1. OwnRecords(w) /\ RecordsOk /\ Pending(w) = {}
  BY Parts DEF Pending
<1>2. ledger' = View(w) /\ records' = records \cup mine[w].records
  BY DEF Publish, View
<1>3. \A r \in records' : Says(r, ledger')
  <2>1. ASSUME NEW r \in records PROVE Says(r, ledger')
    BY <1>1, <1>2, SaysMore DEF RecordsOk, View
  <2>2. ASSUME NEW r \in mine[w].records PROVE Says(r, ledger')
    BY <1>1, <1>2 DEF OwnRecords
  <2> QED
    BY <1>2, <2>1, <2>2
<1>4. SlotsDiffer(records')
  BY <1>1, <1>2 DEF OwnRecords
<1>5. trail \in Seq(Audits) /\ mine[w].trail \in Seq(Audits)
  BY DEF Types, Tables, PropagationTypes, Writes
<1>6. Lists(trail, AuditsOf(records)) /\ Lists(mine[w].trail, AuditsOf(mine[w].records))
  BY <1>1 DEF OwnRecords, RecordsOk
<1>7. Lists(trail \o mine[w].trail, AuditsOf(records) \cup AuditsOf(mine[w].records))
  BY <1>5, <1>6, AuditsApart, ListsBoth
<1>8. Lists(trail', AuditsOf(records'))
  <2>1. AuditsOf(records') = AuditsOf(records) \cup AuditsOf(mine[w].records)
    BY <1>2, AuditsOfBoth
  <2> QED
    BY <1>7, <2>1 DEF Publish
<1> QED
  BY <1>3, <1>4, <1>8 DEF RecordsOk

LEMMA EndedPropagation ==
  ASSUME NEW w \in Losers, mine'[w] = Empty, pc'[w] = "idle", SlotsDiffer(records')
  PROVE  Propagation(w)'
<1>1. mine'[w].ledger = {} /\ mine'[w].records = {} /\ mine'[w].trail = <<>>
  BY DEF Empty
<1>2. Pending(w)' = {}
  BY DEF Pending
<1> QED
  BY <1>1, <1>2, ListsNothing, AuditsOfNothing
     DEF Propagation, OwnRecords, SkipsLost, HeadHeld, AnswerRead

LEMMA PropagationEndsKeeps ==
  ASSUME Types, IInv, RecordsInv, NEW w \in Losers, PropagationAlone(w), EndPropagation(w),
         \/ UNCHANGED <<ledger, records, trail>>
         \/ Publish(w) /\ pc[w] \in {"claims", "answers", "commit"}
  PROVE  RecordsInv'
<1>1. mine'[w] = Empty /\ pc'[w] = "idle"
  BY WorkersAre DEF EndPropagation, End, Goto, IInv, Shape
<1>2. OwnRecords(w) /\ HeadHeld(w) /\ RecordsOk
  BY Parts
<1>3. RecordsOk'
  <2>1. CASE UNCHANGED <<ledger, records, trail>>
    BY <1>2, <2>1 DEF RecordsOk
  <2>2. CASE Publish(w) /\ pc[w] \in {"claims", "answers", "commit"}
    BY <2>2, PublishKeepsRecords
  <2> QED
    BY <2>1, <2>2
<1>4. Propagation(w)'
  BY <1>1, <1>3, EndedPropagation DEF RecordsOk
<1>5. ledger' = ledger \/ (headLock # Pipe /\ ledger \subseteq ledger')
  BY <1>2, WorkersAre DEF Publish, HeadHeld
<1>6. /\ records \subseteq records'
      /\ \A r \in records' \ records : pc[w] # "idle" /\ r.event = event[w]
  BY <1>2 DEF Publish, OwnRecords
<1> QED
  BY <1>3, <1>4, <1>5, <1>6, PropagationKeeps

-----------------------------------------------------------------------------
(* Records, audits and answers: steps of the pipeline                      *)

\* A step of the pipeline before its gate.
LEMMA QuietKeeps ==
  ASSUME Types, RecordsInv, PipelineAlone, UNCHANGED store, pc[Pipe] # "commit",
         pc'[Pipe] \notin {"idle", "commit"}, task.status # "judged",
         work'.answer = work.answer, mine'[Pipe].records = mine[Pipe].records,
         mine'[Pipe].trail = mine[Pipe].trail
  PROVE  RecordsInv'
<1>1. Judgement'
  BY DEF RecordsInv, Judgement, store
<1>2. \A v \in Losers : Impacted(v)' => Impacted(v)
  BY DEF PipelineAlone, Impacted, store
<1> QED
  BY <1>1, <1>2, PipelineKeeps DEF store

LEMMA QuietStepKeeps ==
  ASSUME Types, IInv, RecordsInv,
         \/ Extract \/ (\E i \in DOMAIN plan : VerifyClaim(i)) \/ AdvanceToCompiling
         \/ ResumeCompiling \/ SelectVerified \/ CompileSpan
  PROVE  RecordsInv'
<1>1. PipelineAlone
  BY PipelineStepAlone
<1>2. UNCHANGED store /\ pc[Pipe] \in {"idle", "verify", "select", "compile"}
  BY DEF Extract, VerifyClaim, AdvanceToCompiling, ResumeCompiling, SelectVerified, CompileSpan
<1>3. pc'[Pipe] \in {"verify", "select", "compile"}
  BY WorkersAre DEF Extract, VerifyClaim, AdvanceToCompiling, ResumeCompiling, SelectVerified,
                    CompileSpan, Goto, IInv, Shape
<1>4. task.status # "judged"
  BY <1>2 DEF Extract, VerifyClaim, AdvanceToCompiling, ResumeCompiling, SelectVerified,
              CompileSpan, RecordsInv, Judgement
<1>5. work'.answer = work.answer
  <2>1. work \in TaskRows
    BY DEF Types, PipelineTypes
  <2>2. \/ work' = work \/ work' = [work EXCEPT !.status = "compiling"]
        \/ \E d : work' = [work EXCEPT !.draft = d]
    BY DEF Extract, VerifyClaim, AdvanceToCompiling, ResumeCompiling, SelectVerified,
           CompileSpan, pipeline
  <2> QED
    BY <2>1, <2>2 DEF TaskRows
<1>6. /\ mine'[Pipe].records = mine[Pipe].records
      /\ mine'[Pipe].trail = mine[Pipe].trail
  <2>1. \/ mine' = mine
        \/ \E l : mine' = [mine EXCEPT ![Pipe].ledger = l]
    <3>1. CASE \E i \in DOMAIN plan : VerifyClaim(i)
      BY <3>1 DEF VerifyClaim
    <3>2. CASE ~\E i \in DOMAIN plan : VerifyClaim(i)
      BY <3>2 DEF Extract, AdvanceToCompiling, ResumeCompiling, SelectVerified, CompileSpan
    <3> QED
      BY <3>1, <3>2
  <2>2. DOMAIN mine = Workers /\ DOMAIN mine[Pipe] = Fields
    BY WorkersAre DEF IInv, Shape
  <2> QED
    BY <2>1, <2>2, WorkersAre DEF Fields
<1> QED
  BY <1>1, <1>2, <1>3, <1>4, <1>5, <1>6, QuietKeeps

LEMMA RunGateKeeps ==
  ASSUME Types, IInv, RecordsInv, RunGate
  PROVE  RecordsInv'
<1>1. /\ PipelineAlone /\ UNCHANGED store /\ mine' = mine /\ pc[Pipe] = "compile"
      /\ headLock' = Pipe /\ pc'[Pipe] = "commit"
  BY PipelineStepAlone, WorkersAre DEF RunGate, Goto, IInv, Shape
<1>2. work \in TaskRows
  BY DEF Types, PipelineTypes
<1>3. /\ work'.status = "judged" /\ work'.draft = work.draft
      /\ work'.answer = IF Approves THEN "published" ELSE "none"
  BY <1>2 DEF RunGate, TaskRows
<1>4. View(Pipe)' = View(Pipe)
  BY <1>1 DEF View, store
<1>5. work'.answer = "published" => AllSupported(View(Pipe)', work'.draft)
  BY <1>3, <1>4 DEF Approves, AllSupported
<1>6. Judgement'
  BY <1>1, <1>3, <1>5 DEF RecordsInv, Judgement, store
<1>7. \A v \in Losers : Impacted(v)' => Impacted(v)
  BY <1>1 DEF PipelineAlone, Impacted, store
<1> QED
  BY <1>1, <1>6, <1>7, PipelineKeeps DEF store

\* The pipeline adds no records and no audits of losses.
LEMMA PipelinePublishes ==
  ASSUME Types, RecordsInv, Publish(Pipe)
  PROVE  /\ ledger' = View(Pipe) /\ ledger \subseteq ledger'
         /\ records' = records /\ trail' = trail
<1>1. mine[Pipe].records = {} /\ mine[Pipe].trail = <<>>
  BY DEF RecordsInv, Judgement
<1>2. trail \in Seq(Audits)
  BY DEF Types, Tables
<1>3. trail \o <<>> = trail
  BY <1>2, ConcatEmptySeq
<1> QED
  BY <1>1, <1>3 DEF Publish, View

LEMMA CommitPipelineKeeps ==
  ASSUME Types, IInv, RecordsInv, CommitPipeline
  PROVE  RecordsInv'
<1>1. /\ PipelineAlone /\ pc'[Pipe] = "idle" /\ mine'[Pipe] = Empty
      /\ work' = work /\ task' = work /\ pc[Pipe] = "commit"
  BY EndPipelineAlone DEF CommitPipeline
<1>2. ledger \subseteq ledger' /\ records' = records /\ trail' = trail
  BY PipelinePublishes DEF CommitPipeline
<1>3. headLock = Pipe /\ work.status = "judged"
  BY <1>1 DEF RecordsInv, Judgement
<1>4. Judgement'
  BY <1>1, <1>3 DEF Judgement, Empty
<1>5. \A v \in Losers : mine[v].ledger = {} \/ pc[v] = "audit"
  BY <1>3, WorkersAre DEF RecordsInv, HeadHeld
<1> QED
  BY <1>1, <1>2, <1>4, <1>5, PipelineKeeps

\* Before the gate has judged it, a task has no answer.
LEMMA UnjudgedHasNoAnswer ==
  ASSUME RecordsInv, pc[Pipe] \notin {"idle", "commit"}
  PROVE  task.answer = "none" /\ work.answer = "none"
  BY DEF RecordsInv, Judgement

LEMMA PipelineRaisesKeeps ==
  ASSUME Types, IInv, RecordsInv, PipelineRaises
  PROVE  RecordsInv'
<1>1. /\ EndPipeline(task') /\ Publish(Pipe) /\ done' = done
      /\ pc[Pipe] \in {"verify", "select", "compile"}
      /\ task' = work \/ task' = [work EXCEPT !.status = "analyzed_partial"]
  BY DEF PipelineRaises
<1>2. PICK row : row = task'
  OBVIOUS
<1>3. PipelineAlone /\ pc'[Pipe] = "idle" /\ mine'[Pipe] = Empty /\ work' = task'
  BY <1>1, <1>2, EndPipelineAlone
<1>4. ledger \subseteq ledger' /\ records' = records /\ trail' = trail
  BY <1>1, PipelinePublishes
<1>5. task'.answer = "none"
  <2>1. work \in TaskRows /\ work.answer = "none"
    BY <1>1, UnjudgedHasNoAnswer DEF Types, PipelineTypes
  <2> QED
    BY <1>1, <2>1 DEF TaskRows
<1>6. Judgement'
  BY <1>3, <1>5 DEF Judgement, Empty
<1>7. \A v \in Losers : ~Impacted(v)'
  BY <1>5 DEF Impacted
<1> QED
  BY <1>3, <1>4, <1>6, <1>7, PipelineKeeps

LEMMA PipelineDropsKeeps ==
  ASSUME Types, IInv, RecordsInv, EndPipeline(task), UNCHANGED store
  PROVE  RecordsInv'
<1>1. PICK row : row = task
  OBVIOUS
<1>2. EndPipeline(row)
  BY <1>1
<1>3. PipelineAlone /\ pc'[Pipe] = "idle" /\ mine'[Pipe] = Empty /\ work' = task /\ task' = task
  BY <1>1, <1>2, EndPipelineAlone DEF store
<1>4. Judgement'
  BY <1>3 DEF RecordsInv, Judgement, Empty
<1>5. \A v \in Losers : Impacted(v)' => Impacted(v)
  BY <1>3 DEF PipelineAlone, Impacted
<1> QED
  BY <1>3, <1>4, <1>5, PipelineKeeps DEF store

LEMMA WithdrawKeeps ==
  ASSUME Types, IInv, RecordsInv, Withdraw
  PROVE  RecordsInv'
<1>1. task \in TaskRows
  BY DEF Types, Tables
<1>2. /\ task'.answer = "withdrawn" /\ task'.status = task.status /\ work' = task'
      /\ UNCHANGED <<ledger, records, trail, mine, pc>> /\ pc[Pipe] = "idle"
      /\ task.answer = "published"
  BY <1>1 DEF Withdraw, TaskRows
<1>3. Judgement'
  BY <1>2 DEF RecordsInv, Judgement
<1>4. \A v \in Losers : ~Impacted(v)'
  BY <1>2 DEF Impacted
<1> QED
  BY <1>2, <1>3, <1>4, PipelineKeeps, PipelineStepAlone

-----------------------------------------------------------------------------
(* Records, audits and answers: any step, and the theorems                 *)

LEMMA PropagationStepKeeps ==
  ASSUME Types, IInv, RecordsInv, NEW w \in Losers,
         PropagationStep(w) \/ PropagationRaises(w) \/ PropagationCrashes(w)
  PROVE  RecordsInv'
<1>1. CASE \/ \E e \in Events : BeginPropagation(w, e)
           \/ \E c \in todo[w] : LockClaim(w, c)
           \/ SkipClaim(w) \/ AppendUnverifiable(w) \/ AuditClaim(w)
           \/ ReadAnswers(w) \/ AuditAnswer(w)
  <2>1. PropagationAlone(w)
    BY <1>1, PropagationStepAlone
  <2> QED
    BY <1>1, <2>1, BeginKeeps, LockClaimKeeps, SkipKeeps, AppendKeeps, AuditClaimKeeps,
       ReadAnswersKeeps, AuditAnswerKeeps
<1>2. CASE CommitPropagation(w) \/ PropagationRaises(w)
  <2>1. /\ EndPropagation(w) /\ Publish(w) /\ task' = task
        /\ pc[w] \in {"claims", "answers", "commit"}
        /\ done' = done \/ (pc[w] # "idle" /\ done' = done \cup {event[w]})
    BY <1>2 DEF CommitPropagation, PropagationRaises
  <2>2. PropagationAlone(w)
    BY <2>1, EndPropagationAlone
  <2> QED
    BY <2>1, <2>2, PropagationEndsKeeps
<1>3. CASE PropagationCrashes(w)
  <2>1. EndPropagation(w) /\ UNCHANGED store
    BY <1>3 DEF PropagationCrashes
  <2>2. PropagationAlone(w)
    BY <2>1, EndPropagationAlone DEF store
  <2> QED
    BY <2>1, <2>2, PropagationEndsKeeps DEF store
<1> QED
  BY <1>1, <1>2, <1>3 DEF PropagationStep

LEMMA DeadlockKeeps ==
  ASSUME Types, IInv, RecordsInv, NEW w \in Workers, NEW v \in Workers, DeadlockAbort(w, v)
  PROVE  RecordsInv'
<1>1. CASE w = Pipe
  BY <1>1, PipelineDropsKeeps DEF DeadlockAbort
<1>2. CASE w # Pipe
  <2>1. w \in Losers /\ EndPropagation(w) /\ UNCHANGED store
    BY <1>2, WorkersAre DEF DeadlockAbort
  <2>2. PropagationAlone(w)
    BY <2>1, EndPropagationAlone DEF store
  <2> QED
    BY <2>1, <2>2, PropagationEndsKeeps DEF store
<1> QED
  BY <1>1, <1>2

LEMMA InitRecordsInv == Init => RecordsInv
<1> SUFFICES ASSUME Init PROVE RecordsInv
  OBVIOUS
<1>1. RecordsOk
  BY ListsNothing, AuditsOfNothing DEF Init, RecordsOk, SlotsDiffer
<1>2. Judgement
  BY WorkersAre DEF Init, Judgement, Empty, Fresh
<1>3. ASSUME NEW w \in Losers PROVE OwnRecords(w) /\ SkipsLost(w) /\ HeadHeld(w) /\ AnswerRead(w)
  <2>1. pc[w] = "idle" /\ mine[w] = Empty /\ records = {}
    BY WorkersAre DEF Init
  <2>2. mine[w].ledger = {} /\ mine[w].records = {} /\ mine[w].trail = <<>>
    BY <2>1 DEF Empty
  <2> QED
    BY <2>1, <2>2, ListsNothing, AuditsOfNothing
       DEF OwnRecords, SkipsLost, HeadHeld, AnswerRead, Pending, SlotsDiffer
<1> QED
  BY <1>1, <1>2, <1>3 DEF RecordsInv

LEMMA NextRecordsInv == Types /\ IInv /\ RecordsInv /\ [Next]_vars => RecordsInv'
<1> SUFFICES ASSUME Types, IInv, RecordsInv, [Next]_vars PROVE RecordsInv'
  OBVIOUS
<1>1. CASE PipelineStep \/ Withdraw
  BY <1>1, QuietStepKeeps, RunGateKeeps, CommitPipelineKeeps, WithdrawKeeps DEF PipelineStep
<1>2. CASE \E w \in Losers : PropagationStep(w)
  BY <1>2, PropagationStepKeeps
<1>3. CASE Failure
  BY <1>3, PipelineRaisesKeeps, PipelineDropsKeeps, PropagationStepKeeps, DeadlockKeeps
     DEF Failure, PipelineCrashes
<1>4. CASE UNCHANGED vars
  <2>1. UNCHANGED <<store, pc, mine, pipeline, propagation, headLock>>
    BY <1>4 DEF vars
  <2>2. RecordsOk' /\ Judgement'
    BY <2>1 DEF store, pipeline, RecordsInv, RecordsOk, Judgement, View
  <2>3. ASSUME NEW w \in Losers
        PROVE  OwnRecords(w)' /\ SkipsLost(w)' /\ HeadHeld(w)' /\ AnswerRead(w)'
    <3>1. /\ Current(w)' = Current(w) /\ View(w)' = View(w) /\ Impacted(w)' = Impacted(w)
          /\ Pending(w)' = Pending(w)
      BY <2>1 DEF store, propagation, Current, View, Impacted, Pending
    <3>2. OwnRecords(w)' = OwnRecords(w)
      BY <2>1, <3>1 DEF store, propagation, OwnRecords
    <3> QED
      BY <2>1, <3>1, <3>2 DEF store, propagation, RecordsInv, SkipsLost, HeadHeld, AnswerRead
  <2> QED
    BY <2>2, <2>3 DEF RecordsInv
<1> QED
  BY <1>1, <1>2, <1>3, <1>4 DEF Next, Finished

\* The inductive invariant: types, chains of versions, and what records, audits,
\* answer and uncommitted entries have to do with the head of the audit chain.
THEOREM AuditHeadInvariant == Spec => [](Types /\ IInv /\ RecordsInv)
<1>1. Init => Types /\ IInv /\ RecordsInv
  BY InitTypes, InitIInv, InitRecordsInv
<1>2. Types /\ IInv /\ RecordsInv /\ [Next]_vars => (Types /\ IInv /\ RecordsInv)'
  BY NextTypes, NextIInv, NextRecordsInv
<1> QED
  BY <1>1, <1>2, PTL DEF Spec

\* However often a loss is delivered and wherever its handling fails, a claim is
\* recorded at most once, with its ledger entry and with one audit.
THEOREM LossRecordedOnce == Spec => []PropagatedOnce
<1>1. Types /\ RecordsInv => PropagatedOnce
  <2> SUFFICES ASSUME Types, RecordsInv PROVE PropagatedOnce
    OBVIOUS
  <2>1. RecordsOk /\ records \subseteq Records
    BY DEF RecordsInv, Types, Tables
  <2>2. \A r \in records : r = Record(r.event, r.kind, r.target)
    BY <2>1 DEF Records, Record
  <2>3. ASSUME NEW e \in Events, NEW c \in Claims
        PROVE  <<e, c>> \in AuditsOf(records) <=> Record(e, "recorded", c) \in records
    <3>1. ASSUME <<e, c>> \in AuditsOf(records) PROVE Record(e, "recorded", c) \in records
      <4>1. PICK r \in records : r.event = e /\ r.target = c /\ r.kind \in {"recorded", "answer"}
        BY <3>1 DEF AuditsOf, CallsForAudit
      <4>2. r.kind = "recorded"
        BY <2>1, <4>1, NotAClaim DEF RecordsOk, Says
      <4> QED
        BY <2>2, <4>1, <4>2
    <3>2. ASSUME Record(e, "recorded", c) \in records PROVE <<e, c>> \in AuditsOf(records)
      BY <3>2 DEF AuditsOf, CallsForAudit, Record
    <3> QED
      BY <3>1, <3>2
  <2>4. ASSUME NEW e \in Events
        PROVE  <<e, Everything>> \in AuditsOf(records) <=> Record(e, "answer", Everything) \in records
    <3>1. ASSUME <<e, Everything>> \in AuditsOf(records)
          PROVE  Record(e, "answer", Everything) \in records
      <4>1. PICK r \in records :
              r.event = e /\ r.target = Everything /\ r.kind \in {"recorded", "answer"}
        BY <3>1 DEF AuditsOf, CallsForAudit
      <4>2. r.kind = "answer"
        BY <2>1, <4>1, NotAClaim DEF RecordsOk, Says
      <4> QED
        BY <2>2, <4>1, <4>2
    <3>2. ASSUME Record(e, "answer", Everything) \in records
          PROVE  <<e, Everything>> \in AuditsOf(records)
      BY <3>2 DEF AuditsOf, CallsForAudit, Record
    <3> QED
      BY <3>1, <3>2
  <2>5. \A e, t : Audited(e, t) = IF <<e, t>> \in AuditsOf(records) THEN 1 ELSE 0
    BY <2>1, ListsCount DEF RecordsOk, Audited
  <2>6. \A r, q \in records : Slot(r) = Slot(q) => r = q
    BY <2>1 DEF RecordsOk, SlotsDiffer
  <2>7. \A r \in records : r.kind = "recorded" =>
          \E x \in ledger : x.claim = r.target /\ x.by = r.event /\ x.state = "source_lost"
    BY <2>1 DEF RecordsOk, Says
  <2> QED
    BY <2>3, <2>4, <2>5, <2>6, <2>7 DEF PropagatedOnce
<1> QED
  BY <1>1, AuditHeadInvariant, PTL

LEMMA DoneBy == [Next]_vars => done' = done \/ \E v \in Losers : CommitPropagation(v)
<1> SUFFICES ASSUME [Next]_vars PROVE done' = done \/ \E v \in Losers : CommitPropagation(v)
  OBVIOUS
<1> QED
  BY DEF Next, PipelineStep, PropagationStep, Failure, Finished, vars, store,
         Extract, VerifyClaim, AdvanceToCompiling, ResumeCompiling, SelectVerified,
         CompileSpan, RunGate, CommitPipeline, PipelineRaises, PipelineCrashes,
         BeginPropagation, LockClaim, SkipClaim, AppendUnverifiable, AuditClaim,
         ReadAnswers, AuditAnswer, PropagationRaises,
         PropagationCrashes, DeadlockAbort, Withdraw

\* An answer that shows a claim of a committing propagation was published before
\* the propagation looked for one, so that it is on record.
THEOREM AnswerCannotSlipIn == Spec => ImpactOnAnswerIsRecorded
<1>1. ASSUME Types, RecordsInv, [Next]_vars, NEW w \in Losers, pc[w] = "commit", event[w] \in done',
             NEW r \in mine[w].records, r.kind = "recorded", Impacted(w)
      PROVE  Record(event[w], "answer", Everything) \in records'
  <2>1. event[w] \notin done
    BY <1>1 DEF Types, PropagationTypes
  <2>2. PICK v \in Losers : CommitPropagation(v)
    BY <1>1, <2>1, DoneBy
  <2>3. event[v] = event[w] /\ pc[v] = "commit"
    BY <1>1, <2>1, <2>2 DEF CommitPropagation
  <2>4. v = w
    BY <1>1, <2>3 DEF Types, Apart
  <2>5. mine[w].ledger # {}
    BY <1>1 DEF RecordsInv, OwnRecords
  <2>6. Record(event[w], "answer", Everything) \in records \cup mine[w].records
    BY <1>1, <2>5 DEF RecordsInv, AnswerRead
  <2> QED
    BY <2>2, <2>4, <2>6 DEF CommitPropagation, Publish
<1>2. Types /\ RecordsInv /\ [Next]_vars =>
        \A w \in Losers :
          LET e == event[w] IN
          /\ pc[w] = "commit" /\ pc'[w] = "idle" /\ e \in done'
          /\ \E r \in mine[w].records : r.kind = "recorded"
          /\ Impacted(w)
          => Record(e, "answer", Everything) \in records'
  BY <1>1
<1> QED
  BY <1>2, AuditHeadInvariant, PTL DEF Spec, ImpactOnAnswerIsRecorded

LEMMA TaskBy ==
  [Next]_vars => task' = task \/ CommitPipeline \/ PipelineRaises \/ Withdraw
<1> SUFFICES ASSUME [Next]_vars
             PROVE  task' = task \/ CommitPipeline \/ PipelineRaises \/ Withdraw
  OBVIOUS
<1> QED
  BY DEF Next, PipelineStep, PropagationStep, Failure, Finished, vars, store,
         Extract, VerifyClaim, AdvanceToCompiling, ResumeCompiling, SelectVerified,
         CompileSpan, RunGate, PipelineCrashes,
         BeginPropagation, LockClaim, SkipClaim, AppendUnverifiable, AuditClaim,
         ReadAnswers, AuditAnswer, CommitPropagation, PropagationRaises,
         PropagationCrashes, DeadlockAbort

\* The links an answer is published on are to the latest entries of their claims
\* when it becomes visible: no loss commits between the gate and its commit.
THEOREM AnswerIsCurrent == Spec => PublishedOnLatestEntries
<1>1. ASSUME Types, RecordsInv, [Next]_vars, task.answer = "none", task'.answer = "published"
      PROVE  \A i \in DOMAIN task'.draft : Supported(ledger', task'.draft[i])
  <2>1. ~Withdraw /\ task' # task
    BY <1>1 DEF Withdraw
  <2>2. ~PipelineRaises
    <3> SUFFICES ASSUME PipelineRaises PROVE FALSE
      OBVIOUS
    <3>1. /\ pc[Pipe] \in {"verify", "select", "compile"}
          /\ task' = work \/ task' = [work EXCEPT !.status = "analyzed_partial"]
      BY DEF PipelineRaises
    <3>2. work \in TaskRows /\ work.answer = "none"
      BY <1>1, <3>1, UnjudgedHasNoAnswer DEF Types, PipelineTypes
    <3> QED
      BY <1>1, <3>1, <3>2 DEF TaskRows
  <2>3. CommitPipeline
    BY <1>1, <2>1, <2>2, TaskBy
  <2>4. ledger' = View(Pipe) /\ task' = work /\ pc[Pipe] = "commit"
    BY <1>1, <2>3, PipelinePublishes DEF CommitPipeline
  <2>5. AllSupported(View(Pipe), work.draft)
    BY <1>1, <2>4 DEF RecordsInv, Judgement
  <2> QED
    BY <2>4, <2>5 DEF AllSupported
<1>2. Types /\ RecordsInv /\ [Next]_vars =>
        (task.answer = "none" /\ task'.answer = "published" =>
           \A i \in DOMAIN task'.draft : Supported(ledger', task'.draft[i]))
  BY <1>1
<1> QED
  BY <1>2, AuditHeadInvariant, PTL DEF Spec, PublishedOnLatestEntries
=============================================================================
