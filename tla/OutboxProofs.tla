---------------------------- MODULE OutboxProofs ----------------------------
(***************************************************************************)
(* Proofs about Outbox: for any units of work, keys, relays, batch size    *)
(* and number of faults.                                                   *)
(*                                                                         *)
(* The argument follows a row from its INSERT to Kafka.  A relay locks     *)
(* only committed, unpublished rows (BatchesSound), never a row another    *)
(* relay has locked (BatchesDisjoint), so a row is sent at most once more  *)
(* than there were faults (CopiesPaid).  Row locks order the units of work *)
(* of a key (LocksExclude, EarlierSettled), so a row can not become        *)
(* visible behind a later row of its key; one relay therefore takes the    *)
(* rows of a key without gaps (NoGaps) and sends them in order (KeyOrder). *)
(***************************************************************************)
EXTENDS Outbox, FiniteSetTheorems, SequenceTheorems, TLAPS

(* The inductive invariant *)

\* A row was inserted by a unit of work that had begun.
RowsBegun == \A i \in Ids : tx[rows[i].tx] # "idle"

\* Only relays that run hold locks.
OnlyRunningLock == \A r \in Relays : batch[r] # {} => r \in running

\* A locked row is committed and not yet marked.
BatchesSound ==
    \A r \in Relays : \A i \in batch[r] :
        i \notin published /\ tx[rows[i].tx] = "committed"

\* FOR UPDATE SKIP LOCKED: no row is locked twice.
BatchesDisjoint ==
    \A r, q \in Relays : \A i \in batch[r] : i \in batch[q] => r = q

\* What a pass has sent, Kafka has.
SentIsDelivered == \A r \in Relays : sent[r] \subseteq Delivered

\* Rows whose sending is recorded: marked, or marked by a pass in progress.
Recorded == published \cup UNION {sent[r] : r \in Relays}

\* Every copy of a row but the recorded one was paid for by a fault.
CopiesPaid ==
    \A i \in Ids :
        Cardinality(Copies(i)) <= faults + (IF i \in Recorded THEN 1 ELSE 0)

\* Two units of work that lock the same aggregate row are not open at once.
LocksExclude ==
    \A x, y \in Txs \ Unlocked :
        KeyOf[x] = KeyOf[y] /\ tx[x] = "open" /\ tx[y] = "open" => x = y

\* Rows i and j belong to one key, and their units of work locked its row.
Ordered(i, j) ==
    /\ KeyOf[rows[i].tx] = KeyOf[rows[j].tx]
    /\ rows[i].tx \notin Unlocked
    /\ rows[j].tx \notin Unlocked

\* When a row is inserted, earlier rows of its key are decided or its own.
EarlierSettled ==
    \A j \in Ids : \A i \in 1..(j - 1) :
        Ordered(i, j) => \/ rows[i].tx = rows[j].tx
                         \/ tx[rows[i].tx] \in {"committed", "aborted"}

\* A single relay never locks a row and leaves out an earlier one of its key.
NoGaps ==
    \A r \in Relays : running = {r} =>
        \A j \in batch[r] : \A i \in 1..(j - 1) :
            Ordered(i, j) /\ tx[rows[i].tx] = "committed"
                => i \in published \cup batch[r]

\* A single relay sends the rows of a key in order.
KeyOrder ==
    \A r \in Relays : running = {r} =>
        \A j \in Delivered : \A i \in 1..(j - 1) :
            Ordered(i, j) /\ tx[rows[i].tx] = "committed"
                => \A n \in Copies(j) : \E m \in Copies(i) : m < n

DeliveryInv ==
    /\ TypeOK
    /\ OnlyRunningLock
    /\ BatchesSound
    /\ BatchesDisjoint
    /\ OnlyCommittedDelivered
    /\ NothingLost
    /\ SentIsDelivered
    /\ CopiesPaid

OrderInv ==
    /\ RowsBegun
    /\ LocksExclude
    /\ EarlierSettled
    /\ NoGaps
    /\ KeyOrder

-----------------------------------------------------------------------------
(* What the operators of the model do *)

\* A message of x is a row, and names x as its unit of work.
LEMMA MessageOfTx ==
  ASSUME NEW x \in Txs, NEW m \in Messages(x)
  PROVE  m \in Row /\ m.tx = x
<1>1. m \in [tx : {x}, topic : {"events", "analytics"}, at : DOMAIN EventsOf[x]]
  BY DEF Messages
<1>2. m.tx = x
  BY <1>1
<1>3. m \in Row
  BY DEF Row
<1> QED
  BY <1>2, <1>3

\* Every row belongs to a unit of work.
LEMMA RowHasTx ==
  ASSUME TypeOK, NEW i \in Ids
  PROVE  rows[i] \in Row /\ rows[i].tx \in Txs
<1>1. rows[i] \in Row
  BY ElementOfSeq DEF TypeOK, Ids
<1>2. PICK x \in Txs : rows[i] \in Messages(x)
  BY <1>1 DEF Row
<1> QED
  BY <1>1, <1>2, MessageOfTx

\* Publish appends one row of its unit of work and changes no other.
LEMMA InsertAppends ==
  ASSUME TypeOK, NEW x \in Txs, Insert(x)
  PROVE  /\ rows' \in Seq(Row)
         /\ Len(rows) \in Nat
         /\ Len(rows') = Len(rows) + 1
         /\ \A i \in Ids : i \in Ids' /\ rows'[i] = rows[i]
         /\ Ids' = Ids \cup {Len(rows) + 1}
         /\ rows'[Len(rows) + 1].tx = x
<1>1. PICK m \in Messages(x) : rows' = Append(rows, m)
  BY DEF Insert
<1>2. m \in Row /\ m.tx = x
  BY <1>1, MessageOfTx
<1>3. rows \in Seq(Row) /\ Len(rows) \in Nat
  BY LenProperties DEF TypeOK
<1>4. /\ rows' \in Seq(Row)
      /\ Len(rows') = Len(rows) + 1
      /\ \A i \in 1..Len(rows) : rows'[i] = rows[i]
      /\ rows'[Len(rows) + 1] = m
  BY <1>1, <1>2, <1>3, AppendProperties
<1> QED
  BY <1>2, <1>3, <1>4 DEF Ids

\* A delivery adds one copy of one row at the end of the log.
LEMMA DeliverAppends ==
  ASSUME TypeOK, NEW i \in Ids, Deliver(i)
  PROVE  /\ log' \in Seq(Ids)
         /\ Len(log) \in Nat
         /\ Delivered' = Delivered \cup {i}
         /\ \A k : Copies(k)' = IF k = i THEN Copies(k) \cup {Len(log) + 1}
                                         ELSE Copies(k)
<1>1. log \in Seq(Ids) /\ Len(log) \in Nat /\ DOMAIN log = 1..Len(log)
  BY LenProperties DEF TypeOK
<1>2. /\ log' \in Seq(Ids)
      /\ Len(log') = Len(log) + 1
      /\ \A k \in 1..Len(log) : log'[k] = log[k]
      /\ log'[Len(log) + 1] = i
  BY <1>1, AppendProperties DEF Deliver
<1>3. DOMAIN log' = 1..(Len(log) + 1)
  BY <1>2, LenProperties
<1>4. Delivered' = Delivered \cup {i}
  BY <1>1, <1>2, <1>3 DEF Delivered, Range
<1>5. \A k : Copies(k)' = IF k = i THEN Copies(k) \cup {Len(log) + 1} ELSE Copies(k)
  BY <1>1, <1>2, <1>3 DEF Copies
<1> QED
  BY <1>1, <1>2, <1>4, <1>5

\* The copies of a row are places in the log, and there are some when Kafka
\* has the row.
LEMMA CopiesSound ==
  ASSUME TypeOK, NEW i
  PROVE  /\ IsFiniteSet(Copies(i))
         /\ Cardinality(Copies(i)) \in Nat
         /\ \A n \in Copies(i) : n \in 1..Len(log)
         /\ i \in Delivered <=> Copies(i) # {}
<1>1. DOMAIN log = 1..Len(log) /\ Len(log) \in Nat
  BY LenProperties DEF TypeOK
<1>2. IsFiniteSet(1..Len(log))
  BY <1>1, FS_Interval
<1>3. Copies(i) \in SUBSET (1..Len(log))
  BY <1>1 DEF Copies
<1>4. IsFiniteSet(Copies(i))
  BY <1>2, <1>3, FS_Subset
<1> QED
  BY <1>3, <1>4, FS_CardinalityType DEF Copies, Delivered, Range

\* ORDER BY id LIMIT batchSize never takes a row and leaves out an older one.
LEMMA OldestAreClosed ==
  ASSUME TypeOK, NEW ids \in SUBSET Ids, NEW j \in OldestOf(ids), NEW i \in ids, i < j
  PROVE  i \in OldestOf(ids)
<1> DEFINE L(k) == {l \in ids : l < k}
<1>1. Len(rows) \in Nat /\ Ids = 1..Len(rows)
  BY LenProperties DEF TypeOK, Ids
<1>2. IsFiniteSet(ids)
  <2>1. IsFiniteSet(Ids)
    BY <1>1, FS_Interval
  <2> QED
    BY <2>1, FS_Subset
<1>3. j \in ids /\ Cardinality(L(j)) < BatchSize
  BY DEF OldestOf
<1>4. L(i) \in SUBSET L(j)
  <2>1. \A l \in ids : l \in Int
    BY <1>1
  <2>2. \A l \in ids : l < i => l < j
    BY <2>1, <1>3
  <2> QED
    BY <2>2
<1>5. L(j) \in SUBSET ids
  OBVIOUS
<1>6. IsFiniteSet(L(j))
  BY <1>2, <1>5, FS_Subset
<1>7. IsFiniteSet(L(i)) /\ Cardinality(L(i)) <= Cardinality(L(j))
  BY <1>4, <1>6, FS_Subset
<1>8. Cardinality(L(i)) \in Nat /\ Cardinality(L(j)) \in Nat
  BY <1>6, <1>7, FS_CardinalityType
<1>9. Cardinality(L(i)) < BatchSize
  BY <1>3, <1>7, <1>8, OutboxAssumption
<1> QED
  BY <1>9 DEF OldestOf

-----------------------------------------------------------------------------
(* Type correctness *)

\* The type invariant holds at the start.
LEMMA TypeInit == Init => TypeOK
<1> SUFFICES ASSUME Init PROVE TypeOK
  OBVIOUS
<1>1. rows = <<>> /\ log = <<>> /\ <<>> \in Seq(Row) /\ <<>> \in Seq(Ids)
  BY EmptySeq DEF Init
<1> QED
  BY <1>1, OutboxAssumption DEF Init, TypeOK, TxState

\* The type invariant is kept by every step.
LEMMA TypeStep ==
  ASSUME TypeOK, [Next]_vars
  PROVE  TypeOK'
<1>1. ASSUME NEW x \in Txs, Begin(x) \/ Commit(x) \/ Rollback(x)
      PROVE  TypeOK'
  BY <1>1 DEF Begin, Commit, Rollback, TypeOK, TxState, Ids, relayVars
<1>2. ASSUME NEW x \in Txs, Insert(x)
      PROVE  TypeOK'
  <2>1. rows' \in Seq(Row) /\ Ids \subseteq Ids'
    BY <1>2, InsertAppends
  <2>2. /\ UNCHANGED <<running, tx, published, batch, sent, log, faults>>
    BY <1>2 DEF Insert, relayVars
  <2>3. log' \in Seq(Ids')
    <3>1. log \in Seq(Ids)
      BY DEF TypeOK
    <3>2. Len(log) \in Nat /\ log \in [1..Len(log) -> Ids]
      BY <3>1, LenProperties
    <3>3. log \in [1..Len(log) -> Ids']
      BY <2>1, <3>2
    <3> QED
      BY <2>2, <3>2, <3>3, SeqDef
  <2> QED
    BY <2>1, <2>2, <2>3 DEF TypeOK
<1>3. ASSUME NEW r \in Relays, Claim(r)
      PROVE  TypeOK'
  <2>1. OldestOf(Pending) \in SUBSET Ids
    BY DEF OldestOf, Pending
  <2>2. sent[r] = {}
    BY <1>3 DEF Claim, TypeOK
  <2> QED
    BY <1>3, <2>1, <2>2 DEF Claim, TypeOK, Ids
<1>4. ASSUME NEW r \in Relays, Send(r)
      PROVE  TypeOK'
  <2>1. PICK i \in Ids : /\ IsNext(r, i)
                         /\ Deliver(i)
                         /\ sent' = [sent EXCEPT ![r] = @ \cup {i}]
    BY <1>4 DEF Send
  <2>2. log' \in Seq(Ids)
    BY <2>1, DeliverAppends
  <2>3. UNCHANGED <<running, tx, rows, published, batch, faults>>
    BY <1>4 DEF Send
  <2>4. /\ sent' \in [Relays -> SUBSET Ids]
        /\ \A q \in Relays : sent'[q] \subseteq batch[q]
    BY <2>1 DEF TypeOK, IsNext
  <2> QED
    BY <2>2, <2>3, <2>4 DEF TypeOK, Ids
<1>5. ASSUME NEW r \in Relays, NEW M \in SUBSET Ids, EndPass(r, M),
             UNCHANGED <<running, tx, rows>>,
             log' \in Seq(Ids), faults' \in 0..MaxFaults
      PROVE  TypeOK'
  BY <1>5 DEF EndPass, TypeOK, Ids
<1>6. ASSUME NEW r \in Relays, SendFails(r)
      PROVE  TypeOK'
  <2>1. PICK i \in Ids : UNCHANGED log \/ Deliver(i)
    BY <1>6 DEF SendFails
  <2>2. log' \in Seq(Ids)
    BY <2>1, DeliverAppends DEF TypeOK
  <2>3. faults' \in 0..MaxFaults
    BY <1>6, OutboxAssumption DEF SendFails, Fault, TypeOK
  <2>4. sent[r] \in SUBSET Ids
    BY DEF TypeOK
  <2> QED
    BY <1>5, <1>6, <2>2, <2>3, <2>4 DEF SendFails
<1>7. ASSUME NEW r \in Relays, CommitPass(r)
      PROVE  TypeOK'
  <2>1. sent[r] \in SUBSET Ids
    BY DEF TypeOK
  <2> QED
    BY <1>5, <1>7, <2>1 DEF CommitPass, TypeOK
<1>8. ASSUME NEW r \in Relays, AbortPass(r)
      PROVE  TypeOK'
  <2>1. faults' \in 0..MaxFaults
    BY <1>8, OutboxAssumption DEF AbortPass, Fault, TypeOK
  <2> QED
    BY <1>5, <1>8, <2>1 DEF AbortPass, TypeOK
<1>9. CASE UNCHANGED vars
  BY <1>9 DEF vars, TypeOK, Ids
<1> QED
  BY <1>1, <1>2, <1>3, <1>4, <1>6, <1>7, <1>8, <1>9 DEF Next, Relay

\* Rows, marks and passes stay well formed; a pass has sent only rows it
\* locked (OutboxRelay.publishBatch).
THEOREM TypeCorrect == Spec => []TypeOK
<1>1. TypeOK /\ [Next]_vars => TypeOK'
  BY TypeStep
<1> QED
  BY <1>1, TypeInit, PTL DEF Spec

-----------------------------------------------------------------------------
(* Delivery: only committed rows, none lost, copies bounded *)

\* A step of a unit of work that changes no row leaves the relays' part alone:
\* committed units of work stay committed.
LEMMA UnitOfWorkKeepsDelivery ==
  ASSUME DeliveryInv, TypeOK', UNCHANGED <<rows, relayVars>>,
         \A x \in Txs : tx[x] = "committed" => tx'[x] = "committed"
  PROVE  DeliveryInv'
<1>1. \A i \in Ids : rows[i].tx \in Txs
  BY RowHasTx DEF DeliveryInv
<1>2. \A i \in Ids : tx[rows[i].tx] = "committed" => tx'[rows[i].tx] = "committed"
  BY <1>1
<1>3. Delivered \subseteq Ids
  BY LenProperties, ElementOfSeq DEF DeliveryInv, TypeOK, Delivered, Range
<1>4. BatchesSound'
  BY <1>2 DEF DeliveryInv, TypeOK, BatchesSound, relayVars
<1>5. OnlyCommittedDelivered'
  BY <1>2, <1>3 DEF DeliveryInv, OnlyCommittedDelivered, Delivered, relayVars
<1>6. UNCHANGED <<Ids, Delivered, Recorded>> /\ \A k : Copies(k)' = Copies(k)
  BY DEF Ids, Delivered, Recorded, Copies, relayVars
<1>7. CopiesPaid'
  BY <1>6 DEF DeliveryInv, CopiesPaid, relayVars
<1> QED
  BY <1>4, <1>5, <1>6, <1>7
     DEF DeliveryInv, OnlyRunningLock, BatchesDisjoint, NothingLost, SentIsDelivered, relayVars

\* What Kafka has are rows.
LEMMA DeliveredAreRows == TypeOK => Delivered \subseteq Ids
  BY LenProperties, ElementOfSeq DEF TypeOK, Delivered, Range

\* An INSERT leaves the relays' part alone: nobody has seen the new row.
LEMMA InsertKeepsDelivery ==
  ASSUME DeliveryInv, TypeOK', NEW x \in Txs, Insert(x)
  PROVE  DeliveryInv'
<1>1. /\ Len(rows) \in Nat
      /\ \A i \in Ids : i \in Ids' /\ rows'[i] = rows[i]
      /\ Ids' = Ids \cup {Len(rows) + 1}
  BY InsertAppends DEF DeliveryInv
<1>2. UNCHANGED <<running, tx, published, batch, sent, log, faults>>
  BY DEF Insert, relayVars
<1>3. UNCHANGED <<Delivered, Recorded>> /\ \A k : Copies(k)' = Copies(k)
  BY <1>2 DEF Delivered, Recorded, Copies
<1>4. Delivered \subseteq Ids
  BY DeliveredAreRows DEF DeliveryInv
<1>5. BatchesSound'
  BY <1>1, <1>2 DEF DeliveryInv, TypeOK, BatchesSound
<1>6. OnlyCommittedDelivered'
  BY <1>1, <1>2, <1>3, <1>4 DEF DeliveryInv, OnlyCommittedDelivered
<1>7. CopiesPaid'
  <2>1. ~(Len(rows) + 1 \in Ids)
    BY <1>1 DEF Ids
  <2>2. Copies(Len(rows) + 1) = {}
    BY <1>4, <2>1, CopiesSound DEF DeliveryInv
  <2>3. Cardinality(Copies(Len(rows) + 1)) = 0
    BY <2>2, FS_EmptySet
  <2>4. faults \in Nat
    BY OutboxAssumption DEF DeliveryInv, TypeOK
  <2> QED
    BY <1>1, <1>2, <1>3, <2>3, <2>4 DEF DeliveryInv, CopiesPaid
<1> QED
  BY <1>2, <1>3, <1>5, <1>6, <1>7
     DEF DeliveryInv, OnlyRunningLock, BatchesDisjoint, NothingLost, SentIsDelivered

\* A pass locks rows that are pending: committed, unmarked and unlocked.
LEMMA ClaimKeepsDelivery ==
  ASSUME DeliveryInv, TypeOK', NEW r \in Relays, Claim(r)
  PROVE  DeliveryInv'
<1>1. /\ r \in running
      /\ batch' = [batch EXCEPT ![r] = OldestOf(Pending)]
      /\ UNCHANGED <<running, tx, rows, published, sent, log, faults>>
  BY DEF Claim
<1>2. batch'[r] = OldestOf(Pending) /\ \A q \in Relays \ {r} : batch'[q] = batch[q]
  BY <1>1 DEF DeliveryInv, TypeOK
<1>3. \A i \in OldestOf(Pending) :
          /\ i \notin published /\ tx[rows[i].tx] = "committed"
          /\ \A q \in Relays : i \notin batch[q]
  BY DEF OldestOf, Pending, Locked
<1>4. UNCHANGED <<Ids, Delivered, Recorded>> /\ \A k : Copies(k)' = Copies(k)
  BY <1>1 DEF Ids, Delivered, Recorded, Copies
<1>5. OnlyRunningLock'
  BY <1>1, <1>2 DEF DeliveryInv, OnlyRunningLock
<1>6. BatchesSound'
  BY <1>1, <1>2, <1>3 DEF DeliveryInv, BatchesSound
<1>7. BatchesDisjoint'
  BY <1>1, <1>2, <1>3 DEF DeliveryInv, BatchesDisjoint
<1> QED
  BY <1>1, <1>4, <1>5, <1>6, <1>7
     DEF DeliveryInv, OnlyCommittedDelivered, NothingLost, SentIsDelivered, CopiesPaid

\* The row a pass sends next is not recorded anywhere.
LEMMA NextIsUnrecorded ==
  ASSUME DeliveryInv, NEW r \in Relays, NEW i \in Ids, IsNext(r, i)
  PROVE  i \notin Recorded /\ tx[rows[i].tx] = "committed"
<1>1. i \in batch[r] /\ i \notin sent[r]
  BY DEF IsNext
<1>2. i \notin published /\ tx[rows[i].tx] = "committed"
  BY <1>1 DEF DeliveryInv, BatchesSound
<1>3. \A q \in Relays : i \notin sent[q]
  BY <1>1 DEF DeliveryInv, TypeOK, BatchesDisjoint
<1> QED
  BY <1>2, <1>3 DEF Recorded

\* One more element makes a finite set larger by at most one.
LEMMA AddedAtMostOne ==
  ASSUME NEW S, IsFiniteSet(S), NEW e
  PROVE  /\ Cardinality(S \cup {e}) \in Nat
         /\ Cardinality(S \cup {e}) <= Cardinality(S) + 1
<1>1. Cardinality(S) \in Nat
  BY FS_CardinalityType
<1>2. Cardinality(S \cup {e}) = IF e \in S THEN Cardinality(S) ELSE Cardinality(S) + 1
  BY FS_AddElement
<1> QED
  BY <1>1, <1>2

\* A send turns an unrecorded row into a recorded one with one more copy.
LEMMA SendKeepsDelivery ==
  ASSUME DeliveryInv, TypeOK', NEW r \in Relays, Send(r)
  PROVE  DeliveryInv'
<1>1. PICK i \in Ids : /\ IsNext(r, i)
                       /\ Deliver(i)
                       /\ sent' = [sent EXCEPT ![r] = @ \cup {i}]
  BY DEF Send
<1>2. UNCHANGED <<running, tx, rows, published, batch, faults>>
  BY DEF Send
<1>3. /\ Len(log) \in Nat
      /\ Delivered' = Delivered \cup {i}
      /\ \A k : Copies(k)' = IF k = i THEN Copies(k) \cup {Len(log) + 1} ELSE Copies(k)
  BY <1>1, DeliverAppends DEF DeliveryInv
<1>4. i \notin Recorded /\ tx[rows[i].tx] = "committed"
  BY <1>1, NextIsUnrecorded
<1>5. sent'[r] = sent[r] \cup {i} /\ \A q \in Relays \ {r} : sent'[q] = sent[q]
  BY <1>1 DEF DeliveryInv, TypeOK
<1>6. Recorded' = Recorded \cup {i}
  <2>1. UNION {sent'[q] : q \in Relays} = (UNION {sent[q] : q \in Relays}) \cup {i}
    BY <1>5
  <2> QED
    BY <1>2, <2>1 DEF Recorded
<1>7. CopiesPaid'
  <2> SUFFICES ASSUME NEW k \in Ids
               PROVE  Cardinality(Copies(k)') <= faults + (IF k \in Recorded' THEN 1 ELSE 0)
    BY <1>2 DEF CopiesPaid, Ids
  <2>1. Cardinality(Copies(k)) <= faults + (IF k \in Recorded THEN 1 ELSE 0)
    BY DEF DeliveryInv, CopiesPaid
  <2>2. CASE k # i
    BY <1>3, <1>6, <2>1, <2>2
  <2>3. CASE k = i
    <3>1. IsFiniteSet(Copies(i)) /\ Cardinality(Copies(i)) \in Nat /\ faults \in Nat
      BY CopiesSound, OutboxAssumption DEF DeliveryInv, TypeOK
    <3>2. /\ Cardinality(Copies(i) \cup {Len(log) + 1}) <= Cardinality(Copies(i)) + 1
          /\ Cardinality(Copies(i) \cup {Len(log) + 1}) \in Nat
      BY <3>1, AddedAtMostOne
    <3>3. Copies(k)' = Copies(i) \cup {Len(log) + 1}
      BY <1>3, <2>3
    <3>4. Cardinality(Copies(i)) <= faults
      BY <1>4, <2>1, <2>3, <3>1
    <3>5. i \in Recorded'
      BY <1>6
    <3> QED
      BY <2>3, <3>1, <3>2, <3>3, <3>4, <3>5
  <2> QED
    BY <2>2, <2>3
<1>8. OnlyCommittedDelivered'
  BY <1>2, <1>3, <1>4 DEF DeliveryInv, OnlyCommittedDelivered
<1>9. SentIsDelivered'
  BY <1>3, <1>5 DEF DeliveryInv, SentIsDelivered
<1> QED
  BY <1>2, <1>3, <1>7, <1>8, <1>9
     DEF DeliveryInv, OnlyRunningLock, BatchesSound, BatchesDisjoint, NothingLost

\* The end of a pass: it may keep its marks for free; dropping them, or a last
\* copy that nobody records, costs a fault.
LEMMA EndPassKeepsDelivery ==
  ASSUME DeliveryInv, TypeOK', NEW r \in Relays,
         NEW M \in {sent[r], {}}, EndPass(r, M),
         UNCHANGED <<running, tx, rows>>,
         \/ UNCHANGED log
         \/ \E i \in Ids : IsNext(r, i) /\ Deliver(i) /\ faults' = faults + 1,
         faults' = faults + 1 \/ (faults' = faults /\ M = sent[r])
  PROVE  DeliveryInv'
<1>1. /\ published' = published \cup M
      /\ batch'[r] = {} /\ \A q \in Relays \ {r} : batch'[q] = batch[q]
      /\ sent'[r] = {} /\ \A q \in Relays \ {r} : sent'[q] = sent[q]
  BY DEF EndPass, DeliveryInv, TypeOK
<1>2. M \subseteq sent[r] /\ sent[r] \subseteq batch[r] /\ sent[r] \subseteq Delivered
  BY DEF DeliveryInv, TypeOK, SentIsDelivered
<1>3. /\ Delivered \subseteq Delivered'
      /\ \A k \in Delivered' : k \in Delivered \/ tx[rows[k].tx] = "committed"
  <2>1. CASE UNCHANGED log
    BY <2>1 DEF Delivered
  <2>2. CASE \E i \in Ids : IsNext(r, i) /\ Deliver(i)
    BY <2>2, NextIsUnrecorded, DeliverAppends DEF DeliveryInv
  <2> QED
    BY <2>1, <2>2
<1>4. OnlyRunningLock' /\ BatchesDisjoint'
  BY <1>1 DEF DeliveryInv, OnlyRunningLock, BatchesDisjoint
<1>5. BatchesSound'
  BY <1>1, <1>2 DEF DeliveryInv, BatchesSound, BatchesDisjoint
<1>6. OnlyCommittedDelivered'
  BY <1>3 DEF DeliveryInv, OnlyCommittedDelivered
<1>7. NothingLost' /\ SentIsDelivered'
  BY <1>1, <1>2, <1>3 DEF DeliveryInv, NothingLost, SentIsDelivered
<1>8. CopiesPaid'
  <2> SUFFICES ASSUME NEW k \in Ids
               PROVE  Cardinality(Copies(k)') <= faults' + (IF k \in Recorded' THEN 1 ELSE 0)
    BY DEF CopiesPaid, Ids
  <2>1. Cardinality(Copies(k)) <= faults + (IF k \in Recorded THEN 1 ELSE 0)
    BY DEF DeliveryInv, CopiesPaid
  <2>2. /\ IsFiniteSet(Copies(k)) /\ Cardinality(Copies(k)) \in Nat
        /\ faults \in Nat /\ faults' \in Nat
    BY CopiesSound, OutboxAssumption DEF DeliveryInv, TypeOK
  <2>3. CASE UNCHANGED log /\ faults' = faults + 1
    <3>1. Copies(k)' = Copies(k)
      BY <2>3 DEF Copies
    <3> QED
      BY <2>1, <2>2, <2>3, <3>1
  <2>4. CASE UNCHANGED log /\ faults' = faults /\ M = sent[r]
    <3>1. Copies(k)' = Copies(k)
      BY <2>4 DEF Copies
    <3>2. Recorded \subseteq Recorded'
      BY <1>1, <2>4 DEF Recorded
    <3> QED
      BY <2>1, <2>2, <2>4, <3>1, <3>2
  <2>5. CASE \E i \in Ids : IsNext(r, i) /\ Deliver(i) /\ faults' = faults + 1
    <3>1. PICK i \in Ids : IsNext(r, i) /\ Deliver(i) /\ faults' = faults + 1
      BY <2>5
    <3>2. Copies(k)' = IF k = i THEN Copies(k) \cup {Len(log) + 1} ELSE Copies(k)
      BY <3>1, DeliverAppends DEF DeliveryInv
    <3>3. CASE k # i
      BY <2>1, <2>2, <3>1, <3>2, <3>3
    <3>4. CASE k = i
      <4>1. i \notin Recorded
        BY <3>1, NextIsUnrecorded
      <4>2. /\ Cardinality(Copies(k) \cup {Len(log) + 1}) <= Cardinality(Copies(k)) + 1
            /\ Cardinality(Copies(k) \cup {Len(log) + 1}) \in Nat
        BY <2>2, AddedAtMostOne
      <4> QED
        BY <2>1, <2>2, <3>1, <3>2, <3>4, <4>1, <4>2
    <3> QED
      BY <3>3, <3>4
  <2> QED
    BY <2>3, <2>4, <2>5
<1> QED
  BY <1>4, <1>5, <1>6, <1>7, <1>8 DEF DeliveryInv

\* Every step keeps the delivery invariant.
LEMMA DeliveryStep ==
  ASSUME DeliveryInv, [Next]_vars
  PROVE  DeliveryInv'
<1> USE DEF DeliveryInv
<1>1. TypeOK'
  BY TypeStep
<1>2. ASSUME NEW x \in Txs, Begin(x) \/ Commit(x) \/ Rollback(x)
      PROVE  DeliveryInv'
  <2>1. /\ UNCHANGED <<rows, relayVars>>
        /\ \A y \in Txs : tx[y] = "committed" => tx'[y] = "committed"
    BY <1>2 DEF Begin, Commit, Rollback, TypeOK
  <2> QED
    BY <1>1, <2>1, UnitOfWorkKeepsDelivery
<1>3. ASSUME NEW r \in Relays, SendFails(r)
      PROVE  DeliveryInv'
  BY <1>1, <1>3, EndPassKeepsDelivery DEF SendFails, Fault
<1>4. ASSUME NEW r \in Relays, CommitPass(r)
      PROVE  DeliveryInv'
  BY <1>1, <1>4, EndPassKeepsDelivery DEF CommitPass
<1>5. ASSUME NEW r \in Relays, AbortPass(r)
      PROVE  DeliveryInv'
  BY <1>1, <1>5, EndPassKeepsDelivery DEF AbortPass, Fault
<1>6. CASE UNCHANGED vars
  BY <1>1, <1>6, UnitOfWorkKeepsDelivery DEF vars, relayVars
<1> QED
  BY <1>1, <1>2, <1>3, <1>4, <1>5, <1>6, InsertKeepsDelivery, ClaimKeepsDelivery,
     SendKeepsDelivery DEF Next, Relay

\* The delivery invariant holds at the start.
LEMMA DeliveryInit == Init => DeliveryInv
<1> SUFFICES ASSUME Init PROVE DeliveryInv
  OBVIOUS
<1>1. TypeOK
  BY TypeInit
<1>2. log = <<>> /\ DOMAIN log = {} /\ Ids = {}
  BY DEF Init, Ids
<1>3. \A r \in Relays : batch[r] = {} /\ sent[r] = {}
  BY DEF Init
<1> QED
  BY <1>1, <1>2, <1>3
     DEF Init, DeliveryInv, OnlyRunningLock, BatchesSound, BatchesDisjoint,
         OnlyCommittedDelivered, NothingLost, SentIsDelivered, CopiesPaid, Delivered, Range

\* The delivery invariant holds throughout.
LEMMA DeliveryAlways == Spec => []DeliveryInv
<1>1. DeliveryInv /\ [Next]_vars => DeliveryInv'
  BY DeliveryStep
<1> QED
  BY <1>1, DeliveryInit, PTL DEF Spec

\* Whatever fails and however many relays run, Kafka never hears of a change
\* that is not committed (UnitOfWork.Execute, OutboxRelay.claim).
THEOREM NeverAhead == Spec => []OnlyCommittedDelivered
<1>1. DeliveryInv => OnlyCommittedDelivered
  BY DEF DeliveryInv
<1> QED
  BY <1>1, DeliveryAlways, PTL

\* A row is marked only after Kafka has it: no failed send, failed mark or
\* crash loses a committed row (OutboxRelay.publishBatch, failRow).
THEOREM MarkedIsDelivered == Spec => []NothingLost
<1>1. DeliveryInv => NothingLost
  BY DEF DeliveryInv
<1> QED
  BY <1>1, DeliveryAlways, PTL

\* After n faults a row has at most n + 1 copies, with any number of relays
\* (FOR UPDATE SKIP LOCKED in OutboxRelay.claim).
THEOREM CopiesAreBounded == Spec => []BoundedRedelivery
<1>1. DeliveryInv => BoundedRedelivery
  <2> SUFFICES ASSUME DeliveryInv, NEW i \in Delivered
               PROVE  Cardinality(Copies(i)) <= faults + 1
    BY DEF BoundedRedelivery
  <2>1. i \in Ids
    BY DeliveredAreRows DEF DeliveryInv
  <2>2. Cardinality(Copies(i)) \in Nat /\ faults \in Nat
    BY CopiesSound, OutboxAssumption DEF DeliveryInv, TypeOK
  <2> QED
    BY <2>1, <2>2 DEF DeliveryInv, CopiesPaid
<1> QED
  BY <1>1, DeliveryAlways, PTL

-----------------------------------------------------------------------------
(* Order: one relay sends the rows of a key in id order *)

\* The part of a step that the units of work see: a relay changes neither the
\* rows nor the state of a unit of work.
LEMMA RelayLeavesRows ==
  ASSUME NEW r \in Relays, Relay(r) \/ SendFails(r) \/ AbortPass(r)
  PROVE  UNCHANGED <<running, tx, rows>>
BY DEF Relay, Claim, Send, CommitPass, SendFails, AbortPass

\* The units of work keep their rows in the order in which they held the lock.
LEMMA LockOrderStep ==
  ASSUME TypeOK, RowsBegun, LocksExclude, EarlierSettled, [Next]_vars
  PROVE  RowsBegun' /\ LocksExclude' /\ EarlierSettled'
<1>0. /\ \A i \in Ids : rows[i].tx \in Txs
      /\ Len(rows) \in Nat /\ Ids = 1..Len(rows)
  BY RowHasTx, LenProperties DEF TypeOK, Ids
<1>1. ASSUME NEW x \in Txs, Begin(x)
      PROVE  RowsBegun' /\ LocksExclude' /\ EarlierSettled'
  <2>1. /\ tx[x] = "idle" /\ tx' = [tx EXCEPT ![x] = "open"]
        /\ UNCHANGED rows
        /\ x \notin Unlocked =>
              \A y \in Txs \ Unlocked : KeyOf[y] = KeyOf[x] => tx[y] # "open"
    BY <1>1 DEF Begin
  <2>2. \A i \in Ids : rows[i].tx # x /\ tx'[rows[i].tx] = tx[rows[i].tx]
    BY <1>0, <2>1 DEF RowsBegun, TypeOK
  <2>3. RowsBegun' /\ EarlierSettled'
    BY <1>0, <2>1, <2>2 DEF RowsBegun, EarlierSettled, Ordered, Ids
  <2>4. LocksExclude'
    BY <2>1 DEF LocksExclude, TypeOK
  <2> QED
    BY <2>3, <2>4
<1>2. ASSUME NEW x \in Txs, Insert(x)
      PROVE  RowsBegun' /\ LocksExclude' /\ EarlierSettled'
  <2>1. /\ \A i \in Ids : rows'[i] = rows[i]
        /\ Ids' = Ids \cup {Len(rows) + 1}
        /\ rows'[Len(rows) + 1].tx = x
    BY <1>2, InsertAppends
  <2>2. UNCHANGED tx /\ tx[x] = "open"
    BY <1>2 DEF Insert
  <2>3. RowsBegun'
    BY <2>1, <2>2 DEF RowsBegun
  <2>4. LocksExclude'
    BY <2>2 DEF LocksExclude
  <2>5. EarlierSettled'
    <3> SUFFICES ASSUME NEW j \in Ids', NEW i \in 1..(j - 1), Ordered(i, j)'
                 PROVE  \/ rows'[i].tx = rows'[j].tx
                        \/ tx'[rows'[i].tx] \in {"committed", "aborted"}
      BY DEF EarlierSettled
    <3>1. i \in Ids /\ rows'[i] = rows[i] /\ rows[i].tx \in Txs
      BY <1>0, <2>1
    <3>2. CASE j \in Ids
      BY <2>1, <2>2, <3>1, <3>2 DEF EarlierSettled, Ordered
    <3>3. CASE j = Len(rows) + 1
      <4>1. KeyOf[rows[i].tx] = KeyOf[x] /\ rows[i].tx \notin Unlocked /\ x \notin Unlocked
        BY <2>1, <3>1, <3>3 DEF Ordered
      <4>2. tx[rows[i].tx] = "open" => rows[i].tx = x
        BY <2>2, <3>1, <4>1 DEF LocksExclude
      <4>3. tx[rows[i].tx] \in {"open", "committed", "aborted"}
        BY <3>1 DEF RowsBegun, TypeOK, TxState
      <4> QED
        BY <2>1, <2>2, <3>1, <3>3, <4>2, <4>3
    <3> QED
      BY <2>1, <3>2, <3>3
  <2> QED
    BY <2>3, <2>4, <2>5
<1>3. ASSUME NEW x \in Txs, NEW v \in {"committed", "aborted"},
             tx' = [tx EXCEPT ![x] = v], UNCHANGED rows
      PROVE  RowsBegun' /\ LocksExclude' /\ EarlierSettled'
  <2>1. \A y \in Txs : tx'[y] = IF y = x THEN v ELSE tx[y]
    BY <1>3 DEF TypeOK
  <2>2. RowsBegun'
    BY <1>0, <1>3, <2>1 DEF RowsBegun, Ids
  <2>3. LocksExclude'
    BY <2>1 DEF LocksExclude
  <2>4. EarlierSettled'
    BY <1>0, <1>3, <2>1 DEF EarlierSettled, Ordered, Ids
  <2> QED
    BY <2>2, <2>3, <2>4
<1>4. ASSUME UNCHANGED <<tx, rows>>
      PROVE  RowsBegun' /\ LocksExclude' /\ EarlierSettled'
  BY <1>4 DEF RowsBegun, LocksExclude, EarlierSettled, Ordered, Ids
<1> QED
  BY <1>1, <1>2, <1>3, <1>4, RelayLeavesRows DEF Next, Commit, Rollback, vars

\* When a unit of work commits, no later row of its key can be visible yet.
LEMMA NoLateCommit ==
  ASSUME TypeOK, EarlierSettled, NEW x \in Txs,
         tx[x] = "open", tx' = [tx EXCEPT ![x] = "committed"], UNCHANGED rows,
         NEW j \in Ids, NEW i \in 1..(j - 1), Ordered(i, j),
         tx[rows[j].tx] = "committed", tx'[rows[i].tx] = "committed"
  PROVE  tx[rows[i].tx] = "committed"
<1>1. i \in Ids
  BY LenProperties DEF TypeOK, Ids
<1>2. rows[i].tx \in Txs
  BY <1>1, RowHasTx
<1>3. \/ rows[i].tx = rows[j].tx
      \/ tx[rows[i].tx] \in {"committed", "aborted"}
  BY DEF EarlierSettled
<1>4. rows[i].tx # x
  BY <1>3
<1> QED
  BY <1>2, <1>4 DEF TypeOK

\* A single relay takes the rows of a key without gaps.
LEMMA NoGapsStep ==
  ASSUME DeliveryInv, EarlierSettled, NoGaps, [Next]_vars
  PROVE  NoGaps'
<1> USE DEF DeliveryInv
<1>0. Len(rows) \in Nat /\ Ids = 1..Len(rows)
  BY LenProperties DEF TypeOK, Ids
<1>1. ASSUME NEW x \in Txs, Begin(x)
      PROVE  NoGaps'
  <2>1. \A i \in Ids : tx'[rows[i].tx] = "committed" => tx[rows[i].tx] = "committed"
    BY <1>1, RowHasTx DEF Begin, TypeOK
  <2>2. UNCHANGED <<running, rows, published, batch>>
    BY <1>1 DEF Begin, relayVars
  <2>3. \A r \in Relays : \A j \in batch[r] : \A i \in 1..(j - 1) : i \in Ids
    BY <1>0 DEF TypeOK
  <2> QED
    BY <2>1, <2>2, <2>3 DEF NoGaps, Ordered
<1>2. ASSUME NEW x \in Txs, Insert(x)
      PROVE  NoGaps'
  <2>1. \A i \in Ids : rows'[i] = rows[i]
    BY <1>2, InsertAppends
  <2>2. UNCHANGED <<running, tx, published, batch>>
    BY <1>2 DEF Insert, relayVars
  <2>3. \A r \in Relays : \A j \in batch[r] : j \in Ids /\ \A i \in 1..(j - 1) : i \in Ids
    BY <1>0 DEF TypeOK
  <2> QED
    BY <2>1, <2>2, <2>3 DEF NoGaps, Ordered
<1>3. ASSUME NEW x \in Txs, Commit(x)
      PROVE  NoGaps'
  <2>1. /\ tx[x] = "open" /\ tx' = [tx EXCEPT ![x] = "committed"]
        /\ UNCHANGED <<running, rows, published, batch>>
    BY <1>3 DEF Commit, relayVars
  <2> SUFFICES ASSUME NEW r \in Relays, running = {r}, NEW j \in batch[r],
                      NEW i \in 1..(j - 1), Ordered(i, j), tx'[rows[i].tx] = "committed"
               PROVE  i \in published \cup batch[r]
    BY <2>1 DEF NoGaps, Ordered
  <2>2. j \in Ids /\ tx[rows[j].tx] = "committed"
    BY DEF TypeOK, BatchesSound
  <2>3. tx[rows[i].tx] = "committed"
    BY <2>1, <2>2, NoLateCommit
  <2> QED
    BY <2>3 DEF NoGaps
<1>4. ASSUME NEW x \in Txs, Rollback(x)
      PROVE  NoGaps'
  <2>1. \A i \in Ids : tx'[rows[i].tx] = "committed" => tx[rows[i].tx] = "committed"
    BY <1>4, RowHasTx DEF Rollback, TypeOK
  <2>2. UNCHANGED <<running, rows, published, batch>>
    BY <1>4 DEF Rollback, relayVars
  <2>3. \A r \in Relays : \A j \in batch[r] : \A i \in 1..(j - 1) : i \in Ids
    BY <1>0 DEF TypeOK
  <2> QED
    BY <2>1, <2>2, <2>3 DEF NoGaps, Ordered
<1>5. ASSUME NEW q \in Relays, Claim(q)
      PROVE  NoGaps'
  <2>1. /\ q \in running /\ batch[q] = {}
        /\ batch' = [batch EXCEPT ![q] = OldestOf(Pending)]
        /\ UNCHANGED <<running, tx, rows, published>>
    BY <1>5 DEF Claim
  <2> SUFFICES ASSUME NEW r \in Relays, running = {r}, NEW j \in batch'[r],
                      NEW i \in 1..(j - 1), Ordered(i, j), tx[rows[i].tx] = "committed"
               PROVE  i \in published \cup batch'[r]
    BY <2>1 DEF NoGaps, Ordered
  <2>2. r = q /\ batch'[r] = OldestOf(Pending)
    BY <2>1 DEF TypeOK
  <2>3. \A p \in Relays : batch[p] = {}
    BY <2>1 DEF OnlyRunningLock
  <2>4. Pending \in SUBSET Ids /\ j \in Pending /\ j \in Ids
    BY <2>2 DEF OldestOf, Pending
  <2>5. i \in Ids /\ i < j
    BY <1>0, <2>4
  <2>6. CASE i \in published
    BY <2>6
  <2>7. CASE i \notin published
    <3>1. i \in Pending
      BY <2>3, <2>5, <2>7 DEF Pending, Locked
    <3> QED
      BY <2>2, <2>4, <2>5, <3>1, OldestAreClosed
  <2> QED
    BY <2>6, <2>7
<1>6. ASSUME NEW q \in Relays, Send(q)
      PROVE  NoGaps'
  BY <1>6 DEF Send, NoGaps, Ordered
<1>7. ASSUME NEW q \in Relays, NEW M, EndPass(q, M), UNCHANGED <<running, tx, rows>>
      PROVE  NoGaps'
  <2>1. /\ published \subseteq published'
        /\ batch'[q] = {} /\ \A r \in Relays \ {q} : batch'[r] = batch[r]
    BY <1>7 DEF EndPass, TypeOK
  <2> QED
    BY <1>7, <2>1 DEF NoGaps, Ordered
<1>8. CASE UNCHANGED vars
  BY <1>8 DEF vars, NoGaps, Ordered
<1> QED
  BY <1>1, <1>2, <1>3, <1>4, <1>5, <1>6, <1>7, <1>8
     DEF Next, Relay, SendFails, CommitPass, AbortPass

\* A further copy of the row that is next finds the earlier ones in the log.
LEMMA DeliverKeepsOrder ==
  ASSUME DeliveryInv, NoGaps, KeyOrder, NEW q \in Relays, NEW k \in Ids,
         IsNext(q, k), Deliver(k), UNCHANGED <<running, tx, rows>>
  PROVE  KeyOrder'
<1>1. /\ Len(log) \in Nat
      /\ Delivered' = Delivered \cup {k}
      /\ \A i : Copies(i)' = IF i = k THEN Copies(i) \cup {Len(log) + 1} ELSE Copies(i)
  BY DeliverAppends DEF DeliveryInv
<1> SUFFICES ASSUME NEW r \in Relays, running = {r}, NEW j \in Delivered',
                    NEW i \in 1..(j - 1), Ordered(i, j), tx[rows[i].tx] = "committed",
                    NEW n \in Copies(j)'
             PROVE  \E m \in Copies(i)' : m < n
  BY DEF KeyOrder, Ordered
<1>2. Copies(i) \subseteq Copies(i)'
  BY <1>1
<1>3. CASE n \in Copies(j)
  <2>1. j \in Delivered
    BY <1>3, CopiesSound DEF DeliveryInv
  <2>2. \E m \in Copies(i) : m < n
    BY <1>3, <2>1 DEF KeyOrder
  <2> QED
    BY <1>2, <2>2
<1>4. CASE n \notin Copies(j)
  <2>1. j = k /\ n = Len(log) + 1
    BY <1>1, <1>4
  <2>2. k \in batch[q] /\ k \notin sent[q] /\ q = r
    BY DEF IsNext, DeliveryInv, OnlyRunningLock
  <2>3. i \in published \cup batch[r]
    BY <2>1, <2>2 DEF NoGaps
  <2>4. i \in batch[r] => i \in sent[r]
    <3>1. k \in Int /\ i \in Int /\ ~(k <= i)
      BY <2>1, LenProperties DEF Ids, DeliveryInv, TypeOK
    <3> QED
      BY <2>2, <3>1 DEF IsNext
  <2>5. i \in Delivered
    BY <2>3, <2>4 DEF DeliveryInv, NothingLost, SentIsDelivered
  <2>6. PICK m \in Copies(i) : m \in 1..Len(log)
    BY <2>5, CopiesSound DEF DeliveryInv
  <2>7. m < n
    BY <1>1, <2>1, <2>6
  <2> QED
    BY <1>2, <2>6, <2>7
<1> QED
  BY <1>3, <1>4

\* A single relay sends the rows of a key in order.
LEMMA KeyOrderStep ==
  ASSUME DeliveryInv, OrderInv, [Next]_vars
  PROVE  KeyOrder'
<1> USE DEF DeliveryInv, OrderInv
<1>0. /\ Len(rows) \in Nat /\ Ids = 1..Len(rows)
      /\ Delivered \subseteq Ids
      /\ \A j \in Delivered : \A i \in 1..(j - 1) : i \in Ids
  <2>1. Len(rows) \in Nat /\ Ids = 1..Len(rows) /\ Delivered \subseteq Ids
    BY LenProperties, DeliveredAreRows DEF TypeOK, Ids
  <2> QED
    BY <2>1
<1>1. ASSUME UNCHANGED <<running, log>>,
             \A i \in Ids : rows'[i] = rows[i],
             \A i \in Ids : tx'[rows[i].tx] = "committed" => tx[rows[i].tx] = "committed"
      PROVE  KeyOrder'
  <2>1. Delivered' = Delivered /\ \A k : Copies(k)' = Copies(k)
    BY <1>1 DEF Delivered, Copies
  <2> QED
    BY <1>0, <1>1, <2>1 DEF KeyOrder, Ordered
<1>2. ASSUME NEW x \in Txs, Begin(x) \/ Rollback(x)
      PROVE  KeyOrder'
  <2>1. \A i \in Ids : tx'[rows[i].tx] = "committed" => tx[rows[i].tx] = "committed"
    BY <1>2, RowHasTx DEF Begin, Rollback, TypeOK
  <2> QED
    BY <1>1, <1>2, <2>1 DEF Begin, Rollback, relayVars
<1>3. ASSUME NEW x \in Txs, Insert(x)
      PROVE  KeyOrder'
  <2>1. \A i \in Ids : rows'[i] = rows[i]
    BY <1>3, InsertAppends
  <2> QED
    BY <1>1, <1>3, <2>1 DEF Insert, relayVars
<1>4. ASSUME NEW x \in Txs, Commit(x)
      PROVE  KeyOrder'
  <2>1. /\ tx[x] = "open" /\ tx' = [tx EXCEPT ![x] = "committed"]
        /\ UNCHANGED <<running, rows, log>>
    BY <1>4 DEF Commit, relayVars
  <2>2. Delivered' = Delivered /\ \A k : Copies(k)' = Copies(k)
    BY <2>1 DEF Delivered, Copies
  <2> SUFFICES ASSUME NEW r \in Relays, running = {r}, NEW j \in Delivered,
                      NEW i \in 1..(j - 1), Ordered(i, j), tx'[rows[i].tx] = "committed"
               PROVE  \A n \in Copies(j) : \E m \in Copies(i) : m < n
    BY <2>1, <2>2 DEF KeyOrder, Ordered
  <2>3. j \in Ids /\ tx[rows[j].tx] = "committed"
    BY <1>0 DEF OnlyCommittedDelivered
  <2>4. tx[rows[i].tx] = "committed"
    BY <2>1, <2>3, NoLateCommit
  <2> QED
    BY <2>4 DEF KeyOrder
<1>5. ASSUME NEW r \in Relays, Send(r) \/ SendFails(r)
      PROVE  KeyOrder'
  <2>1. PICK k \in Ids : IsNext(r, k) /\ (UNCHANGED log \/ Deliver(k))
    BY <1>5 DEF Send, SendFails
  <2>2. UNCHANGED <<running, tx, rows>>
    BY <1>5, RelayLeavesRows DEF Relay
  <2>3. CASE UNCHANGED log
    BY <1>1, <2>2, <2>3
  <2>4. CASE Deliver(k)
    BY <2>1, <2>2, <2>4, DeliverKeepsOrder
  <2> QED
    BY <2>1, <2>3, <2>4
<1>6. ASSUME NEW r \in Relays, Claim(r) \/ CommitPass(r) \/ AbortPass(r)
      PROVE  KeyOrder'
  BY <1>1, <1>6 DEF Claim, CommitPass, AbortPass
<1>7. CASE UNCHANGED vars
  BY <1>1, <1>7 DEF vars
<1> QED
  BY <1>2, <1>3, <1>4, <1>5, <1>6, <1>7 DEF Next, Relay

\* The order invariant holds at the start.
LEMMA OrderInit == Init => OrderInv
<1> SUFFICES ASSUME Init PROVE OrderInv
  OBVIOUS
<1>1. Ids = {} /\ Delivered = {}
  BY DEF Init, Ids, Delivered, Range
<1>2. \A r \in Relays : batch[r] = {}
  BY DEF Init
<1>3. \A x \in Txs : tx[x] = "idle"
  BY DEF Init
<1> QED
  BY <1>1, <1>2, <1>3, OutboxAssumption
     DEF OrderInv, RowsBegun, LocksExclude, EarlierSettled, NoGaps, KeyOrder

\* Where one relay runs, consumers of a topic first see the changes of an
\* aggregate in the order they were made, through failed sends, aborted
\* passes and batch boundaries (OutboxRelay.claim, publishBatch).
THEOREM OneRelayOrder == Spec => []OneRelayKeepsOrder
<1>1. DeliveryInv /\ OrderInv /\ [Next]_vars => OrderInv'
  BY LockOrderStep, NoGapsStep, KeyOrderStep DEF OrderInv, DeliveryInv
<1>2. DeliveryInv /\ OrderInv => OneRelayKeepsOrder
  <2> SUFFICES ASSUME DeliveryInv, OrderInv, Cardinality(running) = 1
               PROVE  PerKeyOrder
    BY DEF OneRelayKeepsOrder
  <2>1. running \in SUBSET Relays
    BY DEF DeliveryInv, TypeOK
  <2>2. IsFiniteSet(running)
    BY <2>1, FS_Subset, OutboxAssumption
  <2>3. \E r : running = {r}
    BY <2>2, FS_Singleton
  <2>4. PICK r \in Relays : running = {r}
    BY <2>1, <2>3
  <2>5. \A i, j : {rows[i].tx, rows[j].tx} \cap Unlocked = {}
                      => rows[i].tx \notin Unlocked /\ rows[j].tx \notin Unlocked
    OBVIOUS
  <2> QED
    BY <2>4, <2>5 DEF OrderInv, KeyOrder, PerKeyOrder, Ordered
<1> QED
  BY <1>1, <1>2, OrderInit, DeliveryAlways, PTL DEF Spec
=============================================================================
