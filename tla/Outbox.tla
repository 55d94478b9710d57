------------------------------- MODULE Outbox -------------------------------
(***************************************************************************)
(* The transactional outbox: units of work that insert outbox_events rows  *)
(* next to their aggregate write (UnitOfWork, OutboxPublisher), and the    *)
(* relays that drain the committed rows onto Kafka (OutboxRelay), one per  *)
(* replica.                                                                *)
(*                                                                         *)
(* A row's id is its place in `rows`: BIGSERIAL hands it out at the INSERT,*)
(* not at the commit.  Every row of a transaction has the transaction's    *)
(* key (the id of the one aggregate it changes), which is the message key. *)
(***************************************************************************)
EXTENDS Integers, Sequences, FiniteSets, Functions

CONSTANTS Txs,        \* units of work
          KeyOf,      \* [Txs -> keys]
          Unlocked,   \* units of work that write no aggregate row (SweepCPTMisses)
          EventsOf,   \* [Txs -> sequences of domain events]: what each publishes
          Relays,     \* the replicas that may run a relay
          BatchSize,
          MaxFaults   \* bound: failed sends, failed passes and crashes

\* The events each encoder maps: Publisher.Encode, AnalyticsPublisher.Encode.
Integration == {"TaskCompleted", "TaskCPTMissed", "PackageManifested"}
Analytics == {"TaskCreated", "TaskClaimed", "LeaseExpired", "TaskCompleted",
              "ItemPicked", "PackageSealed", "WeightDiscrepancyDetected",
              "LabelApplied", "PackageDiverted", "PackageManifested"}

ASSUME OutboxAssumption ==
    /\ Unlocked \subseteq Txs
    /\ EventsOf \in [Txs -> Seq(Integration \cup Analytics)]
    /\ IsFiniteSet(Relays)
    /\ BatchSize \in Nat \ {0}
    /\ MaxFaults \in Nat

VARIABLES running,   \* the replicas that are deployed
          tx,        \* state of each unit of work
          rows,      \* outbox_events: row id -> message
          published, \* ids whose published_at is committed
          batch,     \* per relay: the ids its pass has locked
          sent,      \* per relay: those of them it has sent and marked
          log,       \* what Kafka stored, in order: row ids
          faults

vars == <<running, tx, rows, published, batch, sent, log, faults>>

TxState == {"idle", "open", "committed", "aborted"}
Ids == 1..Len(rows)

\* What Publish inserts for the events of x: an encoder maps the events of its
\* own contract, and the integration encoder goes through them first.
Contract == [events |-> Integration, analytics |-> Analytics]
Messages(x) ==
    {m \in [tx : {x}, topic : {"events", "analytics"}, at : DOMAIN EventsOf[x]] :
        EventsOf[x][m.at] \in Contract[m.topic]}
Before(m, n) == IF m.topic = n.topic THEN m.at < n.at ELSE m.topic = "events"
Row == UNION {Messages(x) : x \in Txs}

\* Rows, marks and passes are well formed; a pass has sent only rows of its batch.
TypeOK ==
    /\ running \in (SUBSET Relays) \ {{}}
    /\ tx \in [Txs -> TxState]
    /\ rows \in Seq(Row)
    /\ published \subseteq Ids
    /\ batch \in [Relays -> SUBSET Ids]
    /\ sent \in [Relays -> SUBSET Ids]
    /\ \A r \in Relays : sent[r] \subseteq batch[r]
    /\ log \in Seq(Ids)
    /\ faults \in 0..MaxFaults

Init ==
    /\ running \in (SUBSET Relays) \ {{}}
    /\ tx = [x \in Txs |-> "idle"]
    /\ rows = <<>>
    /\ published = {}
    /\ batch = [r \in Relays |-> {}]
    /\ sent = [r \in Relays |-> {}]
    /\ log = <<>>
    /\ faults = 0

relayVars == <<running, published, batch, sent, log, faults>>

-----------------------------------------------------------------------------
(* Units of work *)

\* The aggregate write comes first and holds the row lock to the end, so two
\* units of work on one aggregate do not overlap, unless one writes no row.
Begin(x) ==
    /\ tx[x] = "idle"
    /\ x \notin Unlocked =>
          \A y \in Txs \ Unlocked : KeyOf[y] = KeyOf[x] => tx[y] # "open"
    /\ tx' = [tx EXCEPT ![x] = "open"]
    /\ UNCHANGED <<rows, relayVars>>

\* OutboxPublisher.Publish: the INSERT of the next message.
Insert(x) ==
    /\ tx[x] = "open"
    /\ \E m \in Messages(x) \ Range(rows) :
          /\ \A n \in Messages(x) : Before(n, m) => n \in Range(rows)
          /\ rows' = Append(rows, m)
    /\ UNCHANGED <<tx, relayVars>>

Commit(x) ==
    /\ tx[x] = "open"
    /\ Messages(x) \subseteq Range(rows)
    /\ tx' = [tx EXCEPT ![x] = "committed"]
    /\ UNCHANGED <<rows, relayVars>>

\* An error or a panic anywhere in the unit of work rolls it back.
Rollback(x) ==
    /\ tx[x] = "open"
    /\ tx' = [tx EXCEPT ![x] = "aborted"]
    /\ UNCHANGED <<rows, relayVars>>

-----------------------------------------------------------------------------
(* Relays *)

Locked(i) == \E r \in Relays : i \in batch[r]

\* Mutant: rows of transactions still open are read too.
DirtyPending == {i \in Ids : i \notin published /\ ~Locked(i) /\ tx[rows[i].tx] # "aborted"}

\* Mutant: no FOR UPDATE: rows another relay is sending are taken again.
PendingWithoutLock == {i \in Ids : i \notin published /\ tx[rows[i].tx] = "committed"}

\* WHERE published_at IS NULL ... FOR UPDATE SKIP LOCKED
Pending == {i \in Ids : i \notin published /\ ~Locked(i) /\ tx[rows[i].tx] = "committed"}

\* Mutant: no ORDER BY: the newest rows.
NewestOf(ids) == {i \in ids : Cardinality({j \in ids : j > i}) < BatchSize}

\* ORDER BY id LIMIT batchSize
OldestOf(ids) == {i \in ids : Cardinality({j \in ids : j < i}) < BatchSize}

\* RelayOnce begins: lock a batch.  An empty pass changes nothing.
Claim(r) ==
    /\ r \in running
    /\ batch[r] = {}
    /\ Pending # {}
    /\ batch' = [batch EXCEPT ![r] = OldestOf(Pending)]
    /\ UNCHANGED <<running, tx, rows, published, sent, log, faults>>

\* The loop takes the rows of the batch in id order.
IsNext(r, i) ==
    /\ i \in batch[r] \ sent[r]
    /\ \A j \in batch[r] \ sent[r] : i <= j

\* Mutant: what the pass has sent is not reset.
EndPassKeepingPosition(r, marked) ==
    /\ published' = published \cup marked
    /\ batch' = [batch EXCEPT ![r] = {}]
    /\ UNCHANGED sent

\* The pass ends: its marks survive (Commit) or not (Rollback).
EndPass(r, marked) ==
    /\ published' = published \cup marked
    /\ batch' = [batch EXCEPT ![r] = {}]
    /\ sent' = [sent EXCEPT ![r] = {}]

\* RelaySink.Send: Kafka stores the message.
Deliver(i) == log' = Append(log, i)

\* Send succeeds and the row is marked inside the relay's transaction.
Send(r) ==
    /\ \E i \in Ids :
          /\ IsNext(r, i)
          /\ Deliver(i)
          /\ sent' = [sent EXCEPT ![r] = @ \cup {i}]
    /\ UNCHANGED <<running, tx, rows, published, batch, faults>>

Fault == faults < MaxFaults /\ faults' = faults + 1

\* Mutant: a failed send is skipped and the rest of the batch goes on.
SendFailsAndSkips(r) ==
    /\ \E i \in Ids : IsNext(r, i) /\ sent' = [sent EXCEPT ![r] = @ \cup {i}]
    /\ Fault
    /\ UNCHANGED <<running, tx, rows, log, published, batch>>

\* Send fails: failRow records it and commits the marks of the rows already
\* sent.  A timed-out send may have reached the broker all the same.
SendFails(r) ==
    /\ \E i \in Ids : IsNext(r, i) /\ (UNCHANGED log \/ Deliver(i))
    /\ Fault
    /\ EndPass(r, sent[r])
    /\ UNCHANGED <<running, tx, rows>>

\* The whole batch is sent: commit.
CommitPass(r) ==
    /\ batch[r] # {}
    /\ sent[r] = batch[r]
    /\ EndPass(r, sent[r])
    /\ UNCHANGED <<running, tx, rows, log, faults>>

\* A mark or the commit fails, or the replica crashes: the deferred Rollback
\* (or the server) drops every mark of the pass.
AbortPass(r) ==
    /\ batch[r] # {}
    /\ Fault
    /\ EndPass(r, {})
    /\ UNCHANGED <<running, tx, rows, log>>

Relay(r) == Claim(r) \/ Send(r) \/ CommitPass(r)

Next ==
    \/ \E x \in Txs : Begin(x) \/ Insert(x) \/ Commit(x) \/ Rollback(x)
    \/ \E r \in Relays : Relay(r) \/ SendFails(r) \/ AbortPass(r)

Spec == Init /\ [][Next]_vars

\* Run loops for ever; the broker recovers (MaxFaults).
FairSpec == Spec /\ \A r \in Relays : WF_vars(Relay(r))

-----------------------------------------------------------------------------
(* Properties *)

Delivered == Range(log)
Copies(i) == {n \in DOMAIN log : log[n] = i}

\* Kafka never hears of a change that was rolled back or is not committed.
OnlyCommittedDelivered == \A i \in Delivered : tx[rows[i].tx] = "committed"

\* A row is marked published only after Kafka has it, so no committed row is
\* ever dropped by a failed send, a failed mark or a crash.
NothingLost == published \subseteq Delivered

\* A row goes out again only after a failure: n faults, at most n + 1 copies,
\* however many relays run.
BoundedRedelivery ==
    \A i \in Delivered : Cardinality(Copies(i)) <= faults + 1

\* Of two state changes of one aggregate, the consumers of a topic first see
\* the earlier one first, as the comment on OutboxRelay promises.
PerKeyOrder ==
    \A j \in Delivered : \A i \in 1..(j - 1) :
        /\ rows[i].topic = rows[j].topic
        /\ KeyOf[rows[i].tx] = KeyOf[rows[j].tx]
        /\ {rows[i].tx, rows[j].tx} \cap Unlocked = {}
        /\ tx[rows[i].tx] = "committed"
        => \A n \in Copies(j) : \E m \in Copies(i) : m < n

\* One relay keeps the order of each key through failed sends, aborted passes
\* and batches that end between two rows of a key.
OneRelayKeepsOrder == Cardinality(running) = 1 => PerKeyOrder

\* Every topic hears of every committed change, also when passes and sends
\* keep failing for a while.
EventuallyDelivered ==
    \A x \in Txs : tx[x] = "committed" ~>
        \A m \in Messages(x) : \E i \in Delivered : rows[i] = m
=============================================================================
