-------------------------- MODULE AnalyticsProjector --------------------------
(***************************************************************************)
(* The analytics projector and the throughput read model it writes.  The   *)
(* relay puts the service's events on the analytics topic, one partition   *)
(* per aggregate key; the consumers of the group fulfillment-analytics     *)
(* read them.  ReadMessage commits the offset before the message is        *)
(* handled.  A handler first marks the event id consumed in a statement of *)
(* its own, then applies the event to the rollup in a transaction that     *)
(* also claims the id a second time.  A failed handler is only logged:     *)
(* there is neither a retry nor a dead-letter topic.                       *)
(***************************************************************************)
EXTENDS Integers, Sequences, FiniteSets, FiniteSetsExt

CONSTANTS History,         \* the service's events, in the order they committed
          Tasks,           \* the task table the publisher's enrichment reads
          Consumers,
          Faults,          \* the kinds of fault this instance exercises
          HourLength,      \* ticks of the clock in an hour bucket
          MaxFaults,       \* bound: how many faults happen
          MaxDisorder,     \* bound: messages sent again, pairs sent in reverse order
          MaxRebalances    \* bound: partitions moved to another consumer

Projecting == {"TaskClaimed", "TaskCompleted", "LeaseExpired",
               "WeightDiscrepancyDetected", "PackageManifested"}
\* other: a type of the contract that moves no counter; malformed: no CloudEvent
Kinds == Projecting \cup {"other", "malformed"}
FaultKinds == {"abandon", "lostMark", "lostCommit"}
Unspecified == "unspecified"     \* the empty string of a dimension

ASSUME ProjectorAssumption ==
    /\ Len(History) \in Nat \ {0} /\ DOMAIN History = 1..Len(History)
    /\ \A i \in DOMAIN History : History[i].kind \in Kinds /\ History[i].at \in Nat
    /\ Consumers # {}
    /\ Faults \subseteq FaultKinds
    /\ HourLength \in Nat \ {0}
    /\ {MaxFaults, MaxDisorder, MaxRebalances} \subseteq Nat

Events == DOMAIN History         \* an event is known by its place in History
Keys == {History[e].key : e \in Events}

VARIABLES log,        \* the analytics topic: one partition per key; what the relay sent
          offset,     \* per partition: messages read, and committed by the group
          owner,      \* per partition: the consumer it is assigned to
          cur,        \* per consumer: the set holding the event in hand
          phase,      \* per consumer: the step it is in
          consumed,   \* analytics_consumed_events
          processed,  \* analytics_processed_events
          claims,     \* analytics_pending_claims
          rows,       \* throughput_rollup
          applied,    \* history: the Apply calls that committed, in commit order
          hit,        \* history: per event, the faults that struck its handling
          spent       \* how much of each bound is used up

handler == <<cur, phase>>
store == <<processed, claims, rows, applied>>
vars == <<log, offset, owner, cur, phase, consumed, processed, claims, rows,
          applied, hit, spent>>
-----------------------------------------------------------------------------
(* The publisher's side: what an event says when it reaches the topic.       *)

\* The process path of a task, unspecified when the lookup finds none.
TaskType(id) ==
    IF \E t \in Tasks : t.id = id THEN (CHOOSE t \in Tasks : t.id = id).type
                                  ELSE Unspecified

\* A manifested package is measured against the SLAM task of its order.
SlamTasks(order) == {t \in Tasks : t.order = order /\ t.type = "SLAM"}
OnTimeToCPT(order, at) ==
    IF SlamTasks(order) = {}
    THEN [type |-> Unspecified, station |-> Unspecified, onTime |-> FALSE, resolved |-> FALSE]
    ELSE LET t == CHOOSE t \in SlamTasks(order) : TRUE
         IN  [type |-> t.type, station |-> t.station, onTime |-> at <= t.cpt, resolved |-> TRUE]

\* The payload of event e.  LeaseExpired and WeightDiscrepancyDetected carry
\* no station, and the consumer counts the latter under SLAM.
Data == [e \in Events |->
    LET ev == History[e]
        of(type, station) == [type |-> type, station |-> station, onTime |-> FALSE, resolved |-> TRUE]
    IN  CASE ev.kind \in {"TaskClaimed", "TaskCompleted"} -> of(TaskType(ev.key), ev.station)
          [] ev.kind = "LeaseExpired" -> of(TaskType(ev.key), Unspecified)
          [] ev.kind = "WeightDiscrepancyDetected" -> of("SLAM", Unspecified)
          [] ev.kind = "PackageManifested" -> OnTimeToCPT(ev.order, ev.at)
          [] OTHER -> of(Unspecified, Unspecified)]

\* Does HandleMessage go on to the projection for e, and does that record it?
Projects(e) == History[e].kind \in Projecting
Records(e) == Projects(e) /\ Data[e].resolved
-----------------------------------------------------------------------------
(* The read model.                                                           *)

HourOf(t) == t \div HourLength
End == HourOf(History[Len(History)].at) + 1
Hours == 0..End
RowKey == [e \in Events |-> <<Data[e].type, Data[e].station, HourOf(History[e].at)>>]
RowKeys == {RowKey[e] : e \in {x \in Events : Records(x)}}
ClaimKey == [e \in Events |-> <<Data[e].type, Data[e].station, History[e].key>>]

NoDelta == [completions |-> 0, leaseExpiries |-> 0, weighCheckDiverts |-> 0,
            claimSeconds |-> 0, completionsWithClaim |-> 0,
            packagesManifested |-> 0, packagesOnTimeToCPT |-> 0, packagesLateToCPT |-> 0]
Counters == DOMAIN NoDelta

\* What event e adds to its row, given the pending claims.
Delta(e, pending) ==
    LET ev == History[e]
        mine == {c \in pending : c.key = ClaimKey[e]}
    IN  CASE ev.kind = "TaskCompleted" /\ mine = {} -> [NoDelta EXCEPT !.completions = 1]
          [] ev.kind = "TaskCompleted" /\ mine # {} ->
                 [NoDelta EXCEPT !.completions = 1, !.completionsWithClaim = 1,
                                 !.claimSeconds = ev.at - (CHOOSE c \in mine : TRUE).at]
          [] ev.kind = "LeaseExpired" -> [NoDelta EXCEPT !.leaseExpiries = 1]
          [] ev.kind = "WeightDiscrepancyDetected" -> [NoDelta EXCEPT !.weighCheckDiverts = 1]
          [] ev.kind = "PackageManifested" /\ Data[e].onTime ->
                 [NoDelta EXCEPT !.packagesManifested = 1, !.packagesOnTimeToCPT = 1]
          [] ev.kind = "PackageManifested" /\ ~Data[e].onTime ->
                 [NoDelta EXCEPT !.packagesManifested = 1, !.packagesLateToCPT = 1]
          [] OTHER -> NoDelta

Add(r, d) == [f \in Counters |-> r[f] + d[f]]
UpsertRollup(table, e, pending) == [table EXCEPT ![RowKey[e]] = Add(@, Delta(e, pending))]

\* Mutant: DO NOTHING instead of DO UPDATE, so that an older claim stays.
PendingKeepsOldest(e, pending) ==
    IF History[e].kind = "TaskClaimed"
    THEN IF \E c \in pending : c.key = ClaimKey[e] THEN pending
         ELSE pending \cup {[key |-> ClaimKey[e], at |-> History[e].at]}
    ELSE IF History[e].kind = "TaskCompleted" THEN {c \in pending : c.key # ClaimKey[e]}
    ELSE pending

\* A claim is stored over an older one of the station; a completion clears it.
PendingAfter(e, pending) ==
    LET others == {c \in pending : c.key # ClaimKey[e]}
    IN  CASE History[e].kind = "TaskClaimed" -> others \cup {[key |-> ClaimKey[e], at |-> History[e].at]}
          [] History[e].kind = "TaskCompleted" -> others
          [] OTHER -> pending

\* The report: the rows of the hours [from, to), and their totals.
Query(from, to) == {k \in RowKeys : rows[k] # NoDelta /\ from <= k[3] /\ k[3] < to}
Total(counter, from, to) ==
    SumFunctionOnSet([k \in RowKeys |-> rows[k][counter]], Query(from, to))

\* FreshnessLag is measured from the latest instant among processed events.
Latest == {History[e].at : e \in processed}
-----------------------------------------------------------------------------
(* The topic and the group.                                                  *)

\* What the relay leaves on the partition of a key, in the order it sent it:
\* every event of the key, a row again with its id unchanged when it could not
\* be marked sent, and a row before an earlier one that another relay locked.
\* A consumer may read at any later time, so the topic is complete from the start.
EventsOf(k) == {e \in Events : History[e].key = k}
Repeats(s) == Len(s) - Cardinality(Range(s))
\* e is sent before d is sent for the first time
SentBefore(s, e, d) == \E i \in DOMAIN s : s[i] = e /\ \A j \in 1..i : s[j] # d
Overtakes(s) == Cardinality({p \in Range(s) \X Range(s) : p[1] < p[2] /\ SentBefore(s, p[2], p[1])})
PartitionLogs(k) ==
    LET n == Cardinality(EventsOf(k))
    IN  {s \in UNION {[1..m -> EventsOf(k)] : m \in n..(n + MaxDisorder)} :
            Range(s) = EventsOf(k) /\ Repeats(s) + Overtakes(s) <= MaxDisorder}

\* The group gives a partition to another consumer, which reads on from the
\* committed offset while the first may still have a message in hand.
Rebalance(k, c) ==
    /\ owner[k] # c
    /\ spent.rebalances < MaxRebalances
    /\ spent' = [spent EXCEPT !.rebalances = @ + 1]
    /\ owner' = [owner EXCEPT ![k] = c]
    /\ UNCHANGED <<log, offset, handler, consumed, store, hit>>
-----------------------------------------------------------------------------
(* The consumer.                                                             *)

Upcoming(k) == log[k][offset[k] + 1]
CanRead(c, k) == phase[c] = "read" /\ owner[k] = c /\ offset[k] < Len(log[k])
Drop(c) ==
    /\ cur' = [cur EXCEPT ![c] = {}]
    /\ phase' = [phase EXCEPT ![c] = "read"]
InHand(c, e) == e \in cur[c]

\* The message is not a CloudEvent, or of a type that does not project: it is
\* passed over, and not marked.
Ignore(c, k) ==
    /\ CanRead(c, k)
    /\ ~Projects(Upcoming(k))
    /\ offset' = [offset EXCEPT ![k] = @ + 1]
    /\ UNCHANGED <<log, owner, handler, consumed, store, hit, spent>>

Take(c, k) ==
    /\ CanRead(c, k)
    /\ Projects(Upcoming(k))
    /\ offset' = [offset EXCEPT ![k] = @ + 1]
    /\ cur' = [cur EXCEPT ![c] = {Upcoming(k)}]
    /\ phase' = [phase EXCEPT ![c] = "mark"]
    /\ UNCHANGED <<log, owner, consumed, store, hit, spent>>

\* Mutant: the id has no unique index, so that no insert ever meets a conflict.
IdNeverKnown(ids, e) == FALSE

\* INSERT ... ON CONFLICT (event_id) DO NOTHING finds the id: both tables, the
\* mark's and the transaction's, tell a new event from an old one by it.
IdKnown(ids, e) == e \in ids

MarkNew(c, e) ==
    /\ phase[c] = "mark"
    /\ ~IdKnown(consumed, e)
    /\ consumed' = consumed \cup {e}
    /\ phase' = [phase EXCEPT ![c] = "apply"]
    /\ UNCHANGED <<log, offset, owner, cur, store, hit, spent>>

\* Mutant: deduplication on the aggregate and the type, not on the event id.
MarkDuplicateByKey(c, e) ==
    /\ phase[c] = "mark"
    /\ \E d \in consumed : History[d].key = History[e].key /\ History[d].kind = History[e].kind
    /\ Drop(c)
    /\ UNCHANGED <<log, offset, owner, consumed, store, hit, spent>>

MarkDuplicate(c, e) ==
    /\ phase[c] = "mark"
    /\ IdKnown(consumed, e)
    /\ Drop(c)
    /\ UNCHANGED <<log, offset, owner, consumed, store, hit, spent>>

\* The transaction of an Apply method: the id is claimed, and the effect
\* recorded only when that claim is new.
InTx(e) ==
    /\ applied' = Append(applied, e)
    /\ IF IdKnown(processed, e)
       THEN UNCHANGED <<processed, claims, rows>>
       ELSE /\ processed' = processed \cup {e}
            /\ claims' = PendingAfter(e, claims)
            /\ rows' = UpsertRollup(rows, e, claims)

Apply(c, e) ==
    /\ phase[c] = "apply"
    /\ Records(e)
    /\ InTx(e)
    /\ Drop(c)
    /\ UNCHANGED <<log, offset, owner, consumed, hit, spent>>

\* A manifested package without a SLAM task is marked and not recorded.
SkipUnresolved(c, e) ==
    /\ phase[c] = "apply"
    /\ ~Records(e)
    /\ Drop(c)
    /\ UNCHANGED <<log, offset, owner, consumed, store, hit, spent>>

Fault(f, e) ==
    /\ f \in Faults
    /\ spent.faults < MaxFaults
    /\ spent' = [spent EXCEPT !.faults = @ + 1]
    /\ hit' = [hit EXCEPT ![e] = @ \cup {f}]

\* Mutant: Run returns the error instead of logging it.
AbandonStops(c, e) ==
    /\ Fault("abandon", e)
    /\ cur' = [cur EXCEPT ![c] = {}]
    /\ phase' = [phase EXCEPT ![c] = "stopped"]
    /\ UNCHANGED <<log, offset, owner, consumed, store>>

\* Mark or projection fails and rolls back, the process dies, or shutdown
\* cancels the context: Run logs the error and reads the next message.  A fetch
\* whose offset commit failed ends the same way: the message never comes up.
Abandon(c, e) ==
    /\ Fault("abandon", e)
    /\ Drop(c)
    /\ UNCHANGED <<log, offset, owner, consumed, store>>

\* The INSERT of the mark committed and its answer was lost.
LostMark(c, e) ==
    /\ phase[c] = "mark"
    /\ Fault("lostMark", e)
    /\ consumed' = consumed \cup {e}
    /\ Drop(c)
    /\ UNCHANGED <<log, offset, owner, store>>

\* The projection's transaction committed and its answer was lost.
LostCommit(c, e) ==
    /\ phase[c] = "apply"
    /\ Records(e)
    /\ Fault("lostCommit", e)
    /\ InTx(e)
    /\ Drop(c)
    /\ UNCHANGED <<log, offset, owner, consumed>>
-----------------------------------------------------------------------------
Init ==
    /\ log \in {l \in [Keys -> UNION {PartitionLogs(k) : k \in Keys}] :
                   /\ \A k \in Keys : l[k] \in PartitionLogs(k)
                   /\ SumFunction([k \in Keys |-> Repeats(l[k]) + Overtakes(l[k])]) <= MaxDisorder}
    /\ offset = [k \in Keys |-> 0]
    /\ owner = [k \in Keys |-> CHOOSE c \in Consumers : TRUE]
    /\ cur = [c \in Consumers |-> {}]
    /\ phase = [c \in Consumers |-> "read"]
    /\ consumed = {}
    /\ processed = {}
    /\ claims = {}
    /\ rows = [k \in RowKeys |-> NoDelta]
    /\ applied = <<>>
    /\ hit = [e \in Events |-> {}]
    /\ spent = [faults |-> 0, rebalances |-> 0]

Step(c) ==
    \/ \E k \in Keys : Ignore(c, k) \/ Take(c, k)
    \/ \E e \in cur[c] : MarkNew(c, e) \/ MarkDuplicate(c, e) \/ Apply(c, e) \/ SkipUnresolved(c, e)

Next ==
    \/ \E k \in Keys, c \in Consumers : Rebalance(k, c)
    \/ \E c \in Consumers : Step(c)
    \/ \E c \in Consumers : \E e \in cur[c] : Abandon(c, e) \/ LostMark(c, e) \/ LostCommit(c, e)

Spec == Init /\ [][Next]_vars

\* A consumer with something to do goes on: readRecovering rides out broker
\* outages.  Faults and rebalances need not happen.
FairSpec == Spec /\ \A c \in Consumers : WF_vars(Step(c))
-----------------------------------------------------------------------------
(* The same read model as MemoryStore computes it: a row is a function of    *)
(* the Apply calls so far and of the order they came in.                     *)

\* Where in s, the Apply calls, an event comes up for the first time: the store
\* keeps a seen-set of its own and passes over every later call.
FirstApply(s) == {i \in DOMAIN s : \A j \in 1..(i - 1) : s[j] # s[i]}
\* Where in s one of a kind counts for row k.
Places(s, kind, k) ==
    {i \in FirstApply(s) : History[s[i]].kind = kind /\ RowKey[s[i]] = k}
\* the claims recorded before the i-th call for the same station and task
ClaimsBefore(s, i) ==
    {j \in FirstApply(s) : j < i /\ History[s[j]].kind = "TaskClaimed" /\ ClaimKey[s[j]] = ClaimKey[s[i]]}
Paired(s, k) == {i \in Places(s, "TaskCompleted", k) : ClaimsBefore(s, i) # {}}
Since(s, i) == History[s[i]].at - History[s[Max(ClaimsBefore(s, i))]].at
OnTime(s, k) == {i \in Places(s, "PackageManifested", k) : Data[s[i]].onTime}
MemoryRow(s, k) ==
    [completions |-> Cardinality(Places(s, "TaskCompleted", k)),
     leaseExpiries |-> Cardinality(Places(s, "LeaseExpired", k)),
     weighCheckDiverts |-> Cardinality(Places(s, "WeightDiscrepancyDetected", k)),
     claimSeconds |-> SumFunction([i \in Paired(s, k) |-> Since(s, i)]),
     completionsWithClaim |-> Cardinality(Paired(s, k)),
     packagesManifested |-> Cardinality(Places(s, "PackageManifested", k)),
     packagesOnTimeToCPT |-> Cardinality(OnTime(s, k)),
     packagesLateToCPT |-> Cardinality(Places(s, "PackageManifested", k) \ OnTime(s, k))]
MemoryQuery(s, from, to) ==
    {k \in RowKeys : (\E i \in FirstApply(s) : RowKey[s[i]] = k /\ History[s[i]].kind # "TaskClaimed")
                     /\ ~(k[3] < from \/ ~(k[3] < to))}
-----------------------------------------------------------------------------
(* Properties.                                                               *)

\* Tables, offsets and handlers are well formed, and an event in a handler's
\* hand past the mark is marked.
TypeOK ==
    /\ log \in [Keys -> Seq(Events)]
    /\ offset \in [Keys -> Nat] /\ \A k \in Keys : offset[k] <= Len(log[k])
    /\ owner \in [Keys -> Consumers]
    /\ phase \in [Consumers -> {"read", "mark", "apply"}]
    /\ cur \in [Consumers -> SUBSET Events]
    /\ \A c \in Consumers : IF phase[c] = "read" THEN cur[c] = {} ELSE \E e \in Events : cur[c] = {e}
    /\ \A c \in Consumers : phase[c] = "apply" => cur[c] \subseteq consumed
    /\ applied \in Seq(Events) /\ processed = Range(applied)
    /\ processed \subseteq consumed /\ consumed \subseteq Events
    /\ claims \subseteq [key : Range(ClaimKey), at : Nat]
    /\ rows \in [RowKeys -> [Counters -> Int]]
    /\ hit \in [Events -> SUBSET Faults]
    /\ spent \in [faults : 0..MaxFaults, rebalances : 0..MaxRebalances]

\* For every window up to or from an hour the report of the Postgres store is
\* the report MemoryStore gives after the same Apply calls, each event counted
\* at its first, and the packages on time and late add up to the packages
\* manifested.  No interleaving of consumers, redelivery, lost answer or failed
\* transaction makes the rollup count an event twice, in part, with the wrong
\* claim or under another key (postgres_projection.go).
ReportsTrue ==
    /\ \A k \in RowKeys : rows[k] = MemoryRow(applied, k)
    /\ \A h \in Hours : /\ Query(0, h) = MemoryQuery(applied, 0, h)
                        /\ Query(h, End) = MemoryQuery(applied, h, End)
    /\ \A h \in Hours : Total("packagesManifested", 0, h) + Total("packagesManifested", h, End)
                        = Total("packagesOnTimeToCPT", 0, End) + Total("packagesLateToCPT", 0, End)

ReadPast(e) == \E i \in 1..offset[History[e].key] : log[History[e].key][i] = e

\* The state is well formed, and an event that left the topic and is in
\* nobody's hand is in the read model, unless a fault struck its handling:
\* skipping it as a duplicate, moving its partition or sending it twice never
\* loses it (AnalyticsConsumer.HandleMessage).
LossNeedsFault ==
    /\ TypeOK
    /\ \A e \in Events :
           (Records(e) /\ ReadPast(e) /\ \A c \in Consumers : ~InHand(c, e))
               => (e \in processed \/ hit[e] \cap {"abandon", "lostMark"} # {})

\* Each event is applied exactly once per event id (comment of
\* AnalyticsConsumer): one that was read is applied or in hand.  A projection
\* that fails after the mark breaks it.
EachReadIsApplied ==
    \A e \in Events : (Records(e) /\ ReadPast(e)) =>
        e \in processed \/ \E c \in Consumers : InHand(c, e)

OwnClaim(e) ==
    {d \in Events : d < e /\ History[d].kind = "TaskClaimed" /\ ClaimKey[d] = ClaimKey[e]}
Completions == {e \in Events : History[e].kind = "TaskCompleted"}
\* CompleteTask refuses a completed task, and a station that does not hold it.
\* Overlapping calls can complete a task twice: OneCompletion leaves them out.
OneCompletion == \A d, e \in Completions : ClaimKey[d] = ClaimKey[e] => d = e
ClaimedFirst == \A e \in Completions : OwnClaim(e) # {}
\* From the station's latest claim, by the order of the commits.
CycleTime == [e \in Completions |-> History[e].at - History[Max(OwnClaim(e))].at]
Undisturbed ==
    /\ spent.faults = 0 /\ spent.rebalances = 0
    /\ \A k \in Keys : Overtakes(log[k]) = 0

\* While nothing is overtaken, rebalanced or hit by a fault, each completion
\* in the read model was measured from its station's latest claim of that
\* task: neither an expired claim that nobody deletes nor a redelivered old
\* claim distorts the average (ApplyTaskClaimed, ApplyTaskCompleted).
CycleTimesExact ==
    Undisturbed =>
        \A k \in RowKeys :
            LET done == {e \in processed \cap Completions : RowKey[e] = k}
            IN  /\ rows[k].completionsWithClaim = Cardinality(done)
                /\ rows[k].claimSeconds = SumFunctionOnSet(CycleTime, done)

\* Every event that projects is applied in the end, or a fault struck it:
\* poison messages, faults and rebalances never wedge the projector (Run).
EveryEventSettles ==
    <>(\A e \in Events : Records(e) => (e \in processed \/ hit[e] \cap {"abandon", "lostMark"} # {}))
=============================================================================
