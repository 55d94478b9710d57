# Verification of fulfillment-execution

TLA+ models of the service in `internal/` and `cmd/`: what its use cases, its
Postgres adapters and its Kafka adapters do when requests, replicas, relays and
consumers run at the same time and fail in the middle. TLC checks the models on
small instances; TLAPS proves the safety properties of all nine components for
every instance. `PROJECT.json` maps every definition to the lines it models and
lists the hazards the properties are about.

## 1. The system and its parts

One Go service, deployed as one or more replicas over one Postgres database and
one Kafka cluster, plus two side processes (analytics projector, reports).

| Part | State it keeps | Operations | Talks to |
|---|---|---|---|
| Task pool (`domain/task`, task use cases, `postgres/task_repo`) | `tasks` row: status, lease (station, expiry), claimed_at | CreateTask, ClaimNext, CompleteTask, RenewLease, ExpireLeases, SweepCPTMisses | unit of work, outbox; called by HTTP, by the consumer and by rebin |
| Outbox (`postgres/unit_of_work`, `outbox_publisher`, `outbox_relay`, `kafka/encoded`) | `outbox_events` rows, `published_at` | insert next to the aggregate write; relay pass: lock, send, mark, commit | every use case; Kafka (integration and analytics topics) |
| WorkReleased consumer (`inbound/kafka`, `postgres/processed_events_repo`) | group offset, `processed_events`, dead-letter topic | read, mark, look up path, create, retry, dead-letter | catalogue, CreateTask |
| Order consolidation (`domain/consolidation`, ArriveAtRebin) | `order_consolidations.arrived_lines` | ArriveAtRebin | creates the PACK task |
| Idempotency-Key middleware (`inbound/http/idempotency.go`) | `idempotency_keys` | insert key, run handler, record response, replay | wraps POST /tasks, shares its transaction |
| Packaging and SLAM (`domain/package`, SealPackage, RunSlam) | `packages` row | seal, weigh, label or divert | lease of the PACK task; product classification |
| Stations (`domain/station`, station use cases) | `stations` row: capabilities, location, occupant | register, check in, check out | facility-layout; capabilities are read by ClaimNext, the occupant by the publisher |
| Path catalogue (`kafkacatalog`, `pathcatalog`) | map of paths, target offsets, readiness | replay, upsert, deactivate, look up | gates the boot; read by the consumer |
| Analytics projector (`analytics_consumer`, `analyticsstore`) | `analytics_consumed_events`, `analytics_processed_events`, pending claims, `throughput_rollup` | mark, project, roll up | analytics topic |
| Reports | none (read the rollup) | query, totals, freshness | HTTP, MCP |
| Breakers and clients (`resilience`, `productclassification`, `facilitylayout`) | breaker state and counts | call, retry, trip, half-open, fall back | RegisterStation, SealPackage |
| HTTP, MCP, wiring, observability | none of their own | decode, route, boot, shut down | everything |

What is hard in it:

* every writer but ClaimNext reads a row, decides in memory and upserts the
  whole row later; only ClaimNext writes with a compare-and-set (`SaveClaim`);
* nothing inside the service calls the expiry sweep or the CPT sweep: they are
  endpoints that something outside calls, when it calls them;
* Kafka offsets are committed before a message is handled; marks, creations and
  dead letters are separate writes that fail separately;
* relays of several replicas drain one table with `FOR UPDATE SKIP LOCKED`, row
  ids are drawn before the commit, and a send may have succeeded although it
  reported an error;
* clients retry after lost answers, at any time, also against another replica;
* shutdown cancels the contexts that work in flight runs under;
* a replica must not take work before its catalogue is complete, while the
  topic it replays goes on growing;
* the outside lookups are soft: an error, a timeout and an open breaker all
  let the operation through unchecked.

What makes each part correct: a task is granted to one station at a time and
comes back when the station goes silent; completion is final; the topics hear
of exactly the committed changes, at least once and in order per key; a
released unit becomes one task or a dead letter; an order is packed once and
not before all its lines are there; a retried creation is applied once and
answered the same; a PACK task yields one package, weighed once, whose known
contents may travel together; a report counts each event once, under the right
row, with cycle times from the right claim; released work finds its path; one
worker stands at a station, and the station is what its last registration says.

## 2. Modules

Each component has a module, an `MC` module with its instances, and a `Proofs`
module with its theorems (section 5); `OrderProofs` serves Rebin and Packaging.

### TaskPool (with ClaimRegister, MCTaskPool, TaskPoolProofs)

`rows` is the `tasks` table, `outbox` the events inserted with it per task (the
partition key). A request is a slot in `kind`, `station`, `clock`, `todo`,
`seen`: its use case, its argument, the time it works with, the tasks it still
has to try and the copies it read. Each use case is a read action and a save
action, between which anything may happen.

| Code | Actions |
|---|---|
| `CreateTask` | `CreateTask` |
| `ClaimNext`: clock, `FindClaimable`, loop over `Claim` + `SaveClaim` | `ClaimRead`, `ClaimWon`, `ClaimLost` |
| `CompleteTask`: `FindById`, clock, `Complete`, `Save` + publish | `CompleteRead`, `CompleteSave` |
| `RenewLease`: same, without a unit of work and without events | `RenewRead`, `RenewSave` |
| `ExpireLeases`: `FindAllClaimed`, one transaction per due task | `ExpireRead`, `ExpireSave` |
| `SweepCPTMisses`: events only | `CPTSweepRead`, `CPTSweepReport` |
| refusal by the aggregate, rollback, crash | `GiveUp` |

Time is discrete. A request may hold a clock value up to the present one, older
than its read: ClaimNext and the sweeps read the clock before their query,
CompleteTask and RenewLease after it.
Capability checks of ClaimNext are made at the read (`Candidates`). The
requirements of a task never change. The capabilities of a station do when it is
registered again (`register_station.go:11-12`); here they are constants, a
limit of this module (section 6), so the later check gives the same answer.
 `Lease.IsExpired` is `expiry <= now` both in Go
and in the SQL of `SaveClaim`.

`ClaimRegister` is the abstract promise: a task is granted only when every
earlier grant of it has run out, and a finished task is granted no more.
`TaskPool` maps to it by its TaskClaimed events (`GrantsOf`, a set, told apart
by their place in the log) and the Completed status.

### Outbox

`tx` are units of work, `rows` the `outbox_events` table, whose position is the
BIGSERIAL id, `published` the committed marks, `batch` and `sent` the ids a
relay's pass has locked and sent, `log` what Kafka stored. A unit of work that
writes an aggregate row holds its lock until the end (`Begin`); one that writes
none (a CPT report) does not. `Messages` are the rows of both contracts of a
unit of work, inserted in the order `Before`, integration first, the way
`OutboxPublisher.Publish` loops over its encoders. A pass is `Claim`, one `Send`
per row and `CommitPass`; a failed send commits the marks of the rows before it
(`SendFails`), any other failure drops the marks (`AbortPass`, shutdown
included: the relay's context is cancelled under its transaction). `running` is
the set of deployed replicas, fixed at the start, so that one run covers one
relay and two.

### WorkReleasedConsumer

`topic` and `offset` are the Kafka side, `phase` and `attempts` the handler's
place, `processed` the `processed_events` table, `created` counts the tasks of
an event id. Faults are named by kind and recorded per event id (`hit`), so a
property can say which fault a loss needs: `error` (a statement failed),
`lostMark` and `lostCreate` (it took effect, its answer was lost), `dlq`,
`crash`, `shutdown`, and `commit`: `ReadMessage` fetched a message, failed to
commit its offset and returned no message, and `readRecovering` reads the one
behind it (`CommitFails`). The catalogue is abstracted to whether it knows the
path.

### Rebin

`arrived` is the stored row, `announced` the committed ItemArrivedAtRebin lines,
`packs` the PACK tasks, `acked` what callers were told. A request reads the row
and adds its line (`Arrive`), and later upserts its whole copy with the events
and, if that copy is complete, the PACK task (`Save`). `Serial` are the orders
whose caller never sends two arrivals at once.

### Idempotency

`keys` and `tasks` are the committed rows; a request is in one transaction from
`InsertFresh` to `Record`. A second insert of a key waits for the transaction
holding it (the unique index), then conflicts or goes first. Validation errors
are recorded and replayed like successes.

### Packaging

`lease` is the PACK task as SealPackage sees it: `lease[t].expired` becomes
true in place, because SealPackage compares holders only. `SealChecks` opens an
empty carton and each `ScanItem` is one turn of the loop: the lookup is answered
or lost (then the item counts as unclassified), `Refused` holds the item's class
against those recorded so far, `Recorded` adds it. A `Sealable` carton is saved
(`SealSaves`) or refused by the unique index (`SealConflicts`). Package rows and
the events of each are kept together; `known`, which no code sees, are the
positions whose lookup was answered. A weight deviation of exactly the tolerance
is nondeterministic: the weights are floating point.

### AnalyticsProjector

`History` are the service's events; what the publisher adds to them by looking
tasks up is a function of it (`Data`). `log` is any order and repetition of them
that several relays can produce within `MaxDisorder`; `offset` and `owner` are
the consumer group. A handler is `Take`, `MarkNew` or `MarkDuplicate`, then
`Apply`: one transaction that claims the id again (`InTx`; both gates ask
`IdKnown`), moves the pending claims (`PendingAfter`) and adds to the rollup
(`UpsertRollup`). A handler that fails is only logged (`Abandon`); a statement
or a commit may take effect without an answer (`LostMark`, `LostCommit`).
`applied` is the log of the Apply calls whose transaction committed, with every
repetition. `MemoryRow` and `MemoryQuery` are the other implementation of the
store, run over that log behind its own seen-set (`FirstApply`): the reference
the Postgres rollup and its windowed queries must agree with.

### PathCatalogue

A replica boots through `dial`, `replay`, `migrate` and `ping` to `serving`
(`Boot`), each dial retried `BootRetries` times (`AttemptFails`). `snap` are the
partition lengths `newTargetOffsets` noted, one partition after another while
the topic grows (`NoteLength`; `Unread` before that), `target` the partitions
still behind, `pos` the last write read of each and `paths` the map. Writes are
numbered in the order of publication; `Upto(p, n)` is the offset that write n
leads to in partition p, which is what `checkReady` compares. `Read` is one turn
of the loop: handle, then `checkReady`. A path id is a sequence of its
hyphenated parts, so that `Matches` is the rule of `matchesPrefix`: among the
prefixes of one id, more parts are more characters, and the longest of them is
the same. `Rewind` is the consumer group resuming further back; `ReadError` ends
the loop for the rest of the process.

### Breaker and StationRegistry

`Breaker` is gobreaker (external, from how the code configures and uses it) with
the settings and `ReadyToTrip` of `internal/resilience`. `StationRegistry`
extends it: `BeginRegister` asks through it, `AnswerRole`, `AttemptFails`,
`Timeout` and `Cancel` end the lookup, and `SaveRegister` upserts a fresh
station. A check-in or check-out reads a row and later upserts its copy
(`SaveOccupant`). A save may fail, or take effect and be answered with an error.
`told` is whom callers were told stands there; `fate` marks the stations where a
worker was `misled` (registered again while occupied, or a save took effect
without its answer) and those whose row was overwritten unread (`raced`), where
the properties that need a serial history stop.
Whether the library keeps counting an excluded half-open probe is left open.

## 3. Runs

| Run | Result | What it shows |
|---|---|---|
| `pool_all` | pass | Every use case against one task, two requests, two stations. Row, lease and capabilities agree (`RowConsistent`), no lease reaches more than one duration ahead (`LeaseBounded`), the event history justifies the row (`HistoryJustifiesRow`), queue depth, claimable work and stuck tasks agree at every instant (`ViewsAgree`), and a claim runs out even when nobody sweeps (`ClaimRunsOut`), whatever stale copy is written back. |
| `pool_core` | pass | Two tasks, claims and completions: `ClaimWindowsDisjoint`, `CompletedIsFinal`, and the refinement `ImplementsClaimRegister`. |
| `pool_sweep_race` | violation of `AtMostOneHolder` | A sweep frees a claim made after its read; a third station is granted the task while the second's lease runs. |
| `outbox_relays` | pass | One or two relays, three units of work on one key, two topics, one fault: `OnlyCommittedDelivered`, `NothingLost`, `BoundedRedelivery`, `OneRelayKeepsOrder`, `EventuallyDelivered`. |
| `consumer_intake` | pass | Two consumers, five messages, four faults of seven kinds, two replayed dead letters: `OneTaskPerRelease`, `DropNeedsFault`, `EveryReleaseSettles`. |
| `rebin_arrivals` | pass | One order with overlapping arrivals, one without: `NoEarlyPack`, `RowJustified`, and without overlap `SerialPackedOnce`. |
| `rebin_double_pack` | violation of `AtMostOnePack` | Two overlapping arrivals both complete the order. |
| `idempotency_keys` | pass | One key, three bodies, three requests, two failures: `OneTaskPerKey`, `AnswersHold`, `EveryRequestAnswered`. |
| `packaging_all` | pass | Three requests sealing and weighing: `OnePackagePerTask`, `StatusMatchesEvents`, `SegregationHolds`. |
| `projector_rollup` | pass | Seven events, two consumers, one reordering or duplicate, one rebalance, one fault: `ReportsTrue`, `LossNeedsFault`, `CycleTimesExact`, `EveryEventSettles`. |
| `catalogue_boot` | pass | One replica, eight writes over two partitions of which three precede the boot, three faults: `NeverServesIncomplete`, `SettledPathIsFound`, `EventuallyCurrent`. |
| `station_registry` | pass | One station, two workers, two requests, four registrations, facility-layout failing and recovering at will: `SerialStation`, `WrongRoleNeedsTrouble`, `EveryRequestEnds`, `BreakerRecovers`. |

Each violation contradicts a sentence of the repository, quoted under
`findings`. Each passing property has a mutant, an operator next to the
definition it replaces, that breaks it. The type invariants of Rebin,
Idempotency, Packaging, AnalyticsProjector and PathCatalogue are conjuncts of
`RowJustified`, `OneTaskPerKey`, `StatusMatchesEvents`, `LossNeedsFault` and
`NeverServesIncomplete`.

The runs are one per component, the pool's two settings and the two strongest
violations. Eleven more configurations stand beside them: each checks one
property, a sentence of the repository about the code, and
`tlc -config <config>.cfg <module>` ends in its violation.

| Config | Module | Violates | What happens |
|---|---|---|---|
| `pool_renewal_race` | `MCTaskPool` | `CompletedIsFinal` | A renewal that read the row before a completion writes it back to Claimed. |
| `pool_double_complete` | `MCTaskPool` | `CompletedOnce` | Two completions of one claim are both accepted. |
| `packaging_late_seal` | `MCPackaging` | `LeaseActiveAtSeal` | A station whose lease ran out passes the claim check. |
| `packaging_slam_twice` | `MCPackaging` | `SlamOnce` | Two weigh-checks of one package publish two outcomes. |
| `rebin_lost_line` | `MCRebin` | `AckedOrdersPack` | Overlapping arrivals overwrite each other: all lines acknowledged, no PACK task. |
| `consumer_double_create` | `MCWorkReleasedConsumer` | `CreatedOnce` | A creation whose answer was lost is made again. |
| `consumer_lost_mark` | `MCWorkReleasedConsumer` | `MarkRetryIsSafe` | A mark whose answer was lost turns the retry into a duplicate. |
| `consumer_shutdown` | `MCWorkReleasedConsumer` | `ShutdownFinishesWork` | The message in hand ends with its context. |
| `projector_lost_event` | `MCAnalyticsProjector` | `EachReadIsApplied` | A projection fails after the mark. |
| `outbox_two_relays` | `MCOutbox` | `PerKeyOrder` | A second relay passes over a locked row; no fault is needed. |
| `station_double_check_in` | `MCStationRegistry` | `OccupantsTakeTurns` | Of two overlapping check-ins the later takes the station over. |

The passing properties are worded around these disagreements:

* with two relays, `SKIP LOCKED` lets the second pass over a row the first has
  locked and send a later row of the same key first, although
  `outbox_relay.go:31-34` says "Ordering per key is preserved"
  (`outbox_two_relays`); hence `OneRelayKeepsOrder`;
* shutdown cancels the context of the message in hand, whose offset is already
  committed, so it is neither processed nor dead-lettered, although
  `cmd/execution/main.go:520-523` says "wait (bounded) for any message already
  being handled to finish" (`consumer_shutdown`); `shutdown` is one of the faults
  of `DropNeedsFault`.
  The relay is stopped before the consumer (lines 513 and 524), so what a last
  message publishes waits for the next boot;
* two weigh-checks that both read a sealed package both publish an outcome,
  although `docs/docs/ddd/aggregates-and-invariants.md:170` says "SLAM runs
  once" (`packaging_slam_twice`); `StatusMatchesEvents` ties the row to one of
  them;
* the projector marks an event before it applies it, so an event whose
  projection fails is lost, although `analytics_consumer.go:58-60` says
  "exactly once per CloudEvents id" (`projector_lost_event`); hence
  `LossNeedsFault`;
* two completions of one claim both publish TaskCompleted, and a renewal that
  read the row before a completion writes it back to Claimed, although
  `docs/docs/business-context/ubiquitous-language.md:53` says "A second completion
  is rejected" and `docs/docs/ddd/aggregates-and-invariants.md:96` "A completed
  task rejects every further operation" (`pool_double_complete`,
  `pool_renewal_race`). This is why
  `CompletedIsFinal` and `ClaimWindowsDisjoint` are stated for claims and
  completions only;
* a station whose lease ran out may still seal a package, although
  `seal_package.go:45` asks for "the active claim", and so do
  `use-cases.md:92-94` and `aggregates-and-invariants.md:210` in their words
  (`packaging_late_seal`);
* overlapping arrivals can overwrite each other's line, so that an order all of
  whose lines were acknowledged has no PACK task, although
  `arrive_at_rebin.go:37-38` says "Once every required line has arrived, this
  method creates a PACK task" (`rebin_lost_line`); hence `SerialPackedOnce`;
* a mark that took effect although its answer was lost turns the retry into a
  duplicate, and a creation of that kind makes two tasks, although
  `consumer.go:291-293` calls the first retry safe and `consumer.go:100-102`
  promises a task "exactly once" (`consumer_lost_mark`,
  `consumer_double_create`); hence the exceptions of `DropNeedsFault` and
  `OneTaskPerRelease`;
* registering a station again builds it with `station.New`, which clears its
  occupant and replaces its location, although `register_station.go:28-30` says
  it "overwrites the capability set"; and of two overlapping check-ins both
  succeed, where `check_in_station.go:12-13` says "one occupant at a time"
  (`station_double_check_in`). A check-in that read the row before a
  re-registration writes the old capabilities back. Hence the condition of
  `SerialStation`.

Other behaviours the models show and no document rules out:

* the catalogue's loop ends at its first read error and nothing restarts it, so
  a replica goes on serving with old definitions (the `running` condition of
  `EventuallyCurrent`); after a resumption further back the map passes through
  old definitions again;
* two paths with prefixes of the same length match in any order;
* `MemoryStore` keeps a claim after its completion (`memory_store.go:110`) where
  Postgres deletes it (`postgres_projection.go:123`): a second completion of one
  claim has a cycle time in one store and none in the other;
* if gobreaker goes on counting a half-open probe that was cancelled, the
  breaker rejects until the process restarts (`Wedged`);
* queue depth leaves out tasks whose lease has expired until a sweep or a claim
  finds them; `ViewsAgree` says by exactly how many;
* of two concurrent seals the second fails on the unique index with an error,
  where a later retry finds the package;
* a message whose offset commit failed is skipped as long as the process lives,
  and is read again only if it restarts before a later commit (`commit` is one of
  the faults of `DropNeedsFault`);
* a replayed dead letter whose id is marked yields no task (ADR-0004 says so).

### Bounds, and why they are enough

* `TaskPool`: one task suffices for races on a row; two tasks (`pool_core`) let
  a loop lose one candidate and go on to the next. Two requests and two
  stations are the least that race, and a slot is reused, so a third actor is a
  later request. `LeaseDuration = 1`, `Horizon = 2`, `MaxTime = 3` let a lease
  run out, be reclaimed and run out again; `MaxTime` exceeds `Horizon` so that
  every lease ends. `MaxEvents` bounds the log of a task. The theorems of
  section 5 do not depend on these numbers.
* `Outbox`: `BatchSize = 2` with up to four rows makes batches end between two
  rows of a key. One fault is used in the run; two faults pass as well (about
  808,000 states).
* `WorkReleasedConsumer`: `MaxAttempts = 3` as in the code; four faults are
  more than one message's attempts, so retries are exhausted.
* `Rebin`: orders of two and three lines, three slots: an arrival can be
  overtaken twice.
* `Idempotency`: one key, because requests with different keys share nothing
  but the id counter.
* `Packaging`: one PACK task and two package ids; cartons of three items put a
  battery, which goes with both, between two that clash, so that a scan that
  remembers too little lets the third one in.
* `AnalyticsProjector`: one task claimed twice by one station around an hour
  boundary, a package exactly at its CPT, one without a SLAM task and one
  malformed message; `HourLength = 3`. Two partitions and two consumers are the
  least that a rebalance needs.
* `PathCatalogue`: one replica, because replicas share nothing but the topic.
  `BootRetries = 2` and three faults let a boot be given up and start again.
* `StationRegistry`: `TripAfter`, `MinVolume` and `MaxWindow` of 2 (5, 10 and
  unbounded in the code) let both trip conditions fire; `MaxAttempts = 2`
  (3 in the code) has a retry and a last attempt. Two requests are the least
  that race.

Symmetry is used for request slots, in runs without liveness only.
`CHECK_DEADLOCK FALSE` is set where the bounded input is used up and nothing is
left to do (pool, outbox, consumer, projector, catalogue), and for stations,
which nobody has to visit.

### Fairness

* `TaskPool`: time passes (`Tick`) and a request in flight ends (`Finish`, which
  includes its failure). No request is assumed to be sent, no sweep to be run.
* `Outbox`: `Run` loops for ever and passes are not refused for ever, hence
  `WF(Relay)`. Faults are finite; units of work need not finish.
* `WorkReleasedConsumer`: `Run` does not return while the process lives and
  retries are bounded, hence `WF(Step)` for each consumer; a crashed or shut
  down replica is started again by its deployment.
* `Idempotency`: a request that arrived is executed until it is answered.
* `AnalyticsProjector`: `WF(Step)` for each consumer: `Run` goes on after
  failed handlers. Faults and rebalances are finite.
* `PathCatalogue`: `WF(Boot)`, because the platform starts an exited process
  and `run` goes on, and `WF(Read)` per partition. The producer need not
  publish.
* `StationRegistry`: a lookup is answered or runs into its deadline, a
  statement ends, the cooldown passes. Neither requests nor the recovery of
  facility-layout are assumed; `BreakerRecovers` names them as its premise.

## 4. Findings

Thirteen disagreements between the code and a sentence about it. Two have a run,
the sweep race (`pool_sweep_race`) and the double PACK task
(`rebin_double_pack`), and their text is in `PROJECT.json`; the other eleven are
the configurations of section 3, with their sentences. Most are one pattern, a
row read in one statement and upserted whole in another: the sweep, renewal and
double-completion races of the pool, the two of rebin, the second weigh-check,
the second check-in. Three come from separate writes with separate failures
(lost mark, lost creation, lost projection), one from a cancelled context
(shutdown), one from `SKIP LOCKED` (two relays) and one from a check that leaves
the expiry out (late seal). The re-registration that clears an occupant (section
3) has no run: the comment it differs from speaks of capabilities only.

## 5. Proofs

Every theorem is about `Spec` without fairness and holds for every value of the
constants that satisfies the named assumption of its module. None of the
invariants is inductive as the runs state it; below, for each module, what the
inductive invariant adds and why. TLC finds each inductive invariant to hold on
the instance of its run too.

**TaskPoolProofs** (from `PoolAssumption`: times and bounds are natural numbers,
the lease duration is positive, `NoStation` is no station).

* `TypeCorrect`, `RowsStayConsistent`, `LeasesAreBounded`: under every mix of
  the six use cases. A blind save writes back a row read earlier, so `IInv`
  says of every private copy what it says of the table (`RowsOK`, `SeenOK`,
  both by `RowOK`), at the later time; that a claiming request's station has
  the capabilities its candidates require; and that a row read by RenewLease or
  CompleteTask was claimed no later than the request's clock (`ReqOK`), without
  which a renewal could shorten a lease below its claim.
* `HistoryIsFaithful` (`HistoryJustifiesRow`), again for every mix: `HistoryInv`
  demands that the log justifies the private copies too. The log of a task only
  grows, so a copy that was justified when it was read is so when it is written
  back; and a completion is refused unless its copy names the station as
  holder, so a claim of that station precedes it.
* `ReadModelsAgree` (`ViewsAgree`), for a finite set of tasks: the claimable
  tasks are the pending ones and the stuck ones, two disjoint sets, because the
  three queries agree on the instant a lease ends.
* `ClaimsAtMostOnce`, `CompletionIsFinal`, assuming `CoreOps` (neither renewals
  nor sweeps run). `StepPerTask` reduces a step to what it does to one task,
  and `CoreInv` adds that a pending task was never claimed and that a claimed
  row's expiry bounds the window of every claim so far (`CoreRow`). The next
  claim needs the compare-and-set to find the lease expired, so it starts after
  all of them. `pool_sweep_race` shows that `CoreOps` cannot be dropped.
* `PoolImplementsRegister`, assuming `CoreOps`: initial states map to initial
  states, a winning claim to `Grant`, the first completion to `Finish`, every
  other step to a stutter. It combines the invariants above with `ClaimClocks`
  (a claim is stamped with a time of the model): `CoreRow` is what `Grant` asks
  for, `HistoryInv` what `Finish` asks for.

**OutboxProofs** (from `OutboxAssumption`: a unit of work publishes a sequence
of known events, finitely many relays, a positive batch).

* `TypeCorrect`, `NeverAhead` (`OnlyCommittedDelivered`), `MarkedIsDelivered`
  (`NothingLost`), `CopiesAreBounded` (`BoundedRedelivery`): by `DeliveryInv`. A
  locked row is committed and unmarked (`BatchesSound`), no row is locked twice
  (`BatchesDisjoint`), what a pass has sent Kafka has (`SentIsDelivered`), and
  every copy of a row but the one that is recorded, in the table or in a pass in
  progress, was paid for by a fault (`CopiesPaid`). Disjointness is what keeps
  two relays from spending the same fault.
* `OneRelayOrder` (`OneRelayKeepsOrder`): `OrderInv` follows order from the row
  lock to Kafka. Two open units of work never hold one aggregate's lock
  (`LocksExclude`), so earlier rows of its key are decided when a row is
  inserted (`EarlierSettled`), so a batch of the only relay leaves no earlier
  row of the key out (`NoGaps`), so it is sent after them (`KeyOrder`).

**WorkReleasedConsumerProofs** (from `ConsumerAssumption`: an event id names one
event). `TypeCorrect`, `ReleasesCreateOnce` (`OneTaskPerRelease`) and
`NothingDroppedQuietly` (`DropNeedsFault`). The consumer that inserted an id is
the only one that creates its task (`OneOwner`); and a marked event was handled,
is in the hands of somebody past the mark, or met a fault (`MarkMeansHandled`),
which is why a duplicate may be skipped on the strength of the mark alone. A
failed offset commit counts as a fault.

**OrderProofs**, for Rebin (from `RebinAssumption`: an order requires a finite,
non-empty set of lines) and Packaging (from `PackagingAssumption`). The module
extends both, which share no state: Rebin's specification is `RebinSpec` and its
names differ from Packaging's for that reason.
Consolidation: `PackingWaitsForAll`, `RowsAreJustified`, `SerialOrdersPackedOnce`.
A copy in flight holds only lines that have an event, and its own
(`CopiesJustified`): writing it back, however late, invents no arrival. Where
arrivals do not overlap the copy is still current (`CopiesCurrent`), so the row
has every acknowledged line and one PACK task when complete (`SerialRows`).
`IsComplete` compares sizes; `CompleteMeansAll` shows that this is equality
among required lines. Pack output: `OneCartonPerTask`, `RowAndEventsAgree`,
`NoKnownClashSealed`. The scan compares an item with the recorded classes only, so
the invariant is about what is recorded: of the items scanned so far, the class
of every one whose lookup was answered, and no two of them clash (`Scanned`, of
cartons in flight by `RequestsSound` and of rows by `RowsScanned`). One more
item, looked up or not, keeps it (`ScanExtends`).

**IdempotencyProofs** (from `IdempotencyAssumption`). `RetriesCreateOnce` and
`ResponsesHold`: the transaction that inserted a key is the only open one and
its key is not committed (`OneHolder`), each task is the one its key's row names
and conversely (`RowNamesTask`), and each final response a client holds is the
recorded one (`AnswerIsRecorded`).

**PathCatalogueProofs** (from `CatalogueAssumption`: a path stays in one
partition, `NoPath` is no prefix). `ServesComplete` (`NeverServesIncomplete`)
and `SettledPathsAreFound`. At every point of the replay the map is what the
messages read so far describe (`MapExact`, with `ReadKeepsExact` for one
message), and the lengths are all noted before the replay starts (`AllNoted`); a
partition leaves the target only at its noted length (`CaughtUp`); a boot goes
past the replay only when no target is left (`PastReplayReady`). A settled
path's last write then lies before the reader's position (`OffsetDecides`), so
its prefix is among the hits of `Lookup`, and `LongestExists` gives it a longest
one.

**StationRegistryProofs** (from `StationAssumption` and `BreakerAssumption`: the
values that stand for no location, no station and nobody are none).
`TypeCorrect`, `SerialStationsAreTrue`, `WrongRolesNeedTrouble`. The type of the
breaker's counters needs that requests counted in this generation are finished
or in progress (`BreakerSound`); the other two need what a request carries into
its save (`CallSound`), and that the breaker leaves the closed state only after
facility-layout has failed (`SickIsKnown`). A save that took effect without an
answer keeps the capabilities and the location; only who was told is lost.

**AnalyticsProjectorProofs** (from `ProjectorAssumption`: a non-empty history of
known kinds at natural times, at least one consumer, hours of positive length).

* `LossNeedsAFault` (`LossNeedsFault`, with the type invariant): by
  `DeliveryInv`. A message read is marked, in somebody's hand, or was struck
  (`ReadIsMarked`); a marked event is applied, in the hand of a handler past the
  mark, or was struck (`MarkedIsApplied`); and what a handler is about to apply
  is not applied and in no other such hand (`HandIsFresh`). The second is what
  lets a handler put a duplicate down: the other handler still has it. `PutDown`
  is the step all six ways of letting go of a message share.
* `CountsAreTrue`, for every history: each of the six counting columns, each
  window and the totals of the Postgres rollup are those of `MemoryRow` and
  `MemoryQuery` over the log of Apply calls (`CountInv`). Both stores count an
  event once, and for the same reason: no event is handed to an Apply method
  twice (`AppliedOnce`, from `HandIsFresh`), so every call is the first the
  seen-set of `MemoryRow` lets through (`AllFirst`). A window shows the rows
  that exist, so the invariant also says that a row for which only claims were
  recorded is all zeros (`UntouchedIsEmpty`).
* `ReportsAreTrue` (`ReportsTrue`), assuming `OneCompletion`: whole rows, with
  the two columns measured from claims. `StoreInv` adds that there is one
  pending row per station and task (`OnePending`), that it is the claim recorded
  last (`PendingIsLatest`) and that it is there until the completion
  (`ClaimIsPending`); then the row Postgres finds is the claim MemoryStore finds
  by looking back (`MeasuredFrom`). The hypothesis is needed: Postgres deletes
  the pending row at a completion and MemoryStore does not, so a second
  completion of one claim is measured by one store only. `CompleteTask` refuses
  a completed task, and only calls that overlap, or a stale row written back,
  make a second one (section 3).
* `CycleTimesAreExact` (`CycleTimesExact`), assuming `OneCompletion` and
  `ClaimedFirst` (a completion follows a claim of its station, which
  `HistoryIsFaithful` shows for every mix of use cases). `CalmOrder` says of a
  run without fault, rebalance or overtaking: one consumer does everything
  (`OneReader`), what it has in hand is what it read last (`HandIsLast`) and
  everything before that is marked (`Drained`), so that an event that is new to
  the mark comes after all marked events of its aggregate (`HandIsNewest`) and
  events are applied in commit order (`AppliedInOrder`), repeated messages or
  not. The claims a completion is measured from are then already applied
  (`ClaimsApplied`) and the latest of them is the pending row
  (`MeasuredFromOwnClaim`).

`MCAnalyticsProjector` assumes `OneCompletion` and `ClaimedFirst` of its history,
so TLC confirms that the instance meets the hypotheses. The rows are sums and
cardinalities. The library states no fact about its sums, so the module proves
them: `SumFunctionOnSet` is a fold over subsets that exists and is unique
(`FoldingExists`, `FoldingUnique`), so a sum may split off any element
(`SumRemove`) and adds up over disjoint sets (`SumUnion`). The induction is over
the subsets of a finite set (`SubsetInduction`), from the well-foundedness of
strict inclusion and with the property as a set, since the library's induction
rules take it as an operator, which the provers cannot instantiate.

What proving changed in the models: the precedence of `(SUBSET Lines) \ {{}}`
in Rebin's assumption, which had allowed an order without lines; the uniqueness
of event ids in WorkReleasedConsumer, the sentinels of Idempotency and
StationRegistry, and the types of `EventsOf` and `Writes`, all of which had been
left to the instances; `batch` and `sent` of Outbox and `grants` of ClaimRegister
became sets, and the catalogue's logs sets of numbered writes; in
AnalyticsProjector the sums became those of the library, the reference rows
(`MemoryRow`) a function of the applied sequence, overtaking a relation between
two events (`SentBefore`), and `CycleTimesExact` a sum over the completions in
the read model; its assumption now says that there is a history and a consumer.
Proving `ReportsTrue` is also what showed that it needs `OneCompletion`, and how
much of it (`CountsTrue`) does not.

Only model-checked:

* the liveness properties (`ClaimRunsOut`, `EventuallyDelivered`,
  `EveryReleaseSettles`, `EveryRequestAnswered`, `EveryEventSettles`,
  `EventuallyCurrent`, `EveryRequestEnds`, `BreakerRecovers`): they need
  fairness, which the prover does not handle.

## 6. Not modelled

* Observability: tracing, metrics and logs change nothing the properties see.
* The in-memory repositories and the events multi-publisher: one process, no
  transactions, for tests and for a run without Postgres. The direct Kafka
  publisher of such a run is left out with them; its enrichment is in
  `AnalyticsProjector.Data`.
* The file catalogue (one read at boot), the permissive modes of the two
  lookups (no call is made), the choice of adapters by environment variables.
* HTTP decoding, validation texts, routing and paging; the MCP protocol. Their
  reading tools and queries are state functions of the models; `freshness` is
  only its newest event (`Latest`).
* Payload formats, SortLane and handling flags.
* The product-classification breaker is the same code as the facility-layout
  one. Packaging takes from it which lookups were answered.
* A handler of POST /tasks that answers 5xx while its transaction could still
  commit (`idempotency.go:231-257`): its 5xx come from failed statements, and a
  failed statement aborts the Postgres transaction, which is `Fail`.
* Task and package ids are fresh in every model; the code draws them from a
  nanosecond timestamp (`cmd/execution/main.go:681`) and relies on two replicas
  not doing so in the same nanosecond.
* TaskPool takes the stations and their capabilities as constants; a
  recertification between two claims is in StationRegistry only.

## 7. Plan

Done: the models of all nine components, their runs, and the theorems of
section 5: every invariant a passing run checks, one action property and one
refinement.

Open: action properties worth a theorem (what a save may never undo); the
liveness properties, once a prover handles fairness; the projector fed by the
pool's own event log instead of a constant history, which would turn the
hypotheses of `CycleTimesAreExact` into consequences where the pool has them.
