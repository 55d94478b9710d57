------------------------------ MODULE TaskPool ------------------------------
(***************************************************************************)
(* The task pool: the tasks table and the use cases that read and write it *)
(* (ClaimNext, CompleteTask, RenewLease, ExpireLeases, SweepCPTMisses,     *)
(* CreateTask), run by concurrent requests of one or more replicas.        *)
(*                                                                         *)
(* A request reads rows, decides on its private copy and writes it back in *)
(* a later transaction.  The two halves are separate actions, so any other *)
(* request and the clock may move in between.  A transaction (row write    *)
(* plus outbox insert, UnitOfWork.Execute) is one step.  SaveClaim is a    *)
(* compare-and-set on the row; Save, used by every other writer, is a      *)
(* blind upsert of the whole row that was read.                            *)
(***************************************************************************)
EXTENDS Integers, Sequences, FiniteSets

CONSTANTS Tasks,          \* task ids NewId can hand out (each at most once)
          Stations,       \* registered stations
          Requests,       \* slots for requests in flight
          TypeOf,         \* [Tasks -> task types], fixed by task.New
          Cpt,            \* [Tasks -> Nat], fixed by task.New
          Required,       \* [Tasks -> SUBSET capabilities], fixed by task.New
          Capabilities,   \* [Stations -> SUBSET capabilities]
          LeaseDuration,
          Ops,            \* the use cases this instance exercises
          MaxTime,        \* bound: the clock stops here
          Horizon,        \* bound: no use case reads the clock after this
          MaxEvents       \* bound: outbox rows per task

AllOps == {"claim", "complete", "renew", "expire", "cptsweep"}
NoStation == "none"
Never == -1

ASSUME PoolAssumption ==
    /\ NoStation \notin Stations
    /\ Cpt \in [Tasks -> Nat]
    /\ LeaseDuration \in Nat \ {0}
    /\ Ops \subseteq AllOps
    /\ MaxTime \in Nat
    /\ Horizon \in Nat
    /\ MaxEvents \in Nat

VARIABLES now,      \* the wall clock
          rows,     \* the tasks table
          outbox,   \* outbox_events, per partition key (the task id), in id order
          kind,     \* per request: the use case it is in, or "idle"
          station,  \* per request: the stationId argument
          clock,    \* per request: the Clock.Now() it works with (see below)
          todo,     \* per request: tasks it still has to try
          seen      \* per request: the rows it read

vars == <<now, rows, outbox, kind, station, clock, todo, seen>>
reqVars == <<kind, station, clock, todo, seen>>

-----------------------------------------------------------------------------
(* Rows and events *)

Status == {"None", "Pending", "Claimed", "Completed"}
Row == [status : Status, holder : Stations \cup {NoStation},
        expiry : Nat, claimedAt : Int]

\* No row with this id.  holder = NoStation stands for a NULL lease, whose
\* expiry column is NULL too (0 here).
NoRow == [status |-> "None", holder |-> NoStation, expiry |-> 0, claimedAt |-> Never]
NewRow == [NoRow EXCEPT !.status = "Pending"]

EventName == {"TaskCreated", "TaskClaimed", "TaskCompleted", "LeaseExpired", "TaskCPTMissed"}
Event == [name : EventName, station : Stations \cup {NoStation}, at : Nat]
Ev(n, s, t) == [name |-> n, station |-> s, at |-> t]

\* The tables and the requests' private copies are well formed.
TypeOK ==
    /\ now \in Nat
    /\ rows \in [Tasks -> Row]
    /\ outbox \in [Tasks -> Seq(Event)]
    /\ kind \in [Requests -> Ops \cup {"idle"}]
    /\ station \in [Requests -> Stations \cup {NoStation}]
    /\ clock \in [Requests -> Nat]
    /\ todo \in [Requests -> SUBSET Tasks]
    /\ seen \in [Requests -> [Tasks -> Row]]

-----------------------------------------------------------------------------
(* The Task aggregate *)

\* Mutants: the boundary instant counted as unexpired; the lease cut one short.
ExpiredStrictly(row, n) == row.expiry < n
ExpiredEarly(row, n) == row.expiry <= n + 1
Expired(row, n) == row.expiry <= n

IsAvailable(row, n) ==
    \/ row.status = "Pending"
    \/ row.status = "Claimed" /\ Expired(row, n)

IsCPTMissed(t, n) == rows[t].status \in {"Pending", "Claimed"} /\ Cpt[t] <= n

\* Mutant: the owner check is missing.
HoldsLeaseAnyStation(row, s, n) ==
    /\ row.status = "Claimed"
    /\ row.holder # NoStation
    /\ ~Expired(row, n)

\* What Complete and RenewLease both demand: claimed, lease active, owner.
HoldsLease(row, s, n) ==
    /\ row.status = "Claimed"
    /\ row.holder # NoStation
    /\ ~Expired(row, n)
    /\ row.holder = s

\* status, lease_station_id, lease_expiry and claimed_at after Claim.
Claim(row, s, n) == [status |-> "Claimed", holder |-> s,
                     expiry |-> n + LeaseDuration, claimedAt |-> n]

\* Mutants: the duration subtracted; the lease extended from its old end.
RenewBackwards(row, n) == [row EXCEPT !.expiry = n - LeaseDuration]
RenewFromExpiry(row, n) == [row EXCEPT !.expiry = @ + LeaseDuration]
RenewLease(row, n) == [row EXCEPT !.expiry = n + LeaseDuration]
ExpireLease(row) == [row EXCEPT !.status = "Pending", !.holder = NoStation, !.expiry = 0]

\* Mutant: the lease is not cleared.
CompleteKeepingLease(row) == [row EXCEPT !.status = "Completed"]
Complete(row) == [row EXCEPT !.status = "Completed", !.holder = NoStation, !.expiry = 0]

-----------------------------------------------------------------------------
(* Requests *)

Init ==
    /\ now = 0
    /\ rows = [t \in Tasks |-> NoRow]
    /\ outbox = [t \in Tasks |-> <<>>]
    /\ kind = [r \in Requests |-> "idle"]
    /\ station = [r \in Requests |-> NoStation]
    /\ clock = [r \in Requests |-> 0]
    /\ todo = [r \in Requests |-> {}]
    /\ seen = [r \in Requests |-> [t \in Tasks |-> NoRow]]

Start(r, op, s, n, ts) ==
    /\ op \in Ops
    /\ kind[r] = "idle"
    /\ ts # {}
    /\ kind' = [kind EXCEPT ![r] = op]
    /\ station' = [station EXCEPT ![r] = s]
    /\ clock' = [clock EXCEPT ![r] = n]
    /\ todo' = [todo EXCEPT ![r] = ts]
    /\ seen' = [seen EXCEPT ![r] = [t \in Tasks |-> IF t \in ts THEN rows[t] ELSE NoRow]]

\* The request returns to its caller.
Return(r) ==
    /\ kind' = [kind EXCEPT ![r] = "idle"]
    /\ station' = [station EXCEPT ![r] = NoStation]
    /\ clock' = [clock EXCEPT ![r] = 0]
    /\ todo' = [todo EXCEPT ![r] = {}]
    /\ seen' = [seen EXCEPT ![r] = [t \in Tasks |-> NoRow]]

\* The loop moves past t: to the next element, or out of the use case.
Advance(r, t) ==
    IF todo[r] = {t}
    THEN Return(r)
    ELSE /\ todo' = [todo EXCEPT ![r] = @ \ {t}]
         /\ seen' = [seen EXCEPT ![r][t] = NoRow]
         /\ UNCHANGED <<kind, station, clock>>

\* One transaction: the row written, the event inserted next to it.
Save(t, row) == rows' = [rows EXCEPT ![t] = row]
Publish(t, e) ==
    /\ Len(outbox[t]) < MaxEvents
    /\ outbox' = [outbox EXCEPT ![t] = Append(@, e)]

\* The values Clock.Now() may have returned to a request that called it
\* between clock value lo and the present one.
ClockReads(lo) == {n \in lo..now : n <= Horizon}

\* CreateTask: a fresh id, a Pending row, TaskCreated.
CreateTask(t) ==
    /\ rows[t].status = "None"
    /\ Save(t, NewRow)
    /\ \E n \in ClockReads(now) : Publish(t, Ev("TaskCreated", NoStation, n))
    /\ UNCHANGED <<now, reqVars>>

\* ClaimNext reads the clock, then the claimable tasks of a type.  Claim
\* refuses a candidate for lack of capabilities whatever happens later, so
\* those are dropped here; the others pass Claim on the copy just read.
Candidates(s, ty, n) ==
    {t \in Tasks : /\ TypeOf[t] = ty
                   /\ IsAvailable(rows[t], n)
                   /\ Required[t] \subseteq Capabilities[s]}

ClaimRead(r, s, ty) ==
    /\ \E n \in ClockReads(0) : Start(r, "claim", s, n, Candidates(s, ty, n))
    /\ UNCHANGED <<now, rows, outbox>>

\* ORDER BY cpt ASC, ties in any order.
IsNextCandidate(r, t) == t \in todo[r] /\ \A u \in todo[r] : Cpt[t] <= Cpt[u]

\* Mutant: an unconditional UPDATE in place of the compare-and-set.
ClaimSavedBlindly(r, t) ==
    /\ kind[r] = "claim"
    /\ IsNextCandidate(r, t)
    /\ Save(t, Claim(rows[t], station[r], clock[r]))
    /\ Publish(t, Ev("TaskClaimed", station[r], clock[r]))
    /\ Return(r)
    /\ UNCHANGED now

\* SaveClaim matched the row: the claim and TaskClaimed commit together.
ClaimWon(r, t) ==
    /\ kind[r] = "claim"
    /\ IsNextCandidate(r, t)
    /\ IsAvailable(rows[t], clock[r])
    /\ Save(t, Claim(rows[t], station[r], clock[r]))
    /\ Publish(t, Ev("TaskClaimed", station[r], clock[r]))
    /\ Return(r)
    /\ UNCHANGED now

\* SaveClaim matched no row: another request took the task first.
ClaimLost(r, t) ==
    /\ kind[r] = "claim"
    /\ IsNextCandidate(r, t)
    /\ ~IsAvailable(rows[t], clock[r])
    /\ Advance(r, t)
    /\ UNCHANGED <<now, rows, outbox>>

\* CompleteTask and RenewLease start with FindById and read the clock after
\* it: clock[r] is the time of the read, the decision uses a later one.
FindById(r, op, s, t) ==
    /\ rows[t].status # "None"
    /\ Start(r, op, s, now, {t})
    /\ UNCHANGED <<now, rows, outbox>>

CompleteRead(r, s, t) == FindById(r, "complete", s, t)
RenewRead(r, s, t) == FindById(r, "renew", s, t)

CompleteSave(r, t) ==
    /\ kind[r] = "complete" /\ t \in todo[r]
    /\ \E n \in ClockReads(clock[r]) :
          /\ HoldsLease(seen[r][t], station[r], n)
          /\ Save(t, Complete(seen[r][t]))
          /\ Publish(t, Ev("TaskCompleted", station[r], n))
    /\ Return(r)
    /\ UNCHANGED now

\* RenewLease saves outside any unit of work and publishes nothing.
RenewSave(r, t) ==
    /\ kind[r] = "renew" /\ t \in todo[r]
    /\ \E n \in ClockReads(clock[r]) :
          /\ HoldsLease(seen[r][t], station[r], n)
          /\ Save(t, RenewLease(seen[r][t], n))
    /\ Return(r)
    /\ UNCHANGED <<now, outbox>>

\* ExpireLeases reads the clock, then every claimed task; the ones whose
\* lease is due are freed one transaction each.
ExpireRead(r) ==
    /\ \E n \in ClockReads(0) :
          Start(r, "expire", NoStation, n,
                {t \in Tasks : rows[t].status = "Claimed" /\ Expired(rows[t], n)})
    /\ UNCHANGED <<now, rows, outbox>>

ExpireSave(r, t) ==
    /\ kind[r] = "expire" /\ t \in todo[r]
    /\ Save(t, ExpireLease(seen[r][t]))
    /\ Publish(t, Ev("LeaseExpired", NoStation, clock[r]))
    /\ Advance(r, t)
    /\ UNCHANGED now

\* SweepCPTMisses reports every open overdue task and changes none.
CPTSweepRead(r) ==
    /\ \E n \in ClockReads(0) :
          Start(r, "cptsweep", NoStation, n, {t \in Tasks : IsCPTMissed(t, n)})
    /\ UNCHANGED <<now, rows, outbox>>

CPTSweepReport(r, t) ==
    /\ kind[r] = "cptsweep" /\ t \in todo[r]
    /\ Publish(t, Ev("TaskCPTMissed", NoStation, clock[r]))
    /\ Advance(r, t)
    /\ UNCHANGED <<now, rows>>

\* A request ends without (further) effect: a guard of the aggregate refused
\* it, its transaction failed and rolled back, or its replica crashed.
GiveUp(r) ==
    /\ kind[r] # "idle"
    /\ Return(r)
    /\ UNCHANGED <<now, rows, outbox>>

Tick ==
    /\ now < MaxTime
    /\ now' = now + 1
    /\ UNCHANGED <<rows, outbox, reqVars>>

\* The steps that finish a request already in flight.
Finish(r) ==
    \/ \E t \in Tasks :
          \/ ClaimWon(r, t)
          \/ ClaimLost(r, t)
          \/ CompleteSave(r, t)
          \/ RenewSave(r, t)
          \/ ExpireSave(r, t)
          \/ CPTSweepReport(r, t)
    \/ GiveUp(r)

Next ==
    \/ Tick
    \/ \E t \in Tasks : CreateTask(t)
    \/ \E r \in Requests :
          \/ \E s \in Stations :
                \/ \E t \in Tasks : \/ ClaimRead(r, s, TypeOf[t])
                                    \/ CompleteRead(r, s, t)
                                    \/ RenewRead(r, s, t)
          \/ ExpireRead(r)
          \/ CPTSweepRead(r)
          \/ Finish(r)

Spec == Init /\ [][Next]_vars
FairSpec == Spec /\ WF_vars(Tick) /\ \A r \in Requests : WF_vars(Finish(r))

-----------------------------------------------------------------------------
(* What the read models show of the pool *)

\* get_queue_status: the Pending tasks of a type.
QueueDepth(ty) == Cardinality({t \in Tasks : TypeOf[t] = ty /\ rows[t].status = "Pending"})

\* find_claimable_work: what FindClaimableByType returns, for any station.
FindClaimable(ty) == {t \in Tasks : TypeOf[t] = ty /\ IsAvailable(rows[t], now)}

\* Mutant: a lease that ends this instant is not yet stuck.
StuckBefore(within) ==
    {t \in Tasks : rows[t].status = "Claimed" /\ rows[t].holder # NoStation /\ rows[t].expiry < now + within}

\* diagnose_stuck_tasks: leases that have ended, or end within the window.
StuckTasks(within) ==
    {t \in Tasks : rows[t].status = "Claimed" /\ rows[t].holder # NoStation /\ rows[t].expiry <= now + within}

-----------------------------------------------------------------------------
(* Properties of every mix of use cases *)

Claims(t) == {i \in DOMAIN outbox[t] : outbox[t][i].name = "TaskClaimed"}
Completions(t) == {i \in DOMAIN outbox[t] : outbox[t][i].name = "TaskCompleted"}

\* Row and lease agree, whichever request wrote the row last: a lease exists
\* exactly while the task is claimed, the claim time is kept until the lease
\* runs out and after completion, and the holder has what the task requires.
RowConsistent ==
    \A t \in Tasks :
        LET row == rows[t] IN
        /\ row.holder # NoStation <=> row.status = "Claimed"
        /\ row.status = "Claimed" =>
              /\ Required[t] \subseteq Capabilities[row.holder]
              /\ row.claimedAt + LeaseDuration <= row.expiry
        /\ row.status = "Completed" => row.claimedAt # Never

\* No claim outlives its station by more than one lease: whatever stale clock
\* or row a writer used, no lease ends later than LeaseDuration from now, and
\* a lease is always that of a claim made no later than now.
LeaseBounded ==
    \A t \in Tasks :
        /\ rows[t].expiry <= now + LeaseDuration
        /\ rows[t].claimedAt <= now

\* The event history justifies the table: a claimed row's holder published a
\* TaskClaimed, a completed row has a TaskCompleted, and every TaskCompleted
\* comes after a TaskClaimed of the same station.
HistoryJustifiesRow ==
    \A t \in Tasks :
        /\ rows[t].status = "Claimed" =>
              \E i \in Claims(t) : outbox[t][i].station = rows[t].holder
        /\ rows[t].status = "Completed" => Completions(t) # {}
        /\ \A j \in Completions(t) : \E i \in Claims(t) :
              i < j /\ outbox[t][i].station = outbox[t][j].station

\* The three read models tell one story at every instant, the one where a lease
\* ends included: the claimable tasks are those in the queue and the stuck
\* ones, and every other claimed task is stuck within a lease duration
\* (FindClaimableByType, CountByTypeAndStatus, diagnoseStuckTasks).
ViewsAgree ==
    \A t \in Tasks :
        LET stuck(within) == {u \in StuckTasks(within) : TypeOf[u] = TypeOf[t]}
        IN  /\ Cardinality(FindClaimable(TypeOf[t])) = QueueDepth(TypeOf[t]) + Cardinality(stuck(0))
            /\ rows[t].status = "Claimed" => t \in stuck(LeaseDuration)

\* A station that claims and goes silent does not keep the task: every
\* claimed task later is claimable again or completed, also when nobody runs
\* the expiry sweep (ClaimNext treats an expired lease as available).
ClaimRunsOut ==
    \A t \in Tasks :
        rows[t].status = "Claimed"
            ~> (rows[t].status = "Completed" \/ IsAvailable(rows[t], now))

-----------------------------------------------------------------------------
(* Properties of claiming and completing.  A stale save of RenewLease or    *)
(* ExpireLeases breaks each of them.                                        *)

\* At most once: the lease windows of two claims of one task never overlap.
ClaimWindowsDisjoint ==
    \A t \in Tasks : \A i, j \in Claims(t) :
        i < j => outbox[t][i].at + LeaseDuration <= outbox[t][j].at

\* Two stations never hold an active claim on one task simultaneously.
AtMostOneHolder ==
    \A t \in Tasks : \A i, j \in Claims(t) :
        /\ now < outbox[t][i].at + LeaseDuration
        /\ now < outbox[t][j].at + LeaseDuration
        => outbox[t][i].station = outbox[t][j].station

\* A completed task never goes back to the pool.
CompletedIsFinal ==
    [][\A t \in Tasks : rows[t].status = "Completed" => rows'[t].status = "Completed"]_rows

\* No double-complete: of two completions of one claim the second is rejected
\* (aggregates document, T4).  Two calls that both read the row Claimed break it.
CompletedOnce == \A t \in Tasks : Cardinality(Completions(t)) <= 1

\* The grants of a task are its TaskClaimed events.
GrantsOf(t) == {[id |-> i, station |-> outbox[t][i].station, at |-> outbox[t][i].at] : i \in Claims(t)}

\* Claiming and completing implement the abstract register of grants.
Register == INSTANCE ClaimRegister WITH
    Time <- 0..Horizon,
    GrantIds <- 1..MaxEvents,
    grants <- [t \in Tasks |-> GrantsOf(t)],
    done <- {t \in Tasks : rows[t].status = "Completed"}
ImplementsClaimRegister == Register!RSpec
=============================================================================
