--------------------------- MODULE TaskPoolProofs ---------------------------
(***************************************************************************)
(* Theorems about TaskPool, for every set of tasks, stations and requests, *)
(* every lease duration and every bound.                                   *)
(***************************************************************************)
EXTENDS TaskPool, FiniteSetTheorems, TLAPS

-----------------------------------------------------------------------------
(* The aggregate's operations produce rows *)

\* Each operation of the Task aggregate turns a row into a row.
LEMMA RowOperations ==
    ASSUME NEW row \in Row, NEW s \in Stations \cup {NoStation}, NEW n \in Nat
    PROVE  /\ Claim(row, s, n) \in Row
           /\ RenewLease(row, n) \in Row
           /\ ExpireLease(row) \in Row
           /\ Complete(row) \in Row
<1>1. n + LeaseDuration \in Nat
  BY PoolAssumption
<1>2. Claim(row, s, n) \in Row
  BY <1>1 DEF Row, Status, Claim
<1>3. RenewLease(row, n) \in Row
  BY <1>1 DEF Row, RenewLease
<1>4. ExpireLease(row) \in Row /\ Complete(row) \in Row
  BY DEF Row, Status, ExpireLease, Complete
<1> QED BY <1>2, <1>3, <1>4

\* The absent row and a freshly created one are rows.
LEMMA ConstantRows == NoRow \in Row /\ NewRow \in Row
BY DEF NoRow, NewRow, Row, Status, NoStation, Never

\* A domain event built by the use cases is an outbox event.
LEMMA EvType ==
    ASSUME NEW nm \in EventName, NEW s \in Stations \cup {NoStation}, NEW n \in Nat
    PROVE  Ev(nm, s, n) \in Event
BY DEF Ev, Event

\* A clock reading lies between the request's start and the present.
LEMMA ClockReadsType ==
    ASSUME TypeOK, NEW lo \in Nat
    PROVE  \A n \in ClockReads(lo) : n \in Nat /\ n <= now /\ lo <= n
BY DEF ClockReads, TypeOK

\* The outbox insert keeps the logs well typed.
LEMMA PublishType ==
    ASSUME TypeOK, NEW t \in Tasks, NEW e \in Event, Publish(t, e)
    PROVE  outbox' \in [Tasks -> Seq(Event)]
BY DEF Publish, TypeOK

\* A row write keeps the table well typed.
LEMMA SaveType ==
    ASSUME TypeOK, NEW t \in Tasks, NEW row \in Row, Save(t, row)
    PROVE  rows' \in [Tasks -> Row]
BY DEF Save, TypeOK

\* The part of TypeOK about the requests' private state.
ReqTypeOK ==
    /\ kind \in [Requests -> Ops \cup {"idle"}]
    /\ station \in [Requests -> Stations \cup {NoStation}]
    /\ clock \in [Requests -> Nat]
    /\ todo \in [Requests -> SUBSET Tasks]
    /\ seen \in [Requests -> [Tasks -> Row]]

\* A use case that starts keeps the requests well typed.
LEMMA StartType ==
    ASSUME TypeOK, NEW r \in Requests, NEW op, NEW s \in Stations \cup {NoStation},
           NEW n \in Nat, NEW ts \in SUBSET Tasks, Start(r, op, s, n, ts)
    PROVE  ReqTypeOK'
BY ConstantRows DEF Start, TypeOK, ReqTypeOK

\* A use case that returns keeps the requests well typed.
LEMMA ReturnType ==
    ASSUME TypeOK, NEW r \in Requests, Return(r)
    PROVE  ReqTypeOK'
BY ConstantRows DEF Return, TypeOK, ReqTypeOK

\* A loop that moves to its next task keeps the requests well typed.
LEMMA AdvanceType ==
    ASSUME TypeOK, NEW r \in Requests, NEW t \in Tasks, Advance(r, t)
    PROVE  ReqTypeOK'
<1>1. CASE todo[r] = {t}
  BY <1>1, ReturnType DEF Advance
<1>2. CASE todo[r] # {t}
  <2>1. seen' = [seen EXCEPT ![r][t] = NoRow]
    BY <1>2 DEF Advance
  <2>2. seen' \in [Requests -> [Tasks -> Row]]
    BY <2>1, ConstantRows DEF TypeOK
  <2>3. todo' = [todo EXCEPT ![r] = todo[r] \ {t}] /\ todo[r] \ {t} \in SUBSET Tasks
    BY <1>2 DEF Advance, TypeOK
  <2>4. todo' \in [Requests -> SUBSET Tasks]
    BY <2>3 DEF TypeOK
  <2> QED BY <1>2, <2>2, <2>4 DEF Advance, TypeOK, ReqTypeOK
<1> QED BY <1>1, <1>2

-----------------------------------------------------------------------------
(* Type correctness *)

\* The empty table is well typed.
LEMMA TypeInit == Init => TypeOK
BY ConstantRows DEF Init, TypeOK

\* Every step keeps the pool well typed: one case per action.
LEMMA TypeStep == TypeOK /\ [Next]_vars => TypeOK'
<1> SUFFICES ASSUME TypeOK, [Next]_vars PROVE TypeOK'
  OBVIOUS
<1>1. CASE UNCHANGED vars
  BY <1>1 DEF vars, TypeOK
<1>2. CASE Tick
  BY <1>2 DEF Tick, TypeOK, reqVars
<1>3. ASSUME NEW t \in Tasks, CreateTask(t) PROVE TypeOK'
  <2>1. PICK n \in ClockReads(now) : Publish(t, Ev("TaskCreated", NoStation, n))
    BY <1>3 DEF CreateTask
  <2>2. outbox' \in [Tasks -> Seq(Event)]
    BY <2>1, EvType, PublishType, ClockReadsType DEF TypeOK, EventName
  <2>3. rows' \in [Tasks -> Row]
    BY <1>3, SaveType, ConstantRows DEF CreateTask
  <2> QED BY <1>3, <2>2, <2>3 DEF CreateTask, TypeOK, reqVars
<1>4. ASSUME NEW r \in Requests, NEW s \in Stations, NEW ty, ClaimRead(r, s, ty)
      PROVE  TypeOK'
  <2>1. PICK n \in ClockReads(0) : Start(r, "claim", s, n, Candidates(s, ty, n))
    BY <1>4 DEF ClaimRead
  <2>2. ReqTypeOK'
    BY <2>1, StartType, ClockReadsType DEF Candidates
  <2> QED BY <1>4, <2>2 DEF ClaimRead, TypeOK, ReqTypeOK
<1>5. ASSUME NEW r \in Requests, NEW op, NEW s \in Stations, NEW t \in Tasks,
             FindById(r, op, s, t)
      PROVE  TypeOK'
  <2>1. ReqTypeOK'
    BY <1>5, StartType DEF FindById, TypeOK
  <2> QED BY <1>5, <2>1 DEF FindById, TypeOK, ReqTypeOK
<1>6. ASSUME NEW r \in Requests, ExpireRead(r) \/ CPTSweepRead(r) PROVE TypeOK'
  <2>1. PICK n \in ClockReads(0), op \in {"expire", "cptsweep"}, ts \in SUBSET Tasks :
            Start(r, op, NoStation, n, ts)
    BY <1>6 DEF ExpireRead, CPTSweepRead
  <2>2. ReqTypeOK'
    BY <2>1, StartType, ClockReadsType
  <2> QED BY <1>6, <2>2 DEF ExpireRead, CPTSweepRead, TypeOK, ReqTypeOK
<1>7. ASSUME NEW r \in Requests, NEW t \in Tasks, ClaimWon(r, t) PROVE TypeOK'
  <2>0. rows[t] \in Row /\ station[r] \in Stations \cup {NoStation} /\ clock[r] \in Nat
    BY DEF TypeOK
  <2>1. rows' \in [Tasks -> Row]
    BY <1>7, <2>0, RowOperations, SaveType DEF ClaimWon
  <2>2. outbox' \in [Tasks -> Seq(Event)]
    BY <1>7, <2>0, EvType, PublishType DEF ClaimWon, EventName
  <2>3. ReqTypeOK'
    BY <1>7, ReturnType DEF ClaimWon
  <2> QED BY <1>7, <2>1, <2>2, <2>3 DEF ClaimWon, TypeOK, ReqTypeOK
<1>8. ASSUME NEW r \in Requests, NEW t \in Tasks, ClaimLost(r, t) PROVE TypeOK'
  <2>1. ReqTypeOK'
    BY <1>8, AdvanceType DEF ClaimLost
  <2> QED BY <1>8, <2>1 DEF ClaimLost, TypeOK, ReqTypeOK
<1>9. ASSUME NEW r \in Requests, NEW t \in Tasks, CompleteSave(r, t) PROVE TypeOK'
  <2>0. seen[r][t] \in Row /\ station[r] \in Stations \cup {NoStation} /\ clock[r] \in Nat
    BY DEF TypeOK
  <2>1. PICK n \in ClockReads(clock[r]) :
            /\ Save(t, Complete(seen[r][t]))
            /\ Publish(t, Ev("TaskCompleted", station[r], n))
    BY <1>9 DEF CompleteSave
  <2>2. rows' \in [Tasks -> Row]
    BY <2>0, <2>1, RowOperations, SaveType
  <2>3. outbox' \in [Tasks -> Seq(Event)]
    BY <2>0, <2>1, EvType, PublishType, ClockReadsType DEF EventName
  <2>4. ReqTypeOK'
    BY <1>9, ReturnType DEF CompleteSave
  <2> QED BY <1>9, <2>2, <2>3, <2>4 DEF CompleteSave, TypeOK, ReqTypeOK
<1>10. ASSUME NEW r \in Requests, NEW t \in Tasks, RenewSave(r, t) PROVE TypeOK'
  <2>0. seen[r][t] \in Row /\ clock[r] \in Nat
    BY DEF TypeOK
  <2>1. PICK n \in ClockReads(clock[r]) : Save(t, RenewLease(seen[r][t], n))
    BY <1>10 DEF RenewSave
  <2>2. rows' \in [Tasks -> Row]
    BY <2>0, <2>1, RowOperations, SaveType, ClockReadsType
  <2>3. ReqTypeOK'
    BY <1>10, ReturnType DEF RenewSave
  <2> QED BY <1>10, <2>2, <2>3 DEF RenewSave, TypeOK, ReqTypeOK
<1>11. ASSUME NEW r \in Requests, NEW t \in Tasks, ExpireSave(r, t) PROVE TypeOK'
  <2>0. seen[r][t] \in Row /\ clock[r] \in Nat
    BY DEF TypeOK
  <2>1. rows' \in [Tasks -> Row]
    BY <1>11, <2>0, RowOperations, SaveType DEF ExpireSave
  <2>2. outbox' \in [Tasks -> Seq(Event)]
    BY <1>11, <2>0, EvType, PublishType DEF ExpireSave, EventName
  <2>3. ReqTypeOK'
    BY <1>11, AdvanceType DEF ExpireSave
  <2> QED BY <1>11, <2>1, <2>2, <2>3 DEF ExpireSave, TypeOK, ReqTypeOK
<1>12. ASSUME NEW r \in Requests, NEW t \in Tasks, CPTSweepReport(r, t) PROVE TypeOK'
  <2>0. clock[r] \in Nat
    BY DEF TypeOK
  <2>1. outbox' \in [Tasks -> Seq(Event)]
    BY <1>12, <2>0, EvType, PublishType DEF CPTSweepReport, EventName
  <2>2. ReqTypeOK'
    BY <1>12, AdvanceType DEF CPTSweepReport
  <2> QED BY <1>12, <2>1, <2>2 DEF CPTSweepReport, TypeOK, ReqTypeOK
<1>13. ASSUME NEW r \in Requests, GiveUp(r) PROVE TypeOK'
  <2>1. ReqTypeOK'
    BY <1>13, ReturnType DEF GiveUp
  <2> QED BY <1>13, <2>1 DEF GiveUp, TypeOK, ReqTypeOK
<1> QED
  BY <1>1, <1>2, <1>3, <1>4, <1>5, <1>6, <1>7, <1>8, <1>9, <1>10, <1>11, <1>12, <1>13
  DEF Next, Finish, CompleteRead, RenewRead

\* Every reachable state of the pool is well typed: in particular a stale
\* writer never leaves a row, an event or a private copy of another shape.
THEOREM TypeCorrect == Spec => []TypeOK
BY TypeInit, TypeStep, PTL DEF Spec

-----------------------------------------------------------------------------
(***************************************************************************)
(* Rows under every mix of use cases.  RowConsistent and LeaseBounded are  *)
(* not inductive: a blind Save writes back a row read earlier, so the same *)
(* must hold of every private copy, at the later time; a claim's station   *)
(* must still have the capabilities checked at the read; and the row a     *)
(* RenewLease read must have been claimed no later than that read, or the  *)
(* renewed lease would end before it should.                               *)
(***************************************************************************)

RowOK(t, row, n) ==
    /\ row.holder # NoStation <=> row.status = "Claimed"
    /\ row.status = "Claimed" =>
          /\ Required[t] \subseteq Capabilities[row.holder]
          /\ row.claimedAt + LeaseDuration <= row.expiry
          /\ 0 <= row.claimedAt
    /\ row.status = "Completed" => 0 <= row.claimedAt
    /\ row.claimedAt <= n
    /\ row.expiry <= n + LeaseDuration

RowsOK == \A t \in Tasks : RowOK(t, rows[t], now)
SeenOK == \A r \in Requests, t \in Tasks : RowOK(t, seen[r][t], now)
ReqOK ==
    \A r \in Requests :
        /\ clock[r] <= now
        /\ kind[r] = "claim" =>
              /\ station[r] \in Stations
              /\ \A t \in todo[r] : Required[t] \subseteq Capabilities[station[r]]
        /\ kind[r] \in {"complete", "renew"} =>
              \A t \in Tasks : seen[r][t].claimedAt <= clock[r]

IInv == TypeOK /\ RowsOK /\ SeenOK /\ ReqOK

\* A row that is in order stays so as the clock moves on.
LEMMA RowOKLater ==
    ASSUME NEW t, NEW row \in Row, NEW n \in Nat, NEW m \in Nat, n <= m, RowOK(t, row, n)
    PROVE  RowOK(t, row, m)
BY PoolAssumption DEF RowOK, Row

\* The absent row and a freshly created one are in order at any time.
LEMMA RowOKConstants ==
    ASSUME NEW t, NEW n \in Nat
    PROVE  RowOK(t, NoRow, n) /\ RowOK(t, NewRow, n)
BY PoolAssumption DEF RowOK, NoRow, NewRow, NoStation, Never

\* Claim leaves a row in order when the station has the capabilities.
LEMMA RowOKClaim ==
    ASSUME NEW t, NEW row \in Row, NEW s \in Stations, NEW n \in Nat, NEW m \in Nat,
           m <= n, Required[t] \subseteq Capabilities[s]
    PROVE  RowOK(t, Claim(row, s, m), n)
BY PoolAssumption DEF RowOK, Claim

\* RenewLease leaves a row in order when it was claimed before the renewal.
LEMMA RowOKRenew ==
    ASSUME NEW t, NEW row \in Row, NEW n \in Nat, NEW m \in Nat,
           m <= n, row.claimedAt <= m, row.status = "Claimed", RowOK(t, row, n)
    PROVE  RowOK(t, RenewLease(row, m), n)
BY PoolAssumption DEF RowOK, RenewLease, Row

\* ExpireLease leaves a row in order.
LEMMA RowOKExpire ==
    ASSUME NEW t, NEW row \in Row, NEW n \in Nat, RowOK(t, row, n)
    PROVE  RowOK(t, ExpireLease(row), n)
BY PoolAssumption DEF RowOK, ExpireLease, Row, NoStation

\* Complete leaves a claimed row in order.
LEMMA RowOKComplete ==
    ASSUME NEW t, NEW row \in Row, NEW n \in Nat, RowOK(t, row, n), row.status = "Claimed"
    PROVE  RowOK(t, Complete(row), n)
BY PoolAssumption DEF RowOK, Complete, Row, NoStation

\* Writing a row that is in order, stale or not, keeps the table in order.
LEMMA SaveOK ==
    ASSUME IInv, NEW t \in Tasks, NEW row \in Row, RowOK(t, row, now), Save(t, row),
           now' = now
    PROVE  RowsOK'
BY DEF IInv, TypeOK, RowsOK, Save

\* A use case that returns drops its copies, which disturbs no invariant.
LEMMA ReturnOK ==
    ASSUME IInv, NEW r \in Requests, Return(r), now' = now
    PROVE  SeenOK' /\ ReqOK'
<1>1. SeenOK'
  BY RowOKConstants DEF Return, IInv, TypeOK, SeenOK
<1>2. ReqOK'
  BY DEF Return, IInv, TypeOK, ReqOK
<1> QED BY <1>1, <1>2

\* A loop that moves on drops one copy, which disturbs no invariant.
LEMMA AdvanceOK ==
    ASSUME IInv, NEW r \in Requests, NEW t \in Tasks, Advance(r, t), now' = now
    PROVE  SeenOK' /\ ReqOK'
<1>1. CASE todo[r] = {t}
  BY <1>1, ReturnOK DEF Advance
<1>2. CASE todo[r] # {t}
  <2>1. \A q \in Requests, u \in Tasks :
            seen'[q][u] = IF q = r /\ u = t THEN NoRow ELSE seen[q][u]
    BY <1>2 DEF Advance, IInv, TypeOK
  <2>2. SeenOK'
    BY <2>1, RowOKConstants DEF SeenOK, IInv, TypeOK
  <2>3. \A q \in Requests : todo'[q] \subseteq todo[q]
    BY <1>2 DEF Advance, IInv, TypeOK
  <2>4. \A q \in Requests, u \in Tasks :
            seen'[q][u].claimedAt = seen[q][u].claimedAt \/ seen'[q][u].claimedAt = Never
    BY <2>1 DEF NoRow
  <2>5. Never \in Int /\ \A n \in Nat : Never <= n
    BY DEF Never
  <2>6. ReqOK'
    BY <1>2, <2>3, <2>4, <2>5 DEF Advance, IInv, TypeOK, ReqOK
  <2> QED BY <2>2, <2>6
<1> QED BY <1>1, <1>2

\* The copies a use case starts with are rows in order, and its station is capable.
LEMMA StartOK ==
    ASSUME IInv, NEW r \in Requests, NEW op, NEW s \in Stations \cup {NoStation},
           NEW n \in Nat, NEW ts \in SUBSET Tasks, Start(r, op, s, n, ts),
           n <= now, now' = now,
           op = "claim" =>
              s \in Stations /\ \A t \in ts : Required[t] \subseteq Capabilities[s],
           op \in {"complete", "renew"} => n = now
    PROVE  SeenOK' /\ ReqOK'
<1>1. \A q \in Requests, u \in Tasks :
          seen'[q][u] = IF q = r THEN IF u \in ts THEN rows[u] ELSE NoRow ELSE seen[q][u]
  BY DEF Start, IInv, TypeOK
<1>2. SeenOK'
  <2>1. ASSUME NEW q \in Requests, NEW u \in Tasks
        PROVE  RowOK(u, seen'[q][u], now)
    <3>1. RowOK(u, rows[u], now) /\ RowOK(u, NoRow, now) /\ RowOK(u, seen[q][u], now)
      BY RowOKConstants DEF IInv, RowsOK, SeenOK, TypeOK
    <3> QED BY <1>1, <3>1
  <2> QED BY <2>1 DEF SeenOK
<1>3. \A q \in Requests : q # r =>
          /\ kind'[q] = kind[q] /\ station'[q] = station[q]
          /\ clock'[q] = clock[q] /\ todo'[q] = todo[q] /\ seen'[q] = seen[q]
  BY DEF Start, IInv, TypeOK
<1>4. kind'[r] = op /\ station'[r] = s /\ clock'[r] = n /\ todo'[r] = ts
  BY DEF Start, IInv, TypeOK
<1>5. \A u \in Tasks : seen'[r][u].claimedAt <= now
  BY <1>2 DEF SeenOK, RowOK
<1>6. ReqOK'
  BY <1>3, <1>4, <1>5 DEF IInv, ReqOK
<1> QED BY <1>2, <1>6

\* The invariant holds of the empty table.
LEMMA IInvInit == Init => IInv
<1> SUFFICES ASSUME Init PROVE IInv
  OBVIOUS
<1>1. TypeOK
  BY TypeInit
<1>2. RowsOK /\ SeenOK
  BY RowOKConstants DEF Init, RowsOK, SeenOK
<1>3. ReqOK
  BY DEF Init, ReqOK
<1> QED BY <1>1, <1>2, <1>3 DEF IInv

\* Every step keeps the invariant: one case per action.
LEMMA IInvStep == IInv /\ [Next]_vars => IInv'
<1> SUFFICES ASSUME IInv, [Next]_vars PROVE RowsOK' /\ SeenOK' /\ ReqOK'
  BY TypeStep DEF IInv
<1> USE DEF IInv
<1>1. CASE UNCHANGED vars
  BY <1>1 DEF vars, RowsOK, SeenOK, ReqOK
<1>2. CASE Tick
  <2>1. now' \in Nat /\ now <= now'
    BY <1>2 DEF Tick, TypeOK
  <2>2. RowsOK' /\ SeenOK'
    BY <1>2, <2>1, RowOKLater DEF Tick, reqVars, TypeOK, RowsOK, SeenOK
  <2>3. \A r \in Requests : clock[r] \in Nat /\ now \in Nat /\ clock[r] <= now'
    BY <2>1 DEF TypeOK, ReqOK
  <2>4. ReqOK'
    BY <1>2, <2>3 DEF Tick, reqVars, ReqOK
  <2> QED BY <2>2, <2>4
<1>3. ASSUME NEW t \in Tasks, CreateTask(t) PROVE RowsOK' /\ SeenOK' /\ ReqOK'
  <2>1. RowsOK'
    BY <1>3, SaveOK, ConstantRows, RowOKConstants DEF CreateTask, TypeOK
  <2> QED BY <1>3, <2>1 DEF CreateTask, reqVars, SeenOK, ReqOK
<1>4. ASSUME NEW r \in Requests, NEW s \in Stations, NEW ty, ClaimRead(r, s, ty)
      PROVE  RowsOK' /\ SeenOK' /\ ReqOK'
  <2>1. PICK n \in ClockReads(0) : Start(r, "claim", s, n, Candidates(s, ty, n))
    BY <1>4 DEF ClaimRead
  <2>2. n \in Nat /\ n <= now
    BY ClockReadsType
  <2>3. /\ Candidates(s, ty, n) \in SUBSET Tasks
        /\ \A t \in Candidates(s, ty, n) : Required[t] \subseteq Capabilities[s]
    BY DEF Candidates
  <2>4. SeenOK' /\ ReqOK'
    BY <1>4, <2>1, <2>2, <2>3, StartOK DEF ClaimRead
  <2> QED BY <1>4, <2>4 DEF ClaimRead, RowsOK
<1>5. ASSUME NEW r \in Requests, NEW op, NEW s \in Stations, NEW t \in Tasks,
             FindById(r, op, s, t), op \in {"complete", "renew"}
      PROVE  RowsOK' /\ SeenOK' /\ ReqOK'
  <2>0. now \in Nat /\ now <= now /\ {t} \in SUBSET Tasks /\ op # "claim"
    BY <1>5 DEF TypeOK
  <2>1. SeenOK' /\ ReqOK'
    BY <1>5, <2>0, StartOK DEF FindById
  <2> QED BY <1>5, <2>1 DEF FindById, RowsOK
<1>6. ASSUME NEW r \in Requests, ExpireRead(r) \/ CPTSweepRead(r)
      PROVE  RowsOK' /\ SeenOK' /\ ReqOK'
  <2>1. PICK n \in ClockReads(0), op \in {"expire", "cptsweep"}, ts \in SUBSET Tasks :
            Start(r, op, NoStation, n, ts)
    BY <1>6 DEF ExpireRead, CPTSweepRead
  <2>2. n \in Nat /\ n <= now
    BY ClockReadsType
  <2>3. now' = now /\ rows' = rows
    BY <1>6 DEF ExpireRead, CPTSweepRead
  <2>4. SeenOK' /\ ReqOK'
    BY <2>1, <2>2, <2>3, StartOK
  <2> QED BY <2>3, <2>4 DEF RowsOK
<1>7. ASSUME NEW r \in Requests, NEW t \in Tasks, ClaimWon(r, t)
      PROVE  RowsOK' /\ SeenOK' /\ ReqOK'
  <2>1. /\ station[r] \in Stations /\ clock[r] \in Nat /\ clock[r] <= now
        /\ Required[t] \subseteq Capabilities[station[r]]
    BY <1>7 DEF ClaimWon, IsNextCandidate, ReqOK, TypeOK
  <2>2. rows[t] \in Row /\ now \in Nat
    BY DEF TypeOK
  <2>3. /\ Claim(rows[t], station[r], clock[r]) \in Row
        /\ RowOK(t, Claim(rows[t], station[r], clock[r]), now)
    BY <2>1, <2>2, RowOperations, RowOKClaim
  <2>4. RowsOK'
    BY <1>7, <2>3, SaveOK DEF ClaimWon
  <2> QED BY <1>7, <2>4, ReturnOK DEF ClaimWon
<1>8. ASSUME NEW r \in Requests, NEW t \in Tasks, ClaimLost(r, t) \/ CPTSweepReport(r, t)
      PROVE  RowsOK' /\ SeenOK' /\ ReqOK'
  BY <1>8, AdvanceOK DEF ClaimLost, CPTSweepReport, RowsOK
<1>9. ASSUME NEW r \in Requests, NEW t \in Tasks, CompleteSave(r, t)
      PROVE  RowsOK' /\ SeenOK' /\ ReqOK'
  <2>1. Save(t, Complete(seen[r][t])) /\ seen[r][t].status = "Claimed"
    BY <1>9 DEF CompleteSave, HoldsLease
  <2>2. seen[r][t] \in Row /\ now \in Nat /\ RowOK(t, seen[r][t], now)
    BY DEF TypeOK, SeenOK
  <2>3. RowsOK'
    BY <1>9, <2>1, <2>2, RowOKComplete, RowOperations, SaveOK DEF CompleteSave
  <2> QED BY <1>9, <2>3, ReturnOK DEF CompleteSave
<1>10. ASSUME NEW r \in Requests, NEW t \in Tasks, RenewSave(r, t)
       PROVE  RowsOK' /\ SeenOK' /\ ReqOK'
  <2>1. PICK n \in ClockReads(clock[r]) :
            HoldsLease(seen[r][t], station[r], n) /\ Save(t, RenewLease(seen[r][t], n))
    BY <1>10 DEF RenewSave
  <2>2. seen[r][t] \in Row /\ now \in Nat /\ clock[r] \in Nat /\ RowOK(t, seen[r][t], now)
    BY DEF TypeOK, SeenOK
  <2>3. n \in Nat /\ n <= now /\ clock[r] <= n
    BY <2>2, ClockReadsType
  <2>4. seen[r][t].claimedAt <= clock[r] /\ seen[r][t].status = "Claimed"
    BY <1>10, <2>1 DEF RenewSave, ReqOK, HoldsLease
  <2>5. seen[r][t].claimedAt <= n
    BY <2>2, <2>3, <2>4 DEF Row
  <2>6. RowOK(t, RenewLease(seen[r][t], n), now) /\ RenewLease(seen[r][t], n) \in Row
    BY <2>2, <2>3, <2>4, <2>5, RowOKRenew, RowOperations
  <2>7. RowsOK'
    BY <1>10, <2>1, <2>6, SaveOK DEF RenewSave
  <2> QED BY <1>10, <2>7, ReturnOK DEF RenewSave
<1>11. ASSUME NEW r \in Requests, NEW t \in Tasks, ExpireSave(r, t)
       PROVE  RowsOK' /\ SeenOK' /\ ReqOK'
  <2>1. seen[r][t] \in Row /\ now \in Nat /\ RowOK(t, seen[r][t], now)
    BY DEF TypeOK, SeenOK
  <2>2. RowsOK'
    BY <1>11, <2>1, RowOKExpire, RowOperations, SaveOK DEF ExpireSave
  <2> QED BY <1>11, <2>2, AdvanceOK DEF ExpireSave
<1>12. ASSUME NEW r \in Requests, GiveUp(r) PROVE RowsOK' /\ SeenOK' /\ ReqOK'
  BY <1>12, ReturnOK DEF GiveUp, RowsOK
<1> QED
  BY <1>1, <1>2, <1>3, <1>4, <1>5, <1>6, <1>7, <1>8, <1>9, <1>10, <1>11, <1>12
  DEF Next, Finish, CompleteRead, RenewRead

\* The invariant holds in every reachable state.
LEMMA IInvAlways == Spec => []IInv
BY IInvInit, IInvStep, PTL DEF Spec

\* Whatever requests run and however stale the rows they write back, lease
\* and status agree, the holder is capable and the claim time is kept.
THEOREM RowsStayConsistent == Spec => []RowConsistent
<1>1. IInv => RowConsistent
  BY PoolAssumption DEF IInv, TypeOK, RowsOK, RowOK, RowConsistent, Row, Never
<1> QED BY <1>1, IInvAlways, PTL

\* No lease ever reaches further than LeaseDuration into the future, so a
\* station that disappears blocks a task for at most that long.
THEOREM LeasesAreBounded == Spec => []LeaseBounded
<1>1. IInv => LeaseBounded
  BY DEF IInv, RowsOK, RowOK, LeaseBounded
<1> QED BY <1>1, IInvAlways, PTL

-----------------------------------------------------------------------------
(***************************************************************************)
(* What one step does to one task: nothing but perhaps a CPT report, or    *)
(* exactly one of the writes below.  The two invariants that follow are    *)
(* proved over these cases.                                                *)
(***************************************************************************)

Untouched(t) ==
    /\ rows'[t] = rows[t]
    /\ \/ outbox'[t] = outbox[t]
       \/ \E n \in Nat : outbox'[t] = Append(outbox[t], Ev("TaskCPTMissed", NoStation, n))

Created(t) ==
    /\ rows[t].status = "None"
    /\ rows'[t] = NewRow
    /\ \E n \in Nat : outbox'[t] = Append(outbox[t], Ev("TaskCreated", NoStation, n))

TaskStep(t) ==
    \/ Untouched(t)
    \/ Created(t)
    \/ \E r \in Requests : \/ ClaimWon(r, t)
                           \/ CompleteSave(r, t)
                           \/ RenewSave(r, t)
                           \/ ExpireSave(r, t)

\* A write of one task's row leaves the other rows alone.
LEMMA SaveElsewhere ==
    ASSUME TypeOK, NEW t \in Tasks, NEW row, Save(t, row), NEW u \in Tasks, u # t
    PROVE  rows'[u] = rows[u]
BY DEF Save, TypeOK

\* An event of one task leaves the other logs alone.
LEMMA PublishElsewhere ==
    ASSUME TypeOK, NEW t \in Tasks, NEW e, Publish(t, e), NEW u \in Tasks, u # t
    PROVE  outbox'[u] = outbox[u]
BY DEF Publish, TypeOK

\* Seen from one task, every step is one of the cases of TaskStep.
LEMMA StepPerTask ==
    ASSUME TypeOK, [Next]_vars, NEW u \in Tasks
    PROVE  TaskStep(u)
<1>1. CASE UNCHANGED vars
  BY <1>1 DEF vars, TaskStep, Untouched
<1>2. CASE Tick
  BY <1>2 DEF Tick, TaskStep, Untouched
<1>3. ASSUME NEW t \in Tasks, CreateTask(t) PROVE TaskStep(u)
  <2>1. PICK n \in ClockReads(now) : Publish(t, Ev("TaskCreated", NoStation, n))
    BY <1>3 DEF CreateTask
  <2>2. n \in Nat
    BY ClockReadsType DEF TypeOK
  <2>3. CASE u = t
    <3>1. rows[u].status = "None" /\ rows'[u] = NewRow
      BY <1>3, <2>3 DEF CreateTask, Save, TypeOK
    <3>2. outbox'[u] = Append(outbox[u], Ev("TaskCreated", NoStation, n))
      BY <2>1, <2>3 DEF Publish, TypeOK
    <3> QED BY <2>2, <3>1, <3>2 DEF TaskStep, Created
  <2>4. CASE u # t
    BY <1>3, <2>1, <2>4, SaveElsewhere, PublishElsewhere DEF CreateTask, TaskStep, Untouched
  <2> QED BY <2>3, <2>4
<1>4. ASSUME NEW r \in Requests, NEW s \in Stations, NEW ty, ClaimRead(r, s, ty)
      PROVE  TaskStep(u)
  BY <1>4 DEF ClaimRead, TaskStep, Untouched
<1>5. ASSUME NEW r \in Requests, NEW op, NEW s \in Stations, NEW t \in Tasks,
             FindById(r, op, s, t)
      PROVE  TaskStep(u)
  BY <1>5 DEF FindById, TaskStep, Untouched
<1>6. ASSUME NEW r \in Requests, ExpireRead(r) \/ CPTSweepRead(r) \/ GiveUp(r)
      PROVE  TaskStep(u)
  BY <1>6 DEF ExpireRead, CPTSweepRead, GiveUp, TaskStep, Untouched
<1>7. ASSUME NEW r \in Requests, NEW t \in Tasks, ClaimWon(r, t) PROVE TaskStep(u)
  <2>1. CASE u = t
    BY <1>7, <2>1 DEF TaskStep
  <2>2. CASE u # t
    BY <1>7, <2>2, SaveElsewhere, PublishElsewhere DEF ClaimWon, TaskStep, Untouched
  <2> QED BY <2>1, <2>2
<1>8. ASSUME NEW r \in Requests, NEW t \in Tasks, ClaimLost(r, t) PROVE TaskStep(u)
  BY <1>8 DEF ClaimLost, TaskStep, Untouched
<1>9. ASSUME NEW r \in Requests, NEW t \in Tasks, CompleteSave(r, t) PROVE TaskStep(u)
  <2>1. CASE u = t
    BY <1>9, <2>1 DEF TaskStep
  <2>2. CASE u # t
    BY <1>9, <2>2, SaveElsewhere, PublishElsewhere DEF CompleteSave, TaskStep, Untouched
  <2> QED BY <2>1, <2>2
<1>10. ASSUME NEW r \in Requests, NEW t \in Tasks, RenewSave(r, t) PROVE TaskStep(u)
  <2>1. CASE u = t
    BY <1>10, <2>1 DEF TaskStep
  <2>2. CASE u # t
    BY <1>10, <2>2, SaveElsewhere DEF RenewSave, TaskStep, Untouched
  <2> QED BY <2>1, <2>2
<1>11. ASSUME NEW r \in Requests, NEW t \in Tasks, ExpireSave(r, t) PROVE TaskStep(u)
  <2>1. CASE u = t
    BY <1>11, <2>1 DEF TaskStep
  <2>2. CASE u # t
    BY <1>11, <2>2, SaveElsewhere, PublishElsewhere DEF ExpireSave, TaskStep, Untouched
  <2> QED BY <2>1, <2>2
<1>12. ASSUME NEW r \in Requests, NEW t \in Tasks, CPTSweepReport(r, t) PROVE TaskStep(u)
  <2>1. Publish(t, Ev("TaskCPTMissed", NoStation, clock[r])) /\ clock[r] \in Nat
    BY <1>12 DEF CPTSweepReport, TypeOK
  <2>2. CASE u = t
    <3>1. outbox'[u] = Append(outbox[u], Ev("TaskCPTMissed", NoStation, clock[r]))
      BY <2>1, <2>2 DEF Publish, TypeOK
    <3> QED BY <1>12, <2>1, <3>1 DEF CPTSweepReport, TaskStep, Untouched
  <2>3. CASE u # t
    BY <1>12, <2>1, <2>3, PublishElsewhere DEF CPTSweepReport, TaskStep, Untouched
  <2> QED BY <2>2, <2>3
<1> QED
  BY <1>1, <1>2, <1>3, <1>4, <1>5, <1>6, <1>7, <1>8, <1>9, <1>10, <1>11, <1>12
  DEF Next, Finish, CompleteRead, RenewRead

-----------------------------------------------------------------------------
(***************************************************************************)
(* At most once.  When only ClaimNext, CompleteTask, SweepCPTMisses and    *)
(* CreateTask run, a row leaves Claimed only to be completed or claimed    *)
(* again by the compare-and-set, so the row's expiry bounds the window of  *)
(* every claim made so far (CoreRow), and the next claim starts after it.  *)
(***************************************************************************)

CoreOps == Ops \cap {"renew", "expire"} = {}

CoreRow(t) ==
    /\ rows[t].status \in {"None", "Pending"} => Claims(t) = {}
    /\ rows[t].status = "Claimed" =>
          \A i \in Claims(t) : outbox[t][i].at + LeaseDuration <= rows[t].expiry

WindowsDisjoint(t) ==
    \A i, j \in Claims(t) : i < j => outbox[t][i].at + LeaseDuration <= outbox[t][j].at

CoreInv == TypeOK /\ \A t \in Tasks : CoreRow(t) /\ WindowsDisjoint(t)

\* The claims of a log one event longer.
LEMMA ClaimsAppended ==
    ASSUME TypeOK, NEW t \in Tasks, NEW e \in Event, outbox'[t] = Append(outbox[t], e)
    PROVE  /\ \A i \in Claims(t) : i \in Nat /\ i <= Len(outbox[t]) /\ outbox[t][i] \in Event
           /\ \A i \in Claims(t) : outbox'[t][i] = outbox[t][i]
           /\ outbox'[t][Len(outbox[t]) + 1] = e
           /\ e.name # "TaskClaimed" => Claims(t)' = Claims(t)
           /\ e.name = "TaskClaimed" => Claims(t)' = Claims(t) \cup {Len(outbox[t]) + 1}
<1>1. outbox[t] \in Seq(Event)
  BY DEF TypeOK
<1>2. /\ DOMAIN outbox[t] = 1..Len(outbox[t])
      /\ DOMAIN outbox'[t] = 1..(Len(outbox[t]) + 1)
      /\ Len(outbox[t]) \in Nat
      /\ \A i \in 1..Len(outbox[t]) : outbox'[t][i] = outbox[t][i] /\ outbox[t][i] \in Event
      /\ outbox'[t][Len(outbox[t]) + 1] = e
  BY <1>1
<1> QED BY <1>2 DEF Claims

\* Without renewals and expiry sweeps each case of TaskStep keeps the invariant.
LEMMA CoreStep ==
    ASSUME CoreOps, CoreInv, [Next]_vars, NEW t \in Tasks
    PROVE  CoreRow(t)' /\ WindowsDisjoint(t)'
<1> USE DEF CoreInv
<1>1. ASSUME NEW nm \in EventName, nm # "TaskClaimed", NEW s \in Stations \cup {NoStation},
             NEW n \in Nat, outbox'[t] = Append(outbox[t], Ev(nm, s, n))
      PROVE  /\ Claims(t)' = Claims(t)
             /\ \A i \in Claims(t) : outbox'[t][i] = outbox[t][i]
  <2>1. Ev(nm, s, n) \in Event /\ Ev(nm, s, n).name = nm
    BY <1>1, EvType DEF Ev
  <2> QED BY <1>1, <2>1, ClaimsAppended
<1>2. CASE Untouched(t)
  <2>1. /\ Claims(t)' = Claims(t)
        /\ \A i \in Claims(t) : outbox'[t][i] = outbox[t][i]
    <3>1. CASE outbox'[t] = outbox[t]
      BY <3>1 DEF Claims
    <3>2. CASE outbox'[t] # outbox[t]
      BY <1>1, <1>2, <3>2 DEF Untouched, EventName
    <3> QED BY <3>1, <3>2
  <2> QED BY <1>2, <2>1 DEF Untouched, CoreRow, WindowsDisjoint
<1>3. CASE Created(t)
  <2>1. Claims(t)' = Claims(t) /\ Claims(t) = {} /\ rows'[t].status = "Pending"
    BY <1>1, <1>3 DEF Created, EventName, CoreRow, NewRow, NoRow
  <2> QED BY <2>1 DEF CoreRow, WindowsDisjoint
<1>4. ASSUME NEW r \in Requests, ClaimWon(r, t) PROVE CoreRow(t)' /\ WindowsDisjoint(t)'
  <2> DEFINE e == Ev("TaskClaimed", station[r], clock[r])
             k == Len(outbox[t]) + 1
  <2>1. clock[r] \in Nat /\ e \in Event /\ e.name = "TaskClaimed" /\ e.at = clock[r]
    BY EvType DEF TypeOK, EventName, Ev
  <2>2. outbox'[t] = Append(outbox[t], e)
    BY <1>4 DEF ClaimWon, Publish, TypeOK
  <2>3. /\ Claims(t)' = Claims(t) \cup {k}
        /\ \A i \in Claims(t) : i \in Nat /\ i < k /\ outbox'[t][i] = outbox[t][i]
        /\ \A i \in Claims(t) : outbox[t][i].at \in Nat
        /\ outbox'[t][k] = e
        /\ k \in Nat
    <3>1. outbox[t] \in Seq(Event)
      BY DEF TypeOK
    <3>2. Len(outbox[t]) \in Nat
      BY <3>1
    <3>3. /\ Claims(t)' = Claims(t) \cup {k}
          /\ \A i \in Claims(t) : /\ i \in Nat /\ i <= Len(outbox[t])
                                 /\ outbox'[t][i] = outbox[t][i] /\ outbox[t][i] \in Event
          /\ outbox'[t][k] = e
      BY <2>1, <2>2, ClaimsAppended
    <3> HIDE DEF e
    <3> QED BY <3>2, <3>3 DEF Event
  <2>4. rows'[t].status = "Claimed" /\ rows'[t].expiry = clock[r] + LeaseDuration
    BY <1>4 DEF ClaimWon, Save, Claim, TypeOK
  <2>5. rows[t].expiry \in Nat /\ LeaseDuration \in Nat
    BY PoolAssumption DEF TypeOK, Row
  <2>6. \A i \in Claims(t) : outbox[t][i].at + LeaseDuration <= clock[r]
    <3>1. CASE rows[t].status = "Pending"
      BY <3>1 DEF CoreRow
    <3>2. CASE rows[t].status = "Claimed" /\ rows[t].expiry <= clock[r]
      BY <2>1, <2>3, <2>5, <3>2 DEF CoreRow
    <3> QED BY <1>4, <3>1, <3>2 DEF ClaimWon, IsAvailable, Expired
  <2>7. CoreRow(t)'
    <3>1. \A i \in Claims(t) \cup {k} :
              outbox'[t][i].at + LeaseDuration <= clock[r] + LeaseDuration
      BY <2>1, <2>3, <2>5, <2>6
    <3> QED BY <2>3, <2>4, <3>1 DEF CoreRow
  <2>8. WindowsDisjoint(t)'
    <3>1. ASSUME NEW i \in Claims(t) \cup {k}, NEW j \in Claims(t) \cup {k}, i < j
          PROVE  outbox'[t][i].at + LeaseDuration <= outbox'[t][j].at
      <4>1. i \in Claims(t)
        BY <2>3, <3>1
      <4>2. CASE j \in Claims(t)
        BY <2>3, <3>1, <4>1, <4>2 DEF WindowsDisjoint
      <4>3. CASE j = k
        BY <2>1, <2>3, <2>6, <4>1, <4>3
      <4> QED BY <4>2, <4>3
    <3> QED BY <2>3, <3>1 DEF WindowsDisjoint
  <2> QED BY <2>7, <2>8
<1>5. ASSUME NEW r \in Requests, CompleteSave(r, t) PROVE CoreRow(t)' /\ WindowsDisjoint(t)'
  <2>1. PICK n \in ClockReads(clock[r]) :
            /\ Save(t, Complete(seen[r][t]))
            /\ Publish(t, Ev("TaskCompleted", station[r], n))
    BY <1>5 DEF CompleteSave
  <2>2. clock[r] \in Nat /\ station[r] \in Stations \cup {NoStation}
    BY DEF TypeOK
  <2>a. n \in Nat
    BY <2>2, ClockReadsType
  <2>3. outbox'[t] = Append(outbox[t], Ev("TaskCompleted", station[r], n))
    BY <2>1 DEF Publish, TypeOK
  <2>4. /\ Claims(t)' = Claims(t)
        /\ \A i \in Claims(t) : outbox'[t][i] = outbox[t][i]
    BY <1>1, <2>2, <2>a, <2>3 DEF EventName
  <2>5. rows'[t].status = "Completed"
    BY <2>1 DEF Save, Complete, TypeOK, Row
  <2> QED BY <2>4, <2>5 DEF CoreRow, WindowsDisjoint
<1>6. ASSUME NEW r \in Requests PROVE ~RenewSave(r, t) /\ ~ExpireSave(r, t)
  BY DEF CoreOps, TypeOK, RenewSave, ExpireSave
<1> QED BY <1>2, <1>3, <1>4, <1>5, <1>6, StepPerTask DEF TaskStep

\* At most once: when no renewal and no expiry sweep runs, the lease windows
\* of two claims of one task never overlap, whatever stations race, whatever
\* clock value each of them works with and whoever completes in between.
THEOREM ClaimsAtMostOnce ==
    ASSUME CoreOps
    PROVE  Spec => []ClaimWindowsDisjoint
<1>1. Init => CoreInv
  BY TypeInit DEF Init, CoreInv, CoreRow, WindowsDisjoint, Claims
<1>2. CoreInv /\ [Next]_vars => CoreInv'
  BY CoreStep, TypeStep DEF CoreInv
<1>3. CoreInv => ClaimWindowsDisjoint
  BY DEF CoreInv, WindowsDisjoint, ClaimWindowsDisjoint
<1> QED BY <1>1, <1>2, <1>3, PTL DEF Spec

\* A completed task stays completed when no renewal and no expiry sweep runs:
\* ClaimNext's compare-and-set and Complete are the only writers left.
THEOREM CompletionIsFinal ==
    ASSUME CoreOps
    PROVE  Spec => CompletedIsFinal
<1>1. TypeOK /\ [Next]_vars =>
          [\A t \in Tasks : rows[t].status = "Completed" => rows'[t].status = "Completed"]_rows
  <2> SUFFICES ASSUME TypeOK, [Next]_vars, NEW t \in Tasks, rows[t].status = "Completed"
               PROVE  rows'[t].status = "Completed"
    OBVIOUS
  <2>1. CASE Untouched(t) \/ Created(t)
    BY <2>1 DEF Untouched, Created
  <2>2. ASSUME NEW r \in Requests, ClaimWon(r, t) PROVE FALSE
    BY <2>2 DEF ClaimWon, IsAvailable
  <2>3. ASSUME NEW r \in Requests, CompleteSave(r, t) PROVE rows'[t].status = "Completed"
    <3>1. rows' = [rows EXCEPT ![t] = Complete(seen[r][t])] /\ seen[r][t] \in Row
      BY <2>3 DEF CompleteSave, Save, TypeOK
    <3> QED BY <3>1 DEF Complete, Row, TypeOK
  <2>4. ASSUME NEW r \in Requests PROVE ~RenewSave(r, t) /\ ~ExpireSave(r, t)
    BY DEF CoreOps, TypeOK, RenewSave, ExpireSave
  <2> QED BY <2>1, <2>2, <2>3, <2>4, StepPerTask DEF TaskStep
<1> QED BY <1>1, TypeCorrect, PTL DEF Spec, CompletedIsFinal

-----------------------------------------------------------------------------
(***************************************************************************)
(* The history justifies the table, under every mix of use cases.  A blind *)
(* Save writes a row read earlier, so every private copy must be justified *)
(* by the history too; and because the outbox only grows, a justification  *)
(* is never lost.                                                          *)
(***************************************************************************)

Justified(t, row) ==
    /\ row.status = "Claimed" => \E i \in Claims(t) : outbox[t][i].station = row.holder
    /\ row.status = "Completed" => Completions(t) # {}

CompletionsJustified(t) ==
    \A j \in Completions(t) : \E i \in Claims(t) :
        i < j /\ outbox[t][i].station = outbox[t][j].station

HistoryInv ==
    /\ TypeOK
    /\ \A t \in Tasks : Justified(t, rows[t]) /\ CompletionsJustified(t)
    /\ \A r \in Requests, t \in Tasks : Justified(t, seen[r][t])

\* The log of t is one event longer.
Logged(t, e) == outbox'[t] = Append(outbox[t], e)

\* A row the history justifies stays justified when the log grows.
LEMMA LogGrows ==
    ASSUME TypeOK, NEW t \in Tasks, NEW e \in Event, Logged(t, e)
    PROVE  /\ Claims(t) \subseteq Claims(t)' /\ Completions(t) \subseteq Completions(t)'
           /\ \A i \in Claims(t) \cup Completions(t) : outbox'[t][i] = outbox[t][i]
           /\ Len(outbox[t]) \in Nat
           /\ \A i \in Claims(t) \cup Completions(t) : i \in 1..Len(outbox[t])
           /\ outbox'[t][Len(outbox[t]) + 1] = e
           /\ e.name = "TaskClaimed" => Len(outbox[t]) + 1 \in Claims(t)'
           /\ e.name = "TaskCompleted" => Len(outbox[t]) + 1 \in Completions(t)'
           /\ e.name # "TaskCompleted" => Completions(t)' = Completions(t)
           /\ Completions(t)' \subseteq Completions(t) \cup {Len(outbox[t]) + 1}
<1>1. outbox[t] \in Seq(Event)
  BY DEF TypeOK
<1>2. /\ DOMAIN outbox[t] = 1..Len(outbox[t])
      /\ DOMAIN outbox'[t] = 1..(Len(outbox[t]) + 1)
      /\ Len(outbox[t]) \in Nat
      /\ \A i \in 1..Len(outbox[t]) : outbox'[t][i] = outbox[t][i]
      /\ outbox'[t][Len(outbox[t]) + 1] = e
  BY <1>1 DEF Logged
<1> QED BY <1>2 DEF Claims, Completions

\* Whatever is logged, a row that was justified stays so.
LEMMA StillJustified ==
    ASSUME TypeOK, NEW t \in Tasks, NEW row, Justified(t, row),
           outbox'[t] = outbox[t] \/ \E e \in Event : Logged(t, e)
    PROVE  Justified(t, row)'
<1>1. CASE outbox'[t] = outbox[t]
  BY <1>1 DEF Justified, Claims, Completions
<1>2. ASSUME NEW e \in Event, Logged(t, e) PROVE Justified(t, row)'
  BY <1>2, LogGrows DEF Justified
<1> QED BY <1>1, <1>2

\* What each write logs of its task.
LEMMA WritesLog ==
    ASSUME TypeOK, NEW r \in Requests, NEW t \in Tasks
    PROVE  /\ ClaimWon(r, t) => Logged(t, Ev("TaskClaimed", station[r], clock[r]))
           /\ CompleteSave(r, t) => \E n \in Nat : Logged(t, Ev("TaskCompleted", station[r], n))
           /\ RenewSave(r, t) => outbox'[t] = outbox[t]
           /\ ExpireSave(r, t) => Logged(t, Ev("LeaseExpired", NoStation, clock[r]))
<1>1. ASSUME NEW e, Publish(t, e) PROVE Logged(t, e)
  BY <1>1 DEF Publish, Logged, TypeOK
<1>2. ASSUME CompleteSave(r, t)
      PROVE  \E n \in Nat : Logged(t, Ev("TaskCompleted", station[r], n))
  <2>1. PICK n \in ClockReads(clock[r]) : Publish(t, Ev("TaskCompleted", station[r], n))
    BY <1>2 DEF CompleteSave
  <2>2. n \in Nat
    BY ClockReadsType DEF TypeOK
  <2> QED BY <1>1, <2>1, <2>2
<1> QED BY <1>1, <1>2 DEF ClaimWon, RenewSave, ExpireSave

\* Every step leaves the log of a task alone or appends one event to it.
LEMMA LogStep ==
    ASSUME TypeOK, NEW t \in Tasks, TaskStep(t)
    PROVE  outbox'[t] = outbox[t] \/ \E e \in Event : Logged(t, e)
<1>1. \A nm \in EventName, s \in Stations \cup {NoStation}, n \in Nat : Ev(nm, s, n) \in Event
  BY EvType
<1>2. CASE Untouched(t)
  BY <1>1, <1>2 DEF Untouched, Logged, EventName
<1>3. CASE Created(t)
  BY <1>1, <1>3 DEF Created, Logged, EventName
<1>4. ASSUME NEW r \in Requests,
             ClaimWon(r, t) \/ CompleteSave(r, t) \/ RenewSave(r, t) \/ ExpireSave(r, t)
      PROVE  outbox'[t] = outbox[t] \/ \E e \in Event : Logged(t, e)
  <2>1. station[r] \in Stations \cup {NoStation} /\ clock[r] \in Nat
    BY DEF TypeOK
  <2> QED BY <1>1, <1>4, <2>1, WritesLog DEF EventName
<1> QED BY <1>2, <1>3, <1>4 DEF TaskStep

\* A private copy is kept, dropped or freshly read.
LEMMA CopiesAreRead ==
    ASSUME TypeOK, [Next]_vars, NEW q \in Requests, NEW u \in Tasks
    PROVE  seen'[q][u] \in {seen[q][u], rows[u], NoRow}
<1>1. ASSUME NEW r \in Requests, NEW op, NEW s, NEW n, NEW ts, Start(r, op, s, n, ts)
      PROVE  seen'[q][u] \in {seen[q][u], rows[u], NoRow}
  BY <1>1 DEF Start, TypeOK
<1>2. ASSUME NEW r \in Requests, Return(r)
      PROVE  seen'[q][u] \in {seen[q][u], rows[u], NoRow}
  BY <1>2 DEF Return, TypeOK
<1>3. ASSUME NEW r \in Requests, NEW t \in Tasks, Advance(r, t)
      PROVE  seen'[q][u] \in {seen[q][u], rows[u], NoRow}
  <2>1. CASE todo[r] = {t}
    BY <1>2, <1>3, <2>1 DEF Advance
  <2>2. CASE todo[r] # {t}
    <3>1. seen' = [seen EXCEPT ![r][t] = NoRow]
      BY <1>3, <2>2 DEF Advance
    <3>2. seen'[q][u] = IF q = r /\ u = t THEN NoRow ELSE seen[q][u]
      BY <3>1 DEF TypeOK
    <3> QED BY <3>2
  <2> QED BY <2>1, <2>2
<1>4. CASE UNCHANGED seen
  BY <1>4
<1>5. ASSUME NEW t \in Tasks, CreateTask(t) PROVE UNCHANGED seen
  BY <1>5 DEF CreateTask, reqVars
<1>6. UNCHANGED vars \/ Tick => UNCHANGED seen
  BY DEF vars, Tick, reqVars
<1>7. ASSUME NEW r \in Requests,
             ExpireRead(r) \/ CPTSweepRead(r) \/ \E s \in Stations, t \in Tasks :
                ClaimRead(r, s, TypeOf[t]) \/ CompleteRead(r, s, t) \/ RenewRead(r, s, t)
      PROVE  seen'[q][u] \in {seen[q][u], rows[u], NoRow}
  BY <1>1, <1>7 DEF ExpireRead, CPTSweepRead, ClaimRead, CompleteRead, RenewRead, FindById
<1>8. ASSUME NEW r \in Requests, Finish(r)
      PROVE  seen'[q][u] \in {seen[q][u], rows[u], NoRow}
  BY <1>2, <1>3, <1>8
     DEF Finish, ClaimWon, ClaimLost, CompleteSave, RenewSave, ExpireSave, CPTSweepReport, GiveUp
<1> QED
  BY <1>4, <1>5, <1>6, <1>7, <1>8 DEF Next

\* Each case of TaskStep leaves a row that the history justifies.
LEMMA HistoryRowStep ==
    ASSUME HistoryInv, NEW t \in Tasks, TaskStep(t)
    PROVE  Justified(t, rows[t])' /\ CompletionsJustified(t)'
<1> USE DEF HistoryInv
<1>1. ASSUME NEW row PROVE Justified(t, row) => Justified(t, row)'
  BY LogStep, StillJustified
<1>2. ASSUME NEW nm \in EventName \ {"TaskCompleted"}, NEW s \in Stations \cup {NoStation},
             NEW n \in Nat, Logged(t, Ev(nm, s, n))
      PROVE  CompletionsJustified(t)'
  <2>1. Ev(nm, s, n) \in Event /\ Ev(nm, s, n).name # "TaskCompleted"
    BY <1>2, EvType DEF Ev
  <2> QED BY <1>2, <2>1, LogGrows DEF CompletionsJustified
<1>3. ASSUME outbox'[t] = outbox[t] PROVE CompletionsJustified(t)'
  BY <1>3 DEF CompletionsJustified, Claims, Completions
<1>4. CASE Untouched(t)
  <2>1. CompletionsJustified(t)'
    BY <1>2, <1>3, <1>4 DEF Untouched, Logged, EventName
  <2>2. PICK row : row = rows[t]
    OBVIOUS
  <2>3. Justified(t, row)'
    BY <1>1, <2>2
  <2> QED BY <1>4, <2>1, <2>2, <2>3 DEF Untouched, Justified
<1>5. CASE Created(t)
  <2>1. CompletionsJustified(t)'
    BY <1>2, <1>5 DEF Created, Logged, EventName
  <2>2. rows'[t].status = "Pending"
    BY <1>5 DEF Created, NewRow, NoRow
  <2> QED BY <2>1, <2>2 DEF Justified
<1>6. ASSUME NEW r \in Requests, ClaimWon(r, t)
      PROVE  Justified(t, rows[t])' /\ CompletionsJustified(t)'
  <2> DEFINE e == Ev("TaskClaimed", station[r], clock[r])
  <2>1. station[r] \in Stations \cup {NoStation} /\ clock[r] \in Nat /\ Logged(t, e)
    BY <1>6, WritesLog DEF TypeOK
  <2>2. e \in Event /\ e.name = "TaskClaimed" /\ e.station = station[r]
    BY <2>1, EvType DEF EventName, Ev
  <2>3. rows'[t].status = "Claimed" /\ rows'[t].holder = station[r]
    BY <1>6 DEF ClaimWon, Save, Claim, TypeOK
  <2>4. CompletionsJustified(t)'
    BY <1>2, <2>1 DEF EventName
  <2>5. Len(outbox[t]) + 1 \in Claims(t)' /\ outbox'[t][Len(outbox[t]) + 1] = e
    BY <2>1, <2>2, LogGrows
  <2> HIDE DEF e
  <2> QED BY <2>2, <2>3, <2>4, <2>5 DEF Justified
<1>7. ASSUME NEW r \in Requests, CompleteSave(r, t)
      PROVE  Justified(t, rows[t])' /\ CompletionsJustified(t)'
  <2>1. PICK n \in Nat : Logged(t, Ev("TaskCompleted", station[r], n))
    BY <1>7, WritesLog
  <2> DEFINE e == Ev("TaskCompleted", station[r], n)
  <2>2. e \in Event /\ e.name = "TaskCompleted" /\ e.station = station[r]
    BY EvType DEF EventName, Ev, TypeOK
  <2>3. seen[r][t].status = "Claimed" /\ seen[r][t].holder = station[r]
    BY <1>7 DEF CompleteSave, HoldsLease
  <2>4. PICK i \in Claims(t) : outbox[t][i].station = station[r]
    BY <2>3 DEF Justified
  <2>5. /\ Claims(t) \subseteq Claims(t)'
        /\ Completions(t)' \subseteq Completions(t) \cup {Len(outbox[t]) + 1}
        /\ \A k \in Claims(t) \cup Completions(t) :
              k \in 1..Len(outbox[t]) /\ outbox'[t][k] = outbox[t][k]
        /\ Len(outbox[t]) + 1 \in Completions(t)'
        /\ outbox'[t][Len(outbox[t]) + 1] = e
        /\ Len(outbox[t]) \in Nat
    BY <2>1, <2>2, LogGrows
  <2>6. rows'[t].status = "Completed"
    BY <1>7 DEF CompleteSave, Save, Complete, TypeOK, Row
  <2>7. CompletionsJustified(t)'
    <3> SUFFICES ASSUME NEW j \in Completions(t)'
                 PROVE  \E k \in Claims(t)' :
                           k < j /\ outbox'[t][k].station = outbox'[t][j].station
      BY DEF CompletionsJustified
    <3> HIDE DEF e
    <3>1. CASE j \in Completions(t)
      <4>1. PICK k \in Claims(t) : k < j /\ outbox[t][k].station = outbox[t][j].station
        BY <3>1 DEF CompletionsJustified
      <4> QED BY <2>5, <3>1, <4>1
    <3>2. CASE j = Len(outbox[t]) + 1
      <4>1. i \in Claims(t)' /\ i < j /\ outbox'[t][i].station = station[r]
        BY <2>4, <2>5, <3>2
      <4> QED BY <2>2, <2>5, <3>2, <4>1
    <3> QED BY <2>5, <3>1, <3>2
  <2> QED BY <2>5, <2>6, <2>7 DEF Justified
<1>8. ASSUME NEW r \in Requests, RenewSave(r, t)
      PROVE  Justified(t, rows[t])' /\ CompletionsJustified(t)'
  <2>1. outbox'[t] = outbox[t]
    BY <1>8, WritesLog
  <2>2. rows'[t].status = seen[r][t].status /\ rows'[t].holder = seen[r][t].holder
    BY <1>8 DEF RenewSave, Save, RenewLease, TypeOK, Row
  <2>3. PICK row : row = seen[r][t]
    OBVIOUS
  <2>4. Justified(t, row)'
    BY <1>1, <2>3
  <2> QED BY <1>3, <2>1, <2>2, <2>3, <2>4 DEF Justified
<1>9. ASSUME NEW r \in Requests, ExpireSave(r, t)
      PROVE  Justified(t, rows[t])' /\ CompletionsJustified(t)'
  <2>1. rows'[t].status = "Pending"
    BY <1>9 DEF ExpireSave, Save, ExpireLease, TypeOK, Row
  <2>2. CompletionsJustified(t)'
    BY <1>2, <1>9, WritesLog DEF TypeOK, EventName
  <2> QED BY <2>1, <2>2 DEF Justified
<1> QED BY <1>4, <1>5, <1>6, <1>7, <1>8, <1>9 DEF TaskStep

\* Every step keeps table, copies and completions justified.
LEMMA HistoryStep == HistoryInv /\ [Next]_vars => HistoryInv'
<1> SUFFICES ASSUME HistoryInv, [Next]_vars PROVE HistoryInv'
  OBVIOUS
<1> USE DEF HistoryInv
<1>1. TypeOK'
  BY TypeStep
<1>2. \A t \in Tasks : TaskStep(t)
  BY StepPerTask
<1>3. ASSUME NEW t \in Tasks PROVE Justified(t, rows[t])' /\ CompletionsJustified(t)'
  BY <1>2, HistoryRowStep
<1>4. ASSUME NEW r \in Requests, NEW t \in Tasks PROVE Justified(t, seen[r][t])'
  <2>1. PICK row : row = seen'[r][t]
    OBVIOUS
  <2>2. Justified(t, row)
    <3>1. row \in {seen[r][t], rows[t], NoRow}
      BY <2>1, CopiesAreRead
    <3> QED BY <3>1 DEF Justified, NoRow
  <2>3. Justified(t, row)'
    BY <1>2, <2>2, LogStep, StillJustified
  <2> QED BY <2>1, <2>3 DEF Justified
<1> QED BY <1>1, <1>3, <1>4

\* The empty table needs no justification.
LEMMA HistoryInit == Init => HistoryInv
<1> SUFFICES ASSUME Init PROVE HistoryInv
  OBVIOUS
<1>1. TypeOK
  BY TypeInit
<1>2. \A t \in Tasks : rows[t] = NoRow /\ Completions(t) = {}
  BY DEF Init, Completions
<1>3. \A r \in Requests, t \in Tasks : seen[r][t] = NoRow
  BY DEF Init
<1> QED BY <1>1, <1>2, <1>3 DEF HistoryInv, Justified, CompletionsJustified, NoRow

\* The invariant about the history holds in every reachable state.
LEMMA HistoryAlways == Spec => []HistoryInv
BY HistoryInit, HistoryStep, PTL DEF Spec

\* The event history justifies the table, whichever stale row was written
\* last: a claimed row's holder published TaskClaimed, a completed row has a
\* TaskCompleted, and each TaskCompleted follows a claim of its station.
THEOREM HistoryIsFaithful == Spec => []HistoryJustifiesRow
<1>1. HistoryInv => HistoryJustifiesRow
  BY DEF HistoryInv, Justified, CompletionsJustified, HistoryJustifiesRow
<1> QED BY <1>1, HistoryAlways, PTL

-----------------------------------------------------------------------------
(* The read models *)

\* The tasks an expired lease makes claimable are the stuck ones, so the three
\* read models agree at every instant, for any finite set of tasks.
THEOREM ReadModelsAgree ==
    ASSUME IsFiniteSet(Tasks)
    PROVE  Spec => []ViewsAgree
<1>1. IInv => ViewsAgree
  <2> SUFFICES ASSUME IInv, NEW t \in Tasks
               PROVE  LET stuck(within) == {u \in StuckTasks(within) : TypeOf[u] = TypeOf[t]}
                      IN  /\ Cardinality(FindClaimable(TypeOf[t])) = QueueDepth(TypeOf[t]) + Cardinality(stuck(0))
                          /\ rows[t].status = "Claimed" => t \in stuck(LeaseDuration)
    BY DEF ViewsAgree
  <2> DEFINE stuck(within) == {u \in StuckTasks(within) : TypeOf[u] = TypeOf[t]}
             queued == {u \in Tasks : TypeOf[u] = TypeOf[t] /\ rows[u].status = "Pending"}
  <2>1. \A u \in Tasks :
            /\ rows[u].status = "Claimed" => rows[u].holder # NoStation
            /\ rows[u].expiry <= now + LeaseDuration
            /\ rows[u].expiry \in Nat
    BY DEF IInv, RowsOK, RowOK, TypeOK, Row
  <2>2. FindClaimable(TypeOf[t]) = queued \cup stuck(0)
    BY <2>1 DEF FindClaimable, StuckTasks, IsAvailable, Expired, IInv, TypeOK
  <2>3. queued \cap stuck(0) = {}
    BY DEF StuckTasks
  <2>4. queued \in SUBSET Tasks /\ stuck(0) \in SUBSET Tasks
    BY DEF StuckTasks
  <2>5. IsFiniteSet(queued) /\ IsFiniteSet(stuck(0))
    BY <2>4, FS_Subset
  <2>6. Cardinality(queued \cup stuck(0))
            = Cardinality(queued) + Cardinality(stuck(0)) - Cardinality(queued \cap stuck(0))
    BY <2>5, FS_Union
  <2>7. /\ Cardinality(queued) \in Nat /\ Cardinality(stuck(0)) \in Nat
        /\ Cardinality(queued \cap stuck(0)) = 0
    BY <2>3, <2>5, FS_CardinalityType, FS_EmptySet
  <2>8. rows[t].status = "Claimed" => t \in stuck(LeaseDuration)
    BY <2>1 DEF StuckTasks
  <2>9. QueueDepth(TypeOf[t]) = Cardinality(queued)
    BY DEF QueueDepth
  <2> QED BY <2>2, <2>6, <2>7, <2>8, <2>9
<1> QED BY <1>1, IInvAlways, PTL

-----------------------------------------------------------------------------
(***************************************************************************)
(* Refinement: claiming and completing implement ClaimRegister.  A claim   *)
(* that wins is a Grant, because every earlier window has ended (CoreInv); *)
(* a completion is a Finish, because the row it read was granted           *)
(* (HistoryInv); everything else is a stutter of the register.             *)
(***************************************************************************)

\* A claim works with a clock value no later than the horizon.
ClaimClocks == \A r \in Requests : kind[r] = "claim" => clock[r] <= Horizon

RefInv == IInv /\ CoreInv /\ HistoryInv /\ ClaimClocks

\* The clock value of a claim is read before the horizon and kept.
LEMMA ClaimClocksStep ==
    ASSUME TypeOK, ClaimClocks, [Next]_vars
    PROVE  ClaimClocks'
<1>1. ASSUME NEW r \in Requests, NEW op, NEW s, NEW n, NEW ts, Start(r, op, s, n, ts),
             op = "claim" => n <= Horizon
      PROVE  ClaimClocks'
  BY <1>1 DEF Start, TypeOK, ClaimClocks
<1>2. ASSUME NEW r \in Requests, Return(r) PROVE ClaimClocks'
  BY <1>2 DEF Return, TypeOK, ClaimClocks
<1>3. ASSUME NEW r \in Requests, NEW t \in Tasks, Advance(r, t) PROVE ClaimClocks'
  <2>1. CASE todo[r] = {t}
    BY <1>2, <1>3, <2>1 DEF Advance
  <2>2. CASE todo[r] # {t}
    <3>1. UNCHANGED <<kind, clock>>
      BY <1>3, <2>2 DEF Advance
    <3> QED BY <3>1 DEF ClaimClocks
  <2> QED BY <2>1, <2>2
<1>4. CASE UNCHANGED <<kind, clock>>
  BY <1>4 DEF ClaimClocks
<1>5. ASSUME NEW r \in Requests,
             ExpireRead(r) \/ CPTSweepRead(r) \/ \E s \in Stations, t \in Tasks :
                CompleteRead(r, s, t) \/ RenewRead(r, s, t)
      PROVE  ClaimClocks'
  <2>1. \E op \in AllOps \ {"claim"} : \E s, n, ts : Start(r, op, s, n, ts)
    BY <1>5 DEF ExpireRead, CPTSweepRead, CompleteRead, RenewRead, FindById, AllOps
  <2> QED BY <1>1, <2>1
<1>6. ASSUME NEW r \in Requests, NEW s \in Stations, NEW ty, ClaimRead(r, s, ty)
      PROVE  ClaimClocks'
  <2>1. PICK n \in ClockReads(0) : Start(r, "claim", s, n, Candidates(s, ty, n))
    BY <1>6 DEF ClaimRead
  <2>2. n <= Horizon
    BY DEF ClockReads
  <2> QED BY <1>1, <2>1, <2>2
<1>7. ASSUME NEW r \in Requests, Finish(r) PROVE ClaimClocks'
  BY <1>2, <1>3, <1>7
     DEF Finish, ClaimWon, ClaimLost, CompleteSave, RenewSave, ExpireSave, CPTSweepReport, GiveUp
<1> QED
  BY <1>4, <1>5, <1>6, <1>7 DEF Next, Tick, CreateTask, vars, reqVars

\* A task that logs no claim has the same grants as before.
LEMMA GrantsKept ==
    ASSUME TypeOK, NEW t \in Tasks,
           \/ outbox'[t] = outbox[t]
           \/ \E e \in Event : Logged(t, e) /\ e.name # "TaskClaimed"
    PROVE  GrantsOf(t)' = GrantsOf(t)
<1>1. Claims(t)' = Claims(t) /\ \A i \in Claims(t) : outbox'[t][i] = outbox[t][i]
  <2>1. CASE outbox'[t] = outbox[t]
    BY <2>1 DEF Claims
  <2>2. ASSUME NEW e \in Event, Logged(t, e), e.name # "TaskClaimed"
        PROVE  Claims(t)' = Claims(t) /\ \A i \in Claims(t) : outbox'[t][i] = outbox[t][i]
    BY <2>2, ClaimsAppended DEF Logged
  <2> QED BY <2>1, <2>2
<1> QED BY <1>1 DEF GrantsOf

\* A claim that wins is granted by the register.
LEMMA ClaimIsGrant ==
    ASSUME RefInv, NEW r \in Requests, NEW t \in Tasks, ClaimWon(r, t)
    PROVE  \E g \in Register!AGrant : Register!Grant(t, g)
<1> DEFINE e == Ev("TaskClaimed", station[r], clock[r])
           k == Len(outbox[t]) + 1
           g == [id |-> k, station |-> station[r], at |-> clock[r]]
<1> USE DEF RefInv
<1>1. TypeOK /\ clock[r] \in Nat /\ station[r] \in Stations /\ clock[r] \in 0..Horizon
  BY PoolAssumption DEF IInv, ReqOK, ClaimClocks, ClaimWon, TypeOK
<1>2. Logged(t, e) /\ e \in Event /\ e.name = "TaskClaimed" /\ e.at = clock[r] /\ e.station = station[r]
  BY <1>1, WritesLog, EvType DEF EventName, Ev
<1>3. /\ Claims(t)' = Claims(t) \cup {k}
      /\ \A i \in Claims(t) : i \in Nat /\ i <= Len(outbox[t]) /\ outbox'[t][i] = outbox[t][i]
      /\ \A i \in Claims(t) : outbox[t][i] \in Event
      /\ outbox'[t][k] = e
  BY <1>1, <1>2, ClaimsAppended DEF Logged
<1>4. outbox[t] \in Seq(Event) /\ Len(outbox[t]) < MaxEvents
  BY <1>1 DEF TypeOK, ClaimWon, Publish
<1>5. Len(outbox[t]) \in Nat /\ k \in 1..MaxEvents
  BY <1>4, PoolAssumption
<1> HIDE DEF e
<1>6. g \in Register!AGrant
  BY <1>1, <1>5 DEF Register!AGrant
<1>7. \A i \in Claims(t) : outbox[t][i].at + LeaseDuration <= clock[r]
  <2>1. CoreRow(t) /\ IsAvailable(rows[t], clock[r])
    BY DEF CoreInv, ClaimWon
  <2>2. CASE rows[t].status = "Pending"
    BY <2>1, <2>2 DEF CoreRow
  <2>3. CASE rows[t].status = "Claimed" /\ rows[t].expiry <= clock[r]
    <3>1. rows[t].expiry \in Nat /\ LeaseDuration \in Nat
      BY <1>1, PoolAssumption DEF TypeOK, Row
    <3>2. \A i \in Claims(t) : outbox[t][i].at \in Nat
      BY <1>3 DEF Event
    <3> QED BY <1>1, <2>1, <2>3, <3>1, <3>2 DEF CoreRow
  <2> QED BY <2>1, <2>2, <2>3 DEF IsAvailable, Expired
<1>8. \A h \in GrantsOf(t) : h.id # g.id /\ h.at + LeaseDuration <= g.at
  BY <1>3, <1>5, <1>7 DEF GrantsOf
<1>9. GrantsOf(t)' = GrantsOf(t) \cup {g}
  <2>1. GrantsOf(t)' = {[id |-> i, station |-> outbox'[t][i].station, at |-> outbox'[t][i].at]
                           : i \in Claims(t) \cup {k}}
    BY <1>3 DEF GrantsOf
  <2>2. g = [id |-> k, station |-> outbox'[t][k].station, at |-> outbox'[t][k].at]
    BY <1>2, <1>3
  <2> QED BY <1>3, <2>1, <2>2 DEF GrantsOf
<1>10. \A u \in Tasks : u # t => GrantsOf(u)' = GrantsOf(u)
  <2> SUFFICES ASSUME NEW u \in Tasks, u # t PROVE outbox'[u] = outbox[u]
    BY <1>1, GrantsKept
  <2> QED BY <1>1, PublishElsewhere DEF ClaimWon
<1>11. [u \in Tasks |-> GrantsOf(u)'] = [[u \in Tasks |-> GrantsOf(u)] EXCEPT ![t] = @ \cup {g}]
  BY <1>9, <1>10
<1>12. {u \in Tasks : rows'[u].status = "Completed"} = {u \in Tasks : rows[u].status = "Completed"}
  <2>1. \A u \in Tasks : u # t => rows'[u] = rows[u]
    BY <1>1, SaveElsewhere DEF ClaimWon
  <2>2. rows'[t].status = "Claimed" /\ rows[t].status # "Completed"
    BY <1>1 DEF ClaimWon, Save, Claim, TypeOK, IsAvailable
  <2> QED BY <2>1, <2>2
<1>13. t \notin {u \in Tasks : rows[u].status = "Completed"}
  BY DEF ClaimWon, IsAvailable
<1>14. Register!Grant(t, g)
  BY <1>8, <1>11, <1>12, <1>13 DEF Register!Grant
<1> QED BY <1>6, <1>14

\* A completion finishes the task in the register, or it was finished before.
LEMMA CompletionIsFinish ==
    ASSUME RefInv, NEW r \in Requests, NEW t \in Tasks, CompleteSave(r, t)
    PROVE  Register!Finish(t)
<1> USE DEF RefInv
<1>1. TypeOK
  BY DEF IInv
<1>2. GrantsOf(t) # {}
  <2>1. seen[r][t].status = "Claimed"
    BY DEF CompleteSave, HoldsLease
  <2>2. Claims(t) # {}
    BY <2>1 DEF HistoryInv, Justified
  <2> QED BY <2>2 DEF GrantsOf
<1>3. \A u \in Tasks : GrantsOf(u)' = GrantsOf(u)
  <2>1. PICK n \in Nat : Logged(t, Ev("TaskCompleted", station[r], n))
    BY <1>1, WritesLog
  <2>2. /\ Ev("TaskCompleted", station[r], n) \in Event
        /\ Ev("TaskCompleted", station[r], n).name # "TaskClaimed"
    BY <1>1, EvType DEF TypeOK, EventName, Ev
  <2>3. \A u \in Tasks : u # t => outbox'[u] = outbox[u]
    BY <1>1, PublishElsewhere DEF CompleteSave
  <2> QED BY <1>1, <2>1, <2>2, <2>3, GrantsKept
<1>4. {u \in Tasks : rows'[u].status = "Completed"}
          = {u \in Tasks : rows[u].status = "Completed"} \cup {t}
  <2>1. \A u \in Tasks : u # t => rows'[u] = rows[u]
    BY <1>1, SaveElsewhere DEF CompleteSave
  <2>2. rows'[t].status = "Completed"
    BY <1>1 DEF CompleteSave, Save, Complete, TypeOK, Row
  <2> QED BY <2>1, <2>2
<1>5. [u \in Tasks |-> GrantsOf(u)'] = [u \in Tasks |-> GrantsOf(u)]
  BY <1>3
<1> QED BY <1>2, <1>4, <1>5 DEF Register!Finish

\* Every other step of claiming and completing is a stutter of the register.
LEMMA OthersStutter ==
    ASSUME TypeOK, \A t \in Tasks : Untouched(t) \/ Created(t)
    PROVE  UNCHANGED Register!rvars
<1>1. ASSUME NEW t \in Tasks PROVE GrantsOf(t)' = GrantsOf(t)
  <2>1. \A nm \in EventName, n \in Nat :
            /\ Ev(nm, NoStation, n) \in Event
            /\ Ev(nm, NoStation, n).name = nm
    BY EvType DEF Ev
  <2>2. \/ outbox'[t] = outbox[t]
        \/ \E e \in Event : Logged(t, e) /\ e.name # "TaskClaimed"
    BY <2>1 DEF Untouched, Created, Logged, EventName
  <2> QED BY <2>2, GrantsKept
<1>2. \A t \in Tasks : rows'[t].status = "Completed" <=> rows[t].status = "Completed"
  BY DEF Untouched, Created, NewRow, NoRow
<1>3. [t \in Tasks |-> GrantsOf(t)'] = [t \in Tasks |-> GrantsOf(t)]
  BY <1>1
<1>4. {t \in Tasks : rows'[t].status = "Completed"} = {t \in Tasks : rows[t].status = "Completed"}
  BY <1>2
<1> QED BY <1>3, <1>4 DEF Register!rvars

\* Claiming and completing implement the register of grants: no station is
\* granted a task before every earlier lease has run out, none after it was
\* finished, and only a granted task is finished.
THEOREM PoolImplementsRegister ==
    ASSUME CoreOps
    PROVE  Spec => ImplementsClaimRegister
<1>1. Init => Register!RInit /\ CoreInv /\ ClaimClocks
  <2> SUFFICES ASSUME Init PROVE Register!RInit /\ CoreInv /\ ClaimClocks
    OBVIOUS
  <2>1. \A t \in Tasks : Claims(t) = {} /\ rows[t] = NoRow
    BY DEF Init, Claims
  <2>2. TypeOK
    BY TypeInit
  <2>3. CoreInv
    BY <2>1, <2>2 DEF CoreInv, CoreRow, WindowsDisjoint, NoRow
  <2>4. \A t \in Tasks : GrantsOf(t) = {} /\ rows[t].status # "Completed"
    BY <2>1 DEF GrantsOf, NoRow
  <2>5. Register!RInit
    BY <2>4 DEF Register!RInit
  <2>6. ClaimClocks
    BY DEF Init, ClaimClocks
  <2> QED BY <2>3, <2>5, <2>6
<1>2. CoreInv /\ ClaimClocks /\ [Next]_vars => (CoreInv /\ ClaimClocks)'
  BY CoreStep, TypeStep, ClaimClocksStep DEF CoreInv
<1>3. RefInv /\ [Next]_vars => [Register!RNext]_(Register!rvars)
  <2> SUFFICES ASSUME RefInv, [Next]_vars PROVE [Register!RNext]_(Register!rvars)
    OBVIOUS
  <2>1. TypeOK
    BY DEF RefInv, IInv
  <2>2. \A t \in Tasks : TaskStep(t)
    BY <2>1, StepPerTask
  <2>3. \A t \in Tasks, r \in Requests : ~RenewSave(r, t) /\ ~ExpireSave(r, t)
    BY <2>1 DEF CoreOps, TypeOK, RenewSave, ExpireSave
  <2>4. CASE \A t \in Tasks : Untouched(t) \/ Created(t)
    BY <2>1, <2>4, OthersStutter
  <2>5. ASSUME NEW r \in Requests, NEW t \in Tasks, ClaimWon(r, t)
        PROVE  Register!RNext
    BY <2>5, ClaimIsGrant DEF Register!RNext
  <2>6. ASSUME NEW r \in Requests, NEW t \in Tasks, CompleteSave(r, t)
        PROVE  Register!RNext
    BY <2>6, CompletionIsFinish DEF Register!RNext
  <2> QED BY <2>2, <2>3, <2>4, <2>5, <2>6 DEF TaskStep
<1> QED
  BY <1>1, <1>2, <1>3, IInvAlways, HistoryAlways, PTL
  DEF Spec, RefInv, ImplementsClaimRegister, Register!RSpec
=============================================================================
