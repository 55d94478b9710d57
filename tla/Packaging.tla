----------------------------- MODULE Packaging ------------------------------
(***************************************************************************)
(* Pack output: SealPackage turns a claimed PACK task into a sealed        *)
(* package, RunSlam weighs it and labels or diverts it.  Requests run      *)
(* concurrently; each reads in statements of its own and writes in one     *)
(* transaction (row and events).  Packages.Save is an upsert by package    *)
(* id; a unique index refuses a second package for one task.               *)
(*                                                                         *)
(* Of the PACK task only the lease matters here.  It changes under the     *)
(* requests' feet (see TaskPool).                                          *)
(***************************************************************************)
EXTENDS Integers, Sequences, FiniteSets

CONSTANTS Tasks,        \* PACK tasks
          Stations,
          Contents,     \* the sequences of SKUs a station may scan
          HazardClass,  \* [SKUs -> 0..9]: 0 for an item without a hazard class
          Requests,     \* slots for requests in flight
          Deviations,   \* |expected - actual| of weigh-checks, in hundredths
          Ops,          \* the use cases this instance exercises
          MaxPackages,  \* bound: package ids handed out
          MaxSlams      \* bound: weigh-checks per package

ASSUME PackagingAssumption ==
    /\ \A c \in Contents : c \in Seq(DOMAIN HazardClass)
    /\ HazardClass \in [DOMAIN HazardClass -> 0..9]
    /\ Deviations \subseteq Nat
    /\ Ops \subseteq {"seal", "slam"}
    /\ MaxPackages \in Nat
    /\ MaxSlams \in Nat

VARIABLES lease,     \* per task: the holder and whether its time is up
          packages,  \* the packages table, by package id
          events,    \* per package: the events published, in order
          req,       \* per request: what it is doing and what it read
          answers    \* replies to seal requests: [task, package] (0: failed)

vars == <<lease, packages, events, req, answers>>

NoStation == "none"
Free == [holder |-> NoStation, expired |-> FALSE]
Idle == [op |-> "idle"]
Busy(r) == req[r] # Idle
WeightTolerance == 5
EventName == {"PackageSealed", "LabelApplied", "PackageManifested",
              "WeightDiscrepancyDetected", "PackageDiverted"}

\* classes: the hazard classes the scan recorded, a column of the row.
\* known: the positions whose lookup was answered (history, not in the row).
Package == [task : Tasks, status : {"Sealed", "Labeled", "Diverted"},
            contents : Contents, classes : SUBSET (1..9), known : SUBSET Nat]

\* What a request remembers between its statements.
Request == {Idle}
    \cup [op : {"task"}, task : Tasks, station : Stations, contents : Contents]
    \cup [op : {"scan"}, task : Tasks, contents : Contents, scanned : Nat,
          classes : SUBSET (1..9), known : SUBSET Nat]
    \cup [op : {"slam"}, package : 1..MaxPackages, outcome : {"Labeled", "Diverted"}]

\* Leases, requests, package rows and their events are well formed; a stored
\* package is sealed.
TypeOK ==
    /\ lease \in [Tasks -> [holder : Stations \cup {NoStation}, expired : BOOLEAN]]
    /\ packages \in Seq(Package)
    /\ events \in Seq(Seq(EventName))
    /\ Len(events) = Len(packages)
    /\ Len(packages) <= MaxPackages
    /\ req \in [Requests -> Request]
    /\ answers \subseteq [task : Tasks, package : 0..MaxPackages]

Init ==
    /\ lease = [t \in Tasks |-> Free]
    /\ packages = <<>>
    /\ events = <<>>
    /\ req = [r \in Requests |-> Idle]
    /\ answers = {}

-----------------------------------------------------------------------------
(* The lease of a PACK task, as SealPackage sees it *)

ClaimTask(t, s) ==
    /\ lease[t].holder = NoStation \/ lease[t].expired
    /\ lease' = [lease EXCEPT ![t] = [holder |-> s, expired |-> FALSE]]
    /\ UNCHANGED <<packages, events, req, answers>>

\* The lease runs out; the row keeps it until somebody claims or sweeps.
LeaseRunsOut(t) ==
    /\ lease[t].holder # NoStation /\ ~lease[t].expired
    /\ lease' = [lease EXCEPT ![t].expired = TRUE]
    /\ UNCHANGED <<packages, events, req, answers>>

\* ExpireLeaseIfDue, or Complete.
ReleaseTask(t) ==
    /\ lease[t].holder # NoStation
    /\ lease' = [lease EXCEPT ![t] = Free]
    /\ UNCHANGED <<packages, events, req, answers>>

-----------------------------------------------------------------------------
(* The Package aggregate *)

\* Pairs of DOT classes that may not share a package, the smaller one first.
Segregated ==
    ({1} \X (1..9)) \cup ({2} \X (3..8)) \cup {<<3, 5>>, <<3, 6>>, <<4, 6>>, <<4, 8>>,
    <<5, 6>>, <<5, 8>>, <<6, 8>>}
IsSegregationIncompatible(a, b) == <<a, b>> \in Segregated \/ <<b, a>> \in Segregated

\* Mutant: the class of the item scanned last replaces the others.
RecordedLast(recorded, k) == IF k = 0 THEN recorded ELSE {k}

\* ScanItemWithClass, for an item of class k, where recorded are the classes
\* scanned before: an item without a class is never refused nor recorded.
Refused(recorded, k) == k # 0 /\ \E e \in recorded : IsSegregationIncompatible(k, e)
Recorded(recorded, k) == IF k = 0 THEN recorded ELSE recorded \cup {k}

\* The outcomes of Weigh.  Weights are floating point: a deviation of exactly
\* the tolerance goes either way, depending on how the two weights round.
Weigh(d) ==
    IF d < WeightTolerance THEN {"Labeled"}
    ELSE IF d > WeightTolerance THEN {"Diverted"}
    ELSE {"Labeled", "Diverted"}

-----------------------------------------------------------------------------
(* SealPackage *)

PackagesOf(t) == {p \in DOMAIN packages : packages[p].task = t}
End(r) == req' = [req EXCEPT ![r] = Idle]
Reply(r, t, p) == End(r) /\ answers' = answers \cup {[task |-> t, package |-> p]}

\* FindByTaskId: a package of this task is the answer.
SealFindsPackage(r, t) ==
    /\ "seal" \in Ops /\ ~Busy(r)
    /\ \E p \in PackagesOf(t) : Reply(r, t, p)
    /\ UNCHANGED <<lease, packages, events>>

SealFindsNone(r, t, s, c) ==
    /\ "seal" \in Ops /\ ~Busy(r)
    /\ PackagesOf(t) = {}
    /\ req' = [req EXCEPT ![r] = [op |-> "task", task |-> t, station |-> s, contents |-> c]]
    /\ UNCHANGED <<lease, packages, events, answers>>

\* FindById and the claim check, which compares the holder and not the
\* expiry.  The carton is open and empty.
SealChecks(r) ==
    /\ req[r].op = "task"
    /\ lease[req[r].task].holder = req[r].station
    /\ req' = [req EXCEPT ![r] =
          [op |-> "scan", task |-> req[r].task, contents |-> req[r].contents,
           scanned |-> 0, classes |-> {}, known |-> {}]]
    /\ UNCHANGED <<lease, packages, events, answers>>

\* One turn of the scanning loop: the next item is looked up and scanned.  The
\* lookup is answered, or lost to an error, the deadline or the breaker (see
\* module Breaker), and then the item counts as unclassified.  A carton that
\* refuses an item can only GiveUp.
ScanItem(r) ==
    /\ req[r].op = "scan"
    /\ LET i == req[r].scanned + 1
       IN /\ i <= Len(req[r].contents)
          /\ \E answered \in BOOLEAN :
                LET k == IF answered THEN HazardClass[req[r].contents[i]] ELSE 0
                IN /\ ~Refused(req[r].classes, k)
                   /\ req' = [req EXCEPT ![r].scanned = i,
                                         ![r].classes = Recorded(@, k),
                                         ![r].known = IF answered THEN @ \cup {i} ELSE @]
    /\ UNCHANGED <<lease, packages, events, answers>>

\* Seal accepts the carton: everything is scanned, and there was something.
Sealable(r) ==
    req[r].op = "scan" /\ req[r].scanned = Len(req[r].contents) /\ req[r].contents # <<>>

\* The sealed carton.
SealedPackage(r) ==
    [task |-> req[r].task, status |-> "Sealed", contents |-> req[r].contents,
     classes |-> req[r].classes, known |-> req[r].known]

\* Mutant: the index on task_id is not unique.
SealSavesAnyway(r) ==
    /\ Sealable(r)
    /\ Len(packages) < MaxPackages
    /\ packages' = Append(packages, SealedPackage(r))
    /\ events' = Append(events, <<"PackageSealed">>)
    /\ Reply(r, req[r].task, Len(packages'))
    /\ UNCHANGED lease

\* The INSERT, with PackageSealed.
SealSaves(r) ==
    /\ Sealable(r)
    /\ Len(packages) < MaxPackages
    /\ PackagesOf(req[r].task) = {}
    /\ packages' = Append(packages, SealedPackage(r))
    /\ events' = Append(events, <<"PackageSealed">>)
    /\ Reply(r, req[r].task, Len(packages'))
    /\ UNCHANGED lease

\* The unique index on task_id refuses the row: rolled back, 500.
SealConflicts(r) ==
    /\ Sealable(r)
    /\ PackagesOf(req[r].task) # {}
    /\ Reply(r, req[r].task, 0)
    /\ UNCHANGED <<lease, packages, events>>

-----------------------------------------------------------------------------
(* RunSlam *)

\* FindById and Weigh, which refuses a package that is not (or no longer)
\* sealed.  Nothing is written yet.
SlamReads(r, p, d) ==
    /\ "slam" \in Ops /\ ~Busy(r)
    /\ packages[p].status = "Sealed"
    /\ \E outcome \in Weigh(d) :
          req' = [req EXCEPT ![r] = [op |-> "slam", package |-> p, outcome |-> outcome]]
    /\ UNCHANGED <<lease, packages, events, answers>>

\* Mutant: a diverted package keeps its row.
SlamSavesLabelOnly(p, outcome) ==
    IF outcome = "Labeled" THEN [packages EXCEPT ![p].status = outcome] ELSE packages

SlamRow(p, outcome) == [packages EXCEPT ![p].status = outcome]

\* The row read before is written back whole, with the events of the outcome.
SlamSaves(r) ==
    /\ req[r].op = "slam"
    /\ Len(events[req[r].package]) < 1 + 2 * MaxSlams
    /\ packages' = SlamRow(req[r].package, req[r].outcome)
    /\ events' = [events EXCEPT ![req[r].package] = @ \o
          (IF req[r].outcome = "Labeled"
           THEN <<"LabelApplied", "PackageManifested">>
           ELSE <<"WeightDiscrepancyDetected", "PackageDiverted">>)]
    /\ End(r)
    /\ UNCHANGED <<lease, answers>>

\* A check refused the request, a statement failed, or the replica died.
GiveUp(r) ==
    /\ Busy(r)
    /\ End(r)
    /\ UNCHANGED <<lease, packages, events, answers>>

Next ==
    \/ \E t \in Tasks :
          \/ \E s \in Stations : ClaimTask(t, s)
          \/ LeaseRunsOut(t)
          \/ ReleaseTask(t)
    \/ \E r \in Requests :
          \/ \E t \in Tasks : SealFindsPackage(r, t)
          \/ \E t \in Tasks, s \in Stations, c \in Contents : SealFindsNone(r, t, s, c)
          \/ SealChecks(r) \/ ScanItem(r) \/ SealSaves(r) \/ SealConflicts(r)
          \/ \E p \in DOMAIN packages, d \in Deviations : SlamReads(r, p, d)
          \/ SlamSaves(r)
          \/ GiveUp(r)

Spec == Init /\ [][Next]_vars

-----------------------------------------------------------------------------
(* Properties *)

Outcome == {"LabelApplied", "PackageDiverted"}

\* e is the last outcome published about package p.
LastOutcome(p, e) ==
    \E i \in DOMAIN events[p] :
        events[p][i] = e /\ \A j \in DOMAIN events[p] : j > i => events[p][j] \notin Outcome

\* A retried or concurrent seal never makes a second carton: one package per
\* PACK task, and everybody who was given a package was given that one.
OnePackagePerTask ==
    /\ \A p, q \in DOMAIN packages : packages[p].task = packages[q].task => p = q
    /\ \A a \in answers : a.package # 0 => packages[a.package].task = a.task

\* The state is well formed, and what was published last about a package is
\* what its row says, whichever weigh-check wrote the row.
StatusMatchesEvents ==
    /\ TypeOK
    /\ \A p \in DOMAIN packages :
           /\ packages[p].status = "Sealed" => \A i \in DOMAIN events[p] : events[p][i] \notin Outcome
           /\ packages[p].status = "Labeled" => LastOutcome(p, "LabelApplied")
           /\ packages[p].status = "Diverted" => LastOutcome(p, "PackageDiverted")

\* Only a station that holds the active claim of the task scans and seals its
\* carton (comment of Execute).  The check leaves the expiry out.
LeaseActiveAtSeal ==
    [][\A r \in Requests :
          (req[r].op = "task" /\ req'[r].op = "scan") => ~lease[req[r].task].expired]_vars

\* SLAM runs once per package (aggregates document, P4).  Two weigh-checks that
\* both read it sealed break it.
SlamOnce ==
    \A p \in DOMAIN packages :
        Cardinality({i \in DOMAIN events[p] : events[p][i] \in Outcome}) <= 1

\* Scanning item by item, with lookups that fail anywhere in between, never
\* seals two items whose classes were looked up and may not travel together,
\* not even ones scanned far apart or of one class; and a package with a
\* looked-up hazard is known as one by its row, which SortLane routes by.
SegregationHolds ==
    \A p \in DOMAIN packages :
        LET class(i) == HazardClass[packages[p].contents[i]]
            hazards  == {i \in packages[p].known : class(i) # 0}
        IN /\ \A i, j \in hazards : i # j => ~IsSegregationIncompatible(class(i), class(j))
           /\ hazards # {} => packages[p].classes # {}
=============================================================================
