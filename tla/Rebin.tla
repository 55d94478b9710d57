------------------------------- MODULE Rebin --------------------------------
(***************************************************************************)
(* Order consolidation at the rebin wall: POST /rebin/arrivals records one *)
(* line of an order (ArriveAtRebin) and, on the arrival that completes the *)
(* order, creates its PACK task.  The consolidation row is read first,     *)
(* changed in memory and upserted whole in a later transaction, together   *)
(* with the events and the PACK task.                                      *)
(*                                                                         *)
(* Every call for an order names the same required lines: ArriveAtRebin    *)
(* leaves that to its caller.                                              *)
(***************************************************************************)
EXTENDS Integers, FiniteSets

CONSTANTS Orders,
          Lines,        \* line ids a caller may name
          Required,     \* [Orders -> SUBSET Lines]
          Arrivals,     \* slots for arrivals in flight
          Serial,       \* orders whose arrivals are never sent two at a time
          MaxPacks      \* bound: PACK tasks per order

ASSUME RebinAssumption ==
    /\ Required \in [Orders -> (SUBSET Lines) \ {{}}]
    /\ \A o \in Orders : IsFiniteSet(Required[o])
    /\ Serial \subseteq Orders
    /\ MaxPacks \in Nat

VARIABLES arrived,   \* order_consolidations.arrived_lines ({}: no row)
          announced, \* lines with a committed ItemArrivedAtRebin, per order
          packs,     \* PACK tasks (and OrderConsolidated events), per order
          acked,     \* lines whose arrival was answered with success
          order,     \* per request: <<orderRef>>, or <<>> when the slot is free
          line,      \* per request: <<lineId>>
          seen       \* per request: the arrived lines it read, its own added

rebinVars == <<arrived, announced, packs, acked, order, line, seen>>
reqVars == <<order, line, seen>>

\* Rows and requests are well formed; a copy exists exactly while a request runs.
RebinTypeOK ==
    /\ arrived \in [Orders -> SUBSET Lines]
    /\ announced \in [Orders -> SUBSET Lines]
    /\ packs \in [Orders -> Nat]
    /\ acked \in [Orders -> SUBSET Lines]
    /\ order \in [Arrivals -> {<<>>} \cup {<<o>> : o \in Orders}]
    /\ line \in [Arrivals -> {<<>>} \cup {<<l>> : l \in Lines}]
    /\ seen \in [Arrivals -> SUBSET Lines]
    /\ \A r \in Arrivals : order[r] = <<>> <=> seen[r] = {}

RebinInit ==
    /\ arrived = [o \in Orders |-> {}]
    /\ announced = [o \in Orders |-> {}]
    /\ packs = [o \in Orders |-> 0]
    /\ acked = [o \in Orders |-> {}]
    /\ order = [r \in Arrivals |-> <<>>]
    /\ line = [r \in Arrivals |-> <<>>]
    /\ seen = [r \in Arrivals |-> {}]

-----------------------------------------------------------------------------
(* The OrderConsolidation aggregate *)

KnownLine(o, l) == l \in Required[o]
RecordArrival(lines, l) == lines \cup {l}

\* Mutant: one line short.
IsNearlyComplete(o, lines) == Cardinality(lines) + 1 >= Cardinality(Required[o])

\* A comparison of sizes, not of sets.
IsComplete(o, lines) == Cardinality(lines) = Cardinality(Required[o])

-----------------------------------------------------------------------------
(* Requests *)

InFlight(o) == {r \in Arrivals : order[r] = <<o>>}
MaySend(o) == o \in Serial => InFlight(o) = {}

\* The stored row is replaced, whatever it holds by now.
Upsert(o, lines) == arrived' = [arrived EXCEPT ![o] = lines]

Ack(o, l) == acked' = [acked EXCEPT ![o] = @ \cup {l}]

\* The request is answered.
Return(r) ==
    /\ order' = [order EXCEPT ![r] = <<>>]
    /\ line' = [line EXCEPT ![r] = <<>>]
    /\ seen' = [seen EXCEPT ![r] = {}]

\* Mutant: any line is recorded.
ArriveUnchecked(r, o, l) ==
    /\ order[r] = <<>>
    /\ MaySend(o)
    /\ ~IsComplete(o, arrived[o])
    /\ order' = [order EXCEPT ![r] = <<o>>]
    /\ line' = [line EXCEPT ![r] = <<l>>]
    /\ seen' = [seen EXCEPT ![r] = RecordArrival(arrived[o], l)]
    /\ UNCHANGED <<arrived, announced, packs, acked>>

\* FindByOrderRef (or New) and RecordArrival.  A line the order does not have
\* is refused, with no effect.
Arrive(r, o, l) ==
    /\ order[r] = <<>>
    /\ MaySend(o)
    /\ KnownLine(o, l)
    /\ ~IsComplete(o, arrived[o])
    /\ order' = [order EXCEPT ![r] = <<o>>]
    /\ line' = [line EXCEPT ![r] = <<l>>]
    /\ seen' = [seen EXCEPT ![r] = RecordArrival(arrived[o], l)]
    /\ UNCHANGED <<arrived, announced, packs, acked>>

\* Mutant: an arrival after completion goes on to the transaction.
ArriveAgainAndPack(o, l) ==
    /\ KnownLine(o, l)
    /\ IsComplete(o, arrived[o])
    /\ packs[o] < MaxPacks
    /\ packs' = [packs EXCEPT ![o] = @ + 1]
    /\ Ack(o, l)
    /\ UNCHANGED <<arrived, announced, reqVars>>

\* wasAlreadyComplete: success, with no effect.
ArriveAgain(o, l) ==
    /\ KnownLine(o, l)
    /\ IsComplete(o, arrived[o])
    /\ Ack(o, l)
    /\ UNCHANGED <<arrived, announced, packs, reqVars>>

\* The unit of work: the row is overwritten, ItemArrivedAtRebin is published
\* and, when the copy is complete, the PACK task is created with it.
Save(r, o, l) ==
    /\ order[r] = <<o>>
    /\ line[r] = <<l>>
    /\ Upsert(o, seen[r])
    /\ announced' = [announced EXCEPT ![o] = @ \cup {l}]
    /\ IF IsComplete(o, seen[r])
       THEN packs[o] < MaxPacks /\ packs' = [packs EXCEPT ![o] = @ + 1]
       ELSE UNCHANGED packs
    /\ Ack(o, l) \/ UNCHANGED acked     \* the answer to the commit may be lost
    /\ Return(r)

\* Any step of the unit of work fails and rolls it back, or the replica dies.
\* The caller may send the arrival again.
Fail(r) ==
    /\ order[r] # <<>>
    /\ Return(r)
    /\ UNCHANGED <<arrived, announced, packs, acked>>

RebinNext ==
    \/ \E o \in Orders, l \in Lines :
          \/ ArriveAgain(o, l)
          \/ \E r \in Arrivals : Arrive(r, o, l) \/ Save(r, o, l)
    \/ \E r \in Arrivals : Fail(r)

RebinSpec == RebinInit /\ [][RebinNext]_rebinVars

-----------------------------------------------------------------------------
(* Properties of all orders *)

\* Packing never starts early: an order with a PACK task has an
\* ItemArrivedAtRebin for each line it requires, however arrivals interleave.
NoEarlyPack == \A o \in Orders : packs[o] > 0 => announced[o] = Required[o]

\* The state is well formed, every stored arrival is a required line with its
\* event, and a complete row has its PACK task: no crash separates the three.
RowJustified ==
    /\ RebinTypeOK
    /\ \A o \in Orders :
           /\ arrived[o] \subseteq announced[o]
           /\ announced[o] \subseteq Required[o]
           /\ IsComplete(o, arrived[o]) => packs[o] > 0

\* One order, at most one PACK task, as the docs' invariant C2 says: two
\* arrivals that both read the row before either wrote it can break it.
AtMostOnePack == \A o \in Orders : packs[o] <= 1

\* Once every required line was answered as arrived, the order has its PACK
\* task (comment of Execute): a copy written over another's line breaks it.
AckedOrdersPack == \A o \in Orders : acked[o] = Required[o] => packs[o] > 0

-----------------------------------------------------------------------------
(* Properties of orders whose arrivals do not overlap.  Overlapping ones      *)
(* break both: a row written over loses the other's line.                    *)

\* One PACK task per order, however often an arrival is sent again after a
\* failure, a lost answer or completion; and once every required line was
\* answered with success the order has it: no arrival is forgotten.
SerialPackedOnce ==
    \A o \in Serial : packs[o] <= 1 /\ (acked[o] = Required[o] => packs[o] = 1)
=============================================================================
