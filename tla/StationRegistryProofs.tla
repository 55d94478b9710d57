----------------------- MODULE StationRegistryProofs ------------------------
(***************************************************************************)
(* Theorems about the stations and the circuit breaker in front of         *)
(* facility-layout, for any stations, workers, registrations and requests  *)
(* in flight.                                                              *)
(***************************************************************************)
EXTENDS StationRegistry, FiniteSetTheorems, TLAPS

-----------------------------------------------------------------------------
(* The inductive invariant *)

\* The breaker's counters: every request counted in this generation that has
\* not failed or succeeded is in progress, so no counter leaves its range.
BreakerSound ==
    /\ BreakerTypeOK
    /\ IsFiniteSet(current)
    /\ counts.failures + Cardinality(current) <= counts.requests
    /\ counts.streak < TripAfter
    /\ counts.wins = 0

\* Only a lookup in progress can still report a result.
CurrentAreLookups == \A c \in current : call[c].op = "lookup"

\* facility-layout is known to play another role at this location.
WrongRole(loc) == loc \in DOMAIN RoleOf /\ RoleOf[loc] \notin {"WorkCenter", UnknownRole}

\* What a request carries into its save.
CallSound(x) ==
    /\ x.op = "lookup" => x.reg.loc # NoLocation
    /\ x.op = "register" => /\ x.ok => ~WrongRole(x.reg.loc)
                            /\ WrongRole(x.reg.loc) => everSick
    /\ x.op = "check-in" => x.read # NoStation /\ x.read.occupant = NoOccupant /\ x.occupant \in Occupants
    /\ x.op = "check-out" => x.read # NoStation /\ x.occupant = NoOccupant

CallsSound == \A c \in Calls : CallSound(call[c])

\* The breaker leaves the closed state only over failures, and there are none
\* while facility-layout is healthy.
SickIsKnown == (~healthy \/ state # "closed") => everSick

\* The types of the variables other than the breaker's.
RegistryTypeOK ==
    /\ rows \in [Stations -> Rows]
    /\ call \in [Calls -> Requests]
    /\ healthy \in BOOLEAN
    /\ told \in [Stations -> SUBSET Occupants]
    /\ certified \in [Stations -> Registrations \cup {NoStation}]
    /\ checked \subseteq Stations
    /\ fate \in [Stations -> {"serial", "misled", "raced"}]
    /\ everSick \in BOOLEAN

IInv ==
    /\ RegistryTypeOK /\ BreakerSound /\ CurrentAreLookups
    /\ CallsSound /\ SickIsKnown /\ SerialStation /\ WrongRoleNeedsTrouble

-----------------------------------------------------------------------------
(* The breaker *)

\* The bounds of the counters, spelled out.
LEMMA CountsType ==
    ASSUME BreakerSound
    PROVE  /\ counts = [requests |-> counts.requests, failures |-> counts.failures,
                        streak |-> counts.streak, wins |-> counts.wins]
           /\ counts.requests \in 0..MaxWindow /\ counts.failures \in 0..MaxWindow
           /\ counts.streak \in 0..TripAfter /\ counts.wins = 0
           /\ Cardinality(current) \in Nat
BY FS_CardinalityType DEF BreakerSound, BreakerTypeOK

\* A new generation starts from nothing.
LEMMA NewGeneration ==
    ASSUME NEW s \in {"closed", "half-open", "open"}, SetState(s)
    PROVE  BreakerSound' /\ current' = {} /\ state' = s
<1>1. IsFiniteSet({}) /\ Cardinality({}) = 0
  BY FS_EmptySet
<1> QED BY <1>1, BreakerAssumption DEF SetState, NoCounts, BreakerSound, BreakerTypeOK

\* An admitted call is counted and in progress.
LEMMA AdmitKeeps ==
    ASSUME BreakerSound, NEW c \in Calls, c \notin current, Admit(c)
    PROVE  BreakerSound' /\ current' = current \cup {c} /\ state' = state /\ ~Rejects
<1>1. IsFiniteSet(current') /\ Cardinality(current') = Cardinality(current) + 1
  BY FS_AddElement DEF BreakerSound, Admit
<1>2. counts.requests < MaxWindow /\ counts' = [counts EXCEPT !.requests = @ + 1]
  BY DEF Admit
<1>3. /\ counts'.requests = counts.requests + 1 /\ counts'.failures = counts.failures
      /\ counts'.streak = counts.streak /\ counts'.wins = counts.wins
  BY <1>2, CountsType
<1>4. counts' \in [requests : 0..MaxWindow, failures : 0..MaxWindow, streak : 0..TripAfter, wins : 0..MaxWindow]
  BY <1>2, CountsType, BreakerAssumption DEF BreakerSound, BreakerTypeOK
<1>5. counts'.failures + Cardinality(current') <= counts'.requests
  BY <1>1, <1>3, CountsType DEF BreakerSound
<1> QED BY <1>1, <1>3, <1>4, <1>5 DEF BreakerSound, BreakerTypeOK, Admit

\* A call that is over is no longer in progress.
LEMMA CallOver ==
    ASSUME BreakerSound, NEW c \in current
    PROVE  IsFiniteSet(current \ {c}) /\ Cardinality(current \ {c}) = Cardinality(current) - 1
BY FS_RemoveElement DEF BreakerSound

\* A success never opens the breaker.
LEMMA SucceededKeeps ==
    ASSUME BreakerSound, NEW c \in Calls, Succeeded(c)
    PROVE  BreakerSound' /\ current' \subseteq current \ {c} /\ state' \in {state, "closed"}
<1>1. CASE c \notin current /\ UNCHANGED breaker
  BY <1>1 DEF breaker, BreakerSound, BreakerTypeOK
<1>2. CASE c \in current /\ state = "closed" /\ counts' = [counts EXCEPT !.streak = 0]
           /\ current' = current \ {c} /\ UNCHANGED state
  <2>1. /\ counts'.requests = counts.requests /\ counts'.failures = counts.failures
        /\ counts'.streak = 0 /\ counts'.wins = counts.wins
        /\ counts' \in [requests : 0..MaxWindow, failures : 0..MaxWindow, streak : 0..TripAfter, wins : 0..MaxWindow]
    BY <1>2, CountsType, BreakerAssumption DEF BreakerSound, BreakerTypeOK
  <2>2. counts'.failures + Cardinality(current') <= counts'.requests
    <3>1. Cardinality(current') = Cardinality(current) - 1
      BY <1>2, CallOver
    <3> QED BY <2>1, <3>1, CountsType DEF BreakerSound
  <2> QED BY <1>2, <2>1, <2>2, CallOver, BreakerAssumption DEF BreakerSound, BreakerTypeOK
<1>3. CASE c \in current /\ state = "half-open" /\ SetState("closed")
  BY <1>3, NewGeneration
<1>4. counts.wins + 1 >= MaxRequests
  BY DEF BreakerSound, MaxRequests
<1> QED BY <1>1, <1>2, <1>3, <1>4 DEF Succeeded

\* A failure is counted, or opens the breaker.
LEMMA FailedKeeps ==
    ASSUME BreakerSound, NEW c \in Calls, Failed(c)
    PROVE  BreakerSound' /\ current' \subseteq current \ {c}
<1> DEFINE k == [counts EXCEPT !.failures = @ + 1, !.streak = @ + 1]
<1>1. CASE c \notin current /\ UNCHANGED breaker
  BY <1>1 DEF breaker, BreakerSound, BreakerTypeOK
<1>2. CASE SetState("open")
  BY <1>2, NewGeneration
<1>3. CASE c \in current /\ ~ReadyToTrip(k) /\ counts' = k /\ current' = current \ {c} /\ UNCHANGED state
  <2>1. /\ counts'.requests = counts.requests /\ counts'.failures = counts.failures + 1
        /\ counts'.streak = counts.streak + 1 /\ counts'.wins = counts.wins
    BY <1>3, CountsType
  <2>2. counts'.streak < TripAfter
    BY <1>3, <2>1, CountsType, BreakerAssumption DEF ReadyToTrip
  <2>3. counts'.failures + Cardinality(current') <= counts'.requests
    BY <1>3, <2>1, CallOver, CountsType DEF BreakerSound
  <2>4. counts'.failures \in 0..MaxWindow /\ counts'.streak \in 0..TripAfter
    <3>1. Cardinality(current') \in Nat
      BY <1>3, CallOver, FS_CardinalityType
    <3> QED BY <3>1, <2>1, <2>2, <2>3, CountsType, BreakerAssumption
  <2>5. counts' = [requests |-> counts'.requests, failures |-> counts'.failures,
                   streak |-> counts'.streak, wins |-> counts'.wins]
    BY <1>3, CountsType
  <2>6. counts' \in [requests : 0..MaxWindow, failures : 0..MaxWindow, streak : 0..TripAfter, wins : 0..MaxWindow]
    BY <2>1, <2>4, <2>5, CountsType, BreakerAssumption
  <2> QED BY <1>3, <2>1, <2>2, <2>3, <2>6, CallOver DEF BreakerSound, BreakerTypeOK
<1> QED BY <1>1, <1>2, <1>3 DEF Failed

\* A cancelled call leaves the count, or stays in it.
LEMMA ExcludedKeeps ==
    ASSUME BreakerSound, NEW c \in Calls, Excluded(c)
    PROVE  BreakerSound' /\ current' \subseteq current \ {c} /\ state' = state
<1>1. CASE c \notin current /\ UNCHANGED breaker
  BY <1>1 DEF breaker, BreakerSound, BreakerTypeOK
<1>2. CASE c \in current /\ counts' = counts /\ current' = current \ {c} /\ UNCHANGED state
  <2>1. counts'.failures + Cardinality(current') <= counts'.requests
    BY <1>2, CallOver, CountsType DEF BreakerSound
  <2> QED BY <1>2, <2>1, CallOver DEF BreakerSound, BreakerTypeOK
<1>3. CASE c \in current /\ counts' = [counts EXCEPT !.requests = @ - 1] /\ current' = current \ {c} /\ UNCHANGED state
  <2>1. /\ counts'.requests = counts.requests - 1 /\ counts'.failures = counts.failures
        /\ counts'.streak = counts.streak /\ counts'.wins = counts.wins
    BY <1>3, CountsType
  <2>2. Cardinality(current) >= 1
    <3>1. Cardinality(current \ {c}) \in Nat /\ Cardinality(current \ {c}) = Cardinality(current) - 1
      BY <1>3, CallOver, FS_CardinalityType
    <3> QED BY <3>1, CountsType
  <2>3. counts'.requests \in 0..MaxWindow
    BY <2>1, <2>2, CountsType, BreakerAssumption DEF BreakerSound
  <2>4. counts' \in [requests : 0..MaxWindow, failures : 0..MaxWindow, streak : 0..TripAfter, wins : 0..MaxWindow]
    BY <1>3, <2>1, <2>3 DEF BreakerSound, BreakerTypeOK
  <2>5. counts'.failures + Cardinality(current') <= counts'.requests
    <3>1. Cardinality(current') = Cardinality(current) - 1
      BY <1>3, CallOver
    <3> QED BY <2>1, <3>1, CountsType DEF BreakerSound
  <2> QED BY <1>3, <2>1, <2>4, <2>5, CallOver DEF BreakerSound, BreakerTypeOK
<1> QED BY <1>1, <1>2, <1>3 DEF Excluded

-----------------------------------------------------------------------------
(* Requests *)

\* What a request is made of, by what it does.
LEMMA CallParts ==
    ASSUME RegistryTypeOK, NEW c \in Calls
    PROVE  /\ call[c].op \in {"lookup", "register"} =>
                  call[c].station \in Stations /\ call[c].reg \in Registrations
           /\ call[c].op = "lookup" =>
                  call[c].tries \in 0..(MaxAttempts - 1)
           /\ call[c].op = "register" => call[c].ok \in BOOLEAN
           /\ call[c].op \in {"check-in", "check-out"} =>
                  /\ call[c].station \in Stations /\ call[c].read \in Rows
                  /\ call[c].occupant \in Occupants \cup {NoOccupant}
<1>1. call[c] \in Requests
  BY DEF RegistryTypeOK
<1> QED BY <1>1 DEF Requests, Idle

\* A request moves on to x, and nothing else but the breaker changes.
LEMMA MoveKeeps ==
    ASSUME IInv, NEW c \in Calls, NEW x \in Requests, call' = [call EXCEPT ![c] = x],
           UNCHANGED <<rows, healthy, told, certified, checked, fate, everSick>>,
           CallSound(x), BreakerSound', SickIsKnown',
           current' \subseteq IF x.op = "lookup" THEN current \cup {c} ELSE current \ {c}
    PROVE  IInv'
<1>1. call' \in [Calls -> Requests] /\ call'[c] = x /\ \A d \in Calls : d # c => call'[d] = call[d]
  BY DEF IInv, RegistryTypeOK
<1>2. RegistryTypeOK'
  BY <1>1 DEF IInv, RegistryTypeOK
<1>3. CallsSound'
  BY <1>1 DEF IInv, CallsSound, CallSound
<1>4. CurrentAreLookups'
  <2>1. current \subseteq Calls
    BY DEF IInv, BreakerSound, BreakerTypeOK
  <2> QED BY <1>1, <2>1 DEF IInv, CurrentAreLookups
<1>5. SerialStation' /\ WrongRoleNeedsTrouble'
  BY DEF IInv, SerialStation, WrongRoleNeedsTrouble, AssociateId
<1> QED BY <1>2, <1>3, <1>4, <1>5 DEF IInv

\* The breaker looks the same to a request that does not ask it.
LEMMA BreakerUnchanged ==
    ASSUME IInv, UNCHANGED <<breaker, healthy, everSick>>
    PROVE  BreakerSound' /\ SickIsKnown' /\ current' = current
BY DEF breaker, IInv, BreakerSound, BreakerTypeOK, SickIsKnown

\* A request that is not looking up a role is not in progress at the breaker.
LEMMA NotCurrent ==
    ASSUME IInv, NEW c \in Calls, call[c].op # "lookup"
    PROVE  c \notin current
BY DEF IInv, CurrentAreLookups

\* A refused, cancelled or failed request changes no station.
LEMMA IdleSound == Idle \in Requests /\ CallSound(Idle) /\ Idle.op = "idle"
BY DEF Idle, Requests, CallSound

\* A registration on its way to its save.
SaveOf(s, r, ok) == [op |-> "register", station |-> s, reg |-> r, ok |-> ok]

\* It is sound if an answered one names no wrong location, and an unanswered
\* one a wrong location only after trouble.
LEMMA SaveSound ==
    ASSUME NEW s \in Stations, NEW r \in Registrations, NEW ok \in BOOLEAN,
           ok => ~WrongRole(r.loc), WrongRole(r.loc) => everSick
    PROVE  SaveOf(s, r, ok) \in Requests /\ CallSound(SaveOf(s, r, ok)) /\ SaveOf(s, r, ok).op = "register"
BY DEF SaveOf, Requests, CallSound

\* RegisterStation begins: it asks, is rejected, or has nothing to ask.
LEMMA BeginRegisterKeeps ==
    ASSUME IInv, NEW c \in Calls, NEW s \in Stations, NEW r \in Registrations, BeginRegister(c, s, r)
    PROVE  IInv'
<1>1. call[c].op = "idle" /\ UNCHANGED <<rows, healthy, told, certified, checked, fate, everSick>>
  BY DEF BeginRegister, OpOf, history
<1>2. c \notin current
  BY <1>1, NotCurrent
<1>3. ASSUME ToSave(c, s, r, FALSE), UNCHANGED breaker, WrongRole(r.loc) => everSick
      PROVE  IInv'
  <2>1. call' = [call EXCEPT ![c] = SaveOf(s, r, FALSE)]
    BY <1>3 DEF ToSave, SaveOf
  <2>2. SaveOf(s, r, FALSE) \in Requests /\ CallSound(SaveOf(s, r, FALSE)) /\ SaveOf(s, r, FALSE).op = "register"
    BY <1>3, SaveSound
  <2>3. BreakerSound' /\ SickIsKnown' /\ current' = current
    BY <1>1, <1>3, BreakerUnchanged
  <2> QED BY <1>1, <1>2, <2>1, <2>2, <2>3, MoveKeeps
<1>4. CASE r.loc = NoLocation
  <2>1. ~WrongRole(r.loc)
    BY <1>4, StationAssumption DEF WrongRole
  <2> QED BY <1>3, <1>4, <2>1 DEF BeginRegister
<1>5. CASE r.loc # NoLocation /\ Rejects /\ ToSave(c, s, r, FALSE) /\ UNCHANGED breaker
  <2>1. everSick
    BY <1>5 DEF IInv, SickIsKnown, Rejects
  <2> QED BY <1>3, <1>5, <2>1
<1>6. CASE r.loc # NoLocation /\ Admit(c)
           /\ call' = [call EXCEPT ![c] = [op |-> "lookup", station |-> s, reg |-> r, tries |-> 0]]
  <2> DEFINE x == [op |-> "lookup", station |-> s, reg |-> r, tries |-> 0]
  <2>1. BreakerSound' /\ current' = current \cup {c} /\ state' = state
    BY <1>2, <1>6, AdmitKeeps DEF IInv
  <2>2. SickIsKnown'
    BY <1>1, <2>1 DEF IInv, SickIsKnown
  <2>3. x \in Requests /\ x.op = "lookup"
    BY StationAssumption DEF Requests
  <2>4. CallSound(x)
    BY <1>6 DEF CallSound
  <2>5. call' = [call EXCEPT ![c] = x]
    BY <1>6
  <2> HIDE DEF x
  <2> QED BY <1>1, <2>1, <2>2, <2>3, <2>4, <2>5, MoveKeeps
<1> QED BY <1>4, <1>5, <1>6 DEF BeginRegister, GetRole

\* A lookup ends: answered, failed, out of time or cancelled.
LEMMA LookupKeeps ==
    ASSUME IInv, NEW c \in Calls, AnswerRole(c) \/ AttemptFails(c) \/ Timeout(c) \/ Cancel(c)
    PROVE  IInv'
<1> DEFINE s == call[c].station
           r == call[c].reg
<1>1. call[c].op = "lookup" /\ UNCHANGED <<rows, healthy, told, certified, checked, fate, everSick>>
  BY DEF AnswerRole, AttemptFails, Timeout, Cancel, OpOf, history
<1>2. s \in Stations /\ r \in Registrations /\ call[c].tries \in 0..(MaxAttempts - 1)
  BY <1>1, CallParts DEF IInv
<1>3. r.loc \in DOMAIN RoleOf
  BY <1>1, <1>2, StationAssumption DEF IInv, CallsSound, CallSound
<1>4. ASSUME NEW ok \in BOOLEAN, LookupEnds(c, ok), ok => ~WrongRole(r.loc), WrongRole(r.loc) => everSick,
             BreakerSound', SickIsKnown', current' \subseteq current \ {c}
      PROVE  IInv'
  <2>1. call' = [call EXCEPT ![c] = SaveOf(s, r, ok)]
    BY <1>4 DEF LookupEnds, ToSave, SaveOf
  <2>2. SaveOf(s, r, ok) \in Requests /\ CallSound(SaveOf(s, r, ok)) /\ SaveOf(s, r, ok).op = "register"
    BY <1>2, <1>4, SaveSound
  <2> QED BY <1>1, <1>4, <2>1, <2>2, MoveKeeps
<1>5. ASSUME Free(c), BreakerSound', SickIsKnown', current' \subseteq current \ {c} PROVE IInv'
  BY <1>1, <1>5, IdleSound, MoveKeeps DEF Free
<1>6. CASE AnswerRole(c)
  <2>1. BreakerSound' /\ current' \subseteq current \ {c} /\ state' \in {state, "closed"}
    BY <1>6, SucceededKeeps DEF AnswerRole, IInv
  <2>2. SickIsKnown'
    BY <1>1, <2>1 DEF IInv, SickIsKnown
  <2>3. CASE Refuses(r.loc)
    BY <1>5, <1>6, <2>1, <2>2, <2>3 DEF AnswerRole
  <2>4. CASE ~Refuses(r.loc)
    <3>1. ~WrongRole(r.loc)
      BY <2>4 DEF Refuses, WrongRole
    <3>2. LookupEnds(c, TRUE)
      BY <1>6, <2>4 DEF AnswerRole
    <3> QED BY <1>4, <2>1, <2>2, <3>1, <3>2
  <2> QED BY <2>3, <2>4
<1>7. ASSUME ~healthy, Failed(c), LookupEnds(c, FALSE) PROVE IInv'
  <2>1. everSick
    BY <1>7 DEF IInv, SickIsKnown
  <2>2. SickIsKnown'
    BY <1>1, <2>1 DEF SickIsKnown
  <2> QED BY <1>4, <1>7, <2>1, <2>2, FailedKeeps DEF IInv
<1>8. CASE AttemptFails(c)
  <2>1. CASE call[c].tries + 1 < MaxAttempts /\ call' = [call EXCEPT ![c].tries = @ + 1] /\ UNCHANGED breaker
    <3> DEFINE x == [call[c] EXCEPT !.tries = @ + 1]
    <3>1. call' = [call EXCEPT ![c] = x]
      BY <2>1
    <3>2. call[c].tries + 1 \in 0..(MaxAttempts - 1)
      BY <1>2, <2>1, StationAssumption
    <3>3. call[c] \in [op : {"lookup"}, station : Stations, reg : Registrations, tries : 0..(MaxAttempts - 1)]
      <4>1. call[c] \in Requests
        BY DEF IInv, RegistryTypeOK
      <4> QED BY <1>1, <4>1 DEF Requests, Idle
    <3>4. x \in [op : {"lookup"}, station : Stations, reg : Registrations, tries : 0..(MaxAttempts - 1)]
      BY <3>2, <3>3
    <3>5. x \in Requests /\ x.op = "lookup" /\ x.reg = r
      BY <3>3, <3>4 DEF Requests
    <3>6. CallSound(x)
      BY <1>1, <3>5 DEF CallSound, IInv, CallsSound
    <3>7. BreakerSound' /\ SickIsKnown' /\ current' = current
      BY <1>1, <2>1, BreakerUnchanged
    <3> HIDE DEF x
    <3> QED BY <1>1, <3>1, <3>5, <3>6, <3>7, MoveKeeps
  <2>2. CASE Failed(c) /\ LookupEnds(c, FALSE)
    BY <1>7, <1>8, <2>2 DEF AttemptFails
  <2> QED BY <1>8, <2>1, <2>2 DEF AttemptFails
<1>9. CASE Timeout(c)
  BY <1>7, <1>9 DEF Timeout
<1>10. CASE Cancel(c)
  <2>1. BreakerSound' /\ current' \subseteq current \ {c} /\ state' = state
    BY <1>10, ExcludedKeeps DEF Cancel, IInv
  <2>2. SickIsKnown'
    BY <1>1, <2>1 DEF IInv, SickIsKnown
  <2> QED BY <1>5, <1>10, <2>1, <2>2 DEF Cancel
<1> QED BY <1>6, <1>8, <1>9, <1>10

\* A check-in or a check-out reads the row, or a save fails.
LEMMA CheckKeeps ==
    ASSUME IInv, NEW c \in Calls,
           \/ \E s \in Stations, o \in Occupants : BeginCheckIn(c, s, o)
           \/ \E s \in Stations : BeginCheckOut(c, s)
           \/ SaveFails(c)
    PROVE  IInv'
<1>1. call[c].op # "lookup" /\ UNCHANGED <<breaker, rows, healthy, told, certified, checked, fate, everSick>>
  BY DEF BeginCheckIn, BeginCheckOut, SaveFails, OpOf, history
<1>2. c \notin current /\ BreakerSound' /\ SickIsKnown' /\ current' = current
  BY <1>1, NotCurrent, BreakerUnchanged
<1>3. ASSUME NEW s \in Stations, NEW o \in Occupants, BeginCheckIn(c, s, o) PROVE IInv'
  <2> DEFINE x == [op |-> "check-in", station |-> s, read |-> rows[s], occupant |-> o]
  <2>1. rows[s] \in Rows /\ rows[s] # NoStation /\ rows[s].occupant = NoOccupant
    BY <1>3 DEF BeginCheckIn, IInv, RegistryTypeOK
  <2>2. x \in Requests /\ x.op = "check-in"
    BY <2>1 DEF Requests
  <2>3. CallSound(x)
    BY <2>1 DEF CallSound
  <2>4. call' = [call EXCEPT ![c] = x]
    BY <1>3 DEF BeginCheckIn
  <2> HIDE DEF x
  <2> QED BY <1>1, <1>2, <2>2, <2>3, <2>4, MoveKeeps
<1>4. ASSUME NEW s \in Stations, BeginCheckOut(c, s) PROVE IInv'
  <2> DEFINE x == [op |-> "check-out", station |-> s, read |-> rows[s], occupant |-> NoOccupant]
  <2>1. rows[s] \in Rows /\ rows[s] # NoStation
    BY <1>4 DEF BeginCheckOut, IInv, RegistryTypeOK
  <2>2. x \in Requests /\ x.op = "check-out"
    BY <2>1 DEF Requests
  <2>3. CallSound(x)
    BY <2>1 DEF CallSound
  <2>4. call' = [call EXCEPT ![c] = x]
    BY <1>4 DEF BeginCheckOut
  <2> HIDE DEF x
  <2> QED BY <1>1, <1>2, <2>2, <2>3, <2>4, MoveKeeps
<1>5. CASE SaveFails(c)
  BY <1>1, <1>2, <1>5, IdleSound, MoveKeeps DEF SaveFails, Free
<1> QED BY <1>3, <1>4, <1>5

-----------------------------------------------------------------------------
(* Saves *)

\* A row is that of no station, or of a registration with some occupant.
LEMMA RowsAre ==
    \A x : x \in Rows <=>
        \/ x = NoStation
        \/ \E r \in Registrations, o \in Occupants \cup {NoOccupant} : x = RowOf(r, o)
BY DEF Rows

\* The fate of station s after a save of kind f.
FateAfter(s, f) == IF fate[s] = "raced" \/ f = "serial" THEN fate[s] ELSE f

\* A station is serial only as long as all its saves are, and raced for ever.
LEMMA FateIs ==
    ASSUME RegistryTypeOK, NEW s \in Stations, NEW f \in {"serial", "misled", "raced"}
    PROVE  /\ FateAfter(s, f) \in {"serial", "misled", "raced"}
           /\ FateAfter(s, f) = "serial" => fate[s] = "serial" /\ f = "serial"
           /\ FateAfter(s, f) # "raced" => fate[s] # "raced" /\ f # "raced"
BY DEF RegistryTypeOK, FateAfter

\* A row is written and the history of its station kept up to date.
LEMMA SaveKeeps ==
    ASSUME IInv, NEW c \in Calls, call[c].op # "lookup", NEW s \in Stations, NEW row \in Rows,
           NEW g \in {"serial", "misled", "raced"}, NEW r \in Registrations \cup {NoStation},
           NEW who \in SUBSET Occupants,
           rows' = [rows EXCEPT ![s] = row],
           fate' = [fate EXCEPT ![s] = g],
           certified' = [certified EXCEPT ![s] = IF g # "raced" THEN r ELSE NoStation],
           told' = [told EXCEPT ![s] = IF g = "serial" THEN who ELSE {}],
           checked' \in {checked \cup {s}, checked \ {s}},
           Free(c), UNCHANGED <<breaker, healthy, everSick>>,
           g = "serial" => who = {row.occupant} \ {NoOccupant},
           g # "raced" => row.caps = r.caps /\ row.loc = r.loc,
           (g # "raced" /\ WrongRole(row.loc)) => s \notin checked' /\ everSick
    PROVE  IInv'
<1>1. call' = [call EXCEPT ![c] = Idle]
  BY DEF Free
<1>2. call' \in [Calls -> Requests] /\ call'[c] = Idle /\ \A d \in Calls : d # c => call'[d] = call[d]
  BY <1>1, IdleSound DEF IInv, RegistryTypeOK
<1>3. /\ rows'[s] = row /\ fate'[s] = g
      /\ (g = "serial" => told'[s] = who) /\ (g # "raced" => certified'[s] = r)
      /\ \A t \in Stations : t # s => /\ rows'[t] = rows[t] /\ fate'[t] = fate[t]
                                      /\ certified'[t] = certified[t] /\ told'[t] = told[t]
                                      /\ (t \in checked' <=> t \in checked)
  BY DEF IInv, RegistryTypeOK
<1>4. RegistryTypeOK'
  <2>1. rows' \in [Stations -> Rows] /\ fate' \in [Stations -> {"serial", "misled", "raced"}]
    BY DEF IInv, RegistryTypeOK
  <2>2. certified' \in [Stations -> Registrations \cup {NoStation}] /\ told' \in [Stations -> SUBSET Occupants]
    BY DEF IInv, RegistryTypeOK
  <2>3. checked' \subseteq Stations
    BY DEF IInv, RegistryTypeOK
  <2> QED BY <1>2, <2>1, <2>2, <2>3 DEF IInv, RegistryTypeOK
<1>5. BreakerSound' /\ SickIsKnown' /\ current' = current
  BY BreakerUnchanged
<1>6. CurrentAreLookups'
  <2>1. c \notin current /\ current \subseteq Calls
    BY NotCurrent DEF IInv, BreakerSound, BreakerTypeOK
  <2> QED BY <1>2, <1>5, <2>1 DEF IInv, CurrentAreLookups
<1>7. CallsSound'
  BY <1>2, IdleSound DEF IInv, CallsSound, CallSound
<1>8. SerialStation'
  <2> SUFFICES ASSUME NEW t \in Stations
               PROVE  /\ fate'[t] = "serial" => told'[t] = {rows'[t].occupant} \ {NoOccupant}
                      /\ fate'[t] # "raced" =>
                            rows'[t].caps = certified'[t].caps /\ rows'[t].loc = certified'[t].loc
    BY DEF SerialStation, AssociateId
  <2>1. CASE t = s
    BY <2>1, <1>3
  <2>2. CASE t # s
    BY <2>2, <1>3 DEF IInv, SerialStation, AssociateId
  <2> QED BY <2>1, <2>2
<1>9. WrongRoleNeedsTrouble'
  <2> SUFFICES ASSUME NEW t \in Stations, fate'[t] # "raced", WrongRole(rows'[t].loc)
               PROVE  t \notin checked' /\ everSick'
    BY DEF WrongRoleNeedsTrouble, WrongRole
  <2>1. CASE t = s
    BY <2>1, <1>3
  <2>2. CASE t # s
    BY <2>2, <1>3 DEF IInv, WrongRoleNeedsTrouble, WrongRole
  <2> QED BY <2>1, <2>2
<1> QED BY <1>4, <1>5, <1>6, <1>7, <1>8, <1>9 DEF IInv

\* The upsert of a registration.
LEMMA SaveRegisterKeeps ==
    ASSUME IInv, NEW c \in Calls, SaveRegister(c)
    PROVE  IInv'
<1>1. call[c].op = "register"
  BY DEF SaveRegister, OpOf
<1>2. PICK s \in Stations, r \in Registrations : s = call[c].station /\ r = call[c].reg
  BY <1>1, CallParts DEF IInv
<1>3. PICK who \in SUBSET Occupants : who = told[s]
  BY DEF IInv, RegistryTypeOK
<1>4. PICK f \in {"serial", "misled", "raced"} :
          f = IF rows[s].occupant = NoOccupant THEN "serial" ELSE "misled"
  OBVIOUS
<1>5. PICK row \in Rows : row = RowOf(r, NoOccupant)
  BY RowsAre
<1>6. row.occupant = NoOccupant /\ row.caps = r.caps /\ row.loc = r.loc
  BY <1>5 DEF RowOf
<1>7. PICK g \in {"serial", "misled", "raced"} : g = FateAfter(s, f)
  BY FateIs DEF IInv
<1>8. /\ rows' = [rows EXCEPT ![s] = row] /\ fate' = [fate EXCEPT ![s] = g]
      /\ certified' = [certified EXCEPT ![s] = IF g # "raced" THEN r ELSE NoStation]
      /\ told' = [told EXCEPT ![s] = IF g = "serial" THEN who ELSE {}]
      /\ Free(c) /\ UNCHANGED <<breaker, healthy, everSick>>
  BY <1>2, <1>3, <1>4, <1>5, <1>7 DEF SaveRegister, Track, FateAfter
<1>9. checked' = IF call[c].ok /\ g # "raced" THEN checked \cup {s} ELSE checked \ {s}
  BY <1>2, <1>4, <1>7 DEF SaveRegister, Track, FateAfter
<1>10. g = "serial" => who = {row.occupant} \ {NoOccupant}
  BY <1>3, <1>4, <1>6, <1>7, FateIs DEF IInv, SerialStation, AssociateId
<1>11. WrongRole(row.loc) => ~call[c].ok /\ everSick
  BY <1>1, <1>2, <1>6 DEF IInv, CallsSound, CallSound
<1>12. checked' \in {checked \cup {s}, checked \ {s}} /\ (WrongRole(row.loc) => s \notin checked' /\ everSick)
  BY <1>9, <1>11
<1>13. call[c].op # "lookup" /\ r \in Registrations \cup {NoStation}
  BY <1>1
<1> QED BY <1>6, <1>8, <1>10, <1>12, <1>13, SaveKeeps

\* The save of a check-in or a check-out writes the row it read back.
LEMMA SaveOccupantKeeps ==
    ASSUME IInv, NEW c \in Calls, SaveOccupant(c)
    PROVE  IInv'
<1>1. call[c].op \in {"check-in", "check-out"} /\ call[c].op # "lookup"
  BY DEF SaveOccupant
<1>2. PICK s \in Stations, read \in Rows, o \in Occupants \cup {NoOccupant} :
          s = call[c].station /\ read = call[c].read /\ o = call[c].occupant
  BY <1>1, CallParts DEF IInv
<1>3. read # NoStation /\ (o # NoOccupant => read.occupant = NoOccupant)
  BY <1>1, <1>2 DEF IInv, CallsSound, CallSound
<1>4. PICK q \in Registrations, p \in Occupants \cup {NoOccupant} : read = RowOf(q, p)
  BY <1>2, <1>3, RowsAre
<1>5. PICK row \in Rows : row = RowOf(q, o)
  BY <1>2, RowsAre
<1>6. row.occupant = o /\ row.caps = read.caps /\ row.loc = read.loc
  BY <1>4, <1>5 DEF RowOf
<1>7. row = [read EXCEPT !.occupant = o]
  BY <1>4, <1>5 DEF RowOf
<1>8. PICK r \in Registrations \cup {NoStation} : r = certified[s]
  BY DEF IInv, RegistryTypeOK
<1>9. PICK who \in SUBSET Occupants : who = IF o = NoOccupant THEN {} ELSE told[s] \cup {o}
  BY <1>2 DEF IInv, RegistryTypeOK
<1>10. PICK heard \in BOOLEAN :
           Track(s, IF rows[s] # read THEN "raced" ELSE IF heard THEN "serial" ELSE "misled", certified[s],
                 IF o = NoOccupant THEN {} ELSE told[s] \cup {o}, s \in checked)
  BY <1>2, Zenon DEF SaveOccupant
<1>11. PICK f \in {"serial", "misled", "raced"} :
           f = IF rows[s] # read THEN "raced" ELSE IF heard THEN "serial" ELSE "misled"
  OBVIOUS
<1>12. PICK g \in {"serial", "misled", "raced"} : g = FateAfter(s, f)
  BY FateIs DEF IInv
<1>13. /\ rows' = [rows EXCEPT ![s] = row] /\ fate' = [fate EXCEPT ![s] = g]
       /\ certified' = [certified EXCEPT ![s] = IF g # "raced" THEN r ELSE NoStation]
       /\ told' = [told EXCEPT ![s] = IF g = "serial" THEN who ELSE {}]
       /\ checked' = IF s \in checked /\ g # "raced" THEN checked \cup {s} ELSE checked \ {s}
       /\ Free(c) /\ UNCHANGED <<breaker, healthy, everSick>>
  <2>1. rows' = [rows EXCEPT ![s] = row]
    BY <1>2, <1>7 DEF SaveOccupant
  <2>2. Track(s, f, r, who, s \in checked)
    BY <1>8, <1>9, <1>10, <1>11, Zenon
  <2>3. Free(c) /\ UNCHANGED <<breaker, healthy, everSick>>
    BY Zenon DEF SaveOccupant
  <2> QED BY <1>12, <2>1, <2>2, <2>3 DEF Track, FateAfter
<1>14. g # "raced" => rows[s] = read /\ fate[s] # "raced"
  BY <1>11, <1>12, FateIs DEF IInv
<1>15. ASSUME g = "serial"
       PROVE  who = {row.occupant} \ {NoOccupant}
  <2>1. rows[s] = read /\ fate[s] = "serial"
    BY <1>11, <1>12, <1>15, FateIs DEF IInv
  <2>2. told[s] = {read.occupant} \ {NoOccupant}
    BY <2>1 DEF IInv, SerialStation, AssociateId
  <2>3. CASE o = NoOccupant
    BY <1>6, <1>9, <2>2, <2>3
  <2>4. CASE o # NoOccupant
    BY <1>3, <1>6, <1>9, <2>2, <2>4
  <2> QED BY <2>3, <2>4
<1>16. ASSUME g # "raced" PROVE row.caps = r.caps /\ row.loc = r.loc
  BY <1>6, <1>8, <1>14, <1>16 DEF IInv, SerialStation
<1>17. ASSUME g # "raced", WrongRole(row.loc) PROVE s \notin checked' /\ everSick
  <2>1. rows[s].loc = row.loc
    BY <1>6, <1>14, <1>17
  <2>2. s \notin checked /\ everSick
    BY <1>14, <1>17, <2>1 DEF IInv, WrongRoleNeedsTrouble, WrongRole
  <2> QED BY <1>13, <2>2
<1>18. checked' \in {checked \cup {s}, checked \ {s}}
  BY <1>13
<1> QED BY <1>1, <1>13, <1>15, <1>16, <1>17, <1>18, SaveKeeps

-----------------------------------------------------------------------------
(* The invariant holds at the start and is kept by every step *)

\* No station, no request, a closed breaker.
LEMMA InvInit == Init => IInv
<1> SUFFICES ASSUME Init PROVE IInv
  OBVIOUS
<1>1. BreakerSound
  <2>1. IsFiniteSet({}) /\ Cardinality({}) = 0
    BY FS_EmptySet
  <2> QED BY <2>1, BreakerAssumption DEF Init, BreakerInit, NoCounts, BreakerSound, BreakerTypeOK
<1>2. RegistryTypeOK
  BY IdleSound, RowsAre DEF Init, RegistryTypeOK
<1>3. CallsSound /\ CurrentAreLookups /\ SickIsKnown
  BY IdleSound DEF Init, BreakerInit, CallsSound, CurrentAreLookups, SickIsKnown
<1>4. SerialStation
  BY DEF Init, SerialStation, AssociateId, NoStation
<1>5. WrongRoleNeedsTrouble
  BY StationAssumption DEF Init, WrongRoleNeedsTrouble
<1> QED BY <1>1, <1>2, <1>3, <1>4, <1>5 DEF IInv

\* facility-layout fails or recovers, the breaker's clock ticks, or nothing happens.
LEMMA WorldKeeps ==
    ASSUME IInv, Sicken \/ Heal \/ Clock \/ UNCHANGED vars
    PROVE  IInv'
<1>1. UNCHANGED <<rows, call, told, certified, checked, fate>>
  BY DEF Sicken, Heal, Clock, vars, history
<1>2. healthy' \in BOOLEAN /\ everSick' \in BOOLEAN /\ (everSick => everSick')
  BY DEF Sicken, Heal, Clock, vars, history, IInv, RegistryTypeOK
<1>3. BreakerSound' /\ current' \subseteq current /\ (state' # "closed" => state # "closed")
  <2>1. CASE UNCHANGED breaker
    BY <2>1 DEF breaker, IInv, BreakerSound, BreakerTypeOK
  <2>2. CASE Roll \/ Cool
    BY <2>2, NewGeneration DEF Roll, Cool
  <2> QED BY <2>1, <2>2 DEF Sicken, Heal, Clock, vars
<1>4. ~healthy' => everSick'
  BY DEF Sicken, Heal, Clock, vars, history, IInv, SickIsKnown
<1>5. RegistryTypeOK'
  BY <1>1, <1>2 DEF IInv, RegistryTypeOK
<1>6. CurrentAreLookups'
  BY <1>1, <1>3 DEF IInv, CurrentAreLookups
<1>7. CallsSound'
  BY <1>1, <1>2 DEF IInv, CallsSound, CallSound
<1>8. SickIsKnown'
  BY <1>2, <1>3, <1>4 DEF IInv, SickIsKnown
<1>9. SerialStation'
  BY <1>1 DEF IInv, SerialStation, AssociateId
<1>10. WrongRoleNeedsTrouble'
  BY <1>1, <1>2 DEF IInv, WrongRoleNeedsTrouble
<1> QED BY <1>3, <1>5, <1>6, <1>7, <1>8, <1>9, <1>10 DEF IInv

\* Every step keeps the invariant.
LEMMA InvNext == IInv /\ [Next]_vars => IInv'
<1> SUFFICES ASSUME IInv, [Next]_vars PROVE IInv'
  OBVIOUS
<1>1. CASE Next
  BY <1>1, WorldKeeps, BeginRegisterKeeps, LookupKeeps, CheckKeeps, SaveRegisterKeeps, SaveOccupantKeeps
     DEF Next
<1> QED BY <1>1, WorldKeeps

-----------------------------------------------------------------------------
(* The theorems *)

\* The invariant holds in every reachable state.
LEMMA Invariant == Spec => []IInv
BY InvInit, InvNext, PTL DEF Spec

\* Every variable keeps its type: in particular no counter of the breaker
\* leaves its range, whatever calls are cancelled or answered in a later
\* generation, and no lookup makes an attempt beyond maxRetryAttempts.
THEOREM TypeCorrect == Spec => []TypeOK
<1>1. IInv => TypeOK
  BY DEF IInv, RegistryTypeOK, BreakerSound, TypeOK
<1> QED BY <1>1, Invariant, PTL

\* A station no save raced on has the capabilities and the location of its last
\* registration, and if besides no worker was misled by a lost answer or a
\* re-registration, the one worker told to be checked in is the one in the row.
THEOREM SerialStationsAreTrue == Spec => []SerialStation
<1>1. IInv => SerialStation
  BY DEF IInv
<1> QED BY <1>1, Invariant, PTL

\* Only a lookup without an answer, and only once facility-layout has failed,
\* lets a station in at a location that is not a work center.
THEOREM WrongRolesNeedTrouble == Spec => []WrongRoleNeedsTrouble
<1>1. IInv => WrongRoleNeedsTrouble
  BY DEF IInv
<1> QED BY <1>1, Invariant, PTL
=============================================================================
