--------------------------- MODULE StationRegistry ---------------------------
(***************************************************************************)
(* The stations and who stands at them.  RegisterStation writes a station  *)
(* anew after asking facility-layout for the role of its location, through *)
(* a retry loop and the circuit breaker; any trouble with that lookup      *)
(* registers the station unchecked.  CheckInStation and CheckOutStation    *)
(* read the row, change the aggregate and save the whole row, with no lock *)
(* between the read and the save.                                          *)
(***************************************************************************)
EXTENDS Breaker

CONSTANTS Stations, Occupants,
          Registrations,  \* the [caps, loc] that callers register
          RoleOf,         \* facility-layout's role of each location
          NoLocation,     \* the empty location code
          UnknownRole,    \* the code resolves to no slot: 400 or 404
          NoOccupant,
          MaxAttempts     \* maxRetryAttempts (3)

NoStation == [caps |-> {}, occupant |-> NoOccupant, loc |-> "not registered"]

ASSUME StationAssumption ==
    /\ \A r \in Registrations : r.loc # NoLocation => r.loc \in DOMAIN RoleOf
    /\ {NoLocation, NoStation.loc} \cap DOMAIN RoleOf = {}   \* neither is a location
    /\ NoOccupant \notin Occupants
    /\ MaxAttempts \in Nat \ {0}

RowOf(r, o) == [caps |-> r.caps, occupant |-> o, loc |-> r.loc]
Rows == {NoStation} \cup
        UNION {{RowOf(r, o) : o \in Occupants \cup {NoOccupant}} : r \in Registrations}

VARIABLES rows,      \* the stations table
          call,      \* per request: what it does and how far it is
          healthy,   \* does facility-layout answer in time?
          told,      \* history: occupants told they are checked in, and not checked out
          certified, \* history: the last registration of each station
          checked,   \* history: stations whose last registration got an answer
          fate,      \* history: "misled" when a station was registered again
                     \* while occupied or a worker got an error for a save that
                     \* took effect, "raced" once a save overwrote what it had
                     \* not read; before that, "serial"
          everSick   \* history: has the dependency ever been unhealthy?

history == <<told, certified, checked, fate, everSick>>
vars == <<breaker, rows, call, healthy, history>>
-----------------------------------------------------------------------------
Idle == [op |-> "idle"]
OpOf(c, op) == call[c].op = op
Free(c) == call' = [call EXCEPT ![c] = Idle]

\* Mutant: known wrong roles are let through.
RefusesNone(loc) == FALSE

\* ErrStationLocationNotWorkCenter
Refuses(loc) == RoleOf[loc] \notin {"WorkCenter", UnknownRole}

\* The history of station s, kept as far as its fate leaves it of interest.
Track(s, f, r, who, answered) ==
    LET g == IF fate[s] = "raced" \/ f = "serial" THEN fate[s] ELSE f
    IN  /\ fate' = [fate EXCEPT ![s] = g]
        /\ certified' = [certified EXCEPT ![s] = IF g # "raced" THEN r ELSE NoStation]
        /\ told' = [told EXCEPT ![s] = IF g = "serial" THEN who ELSE {}]
        /\ checked' = IF answered /\ g # "raced" THEN checked \cup {s} ELSE checked \ {s}

\* The associate that completion events of station s name.
AssociateId(s) == rows[s].occupant
-----------------------------------------------------------------------------
(* RegisterStation.                                                          *)

ToSave(c, s, r, ok) ==
    call' = [call EXCEPT ![c] = [op |-> "register", station |-> s, reg |-> r, ok |-> ok]]

\* The breaker lets the lookup through, or rejects it and PermissiveLookup
\* answers in its place.
GetRole(c, s, r) ==
    \/ /\ Rejects
       /\ ToSave(c, s, r, FALSE)
       /\ UNCHANGED breaker
    \/ /\ Admit(c)
       /\ call' = [call EXCEPT ![c] = [op |-> "lookup", station |-> s, reg |-> r, tries |-> 0]]

\* A request without a location code goes straight to the save.
BeginRegister(c, s, r) ==
    /\ OpOf(c, "idle")
    /\ \/ /\ r.loc = NoLocation
          /\ ToSave(c, s, r, FALSE)
          /\ UNCHANGED breaker
       \/ /\ r.loc # NoLocation
          /\ GetRole(c, s, r)
    /\ UNCHANGED <<rows, healthy, history>>

\* The lookup of a request is over, with an answer or without one.
LookupEnds(c, ok) == ToSave(c, call[c].station, call[c].reg, ok)

\* Mutant: a 404 is an error instead of an answer.
AnswerRoleOr404(c) ==
    /\ OpOf(c, "lookup") /\ healthy
    /\ IF RoleOf[call[c].reg.loc] = UnknownRole THEN Failed(c) ELSE Succeeded(c)
    /\ IF Refuses(call[c].reg.loc) THEN Free(c) ELSE LookupEnds(c, TRUE)
    /\ UNCHANGED <<rows, healthy, history>>

\* facility-layout answers an attempt: a role, or that it knows of no such slot.
AnswerRole(c) ==
    /\ OpOf(c, "lookup") /\ healthy
    /\ Succeeded(c)
    /\ IF Refuses(call[c].reg.loc) THEN Free(c) ELSE LookupEnds(c, TRUE)
    /\ UNCHANGED <<rows, healthy, history>>

\* Mutant: the retries have no limit.
AttemptFailsForever(c) ==
    /\ OpOf(c, "lookup") /\ ~healthy
    /\ call' = [call EXCEPT ![c].tries = @ + 1]
    /\ UNCHANGED <<breaker, rows, healthy, history>>

\* An attempt fails and is retried; the last one fails the lookup, which is
\* one failure for the breaker and none for the registration.
AttemptFails(c) ==
    /\ OpOf(c, "lookup") /\ ~healthy
    /\ \/ /\ call[c].tries + 1 < MaxAttempts
          /\ call' = [call EXCEPT ![c].tries = @ + 1]
          /\ UNCHANGED breaker
       \/ /\ call[c].tries + 1 = MaxAttempts
          /\ Failed(c)
          /\ LookupEnds(c, FALSE)
    /\ UNCHANGED <<rows, healthy, history>>

\* Mutant: the call has no deadline.
NoTimeout(c) == FALSE /\ UNCHANGED vars

\* CallTimeout: the deadline ends the attempt and the retries.
Timeout(c) ==
    /\ OpOf(c, "lookup") /\ ~healthy
    /\ Failed(c)
    /\ LookupEnds(c, FALSE)
    /\ UNCHANGED <<rows, healthy, history>>

\* The caller gives up: the lookup ends with context.Canceled, and the save
\* that follows fails on the same context.
Cancel(c) ==
    /\ OpOf(c, "lookup")
    /\ Excluded(c)
    /\ Free(c)
    /\ UNCHANGED <<rows, healthy, history>>

\* The upsert of a fresh station.New: nobody stands at it.  Whether the caller
\* hears of it changes nothing here.
SaveRegister(c) ==
    LET s == call[c].station
        r == call[c].reg
    IN  /\ OpOf(c, "register")
        /\ rows' = [rows EXCEPT ![s] = RowOf(r, NoOccupant)]
        /\ Track(s, IF rows[s].occupant = NoOccupant THEN "serial" ELSE "misled", r, told[s], call[c].ok)
        /\ Free(c)
        /\ UNCHANGED <<breaker, healthy, everSick>>
-----------------------------------------------------------------------------
(* CheckInStation and CheckOutStation.                                       *)

\* Mutant: the station's occupant is not looked at.
BeginCheckInAnyway(c, s, o) ==
    /\ OpOf(c, "idle")
    /\ rows[s] # NoStation
    /\ call' = [call EXCEPT ![c] = [op |-> "check-in", station |-> s, read |-> rows[s], occupant |-> o]]
    /\ UNCHANGED <<breaker, rows, healthy, history>>

\* FindById and CheckIn; ErrStationNotFound and ErrOccupied change nothing.
BeginCheckIn(c, s, o) ==
    /\ OpOf(c, "idle")
    /\ rows[s] # NoStation
    /\ rows[s].occupant = NoOccupant
    /\ call' = [call EXCEPT ![c] = [op |-> "check-in", station |-> s, read |-> rows[s], occupant |-> o]]
    /\ UNCHANGED <<breaker, rows, healthy, history>>

\* FindById and CheckOut; ErrStationNotFound and ErrNotOccupied change nothing.
BeginCheckOut(c, s) ==
    /\ OpOf(c, "idle")
    /\ rows[s] # NoStation
    /\ rows[s].occupant # NoOccupant
    /\ call' = [call EXCEPT ![c] = [op |-> "check-out", station |-> s, read |-> rows[s], occupant |-> NoOccupant]]
    /\ UNCHANGED <<breaker, rows, healthy, history>>

\* Save: the row read, with its new occupant.  The upsert may take effect and
\* the caller still get an error.
SaveOccupant(c) ==
    LET s == call[c].station
        o == call[c].occupant
    IN  /\ call[c].op \in {"check-in", "check-out"}
        /\ rows' = [rows EXCEPT ![s] = [call[c].read EXCEPT !.occupant = o]]
        /\ \E heard \in BOOLEAN :
              Track(s, IF rows[s] # call[c].read THEN "raced" ELSE IF heard THEN "serial" ELSE "misled",
                    certified[s], IF o = NoOccupant THEN {} ELSE told[s] \cup {o}, s \in checked)
        /\ Free(c)
        /\ UNCHANGED <<breaker, healthy, everSick>>

\* The statement fails without effect: the caller gets the error.
SaveFails(c) ==
    /\ call[c].op \in {"register", "check-in", "check-out"}
    /\ Free(c)
    /\ UNCHANGED <<breaker, rows, healthy, history>>
-----------------------------------------------------------------------------
Sicken ==
    /\ healthy
    /\ healthy' = FALSE /\ everSick' = TRUE
    /\ UNCHANGED <<breaker, rows, call, told, certified, checked, fate>>

Heal ==
    /\ ~healthy
    /\ healthy' = TRUE
    /\ UNCHANGED <<breaker, rows, call, history>>

Clock ==
    /\ Roll \/ Cool
    /\ UNCHANGED <<rows, call, healthy, history>>

Init ==
    /\ BreakerInit
    /\ rows = [s \in Stations |-> NoStation]
    /\ call = [c \in Calls |-> Idle]
    /\ healthy = TRUE
    /\ told = [s \in Stations |-> {}]
    /\ certified = [s \in Stations |-> NoStation]
    /\ checked = {}
    /\ fate = [s \in Stations |-> "serial"]
    /\ everSick = FALSE

Asks == \E c \in Calls, s \in Stations, r \in Registrations :
            r.loc # NoLocation /\ BeginRegister(c, s, r)

Next ==
    \/ Sicken \/ Heal \/ Clock
    \/ \E c \in Calls :
          \/ \E s \in Stations, r \in Registrations : BeginRegister(c, s, r)
          \/ \E s \in Stations, o \in Occupants : BeginCheckIn(c, s, o)
          \/ \E s \in Stations : BeginCheckOut(c, s)
          \/ AnswerRole(c) \/ AttemptFails(c) \/ Timeout(c) \/ Cancel(c)
          \/ SaveRegister(c) \/ SaveOccupant(c) \/ SaveFails(c)

Spec == Init /\ [][Next]_vars

\* A lookup is answered or runs into its deadline; a statement ends; the
\* breaker's cooldown passes.  Nobody has to come, and facility-layout need
\* never recover.
FairSpec ==
    /\ Spec
    /\ WF_vars(Cool /\ UNCHANGED <<rows, call, healthy, history>>)
    /\ \A c \in Calls : /\ WF_vars(AnswerRole(c) \/ Timeout(c))
                        /\ WF_vars(SaveRegister(c) \/ SaveOccupant(c) \/ SaveFails(c))
-----------------------------------------------------------------------------
(* Properties.                                                               *)

Requests ==
    {Idle}
    \cup [op : {"lookup"}, station : Stations, reg : Registrations, tries : 0..MaxAttempts - 1]
    \cup [op : {"register"}, station : Stations, reg : Registrations, ok : BOOLEAN]
    \cup [op : {"check-in", "check-out"}, station : Stations, read : Rows, occupant : Occupants \cup {NoOccupant}]

\* Every variable has its type; the lookup of a request makes no more than
\* maxRetryAttempts attempts.
TypeOK ==
    /\ BreakerTypeOK
    /\ rows \in [Stations -> Rows]
    /\ call \in [Calls -> Requests]
    /\ healthy \in BOOLEAN
    /\ told \in [Stations -> SUBSET Occupants]
    /\ certified \in [Stations -> Registrations \cup {NoStation}]
    /\ checked \subseteq Stations
    /\ fate \in [Stations -> {"serial", "misled", "raced"}]
    /\ everSick \in BOOLEAN

\* As long as no save overwrote a row it had not read, a station has the
\* capabilities and the location of its last registration, through check-ins,
\* check-outs and lost answers; and if besides no worker was misled, the one
\* occupant told "checked in" is the one in the row (whom completion events
\* name as the associate), and nobody else believes to stand there: "one
\* occupant at a time" (check_in_station.go).
SerialStation ==
    \A s \in Stations :
        /\ fate[s] = "serial" => told[s] = {AssociateId(s)} \ {NoOccupant}
        /\ fate[s] # "raced" => rows[s].caps = certified[s].caps /\ rows[s].loc = certified[s].loc

\* One occupant at a time, a second check-in is refused (comment of
\* CheckInStation): nobody takes a station over from another worker.  Two
\* check-ins that both read it free break it.
OccupantsTakeTurns ==
    [][\A s \in Stations :
          (rows[s].occupant # NoOccupant /\ rows'[s].occupant # NoOccupant) =>
              rows'[s].occupant = rows[s].occupant]_vars

\* Unless a save overwrote what it had not read, a station whose location has
\* a known role other than WorkCenter is one whose last registration got no
\* answer, and there is none before facility-layout first fails, the breaker's
\* rejections included: only trouble with the lookup lets a wrong location in
\* (RegisterStation.Execute).
WrongRoleNeedsTrouble ==
    \A s \in Stations :
        fate[s] # "raced" /\ rows[s].loc \in DOMAIN RoleOf /\ RoleOf[rows[s].loc] \notin {"WorkCenter", UnknownRole}
            => s \notin checked /\ everSick

\* Every request ends, even when facility-layout hangs for good: the lookup is
\* never a hard dependency of a registration.
EveryRequestEnds == \A c \in Calls : call[c].op # "idle" ~> call[c].op = "idle"

\* Once facility-layout is healthy for good and registrations keep asking for
\* roles, the breaker closes again and again, so locations are checked again;
\* the exceptions are callers that cancel for ever, and a half-open breaker
\* whose probe was cancelled, if the library keeps counting that probe.
BreakerRecovers ==
    <>[]healthy /\ []<><<Asks>>_vars
        => []<>(state = "closed" \/ Wedged) \/ []<><<\E c \in Calls : Cancel(c)>>_vars
=============================================================================
