------------------------------- MODULE Breaker -------------------------------
(***************************************************************************)
(* The circuit breaker in front of one outbound dependency: the gobreaker  *)
(* library (external) with the settings and the trip condition that        *)
(* internal/resilience gives it.  A generation is a closed window, an open *)
(* spell or a half-open cycle; the result of a call admitted in an earlier *)
(* generation is ignored.  Time is abstract: Roll and Cool are the library *)
(* noticing that its interval, or its cooldown, has passed.                *)
(***************************************************************************)
EXTENDS Integers, FiniteSets

CONSTANTS Calls,      \* the requests that can be in progress at once
          TripAfter,  \* consecutive failures that trip it (5)
          MinVolume,  \* minRequestVolumeForErrorRate (10)
          MaxWindow   \* bound: requests counted in one closed window

ASSUME BreakerAssumption ==
    /\ TripAfter \in Nat \ {0}
    /\ MinVolume \in Nat \ {0}
    /\ MaxWindow \in Nat \ {0}

VARIABLES state,   \* closed, half-open or open
          counts,  \* gobreaker.Counts of the current generation
          current  \* calls in progress that were admitted in this generation

breaker == <<state, counts, current>>

NoCounts == [requests |-> 0, failures |-> 0, streak |-> 0, wins |-> 0]

BreakerTypeOK ==
    /\ state \in {"closed", "half-open", "open"}
    /\ counts \in [requests : 0..MaxWindow, failures : 0..MaxWindow,
                   streak : 0..TripAfter, wins : 0..MaxWindow]
    /\ current \subseteq Calls

BreakerInit == state = "closed" /\ counts = NoCounts /\ current = {}

\* DefaultMaxRequests
MaxRequests == 1

ReadyToTrip(k) ==
    \/ k.streak >= TripAfter
    \/ k.requests >= MinVolume /\ 2 * k.failures > k.requests

\* toNewGeneration
SetState(s) == state' = s /\ counts' = NoCounts /\ current' = {}

Roll == state = "closed" /\ counts # NoCounts /\ SetState("closed")

Cool == state = "open" /\ SetState("half-open")

\* beforeRequest: ErrOpenState and ErrTooManyRequests
Rejects == state = "open" \/ (state = "half-open" /\ counts.requests >= MaxRequests)

Admit(c) ==
    /\ ~Rejects
    /\ counts.requests < MaxWindow
    /\ counts' = [counts EXCEPT !.requests = @ + 1]
    /\ current' = current \cup {c}
    /\ UNCHANGED state

\* afterRequest
Succeeded(c) ==
    \/ c \notin current /\ UNCHANGED breaker
    \/ /\ c \in current /\ state = "closed"
       /\ counts' = [counts EXCEPT !.streak = 0]
       /\ current' = current \ {c}
       /\ UNCHANGED state
    \/ /\ c \in current /\ state = "half-open"
       /\ IF counts.wins + 1 >= MaxRequests
          THEN SetState("closed")
          ELSE /\ counts' = [counts EXCEPT !.wins = @ + 1]
               /\ current' = current \ {c}
               /\ UNCHANGED state

Failed(c) ==
    \/ c \notin current /\ UNCHANGED breaker
    \/ /\ c \in current /\ state = "closed"
       /\ LET k == [counts EXCEPT !.failures = @ + 1, !.streak = @ + 1]
          IN  IF ReadyToTrip(k)
              THEN SetState("open")
              ELSE counts' = k /\ current' = current \ {c} /\ UNCHANGED state
    \/ c \in current /\ state = "half-open" /\ SetState("open")

\* IsExcluded: context.Canceled is neither a success nor a failure.  Whether
\* the request stays in the count is the library's choice.
Excluded(c) ==
    \/ c \notin current /\ UNCHANGED breaker
    \/ /\ c \in current
       /\ counts' \in {counts, [counts EXCEPT !.requests = @ - 1]}
       /\ current' = current \ {c}
       /\ UNCHANGED state

\* A half-open breaker whose only probe is gone without a result.
Wedged == state = "half-open" /\ Rejects /\ current = {}
=============================================================================
