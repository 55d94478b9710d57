--------------------------- MODULE ClaimRegister ---------------------------
(***************************************************************************)
(* What the task pool promises a station: a task is granted to one station *)
(* at a time, for at least LeaseDuration, and once somebody has finished   *)
(* it nobody is granted it again.  TaskPool implements this as long as no  *)
(* use case but SaveClaim and Complete rewrites a claimed row.             *)
(***************************************************************************)
EXTENDS Naturals

CONSTANTS Tasks, Stations, LeaseDuration,
          Time,     \* the times a grant can start at
          GrantIds  \* what tells two grants of a task apart

VARIABLES grants,  \* per task: the grants made
          done     \* the tasks that have been finished

rvars == <<grants, done>>

AGrant == [id : GrantIds, station : Stations, at : Time]

RInit ==
    /\ grants = [t \in Tasks |-> {}]
    /\ done = {}

\* A station holds t from g.at on: every earlier grant has run out by then.
Grant(t, g) ==
    /\ t \notin done
    /\ \A h \in grants[t] : h.id # g.id /\ h.at + LeaseDuration <= g.at
    /\ grants' = [grants EXCEPT ![t] = @ \cup {g}]
    /\ UNCHANGED done

\* Only a task that was granted can be finished, and it stays finished.
Finish(t) ==
    /\ grants[t] # {}
    /\ done' = done \cup {t}
    /\ UNCHANGED grants

RNext ==
    \E t \in Tasks : \/ \E g \in AGrant : Grant(t, g)
                     \/ Finish(t)

RSpec == RInit /\ [][RNext]_rvars
=============================================================================
