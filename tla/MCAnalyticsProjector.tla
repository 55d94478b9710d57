------------------------ MODULE MCAnalyticsProjector ------------------------
(* One PICK task that station A claims, loses and claims again; the packages *)
(* of two orders, one manifested exactly at its CPT and one without a SLAM   *)
(* task; and one message that is not a CloudEvent.                           *)
EXTENDS AnalyticsProjector

CONSTANTS c1, c2

Event(kind, key, station, order, at) ==
    [kind |-> kind, key |-> key, station |-> station, order |-> order, at |-> at]
MCHistory ==
    <<Event("TaskClaimed", "t", "A", "o", 1), Event("LeaseExpired", "t", "A", "o", 3),
      Event("TaskClaimed", "t", "A", "o", 4), Event("TaskCompleted", "t", "A", "o", 5),
      Event("malformed", "p", "A", "o", 5),
      Event("PackageManifested", "p", "A", "o", 6), Event("PackageManifested", "p", "A", "x", 6)>>
MCTasks == {[id |-> "t", type |-> "PICK", order |-> "o", cpt |-> 6, station |-> "A"],
            [id |-> "s", type |-> "SLAM", order |-> "o", cpt |-> 6, station |-> "B"]}

\* The history meets the hypotheses of AnalyticsProjectorProofs.
ASSUME HistoryAssumption == OneCompletion /\ ClaimedFirst
=============================================================================
