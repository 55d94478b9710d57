------------------------------ MODULE MCOutbox ------------------------------
(* Three units of work on one task: w1 claims it, w2 completes it (two rows,  *)
(* one per topic), and sweep is a CPT report, which locks no row.            *)
EXTENDS Outbox

CONSTANTS w1, w2, sweep

MCEventsOf == [x \in Txs |-> IF x = w1 THEN <<"TaskClaimed">>
                             ELSE IF x = w2 THEN <<"TaskCompleted">>
                             ELSE <<"TaskCPTMissed">>]
MCKeyOf == [x \in Txs |-> "task"]
=============================================================================
