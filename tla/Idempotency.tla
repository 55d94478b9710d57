---------------------------- MODULE Idempotency -----------------------------
(***************************************************************************)
(* The Idempotency-Key middleware around POST /tasks.  One transaction     *)
(* inserts the key, runs the handler (CreateTask joins the transaction),   *)
(* records the response next to the key and commits.  A second INSERT of   *)
(* the same key waits on the unique index until the first transaction is   *)
(* over, then either is the first itself or replays the stored response.   *)
(***************************************************************************)
EXTENDS Integers, FiniteSets

CONSTANTS Keys, Bodies,
          Invalid,    \* the bodies validation refuses
          Requests,   \* slots for requests in flight
          MaxTasks,   \* bound: task ids handed out
          MaxFaults   \* bound: failures and crashes

ASSUME IdempotencyAssumption ==
    /\ Invalid \subseteq Bodies
    /\ "none" \notin Keys      \* it stands for no key
    /\ MaxTasks \in Nat
    /\ MaxFaults \in Nat

VARIABLES keys,     \* idempotency_keys, the committed rows
          tasks,    \* the committed tasks
          phase,    \* per request: where its transaction stands
          arg,      \* per request: key and body
          draft,    \* per request: the response its handler gave, or none
          answers,  \* every response a client received
          ids, faults

vars == <<keys, tasks, phase, arg, draft, answers, ids, faults>>

Phases == {"idle", "insert", "handler", "record", "replay"}
TaskIds == 1..MaxTasks
\* A response: 201 with a task id, 400 (validation), 422 (key reused), 500.
Response == [code : {201}, task : TaskIds] \cup [code : {400, 422, 500}, task : {0}]
Reply(c) == [code |-> c, task |-> 0]
Created(i) == [code |-> 201, task |-> i]
Arg == [key : Keys, body : Bodies]
NoReply == Reply(0)
NoArg == [key |-> "none", body |-> "none"]
NoRow == [body |-> "none", reply |-> NoReply]

\* Rows and requests are well formed; a response is pending only before its commit.
TypeOK ==
    /\ keys \in [Keys -> [body : Bodies, reply : Response] \cup {NoRow}]
    /\ tasks \subseteq [id : TaskIds, key : Keys, body : Bodies]
    /\ phase \in [Requests -> Phases]
    /\ arg \in [Requests -> Arg \cup {NoArg}]
    /\ draft \in [Requests -> Response \cup {NoReply}]
    /\ \A r \in Requests : /\ phase[r] = "idle" <=> arg[r] = NoArg
                           /\ phase[r] = "record" <=> draft[r] # NoReply
    /\ answers \subseteq [arg : Arg, reply : Response]
    /\ ids \in 0..MaxTasks
    /\ faults \in 0..MaxFaults

Init ==
    /\ keys = [k \in Keys |-> NoRow]
    /\ tasks = {}
    /\ phase = [r \in Requests |-> "idle"]
    /\ arg = [r \in Requests |-> NoArg]
    /\ draft = [r \in Requests |-> NoReply]
    /\ answers = {}
    /\ ids = 0
    /\ faults = 0

GoTo(r, p) == phase' = [phase EXCEPT ![r] = p]

\* The client has its response and the request is over.
Answer(r, reply) ==
    /\ answers' = answers \cup {[arg |-> arg[r], reply |-> reply]}
    /\ phase' = [phase EXCEPT ![r] = "idle"]
    /\ arg' = [arg EXCEPT ![r] = NoArg]
    /\ draft' = [draft EXCEPT ![r] = NoReply]

\* Begin: the body is hashed, the transaction opened.
Begin(r, k, b) ==
    /\ phase[r] = "idle"
    /\ arg' = [arg EXCEPT ![r] = [key |-> k, body |-> b]]
    /\ GoTo(r, "insert")
    /\ UNCHANGED <<keys, tasks, draft, answers, ids, faults>>

\* An open transaction that inserted the key.
Holder(k) == {r \in Requests : phase[r] \in {"handler", "record"} /\ arg[r].key = k}

\* Mutant: the INSERT does not wait for a transaction that holds the key.
InsertWithoutWaiting(r) ==
    /\ phase[r] = "insert"
    /\ keys[arg[r].key] = NoRow
    /\ GoTo(r, "handler")
    /\ UNCHANGED <<keys, tasks, arg, draft, answers, ids, faults>>

\* INSERT ... ON CONFLICT DO NOTHING, one row affected.
InsertFresh(r) ==
    /\ phase[r] = "insert"
    /\ keys[arg[r].key] = NoRow
    /\ Holder(arg[r].key) = {}
    /\ GoTo(r, "handler")
    /\ UNCHANGED <<keys, tasks, arg, draft, answers, ids, faults>>

\* Mutant: a reused key with another body waits for a row of its own.
InsertConflictSameBody(r) ==
    /\ phase[r] = "insert"
    /\ keys[arg[r].key] # NoRow
    /\ keys[arg[r].key].body = arg[r].body
    /\ GoTo(r, "replay")
    /\ UNCHANGED <<keys, tasks, arg, draft, answers, ids, faults>>

\* No row affected: the key is committed.  This transaction is rolled back.
InsertConflict(r) ==
    /\ phase[r] = "insert"
    /\ keys[arg[r].key] # NoRow
    /\ GoTo(r, "replay")
    /\ UNCHANGED <<keys, tasks, arg, draft, answers, ids, faults>>

\* Mutant: the request hash is not compared.
ReplayAnyBody(row, b) == row.reply

\* The stored response, unless the key came with another body.
ReplayOf(row, b) == IF row.body = b THEN row.reply ELSE Reply(422)

replayCachedResponse(r) ==
    /\ phase[r] = "replay"
    /\ Answer(r, ReplayOf(keys[arg[r].key], arg[r].body))
    /\ UNCHANGED <<keys, tasks, ids, faults>>

\* The handler runs against the recorder: validation, then CreateTask.
Handle(r) ==
    /\ phase[r] = "handler"
    /\ \/ /\ arg[r].body \in Invalid
          /\ draft' = [draft EXCEPT ![r] = Reply(400)]
          /\ UNCHANGED ids
       \/ /\ arg[r].body \notin Invalid
          /\ ids < MaxTasks
          /\ ids' = ids + 1
          /\ draft' = [draft EXCEPT ![r] = Created(ids')]
    /\ GoTo(r, "record")
    /\ UNCHANGED <<keys, tasks, arg, answers, faults>>

Fault == faults < MaxFaults /\ faults' = faults + 1

\* UPDATE of the response and COMMIT: key, response and task become visible.
Commit(r) ==
    /\ tasks' = IF draft[r].code = 201
                THEN tasks \cup {[id |-> draft[r].task, key |-> arg[r].key, body |-> arg[r].body]}
                ELSE tasks
    /\ keys' = [keys EXCEPT ![arg[r].key] = [body |-> arg[r].body, reply |-> draft[r]]]

\* The client sees the handler's response only after the commit.
Record(r) ==
    /\ phase[r] = "record"
    /\ Commit(r)
    /\ Answer(r, draft[r])
    /\ UNCHANGED <<ids, faults>>

\* The commit took effect, its acknowledgement was lost.
RecordUnacknowledged(r) ==
    /\ phase[r] = "record"
    /\ Fault
    /\ Commit(r)
    /\ Answer(r, Reply(500))
    /\ UNCHANGED ids

\* A statement failed, the handler panicked, or the replica died: rolled
\* back, nothing cached.  An id drawn by the handler is not drawn again.
Fail(r) ==
    /\ phase[r] # "idle"
    /\ Fault
    /\ Answer(r, Reply(500))
    /\ UNCHANGED <<keys, tasks, ids>>

Step(r) ==
    \/ InsertFresh(r) \/ InsertConflict(r) \/ replayCachedResponse(r)
    \/ Handle(r) \/ Record(r) \/ RecordUnacknowledged(r) \/ Fail(r)

Next ==
    \E r \in Requests :
        \/ \E k \in Keys, b \in Bodies : Begin(r, k, b)
        \/ Step(r)

Spec == Init /\ [][Next]_vars

\* A request in flight is executed until it is answered.
FairSpec == Spec /\ \A r \in Requests : WF_vars(Step(r))

-----------------------------------------------------------------------------
(* Properties *)

\* The state is well formed, and a retried creation is applied once: a key
\* stands for at most one task, whatever fails and whenever the client tries
\* again.
OneTaskPerKey ==
    /\ TypeOK
    /\ \A s, t \in tasks : s.key = t.key => s = t

\* The client can trust its response: a 201 names a task that exists, made
\* from that client's key and body, and every 201 or 400 for one key and
\* body is the same response.
AnswersHold ==
    \A a \in answers :
        /\ a.reply.code = 201 =>
              [id |-> a.reply.task, key |-> a.arg.key, body |-> a.arg.body] \in tasks
        /\ \A b \in answers :
              (a.arg = b.arg /\ {a.reply.code, b.reply.code} \subseteq {201, 400})
                  => a.reply = b.reply

\* No request waits for ever behind another request with its key.
EveryRequestAnswered == \A r \in Requests : phase[r] = "insert" ~> phase[r] = "idle"
=============================================================================
