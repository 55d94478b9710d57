------------------------- MODULE IdempotencyProofs --------------------------
(***************************************************************************)
(* Theorems about the Idempotency-Key middleware, for every set of keys,   *)
(* bodies and requests in flight and any number of failures.               *)
(***************************************************************************)
EXTENDS Idempotency, TLAPS

-----------------------------------------------------------------------------
(* The inductive invariant *)

\* A response that stands for the key: it is recorded, and replayed.
Final(reply) == reply.code \in {201, 400}

\* The transaction that inserted a key is the only one, and the key is not
\* committed while it is open.
OneHolder ==
    \A r \in Requests : phase[r] \in {"handler", "record"} =>
        /\ keys[arg[r].key] = NoRow
        /\ \A q \in Holder(arg[r].key) : q = r

\* A request replays only a committed key.
ReplaysCommitted == \A r \in Requests : phase[r] = "replay" => keys[arg[r].key] # NoRow

\* Each task is the one its key's row names, and the other way round.
RowNamesTask ==
    /\ \A t \in tasks : keys[t.key] = [body |-> t.body, reply |-> Created(t.id)]
    /\ \A k \in Keys : keys[k].reply.code = 201 =>
           [id |-> keys[k].reply.task, key |-> k, body |-> keys[k].body] \in tasks

\* A final response that a client holds is the one in its key's row.
AnswerIsRecorded ==
    \A a \in answers : Final(a.reply) =>
        keys[a.arg.key] = [body |-> a.arg.body, reply |-> a.reply]

IInv == TypeOK /\ OneHolder /\ ReplaysCommitted /\ RowNamesTask /\ AnswerIsRecorded

-----------------------------------------------------------------------------
(* Facts about the operators *)

\* The responses a request can be given are responses.
LEMMA Replies ==
    /\ Reply(400) \in Response /\ Reply(422) \in Response /\ Reply(500) \in Response
    /\ NoReply \notin Response
    /\ \A i \in TaskIds : Created(i) \in Response
    /\ \A x \in Response : x = [code |-> x.code, task |-> x.task]
BY DEF Reply, Response, NoReply, Created, TaskIds

\* A request past its first step has a key and a body.
LEMMA BusyHasArg ==
    ASSUME TypeOK, NEW r \in Requests, phase[r] # "idle"
    PROVE  arg[r] \in Arg /\ arg[r].key \in Keys /\ arg[r].body \in Bodies
BY DEF TypeOK, Arg

\* An answered request keeps the requests and the answers well typed.
LEMMA AnswerType ==
    ASSUME TypeOK, NEW r \in Requests, NEW reply \in Response,
           phase[r] # "idle", Answer(r, reply)
    PROVE  /\ phase' \in [Requests -> Phases]
           /\ arg' \in [Requests -> Arg \cup {NoArg}]
           /\ draft' \in [Requests -> Response \cup {NoReply}]
           /\ \A q \in Requests : /\ phase'[q] = "idle" <=> arg'[q] = NoArg
                                  /\ phase'[q] = "record" <=> draft'[q] # NoReply
           /\ answers' \subseteq [arg : Arg, reply : Response]
<1>1. [arg |-> arg[r], reply |-> reply] \in [arg : Arg, reply : Response]
  BY BusyHasArg
<1> QED BY <1>1 DEF Answer, TypeOK, Phases

-----------------------------------------------------------------------------
(* The invariant holds at the start *)

\* With no key, no task and no request there is nothing to contradict.
LEMMA InvInit == Init => IInv
BY IdempotencyAssumption DEF Init, IInv, TypeOK, Phases, OneHolder, ReplaysCommitted, RowNamesTask,
     AnswerIsRecorded, NoRow, NoReply, Reply

-----------------------------------------------------------------------------
(* Every step keeps it *)

\* A step that only moves request r on, with rows and answers as they were,
\* keeps what is said of rows and answers.
LEMMA TablesUnchanged ==
    ASSUME IInv, UNCHANGED <<keys, tasks, answers>>
    PROVE  RowNamesTask' /\ AnswerIsRecorded'
BY DEF IInv, RowNamesTask, AnswerIsRecorded

\* A request that ends without a commit frees its key, if it held one.
LEMMA AnswerKeepsHolders ==
    ASSUME IInv, NEW r \in Requests, NEW reply, Answer(r, reply), UNCHANGED keys
    PROVE  OneHolder' /\ ReplaysCommitted'
BY DEF IInv, OneHolder, ReplaysCommitted, Holder, Answer, TypeOK

\* A commit makes the row, its task and the answer appear together; whatever
\* the client is told of it agrees with the row.
LEMMA CommitKeeps ==
    ASSUME IInv, NEW r \in Requests, NEW reply \in Response, phase[r] = "record",
           Commit(r), Answer(r, reply), UNCHANGED ids, faults' \in 0..MaxFaults,
           reply = draft[r] \/ ~Final(reply)
    PROVE  IInv'
<1> DEFINE k == arg[r].key
           row == [body |-> arg[r].body, reply |-> draft[r]]
           t == [id |-> draft[r].task, key |-> k, body |-> arg[r].body]
<1>1. k \in Keys /\ arg[r].body \in Bodies /\ arg[r] \in Arg
  BY BusyHasArg DEF IInv
<1>2. draft[r] \in Response /\ keys[k] = NoRow
  BY DEF IInv, TypeOK, OneHolder
<1>3. keys' = [keys EXCEPT ![k] = row] /\ keys'[k] = row
  BY <1>1 DEF Commit, IInv, TypeOK
<1>4. draft[r].code = 201 => draft[r].task \in TaskIds /\ draft[r] = Created(draft[r].task)
  BY <1>2 DEF Response, Created
<1>5. tasks' \subseteq [id : TaskIds, key : Keys, body : Bodies]
  BY <1>1, <1>4 DEF Commit, IInv, TypeOK
<1>6. TypeOK'
  <2>1. keys' \in [Keys -> [body : Bodies, reply : Response] \cup {NoRow}]
    BY <1>1, <1>2, <1>3 DEF IInv, TypeOK
  <2> QED BY <1>5, <2>1, AnswerType DEF IInv, TypeOK
<1>7. ASSUME NEW s \in tasks PROVE s.key # k
  <2>1. keys[s.key] = [body |-> s.body, reply |-> Created(s.id)] /\ s.id \in TaskIds
    BY DEF IInv, RowNamesTask, TypeOK
  <2>2. keys[s.key].reply \in Response
    BY <2>1, Replies
  <2> QED BY <2>2, <1>2, Replies DEF NoRow
<1>8. RowNamesTask'
  <2>1. ASSUME NEW s \in tasks' PROVE keys'[s.key] = [body |-> s.body, reply |-> Created(s.id)]
    <3>1. CASE s \in tasks
      <4>1. s.key \in Keys /\ s.key # k
        BY <1>7, <3>1 DEF IInv, TypeOK
      <4> QED BY <3>1, <4>1, <1>3 DEF IInv, RowNamesTask, TypeOK
    <3>2. CASE s \notin tasks
      <4>1. s = t /\ draft[r].code = 201
        BY <3>2, <2>1 DEF Commit
      <4> QED BY <4>1, <1>3, <1>4
    <3> QED BY <3>1, <3>2
  <2>2. ASSUME NEW j \in Keys, keys'[j].reply.code = 201
        PROVE  [id |-> keys'[j].reply.task, key |-> j, body |-> keys'[j].body] \in tasks'
    <3>1. CASE j = k
      BY <3>1, <2>2, <1>3 DEF Commit
    <3>2. CASE j # k
      <4>1. keys'[j] = keys[j]
        BY <3>2, <1>3 DEF IInv, TypeOK
      <4> QED BY <4>1, <2>2 DEF Commit, IInv, RowNamesTask
    <3> QED BY <3>1, <3>2
  <2> QED BY <2>1, <2>2 DEF RowNamesTask
<1>9. AnswerIsRecorded'
  <2> SUFFICES ASSUME NEW a \in answers', Final(a.reply)
               PROVE  keys'[a.arg.key] = [body |-> a.arg.body, reply |-> a.reply]
    BY DEF AnswerIsRecorded, Final
  <2>1. CASE a \in answers
    <3>1. keys[a.arg.key] = [body |-> a.arg.body, reply |-> a.reply] /\ a.arg.key \in Keys
      BY <2>1 DEF IInv, AnswerIsRecorded, TypeOK, Arg
    <3>2. a.reply \in Response
      BY <2>1 DEF IInv, TypeOK
    <3>3. a.arg.key # k
      BY <3>1, <3>2, <1>2, Replies DEF NoRow
    <3> QED BY <3>1, <3>3, <1>3 DEF IInv, TypeOK
  <2>2. CASE a \notin answers
    <3>1. a = [arg |-> arg[r], reply |-> reply]
      BY <2>2 DEF Answer
    <3> QED BY <3>1, <1>3
  <2> QED BY <2>1, <2>2
<1>10. OneHolder'
  <2> SUFFICES ASSUME NEW q \in Requests, phase'[q] \in {"handler", "record"}
               PROVE  keys'[arg'[q].key] = NoRow /\ \A p \in Holder(arg[q].key)' : p = q
    BY DEF OneHolder
  <2>1. q # r /\ phase[q] = phase'[q] /\ arg[q] = arg'[q]
    BY DEF Answer, IInv, TypeOK
  <2>2. arg[q].key \in Keys
    BY <2>1, BusyHasArg DEF IInv
  <2>3. arg[q].key # k
    BY <2>1 DEF IInv, OneHolder, Holder
  <2>4. keys'[arg'[q].key] = NoRow
    BY <2>1, <2>2, <2>3, <1>3 DEF IInv, TypeOK, OneHolder
  <2>5. ASSUME NEW p \in Requests, phase'[p] \in {"handler", "record"}, arg'[p].key = arg'[q].key
        PROVE  p = q
    <3>1. p # r /\ phase[p] = phase'[p] /\ arg[p] = arg'[p]
      BY <2>5 DEF Answer, IInv, TypeOK
    <3> QED BY <3>1, <2>1, <2>5 DEF IInv, OneHolder, Holder
  <2> QED BY <2>1, <2>4, <2>5 DEF Holder
<1>11. ReplaysCommitted'
  <2> SUFFICES ASSUME NEW q \in Requests, phase'[q] = "replay"
               PROVE  keys'[arg'[q].key] # NoRow
    BY DEF ReplaysCommitted
  <2>1. q # r /\ phase[q] = phase'[q] /\ arg[q] = arg'[q]
    BY DEF Answer, IInv, TypeOK
  <2>2. arg[q].key \in Keys
    BY <2>1, BusyHasArg DEF IInv
  <2>3. row # NoRow
    BY <1>2, Replies DEF NoRow
  <2> QED BY <2>1, <2>2, <2>3, <1>3 DEF IInv, TypeOK, ReplaysCommitted
<1> QED BY <1>6, <1>8, <1>9, <1>10, <1>11 DEF IInv

\* A step that only moves a request that holds no key, or stays a holder,
\* keeps what is said of holders: no key gains a second one.
LEMMA MoveKeepsHolders ==
    ASSUME IInv, NEW r \in Requests, phase[r] # "idle", UNCHANGED <<keys, arg>>,
           NEW p \in {"handler", "record", "replay"}, GoTo(r, p),
           p = "handler" => keys[arg[r].key] = NoRow /\ Holder(arg[r].key) = {},
           p = "record" => phase[r] = "handler",
           p = "replay" => keys[arg[r].key] # NoRow
    PROVE  OneHolder' /\ ReplaysCommitted'
<1>1. phase' = [phase EXCEPT ![r] = p] /\ \A q \in Requests : q # r => phase'[q] = phase[q]
  BY DEF GoTo, IInv, TypeOK
<1>2. phase'[r] = p
  BY DEF GoTo, IInv, TypeOK
<1>3. ReplaysCommitted'
  BY <1>1, <1>2 DEF ReplaysCommitted, IInv
<1>4. ASSUME NEW q \in Requests, phase'[q] \in {"handler", "record"} PROVE keys[arg[q].key] = NoRow
  BY <1>4, <1>1, <1>2 DEF IInv, OneHolder
<1>5. ASSUME NEW q \in Requests, phase'[q] \in {"handler", "record"},
             NEW s \in Requests, phase'[s] \in {"handler", "record"}, arg[s].key = arg[q].key
      PROVE  s = q
  BY <1>5, <1>1, <1>2 DEF IInv, OneHolder, Holder
<1> QED BY <1>3, <1>4, <1>5 DEF OneHolder, Holder

\* Every action of a request keeps the invariant.
LEMMA InvNext == IInv /\ [Next]_vars => IInv'
<1> SUFFICES ASSUME IInv, [Next]_vars PROVE IInv'
  OBVIOUS
<1>1. CASE UNCHANGED vars
  BY <1>1 DEF vars, IInv, TypeOK, OneHolder, Holder, ReplaysCommitted, RowNamesTask, AnswerIsRecorded
<1>2. ASSUME NEW r \in Requests, NEW k \in Keys, NEW b \in Bodies, Begin(r, k, b)
      PROVE  IInv'
  <2>1. [key |-> k, body |-> b] \in Arg /\ [key |-> k, body |-> b] # NoArg
    BY IdempotencyAssumption DEF Arg, NoArg
  <2>2. TypeOK'
    BY <1>2, <2>1 DEF Begin, GoTo, IInv, TypeOK, Phases
  <2>3. OneHolder' /\ ReplaysCommitted'
    BY <1>2 DEF Begin, GoTo, IInv, TypeOK, OneHolder, Holder, ReplaysCommitted
  <2> QED BY <2>2, <2>3, TablesUnchanged, <1>2 DEF Begin, IInv
<1>3. ASSUME NEW r \in Requests, InsertFresh(r) PROVE IInv'
  <2>1. TypeOK'
    BY <1>3 DEF InsertFresh, GoTo, IInv, TypeOK, Phases
  <2>2. OneHolder' /\ ReplaysCommitted'
    BY <1>3, MoveKeepsHolders DEF InsertFresh
  <2> QED BY <2>1, <2>2, TablesUnchanged, <1>3 DEF InsertFresh, IInv
<1>4. ASSUME NEW r \in Requests, InsertConflict(r) PROVE IInv'
  <2>1. TypeOK'
    BY <1>4 DEF InsertConflict, GoTo, IInv, TypeOK, Phases
  <2>2. OneHolder' /\ ReplaysCommitted'
    BY <1>4, MoveKeepsHolders DEF InsertConflict
  <2> QED BY <2>1, <2>2, TablesUnchanged, <1>4 DEF InsertConflict, IInv
<1>5. ASSUME NEW r \in Requests, replayCachedResponse(r) PROVE IInv'
  <2> DEFINE row == keys[arg[r].key]
             reply == ReplayOf(row, arg[r].body)
  <2>1. arg[r] \in Arg /\ arg[r].key \in Keys /\ phase[r] # "idle"
    BY <1>5, BusyHasArg DEF replayCachedResponse, IInv
  <2>2. row \in [body : Bodies, reply : Response]
    BY <1>5, <2>1 DEF replayCachedResponse, IInv, TypeOK, ReplaysCommitted
  <2>3. reply \in Response
    BY <2>2, Replies DEF ReplayOf
  <2>4. Answer(r, reply) /\ UNCHANGED <<keys, tasks, ids, faults>>
    BY <1>5 DEF replayCachedResponse
  <2>5. TypeOK'
    BY <2>1, <2>3, <2>4, AnswerType DEF IInv, TypeOK
  <2>6. Final(reply) => row = [body |-> arg[r].body, reply |-> reply]
    BY <2>2 DEF ReplayOf, Final, Reply
  <2>7. AnswerIsRecorded'
    BY <2>4, <2>6 DEF Answer, IInv, AnswerIsRecorded
  <2>8. OneHolder' /\ ReplaysCommitted'
    BY <2>4, AnswerKeepsHolders
  <2>9. RowNamesTask'
    BY <2>4 DEF IInv, RowNamesTask
  <2> QED BY <2>5, <2>7, <2>8, <2>9 DEF IInv
<1>6. ASSUME NEW r \in Requests, Handle(r) PROVE IInv'
  <2>1. draft' \in [Requests -> Response \cup {NoReply}] /\ draft'[r] # NoReply /\ ids' \in 0..MaxTasks
    <3>1. ids < MaxTasks => ids + 1 \in TaskIds /\ ids + 1 \in 0..MaxTasks
      BY IdempotencyAssumption DEF IInv, TypeOK, TaskIds
    <3>2. Reply(400) \in Response /\ (ids < MaxTasks => Created(ids + 1) \in Response)
      BY <3>1, Replies
    <3>3. PICK x \in Response : draft' = [draft EXCEPT ![r] = x]
      BY <1>6, <3>2 DEF Handle
    <3>4. ids' \in 0..MaxTasks
      BY <1>6, <3>1 DEF Handle, IInv, TypeOK
    <3> QED BY <3>3, <3>4, Replies DEF IInv, TypeOK
  <2>2. \A q \in Requests : q # r => draft'[q] = draft[q]
    BY <1>6 DEF Handle, IInv, TypeOK
  <2>3. TypeOK'
    BY <1>6, <2>1, <2>2 DEF Handle, GoTo, IInv, TypeOK, Phases
  <2>4. OneHolder' /\ ReplaysCommitted'
    BY <1>6, MoveKeepsHolders DEF Handle
  <2> QED BY <2>3, <2>4, TablesUnchanged, <1>6 DEF Handle, IInv
<1>7. ASSUME NEW r \in Requests, Record(r) PROVE IInv'
  <2>1. draft[r] \in Response
    BY <1>7 DEF Record, IInv, TypeOK
  <2>2. faults' \in 0..MaxFaults
    BY <1>7 DEF Record, IInv, TypeOK
  <2> QED BY <2>1, <2>2, <1>7, CommitKeeps DEF Record
<1>8. ASSUME NEW r \in Requests, RecordUnacknowledged(r) PROVE IInv'
  <2>1. Reply(500) \in Response /\ ~Final(Reply(500))
    BY Replies DEF Final, Reply
  <2>2. faults' \in 0..MaxFaults
    BY <1>8, IdempotencyAssumption DEF RecordUnacknowledged, Fault, IInv, TypeOK
  <2> QED BY <2>1, <2>2, <1>8, CommitKeeps DEF RecordUnacknowledged
<1>9. ASSUME NEW r \in Requests, Fail(r) PROVE IInv'
  <2>1. Reply(500) \in Response /\ ~Final(Reply(500))
    BY Replies DEF Final, Reply
  <2>2. faults' \in 0..MaxFaults
    BY <1>9, IdempotencyAssumption DEF Fail, Fault, IInv, TypeOK
  <2>3. TypeOK'
    BY <1>9, <2>1, <2>2, AnswerType DEF Fail, IInv, TypeOK
  <2>4. AnswerIsRecorded'
    BY <1>9, <2>1 DEF Fail, Answer, IInv, AnswerIsRecorded
  <2>5. OneHolder' /\ ReplaysCommitted'
    BY <1>9, AnswerKeepsHolders DEF Fail
  <2>6. RowNamesTask'
    BY <1>9 DEF Fail, IInv, RowNamesTask
  <2> QED BY <2>3, <2>4, <2>5, <2>6 DEF IInv
<1> QED BY <1>1, <1>2, <1>3, <1>4, <1>5, <1>6, <1>7, <1>8, <1>9 DEF Next, Step

-----------------------------------------------------------------------------
(* The theorems *)

\* The invariant holds in every reachable state.
LEMMA Invariant == Spec => []IInv
BY InvInit, InvNext, PTL DEF Spec

\* A retried creation is applied once: however often a client repeats a key,
\* and whatever transactions fail, are rolled back or lose the
\* acknowledgement of their commit, at most one task carries the key.
THEOREM RetriesCreateOnce == Spec => []OneTaskPerKey
<1>1. IInv => OneTaskPerKey
  <2> SUFFICES ASSUME IInv, NEW s \in tasks, NEW t \in tasks, s.key = t.key PROVE s = t
    BY DEF IInv, OneTaskPerKey
  <2> DEFINE row(u) == [body |-> u.body, reply |-> Created(u.id)]
  <2>1. keys[s.key] = row(s) /\ keys[t.key] = row(t)
    BY DEF IInv, RowNamesTask
  <2>2. row(s) = row(t)
    BY <2>1
  <2>3. s.body = t.body /\ Created(s.id) = Created(t.id)
    BY <2>2
  <2>4. s.id = t.id
    BY <2>3 DEF Created
  <2> QED BY <2>3, <2>4 DEF IInv, TypeOK
<1> QED BY <1>1, Invariant, PTL

\* A response a client was given is never contradicted: a 201 names a task
\* that exists and is the client's, and any two final responses to one key
\* and body, fresh or replayed, are equal.
THEOREM ResponsesHold == Spec => []AnswersHold
<1>1. IInv => AnswersHold
  <2> SUFFICES ASSUME IInv, NEW a \in answers
               PROVE  /\ a.reply.code = 201 =>
                           [id |-> a.reply.task, key |-> a.arg.key, body |-> a.arg.body] \in tasks
                      /\ \A b \in answers :
                           (a.arg = b.arg /\ {a.reply.code, b.reply.code} \subseteq {201, 400})
                               => a.reply = b.reply
    BY DEF AnswersHold
  <2>1. a.arg.key \in Keys
    BY DEF IInv, TypeOK, Arg
  <2>2. ASSUME a.reply.code = 201
        PROVE  [id |-> a.reply.task, key |-> a.arg.key, body |-> a.arg.body] \in tasks
    <3>1. keys[a.arg.key] = [body |-> a.arg.body, reply |-> a.reply]
      BY <2>2 DEF IInv, AnswerIsRecorded, Final
    <3>2. keys[a.arg.key].body = a.arg.body /\ keys[a.arg.key].reply = a.reply
      BY <3>1
    <3> QED BY <2>1, <2>2, <3>2 DEF IInv, RowNamesTask
  <2>3. ASSUME NEW b \in answers, a.arg = b.arg, {a.reply.code, b.reply.code} \subseteq {201, 400}
        PROVE  a.reply = b.reply
    <3>1. keys[a.arg.key] = [body |-> a.arg.body, reply |-> a.reply]
      BY <2>3 DEF IInv, AnswerIsRecorded, Final
    <3>2. keys[a.arg.key] = [body |-> b.arg.body, reply |-> b.reply]
      BY <2>3 DEF IInv, AnswerIsRecorded, Final
    <3>3. keys[a.arg.key].reply = a.reply
      BY <3>1
    <3>4. keys[a.arg.key].reply = b.reply
      BY <3>2
    <3> QED BY <3>3, <3>4
  <2> QED BY <2>2, <2>3
<1> QED BY <1>1, Invariant, PTL
=============================================================================
