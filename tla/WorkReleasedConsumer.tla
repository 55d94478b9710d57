------------------------ MODULE WorkReleasedConsumer ------------------------
(***************************************************************************)
(* The inbound Kafka consumer that turns each WorkReleased event into a    *)
(* task.  Each replica runs one consumer.  ReadMessage commits the offset  *)
(* before the message is handled; MarkProcessed then claims the event id   *)
(* in a transaction of its own, and only the consumer that inserted the id *)
(* looks the path up and creates the task.  Both steps are retried a       *)
(* bounded number of times; what still fails goes to the dead-letter topic.*)
(***************************************************************************)
EXTENDS Integers, Sequences, FiniteSets, SequencesExt

CONSTANTS Input,        \* the messages the producer wrote, duplicates included
          Consumers,
          MaxAttempts,  \* maxHandlerAttempts
          Faults,       \* the kinds of fault this instance exercises
          MaxFaults,    \* bound: how many of them happen
          MaxReplays    \* bound: dead letters put back on the topic by hand

\* work: a WorkReleased of a path in the catalogue; unknownPath: of one that
\* is not; other: some other event type; malformed: not a CloudEvent.
Kinds == {"work", "unknownPath", "other", "malformed"}
FaultKinds == {"commit", "error", "lostMark", "lostCreate", "crash", "shutdown", "dlq"}
Messages == Range(Input)
EventIds == {m.id : m \in Messages}

ASSUME ConsumerAssumption ==
    /\ Input \in Seq(Messages)
    /\ \A m \in Messages : m.kind \in Kinds
    /\ \A m, n \in Messages : m.id = n.id => m = n   \* an event id names one event
    /\ MaxAttempts \in Nat \ {0}
    /\ Faults \subseteq FaultKinds
    /\ MaxFaults \in Nat
    /\ MaxReplays \in Nat

VARIABLES topic,      \* warehouse.work-planning.events
          offset,     \* messages delivered and committed by the group
          cur,        \* per consumer: <<the message in hand>>, or <<>>
          phase,      \* per consumer: the step it is in
          attempts,   \* per consumer: failed attempts of this step
          processed,  \* processed_events
          created,    \* tasks created, per event id
          dlq,        \* the dead-letter topic
          hit,        \* per event id: the kinds of fault that struck its handling
          faults, replays

vars == <<topic, offset, cur, phase, attempts, processed, created, dlq, hit, faults, replays>>
faultVars == <<hit, faults>>
handler == <<cur, phase, attempts>>

\* Offsets, handlers and tables are well formed; retries stay below the limit.
TypeOK ==
    /\ topic \in Seq(Messages)
    /\ offset \in 0..Len(topic)
    /\ cur \in [Consumers -> {<<>>} \cup {<<m>> : m \in Messages}]
    /\ phase \in [Consumers -> {"read", "mark", "create", "deadletter"}]
    /\ \A c \in Consumers : phase[c] = "read" <=> cur[c] = <<>>
    /\ attempts \in [Consumers -> 0..(MaxAttempts - 1)]
    /\ processed \subseteq EventIds
    /\ created \in [EventIds -> Nat]
    /\ dlq \in Seq(Messages)
    /\ hit \in [EventIds -> SUBSET Faults]
    /\ faults \in 0..MaxFaults
    /\ replays \in 0..MaxReplays

Init ==
    /\ topic = Input
    /\ offset = 0
    /\ cur = [c \in Consumers |-> <<>>]
    /\ phase = [c \in Consumers |-> "read"]
    /\ attempts = [c \in Consumers |-> 0]
    /\ processed = {}
    /\ created = [i \in EventIds |-> 0]
    /\ dlq = <<>>
    /\ hit = [i \in EventIds |-> {}]
    /\ faults = 0
    /\ replays = 0

Msg(c) == cur[c][1]

Strike(i, k) ==
    /\ k \in Faults
    /\ faults < MaxFaults
    /\ faults' = faults + 1
    /\ hit' = [hit EXCEPT ![i] = @ \cup {k}]

\* A fault strikes the handling of the message in hand.
Fault(c, k) == Strike(Msg(c).id, k)

GoTo(c, p) ==
    /\ phase' = [phase EXCEPT ![c] = p]
    /\ attempts' = [attempts EXCEPT ![c] = 0]
    /\ UNCHANGED cur

\* Handle is over: back to ReadMessage.
Done(c) ==
    /\ phase' = [phase EXCEPT ![c] = "read"]
    /\ attempts' = [attempts EXCEPT ![c] = 0]
    /\ cur' = [cur EXCEPT ![c] = <<>>]

\* Mutant: the loop gives up without handing the error back to Run.
RetryOrDrop(c) ==
    IF attempts[c] + 1 < MaxAttempts
    THEN attempts' = [attempts EXCEPT ![c] = @ + 1] /\ UNCHANGED <<cur, phase>>
    ELSE Done(c)

\* Mutant: the retries have no bound.
RetryForever(c) == UNCHANGED handler

\* Mutant: one attempt too many.
RetryOnceMore(c) ==
    IF attempts[c] < MaxAttempts
    THEN attempts' = [attempts EXCEPT ![c] = @ + 1] /\ UNCHANGED <<cur, phase>>
    ELSE GoTo(c, "deadletter")

\* The attempt failed: try again, or give the message up.
RetryOrGiveUp(c) ==
    IF attempts[c] + 1 < MaxAttempts
    THEN attempts' = [attempts EXCEPT ![c] = @ + 1] /\ UNCHANGED <<cur, phase>>
    ELSE GoTo(c, "deadletter")

\* ReadMessage takes the next message off the group's committed offset; any
\* consumer may be the one a partition is assigned to by now.
FirstPhase(m) ==
    CASE m.kind = "other" -> "read"
      [] m.kind = "malformed" -> "deadletter"
      [] OTHER -> "mark"

Read(c) ==
    /\ phase[c] = "read"
    /\ offset < Len(topic)
    /\ LET m == topic[offset + 1]
           p == FirstPhase(m)
       IN /\ phase' = [phase EXCEPT ![c] = p]
          /\ cur' = [cur EXCEPT ![c] = IF p = "read" THEN <<>> ELSE <<m>>]
    /\ offset' = offset + 1
    /\ UNCHANGED <<topic, attempts, processed, created, dlq, faultVars, replays>>

\* ReadMessage fetched the next message and failed to commit its offset: the
\* message goes nowhere, readRecovering waits and reads the one behind it, whose
\* commit covers both.  A fetch that fails, or a reader that joins the group
\* again, changes nothing here.
CommitFails(c) ==
    /\ phase[c] = "read"
    /\ offset < Len(topic)
    /\ Strike(topic[offset + 1].id, "commit")
    /\ offset' = offset + 1
    /\ UNCHANGED <<topic, handler, processed, created, dlq, replays>>

\* Mutant: a duplicate's id does not stop it.
MarkNewOrSeen(c) ==
    /\ phase[c] = "mark"
    /\ processed' = processed \cup {Msg(c).id}
    /\ GoTo(c, "create")
    /\ UNCHANGED <<topic, offset, created, dlq, faultVars, replays>>

\* The INSERT took: this consumer owns the event.
MarkNew(c) ==
    /\ phase[c] = "mark"
    /\ Msg(c).id \notin processed
    /\ processed' = processed \cup {Msg(c).id}
    /\ GoTo(c, "create")
    /\ UNCHANGED <<topic, offset, created, dlq, faultVars, replays>>

\* ON CONFLICT DO NOTHING: acknowledged without a task.
MarkDuplicate(c) ==
    /\ phase[c] = "mark"
    /\ Msg(c).id \in processed
    /\ Done(c)
    /\ UNCHANGED <<topic, offset, processed, created, dlq, faultVars, replays>>

\* MarkProcessed returned an error.  The INSERT did not take effect or, when
\* only its answer was lost, it did.
MarkFails(c) ==
    /\ phase[c] = "mark"
    /\ \/ Fault(c, "error") /\ UNCHANGED processed
       \/ Fault(c, "lostMark") /\ processed' = processed \cup {Msg(c).id}
    /\ RetryOrGiveUp(c)
    /\ UNCHANGED <<topic, offset, created, dlq, replays>>

TaskOf(c) == created' = [created EXCEPT ![Msg(c).id] = @ + 1]

\* Lookup finds the path and CreateTask commits.
Create(c) ==
    /\ phase[c] = "create"
    /\ Msg(c).kind = "work"
    /\ TaskOf(c)
    /\ Done(c)
    /\ UNCHANGED <<topic, offset, processed, dlq, faultVars, replays>>

\* Lookup does not know the path, or CreateTask returned an error, having
\* committed or not.
CreateFails(c) ==
    /\ phase[c] = "create"
    /\ \/ Msg(c).kind = "unknownPath" /\ UNCHANGED <<created, faultVars>>
       \/ Msg(c).kind = "work" /\ Fault(c, "error") /\ UNCHANGED created
       \/ Msg(c).kind = "work" /\ Fault(c, "lostCreate") /\ TaskOf(c)
    /\ RetryOrGiveUp(c)
    /\ UNCHANGED <<topic, offset, processed, dlq, replays>>

SendToDeadLetter(c) ==
    /\ phase[c] = "deadletter"
    /\ dlq' = Append(dlq, Msg(c))
    /\ Done(c)
    /\ UNCHANGED <<topic, offset, processed, created, faultVars, replays>>

\* A failed dead-letter write is logged and forgotten.
DeadLetterFails(c) ==
    /\ phase[c] = "deadletter"
    /\ Fault(c, "dlq")
    /\ Done(c)
    /\ UNCHANGED <<topic, offset, processed, created, dlq, replays>>

\* The replica dies.  Another consumer goes on at `offset`.
Crash(c) ==
    /\ phase[c] # "read"
    /\ Fault(c, "crash")
    /\ Done(c)
    /\ UNCHANGED <<topic, offset, processed, created, dlq, replays>>

\* SIGTERM cancels the context Handle runs under: the statement in flight and
\* the retries end with an error, and the dead-letter write fails with it.
Shutdown(c) ==
    /\ phase[c] # "read"
    /\ Fault(c, "shutdown")
    /\ Done(c)
    /\ UNCHANGED <<topic, offset, processed, created, dlq, replays>>

\* Somebody copies a dead letter back onto the topic.
Replay(i) ==
    /\ replays < MaxReplays
    /\ topic' = Append(topic, dlq[i])
    /\ replays' = replays + 1
    /\ UNCHANGED <<offset, handler, processed, created, dlq, faultVars>>

Step(c) ==
    \/ Read(c)
    \/ MarkNew(c) \/ MarkDuplicate(c) \/ MarkFails(c)
    \/ Create(c) \/ CreateFails(c)
    \/ SendToDeadLetter(c) \/ DeadLetterFails(c)

Next ==
    \/ \E c \in Consumers : Step(c) \/ CommitFails(c) \/ Crash(c) \/ Shutdown(c)
    \/ \E i \in DOMAIN dlq : Replay(i)

Spec == Init /\ [][Next]_vars

\* Run never returns while the process lives (readRecovering, bounded retries).
FairSpec == Spec /\ \A c \in Consumers : WF_vars(Step(c))

-----------------------------------------------------------------------------
(* Properties *)

Releases == {m \in Messages : m.kind \in {"work", "unknownPath"}}
InFlight(m) == \E c \in Consumers : cur[c] = <<m>>
Accounted(m) == created[m.id] > 0 \/ m \in Range(dlq)

\* One released unit, one task: duplicates, replayed dead letters, concurrent
\* consumers, retries, lost marks and crashes create no phantom work.  Only a
\* CreateTask that committed and still returned an error can.
OneTaskPerRelease ==
    \A i \in EventIds : created[i] > 1 => "lostCreate" \in hit[i]

\* One task for each release, exactly once per event id (comment of Consumer).
\* A creation that committed and returned an error is made again.
CreatedOnce == \A i \in EventIds : created[i] <= 1

\* A release that was read and met no other fault is in hand, a task or a dead
\* letter.
Survives(kinds) ==
    \A n \in 1..offset : (topic[n].kind = "work" /\ hit[topic[n].id] \subseteq kinds) =>
        Accounted(topic[n]) \/ InFlight(topic[n])

\* A failed MarkProcessed may safely be retried (comment of
\* handleMessageWithRetry).  When the first INSERT committed, the retry takes
\* the release for a duplicate and drops it.
MarkRetryIsSafe == Survives({"error", "lostMark"})

\* A shutdown waits for the message being handled to finish (comment in run).
\* It cancels that message's context first.
ShutdownFinishesWork == Survives({"shutdown"})

\* What a message can be lost to: its offset was not committed in time, its
\* handler dies, cannot write the dead letter, or takes its own mark for a
\* duplicate's.
Droppers == {"commit", "crash", "shutdown", "dlq", "lostMark"}

\* A message that was read is a task, a dead letter, or still in hand, unless
\* one of those struck this very message: a neighbour's trouble, a failed
\* statement or an exhausted retry drops nothing.
DropNeedsFault ==
    \A n \in 1..offset : topic[n].kind # "other" =>
        \/ Accounted(topic[n]) \/ InFlight(topic[n])
        \/ hit[topic[n].id] \cap Droppers # {}

\* Every release ends as a task or as a dead letter, one of a known path that
\* met no fault as exactly one task.
EveryReleaseSettles ==
    \A m \in Releases :
        <>[](/\ Accounted(m) \/ hit[m.id] \cap Droppers # {}
             /\ m.kind = "work" /\ hit[m.id] = {} => created[m.id] = 1)
=============================================================================
