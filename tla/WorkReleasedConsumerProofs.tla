--------------------- MODULE WorkReleasedConsumerProofs ---------------------
(***************************************************************************)
(* Theorems about the intake of WorkReleased events, for any topic, any    *)
(* number of consumers, attempts, faults and replays.                      *)
(***************************************************************************)
EXTENDS WorkReleasedConsumer, SequenceTheorems, TLAPS

-----------------------------------------------------------------------------
(* The inductive invariant *)

\* The consumer that inserted an event id is the only one that creates its
\* task, and a task it already created was lost from its sight.
OneOwner ==
    \A c \in Consumers : phase[c] = "create" =>
        /\ Msg(c).id \in processed
        /\ created[Msg(c).id] > 0 => "lostCreate" \in hit[Msg(c).id]
        /\ \A d \in Consumers : (phase[d] = "create" /\ Msg(d).id = Msg(c).id) => d = c

CreatedIsMarked == \A i \in EventIds : created[i] > 0 => i \in processed

\* A message handling is done with, one way or another.
Covered(m) == Accounted(m) \/ hit[m.id] \cap Droppers # {}

\* Somebody past the mark has the message in hand.
Owned(m) == \E c \in Consumers : cur[c] = <<m>> /\ phase[c] \in {"create", "deadletter"}

\* An event whose id is marked was handled, is being handled past the mark,
\* or met a fault: a duplicate may rely on the mark.
MarkMeansHandled == \A m \in Messages : m.id \in processed => Covered(m) \/ Owned(m)

IInv == TypeOK /\ OneOwner /\ CreatedIsMarked /\ OneTaskPerRelease /\ MarkMeansHandled /\ DropNeedsFault

-----------------------------------------------------------------------------
(* Facts about the operators *)

\* A consumer past ReadMessage has a message in hand.
LEMMA InHand ==
    ASSUME TypeOK, NEW c \in Consumers, phase[c] # "read"
    PROVE  Msg(c) \in Messages /\ cur[c] = <<Msg(c)>> /\ Msg(c).id \in EventIds
BY DEF TypeOK, Msg, EventIds

\* What a message in hand is determined by.
LEMMA SameMessage ==
    ASSUME NEW m \in Messages, NEW n \in Messages, m.id = n.id
    PROVE  m = n
BY ConsumerAssumption

\* A dead letter is added and none is removed.
LEMMA RangeAppend ==
    ASSUME NEW S, NEW s \in Seq(S), NEW x \in S
    PROVE  Range(Append(s, x)) = Range(s) \cup {x}
<1>1. /\ Append(s, x) \in Seq(S) /\ Len(Append(s, x)) = Len(s) + 1
      /\ \A i \in 1..Len(s) : Append(s, x)[i] = s[i]
      /\ Append(s, x)[Len(s) + 1] = x
  BY AppendProperties
<1>2. DOMAIN Append(s, x) = 1..(Len(s) + 1) /\ DOMAIN s = 1..Len(s) /\ Len(s) \in Nat
  BY <1>1, LenProperties
<1>3. \A i \in 1..(Len(s) + 1) : i \in 1..Len(s) \/ i = Len(s) + 1
  BY <1>2
<1>4. 1..Len(s) \subseteq 1..(Len(s) + 1) /\ Len(s) + 1 \in 1..(Len(s) + 1)
  BY <1>2
<1> HIDE DEF Range
<1> DEFINE t == Append(s, x)
<1>5. Range(t) = {t[i] : i \in 1..(Len(s) + 1)} /\ Range(s) = {s[i] : i \in 1..Len(s)}
  BY <1>2 DEF Range
<1> HIDE DEF t
<1> QED BY <1>1, <1>3, <1>4, <1>5 DEF t

\* Nothing that covers a message is ever taken back.
Grows ==
    /\ \A i \in EventIds : created[i] > 0 => created'[i] > 0
    /\ \A i \in EventIds : hit[i] \subseteq hit'[i]
    /\ Range(dlq) \subseteq Range(dlq')

\* A covered message stays covered.
LEMMA CoveredStays ==
    ASSUME NEW m \in Messages, Grows, Covered(m)
    PROVE  Covered(m)'
BY DEF Grows, Covered, Accounted, EventIds

\* The handler of one consumer moves, the others stay where they are.
Others(c) == \A d \in Consumers : d # c => cur'[d] = cur[d] /\ phase'[d] = phase[d]

\* Messages read before stay accounted for if consumer c does not drop its own.
LEMMA ReadsKept ==
    ASSUME IInv, NEW c \in Consumers, NEW m \in Messages, cur[c] = <<m>>,
           UNCHANGED <<topic, offset>>, Grows, Others(c), Covered(m)' \/ InFlight(m)'
    PROVE  DropNeedsFault'
<1> SUFFICES ASSUME NEW n \in 1..offset, topic[n].kind # "other"
             PROVE  Covered(topic[n])' \/ InFlight(topic[n])'
  BY DEF DropNeedsFault, Covered, Accounted, InFlight
<1>1. topic[n] \in Messages
  <2>1. n \in 1..Len(topic) /\ topic \in Seq(Messages)
    BY LenProperties DEF IInv, TypeOK
  <2> QED BY <2>1, ElementOfSeq
<1>2. Covered(topic[n]) \/ InFlight(topic[n])
  BY DEF IInv, DropNeedsFault, Covered
<1>3. CASE Covered(topic[n])
  BY <1>1, <1>3, CoveredStays
<1>4. CASE InFlight(topic[n])
  <2>1. PICK d \in Consumers : cur[d] = <<topic[n]>>
    BY <1>4 DEF InFlight
  <2>2. CASE d # c
    BY <2>1, <2>2 DEF Others, InFlight
  <2>3. CASE d = c
    BY <2>1, <2>3
  <2> QED BY <2>2, <2>3
<1> QED BY <1>2, <1>3, <1>4

\* The same for marked events.
LEMMA MarksKept ==
    ASSUME IInv, NEW c \in Consumers, NEW m \in Messages, cur[c] = <<m>>, Grows, Others(c),
           processed' \subseteq processed \cup {m.id},
           m.id \in processed' => Covered(m)' \/ Owned(m)'
    PROVE  MarkMeansHandled'
<1> SUFFICES ASSUME NEW n \in Messages, n.id \in processed'
             PROVE  Covered(n)' \/ Owned(n)'
  BY DEF MarkMeansHandled
<1>1. CASE n.id = m.id
  BY <1>1, SameMessage
<1>2. CASE n.id # m.id
  <2>1. Covered(n) \/ Owned(n)
    BY <1>2 DEF IInv, MarkMeansHandled
  <2>2. CASE Covered(n)
    BY <2>2, CoveredStays
  <2>3. CASE Owned(n)
    <3>1. PICK d \in Consumers : cur[d] = <<n>> /\ phase[d] \in {"create", "deadletter"}
      BY <2>3 DEF Owned
    <3>2. d # c
      BY <1>2, <3>1
    <3> QED BY <3>1, <3>2 DEF Others, Owned
  <2> QED BY <2>1, <2>2, <2>3
<1> QED BY <1>1, <1>2

\* The handler's variables after the ways a step can end.
HandlerType ==
    /\ cur \in [Consumers -> {<<>>} \cup {<<m>> : m \in Messages}]
    /\ phase \in [Consumers -> {"read", "mark", "create", "deadletter"}]
    /\ \A c \in Consumers : phase[c] = "read" <=> cur[c] = <<>>
    /\ attempts \in [Consumers -> 0..(MaxAttempts - 1)]

\* Handle is over.
LEMMA AfterDone ==
    ASSUME TypeOK, NEW c \in Consumers, Done(c)
    PROVE  HandlerType' /\ Others(c) /\ phase'[c] = "read" /\ cur'[c] = <<>>
BY ConsumerAssumption DEF TypeOK, Done, HandlerType, Others

\* The next step of the handler.
LEMMA AfterGoTo ==
    ASSUME TypeOK, NEW c \in Consumers, NEW p \in {"mark", "create", "deadletter"}, phase[c] # "read", GoTo(c, p)
    PROVE  HandlerType' /\ Others(c) /\ phase'[c] = p /\ cur' = cur
BY ConsumerAssumption DEF TypeOK, GoTo, HandlerType, Others

\* A failed attempt leaves the message in hand: in the same step, or on its
\* way to the dead-letter topic.
LEMMA AfterRetry ==
    ASSUME TypeOK, NEW c \in Consumers, phase[c] # "read", RetryOrGiveUp(c)
    PROVE  HandlerType' /\ Others(c) /\ phase'[c] \in {phase[c], "deadletter"} /\ cur' = cur
<1>1. CASE attempts[c] + 1 < MaxAttempts
  <2>1. attempts' = [attempts EXCEPT ![c] = @ + 1] /\ UNCHANGED <<cur, phase>>
    BY <1>1 DEF RetryOrGiveUp
  <2>2. attempts[c] \in 0..(MaxAttempts - 1)
    BY DEF TypeOK
  <2>3. attempts[c] + 1 \in 0..(MaxAttempts - 1)
    BY <1>1, <2>2, ConsumerAssumption
  <2>4. attempts' \in [Consumers -> 0..(MaxAttempts - 1)]
    BY <2>1, <2>3 DEF TypeOK
  <2> QED BY <2>1, <2>4 DEF TypeOK, HandlerType, Others
<1>2. CASE ~(attempts[c] + 1 < MaxAttempts)
  BY <1>2, AfterGoTo DEF RetryOrGiveUp
<1> QED BY <1>1, <1>2

\* A fault is recorded against the message in hand.
LEMMA AfterFault ==
    ASSUME TypeOK, NEW c \in Consumers, NEW m \in Messages, cur[c] = <<m>>, NEW k, Fault(c, k)
    PROVE  /\ hit' \in [EventIds -> SUBSET Faults] /\ faults' \in 0..MaxFaults
           /\ k \in hit'[m.id]
           /\ \A i \in EventIds : hit[i] \subseteq hit'[i]
<1>1. m.id \in EventIds /\ Msg(c) = m
  BY DEF EventIds, Msg
<1> QED BY <1>1, ConsumerAssumption DEF TypeOK, Fault, Strike

\* A task is created for the message in hand.
LEMMA AfterTask ==
    ASSUME TypeOK, NEW c \in Consumers, NEW m \in Messages, cur[c] = <<m>>, TaskOf(c)
    PROVE  /\ created' \in [EventIds -> Nat] /\ created'[m.id] = created[m.id] + 1
           /\ \A i \in EventIds : i # m.id => created'[i] = created[i]
           /\ \A i \in EventIds : created[i] > 0 => created'[i] > 0
<1>1. m.id \in EventIds /\ Msg(c) = m
  BY DEF EventIds, Msg
<1> QED BY <1>1 DEF TypeOK, TaskOf

-----------------------------------------------------------------------------
(* Who owns an event *)

Ownership == OneOwner /\ CreatedIsMarked /\ OneTaskPerRelease

\* A step that creates no task and makes nobody the owner of an event.
LEMMA NoNewOwner ==
    ASSUME IInv, UNCHANGED created, processed \subseteq processed',
           \A i \in EventIds : hit[i] \subseteq hit'[i],
           \A d \in Consumers : phase'[d] = "create" => phase[d] = "create" /\ cur'[d] = cur[d]
    PROVE  Ownership'
<1>1. \A d \in Consumers : phase'[d] = "create" => Msg(d)' = Msg(d) /\ Msg(d).id \in EventIds
  BY InHand DEF Msg, IInv
<1>2. OneOwner'
  BY <1>1 DEF IInv, OneOwner
<1>3. CreatedIsMarked' /\ OneTaskPerRelease'
  BY DEF IInv, CreatedIsMarked, OneTaskPerRelease
<1> QED BY <1>2, <1>3 DEF Ownership

\* The mark makes one owner: nobody had the id before, so no task has it.
LEMMA MarkMakesOwner ==
    ASSUME IInv, NEW c \in Consumers, NEW m \in Messages, cur[c] = <<m>>, m.id \notin processed,
           processed' = processed \cup {m.id}, UNCHANGED <<created, hit>>,
           Others(c), phase'[c] = "create", cur'[c] = cur[c]
    PROVE  Ownership'
<1>1. m.id \in EventIds /\ Msg(c)' = m
  BY DEF EventIds, Msg
<1>2. \A d \in Consumers : d # c => Msg(d)' = Msg(d) /\ phase'[d] = phase[d]
  BY DEF Others, Msg
<1>3. created[m.id] \in Nat /\ ~(created[m.id] > 0)
  BY <1>1 DEF IInv, TypeOK, CreatedIsMarked
<1>4. OneOwner'
  BY <1>1, <1>2, <1>3 DEF IInv, OneOwner
<1>5. CreatedIsMarked' /\ OneTaskPerRelease'
  BY DEF IInv, CreatedIsMarked, OneTaskPerRelease
<1> QED BY <1>4, <1>5 DEF Ownership

\* The owner creates the task and is the owner no more, or was not told and
\* the fault is on record.
LEMMA OwnerCreates ==
    ASSUME IInv, NEW c \in Consumers, NEW m \in Messages, cur[c] = <<m>>, phase[c] = "create", TaskOf(c),
           UNCHANGED processed, Others(c), \A i \in EventIds : hit[i] \subseteq hit'[i],
           phase'[c] # "create" \/ (cur'[c] = cur[c] /\ "lostCreate" \in hit'[m.id])
    PROVE  Ownership'
<1>1. m.id \in EventIds /\ Msg(c) = m
  BY DEF EventIds, Msg
<1>2. \A d \in Consumers : d # c => Msg(d)' = Msg(d) /\ phase'[d] = phase[d]
  BY DEF Others, Msg
<1>3. phase'[c] = "create" => Msg(c)' = m /\ "lostCreate" \in hit'[m.id]
  BY DEF Msg
<1>4. m.id \in processed /\ (created[m.id] > 0 => "lostCreate" \in hit[m.id])
  BY <1>1 DEF IInv, OneOwner
<1>5. \A d \in Consumers : (d # c /\ phase[d] = "create") => Msg(d).id # m.id /\ Msg(d).id \in EventIds
  BY <1>1, InHand DEF IInv, OneOwner
<1>6. OneOwner'
  <2> SUFFICES ASSUME NEW d \in Consumers, phase'[d] = "create"
               PROVE  /\ Msg(d)'.id \in processed'
                      /\ created'[Msg(d)'.id] > 0 => "lostCreate" \in hit'[Msg(d)'.id]
                      /\ \A e \in Consumers : (phase'[e] = "create" /\ Msg(e)'.id = Msg(d)'.id) => e = d
    BY DEF OneOwner
  <2>1. CASE d = c
    BY <2>1, <1>2, <1>3, <1>4, <1>5
  <2>2. CASE d # c
    <3>1. Msg(d)' = Msg(d) /\ phase[d] = "create" /\ Msg(d).id # m.id /\ Msg(d).id \in EventIds
      BY <2>2, <1>2, <1>5
    <3>2. created'[Msg(d).id] = created[Msg(d).id]
      BY <3>1, AfterTask DEF IInv
    <3>3. \A e \in Consumers : (phase'[e] = "create" /\ Msg(e)'.id = Msg(d).id) => e = d
      BY <3>1, <1>2, <1>3 DEF IInv, OneOwner
    <3> QED BY <3>1, <3>2, <3>3 DEF IInv, OneOwner
  <2> QED BY <2>1, <2>2
<1>7. CreatedIsMarked'
  BY <1>4, AfterTask DEF IInv, CreatedIsMarked
<1>8. OneTaskPerRelease'
  <2> SUFFICES ASSUME NEW i \in EventIds, created'[i] > 1 PROVE "lostCreate" \in hit'[i]
    BY DEF OneTaskPerRelease
  <2>1. CASE i = m.id
    <3>1. created'[i] = created[i] + 1 /\ created[i] \in Nat
      BY <2>1, AfterTask DEF IInv, TypeOK
    <3>2. created[i] > 0
      BY <3>1
    <3> QED BY <2>1, <3>2, <1>4
  <2>2. CASE i # m.id
    BY <2>2, AfterTask DEF IInv, OneTaskPerRelease
  <2> QED BY <2>1, <2>2
<1> QED BY <1>6, <1>7, <1>8 DEF Ownership

-----------------------------------------------------------------------------
(* The invariant holds at the start and is kept by every step *)

\* Nothing was read.
LEMMA InvInit == Init => IInv
<1> SUFFICES ASSUME Init PROVE IInv
  OBVIOUS
<1>1. TypeOK
  <2>1. Len(topic) \in Nat /\ topic \in Seq(Messages)
    BY ConsumerAssumption, LenProperties DEF Init
  <2> QED BY <2>1, ConsumerAssumption DEF Init, TypeOK
<1>2. OneOwner /\ CreatedIsMarked /\ OneTaskPerRelease /\ MarkMeansHandled /\ DropNeedsFault
  BY DEF Init, OneOwner, CreatedIsMarked, OneTaskPerRelease, MarkMeansHandled, DropNeedsFault
<1> QED BY <1>1, <1>2 DEF IInv

\* What is left to show of a step of a handler that has m in hand.
LEMMA HandlerKeeps ==
    ASSUME IInv, NEW c \in Consumers, NEW m \in Messages, cur[c] = <<m>>,
           UNCHANGED <<topic, offset, replays>>, HandlerType', Others(c), Ownership', Grows,
           created' \in [EventIds -> Nat], dlq' \in Seq(Messages),
           hit' \in [EventIds -> SUBSET Faults], faults' \in 0..MaxFaults,
           processed \subseteq processed', processed' \subseteq processed \cup {m.id},
           Covered(m)' \/ InFlight(m)',
           m.id \in processed' => Covered(m)' \/ Owned(m)'
    PROVE  IInv'
<1>1. processed' \subseteq EventIds
  BY DEF IInv, TypeOK, EventIds
<1>2. TypeOK'
  BY <1>1 DEF IInv, TypeOK, HandlerType
<1> QED BY <1>2, ReadsKept, MarksKept DEF IInv, Ownership

\* A marked event whose handler at hand is not past the mark is covered, or
\* in the hands of another consumer.
LEMMA OwnedByAnother ==
    ASSUME IInv, NEW c \in Consumers, phase[c] = "mark", NEW m \in Messages, cur[c] = <<m>>,
           m.id \in processed, Grows, Others(c)
    PROVE  Covered(m)' \/ (Owned(m)' /\ InFlight(m)')
<1>1. CASE Covered(m)
  BY <1>1, CoveredStays
<1>2. CASE Owned(m)
  <2>1. PICK d \in Consumers : cur[d] = <<m>> /\ phase[d] \in {"create", "deadletter"}
    BY <1>2 DEF Owned
  <2>2. d # c
    BY <2>1
  <2> QED BY <2>1, <2>2 DEF Others, Owned, InFlight
<1> QED BY <1>1, <1>2 DEF IInv, MarkMeansHandled

\* ReadMessage: the message is in hand, or of a type that is ignored.
LEMMA ReadKeeps ==
    ASSUME IInv, NEW c \in Consumers, Read(c)
    PROVE  IInv'
<1>1. offset \in Nat /\ offset + 1 \in 1..Len(topic) /\ Len(topic) \in Nat /\ topic \in Seq(Messages)
  BY LenProperties DEF Read, IInv, TypeOK
<1>2. PICK m \in Messages : m = topic[offset + 1]
  BY <1>1, ElementOfSeq
<1>3. PICK p \in {"read", "mark", "deadletter"} :
          /\ p = "read" <=> m.kind = "other"
          /\ phase' = [phase EXCEPT ![c] = p]
          /\ cur' = [cur EXCEPT ![c] = IF p = "read" THEN <<>> ELSE <<m>>]
  BY <1>2 DEF Read, FirstPhase
<1>4. /\ phase[c] = "read" /\ cur[c] = <<>> /\ offset' = offset + 1
      /\ UNCHANGED <<topic, attempts, processed, created, dlq, hit, faults, replays>>
  BY DEF Read, faultVars, IInv, TypeOK
<1>5. /\ phase'[c] = p /\ cur'[c] = IF p = "read" THEN <<>> ELSE <<m>>
      /\ \A d \in Consumers : d # c => cur'[d] = cur[d] /\ phase'[d] = phase[d]
  BY <1>3 DEF IInv, TypeOK
<1>6. TypeOK'
  <2>1. /\ cur' \in [Consumers -> {<<>>} \cup {<<n>> : n \in Messages}]
        /\ phase' \in [Consumers -> {"read", "mark", "create", "deadletter"}]
    BY <1>3 DEF IInv, TypeOK
  <2>2. \A d \in Consumers : phase'[d] = "read" <=> cur'[d] = <<>>
    <3>1. <<m>> # <<>>
      OBVIOUS
    <3>2. phase'[c] = "read" <=> cur'[c] = <<>>
      BY <1>5, <3>1
    <3>3. \A d \in Consumers : d # c => (phase'[d] = "read" <=> cur'[d] = <<>>)
      BY <1>5 DEF IInv, TypeOK
    <3> QED BY <3>2, <3>3
  <2>3. offset' \in 0..Len(topic')
    BY <1>1, <1>4
  <2> QED BY <1>4, <2>1, <2>2, <2>3 DEF IInv, TypeOK
<1>7. Ownership'
  <2>1. \A d \in Consumers : phase'[d] = "create" => phase[d] = "create" /\ cur'[d] = cur[d]
    BY <1>5
  <2> QED BY <1>4, <2>1, NoNewOwner
<1>8. ASSUME NEW n \in Messages, Covered(n) PROVE Covered(n)'
  BY <1>4, <1>8 DEF Covered, Accounted
<1>9. ASSUME NEW n \in Messages, NEW d \in Consumers, cur[d] = <<n>>
      PROVE  cur'[d] = <<n>> /\ phase'[d] = phase[d]
  <2>1. d # c
    BY <1>4, <1>9
  <2> QED BY <2>1, <1>5, <1>9
<1>10. MarkMeansHandled'
  BY <1>4, <1>8, <1>9 DEF IInv, MarkMeansHandled, Owned
<1>11. DropNeedsFault'
  <2> SUFFICES ASSUME NEW i \in 1..(offset + 1), topic[i].kind # "other"
               PROVE  Covered(topic[i])' \/ InFlight(topic[i])'
    BY <1>4 DEF DropNeedsFault, Covered, Accounted, InFlight
  <2>1. CASE i = offset + 1
    <3>1. cur'[c] = <<m>>
      BY <2>1, <1>2, <1>3, <1>5
    <3> QED BY <2>1, <3>1, <1>2, <1>4 DEF InFlight
  <2>2. CASE i \in 1..offset
    <3>1. topic[i] \in Messages
      <4>1. i \in 1..Len(topic)
        BY <1>1, <2>2
      <4> QED BY <4>1, <1>1, ElementOfSeq
    <3>2. PICK n \in Messages : n = topic[i]
      BY <3>1
    <3>3. Covered(n) \/ InFlight(n)
      BY <2>2, <3>2 DEF IInv, DropNeedsFault, Covered
    <3>4. Covered(n)' \/ InFlight(n)'
      BY <3>3, <1>8, <1>9 DEF InFlight
    <3>5. topic'[i] = n
      BY <3>2, <1>4
    <3> QED BY <3>4, <3>5 DEF Covered, Accounted, InFlight
  <2> QED BY <2>1, <2>2, <1>1
<1> QED BY <1>6, <1>7, <1>10, <1>11 DEF IInv, Ownership

\* A message whose offset could not be committed is passed over, on record.
LEMMA CommitFailsKeeps ==
    ASSUME IInv, NEW c \in Consumers, CommitFails(c)
    PROVE  IInv'
<1>1. /\ offset \in Nat /\ offset + 1 \in 1..Len(topic) /\ Len(topic) \in Nat /\ topic \in Seq(Messages)
      /\ offset' = offset + 1 /\ UNCHANGED <<topic, cur, phase, attempts, processed, created, dlq, replays>>
  BY LenProperties DEF CommitFails, handler, IInv, TypeOK
<1>2. PICK m \in Messages : m = topic[offset + 1]
  BY <1>1, ElementOfSeq
<1>3. /\ hit' \in [EventIds -> SUBSET Faults] /\ faults' \in 0..MaxFaults
      /\ "commit" \in hit'[m.id] /\ \A i \in EventIds : hit[i] \subseteq hit'[i]
  <2>1. m.id \in EventIds
    BY DEF EventIds
  <2> QED BY <1>2, <2>1, ConsumerAssumption DEF CommitFails, Strike, IInv, TypeOK
<1>4. TypeOK'
  <2>1. offset' \in 0..Len(topic')
    BY <1>1
  <2> QED BY <1>1, <1>3, <2>1 DEF IInv, TypeOK
<1>5. Ownership'
  BY <1>1, <1>3, NoNewOwner
<1>6. Grows
  BY <1>1, <1>3 DEF Grows
<1>7. MarkMeansHandled'
  <2> SUFFICES ASSUME NEW n \in Messages, n.id \in processed PROVE Covered(n)' \/ Owned(n)'
    BY <1>1 DEF MarkMeansHandled
  <2>1. CASE Covered(n)
    BY <2>1, <1>6, CoveredStays
  <2>2. CASE Owned(n)
    BY <2>2, <1>1 DEF Owned
  <2> QED BY <2>1, <2>2 DEF IInv, MarkMeansHandled
<1>8. DropNeedsFault'
  <2> SUFFICES ASSUME NEW i \in 1..(offset + 1), topic[i].kind # "other"
               PROVE  Covered(topic[i])' \/ InFlight(topic[i])'
    BY <1>1 DEF DropNeedsFault, Covered, Accounted, InFlight
  <2>1. CASE i = offset + 1
    <3>1. Covered(m)'
      BY <1>3 DEF Covered, Droppers
    <3> QED BY <2>1, <3>1, <1>1, <1>2 DEF Covered, Accounted
  <2>2. CASE i \in 1..offset
    <3>1. i \in 1..Len(topic)
      BY <1>1, <2>2
    <3>2. PICK n \in Messages : n = topic[i]
      BY <3>1, <1>1, ElementOfSeq
    <3>3. Covered(n) \/ InFlight(n)
      BY <2>2, <3>2 DEF IInv, DropNeedsFault, Covered
    <3>4. Covered(n)' \/ InFlight(n)'
      BY <3>3, <1>1, <1>6, CoveredStays DEF InFlight
    <3>5. topic'[i] = n
      BY <3>2, <1>1
    <3> QED BY <3>4, <3>5 DEF Covered, Accounted, InFlight
  <2> QED BY <2>1, <2>2, <1>1
<1> QED BY <1>4, <1>5, <1>7, <1>8 DEF IInv, Ownership

\* The three outcomes of MarkProcessed.
LEMMA MarkKeeps ==
    ASSUME IInv, NEW c \in Consumers, MarkNew(c) \/ MarkDuplicate(c) \/ MarkFails(c)
    PROVE  IInv'
<1>1. phase[c] = "mark"
  BY DEF MarkNew, MarkDuplicate, MarkFails
<1>2. PICK m \in Messages : cur[c] = <<m>>
  BY <1>1, InHand DEF IInv
<1>3. Msg(c) = m /\ m.id \in EventIds
  BY <1>2 DEF Msg, EventIds
<1>4. CASE MarkNew(c)
  <2>1. /\ GoTo(c, "create") /\ m.id \notin processed /\ processed' = processed \cup {m.id}
        /\ UNCHANGED <<topic, offset, created, dlq, hit, faults, replays>>
    BY <1>3, <1>4 DEF MarkNew, faultVars
  <2>2. HandlerType' /\ Others(c) /\ phase'[c] = "create" /\ cur' = cur
    BY <2>1, <1>1, AfterGoTo DEF IInv
  <2>3. Ownership' /\ Grows
    BY <1>2, <2>1, <2>2, MarkMakesOwner DEF Grows
  <2>4. Owned(m)' /\ InFlight(m)'
    BY <1>2, <2>2 DEF Owned, InFlight
  <2>5. /\ created' \in [EventIds -> Nat] /\ dlq' \in Seq(Messages)
        /\ hit' \in [EventIds -> SUBSET Faults] /\ faults' \in 0..MaxFaults
    BY <2>1 DEF IInv, TypeOK
  <2> QED BY <1>2, <2>1, <2>2, <2>3, <2>4, <2>5, HandlerKeeps
<1>5. CASE MarkDuplicate(c)
  <2>1. /\ Done(c) /\ m.id \in processed
        /\ UNCHANGED <<topic, offset, processed, created, dlq, hit, faults, replays>>
    BY <1>3, <1>5 DEF MarkDuplicate, faultVars
  <2>2. HandlerType' /\ Others(c) /\ phase'[c] = "read"
    BY <2>1, AfterDone DEF IInv
  <2>3. Grows
    BY <2>1 DEF Grows
  <2>4. Ownership'
    <3>1. \A d \in Consumers : phase'[d] = "create" => phase[d] = "create" /\ cur'[d] = cur[d]
      BY <2>2 DEF Others
    <3> QED BY <2>1, <3>1, NoNewOwner
  <2>5. Covered(m)' \/ (Owned(m)' /\ InFlight(m)')
    BY <1>1, <1>2, <2>1, <2>2, <2>3, OwnedByAnother
  <2>6. /\ created' \in [EventIds -> Nat] /\ dlq' \in Seq(Messages)
        /\ hit' \in [EventIds -> SUBSET Faults] /\ faults' \in 0..MaxFaults
    BY <2>1 DEF IInv, TypeOK
  <2> QED BY <1>2, <2>1, <2>2, <2>3, <2>4, <2>5, <2>6, HandlerKeeps
<1>6. CASE MarkFails(c)
  <2>1. PICK k \in {"error", "lostMark"} :
            /\ Fault(c, k)
            /\ processed' = IF k = "error" THEN processed ELSE processed \cup {m.id}
    BY <1>3, <1>6 DEF MarkFails
  <2>2. RetryOrGiveUp(c) /\ UNCHANGED <<topic, offset, created, dlq, replays>>
    BY <1>6 DEF MarkFails
  <2>3. HandlerType' /\ Others(c) /\ phase'[c] \in {"mark", "deadletter"} /\ cur' = cur
    BY <1>1, <2>2, AfterRetry DEF IInv
  <2>4. /\ hit' \in [EventIds -> SUBSET Faults] /\ faults' \in 0..MaxFaults
        /\ k \in hit'[m.id] /\ \A i \in EventIds : hit[i] \subseteq hit'[i]
    BY <1>2, <2>1, AfterFault DEF IInv
  <2>5. Grows
    BY <2>2, <2>4 DEF Grows
  <2>6. Ownership'
    <3>1. \A d \in Consumers : phase'[d] = "create" => phase[d] = "create" /\ cur'[d] = cur[d]
      BY <2>3 DEF Others
    <3> QED BY <2>1, <2>2, <2>4, <3>1, NoNewOwner
  <2>7. InFlight(m)'
    BY <1>2, <2>3 DEF InFlight
  <2>8. m.id \in processed' => Covered(m)' \/ Owned(m)'
    <3>1. CASE k = "error"
      BY <3>1, <1>1, <1>2, <2>1, <2>3, <2>5, OwnedByAnother
    <3>2. CASE k = "lostMark"
      BY <3>2, <2>4 DEF Covered, Droppers
    <3> QED BY <3>1, <3>2
  <2>9. created' \in [EventIds -> Nat] /\ dlq' \in Seq(Messages)
    BY <2>2 DEF IInv, TypeOK
  <2>10. processed \subseteq processed' /\ processed' \subseteq processed \cup {m.id}
    BY <2>1
  <2> QED BY <1>2, <2>2, <2>3, <2>4, <2>5, <2>6, <2>7, <2>8, <2>9, <2>10, HandlerKeeps
<1> QED BY <1>4, <1>5, <1>6

\* Create, or one failed attempt of it.
LEMMA CreateKeeps ==
    ASSUME IInv, NEW c \in Consumers, Create(c) \/ CreateFails(c)
    PROVE  IInv'
<1>1. phase[c] = "create"
  BY DEF Create, CreateFails
<1>2. PICK m \in Messages : cur[c] = <<m>>
  BY <1>1, InHand DEF IInv
<1>3. Msg(c) = m /\ m.id \in EventIds
  BY <1>2 DEF Msg, EventIds
<1>4. CASE Create(c)
  <2>1. TaskOf(c) /\ Done(c) /\ UNCHANGED <<topic, offset, processed, dlq, hit, faults, replays>>
    BY <1>4 DEF Create, faultVars
  <2>2. HandlerType' /\ Others(c) /\ phase'[c] = "read"
    BY <2>1, AfterDone DEF IInv
  <2>3. /\ created' \in [EventIds -> Nat] /\ created'[m.id] = created[m.id] + 1
        /\ \A i \in EventIds : created[i] > 0 => created'[i] > 0
    BY <1>2, <2>1, AfterTask DEF IInv
  <2>4. Grows
    BY <2>1, <2>3 DEF Grows
  <2>5. Ownership'
    BY <1>1, <1>2, <2>1, <2>2, OwnerCreates
  <2>6. Covered(m)'
    <3>1. created'[m.id] > 0
      BY <1>3, <2>3 DEF IInv, TypeOK
    <3> QED BY <3>1 DEF Covered, Accounted
  <2>7. dlq' \in Seq(Messages) /\ hit' \in [EventIds -> SUBSET Faults] /\ faults' \in 0..MaxFaults
    BY <2>1 DEF IInv, TypeOK
  <2> QED BY <1>2, <2>1, <2>2, <2>3, <2>4, <2>5, <2>6, <2>7, HandlerKeeps
<1>5. CASE CreateFails(c)
  <2>1. RetryOrGiveUp(c) /\ UNCHANGED <<topic, offset, processed, dlq, replays>>
    BY <1>5 DEF CreateFails
  <2>2. HandlerType' /\ Others(c) /\ phase'[c] \in {"create", "deadletter"} /\ cur' = cur
    BY <1>1, <2>1, AfterRetry DEF IInv
  <2>3. Owned(m)' /\ InFlight(m)'
    BY <1>2, <2>2 DEF Owned, InFlight
  <2>4. /\ hit' \in [EventIds -> SUBSET Faults] /\ faults' \in 0..MaxFaults
        /\ \A i \in EventIds : hit[i] \subseteq hit'[i]
    <3>1. CASE UNCHANGED <<hit, faults>>
      BY <3>1 DEF IInv, TypeOK
    <3>2. ASSUME NEW k, Fault(c, k)
          PROVE  /\ hit' \in [EventIds -> SUBSET Faults] /\ faults' \in 0..MaxFaults
                 /\ \A i \in EventIds : hit[i] \subseteq hit'[i]
      BY <1>2, <3>2, AfterFault DEF IInv
    <3> QED BY <1>5, <3>1, <3>2 DEF CreateFails, faultVars
  <2>5. CASE UNCHANGED created
    <3>1. \A d \in Consumers : phase'[d] = "create" => phase[d] = "create" /\ cur'[d] = cur[d]
      BY <1>1, <2>2 DEF Others
    <3>2. Ownership'
      BY <2>1, <2>4, <2>5, <3>1, NoNewOwner
    <3>3. Grows
      BY <2>1, <2>4, <2>5 DEF Grows
    <3>4. created' \in [EventIds -> Nat] /\ dlq' \in Seq(Messages)
      BY <2>1, <2>5 DEF IInv, TypeOK
    <3> QED BY <1>2, <2>1, <2>2, <2>3, <2>4, <3>2, <3>3, <3>4, HandlerKeeps
  <2>6. CASE Fault(c, "lostCreate") /\ TaskOf(c)
    <3>1. "lostCreate" \in hit'[m.id]
      BY <1>2, <2>6, AfterFault DEF IInv
    <3>2. Ownership'
      BY <1>1, <1>2, <2>1, <2>2, <2>4, <2>6, <3>1, OwnerCreates
    <3>3. created' \in [EventIds -> Nat] /\ \A i \in EventIds : created[i] > 0 => created'[i] > 0
      BY <1>2, <2>6, AfterTask DEF IInv
    <3>4. Grows
      BY <2>1, <2>4, <3>3 DEF Grows
    <3>5. dlq' \in Seq(Messages)
      BY <2>1 DEF IInv, TypeOK
    <3> QED BY <1>2, <2>1, <2>2, <2>3, <2>4, <3>2, <3>3, <3>4, <3>5, HandlerKeeps
  <2> QED BY <1>5, <2>5, <2>6 DEF CreateFails
<1> QED BY <1>4, <1>5

\* The dead letter is written.
LEMMA SendToDeadLetterKeeps ==
    ASSUME IInv, NEW c \in Consumers, SendToDeadLetter(c)
    PROVE  IInv'
<1>1. phase[c] = "deadletter" /\ Done(c) /\ dlq' = Append(dlq, Msg(c))
  BY DEF SendToDeadLetter
<1>2. UNCHANGED <<topic, offset, processed, created, hit, faults, replays>>
  BY DEF SendToDeadLetter, faultVars
<1>3. PICK m \in Messages : cur[c] = <<m>>
  BY <1>1, InHand DEF IInv
<1>4. Msg(c) = m /\ dlq \in Seq(Messages)
  BY <1>3 DEF Msg, IInv, TypeOK
<1>5. HandlerType' /\ Others(c) /\ phase'[c] = "read"
  BY <1>1, AfterDone DEF IInv
<1>6. dlq' \in Seq(Messages) /\ Range(dlq') = Range(dlq) \cup {m}
  BY <1>1, <1>4, RangeAppend, AppendProperties
<1>7. Grows /\ Covered(m)'
  BY <1>2, <1>6 DEF Grows, Covered, Accounted
<1>8. Ownership'
  <2>1. \A d \in Consumers : phase'[d] = "create" => phase[d] = "create" /\ cur'[d] = cur[d]
    BY <1>5 DEF Others
  <2> QED BY <1>2, <2>1, NoNewOwner
<1>9. created' \in [EventIds -> Nat] /\ hit' \in [EventIds -> SUBSET Faults] /\ faults' \in 0..MaxFaults
  BY <1>2 DEF IInv, TypeOK
<1> QED BY <1>2, <1>3, <1>5, <1>6, <1>7, <1>8, <1>9, HandlerKeeps

\* Handling ends with a fault that drops the message, and says so.
LEMMA DropKeeps ==
    ASSUME IInv, NEW c \in Consumers, phase[c] # "read", NEW k \in Droppers, Fault(c, k), Done(c),
           UNCHANGED <<topic, offset, processed, created, dlq, replays>>
    PROVE  IInv'
<1>1. PICK m \in Messages : cur[c] = <<m>>
  BY InHand DEF IInv
<1>2. HandlerType' /\ Others(c) /\ phase'[c] = "read"
  BY AfterDone DEF IInv
<1>3. /\ hit' \in [EventIds -> SUBSET Faults] /\ faults' \in 0..MaxFaults
      /\ k \in hit'[m.id] /\ \A i \in EventIds : hit[i] \subseteq hit'[i]
  BY <1>1, AfterFault DEF IInv
<1>4. Grows /\ Covered(m)'
  BY <1>3 DEF Grows, Covered
<1>5. Ownership'
  <2>1. \A d \in Consumers : phase'[d] = "create" => phase[d] = "create" /\ cur'[d] = cur[d]
    BY <1>2 DEF Others
  <2> QED BY <1>3, <2>1, NoNewOwner
<1>6. created' \in [EventIds -> Nat] /\ dlq' \in Seq(Messages)
  BY DEF IInv, TypeOK
<1> QED BY <1>1, <1>2, <1>3, <1>4, <1>5, <1>6, HandlerKeeps

\* A dead letter is copied back behind everything on the topic.
LEMMA ReplayKeeps ==
    ASSUME IInv, NEW i \in DOMAIN dlq, Replay(i)
    PROVE  IInv'
<1>1. /\ replays' = replays + 1 /\ replays < MaxReplays /\ topic' = Append(topic, dlq[i])
      /\ UNCHANGED <<offset, cur, phase, attempts, processed, created, dlq, hit, faults>>
  BY DEF Replay, handler, faultVars
<1>2. dlq[i] \in Messages /\ topic \in Seq(Messages) /\ Len(topic) \in Nat
  BY LenProperties, ElementOfSeq DEF IInv, TypeOK
<1>3. /\ topic' \in Seq(Messages) /\ Len(topic') = Len(topic) + 1
      /\ \A n \in 1..Len(topic) : topic'[n] = topic[n]
  BY <1>1, <1>2, AppendProperties
<1>4. offset' \in 0..Len(topic') /\ replays' \in 0..MaxReplays
  BY <1>1, <1>2, <1>3, ConsumerAssumption DEF IInv, TypeOK
<1>5. TypeOK'
  BY <1>1, <1>3, <1>4 DEF IInv, TypeOK
<1>6. OneOwner' /\ CreatedIsMarked' /\ OneTaskPerRelease'
  BY <1>1 DEF IInv, OneOwner, CreatedIsMarked, OneTaskPerRelease, Msg
<1>7. MarkMeansHandled'
  BY <1>1 DEF IInv, MarkMeansHandled, Covered, Owned, Accounted
<1>8. DropNeedsFault'
  <2>1. \A n \in 1..offset : topic'[n] = topic[n]
    <3>1. offset \in Nat /\ offset <= Len(topic)
      BY <1>2 DEF IInv, TypeOK
    <3>2. 1..offset \subseteq 1..Len(topic)
      BY <1>2, <3>1
    <3> QED BY <1>3, <3>2
  <2> QED BY <1>1, <2>1 DEF IInv, DropNeedsFault, Accounted, InFlight
<1> QED BY <1>5, <1>6, <1>7, <1>8 DEF IInv

\* Every step keeps the invariant.
LEMMA InvNext == IInv /\ [Next]_vars => IInv'
<1> SUFFICES ASSUME IInv, [Next]_vars PROVE IInv'
  OBVIOUS
<1>1. CASE UNCHANGED vars
  <2>1. TypeOK'
    BY <1>1 DEF vars, IInv, TypeOK
  <2>2. OneOwner' /\ CreatedIsMarked' /\ OneTaskPerRelease'
    BY <1>1 DEF vars, IInv, OneOwner, CreatedIsMarked, OneTaskPerRelease, Msg
  <2>3. MarkMeansHandled' /\ DropNeedsFault'
    BY <1>1 DEF vars, IInv, MarkMeansHandled, DropNeedsFault, Covered, Owned, Accounted, InFlight
  <2> QED BY <2>1, <2>2, <2>3 DEF IInv
<1>2. ASSUME NEW c \in Consumers, DeadLetterFails(c) \/ Crash(c) \/ Shutdown(c) PROVE IInv'
  <2>1. PICK k \in Droppers : Fault(c, k)
    BY <1>2 DEF DeadLetterFails, Crash, Shutdown, Droppers
  <2>2. phase[c] # "read" /\ Done(c) /\ UNCHANGED <<topic, offset, processed, created, dlq, replays>>
    BY <1>2 DEF DeadLetterFails, Crash, Shutdown
  <2> QED BY <2>1, <2>2, DropKeeps
<1>3. ASSUME NEW c \in Consumers, Step(c) PROVE IInv'
  BY <1>2, <1>3, ReadKeeps, MarkKeeps, CreateKeeps, SendToDeadLetterKeeps DEF Step
<1> QED BY <1>1, <1>2, <1>3, CommitFailsKeeps, ReplayKeeps DEF Next

-----------------------------------------------------------------------------
(* The theorems *)

\* The invariant holds in every reachable state.
LEMMA Invariant == Spec => []IInv
BY InvInit, InvNext, PTL DEF Spec

\* The intake's state is always well formed; no step is retried beyond the limit.
THEOREM TypeCorrect == Spec => []TypeOK
<1>1. IInv => TypeOK
  BY DEF IInv
<1> QED BY <1>1, Invariant, PTL

\* One released unit, one task, whatever is duplicated, replayed or retried
\* and whoever crashes: only a CreateTask that committed and still returned an
\* error can make another.
THEOREM ReleasesCreateOnce == Spec => []OneTaskPerRelease
<1>1. IInv => OneTaskPerRelease
  BY DEF IInv
<1> QED BY <1>1, Invariant, PTL

\* A message that was read is never dropped, except by a failed offset commit,
\* a crash, a shutdown, a failed dead-letter write or a lost mark that struck
\* that very message.
THEOREM NothingDroppedQuietly == Spec => []DropNeedsFault
<1>1. IInv => DropNeedsFault
  BY DEF IInv
<1> QED BY <1>1, Invariant, PTL
=============================================================================
