------------------------ MODULE PathCatalogueProofs -------------------------
(***************************************************************************)
(* Theorems about the process-path catalogue, for any replicas, partitions *)
(* and sequence of published definitions.                                  *)
(***************************************************************************)
EXTENDS PathCatalogue, FiniteSetTheorems, SequenceTheorems, WellFoundedInduction, TLAPS

-----------------------------------------------------------------------------
(* The inductive invariant *)

\* The loop runs only in a process that has got as far as the replay.
LoopInLive == \A r \in running : phase[r] \in Live

\* No boot goes past the replay before the readiness flag is set.
PastReplayReady == \A r \in Replicas : phase[r] \in {"migrate", "ping", "serving"} => r \in ready

\* The replay starts only when the length of every partition is noted.
AllNoted ==
    \A r \in Replicas : phase[r] \in Live => \A p \in Partitions : snap[r][p] # Unread

\* A partition leaves the target only when it is read up to the noted length.
CaughtUp ==
    \A r \in Replicas \ rewound : phase[r] \in Live =>
        \A p \in Partitions \ target[r] : Upto(p, pos[r][p]) >= snap[r][p]

\* At every point of the replay the map is what the messages read describe.
MapExact ==
    \A r \in Replicas \ rewound : phase[r] \in Live =>
        \A i \in DOMAIN Writes : Describes(paths[r][PathAt(i)], PathAt(i), pos[r][PartitionAt(i)])

IInv == TypeOK /\ LoopInLive /\ PastReplayReady /\ AllNoted /\ CaughtUp /\ MapExact

-----------------------------------------------------------------------------
(* Offsets *)

\* The writes are numbered from one.
LEMMA WritesNumbered ==
    /\ Len(Writes) \in Nat
    /\ DOMAIN Writes = 1..Len(Writes)
    /\ \A i \in DOMAIN Writes : /\ Writes[i] \in [kind : Kinds, path : DOMAIN PartitionOf,
                                                 prefix : Seq(STRING) \ {NoPath}]
                                /\ PathAt(i) \in Paths /\ PartitionAt(i) \in Partitions
<1> DEFINE W == [kind : Kinds, path : DOMAIN PartitionOf, prefix : Seq(STRING) \ {NoPath}]
<1>1. Writes \in Seq(W)
  BY CatalogueAssumption
<1>2. Len(Writes) \in Nat /\ DOMAIN Writes = 1..Len(Writes) /\ \A i \in DOMAIN Writes : Writes[i] \in W
  <2> HIDE DEF W
  <2> QED BY <1>1
<1> QED BY <1>2 DEF Paths, Partitions

\* Every partition holds finitely many writes.
LEMMA LogFinite ==
    ASSUME NEW p
    PROVE  IsFiniteSet(Log(p))
<1>1. IsFiniteSet(1..Len(Writes))
  BY WritesNumbered, FS_Interval
<1>2. Log(p) \in SUBSET (1..Len(Writes))
  BY WritesNumbered DEF Log
<1> QED BY <1>1, <1>2, FS_Subset

\* Offsets are natural numbers that grow along the topic.
LEMMA OffsetsGrow ==
    ASSUME NEW p, NEW m \in Nat, NEW n \in Nat, m <= n
    PROVE  Upto(p, m) \in Nat /\ Upto(p, n) \in Nat /\ Upto(p, m) <= Upto(p, n)
<1> DEFINE S(k) == {i \in Log(p) : i <= k}
<1>1. IsFiniteSet(Log(p))
  BY LogFinite
<1>2. S(m) \in SUBSET Log(p) /\ S(n) \in SUBSET Log(p) /\ S(m) \in SUBSET S(n)
  BY WritesNumbered DEF Log
<1>3. IsFiniteSet(S(m)) /\ IsFiniteSet(S(n))
  BY <1>1, <1>2, FS_Subset
<1>4. Cardinality(S(m)) \in Nat /\ Cardinality(S(n)) \in Nat
  BY <1>3, FS_CardinalityType
<1>5. Cardinality(S(m)) <= Cardinality(S(n))
  BY <1>2, <1>3, FS_Subset
<1> QED BY <1>4, <1>5 DEF Upto

\* A write whose offset is covered by the first n writes is one of them.
LEMMA OffsetDecides ==
    ASSUME NEW p, NEW i \in Log(p), NEW n \in Nat, Upto(p, i) <= Upto(p, n)
    PROVE  i <= n
<1> DEFINE S(k) == {j \in Log(p) : j <= k}
<1>0. i \in Nat
  BY WritesNumbered DEF Log
<1> SUFFICES ASSUME n < i PROVE FALSE
  BY <1>0
<1>1. IsFiniteSet(Log(p))
  BY LogFinite
<1>2. S(i) \in SUBSET Log(p) /\ S(n) \in SUBSET S(i) /\ i \in S(i) /\ i \notin S(n)
  BY <1>0, WritesNumbered DEF Log
<1>3. IsFiniteSet(S(i))
  BY <1>1, <1>2, FS_Subset
<1>4. Cardinality(S(i)) # Cardinality(S(n))
  <2> HIDE DEF S
  <2> QED BY <1>2, <1>3, FS_Subset
<1>5. Upto(p, i) # Upto(p, n)
  BY <1>4 DEF Upto
<1>6. Upto(p, n) \in Nat /\ Upto(p, i) \in Nat /\ Upto(p, n) <= Upto(p, i)
  BY <1>0, OffsetsGrow
<1> QED BY <1>5, <1>6

\* Only writes of its own partition touch a path.
LEMMA TouchedInPartition ==
    ASSUME NEW i \in DOMAIN Writes, NEW j \in DOMAIN Writes, Touches(j, PathAt(i))
    PROVE  j \in Log(PartitionAt(i))
BY CatalogueAssumption DEF Touches, Log

-----------------------------------------------------------------------------
(* One message *)

\* Handling a write changes the path it touches, to its effect, and no other.
LEMMA HandleFacts ==
    ASSUME NEW defs \in [Paths -> Seq(STRING) \cup {NoPath}], NEW i \in DOMAIN Writes
    PROVE  /\ Handle(defs, Writes[i]) \in [Paths -> Seq(STRING) \cup {NoPath}]
           /\ \A x \in Paths : Handle(defs, Writes[i])[x] =
                  IF Touches(i, x) THEN Effect(i) ELSE defs[x]
<1> DEFINE w == Writes[i]
<1>1. /\ w.kind \in Kinds /\ w.prefix \in Seq(STRING) /\ PathAt(i) \in Paths
      /\ Upper(w.path) = PathAt(i)
  BY WritesNumbered DEF PathAt
<1>2. CASE w.kind \in {"ProcessPathCreated", "ProcessPathUpdated"}
  <2>1. Handle(defs, w) = [defs EXCEPT ![PathAt(i)] = w.prefix]
    BY <1>1, <1>2 DEF Handle
  <2>2. Effect(i) = w.prefix /\ \A x : Touches(i, x) <=> x = PathAt(i)
    BY <1>2 DEF Effect, Touches
  <2> QED BY <1>1, <2>1, <2>2
<1>3. CASE w.kind = "ProcessPathDeactivated"
  <2>1. Handle(defs, w) = [defs EXCEPT ![PathAt(i)] = NoPath]
    BY <1>1, <1>3 DEF Handle
  <2>2. Effect(i) = NoPath /\ \A x : Touches(i, x) <=> x = PathAt(i)
    BY <1>3 DEF Effect, Touches
  <2> QED BY <1>1, <2>1, <2>2
<1>4. CASE w.kind \in {"other", "malformed"}
  <2>1. Handle(defs, w) = defs
    BY <1>4 DEF Handle
  <2>2. \A x : ~Touches(i, x)
    BY <1>4 DEF Touches
  <2> QED BY <2>1, <2>2
<1> QED BY <1>1, <1>2, <1>3, <1>4 DEF Kinds

\* Reading on to the next write of a partition keeps the map exact.
LEMMA ReadKeepsExact ==
    ASSUME NEW n \in Nat, NEW p, NEW i \in Log(p), i > n,
           \A j \in Log(p) : j > n => i <= j,
           NEW k \in DOMAIN Writes, PartitionAt(k) = p,
           NEW def, Describes(def, PathAt(k), n)
    PROVE  Describes(IF Touches(i, PathAt(k)) THEN Effect(i) ELSE def, PathAt(k), i)
<1>1. i \in DOMAIN Writes /\ i \in Nat /\ DOMAIN Writes \subseteq Nat
  BY WritesNumbered DEF Log
<1>2. \A j \in Touching(PathAt(k), i) : j \in Log(p) /\ j \in Nat /\ (j <= n \/ j = i)
  BY <1>1, TouchedInPartition DEF Touching
<1>3. CASE Touches(i, PathAt(k))
  <2>1. i \in Touching(PathAt(k), i) /\ \A j \in Touching(PathAt(k), i) : j <= i
    BY <1>1, <1>2, <1>3 DEF Touching
  <2> QED BY <1>3, <2>1 DEF Describes
<1>4. CASE ~Touches(i, PathAt(k))
  <2>1. Touching(PathAt(k), i) = Touching(PathAt(k), n)
    BY <1>1, <1>2, <1>4 DEF Touching
  <2> QED BY <1>4, <2>1 DEF Describes
<1> QED BY <1>3, <1>4
-----------------------------------------------------------------------------
(* The steps *)

\* Steps that move the boot on, or the producer, and leave the catalogue alone.
LEMMA BootKeeps ==
    ASSUME IInv, UNCHANGED <<target, ready, pos, paths, rewound>>,
           snap' \in [Replicas -> [Partitions -> Nat \cup {Unread}]],
           \A s \in Replicas : phase'[s] \in Live => snap'[s] = snap[s],
           NEW r \in Replicas, NEW ph \in Live \cup {"down", "dial"},
           phase' = [phase EXCEPT ![r] = ph],
           ph \in {"migrate", "ping", "serving"} => r \in ready,
           ph \in Live => phase[r] \in Live,
           running' \subseteq running, ph \notin Live => r \notin running',
           attempt' \in [Replicas -> 0..(BootRetries - 1)], pub' = pub, faults' \in 0..MaxFaults
    PROVE  IInv'
<1>1. phase \in [Replicas -> Live \cup {"down", "dial"}]
  BY DEF IInv, TypeOK
<1>2. \A s \in Replicas : phase'[s] \in Live => phase[s] \in Live
  BY <1>1
<1>3. TypeOK'
  BY <1>1, <1>2 DEF IInv, TypeOK
<1>4. LoopInLive'
  BY <1>1 DEF IInv, TypeOK, LoopInLive
<1>5. PastReplayReady'
  BY <1>1 DEF IInv, PastReplayReady
<1>6. CaughtUp'
  BY <1>2 DEF IInv, CaughtUp
<1>7. MapExact'
  BY <1>2 DEF IInv, MapExact
<1>8. AllNoted'
  BY <1>2 DEF IInv, AllNoted
<1> QED BY <1>3, <1>4, <1>5, <1>6, <1>7, <1>8 DEF IInv

\* A publication adds to the topic only.
LEMMA PublishKeeps ==
    ASSUME IInv, Publish
    PROVE  IInv'
<1>1. pub \in Nat /\ pub' \in 0..Len(Writes) /\ 0..pub \subseteq 0..pub'
  BY WritesNumbered DEF IInv, TypeOK, Publish
<1>2. pos' \in [Replicas -> [Partitions -> 0..pub']]
  BY <1>1 DEF IInv, TypeOK, Publish, catalogue
<1>3. TypeOK'
  BY <1>1, <1>2 DEF IInv, TypeOK, Publish, catalogue
<1>4. (LoopInLive /\ PastReplayReady /\ AllNoted /\ CaughtUp /\ MapExact)'
  BY DEF IInv, LoopInLive, PastReplayReady, AllNoted, CaughtUp, MapExact, Publish, catalogue
<1> QED BY <1>3, <1>4 DEF IInv

\* A fault stays within the bound of the instance.
LEMMA FaultBounded ==
    ASSUME IInv, NEW f, Fault(f)
    PROVE  faults' \in 0..MaxFaults
BY CatalogueAssumption DEF IInv, TypeOK, Fault

\* Lengths are forgotten before a new attempt only.
LEMMA ToNoteType ==
    ASSUME IInv, NEW r \in Replicas, ToNote(r)
    PROVE  /\ snap' \in [Replicas -> [Partitions -> Nat \cup {Unread}]]
           /\ \A s \in Replicas : s # r => snap'[s] = snap[s]
BY DEF IInv, TypeOK, ToNote

\* The length of a partition is noted.
LEMMA NoteLengthKeeps ==
    ASSUME IInv, NEW r \in Replicas, NEW p \in Partitions, NoteLength(r, p)
    PROVE  IInv'
<1>1. /\ phase[r] = "dial" /\ snap' = [snap EXCEPT ![r][p] = Upto(p, pub)]
      /\ UNCHANGED <<pub, phase, attempt, target, ready, pos, paths, running, rewound, faults>>
  BY DEF NoteLength
<1>2. Upto(p, pub) \in Nat
  <2>1. pub \in Nat
    BY WritesNumbered DEF IInv, TypeOK
  <2> QED BY <2>1, OffsetsGrow
<1>3. snap' \in [Replicas -> [Partitions -> Nat \cup {Unread}]]
  BY <1>1, <1>2 DEF IInv, TypeOK
<1>4. \A s \in Replicas : phase'[s] \in Live => snap'[s] = snap[s]
  BY <1>1 DEF IInv, TypeOK, Live
<1>5. TypeOK'
  BY <1>1, <1>3 DEF IInv, TypeOK
<1>6. (LoopInLive /\ PastReplayReady /\ AllNoted /\ CaughtUp /\ MapExact)'
  BY <1>1, <1>4 DEF IInv, LoopInLive, PastReplayReady, AllNoted, CaughtUp, MapExact
<1> QED BY <1>5, <1>6 DEF IInv

\* A failed attempt is tried again or ends the process.
LEMMA AttemptKeeps ==
    ASSUME IInv, NEW r \in Replicas, AttemptFails(r)
    PROVE  IInv'
<1> USE DEF AttemptFails
<1>1. /\ faults' \in 0..MaxFaults
      /\ snap' \in [Replicas -> [Partitions -> Nat \cup {Unread}]]
      /\ \A s \in Replicas : s # r => snap'[s] = snap[s]
      /\ phase[r] # "dial" => snap' = snap
  BY FaultBounded, ToNoteType DEF IInv, TypeOK
<1>2. /\ phase \in [Replicas -> Live \cup {"down", "dial"}]
      /\ attempt \in [Replicas -> 0..(BootRetries - 1)] /\ BootRetries \in Nat \ {0}
  BY CatalogueAssumption DEF IInv, TypeOK
<1>3. CASE attempt[r] + 1 = BootRetries
  <2>1. phase' = [phase EXCEPT ![r] = "down"] /\ running' = running \ {r}
    BY <1>3 DEF To
  <2>2. attempt' \in [Replicas -> 0..(BootRetries - 1)]
    BY <1>2, <1>3 DEF To
  <2>3. \A s \in Replicas : phase'[s] \in Live => snap'[s] = snap[s]
    BY <1>1, <1>2, <2>1 DEF Live
  <2> QED BY <1>1, <2>1, <2>2, <2>3, BootKeeps DEF Live
<1>4. CASE attempt[r] + 1 # BootRetries
  <2>1. phase' = [phase EXCEPT ![r] = phase[r]] /\ running' = running
    BY <1>2, <1>4
  <2>2. attempt' \in [Replicas -> 0..(BootRetries - 1)]
    BY <1>2, <1>4
  <2>3. /\ phase[r] \in Live \cup {"down", "dial"}
        /\ phase[r] \in {"migrate", "ping", "serving"} => r \in ready
        /\ phase[r] \notin Live => r \notin running
    BY <1>2 DEF IInv, PastReplayReady, LoopInLive
  <2>4. \A s \in Replicas : phase'[s] \in Live => snap'[s] = snap[s]
    BY <1>1, <1>2, <2>1 DEF Live
  <2> QED BY <1>1, <2>1, <2>2, <2>3, <2>4, BootKeeps
<1> QED BY <1>3, <1>4

\* The steps of the boot other than those that create the catalogue.
LEMMA BootStepKeeps ==
    ASSUME IInv, NEW r \in Replicas,
           Start(r) \/ WaitReady(r) \/ Migrate(r) \/ StartWorkReleasedConsumer(r)
    PROVE  IInv'
<1>1. /\ UNCHANGED <<target, ready, pos, paths, rewound>> /\ running' = running
      /\ pub' = pub /\ faults' = faults
  BY DEF Start, WaitReady, Migrate, StartWorkReleasedConsumer, catalogue
<1>2. PICK ph \in Live \cup {"down", "dial"} :
          /\ To(r, ph)
          /\ ph \in {"migrate", "ping", "serving"} => r \in ready
          /\ ph \in Live => phase[r] \in Live
          /\ ph \notin Live => phase[r] \notin Live
  BY DEF Start, WaitReady, Migrate, StartWorkReleasedConsumer, Live, IInv, PastReplayReady
<1>3. attempt' \in [Replicas -> 0..(BootRetries - 1)] /\ phase' = [phase EXCEPT ![r] = ph]
  BY <1>2, CatalogueAssumption DEF To, IInv, TypeOK
<1>4. running' \subseteq running /\ (ph \notin Live => r \notin running') /\ faults' \in 0..MaxFaults
  BY <1>1, <1>2 DEF IInv, TypeOK, LoopInLive
<1>5. /\ snap' \in [Replicas -> [Partitions -> Nat \cup {Unread}]]
      /\ \A s \in Replicas : s # r \/ phase[r] # "down" => snap'[s] = snap[s]
  <2>1. CASE Start(r)
    BY <2>1, ToNoteType DEF Start
  <2>2. CASE WaitReady(r) \/ Migrate(r) \/ StartWorkReleasedConsumer(r)
    BY <2>2 DEF WaitReady, Migrate, StartWorkReleasedConsumer, catalogue, IInv, TypeOK
  <2> QED BY <2>1, <2>2
<1>6. \A s \in Replicas : phase'[s] \in Live => snap'[s] = snap[s]
  BY <1>2, <1>3, <1>5 DEF IInv, TypeOK, Live
<1> QED BY <1>1, <1>2, <1>3, <1>4, <1>5, <1>6, BootKeeps

\* The end of a process, whatever ends it.
LEMMA ExitKeeps ==
    ASSUME IInv, NEW r \in Replicas, Exit(r), faults' \in 0..MaxFaults
    PROVE  IInv'
<1>1. /\ phase' = [phase EXCEPT ![r] = "down"] /\ running' = running \ {r}
      /\ attempt' \in [Replicas -> 0..(BootRetries - 1)]
  BY CatalogueAssumption DEF Exit, To, IInv, TypeOK
<1>2. UNCHANGED <<snap, target, ready, pos, paths, rewound>> /\ pub' = pub
  BY DEF Exit
<1>3. snap' \in [Replicas -> [Partitions -> Nat \cup {Unread}]]
  BY <1>2 DEF IInv, TypeOK
<1> QED BY <1>1, <1>2, <1>3, BootKeeps DEF Live

\* NewConsumer: nothing is read, the map is empty, and what is not awaited
\* is empty too.
LEMMA NewConsumerKeeps ==
    ASSUME IInv, NEW r \in Replicas, NewConsumer(r)
    PROVE  IInv'
<1> DEFINE behind == {p \in Partitions : snap[r][p] > 0}
<1>1. /\ phase[r] = "dial" /\ phase' = [phase EXCEPT ![r] = "replay"]
      /\ attempt' = [attempt EXCEPT ![r] = 0]
      /\ snap' = snap /\ \A p \in Partitions : snap[r][p] # Unread
      /\ target' = [target EXCEPT ![r] = behind]
      /\ ready' = IF behind = {} THEN ready \cup {r} ELSE ready \ {r}
      /\ pos' = [pos EXCEPT ![r] = [p \in Partitions |-> 0]]
      /\ paths' = [paths EXCEPT ![r] = [x \in Paths |-> NoPath]]
      /\ running' = running \cup {r}
      /\ rewound' = rewound \ {r}
      /\ pub' = pub /\ faults' = faults
  BY DEF NewConsumer, To
<1>2. pub \in Nat /\ \A p \in Partitions : Upto(p, pub) \in Nat
  <2>1. pub \in Nat
    BY WritesNumbered DEF IInv, TypeOK
  <2> QED BY <2>1, OffsetsGrow
<1>3. behind \in SUBSET Partitions /\ \A p \in Partitions \ behind : snap[r][p] = 0
  BY <1>1 DEF IInv, TypeOK, Unread
<1> HIDE DEF behind
<1>4. /\ target'[r] = behind /\ snap'[r] = snap[r] /\ pos'[r] = [p \in Partitions |-> 0]
      /\ paths'[r] = [x \in Paths |-> NoPath]
      /\ \A s \in Replicas \ {r} : /\ target'[s] = target[s] /\ snap'[s] = snap[s]
                                   /\ pos'[s] = pos[s] /\ paths'[s] = paths[s]
                                   /\ phase'[s] = phase[s]
                                   /\ (s \in ready' <=> s \in ready)
                                   /\ (s \in rewound' <=> s \in rewound)
  BY <1>1 DEF IInv, TypeOK
<1>5. TypeOK'
  <2>1. /\ pos' \in [Replicas -> [Partitions -> 0..pub']]
        /\ paths' \in [Replicas -> [Paths -> Seq(STRING) \cup {NoPath}]]
    BY <1>1, <1>2 DEF IInv, TypeOK
  <2>2. /\ snap' \in [Replicas -> [Partitions -> Nat \cup {Unread}]]
        /\ target' \in [Replicas -> SUBSET Partitions]
    BY <1>1, <1>3 DEF IInv, TypeOK
  <2>3. /\ phase' \in [Replicas -> Live \cup {"down", "dial"}]
        /\ attempt' \in [Replicas -> 0..(BootRetries - 1)]
    BY <1>1, CatalogueAssumption DEF IInv, TypeOK, Live
  <2>4. \A s \in Replicas : phase'[s] \in Live => (s \in ready' <=> target'[s] = {})
    BY <1>1, <1>4 DEF IInv, TypeOK
  <2>5. ready' \subseteq Replicas /\ running' \subseteq Replicas /\ rewound' \subseteq Replicas
    BY <1>1 DEF IInv, TypeOK
  <2> QED BY <1>1, <2>1, <2>2, <2>3, <2>4, <2>5 DEF IInv, TypeOK
<1>6. LoopInLive'
  BY <1>1 DEF IInv, TypeOK, LoopInLive, Live
<1>7. PastReplayReady'
  BY <1>1, <1>4 DEF IInv, TypeOK, PastReplayReady
<1>8. CaughtUp'
  <2>1. \A p \in Partitions \ behind : Upto(p, 0) >= snap[r][p]
    BY <1>3, OffsetsGrow
  <2>2. \A p \in Partitions \ target'[r] : Upto(p, pos'[r][p]) >= snap'[r][p]
    BY <1>4, <2>1
  <2> QED BY <1>4, <2>2 DEF IInv, CaughtUp
<1>9. MapExact'
  <2>1. \A x : Touching(x, 0) = {}
    BY WritesNumbered DEF Touching
  <2>2. \A i \in DOMAIN Writes :
            paths'[r][PathAt(i)] = NoPath /\ pos'[r][PartitionAt(i)] = 0
    BY <1>4, WritesNumbered
  <2>3. \A i \in DOMAIN Writes : Describes(paths'[r][PathAt(i)], PathAt(i), pos'[r][PartitionAt(i)])
    BY <2>1, <2>2 DEF Describes
  <2> QED BY <1>4, <2>3 DEF IInv, MapExact
<1>10. AllNoted'
  BY <1>1, <1>4 DEF IInv, AllNoted
<1> QED BY <1>5, <1>6, <1>7, <1>8, <1>9, <1>10 DEF IInv

\* One turn of the loop: the map stays exact, and a partition leaves the
\* target only at the noted length.
LEMMA ReadKeeps ==
    ASSUME IInv, NEW r \in Replicas, NEW p \in Partitions, Read(r, p)
    PROVE  IInv'
<1>1. r \in running /\ phase[r] \in Live /\ pub \in Nat /\ pos[r][p] \in Nat
  BY WritesNumbered DEF Read, IInv, TypeOK, LoopInLive
<1>2. PICK i \in 1..pub :
          /\ IsNext(r, p, i)
          /\ pos' = [pos EXCEPT ![r][p] = i]
          /\ paths' = [paths EXCEPT ![r] = Handle(@, Writes[i])]
          /\ CheckReady(r, p, i)
  BY DEF Read
<1>3. UNCHANGED <<pub, phase, attempt, snap, running, rewound, faults>>
  BY DEF Read
<1>4. i \in Log(p) /\ i \in DOMAIN Writes /\ i \in 0..pub /\ i > pos[r][p]
  BY <1>1, <1>2 DEF IsNext, Log
<1>5. /\ pos[r] \in [Partitions -> 0..pub] /\ paths[r] \in [Paths -> Seq(STRING) \cup {NoPath}]
      /\ pos'[r] = [pos[r] EXCEPT ![p] = i]
      /\ paths'[r] = Handle(paths[r], Writes[i])
      /\ \A s \in Replicas \ {r} : pos'[s] = pos[s] /\ paths'[s] = paths[s]
  BY <1>2 DEF IInv, TypeOK
<1>6. /\ paths'[r] \in [Paths -> Seq(STRING) \cup {NoPath}]
      /\ \A x \in Paths : paths'[r][x] = IF Touches(i, x) THEN Effect(i) ELSE paths[r][x]
  BY <1>4, <1>5, HandleFacts
<1>7. /\ target' \in [Replicas -> SUBSET Partitions] /\ ready' \subseteq Replicas
      /\ \A s \in Replicas : phase'[s] \in Live => (s \in ready' <=> target'[s] = {})
      /\ ready \subseteq ready'
      /\ \A s \in Replicas \ {r} : target'[s] = target[s]
      /\ \/ target'[r] = target[r]
         \/ target'[r] = target[r] \ {p} /\ Upto(p, i) >= snap[r][p]
  <2>1. /\ target \in [Replicas -> SUBSET Partitions] /\ ready \subseteq Replicas
        /\ \A s \in Replicas : phase[s] \in Live => (s \in ready <=> target[s] = {})
    BY DEF IInv, TypeOK
  <2>2. CASE r \notin ready /\ p \in target[r] /\ Upto(p, i) >= snap[r][p]
    <3>1. /\ target' = [target EXCEPT ![r] = @ \ {p}]
          /\ ready' = IF target[r] = {p} THEN ready \cup {r} ELSE ready
      BY <1>2, <2>2 DEF CheckReady
    <3>2. target'[r] = target[r] \ {p} /\ \A s \in Replicas \ {r} : target'[s] = target[s]
      BY <2>1, <3>1
    <3>3. target'[r] = {} <=> target[r] = {p}
      BY <2>2, <3>2
    <3>4. \A s \in Replicas : phase'[s] \in Live => (s \in ready' <=> target'[s] = {})
      BY <1>3, <2>1, <2>2, <3>1, <3>2, <3>3
    <3> QED BY <2>1, <2>2, <3>1, <3>2, <3>4
  <2>3. CASE ~(r \notin ready /\ p \in target[r] /\ Upto(p, i) >= snap[r][p])
    <3>1. target' = target /\ ready' = ready
      BY <1>2, <2>3 DEF CheckReady
    <3> QED BY <1>3, <2>1, <3>1
  <2> QED BY <2>2, <2>3
<1>8. TypeOK'
  <2>1. pos' \in [Replicas -> [Partitions -> 0..pub']]
    BY <1>2, <1>3, <1>4 DEF IInv, TypeOK
  <2>2. paths' \in [Replicas -> [Paths -> Seq(STRING) \cup {NoPath}]]
    BY <1>2, <1>5, <1>6 DEF IInv, TypeOK
  <2> QED BY <1>3, <1>7, <2>1, <2>2 DEF IInv, TypeOK
<1>9. LoopInLive' /\ PastReplayReady'
  BY <1>3, <1>7 DEF IInv, LoopInLive, PastReplayReady
<1>12. AllNoted'
  BY <1>3 DEF IInv, AllNoted
<1>10. CaughtUp'
  <2> SUFFICES ASSUME NEW s \in Replicas \ rewound, phase[s] \in Live,
                      NEW q \in Partitions \ target'[s]
               PROVE  Upto(q, pos'[s][q]) >= snap[s][q]
    BY <1>3 DEF CaughtUp
  <2>1. CASE s # r \/ q # p
    BY <1>5, <1>7, <2>1 DEF IInv, CaughtUp
  <2>2. CASE s = r /\ q = p
    <3>1. pos'[s][q] = i
      BY <1>5, <2>2
    <3>2. CASE p \in target[r]
      BY <1>7, <2>2, <3>1, <3>2
    <3>3. CASE p \notin target[r]
      <4>1. Upto(p, pos[r][p]) >= snap[r][p]
        BY <2>2, <3>3 DEF IInv, CaughtUp
      <4>2. /\ Upto(p, pos[r][p]) \in Nat /\ Upto(p, i) \in Nat
            /\ Upto(p, pos[r][p]) <= Upto(p, i)
        BY <1>1, <1>4, OffsetsGrow
      <4>3. snap[r][p] \in Int
        BY DEF IInv, TypeOK, Unread
      <4> QED BY <2>2, <3>1, <4>1, <4>2, <4>3
    <3> QED BY <3>2, <3>3
  <2> QED BY <2>1, <2>2
<1>11. MapExact'
  <2> SUFFICES ASSUME NEW s \in Replicas \ rewound, phase[s] \in Live, NEW k \in DOMAIN Writes
               PROVE  Describes(paths'[s][PathAt(k)], PathAt(k), pos'[s][PartitionAt(k)])
    BY <1>3 DEF MapExact
  <2>1. Describes(paths[s][PathAt(k)], PathAt(k), pos[s][PartitionAt(k)])
    BY DEF IInv, MapExact
  <2>2. PathAt(k) \in Paths /\ PartitionAt(k) \in Partitions
    BY WritesNumbered
  <2>3. CASE s # r
    BY <1>5, <2>1, <2>3
  <2>4. CASE s = r /\ PartitionAt(k) # p
    <3>1. ~Touches(i, PathAt(k))
      BY <1>4, <2>4, TouchedInPartition DEF Log
    <3>2. paths'[s][PathAt(k)] = paths[s][PathAt(k)] /\ pos'[s][PartitionAt(k)] = pos[s][PartitionAt(k)]
      BY <1>5, <1>6, <2>2, <2>4, <3>1
    <3> QED BY <2>1, <3>2
  <2>5. CASE s = r /\ PartitionAt(k) = p
    <3>1. pos'[s][PartitionAt(k)] = i
      BY <1>5, <2>5
    <3>2. paths'[s][PathAt(k)] = IF Touches(i, PathAt(k)) THEN Effect(i) ELSE paths[s][PathAt(k)]
      BY <1>6, <2>2, <2>5
    <3>3. \A j \in Log(p) : j > pos[r][p] => i <= j
      BY <1>2 DEF IsNext
    <3>4. Describes(IF Touches(i, PathAt(k)) THEN Effect(i) ELSE paths[s][PathAt(k)], PathAt(k), i)
      BY <1>1, <1>4, <2>1, <2>5, <3>3, ReadKeepsExact
    <3> QED BY <3>1, <3>2, <3>4
  <2> QED BY <2>3, <2>4, <2>5
<1> QED BY <1>8, <1>9, <1>10, <1>11, <1>12 DEF IInv

\* A read error ends the loop and leaves all it built.
LEMMA ReadErrorKeeps ==
    ASSUME IInv, NEW r \in Replicas, ReadError(r)
    PROVE  IInv'
<1>1. faults' \in 0..MaxFaults
  BY FaultBounded DEF ReadError
<1>2. /\ running' = running \ {r}
      /\ UNCHANGED <<pub, phase, attempt, snap, target, ready, pos, paths, rewound>>
  BY DEF ReadError
<1>3. TypeOK'
  BY <1>1, <1>2 DEF IInv, TypeOK
<1>4. (LoopInLive /\ PastReplayReady /\ AllNoted /\ CaughtUp /\ MapExact)'
  BY <1>2 DEF IInv, LoopInLive, PastReplayReady, AllNoted, CaughtUp, MapExact
<1> QED BY <1>3, <1>4 DEF IInv

\* A position set back takes its incarnation out of what is promised.
LEMMA RewindKeeps ==
    ASSUME IInv, NEW r \in Replicas, NEW p \in Partitions, Rewind(r, p)
    PROVE  IInv'
<1>1. faults' \in 0..MaxFaults
  BY FaultBounded DEF Rewind
<1>2. PICK i \in Log(p) \cup {0} : i < pos[r][p] /\ pos' = [pos EXCEPT ![r][p] = i]
  BY DEF Rewind
<1>3. /\ rewound' = rewound \cup {r}
      /\ UNCHANGED <<pub, phase, attempt, snap, target, ready, paths, running>>
  BY DEF Rewind
<1>4. i \in 0..pub
  BY <1>2, WritesNumbered DEF Log, IInv, TypeOK
<1>5. \A s \in Replicas \ {r} : pos'[s] = pos[s]
  BY <1>2 DEF IInv, TypeOK
<1>6. pos' \in [Replicas -> [Partitions -> 0..pub']]
  BY <1>2, <1>3, <1>4 DEF IInv, TypeOK
<1>7. TypeOK'
  BY <1>1, <1>3, <1>6 DEF IInv, TypeOK
<1>8. LoopInLive' /\ PastReplayReady' /\ AllNoted'
  BY <1>3 DEF IInv, LoopInLive, PastReplayReady, AllNoted
<1>9. CaughtUp' /\ MapExact'
  BY <1>3, <1>5 DEF IInv, CaughtUp, MapExact
<1> QED BY <1>7, <1>8, <1>9 DEF IInv

-----------------------------------------------------------------------------
(* The theorems *)

\* No replica runs at first, so the invariant asks for types only.
LEMMA InitHolds == Init => IInv
<1> SUFFICES ASSUME Init PROVE IInv
  OBVIOUS
<1>1. TypeOK
  BY CatalogueAssumption, WritesNumbered DEF Init, TypeOK, Live
<1>2. LoopInLive /\ PastReplayReady /\ AllNoted /\ CaughtUp /\ MapExact
  BY DEF Init, LoopInLive, PastReplayReady, AllNoted, CaughtUp, MapExact, Live
<1> QED BY <1>1, <1>2 DEF IInv

\* Every step of the catalogue, the boot, the producer and the faults keeps
\* the invariant.
LEMMA StepKeeps ==
    ASSUME IInv, [Next]_vars
    PROVE  IInv'
<1>1. CASE Publish
  BY <1>1, PublishKeeps
<1>2. ASSUME NEW r \in Replicas, Boot(r) PROVE IInv'
  <2>1. CASE Start(r) \/ WaitReady(r) \/ Migrate(r) \/ StartWorkReleasedConsumer(r)
    BY <2>1, BootStepKeeps
  <2>2. CASE NewConsumer(r)
    BY <2>2, NewConsumerKeeps
  <2>3. CASE TimeoutStuck(r)
    BY <2>3, ExitKeeps DEF TimeoutStuck, IInv, TypeOK
  <2>4. ASSUME NEW p \in Partitions, NoteLength(r, p) PROVE IInv'
    BY <2>4, NoteLengthKeeps
  <2> QED BY <1>2, <2>1, <2>2, <2>3, <2>4 DEF Boot
<1>3. ASSUME NEW r \in Replicas, AttemptFails(r) PROVE IInv'
  BY <1>3, AttemptKeeps
<1>4. ASSUME NEW r \in Replicas, ReadError(r) PROVE IInv'
  BY <1>4, ReadErrorKeeps
<1>5. ASSUME NEW r \in Replicas, TimeoutSlow(r) PROVE IInv'
  BY <1>5, FaultBounded, ExitKeeps DEF TimeoutSlow
<1>6. ASSUME NEW r \in Replicas, Crash(r) PROVE IInv'
  BY <1>6, FaultBounded, ExitKeeps DEF Crash
<1>7. ASSUME NEW r \in Replicas, NEW p \in Partitions, Read(r, p) PROVE IInv'
  BY <1>7, ReadKeeps
<1>8. ASSUME NEW r \in Replicas, NEW p \in Partitions, Rewind(r, p) PROVE IInv'
  BY <1>8, RewindKeeps
<1>9. CASE UNCHANGED vars
  BY <1>9 DEF IInv, TypeOK, LoopInLive, PastReplayReady, AllNoted, CaughtUp, MapExact, vars
<1> QED BY <1>1, <1>2, <1>3, <1>4, <1>5, <1>6, <1>7, <1>8, <1>9 DEF Next

\* The invariant holds in every reachable state.
LEMMA Invariant == Spec => []IInv
BY InitHolds, StepKeeps, PTL DEF Spec

\* A replica that takes work has replayed every message that was in its
\* partition when the boot noted that partition's length, and its map is the one these messages describe (checkReady, Run,
\* loadCatalogue), for any topic, any partitions and any faults.
THEOREM ServesComplete == Spec => []NeverServesIncomplete
<1>1. IInv => NeverServesIncomplete
  <2> SUFFICES ASSUME IInv, NEW r \in Replicas \ rewound, phase[r] \in {"migrate", "ping", "serving"}
               PROVE  /\ \A p \in Partitions : snap[r][p] # Unread /\ Upto(p, pos[r][p]) >= snap[r][p]
                      /\ \A i \in DOMAIN Writes :
                             Describes(paths[r][PathAt(i)], PathAt(i), pos[r][PartitionAt(i)])
    BY DEF IInv, NeverServesIncomplete
  <2>1. phase[r] \in Live
    BY DEF Live
  <2>2. target[r] = {}
    BY <2>1 DEF IInv, TypeOK, PastReplayReady
  <2> QED BY <2>1, <2>2 DEF IInv, AllNoted, CaughtUp, MapExact
<1> QED BY <1>1, Invariant, PTL

\* Some longest entry exists among the definitions that match a work id,
\* since none of them is longer than the id.
LEMMA LongestExists ==
    ASSUME NEW defs \in [Paths -> Seq(STRING) \cup {NoPath}], NEW id \in Seq(STRING),
           NEW hits \in SUBSET Defined(defs), hits # {},
           \A x \in hits : Len(defs[x]) <= Len(id)
    PROVE  \E x \in hits : \A y \in hits : Len(defs[y]) <= Len(defs[x])
<1> DEFINE longer(x) == (Len(defs[x]) + 1)..Len(id)
           T == {longer(x) : x \in hits}
           R == StrictSubsetOrdering(Nat)
<1>1. Len(id) \in Nat /\ \A x \in hits : Len(defs[x]) \in Nat
  BY DEF Defined
<1>2. ASSUME NEW x \in hits PROVE longer(x) \in FiniteSubsetsOf(Nat)
  <2>1. Len(defs[x]) + 1 \in Int /\ Len(id) \in Int
    BY <1>1
  <2>2. IsFiniteSet(longer(x))
    BY <2>1, FS_Interval
  <2>3. longer(x) \in SUBSET Nat
    BY <1>1
  <2> QED BY <2>2, <2>3 DEF FiniteSubsetsOf
<1>3. T \subseteq FiniteSubsetsOf(Nat) /\ T # {}
  BY <1>2
<1>4. PICK t \in T : \A u \in T : ~(<<u, t>> \in R)
  <2> HIDE DEF T, R
  <2>1. IsWellFoundedOn(R, FiniteSubsetsOf(Nat))
    BY FS_StrictSubsetOrderingWellFounded DEF R
  <2> QED BY <1>3, <2>1, WFMin
<1>5. PICK x \in hits : t = longer(x)
  OBVIOUS
<1>6. ASSUME NEW y \in hits, Len(defs[y]) > Len(defs[x]) PROVE FALSE
  <2>1. longer(y) \subseteq longer(x)
    BY <1>1, <1>6
  <2>2. Len(defs[y]) \in longer(x) /\ Len(defs[y]) \notin longer(y)
    BY <1>1, <1>6
  <2>3. longer(x) \in SUBSET Nat /\ longer(y) \in SUBSET Nat
    BY <1>1
  <2>4. <<longer(y), longer(x)>> \in R
    <3> HIDE DEF longer
    <3> QED BY <2>1, <2>2, <2>3 DEF StrictSubsetOrdering
  <2> QED BY <1>4, <1>5, <2>4
<1> QED BY <1>1, <1>6

\* Work of a path that was active at the boot and untouched since is never
\* taken for unknown or given to a less specific path (Lookup), whatever is
\* published, in any number, about other paths.
THEOREM SettledPathsAreFound == Spec => []SettledPathIsFound
<1>1. IInv => SettledPathIsFound
  <2> SUFFICES ASSUME IInv, NEW r \in Replicas \ rewound, phase[r] = "serving",
                      NEW i \in DOMAIN Writes, NEW id \in WorkIds,
                      Touches(i, PathAt(i)), Settled(r, i), Effect(i) # NoPath, Matches(Effect(i), id)
               PROVE  /\ Lookup(paths[r], id) # {}
                      /\ \A y \in Lookup(paths[r], id) : Len(paths[r][y]) >= Len(Effect(i))
    BY DEF SettledPathIsFound
  <2> DEFINE x == PathAt(i)
             p == PartitionAt(i)
             hits == {y \in Defined(paths[r]) : Matches(paths[r][y], id)}
  <2>1. /\ x \in Paths /\ p \in Partitions /\ i \in Log(p) /\ i \in Nat /\ DOMAIN Writes \subseteq Nat
        /\ id \in Seq(STRING) /\ paths[r] \in [Paths -> Seq(STRING) \cup {NoPath}]
        /\ pos[r][p] \in 0..pub /\ pub \in Nat /\ snap[r][p] \in Int
    BY WritesNumbered, CatalogueAssumption DEF IInv, TypeOK, Log, Unread
  <2>2. phase[r] \in Live /\ target[r] = {}
    BY DEF IInv, TypeOK, PastReplayReady, Live
  <2>3. Upto(p, pos[r][p]) >= snap[r][p] /\ Describes(paths[r][x], x, pos[r][p])
    BY <2>1, <2>2 DEF IInv, CaughtUp, MapExact
  <2>4. i <= pos[r][p]
    <3>1. Upto(p, i) <= snap[r][p]
      BY DEF Settled
    <3>2. Upto(p, i) \in Nat /\ Upto(p, pos[r][p]) \in Nat
      BY <2>1, OffsetsGrow
    <3>3. Upto(p, i) <= Upto(p, pos[r][p])
      BY <2>1, <2>3, <3>1, <3>2
    <3> QED BY <2>1, <3>3, OffsetDecides
  <2>5. paths[r][x] = Effect(i)
    <3>1. i \in Touching(x, pos[r][p])
      BY <2>1, <2>4 DEF Touching
    <3>2. \A j \in Touching(x, pos[r][p]) : j \in Nat /\ j <= i
      BY <2>1 DEF Touching, Settled
    <3>3. PICK j \in Touching(x, pos[r][p]) :
              paths[r][x] = Effect(j) /\ \A k \in Touching(x, pos[r][p]) : k <= j
      BY <2>3, <3>1 DEF Describes
    <3>4. j = i
      BY <2>1, <3>1, <3>2, <3>3
    <3> QED BY <3>3, <3>4
  <2>6. x \in hits /\ hits \in SUBSET Defined(paths[r])
    BY <2>1, <2>5 DEF Defined
  <2>7. \A y \in hits : Len(paths[r][y]) <= Len(id) /\ Len(paths[r][y]) \in Nat
    BY <2>1 DEF Matches, Defined
  <2>8. Lookup(paths[r], id) = {y \in hits : \A z \in hits : Len(paths[r][z]) <= Len(paths[r][y])}
    BY DEF Lookup
  <2> HIDE DEF hits
  <2>9. \E y \in hits : \A z \in hits : Len(paths[r][z]) <= Len(paths[r][y])
    BY <2>1, <2>6, <2>7, LongestExists
  <2> QED BY <2>5, <2>6, <2>7, <2>8, <2>9
<1> QED BY <1>1, Invariant, PTL
=============================================================================
