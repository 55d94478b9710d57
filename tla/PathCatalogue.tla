---------------------------- MODULE PathCatalogue ----------------------------
(***************************************************************************)
(* The process-path catalogue of a replica and the boot sequence that      *)
(* gates work on it.  process-path-management publishes path definitions   *)
(* to a partitioned topic.  A booting replica notes how long each          *)
(* partition is, one after another while the topic may grow, replays the   *)
(* topic from the beginning under a consumer group of its own into an in-  *)
(* memory map, and goes on to open its storage and to consume work only    *)
(* when it has read every partition up to the noted length.  It then keeps *)
(* applying what is published.  A read error ends the catalogue's loop for *)
(* good.                                                                   *)
(***************************************************************************)
EXTENDS Integers, Sequences, FiniteSets

CONSTANTS Replicas,
          Writes,       \* what the producer publishes, in that order
          Published,    \* how many of them exist before the first boot
          Upper(_),     \* strings.ToUpper on path ids
          PartitionOf,  \* Kafka's partition of each message key
          WorkIds,      \* path ids that released work asks for
          BootRetries,  \* bootretry.BootRetries
          Faults,       \* the kinds of fault this instance exercises
          MaxFaults     \* bound: how many of them happen

Kinds == {"ProcessPathCreated", "ProcessPathUpdated", "ProcessPathDeactivated",
          "other", "malformed"}
FaultKinds == {"attempt", "readError", "timeout", "rewind", "crash"}
PathAt(i) == Upper(Writes[i].path)
PartitionAt(i) == PartitionOf[Writes[i].path]
Paths == {PathAt(i) : i \in DOMAIN Writes}
Partitions == {PartitionAt(i) : i \in DOMAIN Writes}

\* A definition is the prefix it matches: a path id is split at its hyphens,
\* so that "pick" matches "pick" and "pick-zone-a" and not "picking".
NoPath == <<"no path">>

\* A partition whose length the boot has yet to note.
Unread == -1

ASSUME CatalogueAssumption ==
    /\ Writes \in Seq([kind : Kinds, path : DOMAIN PartitionOf, prefix : Seq(STRING) \ {NoPath}])
    \* the producer keys its messages by path, so a path stays in one partition
    /\ \A i, j \in DOMAIN Writes : PathAt(i) = PathAt(j) => PartitionAt(i) = PartitionAt(j)
    /\ WorkIds \subseteq Seq(STRING)
    /\ Published \in 0..Len(Writes)
    /\ BootRetries \in Nat \ {0}
    /\ Faults \subseteq FaultKinds
    /\ MaxFaults \in Nat

VARIABLES pub,      \* how many of Writes are published
          phase,    \* per replica: the step of run() it is in
          attempt,  \* per replica: failed attempts of the dial in progress
          snap,     \* per replica: partition lengths noted at boot, or Unread
          target,   \* per replica: partitions not yet read up to snap
          ready,    \* the replicas whose catalogue's readiness flag is set
          pos,      \* per replica: the last write read from each partition, or 0
          paths,    \* per replica: the map from path to definition
          running,  \* the replicas whose catalogue's loop is running
          rewound,  \* history: the incarnations whose position was set back
          faults

vars == <<pub, phase, attempt, snap, target, ready, pos, paths, running, rewound, faults>>
catalogue == <<snap, target, ready, pos, paths, running, rewound>>
-----------------------------------------------------------------------------
(* The topic, and the match rule of pathcatalog.                             *)

\* The writes that go to partition p, and how many of the first n do: the
\* partition's length when n writes are published, and the offset after write n.
Log(p) == {i \in DOMAIN Writes : PartitionAt(i) = p}
Upto(p, n) == Cardinality({i \in Log(p) : i <= n})

Defined(defs) == {x \in Paths : defs[x] # NoPath}
Matches(prefix, id) ==
    /\ prefix # <<>>
    /\ Len(prefix) <= Len(id)
    /\ \A k \in 1..Len(prefix) : prefix[k] = id[k]

\* Mutant: the exact match that the prefix match replaced.
LookupExact(defs, id) == {x \in Defined(defs) : defs[x] = id}

\* The paths Lookup may answer with: one of the longest matches, any of them
\* when two are equally long, since the map is iterated in no fixed order.
Lookup(defs, id) ==
    LET hits == {x \in Defined(defs) : Matches(defs[x], id)}
    IN  {x \in hits : \A y \in hits : Len(defs[y]) <= Len(defs[x])}

\* handle: the map after message w.  Other types and messages that are not
\* CloudEvents leave it alone.
Handle(defs, w) ==
    CASE w.kind \in {"ProcessPathCreated", "ProcessPathUpdated"} -> [defs EXCEPT ![Upper(w.path)] = w.prefix]
      [] w.kind = "ProcessPathDeactivated" -> [defs EXCEPT ![Upper(w.path)] = NoPath]
      [] OTHER -> defs
-----------------------------------------------------------------------------
(* Boot, up to the replay.                                                   *)

Fault(f) == f \in Faults /\ faults < MaxFaults /\ faults' = faults + 1
ToNote(r) == snap' = [snap EXCEPT ![r] = [p \in Partitions |-> Unread]]
To(r, p) == phase' = [phase EXCEPT ![r] = p] /\ attempt' = [attempt EXCEPT ![r] = 0]
Dialling == {"dial", "migrate", "ping"}

Publish ==
    /\ pub < Len(Writes)
    /\ pub' = pub + 1
    /\ UNCHANGED <<phase, attempt, catalogue, faults>>

\* The platform starts the process, again after it exited.
Start(r) ==
    /\ phase[r] = "down"
    /\ To(r, "dial")
    /\ ToNote(r)
    /\ UNCHANGED <<pub, target, ready, pos, paths, running, rewound, faults>>

\* A boot dial fails: it is tried again from its beginning, or the process exits.
AttemptFails(r) ==
    /\ phase[r] \in Dialling
    /\ Fault("attempt")
    /\ IF attempt[r] + 1 = BootRetries
       THEN To(r, "down") /\ running' = running \ {r}
       ELSE attempt' = [attempt EXCEPT ![r] = @ + 1] /\ UNCHANGED <<phase, running>>
    /\ IF phase[r] = "dial" THEN ToNote(r) ELSE UNCHANGED snap
    /\ UNCHANGED <<pub, target, ready, pos, paths, rewound>>

\* newTargetOffsets asks the leader of one more partition for its length.
NoteLength(r, p) ==
    /\ phase[r] = "dial"
    /\ snap[r][p] = Unread
    /\ snap' = [snap EXCEPT ![r][p] = Upto(p, pub)]
    /\ UNCHANGED <<pub, phase, attempt, target, ready, pos, paths, running, rewound, faults>>

\* Mutant: the group has a fixed name, so that reading resumes where an
\* earlier process committed.
NewConsumerSharedGroup(r) ==
    LET behind == {p \in Partitions : snap[r][p] > 0}
    IN  /\ phase[r] = "dial"
        /\ \A p \in Partitions : snap[r][p] # Unread
        /\ To(r, "replay")
        /\ target' = [target EXCEPT ![r] = behind]
        /\ ready' = IF behind = {} THEN ready \cup {r} ELSE ready \ {r}
        /\ paths' = [paths EXCEPT ![r] = [x \in Paths |-> NoPath]]
        /\ running' = running \cup {r}
        /\ rewound' = rewound \ {r}
        /\ UNCHANGED <<pub, snap, pos, faults>>

\* NewConsumer: every length is noted, and the reader starts at the first
\* offset under a new group.  Partitions without messages need no catching up.
NewConsumer(r) ==
    LET behind == {p \in Partitions : snap[r][p] > 0}
    IN  /\ phase[r] = "dial"
        /\ \A p \in Partitions : snap[r][p] # Unread
        /\ To(r, "replay")
        /\ target' = [target EXCEPT ![r] = behind]
        /\ ready' = IF behind = {} THEN ready \cup {r} ELSE ready \ {r}
        /\ pos' = [pos EXCEPT ![r] = [p \in Partitions |-> 0]]
        /\ paths' = [paths EXCEPT ![r] = [x \in Paths |-> NoPath]]
        /\ running' = running \cup {r}
        /\ rewound' = rewound \ {r}
        /\ UNCHANGED <<pub, snap, faults>>
-----------------------------------------------------------------------------
(* The catalogue's loop.                                                     *)

\* Mutant: the target offset is taken for the offset of the last message.
CheckReadyOffByOne(r, p, i) ==
    IF r \notin ready /\ p \in target[r] /\ Upto(p, i) > snap[r][p]
    THEN /\ target' = [target EXCEPT ![r] = @ \ {p}]
         /\ ready' = IF target[r] = {p} THEN ready \cup {r} ELSE ready
    ELSE UNCHANGED <<target, ready>>

\* checkReady, after write i was handled.
CheckReady(r, p, i) ==
    IF r \notin ready /\ p \in target[r] /\ Upto(p, i) >= snap[r][p]
    THEN /\ target' = [target EXCEPT ![r] = @ \ {p}]
         /\ ready' = IF target[r] = {p} THEN ready \cup {r} ELSE ready
    ELSE UNCHANGED <<target, ready>>

\* Write i is the first of its partition that was not read.
IsNext(r, p, i) ==
    /\ i \in Log(p) /\ i > pos[r][p]
    /\ \A j \in Log(p) : j > pos[r][p] => i <= j

\* One turn of Run: read, handle, check readiness.
Read(r, p) ==
    /\ r \in running
    /\ \E i \in 1..pub :
           /\ IsNext(r, p, i)
           /\ pos' = [pos EXCEPT ![r][p] = i]
           /\ paths' = [paths EXCEPT ![r] = Handle(@, Writes[i])]
           /\ CheckReady(r, p, i)
    /\ UNCHANGED <<pub, phase, attempt, snap, running, rewound, faults>>

\* ReadMessage fails and Run returns: nothing starts it again.
ReadError(r) ==
    /\ r \in running
    /\ Fault("readError")
    /\ running' = running \ {r}
    /\ UNCHANGED <<pub, phase, attempt, snap, target, ready, pos, paths, rewound>>

\* The group loses its member before the offsets read were committed: the
\* reader joins again and reads on from an older offset.
Rewind(r, p) ==
    /\ r \in running
    /\ Fault("rewind")
    /\ \E i \in Log(p) \cup {0} : i < pos[r][p] /\ pos' = [pos EXCEPT ![r][p] = i]
    /\ rewound' = rewound \cup {r}
    /\ UNCHANGED <<pub, phase, attempt, snap, target, ready, paths, running>>
-----------------------------------------------------------------------------
(* The rest of the boot, and the end of the process.                         *)

\* WaitReady returns: migrations, ping and then the work consumer.
WaitReady(r) ==
    /\ phase[r] = "replay"
    /\ r \in ready
    /\ To(r, "migrate")
    /\ UNCHANGED <<pub, catalogue, faults>>

Migrate(r) ==
    /\ phase[r] = "migrate"
    /\ To(r, "ping")
    /\ UNCHANGED <<pub, catalogue, faults>>

StartWorkReleasedConsumer(r) ==
    /\ phase[r] = "ping"
    /\ To(r, "serving")
    /\ UNCHANGED <<pub, catalogue, faults>>

Exit(r) ==
    /\ To(r, "down")
    /\ running' = running \ {r}
    /\ UNCHANGED <<pub, snap, target, ready, pos, paths, rewound>>

\* WaitReadyTimeout passes first: the boot fails.  A replay that goes on may
\* be too slow; one whose loop ended can only end this way.
TimeoutSlow(r) == phase[r] = "replay" /\ r \notin ready /\ r \in running /\ Fault("timeout") /\ Exit(r)
TimeoutStuck(r) == phase[r] = "replay" /\ r \notin ready /\ r \notin running /\ Exit(r) /\ UNCHANGED faults

\* The process dies or is told to shut down.
Crash(r) == phase[r] # "down" /\ Fault("crash") /\ Exit(r)
-----------------------------------------------------------------------------
Init ==
    /\ pub = Published
    /\ phase = [r \in Replicas |-> "down"]
    /\ attempt = [r \in Replicas |-> 0]
    /\ snap = [r \in Replicas |-> [p \in Partitions |-> 0]]
    /\ target = [r \in Replicas |-> {}]
    /\ ready = {}
    /\ pos = [r \in Replicas |-> [p \in Partitions |-> 0]]
    /\ paths = [r \in Replicas |-> [x \in Paths |-> NoPath]]
    /\ running = {}
    /\ rewound = {}
    /\ faults = 0

Boot(r) ==
    \/ Start(r) \/ NewConsumer(r) \/ WaitReady(r) \/ TimeoutStuck(r)
    \/ \E p \in Partitions : NoteLength(r, p)
    \/ Migrate(r) \/ StartWorkReleasedConsumer(r)

Next ==
    \/ Publish
    \/ \E r \in Replicas : Boot(r) \/ AttemptFails(r) \/ ReadError(r) \/ TimeoutSlow(r) \/ Crash(r)
    \/ \E r \in Replicas, p \in Partitions : Read(r, p) \/ Rewind(r, p)

Spec == Init /\ [][Next]_vars

\* The platform restarts a replica that exited; a boot step and the loop of
\* a live process go on.  The producer need not publish, faults need not strike.
FairSpec ==
    /\ Spec
    /\ \A r \in Replicas : WF_vars(Boot(r))
    /\ \A r \in Replicas, p \in Partitions : WF_vars(Read(r, p))
-----------------------------------------------------------------------------
(* Properties.                                                               *)

Live == {"replay", "migrate", "ping", "serving"}

\* The state is well formed, and a replica is ready exactly when nothing is
\* left of its target.
TypeOK ==
    /\ pub \in 0..Len(Writes)
    /\ phase \in [Replicas -> Live \cup {"down", "dial"}]
    /\ attempt \in [Replicas -> 0..(BootRetries - 1)]
    /\ snap \in [Replicas -> [Partitions -> Nat \cup {Unread}]]
    /\ target \in [Replicas -> SUBSET Partitions]
    /\ pos \in [Replicas -> [Partitions -> 0..pub]]
    /\ paths \in [Replicas -> [Paths -> Seq(STRING) \cup {NoPath}]]
    /\ ready \subseteq Replicas /\ running \subseteq Replicas /\ rewound \subseteq Replicas
    /\ faults \in 0..MaxFaults
    /\ \A r \in Replicas : phase[r] \in Live => (r \in ready <=> target[r] = {})

\* The writes up to n that change path x, and what a write makes of its path.
Touches(i, x) == PathAt(i) = x /\ Writes[i].kind \notin {"other", "malformed"}
Touching(x, n) == {i \in DOMAIN Writes : i <= n /\ Touches(i, x)}
Effect(i) == IF Writes[i].kind = "ProcessPathDeactivated" THEN NoPath ELSE Writes[i].prefix

\* def is what the first n writes make of path x: the last of them that
\* changes it decides.
Describes(def, x, n) ==
    \/ Touching(x, n) = {} /\ def = NoPath
    \/ \E i \in Touching(x, n) : def = Effect(i) /\ \A j \in Touching(x, n) : j <= i

\* The state is well formed, and a replica that takes work has replayed every
\* message that was in its partition when the boot noted that partition's
\* length, whatever the order of partitions, earlier incarnations, failed
\* attempts and timeouts; and its map is the one these messages describe
\* (newTargetOffsets, loadCatalogue, checkReady).
NeverServesIncomplete ==
    /\ TypeOK
    /\ \A r \in Replicas \ rewound : phase[r] \in {"migrate", "ping", "serving"} =>
           /\ \A p \in Partitions : snap[r][p] # Unread /\ Upto(p, pos[r][p]) >= snap[r][p]
           /\ \A i \in DOMAIN Writes : Describes(paths[r][PathAt(i)], PathAt(i), pos[r][PartitionAt(i)])

\* Write i was in its partition when the boot of replica r noted the length,
\* and nothing published since changes its path again.
Settled(r, i) ==
    /\ Upto(PartitionAt(i), i) <= snap[r][PartitionAt(i)]
    /\ \A j \in Touching(PathAt(i), pub) : j <= i

\* Released work of a path that was active when its length was noted, and that
\* nobody touched since, is never taken for unknown or given to a less
\* specific path, whatever happens to other paths meanwhile (Lookup).
SettledPathIsFound ==
    \A r \in Replicas \ rewound : phase[r] = "serving" =>
        \A i \in DOMAIN Writes, id \in WorkIds :
            (Touches(i, PathAt(i)) /\ Settled(r, i) /\ Effect(i) # NoPath /\ Matches(Effect(i), id)) =>
                /\ Lookup(paths[r], id) # {}
                /\ \A y \in Lookup(paths[r], id) : Len(paths[r][y]) >= Len(Effect(i))

\* Faults being finite, every replica ends up serving, and with the
\* definitions the producer last published unless its loop has ended: failed
\* attempts, slow replays, crashes and re-reads delay it only (Run, WaitReady).
EventuallyCurrent ==
    <>[](\A r \in Replicas :
            /\ phase[r] = "serving"
            /\ r \in running => \A x \in Paths : Describes(paths[r][x], x, pub))
=============================================================================
