---------------------------- MODULE OrderProofs -----------------------------
(***************************************************************************)
(* Theorems about an order on its way from the rebin wall to a sealed      *)
(* carton: consolidation (Rebin), for any orders, lines and arrivals in    *)
(* flight, and pack output (Packaging), for any tasks, cartons and         *)
(* requests in flight and any hazard classes.  The two share no state.     *)
(***************************************************************************)
EXTENDS Packaging, Rebin, FiniteSetTheorems, SequenceTheorems, TLAPS

-----------------------------------------------------------------------------
(* Pack output: the inductive invariant *)

Class(c, i) == HazardClass[c[i]]

\* The first n items of c were scanned: the class of every item whose lookup
\* was answered is recorded, so that the next item is held against it, and
\* those classes get along.
Scanned(c, n, classes, known) ==
    /\ n \in 0..Len(c)
    /\ known \subseteq 1..n
    /\ \A i \in known : Class(c, i) # 0 => Class(c, i) \in classes
    /\ \A i, j \in known :
          (i # j /\ Class(c, i) # 0 /\ Class(c, j) # 0) =>
              ~IsSegregationIncompatible(Class(c, i), Class(c, j))

\* A carton being filled was scanned so far; a weigh-check in flight is about
\* a stored package.
RequestsSound ==
    \A r \in Requests :
        /\ req[r].op = "scan" => Scanned(req[r].contents, req[r].scanned, req[r].classes, req[r].known)
        /\ req[r].op = "slam" => req[r].package <= Len(packages)

RowsScanned ==
    \A p \in DOMAIN packages :
        Scanned(packages[p].contents, Len(packages[p].contents), packages[p].classes, packages[p].known)

TasksDistinct ==
    \A p, q \in DOMAIN packages : packages[p].task = packages[q].task => p = q

AnswersNameRows ==
    \A a \in answers : a.package # 0 =>
        a.package \in DOMAIN packages /\ packages[a.package].task = a.task

\* The status of package p is the outcome published last.
Agrees(p) ==
    /\ packages[p].status = "Sealed" => \A i \in DOMAIN events[p] : events[p][i] \notin Outcome
    /\ packages[p].status = "Labeled" => LastOutcome(p, "LabelApplied")
    /\ packages[p].status = "Diverted" => LastOutcome(p, "PackageDiverted")

StatusAgrees == \A p \in DOMAIN packages : Agrees(p)

IInv == TypeOK /\ RequestsSound /\ RowsScanned /\ TasksDistinct /\ AnswersNameRows /\ StatusAgrees

-----------------------------------------------------------------------------
(* Pack output: facts about the operators *)

\* Rows and event lists are numbered alike.
LEMMA Domains ==
    ASSUME TypeOK
    PROVE  /\ DOMAIN packages = 1..Len(packages) /\ DOMAIN events = 1..Len(packages)
           /\ Len(packages) \in Nat
           /\ \A p \in 1..Len(packages) : packages[p] \in Package /\ events[p] \in Seq(EventName)
BY LenProperties, ElementOfSeq DEF TypeOK

\* What a request holds, by what it is doing.
LEMMA Holds ==
    ASSUME TypeOK, NEW r \in Requests
    PROVE  /\ req[r].op = "task" => req[r].task \in Tasks /\ req[r].contents \in Contents
           /\ req[r].op = "scan" =>
                 /\ req[r] \in [op : {"scan"}, task : Tasks, contents : Contents, scanned : Nat,
                                classes : SUBSET (1..9), known : SUBSET Nat]
                 /\ req[r].contents \in Seq(DOMAIN HazardClass)
           /\ req[r].op = "slam" => /\ req[r].package \in 1..MaxPackages
                                    /\ req[r].outcome \in {"Labeled", "Diverted"}
<1>1. req[r] \in Request
  BY DEF TypeOK
<1> QED BY <1>1, PackagingAssumption DEF Request, Idle

\* A request that becomes idle has nothing left to be sound about.
LEMMA EndKeeps ==
    ASSUME IInv, NEW r \in Requests, End(r), UNCHANGED packages
    PROVE  req' \in [Requests -> Request] /\ RequestsSound'
<1>1. req' = [req EXCEPT ![r] = Idle] /\ req \in [Requests -> Request] /\ Idle \in Request
  BY DEF End, IInv, TypeOK, Request
<1>2. req'[r] = Idle /\ \A q \in Requests : q # r => req'[q] = req[q]
  BY <1>1
<1>3. Idle.op = "idle"
  BY DEF Idle
<1> QED BY <1>1, <1>2, <1>3 DEF IInv, RequestsSound

\* Rows that do not change keep what is said of them.
LEMMA RowsUnchanged ==
    ASSUME IInv, UNCHANGED <<packages, events>>
    PROVE  RowsScanned' /\ TasksDistinct' /\ StatusAgrees'
BY DEF IInv, RowsScanned, TasksDistinct, StatusAgrees, Agrees, LastOutcome

\* A lease that changes hands changes nothing else.
LEMMA LeaseKeeps ==
    ASSUME IInv, UNCHANGED <<packages, events, req, answers>>,
           lease' \in [Tasks -> [holder : Stations \cup {NoStation}, expired : BOOLEAN]]
    PROVE  IInv'
<1>1. TypeOK'
  BY DEF IInv, TypeOK
<1>2. RequestsSound' /\ AnswersNameRows'
  BY DEF IInv, RequestsSound, AnswersNameRows
<1> QED BY <1>1, <1>2, RowsUnchanged DEF IInv

\* A request that remembers something else, with the tables unchanged.
LEMMA RequestKeeps ==
    ASSUME IInv, NEW r \in Requests, NEW x \in Request, req' = [req EXCEPT ![r] = x],
           x.op = "scan" => Scanned(x.contents, x.scanned, x.classes, x.known),
           x.op = "slam" => x.package <= Len(packages),
           UNCHANGED <<lease, packages, events, answers>>
    PROVE  IInv'
<1>1. req \in [Requests -> Request]
  BY DEF IInv, TypeOK
<1>2. req' \in [Requests -> Request] /\ req'[r] = x /\ \A q \in Requests : q # r => req'[q] = req[q]
  BY <1>1
<1>3. TypeOK'
  BY <1>2 DEF IInv, TypeOK
<1>4. RequestsSound'
  BY <1>2 DEF IInv, RequestsSound
<1>5. AnswersNameRows'
  BY DEF IInv, AnswersNameRows
<1> QED BY <1>3, <1>4, <1>5, RowsUnchanged DEF IInv

-----------------------------------------------------------------------------
(* Pack output: the invariant holds at the start and is kept by every step *)

\* With no package and no request there is nothing to check.
LEMMA InvInit == Init => IInv
<1> SUFFICES ASSUME Init PROVE IInv
  OBVIOUS
<1>1. packages = <<>> /\ events = <<>> /\ answers = {} /\ Len(<<>>) = 0 /\ DOMAIN <<>> = {}
  BY DEF Init
<1>2. TypeOK
  BY <1>1, PackagingAssumption DEF Init, TypeOK, Request, Free
<1>3. RequestsSound
  BY DEF Init, RequestsSound, Idle
<1> QED BY <1>1, <1>2, <1>3 DEF IInv, RowsScanned, TasksDistinct, AnswersNameRows, StatusAgrees

\* Claims, expiry and release of the lease.
LEMMA LeaseSteps ==
    ASSUME IInv, NEW t \in Tasks,
           (\E s \in Stations : ClaimTask(t, s)) \/ LeaseRunsOut(t) \/ ReleaseTask(t)
    PROVE  IInv'
<1> DEFINE L == [holder : Stations \cup {NoStation}, expired : BOOLEAN]
<1>1. lease \in [Tasks -> L]
  BY DEF IInv, TypeOK
<1>2. lease' \in [Tasks -> L]
  <2>1. ASSUME NEW s \in Stations, ClaimTask(t, s) PROVE lease' \in [Tasks -> L]
    BY <1>1, <2>1 DEF ClaimTask
  <2>2. ASSUME LeaseRunsOut(t) PROVE lease' \in [Tasks -> L]
    BY <1>1, <2>2 DEF LeaseRunsOut
  <2>3. ASSUME ReleaseTask(t) PROVE lease' \in [Tasks -> L]
    BY <1>1, <2>3 DEF ReleaseTask, Free
  <2> QED BY <2>1, <2>2, <2>3
<1>3. UNCHANGED <<packages, events, req, answers>>
  BY DEF ClaimTask, LeaseRunsOut, ReleaseTask
<1> QED BY <1>2, <1>3, LeaseKeeps

\* A seal request is answered with the package of its task, or refused.
LEMMA ReplyKeeps ==
    ASSUME IInv, NEW r \in Requests, NEW t \in Tasks, NEW p \in {0} \cup PackagesOf(t),
           Reply(r, t, p), UNCHANGED <<lease, packages, events>>
    PROVE  IInv'
<1>1. End(r) /\ answers' = answers \cup {[task |-> t, package |-> p]}
  BY DEF Reply
<1>2. p # 0 => p \in DOMAIN packages /\ packages[p].task = t /\ p \in 0..MaxPackages
  BY Domains, PackagingAssumption DEF PackagesOf, IInv, TypeOK
<1>3. answers' \subseteq [task : Tasks, package : 0..MaxPackages]
  BY <1>1, <1>2, PackagingAssumption DEF IInv, TypeOK
<1>4. TypeOK'
  BY <1>1, <1>3, EndKeeps DEF IInv, TypeOK
<1>5. AnswersNameRows'
  BY <1>1, <1>2 DEF IInv, AnswersNameRows
<1> QED BY <1>1, <1>4, <1>5, EndKeeps, RowsUnchanged DEF IInv

\* The check passed: the carton is still empty.
LEMMA SealChecksKeeps ==
    ASSUME IInv, NEW r \in Requests, SealChecks(r)
    PROVE  IInv'
<1> DEFINE x == [op |-> "scan", task |-> req[r].task, contents |-> req[r].contents,
                 scanned |-> 0, classes |-> {}, known |-> {}]
<1>1. req[r].task \in Tasks /\ req[r].contents \in Contents
  BY Holds DEF SealChecks, IInv
<1>2. Len(req[r].contents) \in Nat
  BY <1>1, PackagingAssumption, LenProperties
<1>3. x \in Request
  BY <1>1 DEF Request
<1>4. x.op = "scan" /\ Scanned(x.contents, x.scanned, x.classes, x.known)
  BY <1>2 DEF Scanned
<1>5. req' = [req EXCEPT ![r] = x] /\ UNCHANGED <<lease, packages, events, answers>>
  BY DEF SealChecks
<1> HIDE DEF x
<1> QED BY <1>3, <1>4, <1>5, RequestKeeps

\* An item whose class gets along with everything recorded gets along with
\* every item scanned before it.
LEMMA ScanExtends ==
    ASSUME PackagingAssumption, NEW c \in Contents, NEW n \in Nat, NEW classes \in SUBSET (1..9),
           NEW known \in SUBSET Nat, Scanned(c, n, classes, known), n + 1 <= Len(c),
           NEW answered \in BOOLEAN, NEW k, k = IF answered THEN Class(c, n + 1) ELSE 0,
           ~Refused(classes, k)
    PROVE  /\ Recorded(classes, k) \in SUBSET (1..9)
           /\ Scanned(c, n + 1, Recorded(classes, k), IF answered THEN known \cup {n + 1} ELSE known)
<1>1. c \in Seq(DOMAIN HazardClass) /\ Len(c) \in Nat /\ n + 1 \in 1..Len(c)
  BY LenProperties DEF PackagingAssumption
<1>2. Class(c, n + 1) \in 0..9
  BY <1>1, ElementOfSeq DEF PackagingAssumption, Class
<1>3. k \in 0..9
  BY <1>2
<1>4. Recorded(classes, k) \in SUBSET (1..9)
  BY <1>3 DEF Recorded
<1>5. n + 1 \in 0..Len(c) /\ 1..n \subseteq 1..(n + 1) /\ n + 1 \in 1..(n + 1) /\ n + 1 \notin 1..n
  BY <1>1
<1>6. known \subseteq 1..n /\ n + 1 \notin known
  BY <1>5 DEF Scanned
<1>7. CASE ~answered
  <2>1. k = 0 /\ Recorded(classes, k) = classes
    BY <1>7 DEF Recorded
  <2> QED BY <1>4, <1>5, <1>7, <2>1 DEF Scanned
<1>8. CASE answered
  <2> DEFINE more == known \cup {n + 1}
             new == Recorded(classes, k)
  <2>1. k = Class(c, n + 1)
    BY <1>8
  <2>2. more \subseteq 1..(n + 1)
    BY <1>5, <1>6
  <2>3. classes \subseteq new /\ (k # 0 => k \in new)
    BY DEF Recorded
  <2>4. \A i \in more : Class(c, i) # 0 => Class(c, i) \in new
    BY <2>1, <2>3 DEF Scanned
  <2>5. \A i \in known : (k # 0 /\ Class(c, i) # 0) =>
            /\ ~IsSegregationIncompatible(k, Class(c, i))
            /\ ~IsSegregationIncompatible(Class(c, i), k)
    BY DEF Scanned, Refused, IsSegregationIncompatible
  <2>6. \A i, j \in more : (i # j /\ Class(c, i) # 0 /\ Class(c, j) # 0) =>
            ~IsSegregationIncompatible(Class(c, i), Class(c, j))
    <3> SUFFICES ASSUME NEW i \in more, NEW j \in more, i # j, Class(c, i) # 0, Class(c, j) # 0
                 PROVE  ~IsSegregationIncompatible(Class(c, i), Class(c, j))
      OBVIOUS
    <3>1. CASE i \in known /\ j \in known
      BY <3>1 DEF Scanned
    <3>2. CASE i \in known /\ j = n + 1
      BY <2>1, <2>5, <3>2
    <3>3. CASE i = n + 1 /\ j \in known
      BY <2>1, <2>5, <3>3
    <3> QED BY <3>1, <3>2, <3>3
  <2> HIDE DEF more, new
  <2>7. Scanned(c, n + 1, new, more)
    BY <1>5, <2>2, <2>4, <2>6 DEF Scanned
  <2> QED BY <1>4, <1>8, <2>7 DEF more, new
<1> QED BY <1>7, <1>8

\* One turn of the scanning loop.
LEMMA ScanItemKeeps ==
    ASSUME IInv, NEW r \in Requests, ScanItem(r)
    PROVE  IInv'
<1> DEFINE c == req[r].contents
           n == req[r].scanned
<1>1. PICK answered \in BOOLEAN :
          LET k == IF answered THEN HazardClass[c[n + 1]] ELSE 0
          IN /\ ~Refused(req[r].classes, k)
             /\ req' = [req EXCEPT ![r].scanned = n + 1,
                                   ![r].classes = Recorded(@, k),
                                   ![r].known = IF answered THEN @ \cup {n + 1} ELSE @]
  BY DEF ScanItem
<1> DEFINE k == IF answered THEN Class(c, n + 1) ELSE 0
           more == IF answered THEN req[r].known \cup {n + 1} ELSE req[r].known
           x == [req[r] EXCEPT !.scanned = n + 1, !.classes = Recorded(@, k), !.known = more]
<1>2. /\ req[r].op = "scan" /\ n + 1 <= Len(c)
      /\ UNCHANGED <<lease, packages, events, answers>>
  BY DEF ScanItem
<1>3. /\ req[r] \in [op : {"scan"}, task : Tasks, contents : Contents, scanned : Nat,
                     classes : SUBSET (1..9), known : SUBSET Nat]
      /\ Scanned(c, n, req[r].classes, req[r].known)
  BY <1>2, Holds DEF IInv, RequestsSound
<1>4. /\ Recorded(req[r].classes, k) \in SUBSET (1..9)
      /\ Scanned(c, n + 1, Recorded(req[r].classes, k), more)
  <2>1. ~Refused(req[r].classes, k)
    BY <1>1 DEF Class
  <2> QED BY <1>2, <1>3, <2>1, ScanExtends, PackagingAssumption
<1>5. more \in SUBSET Nat
  BY <1>3
<1>6. x \in [op : {"scan"}, task : Tasks, contents : Contents, scanned : Nat,
             classes : SUBSET (1..9), known : SUBSET Nat]
  <2>1. n + 1 \in Nat
    BY <1>3
  <2> DEFINE new == Recorded(req[r].classes, k)
  <2>2. new \in SUBSET (1..9)
    BY <1>4
  <2> HIDE DEF new, more, k, n
  <2>3. x = [req[r] EXCEPT !.scanned = n + 1, !.classes = new, !.known = more]
    BY DEF new
  <2> QED BY <1>3, <1>5, <2>1, <2>2, <2>3
<1>7. x.contents = c /\ x.scanned = n + 1 /\ x.classes = Recorded(req[r].classes, k) /\ x.known = more
  BY <1>3
<1>8. req' = [req EXCEPT ![r] = x]
  BY <1>1, <1>3 DEF Class, IInv, TypeOK
<1> HIDE DEF x, k, more
<1>9. x \in Request /\ x.op = "scan"
  BY <1>6 DEF Request
<1>10. Scanned(x.contents, x.scanned, x.classes, x.known)
  BY <1>4, <1>7
<1> QED BY <1>2, <1>8, <1>9, <1>10, RequestKeeps

\* The INSERT appends a scanned carton whose task had none.
LEMMA SealSavesKeeps ==
    ASSUME IInv, NEW r \in Requests, SealSaves(r)
    PROVE  IInv'
<1> DEFINE n == Len(packages)
           new == SealedPackage(r)
           t == req[r].task
<1>1. /\ Sealable(r) /\ n < MaxPackages /\ PackagesOf(t) = {}
      /\ packages' = Append(packages, new)
      /\ events' = Append(events, <<"PackageSealed">>)
      /\ End(r) /\ answers' = answers \cup {[task |-> t, package |-> Len(packages')]}
      /\ UNCHANGED lease
  BY DEF SealSaves, Reply
<1>2. /\ t \in Tasks /\ req[r].contents \in Contents
      /\ req[r].classes \in SUBSET (1..9) /\ req[r].known \in SUBSET Nat
  BY <1>1, Holds DEF IInv, Sealable
<1>3. /\ new \in Package /\ new.task = t /\ new.status = "Sealed"
      /\ new.contents = req[r].contents /\ new.classes = req[r].classes /\ new.known = req[r].known
  BY <1>2 DEF SealedPackage, Package
<1>4. <<"PackageSealed">> \in Seq(EventName)
  BY DEF EventName
<1>5. packages \in Seq(Package) /\ events \in Seq(Seq(EventName)) /\ Len(events) = n /\ n \in Nat
  BY Domains DEF IInv, TypeOK
<1> HIDE DEF new, t
<1>6. /\ packages' \in Seq(Package) /\ Len(packages') = n + 1
      /\ \A p \in 1..n : packages'[p] = packages[p]
      /\ packages'[n + 1] = new
  BY <1>1, <1>3, <1>5, AppendProperties
<1>7. /\ events' \in Seq(Seq(EventName)) /\ Len(events') = n + 1
      /\ \A p \in 1..n : events'[p] = events[p]
      /\ events'[n + 1] = <<"PackageSealed">>
  BY <1>1, <1>4, <1>5, AppendProperties
<1> HIDE DEF n
<1>8. DOMAIN packages' = 1..(n + 1) /\ DOMAIN packages = 1..n
  BY <1>5, <1>6, LenProperties DEF n
<1>9. TypeOK'
  <2>1. n + 1 \in 0..MaxPackages /\ n + 1 <= MaxPackages
    BY <1>1, <1>5, PackagingAssumption DEF n
  <2>2. answers' \subseteq [task : Tasks, package : 0..MaxPackages]
    BY <1>1, <1>2, <1>6, <2>1 DEF IInv, TypeOK, t
  <2>3. req' \in [Requests -> Request]
    BY <1>1 DEF End, IInv, TypeOK, Request
  <2> QED BY <1>1, <1>6, <1>7, <2>1, <2>2, <2>3 DEF IInv, TypeOK
<1>10. RequestsSound'
  <2>1. req'[r].op = "idle" /\ \A q \in Requests : q # r => req'[q] = req[q]
    BY <1>1 DEF End, IInv, TypeOK, Idle
  <2>2. ASSUME NEW q \in Requests, req'[q].op = "slam" PROVE req'[q].package <= Len(packages')
    <3>1. q # r /\ req'[q] = req[q] /\ req[q].package <= n /\ req[q].package \in 1..MaxPackages
      BY <2>1, <2>2, Holds DEF IInv, RequestsSound, n
    <3> QED BY <3>1, <1>5, <1>6, PackagingAssumption
  <2>3. ASSUME NEW q \in Requests, req'[q].op = "scan"
        PROVE  Scanned(req'[q].contents, req'[q].scanned, req'[q].classes, req'[q].known)
    BY <2>1, <2>3 DEF IInv, RequestsSound
  <2> QED BY <2>2, <2>3 DEF RequestsSound
<1>11. Scanned(new.contents, Len(new.contents), new.classes, new.known)
  BY <1>1, <1>3 DEF IInv, RequestsSound, Sealable
<1>12. RowsScanned'
  <2> SUFFICES ASSUME NEW p \in 1..(n + 1) 
               PROVE  Scanned(packages'[p].contents, Len(packages'[p].contents),
                              packages'[p].classes, packages'[p].known)
    BY <1>8 DEF RowsScanned
  <2>1. CASE p = n + 1
    BY <2>1, <1>6, <1>11
  <2>2. CASE p \in 1..n
    BY <2>2, <1>6, <1>8 DEF IInv, RowsScanned
  <2> QED BY <2>1, <2>2, <1>5
<1>13. \A p \in 1..n : packages[p].task # t
  BY <1>1, <1>8 DEF PackagesOf
<1>14. TasksDistinct'
  <2> SUFFICES ASSUME NEW p \in 1..(n + 1), NEW q \in 1..(n + 1), packages'[p].task = packages'[q].task
               PROVE  p = q
    BY <1>8 DEF TasksDistinct
  <2>1. CASE p \in 1..n /\ q \in 1..n
    BY <2>1, <1>6, <1>8 DEF IInv, TasksDistinct
  <2>2. CASE p = n + 1 /\ q \in 1..n
    BY <2>2, <1>3, <1>6, <1>13
  <2>3. CASE q = n + 1 /\ p \in 1..n
    BY <2>3, <1>3, <1>6, <1>13
  <2> QED BY <2>1, <2>2, <2>3, <1>5
<1>15. AnswersNameRows'
  <2> SUFFICES ASSUME NEW a \in answers', a.package # 0
               PROVE  a.package \in 1..(n + 1) /\ packages'[a.package].task = a.task
    BY <1>8 DEF AnswersNameRows
  <2>1. CASE a \in answers
    <3>1. a.package \in 1..n /\ packages[a.package].task = a.task
      BY <2>1, <1>8 DEF IInv, AnswersNameRows
    <3> QED BY <3>1, <1>5, <1>6
  <2>2. CASE a = [task |-> t, package |-> n + 1]
    BY <2>2, <1>3, <1>5, <1>6
  <2> QED BY <2>1, <2>2, <1>1, <1>6
<1>16. StatusAgrees'
  <2> SUFFICES ASSUME NEW p \in 1..(n + 1) PROVE Agrees(p)'
    BY <1>8 DEF StatusAgrees
  <2>1. CASE p = n + 1
    <3>1. packages'[p].status = "Sealed" /\ events'[p] = <<"PackageSealed">>
      BY <2>1, <1>3, <1>6, <1>7
    <3> QED BY <3>1 DEF Agrees, Outcome
  <2>2. CASE p \in 1..n
    <3>1. packages'[p] = packages[p] /\ events'[p] = events[p] /\ Agrees(p)
      BY <2>2, <1>6, <1>7, <1>8 DEF IInv, StatusAgrees
    <3> QED BY <3>1 DEF Agrees, LastOutcome
  <2> QED BY <2>1, <2>2, <1>5
<1> QED BY <1>9, <1>10, <1>12, <1>14, <1>15, <1>16 DEF IInv

\* Appending two events, the outcome o among them, makes o the last outcome.
LEMMA LastOfConcat ==
    ASSUME NEW s \in Seq(EventName), NEW a \in EventName, NEW b \in EventName, NEW o \in Outcome,
           (a = o /\ b \notin Outcome) \/ b = o
    PROVE  /\ s \o <<a, b>> \in Seq(EventName)
           /\ \E i \in DOMAIN (s \o <<a, b>>) :
                 /\ (s \o <<a, b>>)[i] = o
                 /\ \A j \in DOMAIN (s \o <<a, b>>) : j > i => (s \o <<a, b>>)[j] \notin Outcome
<1> DEFINE u == <<a, b>>
           w == s \o u
           n == Len(s)
<1>1. u \in Seq(EventName) /\ Len(u) = 2 /\ u[1] = a /\ u[2] = b
  OBVIOUS
<1>2. n \in Nat
  BY LenProperties
<1> HIDE DEF u
<1>3. /\ w \in Seq(EventName) /\ Len(w) = n + 2
      /\ \A i \in 1..(n + 2) : w[i] = IF i <= n THEN s[i] ELSE u[i - n]
  <2>1. /\ w \in Seq(EventName) /\ Len(w) = n + Len(u)
        /\ \A i \in 1..(n + Len(u)) : w[i] = IF i <= n THEN s[i] ELSE u[i - n]
    BY <1>1, ConcatProperties
  <2> QED BY <2>1, <1>1
<1> HIDE DEF w, n
<1>4. DOMAIN w = 1..(n + 2)
  BY <1>3, LenProperties
<1>5. w[n + 1] = a /\ w[n + 2] = b
  BY <1>1, <1>2, <1>3
<1>6. ASSUME b = o PROVE \E i \in DOMAIN w : w[i] = o /\ \A j \in DOMAIN w : j > i => w[j] \notin Outcome
  <2>1. n + 2 \in DOMAIN w /\ \A j \in DOMAIN w : ~(j > n + 2)
    BY <1>2, <1>4
  <2> QED BY <2>1, <1>5, <1>6
<1>7. ASSUME a = o, b \notin Outcome
      PROVE  \E i \in DOMAIN w : w[i] = o /\ \A j \in DOMAIN w : j > i => w[j] \notin Outcome
  <2>1. n + 1 \in DOMAIN w /\ \A j \in DOMAIN w : j > n + 1 => j = n + 2
    BY <1>2, <1>4
  <2> QED BY <2>1, <1>5, <1>7
<1>8. \E i \in DOMAIN w : w[i] = o /\ \A j \in DOMAIN w : j > i => w[j] \notin Outcome
  BY <1>6, <1>7
<1> QED BY <1>3, <1>8 DEF w, u

\* The weigh-check's outcome is written with its events.
LEMMA SlamSavesKeeps ==
    ASSUME IInv, NEW r \in Requests, SlamSaves(r)
    PROVE  IInv'
<1> DEFINE n == Len(packages)
           p == req[r].package
           o == req[r].outcome
           row == [packages[p] EXCEPT !.status = o]
           more == IF o = "Labeled" THEN <<"LabelApplied", "PackageManifested">>
                   ELSE <<"WeightDiscrepancyDetected", "PackageDiverted">>
           list == events[p] \o more
<1>1. /\ req[r].op = "slam" /\ packages' = [packages EXCEPT ![p] = row]
      /\ events' = [events EXCEPT ![p] = list]
      /\ End(r) /\ UNCHANGED <<lease, answers>>
  BY DEF SlamSaves, SlamRow
<1>2. p \in 1..n /\ o \in {"Labeled", "Diverted"}
  BY <1>1, Holds, Domains, PackagingAssumption DEF IInv, RequestsSound
<1>3. packages \in Seq(Package) /\ events \in Seq(Seq(EventName)) /\ Len(events) = n /\ n \in Nat
  BY Domains DEF IInv, TypeOK
<1>4. packages[p] \in Package /\ events[p] \in Seq(EventName)
  BY <1>2, Domains DEF IInv
<1>5. /\ row \in Package /\ row.status = o /\ row.task = packages[p].task
      /\ row.contents = packages[p].contents
      /\ row.classes = packages[p].classes /\ row.known = packages[p].known
  BY <1>2, <1>4 DEF Package
<1>6. /\ list \in Seq(EventName)
      /\ \E i \in DOMAIN list :
            /\ list[i] = IF o = "Labeled" THEN "LabelApplied" ELSE "PackageDiverted"
            /\ \A j \in DOMAIN list : j > i => list[j] \notin Outcome
  <2>1. {"LabelApplied", "PackageManifested", "WeightDiscrepancyDetected", "PackageDiverted"} \subseteq EventName
    BY DEF EventName
  <2>2. "LabelApplied" \in Outcome /\ "PackageManifested" \notin Outcome /\ "PackageDiverted" \in Outcome
    BY DEF Outcome
  <2>3. CASE o = "Labeled"
    BY <2>1, <2>2, <2>3, <1>4, LastOfConcat
  <2>4. CASE o # "Labeled"
    BY <2>1, <2>2, <2>4, <1>4, LastOfConcat
  <2> QED BY <2>3, <2>4
<1> HIDE DEF n, row, list, more
<1>7. /\ packages' \in Seq(Package) /\ Len(packages') = n
      /\ \A q \in 1..n : packages'[q] = IF q = p THEN row ELSE packages[q]
  BY <1>1, <1>2, <1>3, <1>5, ExceptSeq DEF n
<1>8. /\ events' \in Seq(Seq(EventName)) /\ Len(events') = n
      /\ \A q \in 1..n : events'[q] = IF q = p THEN list ELSE events[q]
  BY <1>1, <1>2, <1>3, <1>6, ExceptSeq
<1>9. DOMAIN packages' = 1..n /\ DOMAIN packages = 1..n
  BY <1>3, <1>7, LenProperties DEF n
<1>10. \A q \in 1..n : /\ packages'[q].task = packages[q].task
                       /\ packages'[q].contents = packages[q].contents
                       /\ packages'[q].classes = packages[q].classes
                       /\ packages'[q].known = packages[q].known
  BY <1>5, <1>7
<1>11. TypeOK'
  <2>1. req' \in [Requests -> Request]
    BY <1>1 DEF End, IInv, TypeOK, Request
  <2> QED BY <1>1, <1>7, <1>8, <2>1 DEF IInv, TypeOK, n
<1>12. RequestsSound'
  <2>1. req'[r].op = "idle" /\ \A q \in Requests : q # r => req'[q] = req[q]
    BY <1>1 DEF End, IInv, TypeOK, Idle
  <2> QED BY <2>1, <1>7 DEF IInv, RequestsSound, n
<1>13. RowsScanned' /\ TasksDistinct'
  BY <1>9, <1>10 DEF IInv, RowsScanned, TasksDistinct
<1>14. AnswersNameRows'
  BY <1>1, <1>9, <1>10 DEF IInv, AnswersNameRows
<1>15. StatusAgrees'
  <2> SUFFICES ASSUME NEW q \in 1..n PROVE Agrees(q)'
    BY <1>9 DEF StatusAgrees
  <2>1. CASE q = p
    <3>1. packages'[q].status = o /\ events'[q] = list
      BY <2>1, <1>5, <1>7, <1>8
    <3> QED BY <3>1, <1>2, <1>6 DEF Agrees, LastOutcome
  <2>2. CASE q # p
    <3>1. packages'[q] = packages[q] /\ events'[q] = events[q] /\ Agrees(q)
      BY <2>2, <1>7, <1>8, <1>9 DEF IInv, StatusAgrees
    <3> QED BY <3>1 DEF Agrees, LastOutcome
  <2> QED BY <2>1, <2>2
<1> QED BY <1>11, <1>12, <1>13, <1>14, <1>15 DEF IInv

\* Every step keeps the invariant.
LEMMA InvNext == IInv /\ [Next]_vars => IInv'
<1> SUFFICES ASSUME IInv, [Next]_vars PROVE IInv'
  OBVIOUS
<1>1. CASE UNCHANGED vars
  BY <1>1, LeaseKeeps DEF vars, IInv, TypeOK
<1>2. ASSUME NEW r \in Requests, NEW t \in Tasks, SealFindsPackage(r, t) PROVE IInv'
  <2>1. PICK p \in PackagesOf(t) : Reply(r, t, p)
    BY <1>2 DEF SealFindsPackage
  <2> QED BY <1>2, <2>1, ReplyKeeps DEF SealFindsPackage
<1>3. ASSUME NEW r \in Requests, NEW t \in Tasks, NEW s \in Stations, NEW c \in Contents,
             SealFindsNone(r, t, s, c)
      PROVE  IInv'
  <2> DEFINE x == [op |-> "task", task |-> t, station |-> s, contents |-> c]
  <2>1. x \in Request /\ x.op = "task"
    BY DEF Request
  <2>2. req' = [req EXCEPT ![r] = x] /\ UNCHANGED <<lease, packages, events, answers>>
    BY <1>3 DEF SealFindsNone
  <2> HIDE DEF x
  <2> QED BY <2>1, <2>2, RequestKeeps
<1>4. ASSUME NEW r \in Requests, SealConflicts(r) PROVE IInv'
  <2>1. req[r].task \in Tasks
    BY <1>4, Holds DEF SealConflicts, Sealable, IInv
  <2> QED BY <1>4, <2>1, ReplyKeeps DEF SealConflicts
<1>5. ASSUME NEW r \in Requests, NEW p \in DOMAIN packages, NEW d \in Deviations, SlamReads(r, p, d)
      PROVE  IInv'
  <2>1. PICK o \in Weigh(d) : req' = [req EXCEPT ![r] = [op |-> "slam", package |-> p, outcome |-> o]]
    BY <1>5 DEF SlamReads
  <2> DEFINE x == [op |-> "slam", package |-> p, outcome |-> o]
  <2>2. o \in {"Labeled", "Diverted"}
    BY DEF Weigh
  <2>3. p \in 1..MaxPackages /\ p <= Len(packages)
    BY Domains, PackagingAssumption DEF IInv, TypeOK
  <2>4. x \in Request /\ x.op = "slam" /\ x.package <= Len(packages)
    BY <2>2, <2>3 DEF Request
  <2>5. req' = [req EXCEPT ![r] = x] /\ UNCHANGED <<lease, packages, events, answers>>
    BY <1>5, <2>1 DEF SlamReads
  <2> HIDE DEF x
  <2> QED BY <2>4, <2>5, RequestKeeps
<1>6. ASSUME NEW r \in Requests, GiveUp(r) PROVE IInv'
  BY <1>6, RequestKeeps DEF GiveUp, End, Request, Idle
<1> QED BY <1>1, <1>2, <1>3, <1>4, <1>5, <1>6, LeaseSteps, SealChecksKeeps, ScanItemKeeps,
           SealSavesKeeps, SlamSavesKeeps DEF Next

-----------------------------------------------------------------------------
(* Pack output: the theorems *)

\* The invariant holds in every reachable state.
LEMMA Invariant == Spec => []IInv
BY InvInit, InvNext, PTL DEF Spec

\* Concurrent and repeated seals of a task end in one package, the one every
\* successful answer names.
THEOREM OneCartonPerTask == Spec => []OnePackagePerTask
<1>1. IInv => OnePackagePerTask
  BY DEF IInv, TasksDistinct, AnswersNameRows, OnePackagePerTask
<1> QED BY <1>1, Invariant, PTL

\* The row and the events of a package tell the same story, whichever of
\* several weigh-checks wrote last.
THEOREM RowAndEventsAgree == Spec => []StatusMatchesEvents
<1>1. IInv => StatusMatchesEvents
  BY DEF IInv, StatusAgrees, Agrees, StatusMatchesEvents
<1> QED BY <1>1, Invariant, PTL

\* Whatever is scanned, in whatever order, and whichever lookups fail, no
\* package is sealed with two looked-up items that may not travel together,
\* and a looked-up hazard is on the row.
THEOREM NoKnownClashSealed == Spec => []SegregationHolds
<1>1. IInv => SegregationHolds
  <2> SUFFICES ASSUME IInv, NEW p \in DOMAIN packages
               PROVE  LET class(i) == HazardClass[packages[p].contents[i]]
                          hazards  == {i \in packages[p].known : class(i) # 0}
                      IN /\ \A i, j \in hazards : i # j => ~IsSegregationIncompatible(class(i), class(j))
                         /\ hazards # {} => packages[p].classes # {}
    BY DEF SegregationHolds
  <2>1. Scanned(packages[p].contents, Len(packages[p].contents), packages[p].classes, packages[p].known)
    BY DEF IInv, RowsScanned
  <2> QED BY <2>1 DEF Scanned, Class
<1> QED BY <1>1, Invariant, PTL

-----------------------------------------------------------------------------
(* Order consolidation: the inductive invariant *)

\* Rows, events and PACK tasks agree.
RowsAgree ==
    \A o \in Orders :
        /\ arrived[o] \subseteq announced[o]
        /\ announced[o] \subseteq Required[o]
        /\ IsComplete(o, arrived[o]) => packs[o] > 0
        /\ packs[o] > 0 => announced[o] = Required[o]

\* A copy in flight holds no line that is neither the request's own nor
\* backed by an event: writing it back, however late, invents no arrival.
CopiesJustified ==
    \A r \in Arrivals, o \in Orders, l \in Lines :
        (order[r] = <<o>> /\ line[r] = <<l>>) =>
            l \in Required[o] /\ seen[r] \subseteq announced[o] \cup {l}

\* Where arrivals do not overlap, the copy in flight is still current and the
\* row still incomplete.
CopiesCurrent ==
    \A r \in Arrivals, o \in Serial, l \in Lines :
        (order[r] = <<o>> /\ line[r] = <<l>>) =>
            seen[r] = arrived[o] \cup {l} /\ ~IsComplete(o, arrived[o])

OneInFlight ==
    \A o \in Serial : \A q, r \in InFlight(o) : q = r

\* Where arrivals do not overlap, the row has every acknowledged line, and
\* one PACK task when it is complete.
SerialRows ==
    \A o \in Serial :
        /\ acked[o] \subseteq arrived[o]
        /\ packs[o] = IF IsComplete(o, arrived[o]) THEN 1 ELSE 0

SerialInv == CopiesCurrent /\ OneInFlight /\ SerialRows

RebinInv == RebinTypeOK /\ RowsAgree /\ CopiesJustified /\ SerialInv

-----------------------------------------------------------------------------
(* Order consolidation: facts about the operators *)

\* IsComplete compares sizes, yet among lines the order requires it means
\* that all of them arrived.
LEMMA CompleteMeansAll ==
    ASSUME NEW o \in Orders, NEW lines, lines \subseteq Required[o]
    PROVE  IsComplete(o, lines) <=> lines = Required[o]
<1>1. IsFiniteSet(Required[o])
  BY RebinAssumption
<1> QED BY <1>1, FS_Subset DEF IsComplete

\* An order with no arrivals is incomplete.
LEMMA EmptyIncomplete ==
    ASSUME NEW o \in Orders
    PROVE  ~IsComplete(o, {})
BY CompleteMeansAll, RebinAssumption

\* A request that is answered leaves nothing behind.
LEMMA ReturnType ==
    ASSUME RebinTypeOK, NEW r \in Arrivals, Return(r)
    PROVE  /\ order' \in [Arrivals -> {<<>>} \cup {<<o>> : o \in Orders}]
           /\ line' \in [Arrivals -> {<<>>} \cup {<<l>> : l \in Lines}]
           /\ seen' \in [Arrivals -> SUBSET Lines]
           /\ \A q \in Arrivals : order'[q] = <<>> <=> seen'[q] = {}
           /\ \A o : order'[r] # <<o>>
           /\ \A q \in Arrivals : q # r => order'[q] = order[q] /\ line'[q] = line[q] /\ seen'[q] = seen[q]
BY DEF RebinTypeOK, Return

\* When a request ends the others' copies are what they were.
LEMMA ReturnCopies ==
    ASSUME RebinInv, NEW r \in Arrivals, Return(r)
    PROVE  OneInFlight'
BY ReturnType DEF RebinInv, SerialInv, OneInFlight, InFlight

-----------------------------------------------------------------------------
(* Order consolidation: the invariant holds at the start and is kept by every step *)

\* Nothing arrived, nothing is in flight.
LEMMA RebinInvInit == RebinInit => RebinInv
<1> SUFFICES ASSUME RebinInit PROVE RebinInv
  OBVIOUS
<1>1. RebinTypeOK
  BY DEF RebinInit, RebinTypeOK
<1>2. RowsAgree
  BY EmptyIncomplete, RebinAssumption DEF RebinInit, RowsAgree
<1>3. CopiesJustified /\ CopiesCurrent /\ OneInFlight
  BY DEF RebinInit, CopiesJustified, CopiesCurrent, OneInFlight, InFlight
<1>4. SerialRows
  BY EmptyIncomplete, RebinAssumption DEF RebinInit, SerialRows
<1> QED BY <1>1, <1>2, <1>3, <1>4 DEF RebinInv, SerialInv

\* An arrival is read into a copy.
LEMMA ArriveKeeps ==
    ASSUME RebinInv, NEW r \in Arrivals, NEW o \in Orders, NEW l \in Lines, Arrive(r, o, l)
    PROVE  RebinInv'
<1>1. /\ order' = [order EXCEPT ![r] = <<o>>]
      /\ line' = [line EXCEPT ![r] = <<l>>]
      /\ seen' = [seen EXCEPT ![r] = arrived[o] \cup {l}]
      /\ UNCHANGED <<arrived, announced, packs, acked>>
  BY DEF Arrive, RecordArrival
<1>2. /\ order'[r] = <<o>> /\ line'[r] = <<l>> /\ seen'[r] = arrived[o] \cup {l}
      /\ \A q \in Arrivals : q # r => order'[q] = order[q] /\ line'[q] = line[q] /\ seen'[q] = seen[q]
  BY <1>1 DEF RebinInv, RebinTypeOK
<1>3. RebinTypeOK'
  BY <1>1, <1>2 DEF RebinInv, RebinTypeOK
<1>4. RowsAgree' /\ SerialRows'
  BY <1>1 DEF RebinInv, SerialInv, RowsAgree, SerialRows, IsComplete
<1>5. CopiesJustified'
  <2> SUFFICES ASSUME NEW q \in Arrivals, NEW p \in Orders, NEW m \in Lines,
                      order'[q] = <<p>>, line'[q] = <<m>>
               PROVE  m \in Required[p] /\ seen'[q] \subseteq announced'[p] \cup {m}
    BY DEF CopiesJustified
  <2>1. CASE q = r
    <3>1. p = o /\ m = l
      BY <2>1, <1>2
    <3> QED BY <2>1, <3>1, <1>1, <1>2 DEF RebinInv, RowsAgree, Arrive, KnownLine
  <2>2. CASE q # r
    BY <2>2, <1>1, <1>2 DEF RebinInv, CopiesJustified
  <2> QED BY <2>1, <2>2
<1>6. CopiesCurrent'
  <2> SUFFICES ASSUME NEW q \in Arrivals, NEW p \in Serial, NEW m \in Lines,
                      order'[q] = <<p>>, line'[q] = <<m>>
               PROVE  seen'[q] = arrived'[p] \cup {m} /\ ~IsComplete(p, arrived'[p])
    BY DEF CopiesCurrent, IsComplete
  <2>1. CASE q = r
    <3>1. p = o /\ m = l
      BY <2>1, <1>2
    <3> QED BY <2>1, <3>1, <1>1, <1>2 DEF Arrive
  <2>2. CASE q # r
    BY <2>2, <1>1, <1>2 DEF RebinInv, SerialInv, CopiesCurrent
  <2> QED BY <2>1, <2>2
<1>7. OneInFlight'
  <2> SUFFICES ASSUME NEW p \in Serial, NEW q \in Arrivals, NEW s \in Arrivals,
                      order'[q] = <<p>>, order'[s] = <<p>>
               PROVE  q = s
    BY DEF OneInFlight, InFlight
  <2>1. CASE p = o
    BY <2>1, <1>2 DEF Arrive, MaySend, InFlight
  <2>2. CASE p # o
    BY <2>2, <1>2 DEF RebinInv, SerialInv, OneInFlight, InFlight
  <2> QED BY <2>1, <2>2
<1> QED BY <1>3, <1>4, <1>5, <1>6, <1>7 DEF RebinInv, SerialInv

\* An arrival after completion changes nothing but what its caller knows.
LEMMA ArriveAgainKeeps ==
    ASSUME RebinInv, NEW o \in Orders, NEW l \in Lines, ArriveAgain(o, l)
    PROVE  RebinInv'
<1>1. acked' = [acked EXCEPT ![o] = @ \cup {l}] /\ UNCHANGED <<arrived, announced, packs, order, line, seen>>
  BY DEF ArriveAgain, Ack, reqVars
<1>2. arrived[o] = Required[o]
  BY CompleteMeansAll DEF ArriveAgain, RebinInv, RowsAgree
<1>3. RebinTypeOK'
  BY <1>1 DEF RebinInv, RebinTypeOK
<1>4. RowsAgree' /\ CopiesJustified' /\ CopiesCurrent' /\ OneInFlight'
  BY <1>1 DEF RebinInv, SerialInv, RowsAgree, CopiesJustified, CopiesCurrent, OneInFlight, InFlight, IsComplete
<1>5. SerialRows'
  BY <1>1, <1>2, RebinAssumption DEF RebinInv, RebinTypeOK, SerialInv, SerialRows, ArriveAgain, KnownLine, IsComplete
<1> QED BY <1>3, <1>4, <1>5 DEF RebinInv, SerialInv

\* A failed arrival only loses its copy.
LEMMA FailKeeps ==
    ASSUME RebinInv, NEW r \in Arrivals, Fail(r)
    PROVE  RebinInv'
<1>1. Return(r) /\ UNCHANGED <<arrived, announced, packs, acked>>
  BY DEF Fail
<1>2. RebinTypeOK'
  BY <1>1, ReturnType DEF RebinInv, RebinTypeOK
<1>3. RowsAgree' /\ SerialRows'
  BY <1>1 DEF RebinInv, SerialInv, RowsAgree, SerialRows, IsComplete
<1>4. CopiesJustified'
  BY <1>1, ReturnType DEF RebinInv, CopiesJustified
<1>5. CopiesCurrent'
  BY <1>1, ReturnType DEF RebinInv, SerialInv, CopiesCurrent, IsComplete
<1> QED BY <1>1, <1>2, <1>3, <1>4, <1>5, ReturnCopies DEF RebinInv, SerialInv

\* The unit of work writes row, event and PACK task together.
LEMMA SaveKeeps ==
    ASSUME RebinInv, NEW r \in Arrivals, NEW o \in Orders, NEW l \in Lines, Save(r, o, l)
    PROVE  RebinInv'
<1>1. /\ order[r] = <<o>> /\ line[r] = <<l>>
      /\ arrived' = [arrived EXCEPT ![o] = seen[r]]
      /\ announced' = [announced EXCEPT ![o] = @ \cup {l}]
      /\ packs' = [packs EXCEPT ![o] = IF IsComplete(o, seen[r]) THEN @ + 1 ELSE @]
      /\ acked' \in {acked, [acked EXCEPT ![o] = @ \cup {l}]}
      /\ Return(r)
  <2>1. packs' = [packs EXCEPT ![o] = IF IsComplete(o, seen[r]) THEN @ + 1 ELSE @]
    BY DEF Save, RebinInv, RebinTypeOK
  <2> QED BY <2>1 DEF Save, Upsert, Ack
<1>2. l \in Required[o] /\ seen[r] \subseteq announced[o] \cup {l} /\ seen[r] \subseteq Required[o]
  BY <1>1 DEF RebinInv, CopiesJustified, RowsAgree
<1>3. /\ arrived'[o] = seen[r] /\ announced'[o] = announced[o] \cup {l}
      /\ packs'[o] = IF IsComplete(o, seen[r]) THEN packs[o] + 1 ELSE packs[o]
      /\ \A p \in Orders : p # o => /\ arrived'[p] = arrived[p] /\ announced'[p] = announced[p]
                                    /\ packs'[p] = packs[p] /\ acked'[p] = acked[p]
      /\ acked'[o] \subseteq acked[o] \cup {l}
  BY <1>1 DEF RebinInv, RebinTypeOK
<1>4. IsComplete(o, seen[r]) <=> seen[r] = Required[o]
  BY <1>2, CompleteMeansAll
<1>5. packs[o] \in Nat /\ seen[r] \subseteq Lines
  BY DEF RebinInv, RebinTypeOK
<1>6. RebinTypeOK'
  <2>1. arrived' \in [Orders -> SUBSET Lines] /\ announced' \in [Orders -> SUBSET Lines] /\ acked' \in [Orders -> SUBSET Lines]
    BY <1>1, <1>5 DEF RebinInv, RebinTypeOK
  <2>2. packs' \in [Orders -> Nat]
    BY <1>1, <1>5 DEF RebinInv, RebinTypeOK
  <2> QED BY <2>1, <2>2, <1>1, ReturnType DEF RebinInv, RebinTypeOK
<1>7. RowsAgree'
  <2> SUFFICES ASSUME NEW p \in Orders
               PROVE  /\ arrived'[p] \subseteq announced'[p]
                      /\ announced'[p] \subseteq Required[p]
                      /\ IsComplete(p, arrived'[p]) => packs'[p] > 0
                      /\ packs'[p] > 0 => announced'[p] = Required[p]
    BY DEF RowsAgree, IsComplete
  <2>1. CASE p = o
    <3>1. arrived'[o] \subseteq announced'[o] /\ announced'[o] \subseteq Required[o]
      BY <1>2, <1>3 DEF RebinInv, RowsAgree
    <3>2. IsComplete(o, arrived'[o]) => packs'[o] > 0
      BY <1>3, <1>5
    <3>3. packs'[o] > 0 => announced'[o] = Required[o]
      <4>1. CASE IsComplete(o, seen[r])
        BY <4>1, <1>4, <1>3, <3>1
      <4>2. CASE ~IsComplete(o, seen[r])
        BY <4>2, <1>3, <3>1 DEF RebinInv, RowsAgree
      <4> QED BY <4>1, <4>2
    <3> QED BY <2>1, <3>1, <3>2, <3>3
  <2>2. CASE p # o
    BY <2>2, <1>3 DEF RebinInv, RowsAgree
  <2> QED BY <2>1, <2>2
<1>8. CopiesJustified'
  <2> SUFFICES ASSUME NEW q \in Arrivals, NEW p \in Orders, NEW m \in Lines,
                      order'[q] = <<p>>, line'[q] = <<m>>
               PROVE  m \in Required[p] /\ seen'[q] \subseteq announced'[p] \cup {m}
    BY DEF CopiesJustified
  <2>1. order[q] = <<p>> /\ line[q] = <<m>> /\ seen'[q] = seen[q]
    BY <1>1, ReturnType DEF RebinInv
  <2>2. m \in Required[p] /\ seen[q] \subseteq announced[p] \cup {m}
    BY <2>1 DEF RebinInv, CopiesJustified
  <2>3. announced[p] \subseteq announced'[p]
    BY <1>3
  <2> QED BY <2>1, <2>2, <2>3
<1>9. CopiesCurrent'
  <2> SUFFICES ASSUME NEW q \in Arrivals, NEW p \in Serial, NEW m \in Lines,
                      order'[q] = <<p>>, line'[q] = <<m>>
               PROVE  seen'[q] = arrived'[p] \cup {m} /\ ~IsComplete(p, arrived'[p])
    BY DEF CopiesCurrent, IsComplete
  <2>1. q # r /\ order[q] = <<p>> /\ line[q] = <<m>> /\ seen'[q] = seen[q]
    BY <1>1, ReturnType DEF RebinInv
  <2>2. p # o
    BY <2>1, <1>1 DEF RebinInv, SerialInv, OneInFlight, InFlight
  <2> QED BY <2>1, <2>2, <1>3, RebinAssumption DEF RebinInv, SerialInv, CopiesCurrent
<1>10. SerialRows'
  <2> SUFFICES ASSUME NEW p \in Serial
               PROVE  acked'[p] \subseteq arrived'[p] /\ packs'[p] = IF IsComplete(p, arrived'[p]) THEN 1 ELSE 0
    BY DEF SerialRows, IsComplete
  <2>1. CASE p = o
    <3>1. seen[r] = arrived[o] \cup {l} /\ packs[o] = 0 /\ acked[o] \subseteq arrived[o]
      BY <2>1, <1>1 DEF RebinInv, SerialInv, CopiesCurrent, SerialRows
    <3> QED BY <2>1, <3>1, <1>3
  <2>2. CASE p # o
    BY <2>2, <1>3, RebinAssumption DEF RebinInv, SerialInv, SerialRows
  <2> QED BY <2>1, <2>2
<1> QED BY <1>1, <1>6, <1>7, <1>8, <1>9, <1>10, ReturnCopies DEF RebinInv, SerialInv

\* Every step keeps the invariant.
LEMMA RebinInvNext == RebinInv /\ [RebinNext]_rebinVars => RebinInv'
<1> SUFFICES ASSUME RebinInv, [RebinNext]_rebinVars PROVE RebinInv'
  OBVIOUS
<1>1. CASE UNCHANGED rebinVars
  <2>1. UNCHANGED <<arrived, announced, packs, acked, order, line, seen>>
    BY <1>1 DEF rebinVars
  <2>2. RebinTypeOK' /\ CopiesJustified' /\ OneInFlight'
    BY <2>1 DEF RebinInv, SerialInv, RebinTypeOK, CopiesJustified, OneInFlight, InFlight
  <2>3. RowsAgree' /\ CopiesCurrent' /\ SerialRows'
    BY <2>1 DEF RebinInv, SerialInv, RowsAgree, CopiesCurrent, SerialRows, IsComplete
  <2> QED BY <2>2, <2>3 DEF RebinInv, SerialInv
<1>2. CASE RebinNext
  BY <1>2, ArriveKeeps, ArriveAgainKeeps, SaveKeeps, FailKeeps DEF RebinNext
<1> QED BY <1>1, <1>2

-----------------------------------------------------------------------------
(* Order consolidation: the theorems *)

\* The invariant holds in every reachable state.
LEMMA RebinInvariant == RebinSpec => []RebinInv
BY RebinInvInit, RebinInvNext, PTL DEF RebinSpec

\* Packing never starts before every required line arrived, even when stale
\* copies of the row overwrite each other.
THEOREM PackingWaitsForAll == RebinSpec => []NoEarlyPack
<1>1. RebinInv => NoEarlyPack
  BY DEF RebinInv, RowsAgree, NoEarlyPack
<1> QED BY <1>1, RebinInvariant, PTL

\* A stored arrival always has its event, and a complete row its PACK task.
THEOREM RowsAreJustified == RebinSpec => []RowJustified
<1>1. RebinInv => RowJustified
  BY DEF RebinInv, RowsAgree, RowJustified
<1> QED BY <1>1, RebinInvariant, PTL

\* Where arrivals of an order do not overlap, it is packed exactly once: no
\* retry repeats the PACK task and no acknowledged arrival is forgotten.
THEOREM SerialOrdersPackedOnce == RebinSpec => []SerialPackedOnce
<1>1. RebinInv => SerialPackedOnce
  <2> SUFFICES ASSUME RebinInv, NEW o \in Serial
               PROVE  packs[o] <= 1 /\ (acked[o] = Required[o] => packs[o] = 1)
    BY DEF SerialPackedOnce
  <2>1. arrived[o] \subseteq Required[o] /\ acked[o] \subseteq arrived[o] /\ o \in Orders
    BY RebinAssumption DEF RebinInv, RowsAgree, SerialInv, SerialRows
  <2>2. packs[o] = IF arrived[o] = Required[o] THEN 1 ELSE 0
    BY <2>1, CompleteMeansAll DEF RebinInv, SerialInv, SerialRows
  <2>3. acked[o] = Required[o] => arrived[o] = Required[o]
    BY <2>1
  <2> QED BY <2>2, <2>3
<1> QED BY <1>1, RebinInvariant, PTL
=============================================================================
