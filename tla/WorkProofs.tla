----------------------------- MODULE WorkProofs -----------------------------
(***************************************************************************)
(* What TLAPS proves of the volunteer-compute service, of the strategy     *)
(* game and its epochs, and of the token pool and the relay's accounts.    *)
(***************************************************************************)
EXTENDS OmScheduler, RtsGame, TokenPool, FoldProofs, SequenceTheorems, TLAPS

(***************************************************************************)
(* The volunteer-compute service                                           *)
(***************************************************************************)
Info == [available : BOOLEAN, completed : Nat, failed : Nat, earned : Nat]
Answer == [worker : Volunteers, output : Outputs, known : BOOLEAN]
Results == Seq(Answer)
TaskType == [job : Nat, replicas : Nat, worker : SUBSET Volunteers, given : Nat, results : Results,
             status : {"pending", "assigned", "verified", "failed"}]
JobType == [size : Nat, results : Nat,
            status : {"submitted", "distributing", "computing", "completed"}]

\* PaidAnswers of a given table of tasks.
Pays(ts, t, i, w) == /\ ts[t].results[i].worker = w /\ ts[t].results[i].known
                     /\ verify(ts[t].replicas, SubSeq(ts[t].results, 1, i)) \in Ok
Paid(ts, w) == {p \in UNION {{t} \X (1..Len(ts[t].results)) : t \in 1..Len(ts)} :
                  /\ ts[p[1]].results[p[2]].worker = w /\ ts[p[1]].results[p[2]].known
                  /\ verify(ts[p[1]].replicas, SubSeq(ts[p[1]].results, 1, p[2])) \in Ok}

LEMMA PaidMember ==
    ASSUME NEW ts, NEW w, NEW p
    PROVE  p \in Paid(ts, w) <=>
             \E t \in 1..Len(ts) : \E i \in 1..Len(ts[t].results) :
                 p = <<t, i>> /\ Pays(ts, t, i, w)
<1> DEFINE All == UNION {{t} \X (1..Len(ts[t].results)) : t \in 1..Len(ts)}
<1>1. p \in All <=> \E t \in 1..Len(ts) : \E i \in 1..Len(ts[t].results) : p = <<t, i>>
  <2>1. p \in All <=> \E t \in 1..Len(ts) : p \in {t} \X (1..Len(ts[t].results))
    BY Zenon
  <2>2. ASSUME NEW t PROVE p \in {t} \X (1..Len(ts[t].results)) <=>
                             \E i \in 1..Len(ts[t].results) : p = <<t, i>>
    BY SMT
  <2> QED
    BY <2>1, <2>2, Zenon
<1>2. ASSUME NEW t, NEW i, p = <<t, i>> PROVE p[1] = t /\ p[2] = i
  BY <1>2
<1> QED
  BY <1>1, <1>2, Zenon DEF Paid, Pays

\* Tasks without answers, and changes of anything but answers, pay nobody.
LEMMA PaidSame ==
    ASSUME NEW ts, NEW us, NEW w, Len(ts) \in Nat, Len(us) \in Nat, Len(ts) <= Len(us),
           \A t \in 1..Len(ts) : us[t].results = ts[t].results /\ us[t].replicas = ts[t].replicas,
           \A t \in 1..Len(us) : t > Len(ts) => us[t].results = <<>>
    PROVE  Paid(us, w) = Paid(ts, w)
<1>1. ASSUME NEW t \in 1..Len(us), NEW i \in 1..Len(us[t].results), Pays(us, t, i, w)
      PROVE  t \in 1..Len(ts) /\ i \in 1..Len(ts[t].results) /\ Pays(ts, t, i, w)
  <2>1. t \in 1..Len(ts)
    <3>1. SUFFICES ASSUME t > Len(ts) PROVE FALSE
      OBVIOUS
    <3>2. us[t].results = <<>>
      BY <3>1
    <3> QED
      BY <1>1, <3>2
  <2> QED
    BY <1>1, <2>1 DEF Pays
<1>2. ASSUME NEW t \in 1..Len(ts), NEW i \in 1..Len(ts[t].results), Pays(ts, t, i, w)
      PROVE  t \in 1..Len(us) /\ i \in 1..Len(us[t].results) /\ Pays(us, t, i, w)
  <2>1. t \in 1..Len(us) /\ us[t].results = ts[t].results /\ us[t].replicas = ts[t].replicas
    OBVIOUS
  <2> QED
    BY <1>2, <2>1, Zenon DEF Pays
<1>3. ASSUME NEW p, p \in Paid(us, w) PROVE p \in Paid(ts, w)
  <2>1. PICK t \in 1..Len(us) : \E i \in 1..Len(us[t].results) : p = <<t, i>> /\ Pays(us, t, i, w)
    BY <1>3, PaidMember, Zenon
  <2>2. PICK i \in 1..Len(us[t].results) : p = <<t, i>> /\ Pays(us, t, i, w)
    BY <2>1, Zenon
  <2>3. t \in 1..Len(ts) /\ i \in 1..Len(ts[t].results) /\ Pays(ts, t, i, w)
    BY <1>1, <2>2, Zenon
  <2> QED
    BY <2>2, <2>3, PaidMember, Zenon
<1>4. ASSUME NEW p, p \in Paid(ts, w) PROVE p \in Paid(us, w)
  <2>1. PICK t \in 1..Len(ts) : \E i \in 1..Len(ts[t].results) : p = <<t, i>> /\ Pays(ts, t, i, w)
    BY <1>4, PaidMember, Zenon
  <2>2. PICK i \in 1..Len(ts[t].results) : p = <<t, i>> /\ Pays(ts, t, i, w)
    BY <2>1, Zenon
  <2>3. t \in 1..Len(us) /\ i \in 1..Len(us[t].results) /\ Pays(us, t, i, w)
    BY <1>2, <2>2, Zenon
  <2> QED
    BY <2>2, <2>3, PaidMember, Zenon
<1> QED
  BY <1>3, <1>4

LEMMA Joined ==
    ASSUME NEW S, NEW a \in Seq(S), NEW b \in Seq(S), NEW c, c = a \o b
    PROVE  /\ c \in Seq(S) /\ Len(a) \in Nat /\ Len(b) \in Nat /\ Len(c) = Len(a) + Len(b)
           /\ \A i \in 1..Len(a) : c[i] = a[i]
           /\ \A i \in 1..Len(c) : i > Len(a) => (i - Len(a) \in 1..Len(b) /\ c[i] = b[i - Len(a)])
<1>1. Len(a) \in Nat /\ Len(b) \in Nat
  OBVIOUS
<1>2. c \in Seq(S) /\ Len(c) = Len(a) + Len(b)
  BY ConcatProperties
<1>3. \A i \in 1..(Len(a) + Len(b)) : c[i] = IF i <= Len(a) THEN a[i] ELSE b[i - Len(a)]
  BY ConcatProperties
<1>4. \A i \in 1..Len(a) : c[i] = a[i]
  BY <1>1, <1>3
<1>5. ASSUME NEW i \in 1..Len(c), i > Len(a)
      PROVE  i - Len(a) \in 1..Len(b) /\ c[i] = b[i - Len(a)]
  <2>1. i \in 1..(Len(a) + Len(b)) /\ ~(i <= Len(a)) /\ i - Len(a) \in 1..Len(b)
    BY <1>1, <1>2, <1>5
  <2> QED
    BY <1>3, <2>1
<1> QED
  BY <1>1, <1>2, <1>4, <1>5

LEMMA SliceOfAppend ==
    ASSUME NEW S, NEW s \in Seq(S), NEW e \in S
    PROVE  /\ \A i \in 1..Len(s) : SubSeq(Append(s, e), 1, i) = SubSeq(s, 1, i)
           /\ SubSeq(Append(s, e), 1, Len(s) + 1) = Append(s, e)
<1>1. Append(s, e) \in Seq(S) /\ Len(Append(s, e)) = Len(s) + 1 /\ Len(s) \in Nat
  OBVIOUS
<1>2. ASSUME NEW i \in 1..Len(s) PROVE SubSeq(Append(s, e), 1, i) = SubSeq(s, 1, i)
  <2>1. SubSeq(Append(s, e), 1, i) = [k \in 1..i |-> Append(s, e)[k]]
    BY <1>1
  <2>2. SubSeq(s, 1, i) = [k \in 1..i |-> s[k]]
    BY <1>1
  <2>3. \A k \in 1..i : Append(s, e)[k] = s[k]
    BY <1>1
  <2> QED
    BY <2>1, <2>2, <2>3
<1>3. SubSeq(Append(s, e), 1, Len(s) + 1) = Append(s, e)
  BY <1>1
<1> QED
  BY <1>2, <1>3

\* One more answer pays for itself if it leaves the task verified.
Answers(ts, us, t, a) ==
  /\ ts \in Seq(TaskType) /\ t \in 1..Len(ts) /\ a \in Answer
  /\ Len(us) = Len(ts) /\ \A k \in 1..Len(ts) : k # t => us[k] = ts[k]
  /\ us[t].replicas = ts[t].replicas
  /\ us[t].results = Append(ts[t].results, a)

LEMMA PaidAppend ==
    ASSUME NEW ts, NEW us, NEW t, NEW r, Answers(ts, us, t, r), NEW v
    PROVE  Paid(us, v) = Paid(ts, v) \cup
             (IF v = r.worker /\ r.known /\ verify(ts[t].replicas, us[t].results) \in Ok
              THEN {<<t, Len(ts[t].results) + 1>>} ELSE {})
<1> DEFINE old == ts[t].results
           n == Len(old) + 1
<1> USE DEF Answers
<1>1. ts[t] \in TaskType /\ Len(ts) \in Nat
  OBVIOUS
<1>2. old \in Results /\ r \in Answer
  BY <1>1 DEF TaskType
<1>3. /\ Len(old) \in Nat /\ Len(us[t].results) = n
      /\ us[t].results[n] = r
      /\ \A i \in 1..Len(old) : us[t].results[i] = old[i]
  BY <1>2 DEF Results
<1>4. /\ \A i \in 1..Len(old) : SubSeq(us[t].results, 1, i) = SubSeq(old, 1, i)
      /\ SubSeq(us[t].results, 1, n) = us[t].results
  BY <1>2, SliceOfAppend DEF Results
<1> HIDE DEF old, n
<1>5. ASSUME NEW i \in 1..Len(old) PROVE Pays(us, t, i, v) <=> Pays(ts, t, i, v)
  BY <1>3, <1>4 DEF Pays, old
<1>6. Pays(us, t, n, v) <=> v = r.worker /\ r.known /\ verify(ts[t].replicas, us[t].results) \in Ok
  BY <1>3, <1>4, Zenon DEF Pays
<1>7. ASSUME NEW k \in 1..Len(ts), k # t, NEW i PROVE Pays(us, k, i, v) <=> Pays(ts, k, i, v)
  BY <1>7 DEF Pays
<1>8. 1..n = 1..Len(old) \cup {n}
  BY <1>3 DEF n
<1>9. ASSUME NEW p
      PROVE  p \in Paid(us, v) <=>
               \/ p \in Paid(ts, v)
               \/ p = <<t, n>> /\ Pays(us, t, n, v)
  <2>1. p \in Paid(us, v) <=> \E k \in 1..Len(ts) : \E i \in 1..Len(us[k].results) :
                                  p = <<k, i>> /\ Pays(us, k, i, v)
    BY PaidMember
  <2>2. p \in Paid(ts, v) <=> \E k \in 1..Len(ts) : \E i \in 1..Len(ts[k].results) :
                                  p = <<k, i>> /\ Pays(ts, k, i, v)
    BY PaidMember
  <2>3. ASSUME NEW k \in 1..Len(ts), NEW i \in 1..Len(us[k].results), p = <<k, i>>, Pays(us, k, i, v)
        PROVE  \/ i \in 1..Len(ts[k].results) /\ Pays(ts, k, i, v)
               \/ p = <<t, n>> /\ Pays(us, t, n, v)
    <3>1. CASE k # t
      BY <1>7, <2>3, <3>1
    <3>2. CASE k = t /\ i \in 1..Len(old)
      BY <1>5, <2>3, <3>2 DEF old
    <3>3. CASE k = t /\ i = n
      BY <2>3, <3>3
    <3> QED
      BY <1>3, <1>8, <3>1, <3>2, <3>3
  <2>4. ASSUME NEW k \in 1..Len(ts), NEW i \in 1..Len(ts[k].results), p = <<k, i>>, Pays(ts, k, i, v)
        PROVE  i \in 1..Len(us[k].results) /\ Pays(us, k, i, v)
    <3>1. CASE k # t
      BY <1>7, <2>4, <3>1
    <3>2. CASE k = t
      BY <1>3, <1>5, <1>8, <2>4, <3>2 DEF old
    <3> QED
      BY <3>1, <3>2
  <2>5. n \in 1..Len(us[t].results)
    BY <1>3 DEF n
  <2> QED
    BY <2>1, <2>2, <2>3, <2>4, <2>5, Zenon
<1>10. Paid(us, v) = Paid(ts, v) \cup (IF Pays(us, t, n, v) THEN {<<t, n>>} ELSE {})
  BY <1>9
<1> QED
  BY <1>6, <1>10 DEF n, old

OmTyped == /\ IsFiniteSet(DOMAIN workers) /\ DOMAIN workers \subseteq Volunteers
           /\ workers \in [DOMAIN workers -> Info]
           /\ tasks \in Seq(TaskType)
           /\ pending \in Seq(1..Len(tasks))
           /\ jobs \in Seq(JobType)

\* The clauses of WorkAccounted, one by one.
Unanswered(w, t) == /\ w \in tasks[t].worker
                    /\ \A i \in 1..Len(tasks[t].results) :
                         tasks[t].results[i].worker = w => i <= tasks[t].given
Occupied == \A w \in DOMAIN workers :
              ~workers[w].available => \E t \in 1..Len(tasks) : Unanswered(w, t)
Passes(task) == task.results # <<>> /\ verify(task.replicas, task.results) \in Ok
Sound(task) == /\ (task.status = "verified") <=> (Passes(task) /\ ~Awaited(task))
               /\ task.given <= Len(task.results)
Judged == \A t \in 1..Len(tasks) : Sound(tasks[t])
Untouched == \A k \in 1..Len(pending) : tasks[pending[k]].worker = {}
QueuedOnce == \A k, m \in 1..Len(pending) : pending[k] = pending[m] => k = m

\* What was earned, with the two facts that make it countable: an answer noted as
\* a registered worker's is, and those paid for are finitely many.
AnswersKnown == \A t \in 1..Len(tasks) : \A i \in 1..Len(tasks[t].results) :
                  tasks[t].results[i].known => tasks[t].results[i].worker \in DOMAIN workers
Earned == \A w \in DOMAIN workers : /\ IsFiniteSet(Paid(tasks, w))
                                    /\ workers[w].earned = Cardinality(Paid(tasks, w))

OmInv == /\ OmTyped /\ Occupied /\ Judged /\ Untouched /\ QueuedOnce
         /\ AnswersKnown /\ Earned

LEMMA OmInvAccounts == OmInv => WorkAccounted
<1> SUFFICES ASSUME OmInv PROVE WorkAccounted
  OBVIOUS
<1>1. \A w : PaidAnswers(w) = Paid(tasks, w)
  BY DEF PaidAnswers, Paid
<1>2. ASSUME NEW w \in DOMAIN workers
      PROVE  /\ ~workers[w].available =>
                  \E t \in 1..Len(tasks) :
                     /\ w \in tasks[t].worker
                     /\ \A i \in 1..Len(tasks[t].results) :
                          tasks[t].results[i].worker = w => i <= tasks[t].given
             /\ workers[w].earned = Cardinality(PaidAnswers(w))
  BY <1>1, Zenon DEF OmInv, Occupied, Unanswered, Earned
<1>3. ASSUME NEW t \in 1..Len(tasks)
      PROVE  (tasks[t].status = "verified") <=>
               /\ tasks[t].results # <<>> /\ verify(tasks[t].replicas, tasks[t].results) \in Ok
               /\ ~Awaited(tasks[t])
  BY Zenon DEF OmInv, Judged, Sound, Passes
<1>4. DOMAIN pending = 1..Len(pending)
  BY DEF OmInv, OmTyped
<1>5. ASSUME NEW t \in 1..Len(tasks), t \in ToSet(pending)
      PROVE  tasks[t].worker = {}
  <2>1. PICK k \in 1..Len(pending) : pending[k] = t
    BY <1>4, <1>5 DEF ToSet
  <2> QED
    BY <2>1 DEF OmInv, Untouched
<1>6. IsInjective(pending)
  BY <1>4 DEF OmInv, QueuedOnce, IsInjective
<1> QED
  BY <1>2, <1>3, <1>5, <1>6, Zenon DEF WorkAccounted

LEMMA OmInitInv == OmInit => OmInv
<1> SUFFICES ASSUME OmInit PROVE OmInv
  OBVIOUS
<1>1. /\ workers = [n \in {Own} |-> WorkerInfo] /\ tasks = <<>> /\ pending = <<>>
      /\ DOMAIN workers = {Own} /\ workers[Own] = WorkerInfo
  BY DEF OmInit, SchedulerInit
<1>2. IsFiniteSet(DOMAIN workers) /\ DOMAIN workers \subseteq Volunteers
  BY <1>1, FS_Singleton DEF Volunteers
<1>3. workers \in [DOMAIN workers -> Info]
  BY <1>1 DEF WorkerInfo, Info
<1>4. Len(tasks) = 0 /\ Len(pending) = 0 /\ tasks \in Seq(TaskType) /\ pending \in Seq(1..Len(tasks))
  BY <1>1
<1>5. \A w : Paid(tasks, w) = {}
  <2>1. ASSUME NEW w, NEW p PROVE p \notin Paid(tasks, w)
    BY <1>4, PaidMember
  <2> QED
    BY <2>1
<1>6. Earned
  BY <1>1, <1>5, FS_EmptySet DEF Earned, WorkerInfo
<1>7. Occupied
  BY <1>1 DEF Occupied, WorkerInfo
<1>8. Judged /\ Untouched /\ QueuedOnce /\ AnswersKnown
  BY <1>4 DEF Judged, Untouched, QueuedOnce, AnswersKnown
<1>9. jobs \in Seq(JobType)
  BY DEF OmInit
<1> QED
  BY <1>2, <1>3, <1>4, <1>6, <1>7, <1>8, <1>9 DEF OmInv, OmTyped

LEMMA RegisterStep ==
    ASSUME OmInv, NEW n \in Volunteers, NEW load, register_node(n, load)
    PROVE  OmInv'
<1> DEFINE D == DOMAIN workers \cup {n}
<1>1. /\ workers' = [m \in D |-> IF m \in DOMAIN workers THEN workers[m] ELSE WorkerInfo]
      /\ DOMAIN workers' = D /\ tasks' = tasks /\ pending' = pending /\ jobs' = jobs
  BY DEF register_node
<1>2. OmTyped
  BY DEF OmInv
<1>3. IsFiniteSet(D) /\ D \subseteq Volunteers
  BY <1>2, FS_AddElement DEF OmTyped
<1>4. OmTyped'
  <2>1. \A m \in D : workers'[m] \in Info
    BY <1>1, <1>2 DEF OmTyped, WorkerInfo, Info
  <2> QED
    BY <1>1, <1>2, <1>3, <2>1 DEF OmTyped
<1>5. Occupied'
  <2>0. \A w, t : Unanswered(w, t)' <=> Unanswered(w, t)
    BY <1>1, Zenon DEF Unanswered
  <2>1. SUFFICES ASSUME NEW w \in D, ~workers'[w].available
                 PROVE  \E t \in 1..Len(tasks) : Unanswered(w, t)
    BY <1>1, <2>0, Zenon DEF Occupied
  <2>2. w \in DOMAIN workers /\ ~workers[w].available
    BY <1>1, <2>1 DEF WorkerInfo
  <2> QED
    BY <2>2 DEF OmInv, Occupied
<1>6. (Judged /\ Untouched /\ QueuedOnce)'
  BY <1>1 DEF OmInv, Judged, Sound, Passes, Awaited, Untouched, QueuedOnce
<1>7. AnswersKnown'
  BY <1>1 DEF OmInv, AnswersKnown
<1>8. ASSUME NEW w \in D
      PROVE  IsFiniteSet(Paid(tasks, w)) /\ workers'[w].earned = Cardinality(Paid(tasks, w))
  <2>1. CASE w \in DOMAIN workers
    BY <1>1, <2>1 DEF OmInv, Earned
  <2>2. CASE w \notin DOMAIN workers
    <3>1. ASSUME NEW p PROVE p \notin Paid(tasks, w)
      BY <2>2, PaidMember DEF Pays, OmInv, AnswersKnown
    <3>2. Paid(tasks, w) = {}
      BY <3>1
    <3> QED
      BY <1>1, <2>2, <3>2, FS_EmptySet DEF WorkerInfo
  <2> QED
    BY <2>1, <2>2
<1>9. Earned'
  BY <1>1, <1>8 DEF Earned
<1> QED
  BY <1>4, <1>5, <1>6, <1>7, <1>9 DEF OmInv

LEMMA ResourcesStep ==
    ASSUME OmInv, UNCHANGED <<workers, tasks, pending, jobs>>
    PROVE  OmInv'
<1>1. (OmTyped /\ Judged /\ Untouched /\ QueuedOnce /\ AnswersKnown /\ Earned)'
  BY DEF OmInv, OmTyped, Judged, Sound, Passes, Awaited, Untouched, QueuedOnce, AnswersKnown, Earned
<1>2. Occupied'
  <2>1. \A w, t : Unanswered(w, t)' <=> Unanswered(w, t)
    BY Zenon DEF Unanswered
  <2> QED
    BY <2>1, Zenon DEF OmInv, Occupied
<1> QED
  BY <1>1, <1>2 DEF OmInv

LEMMA ReplicasType ==
    ASSUME NEW kind
    PROVE  Replicas(kind) \in Seq(Nat)
<1>1. <<>> \in Seq(Nat) /\ <<3, 3>> \in Seq(Nat) /\ <<2>> \in Seq(Nat) /\ <<0>> \in Seq(Nat)
  OBVIOUS
<1> QED
  BY <1>1 DEF Replicas

LEMMA JoinedTasks ==
    ASSUME NEW a \in Seq(TaskType), NEW b \in Seq(TaskType), NEW c, c = a \o b
    PROVE  /\ c \in Seq(TaskType) /\ Len(a) \in Nat /\ Len(b) \in Nat /\ Len(c) = Len(a) + Len(b)
           /\ \A i \in 1..Len(a) : c[i] = a[i]
           /\ \A i \in 1..Len(c) : i > Len(a) => (i - Len(a) \in 1..Len(b) /\ c[i] = b[i - Len(a)])
BY Joined

\* The queue gets the ids that follow those of the table.
Enqueues(L, n, p, ids, q) ==
    /\ L \in Nat /\ n \in Nat /\ p \in Seq(1..L) /\ q = p \o ids
    /\ ids = [i \in 1..n |-> L + i]
    /\ \A k, m \in 1..Len(p) : p[k] = p[m] => k = m

LEMMA JoinedQueue ==
    ASSUME NEW L, NEW n, NEW p, NEW ids, NEW q, Enqueues(L, n, p, ids, q)
    PROVE  /\ q \in Seq(1..(L + n))
           /\ \A k, m \in 1..Len(q) : q[k] = q[m] => k = m
           /\ \A k \in 1..Len(q) : (k \in 1..Len(p) /\ q[k] = p[k] /\ q[k] \in 1..L) \/ q[k] > L
<1> USE DEF Enqueues
<1> DEFINE U == 1..(L + n)
<1>1. ids \in Seq(U) /\ Len(ids) = n /\ \A i \in 1..n : ids[i] = L + i
  OBVIOUS
<1>2. p \in Seq(U) /\ Len(p) \in Nat /\ \A k \in 1..Len(p) : p[k] \in 1..L
  <2>1. Len(p) \in Nat /\ \A k \in 1..Len(p) : p[k] \in 1..L
    OBVIOUS
  <2>2. \A k \in 1..Len(p) : p[k] \in U
    BY <2>1
  <2> QED
    BY <2>1, <2>2
<1> HIDE DEF U
<1>3. /\ q \in Seq(U) /\ Len(q) = Len(p) + n
      /\ \A i \in 1..Len(p) : q[i] = p[i]
      /\ \A i \in 1..Len(q) : i > Len(p) => (i - Len(p) \in 1..n /\ q[i] = ids[i - Len(p)])
  BY <1>1, <1>2, Joined
<1>4. ASSUME NEW k \in 1..Len(q)
      PROVE  \/ k \in 1..Len(p) /\ q[k] = p[k] /\ q[k] \in 1..L
             \/ k > Len(p) /\ q[k] = L + (k - Len(p)) /\ q[k] > L
  <2>1. CASE k > Len(p)
    <3>1. k - Len(p) \in 1..n /\ q[k] = L + (k - Len(p))
      BY <1>1, <1>3, <2>1
    <3> QED
      BY <1>2, <2>1, <3>1
  <2>2. CASE ~(k > Len(p))
    <3>1. k \in 1..Len(p)
      BY <1>2, <1>3, <2>2
    <3> QED
      BY <1>2, <1>3, <3>1
  <2> QED
    BY <2>1, <2>2
<1>5. ASSUME NEW k \in 1..Len(q), NEW m \in 1..Len(q), q[k] = q[m] PROVE k = m
  BY <1>2, <1>3, <1>4, <1>5
<1> QED
  BY <1>3, <1>4, <1>5 DEF U

\* Nobody's tasks or answers change, and only tasks without answers are added.
LEMMA JobStep == ASSUME OmInv, NEW kind, submit_job(kind) PROVE OmInv'
<1> DEFINE r == Replicas(kind)
           j == Len(jobs) + 1
           new == [i \in 1..Len(r) |-> Task(j, r[i])]
           ids == [i \in 1..Len(new) |-> Len(tasks) + i]
           L == Len(tasks)
           M == Len(pending)
<1>1. /\ tasks' = tasks \o new /\ pending' = pending \o ids /\ workers' = workers
      /\ jobs' = Append(jobs, OmJob(Len(r)))
  BY DEF submit_job, submit_tasks
<1>2. /\ OmTyped /\ tasks \in Seq(TaskType) /\ L \in Nat /\ pending \in Seq(1..L) /\ M \in Nat
      /\ jobs \in Seq(JobType)
  BY DEF OmInv, OmTyped
<1>3. r \in Seq(Nat) /\ Len(r) \in Nat /\ j \in Nat
  BY <1>2, ReplicasType
<1>4. jobs' \in Seq(JobType)
  BY <1>1, <1>2, <1>3 DEF OmJob, JobType
<1>5. \A i \in 1..Len(r) : /\ new[i] \in TaskType /\ new[i].results = <<>> /\ new[i].worker = {}
                           /\ new[i].status = "pending" /\ new[i].given = 0
  BY <1>3 DEF Task, TaskType, Results
<1> HIDE DEF r, j
<1>6. new \in Seq(TaskType) /\ Len(new) = Len(r)
  BY <1>3, <1>5
<1> HIDE DEF new
<1>7. /\ tasks' \in Seq(TaskType) /\ Len(tasks') = L + Len(r)
      /\ \A t \in 1..L : tasks'[t] = tasks[t]
      /\ \A t \in 1..Len(tasks') : t > L => (t - L \in 1..Len(r) /\ tasks'[t] = new[t - L])
  <2>1. /\ tasks' \in Seq(TaskType) /\ Len(tasks') = Len(tasks) + Len(new)
        /\ \A t \in 1..Len(tasks) : tasks'[t] = tasks[t]
        /\ \A t \in 1..Len(tasks') : t > Len(tasks) =>
              (t - Len(tasks) \in 1..Len(new) /\ tasks'[t] = new[t - Len(tasks)])
    <3>1. tasks \in Seq(TaskType) /\ new \in Seq(TaskType) /\ tasks' = tasks \o new
      BY <1>1, <1>2, <1>6
    <3> QED
      BY <3>1, JoinedTasks
  <2> QED
    BY <1>6, <2>1, Zenon
<1>8. ids = [i \in 1..Len(r) |-> Len(tasks) + i]
  BY <1>6
<1>9. \A k, m \in 1..Len(pending) : pending[k] = pending[m] => k = m
  BY DEF OmInv, QueuedOnce
<1> HIDE DEF ids
<1>10. /\ pending' \in Seq(1..Len(tasks'))
       /\ \A k, m \in 1..Len(pending') : pending'[k] = pending'[m] => k = m
       /\ \A k \in 1..Len(pending') :
             \/ k \in 1..M /\ pending'[k] = pending[k] /\ pending'[k] \in 1..L
             \/ pending'[k] > L
  <2>1. /\ pending' = pending \o ids /\ Len(tasks) \in Nat /\ Len(r) \in Nat
        /\ pending \in Seq(1..Len(tasks)) /\ Len(tasks') = Len(tasks) + Len(r)
    BY <1>1, <1>2, <1>3, <1>7
  <2>2. Enqueues(Len(tasks), Len(r), pending, ids, pending')
    BY <1>8, <1>9, <2>1 DEF Enqueues
  <2>3. /\ pending' \in Seq(1..(Len(tasks) + Len(r)))
        /\ \A k, m \in 1..Len(pending') : pending'[k] = pending'[m] => k = m
        /\ \A k \in 1..Len(pending') :
              \/ k \in 1..Len(pending) /\ pending'[k] = pending[k] /\ pending'[k] \in 1..Len(tasks)
              \/ pending'[k] > Len(tasks)
    BY <2>2, JoinedQueue
  <2> QED
    BY <2>1, <2>3, Zenon
<1>11. OmTyped'
  BY <1>1, <1>2, <1>4, <1>7, <1>10 DEF OmTyped
<1>12. ASSUME NEW t \in 1..Len(tasks'), t > L
       PROVE  /\ tasks'[t].results = <<>> /\ tasks'[t].worker = {}
              /\ tasks'[t].status = "pending" /\ tasks'[t].given = 0
  BY <1>5, <1>7, <1>12
<1>13. Occupied'
  <2>1. SUFFICES ASSUME NEW w \in DOMAIN workers, ~workers[w].available
                 PROVE  \E t \in 1..Len(tasks') : Unanswered(w, t)'
    BY <1>1, Zenon DEF Occupied
  <2>2. PICK t \in 1..L : Unanswered(w, t)
    BY <2>1 DEF OmInv, Occupied
  <2>3. t \in 1..Len(tasks') /\ tasks'[t] = tasks[t]
    BY <1>2, <1>3, <1>7
  <2>4. Unanswered(w, t)'
    BY <2>2, <2>3 DEF Unanswered
  <2> QED
    BY <2>3, <2>4
<1>14. Judged'
  <2>1. ASSUME NEW t \in 1..Len(tasks')
        PROVE  Sound(tasks'[t])
    <3>1. CASE t > L
      BY <1>12, <3>1 DEF Passes, Sound
    <3>2. CASE t \in 1..L
      BY <1>7, <3>2 DEF OmInv, Judged
    <3> QED
      BY <1>2, <1>7, <3>1, <3>2
  <2> QED
    BY <2>1 DEF Judged, Sound, Passes, Awaited
<1>15. Untouched'
  <2>1. ASSUME NEW k \in 1..Len(pending')
        PROVE  tasks'[pending'[k]].worker = {}
    <3>1. CASE pending'[k] > L
      <4>1. pending'[k] \in 1..Len(tasks')
        BY <1>10
      <4> QED
        BY <1>12, <3>1, <4>1
    <3>2. CASE k \in 1..M /\ pending'[k] = pending[k] /\ pending'[k] \in 1..L
      BY <1>7, <3>2 DEF OmInv, Untouched
    <3> QED
      BY <1>10, <3>1, <3>2
  <2> QED
    BY <2>1 DEF Untouched
<1>16. QueuedOnce'
  BY <1>10 DEF QueuedOnce
<1>17. AnswersKnown'
  <2>1. ASSUME NEW t \in 1..Len(tasks'), NEW i \in 1..Len(tasks'[t].results)
        PROVE  tasks'[t].results[i].known => tasks'[t].results[i].worker \in DOMAIN workers
    <3>1. CASE t > L
      BY <1>12, <3>1
    <3>2. CASE t \in 1..L
      BY <1>7, <3>2 DEF OmInv, AnswersKnown
    <3> QED
      BY <1>2, <1>7, <3>1, <3>2
  <2> QED
    BY <1>1, <2>1 DEF AnswersKnown
<1>18. \A w : Paid(tasks', w) = Paid(tasks, w)
  <2>1. Len(tasks') \in Nat /\ Len(tasks) <= Len(tasks')
    BY <1>2, <1>3, <1>7
  <2>2. /\ \A t \in 1..Len(tasks) : /\ tasks'[t].results = tasks[t].results
                                   /\ tasks'[t].replicas = tasks[t].replicas
        /\ \A t \in 1..Len(tasks') : t > Len(tasks) => tasks'[t].results = <<>>
    BY <1>7, <1>12
  <2> QED
    BY <1>2, <2>1, <2>2, PaidSame
<1>19. Earned'
  BY <1>1, <1>18 DEF OmInv, Earned
<1> QED
  BY <1>11, <1>13, <1>14, <1>15, <1>16, <1>17, <1>19 DEF OmInv

\* q is what is left of the queue p of tasks behind its first n + 1 entries.
Behind(L, p, n, q) ==
    /\ L \in Nat /\ p \in Seq(1..L) /\ n \in Nat /\ n <= Len(p)
    /\ \A k, m \in 1..Len(p) : p[k] = p[m] => k = m
    /\ q = SubSeq(p, n + 2, Len(p))

LEMMA QueueRest ==
    ASSUME NEW L, NEW p, NEW n, NEW q, Behind(L, p, n, q)
    PROVE  /\ q \in Seq(1..L)
           /\ \A k, m \in 1..Len(q) : q[k] = q[m] => k = m
           /\ \A k \in 1..Len(q) : \E m \in 1..Len(p) : m > n /\ q[k] = p[m]
<1> USE DEF Behind
<1>1. Len(p) \in Nat
  OBVIOUS
<1>2. \A i \in (n + 2)..Len(p) : i \in 1..Len(p) /\ p[i] \in 1..L
  BY <1>1
<1>3. /\ q \in Seq(1..L)
      /\ Len(q) = IF n + 2 <= Len(p) THEN Len(p) - (n + 2) + 1 ELSE 0
      /\ \A i \in 1..(Len(p) - (n + 2) + 1) : q[i] = p[(n + 2) + i - 1]
  BY <1>1, <1>2, SubSeqProperties
<1>4. ASSUME NEW k \in 1..Len(q)
      PROVE  k + n + 1 \in 1..Len(p) /\ q[k] = p[k + n + 1]
  <2>1. k \in 1..(Len(p) - (n + 2) + 1) /\ (n + 2) + k - 1 = k + n + 1 /\ k + n + 1 \in 1..Len(p)
    BY <1>1, <1>3
  <2> QED
    BY <1>3, <2>1, Zenon
<1>5. \A k \in 1..Len(q) : \E m \in 1..Len(p) : m > n /\ q[k] = p[m]
  <2>1. ASSUME NEW k \in 1..Len(q) PROVE k + n + 1 > n
    BY <1>1, <1>3
  <2> QED
    BY <1>4, <2>1
<1>6. ASSUME NEW k \in 1..Len(q), NEW m \in 1..Len(q), q[k] = q[m] PROVE k = m
  <2>1. k + n + 1 = m + n + 1
    BY <1>4, <1>6
  <2> QED
    BY <2>1
<1> QED
  BY <1>3, <1>5, <1>6

AsGiven(k, w) == [k EXCEPT !.status = "assigned", !.worker = {w}, !.given = Len(k.results)]
Given(n, t) == \E i \in 1..n : pending[i] = t
Place(n, t) == CHOOSE i \in 1..n : pending[i] = t
Taken(n, ws) == {ws[i] : i \in 1..n}
Hands(n, ws) ==
  /\ ws \in [1..n -> Available]
  /\ tasks' = [t \in 1..Len(tasks) |->
                 IF Given(n, t)
                 THEN AsGiven(tasks[t], ws[Place(n, t)])
                 ELSE tasks[t]]
  /\ workers' = [w \in DOMAIN workers |->
                   IF w \in Taken(n, ws)
                   THEN [workers[w] EXCEPT !.available = FALSE] ELSE workers[w]]
  /\ pending' = SubSeq(pending, n + 2, Len(pending))
  /\ jobs' = [j \in 1..Len(jobs) |->
                IF jobs[j].status = "submitted" /\ n > 0
                THEN [jobs[j] EXCEPT !.status = "distributing"] ELSE jobs[j]]

LEMMA DistributeHands ==
    ASSUME OmInv, distribute
    PROVE  \E n \in Nat : n <= Len(pending) /\ \E ws : Hands(n, ws)
<1> DEFINE n == Min({Len(pending), Cardinality(Available)})
<1>1. n \in Nat /\ n <= Len(pending)
  <2>1. IsFiniteSet(Available)
    BY FS_Subset DEF Available, OmInv, OmTyped
  <2>2. Cardinality(Available) \in Nat
    BY <2>1, FS_CardinalityType
  <2>3. Len(pending) \in Nat
    BY DEF OmInv, OmTyped
  <2>4. n = IF Len(pending) <= Cardinality(Available) THEN Len(pending) ELSE Cardinality(Available)
    BY <2>2, <2>3, MinOfTwo
  <2> HIDE DEF n
  <2> QED
    BY <2>2, <2>3, <2>4
<1>2. \E ws \in Picks(n) : Hands(n, ws)
  <2>1. \A ws \in Picks(n) : ws \in [1..n -> Available]
    BY Zenon DEF Picks
  <2> QED
    BY <2>1, Zenon DEF distribute, Hands, Given, Place, Taken, AsGiven
<1> QED
  BY <1>1, <1>2

LEMMA TaskGiven ==
    ASSUME NEW k \in TaskType, NEW w \in Volunteers
    PROVE  /\ AsGiven(k, w) \in TaskType /\ AsGiven(k, w).status = "assigned"
           /\ AsGiven(k, w).worker = {w} /\ AsGiven(k, w).results = k.results
           /\ AsGiven(k, w).replicas = k.replicas /\ AsGiven(k, w).given = Len(k.results)
           /\ Len(k.results) \in Nat
<1>1. k.results \in Results /\ Len(k.results) \in Nat
  BY DEF TaskType, Results
<1> QED
  BY <1>1 DEF TaskType, AsGiven

LEMMA WorkerTaken ==
    ASSUME NEW k \in Info, NEW u, u = [k EXCEPT !.available = FALSE]
    PROVE  u \in Info /\ ~u.available /\ u.earned = k.earned
BY DEF Info

\* Only tasks that were queued, and so given to nobody, are given out.
LEMMA HandsStep ==
    ASSUME OmInv, NEW n \in Nat, n <= Len(pending), NEW ws, Hands(n, ws)
    PROVE  OmInv'
<1> DEFINE L == Len(tasks)
<1>1. /\ \A t \in 1..L : Given(n, t) =>
            tasks'[t] = AsGiven(tasks[t], ws[Place(n, t)])
      /\ \A t \in 1..L : ~Given(n, t) => tasks'[t] = tasks[t]
      /\ \A w \in DOMAIN workers : w \in Taken(n, ws) =>
            workers'[w] = [workers[w] EXCEPT !.available = FALSE]
      /\ \A w \in DOMAIN workers : w \notin Taken(n, ws) => workers'[w] = workers[w]
  <2>2. \A t \in 1..L : Given(n, t) =>
            tasks'[t] = AsGiven(tasks[t], ws[Place(n, t)])
    BY Zenon DEF Hands
  <2>3. \A t \in 1..L : ~Given(n, t) => tasks'[t] = tasks[t]
    BY Zenon DEF Hands
  <2>5. \A w \in DOMAIN workers : w \in Taken(n, ws) =>
            workers'[w] = [workers[w] EXCEPT !.available = FALSE]
    BY Zenon DEF Hands
  <2>6. \A w \in DOMAIN workers : w \notin Taken(n, ws) => workers'[w] = workers[w]
    BY Zenon DEF Hands
  <2> QED
    BY <2>2, <2>3, <2>5, <2>6, Zenon
<1>2. /\ pending' = SubSeq(pending, n + 2, Len(pending))
      /\ jobs' = [j \in 1..Len(jobs) |->
                    IF jobs[j].status = "submitted" /\ n > 0
                    THEN [jobs[j] EXCEPT !.status = "distributing"] ELSE jobs[j]]
  BY Zenon DEF Hands
<1>3. /\ OmTyped /\ tasks \in Seq(TaskType) /\ L \in Nat /\ pending \in Seq(1..L)
      /\ Len(pending) \in Nat /\ jobs \in Seq(JobType) /\ DOMAIN workers \subseteq Volunteers
      /\ workers \in [DOMAIN workers -> Info] /\ IsFiniteSet(DOMAIN workers)
  BY DEF OmInv, OmTyped
<1>4. n \in Nat /\ n <= Len(pending)
  OBVIOUS
<1>5. ws \in [1..n -> Available] /\ Available \subseteq DOMAIN workers
  BY Zenon DEF Hands, Available
<1>6. QueuedOnce
  BY DEF OmInv
<1>7. ASSUME NEW i \in 1..n
      PROVE  /\ pending[i] \in 1..L /\ Given(n, pending[i])
             /\ Place(n, pending[i]) = i
             /\ tasks[pending[i]].worker = {}
  <2>1. i \in 1..Len(pending)
    BY <1>3, <1>4
  <2>2. ASSUME NEW k \in 1..n, pending[k] = pending[i] PROVE k = i
    <3>1. k \in 1..Len(pending)
      BY <1>3, <1>4
    <3> QED
      BY <1>6, <2>1, <2>2, <3>1 DEF QueuedOnce
  <2>3. Place(n, pending[i]) = i
    BY <2>2, Zenon DEF Place
  <2>4. tasks[pending[i]].worker = {}
    BY <2>1 DEF OmInv, Untouched
  <2>5. pending[i] \in 1..L /\ Given(n, pending[i])
    BY <1>3, <2>1 DEF Given
  <2> QED
    BY <2>3, <2>4, <2>5
<1>8. DOMAIN workers' = DOMAIN workers
  BY Zenon DEF Hands
<1>9. ASSUME NEW i \in 1..n
      PROVE  /\ tasks'[pending[i]] = AsGiven(tasks[pending[i]], ws[i])
             /\ ws[i] \in Volunteers
  <2>1. ws[i] \in Volunteers
    BY <1>3, <1>5
  <2>2. tasks'[pending[i]] = AsGiven(tasks[pending[i]], ws[Place(n, pending[i])])
    BY <1>1, <1>7, Zenon
  <2> QED
    BY <1>7, <2>1, <2>2, Zenon
<1>10. ASSUME NEW t \in 1..L, ~Given(n, t) PROVE tasks'[t] = tasks[t]
  BY <1>1, <1>10, Zenon
<1>11. ASSUME NEW t \in 1..L, Given(n, t)
       PROVE  /\ Awaited(tasks'[t]) /\ tasks'[t].status = "assigned"
              /\ tasks'[t].results = tasks[t].results /\ tasks'[t].replicas = tasks[t].replicas
              /\ tasks'[t] \in TaskType /\ tasks'[t].given <= Len(tasks'[t].results)
  <2>1. PICK i \in 1..n : pending[i] = t
    BY <1>11 DEF Given
  <2>2. tasks[t] \in TaskType
    BY <1>3
  <2>3. tasks'[t] = AsGiven(tasks[t], ws[i]) /\ ws[i] \in Volunteers
    BY <1>9, <2>1, Zenon
  <2>4. /\ tasks'[t] \in TaskType /\ tasks'[t].status = "assigned"
        /\ tasks'[t].results = tasks[t].results /\ tasks'[t].replicas = tasks[t].replicas
        /\ tasks'[t].given = Len(tasks[t].results) /\ Len(tasks[t].results) \in Nat
        /\ tasks'[t].worker = {ws[i]}
    BY <2>2, <2>3, TaskGiven
  <2> QED
    BY <2>4 DEF Awaited
<1>12. tasks' \in Seq(TaskType) /\ Len(tasks') = L
  <2>1. \A t \in 1..L : tasks'[t] \in TaskType
    BY <1>3, <1>10, <1>11
  <2>2. tasks' \in [1..L -> TaskType]
    <3>1. tasks' = [t \in 1..L |-> tasks'[t]]
      BY Zenon DEF Hands
    <3> QED
      BY <2>1, <3>1, Zenon
  <2> QED
    <3>1. Len(tasks) \in Nat
      BY <1>3
    <3> QED
      BY <2>2, <3>1
<1>13. /\ pending' \in Seq(1..L)
       /\ \A k, m \in 1..Len(pending') : pending'[k] = pending'[m] => k = m
       /\ \A k \in 1..Len(pending') : \E m \in 1..Len(pending) : m > n /\ pending'[k] = pending[m]
  <2>1. \A k, m \in 1..Len(pending) : pending[k] = pending[m] => k = m
    BY <1>6 DEF QueuedOnce
  <2> QED
    <3>1. /\ Len(tasks) \in Nat /\ pending \in Seq(1..Len(tasks))
          /\ pending' = SubSeq(pending, n + 2, Len(pending))
      BY <1>2, <1>3
    <3> QED
      <4>1. Behind(L, pending, n, pending')
        BY <1>4, <2>1, <3>1 DEF Behind
      <4> QED
        BY <4>1, QueueRest
<1>14. workers' \in [DOMAIN workers -> Info]
  <2>1. ASSUME NEW w \in DOMAIN workers PROVE workers'[w] \in Info
    <3>1. workers[w] \in Info
      BY <1>3
    <3> QED
      BY <1>1, <3>1, WorkerTaken, Zenon
  <2>2. workers' = [w \in DOMAIN workers |-> workers'[w]]
    BY Zenon DEF Hands
  <2> QED
    BY <2>1, <2>2, Zenon
<1>15. jobs' \in Seq(JobType)
  <2>1. ASSUME NEW j \in 1..Len(jobs) PROVE jobs'[j] \in JobType
    <3>1. jobs[j] \in JobType
      BY <1>3
    <3> QED
      BY <1>2, <3>1 DEF JobType
  <2>2. Len(jobs) \in Nat
    BY <1>3
  <2> QED
    BY <1>2, <2>1, <2>2
<1>16. OmTyped'
  BY <1>3, <1>8, <1>12, <1>13, <1>14, <1>15 DEF OmTyped
<1>17. Occupied'
  <2>1. SUFFICES ASSUME NEW w \in DOMAIN workers, ~workers'[w].available
                 PROVE  \E t \in 1..L : Unanswered(w, t)'
    BY <1>8, <1>12, Zenon DEF Occupied
  <2>2. CASE w \in Taken(n, ws)
    <3>1. PICK i \in 1..n : w = ws[i]
      BY <2>2 DEF Taken
    <3>2. PICK u \in 1..L : /\ tasks[u] \in TaskType
                            /\ tasks'[u] = AsGiven(tasks[u], w)
      <4>1. pending[i] \in 1..L
        BY <1>7
      <4>2. tasks \in Seq(TaskType) /\ \A u \in 1..L : tasks[u] \in TaskType
        BY <1>3
      <4> QED
        BY <1>9, <3>1, <4>1, <4>2, Zenon
    <3>3. w \in Volunteers
      BY <1>3
    <3>4. /\ tasks'[u].worker = {w} /\ tasks'[u].results = tasks[u].results
          /\ tasks'[u].given = Len(tasks[u].results) /\ Len(tasks[u].results) \in Nat
      BY <3>2, <3>3, TaskGiven
    <3>6. Unanswered(w, u)'
      BY <3>4 DEF Unanswered
    <3> QED
      BY <3>6
  <2>3. CASE w \notin Taken(n, ws)
    <3>1. ~workers[w].available
      BY <1>1, <2>1, <2>3, Zenon
    <3>2. PICK t \in 1..L : Unanswered(w, t)
      BY <3>1 DEF OmInv, Occupied
    <3>3. ~Given(n, t)
      BY <1>7, <3>2 DEF Unanswered, Given
    <3>4. tasks'[t] = tasks[t]
      BY <1>10, <3>3
    <3>5. Unanswered(w, t)'
      BY <3>2, <3>4 DEF Unanswered
    <3> QED
      BY <3>5
  <2> QED
    BY <2>2, <2>3
<1>18. Judged'
  <2>1. ASSUME NEW t \in 1..L
        PROVE  Sound(tasks'[t])
    <3>1. CASE Given(n, t)
      BY <1>11, <3>1 DEF Sound
    <3>2. CASE ~Given(n, t)
      BY <1>10, <3>2 DEF OmInv, Judged
    <3> QED
      BY <3>1, <3>2
  <2> QED
    BY <1>12, <2>1 DEF Judged, Sound, Passes, Awaited
<1>19. Untouched'
  <2>1. ASSUME NEW k \in 1..Len(pending')
        PROVE  tasks'[pending'[k]].worker = {}
    <3>1. PICK m \in 1..Len(pending) : m > n /\ pending'[k] = pending[m]
      BY <1>13
    <3>2. ~Given(n, pending[m])
      <4>1. SUFFICES ASSUME NEW i \in 1..n, pending[i] = pending[m] PROVE FALSE
        BY DEF Given
      <4>2. i \in 1..Len(pending) /\ i # m
        BY <1>3, <1>4, <3>1
      <4> QED
        BY <1>6, <4>1, <4>2 DEF QueuedOnce
    <3>3. pending[m] \in 1..L
      BY <1>3
    <3>4. tasks'[pending[m]] = tasks[pending[m]]
      BY <1>10, <3>2, <3>3
    <3> QED
      BY <3>1, <3>4 DEF OmInv, Untouched
  <2> QED
    BY <2>1 DEF Untouched
<1>20. QueuedOnce'
  BY <1>13 DEF QueuedOnce
<1>21. \A t \in 1..L : tasks'[t].results = tasks[t].results /\ tasks'[t].replicas = tasks[t].replicas
  BY <1>10, <1>11
<1>22. AnswersKnown'
  <2>1. ASSUME NEW t \in 1..L, NEW i \in 1..Len(tasks'[t].results)
        PROVE  tasks'[t].results[i].known => tasks'[t].results[i].worker \in DOMAIN workers
    BY <1>21 DEF OmInv, AnswersKnown
  <2> QED
    BY <1>8, <1>12, <2>1 DEF AnswersKnown
<1>23. \A w : Paid(tasks', w) = Paid(tasks, w)
  <2>1. /\ Len(tasks) \in Nat /\ Len(tasks') \in Nat /\ Len(tasks) <= Len(tasks')
        /\ \A t \in 1..Len(tasks') : t > Len(tasks) => tasks'[t].results = <<>>
    BY <1>3, <1>12
  <2> QED
    BY <1>21, <2>1, PaidSame
<1>24. ASSUME NEW w \in DOMAIN workers PROVE workers'[w].earned = workers[w].earned
  <2>1. workers[w] \in Info
    BY <1>3
  <2> QED
    BY <1>1, <2>1, WorkerTaken, Zenon
<1>25. Earned'
  BY <1>8, <1>23, <1>24 DEF OmInv, Earned
<1> QED
  BY <1>16, <1>17, <1>18, <1>19, <1>20, <1>22, <1>25 DEF OmInv

LEMMA DistributeStep == ASSUME OmInv, distribute PROVE OmInv'
BY DistributeHands, HandsStep

LEMMA SeqOfFunction ==
    ASSUME NEW S, NEW n \in Nat, NEW f \in [1..n -> S]
    PROVE  f \in Seq(S) /\ Len(f) = n
OBVIOUS

AsJudged(job, c, s) == [job EXCEPT !.results = c, !.status = s]

LEMMA JobJudged ==
    ASSUME NEW job \in JobType, NEW c \in Nat, NEW s \in {"computing", "completed"}
    PROVE  AsJudged(job, c, s) \in JobType
BY DEF JobType, AsJudged

Records(ts, us, t, rs, s) ==
  /\ ts \in Seq(TaskType) /\ t \in 1..Len(ts) /\ rs \in Results
  /\ s \in {"pending", "assigned", "verified", "failed"}
  /\ us = [ts EXCEPT ![t].results = rs, ![t].status = s]

LEMMA TaskAnswered ==
    ASSUME NEW ts, NEW us, NEW t, NEW rs, NEW s, Records(ts, us, t, rs, s)
    PROVE  /\ us \in Seq(TaskType) /\ Len(us) = Len(ts)
           /\ \A k \in 1..Len(ts) : k # t => us[k] = ts[k]
           /\ us[t].results = rs /\ us[t].status = s
           /\ us[t].replicas = ts[t].replicas /\ us[t].worker = ts[t].worker
           /\ us[t].given = ts[t].given
<1> USE DEF Records
<1>1. ts[t] \in TaskType /\ ts \in [1..Len(ts) -> TaskType] /\ Len(ts) \in Nat
  OBVIOUS
<1>2. us[t] = [ts[t] EXCEPT !.results = rs, !.status = s]
  BY <1>1
<1>3. \A k \in 1..Len(ts) : k # t => us[k] = ts[k]
  BY <1>1
<1>4. /\ us[t] \in TaskType /\ us[t].results = rs /\ us[t].status = s
      /\ us[t].replicas = ts[t].replicas /\ us[t].worker = ts[t].worker
      /\ us[t].given = ts[t].given
  BY <1>1, <1>2 DEF TaskType
<1>5. us \in [1..Len(ts) -> TaskType]
  <2>1. \A k \in 1..Len(ts) : us[k] \in TaskType
    BY <1>1, <1>3, <1>4
  <2>2. DOMAIN us = 1..Len(ts) /\ us = [k \in DOMAIN us |-> us[k]]
    BY <1>1, Zenon
  <2> QED
    BY <2>1, <2>2, Zenon
<1>6. us \in Seq(TaskType) /\ Len(us) = Len(ts)
  <2>1. \A f \in [1..Len(ts) -> TaskType] : f \in Seq(TaskType) /\ Len(f) = Len(ts)
    BY <1>1, SeqOfFunction
  <2> QED
    BY <1>5, <2>1, Zenon
<1> QED
  BY <1>3, <1>4, <1>6

LEMMA JobAnswered ==
    ASSUME NEW js \in Seq(JobType), NEW j, NEW c, j \in 1..Len(js) => c \in Nat,
           NEW s \in {"computing", "completed"},
           NEW us, us = [js EXCEPT ![j].results = c, ![j].status = s]
    PROVE  us \in Seq(JobType)
<1>1. js \in [1..Len(js) -> JobType] /\ Len(js) \in Nat
  OBVIOUS
<1>2. DOMAIN us = 1..Len(js) /\ us = [k \in DOMAIN us |-> us[k]]
  BY <1>1, Zenon
<1>3. ASSUME NEW k \in 1..Len(js) PROVE us[k] \in JobType
  <2>1. CASE k # j
    BY <1>1, <2>1
  <2>2. CASE k = j
    <3>1. us[j] = AsJudged(js[j], c, s) /\ js[j] \in JobType /\ c \in Nat
      BY <1>1, <2>2 DEF AsJudged
    <3> QED
      BY <2>2, <3>1, JobJudged, Zenon
  <2> QED
    BY <2>1, <2>2
<1>4. us \in [1..Len(js) -> JobType]
  BY <1>2, <1>3, Zenon
<1> QED
  BY <1>1, <1>4, SeqOfFunction, Zenon

\* A verdict that leaves the task verified is one of Ok, and once a task has its
\* answers further ones are judged again: "insufficient" cannot follow.
LEMMA VerdictStatus ==
    ASSUME NEW k \in TaskType, NEW rs \in Results, Len(rs) = Len(k.results) + 1,
           k.status = "verified" => Passes(k),
           NEW v, v = verify(k.replicas, rs)
    PROVE  /\ Status(k, v) \in {"pending", "assigned", "verified", "failed"}
           /\ (Status(k, v) = "verified") <=> (v \in Ok)
<1>1. k.replicas \in Nat /\ k.status \in {"pending", "assigned", "verified", "failed"} /\ Len(k.results) \in Nat
  BY DEF TaskType, Results
<1>2. v \in {"no_verification", "insufficient", "quorum_agreed", "quorum_disagreed"}
  BY DEF verify
<1>3. v = "insufficient" => k.status # "verified"
  <2>1. SUFFICES ASSUME v = "insufficient", Passes(k) PROVE FALSE
    OBVIOUS
  <2>2. k.replicas # 0 /\ Len(rs) < k.replicas
    BY <2>1 DEF verify
  <2>3. verify(k.replicas, k.results) = "insufficient"
    BY <1>1, <2>2 DEF verify
  <2> QED
    BY <2>1, <2>3 DEF Passes, Ok
<1> QED
  BY <1>1, <1>2, <1>3 DEF Status, Ok

LEMMA FreedInfo ==
    ASSUME NEW k \in Info, NEW v
    PROVE  /\ Freed(k, v) \in Info /\ Freed(k, v).available
           /\ Freed(k, v).earned = k.earned + (IF v \in Ok THEN 1 ELSE 0)
BY DEF Info, Freed

Appends(q, a, rs) ==
  q \in Results /\ a \in Answer /\ rs = Append(q, a)

LEMMA AnswerAppended ==
    ASSUME NEW q, NEW a, NEW rs, Appends(q, a, rs)
    PROVE  /\ rs \in Results /\ Len(q) \in Nat /\ Len(rs) = Len(q) + 1 /\ rs # <<>>
           /\ \A i \in 1..Len(rs) : (i \in 1..Len(q) /\ rs[i] = q[i]) \/ rs[i] = a
BY DEF Results, Appends

LEMMA AnswerStep ==
    ASSUME OmInv, NEW w \in Volunteers, NEW t \in 1..Len(tasks), NEW o \in Outputs,
           submit_result(w, t, o)
    PROVE  OmInv'
<1>1. PICK a, rs, v, st, c, s, j :
        /\ a = [worker |-> w, output |-> o, known |-> w \in DOMAIN workers] /\ rs = Append(tasks[t].results, a)
        /\ st = Status(tasks[t], v) /\ v = verify(tasks[t].replicas, rs)
        /\ j = tasks[t].job /\ c = jobs[j].results + 1 /\ s \in {"computing", "completed"}
        /\ tasks' = [tasks EXCEPT ![t].results = rs, ![t].status = st]
        /\ workers' = [m \in DOMAIN workers |->
                          IF m = w THEN Freed(workers[m], v) ELSE workers[m]]
        /\ jobs' = [jobs EXCEPT ![j].results = c, ![j].status = s]
        /\ pending' = pending
  <2> DEFINE r0 == Append(tasks[t].results,
                          [worker |-> w, output |-> o, known |-> w \in DOMAIN workers])
             v0 == verify(tasks[t].replicas, r0)
             j0 == tasks[t].job
             c0 == jobs[j0].results + 1
             s0 == IF c0 >= jobs[j0].size THEN "completed" ELSE "computing"
  <2>1. /\ tasks' = [tasks EXCEPT ![t].results = r0, ![t].status = Status(tasks[t], v0)]
        /\ workers' = [m \in DOMAIN workers |->
                          IF m = w THEN Freed(workers[m], v0) ELSE workers[m]]
        /\ jobs' = [jobs EXCEPT ![j0].results = c0, ![j0].status = s0]
        /\ pending' = pending
    BY Zenon DEF submit_result
  <2>2. s0 \in {"computing", "completed"}
    BY Zenon
  <2> HIDE DEF r0, s0
  <2> QED
    BY <2>1, <2>2, Zenon DEF r0
<1>a. a \in Answer /\ a.worker = w /\ a.known = (w \in DOMAIN workers)
  BY <1>1 DEF Answer
<1>2. /\ tasks \in Seq(TaskType) /\ Len(tasks) \in Nat /\ tasks[t] \in TaskType
      /\ pending \in Seq(1..Len(tasks)) /\ jobs \in Seq(JobType)
      /\ DOMAIN workers \subseteq Volunteers /\ IsFiniteSet(DOMAIN workers)
      /\ workers \in [DOMAIN workers -> Info] /\ w \in Volunteers
  BY DEF OmInv, OmTyped
<1>3. tasks[t].results \in Results
  BY <1>2 DEF TaskType
<1>4. /\ rs \in Results /\ Len(tasks[t].results) \in Nat /\ Len(rs) = Len(tasks[t].results) + 1
      /\ rs # <<>>
      /\ \A i \in 1..Len(rs) : \/ i \in 1..Len(tasks[t].results) /\ rs[i] = tasks[t].results[i]
                               \/ rs[i] = a
  <2>1. Appends(tasks[t].results, a, rs)
    BY <1>1, <1>a, <1>3, Zenon DEF Appends
  <2> QED
    BY <2>1, AnswerAppended
<1>5. /\ st \in {"pending", "assigned", "verified", "failed"}
      /\ (st = "verified") <=> (v \in Ok)
  <2>1. tasks[t].status = "verified" => Passes(tasks[t])
    BY DEF OmInv, Judged, Sound
  <2> QED
    BY <1>1, <1>2, <1>4, <2>1, VerdictStatus, Zenon
<1>6. /\ tasks' \in Seq(TaskType) /\ Len(tasks') = Len(tasks)
      /\ \A k \in 1..Len(tasks) : k # t => tasks'[k] = tasks[k]
      /\ tasks'[t].results = rs /\ tasks'[t].status = st
      /\ tasks'[t].replicas = tasks[t].replicas /\ tasks'[t].worker = tasks[t].worker
      /\ tasks'[t].given = tasks[t].given
  <2>1. Records(tasks, tasks', t, rs, st)
    BY <1>1, <1>2, <1>4, <1>5, Zenon DEF Records
  <2> QED
    BY <2>1, TaskAnswered
<1>7. jobs' \in Seq(JobType)
  <2>1. j \in 1..Len(jobs) => c \in Nat
    <3>1. c = jobs[j].results + 1 /\ jobs \in Seq(JobType)
      BY <1>1, <1>2
    <3>2. j \in 1..Len(jobs) => jobs[j] \in JobType
      BY <3>1
    <3> QED
      BY <3>1, <3>2 DEF JobType
  <2> QED
    BY <1>1, <1>2, <2>1, JobAnswered, Zenon
<1>8. /\ DOMAIN workers' = DOMAIN workers
      /\ w \in DOMAIN workers => workers'[w] = Freed(workers[w], v)
      /\ \A m \in DOMAIN workers : m # w => workers'[m] = workers[m]
  BY <1>1, <1>2
<1>9. w \in DOMAIN workers =>
        /\ workers'[w] \in Info /\ workers'[w].available
        /\ workers'[w].earned = workers[w].earned + (IF v \in Ok THEN 1 ELSE 0)
  BY <1>2, <1>8, FreedInfo
<1>10. OmTyped'
  <2>1. workers' \in [DOMAIN workers -> Info]
    BY <1>1, <1>2, <1>8, <1>9
  <2> QED
    BY <1>1, <1>2, <1>6, <1>7, <1>8, <2>1 DEF OmTyped
<1>11. Occupied'
  <2>1. SUFFICES ASSUME NEW m \in DOMAIN workers, ~workers'[m].available
                 PROVE  \E k \in 1..Len(tasks) : Unanswered(m, k)'
    BY <1>6, <1>8, Zenon DEF Occupied
  <2>2. m # w /\ ~workers[m].available
    BY <1>8, <1>9, <2>1
  <2>3. PICK k \in 1..Len(tasks) : Unanswered(m, k)
    BY <2>2 DEF OmInv, Occupied
  <2>4. Unanswered(m, k)'
    <3>1. CASE k # t
      BY <1>6, <2>3, <3>1 DEF Unanswered
    <3>2. CASE k = t
      <4>1. m \in tasks'[t].worker
        BY <1>6, <2>3, <3>2 DEF Unanswered
      <4>2. ASSUME NEW i \in 1..Len(rs), rs[i].worker = m PROVE i <= tasks[t].given
        BY <1>a, <1>4, <2>2, <2>3, <3>2, <4>2 DEF Unanswered
      <4> QED
        BY <1>6, <3>2, <4>1, <4>2 DEF Unanswered
    <3> QED
      BY <3>1, <3>2
  <2> QED
    BY <2>4
<1>12. Judged'
  <2>1. ASSUME NEW k \in 1..Len(tasks) PROVE Sound(tasks'[k])
    <3>1. CASE k # t
      BY <1>6, <3>1 DEF OmInv, Judged
    <3>2. CASE k = t
      <4>1. (tasks'[t].status = "verified") <=> Passes(tasks'[t])
        BY <1>1, <1>4, <1>5, <1>6, Zenon DEF Passes
      <4>2. tasks[t].given \in Nat /\ tasks[t].given <= Len(tasks[t].results)
        BY <1>2 DEF OmInv, Judged, Sound, TaskType
      <4>3. tasks'[t].given < Len(tasks'[t].results)
        BY <1>4, <1>6, <4>2
      <4> QED
        BY <1>4, <1>6, <3>2, <4>1, <4>2, <4>3 DEF Sound, Awaited
    <3> QED
      BY <3>1, <3>2
  <2> QED
    BY <1>6, <2>1 DEF Judged, Sound, Passes, Awaited
<1>13. ASSUME NEW k \in 1..Len(pending) PROVE tasks'[pending[k]].worker = tasks[pending[k]].worker
  <2>1. pending[k] \in 1..Len(tasks)
    BY <1>2
  <2> QED
    BY <1>6, <2>1
<1>14. (Untouched /\ QueuedOnce)'
  <2>1. pending' = pending
    BY <1>1
  <2> QED
    BY <1>13, <2>1 DEF OmInv, Untouched, QueuedOnce
<1>15. AnswersKnown'
  <2>1. ASSUME NEW k \in 1..Len(tasks), NEW i \in 1..Len(tasks'[k].results)
        PROVE  tasks'[k].results[i].known => tasks'[k].results[i].worker \in DOMAIN workers
    <3>1. CASE k # t
      BY <1>6, <3>1 DEF OmInv, AnswersKnown
    <3>2. CASE k = t
      <4>1. i \in 1..Len(rs) /\ tasks'[k].results[i] = rs[i]
        BY <1>6, <3>2
      <4> QED
        BY <1>a, <1>4, <4>1 DEF OmInv, AnswersKnown
    <3> QED
      BY <3>1, <3>2
  <2> QED
    BY <1>6, <1>8, <2>1 DEF AnswersKnown
<1>16. ASSUME NEW m \in DOMAIN workers
       PROVE  /\ IsFiniteSet(Paid(tasks', m))
              /\ workers'[m].earned = Cardinality(Paid(tasks', m))
  <2> DEFINE e == <<t, Len(tasks[t].results) + 1>>
  <2>1. Paid(tasks', m) = Paid(tasks, m) \cup (IF m = w /\ v \in Ok THEN {e} ELSE {})
    <3>1. /\ tasks'[t].results = Append(tasks[t].results, a)
          /\ v = verify(tasks[t].replicas, tasks'[t].results)
      BY <1>1, <1>6, Zenon
    <3>2. Answers(tasks, tasks', t, a)
      BY <1>2, <1>a, <1>6, <3>1, Zenon DEF Answers
    <3> QED
      <4>1. Paid(tasks', m) = Paid(tasks, m) \cup
              (IF m = a.worker /\ a.known /\ verify(tasks[t].replicas, tasks'[t].results) \in Ok
               THEN {<<t, Len(tasks[t].results) + 1>>} ELSE {})
        BY <3>2, PaidAppend
      <4> QED
        BY <1>a, <3>1, <4>1, Zenon
  <2>2. IsFiniteSet(Paid(tasks, m)) /\ workers[m].earned = Cardinality(Paid(tasks, m))
    BY DEF OmInv, Earned
  <2>3. e \notin Paid(tasks, m)
    BY <1>4, PaidMember
  <2> HIDE DEF e
  <2>4. CASE m = w /\ v \in Ok
    <3>1. Paid(tasks', m) = Paid(tasks, m) \cup {e}
      BY <2>1, <2>4
    <3>2. IsFiniteSet(Paid(tasks', m)) /\ Cardinality(Paid(tasks', m)) = Cardinality(Paid(tasks, m)) + 1
      BY <2>2, <2>3, <3>1, FS_AddElement
    <3> QED
      BY <1>9, <2>2, <2>4, <3>2
  <2>5. CASE ~(m = w /\ v \in Ok)
    <3>1. Paid(tasks', m) = Paid(tasks, m)
      BY <2>1, <2>5
    <3>2. workers'[m].earned = workers[m].earned
      <4>1. workers[m].earned \in Int
        BY <1>2 DEF Info
      <4> QED
        BY <1>8, <1>9, <2>5, <4>1
    <3> QED
      BY <2>2, <3>1, <3>2
  <2> QED
    BY <2>4, <2>5
<1>17. Earned'
  BY <1>8, <1>16 DEF Earned
<1> QED
  BY <1>10, <1>11, <1>12, <1>14, <1>15, <1>17 DEF OmInv

LEMMA OmNextInv == OmInv /\ [OmNext]_omVars => OmInv'
<1> SUFFICES ASSUME OmInv, [OmNext]_omVars PROVE OmInv'
  OBVIOUS
<1>1. CASE Report
  <2>1. PICK n \in Volunteers, load \in Loads : register_node(n, load) \/ update_resources(n, load)
    BY <1>1 DEF Report
  <2>2. CASE register_node(n, load)
    BY <2>2, RegisterStep
  <2>3. CASE update_resources(n, load)
    BY <2>3, ResourcesStep DEF update_resources
  <2> QED
    BY <2>1, <2>2, <2>3
<1>2. ASSUME NEW kind \in JobKinds, submit_job(kind) PROVE OmInv'
  BY <1>2, JobStep
<1>3. CASE distribute
  BY <1>3, DistributeStep
<1>4. CASE AnswerTask
  <2>1. PICK t \in 1..Len(tasks), o \in Outputs, w \in Volunteers : submit_result(w, t, o)
    BY <1>4, Zenon DEF AnswerTask
  <2> QED
    BY <2>1, AnswerStep
<1>5. CASE UNCHANGED omVars
  BY <1>5, ResourcesStep DEF omVars
<1> QED
  BY <1>1, <1>2, <1>3, <1>4, <1>5 DEF OmNext

\* Whatever is registered, submitted, distributed and answered, by whom and in which
\* order: a worker held back has a task it has not answered since it got it, what a
\* worker earned is what its accepted answers pay, a task is verified exactly when its
\* answers pass and it was not given once more since, and a queued task was given to
\* nobody and is queued once (TaskScheduler::assign_next and submit_result,
\* Task::verify).
THEOREM WorkStaysAccounted == OmSpec => []WorkAccounted
<1>1. OmInit => OmInv
  BY OmInitInv
<1>2. OmInv /\ [OmNext]_omVars => OmInv'
  BY OmNextInv
<1>3. OmInv => WorkAccounted
  BY OmInvAccounts
<1> QED
  BY <1>1, <1>2, <1>3, PTL DEF OmSpec

(***************************************************************************)
(* The rules of the strategy game                                          *)
(***************************************************************************)
LEMMA TablesFinite == /\ IsFiniteSet(Players) /\ IsFiniteSet(Everyone) /\ Stake \in Nat
                      /\ ResourceNodes \in Seq([at : Int, amount : Nat])
<1>1. /\ IsFiniteSet(Players) /\ IsFiniteSet(Strangers) /\ Stake \in Nat
      /\ ResourceNodes \in Seq([at : Int, amount : Nat])
  BY GameAssumption, Zenon
<1>2. IsFiniteSet(Players \cup Strangers)
  BY <1>1, FS_Union
<1> QED
  BY <1>1, <1>2, Zenon DEF Everyone

LEMMA PursesNat == Purses \in [Everyone -> Nat]
BY TablesFinite DEF Purses

LEMMA KindFacts ==
    ASSUME NEW kind \in UnitTypes
    PROVE  Cost(kind) \in Nat /\ Hp(kind) \in Nat \ {0} /\ UnitDamage(kind) \in Nat
BY DEF UnitTypes, Cost, Hp, UnitDamage

UnitRec == [owner : Everyone, kind : UnitTypes, hp : Nat]
Armies == UNION {[S -> UnitRec] : S \in SUBSET Nat}
Sites == DOMAIN ResourceNodes
Mined(l) == [i \in Sites |-> ResourceNodes[i].amount - l[i]]

GameRecs == [units : Armies, minerals : [Everyone -> Nat], purse : SUBSET Everyone, next : Nat,
             left : [Sites -> Nat], spent : [Everyone -> Nat], free : Nat]

Books(m, s, l, f) == SumOver(m, Everyone) + SumOver(s, Everyone)
                       = SumOver(Purses, Everyone) + SumOver(Mined(l), Sites) + f
Numbered(us, n) == \A u \in DOMAIN us : u < n /\ us[u].hp <= Hp(us[u].kind)

\* The games whose books balance, before the dead have left.
Balanced == {g \in GameRecs : /\ Numbered(g.units, g.next)
                              /\ Books(g.minerals, g.spent, g.left, g.free)}

LEMMA ArmyFacts ==
    ASSUME NEW us
    PROVE  us \in Armies <=> /\ DOMAIN us \subseteq Nat /\ us = [u \in DOMAIN us |-> us[u]]
                             /\ \A u \in DOMAIN us : us[u] \in UnitRec
<1>1. ASSUME us \in Armies
      PROVE  /\ DOMAIN us \subseteq Nat /\ us = [u \in DOMAIN us |-> us[u]]
             /\ \A u \in DOMAIN us : us[u] \in UnitRec
  <2>1. PICK S \in SUBSET Nat : us \in [S -> UnitRec]
    BY <1>1, Zenon DEF Armies
  <2> QED
    BY <2>1, Zenon
<1>2. ASSUME DOMAIN us \subseteq Nat, us = [u \in DOMAIN us |-> us[u]],
             \A u \in DOMAIN us : us[u] \in UnitRec
      PROVE  us \in Armies
  <2>1. us \in [DOMAIN us -> UnitRec]
    BY <1>2, Zenon
  <2> QED
    BY <1>2, <2>1, Zenon DEF Armies
<1> QED
  BY <1>1, <1>2

\* Two tables over S that differ at x alone.
DifferAt(f, g, S, x) == /\ IsFiniteSet(S) /\ x \in S /\ IntOn(f, S) /\ g[x] \in Int
                        /\ \A y \in S \ {x} : g[y] = f[y]

LEMMA SumDiffers ==
    ASSUME NEW S, NEW x, NEW f, NEW g, DifferAt(f, g, S, x)
    PROVE  SumOver(f, S) \in Int /\ SumOver(g, S) = SumOver(f, S) + g[x] - f[x]
<1>1. S \cup {x} = S /\ x \in S
  BY DEF DifferAt
<1>2. /\ SumOver(f, S) \in Int
      /\ SumOver(g, S \cup {x}) = SumOver(f, S) + g[x] - (IF x \in S THEN f[x] ELSE 0)
  BY SumUpdate DEF DifferAt
<1> QED
  BY <1>1, <1>2

\* A sum over the players, or over the sites, when one entry changes.
LEMMA PurseUpdate ==
    ASSUME NEW m \in [Everyone -> Nat], NEW p \in Everyone, NEW x \in Nat
    PROVE  /\ [m EXCEPT ![p] = x] \in [Everyone -> Nat]
           /\ SumOver(m, Everyone) \in Int
           /\ SumOver([m EXCEPT ![p] = x], Everyone) = SumOver(m, Everyone) + x - m[p]
<1> DEFINE k == [m EXCEPT ![p] = x]
<1>1. k \in [Everyone -> Nat] /\ k[p] = x /\ \A y \in Everyone \ {p} : k[y] = m[y]
  OBVIOUS
<1> HIDE DEF k
<1>2. DifferAt(m, k, Everyone, p)
  BY <1>1, TablesFinite DEF DifferAt, IntOn
<1>3. SumOver(m, Everyone) \in Int /\ SumOver(k, Everyone) = SumOver(m, Everyone) + k[p] - m[p]
  BY <1>2, SumDiffers
<1> QED
  BY <1>1, <1>3 DEF k

LEMMA SitesFinite == IsFiniteSet(Sites) /\ Sites \subseteq Nat
                     /\ \A i \in Sites : ResourceNodes[i].amount \in Nat /\ ResourceNodes[i].at \in Int
<1>1. ResourceNodes \in Seq([at : Int, amount : Nat])
  BY TablesFinite, Zenon
<1>2. Sites = 1..Len(ResourceNodes) /\ Len(ResourceNodes) \in Nat
  BY <1>1 DEF Sites
<1>3. IsFiniteSet(1..Len(ResourceNodes))
  BY <1>2, FS_Interval
<1>4. \A i \in Sites : ResourceNodes[i] \in [at : Int, amount : Nat]
  BY <1>1, <1>2, ElementOfSeq
<1> QED
  BY <1>2, <1>3, <1>4

LEMMA MinedUpdate ==
    ASSUME NEW l \in [Sites -> Nat], NEW i \in Sites, NEW x \in Nat
    PROVE  /\ [l EXCEPT ![i] = x] \in [Sites -> Nat]
           /\ SumOver(Mined(l), Sites) \in Int
           /\ SumOver(Mined([l EXCEPT ![i] = x]), Sites) = SumOver(Mined(l), Sites) + l[i] - x
<1> DEFINE k == Mined([l EXCEPT ![i] = x])
           f == Mined(l)
<1>1. k[i] = ResourceNodes[i].amount - x /\ f[i] = ResourceNodes[i].amount - l[i]
  BY DEF Mined
<1>2. \A y \in Sites \ {i} : k[y] = f[y]
  BY DEF Mined
<1>3. IntOn(f, Sites)
  BY SitesFinite DEF IntOn, Mined
<1>4. k[i] \in Int /\ f[i] \in Int /\ ResourceNodes[i].amount \in Int
  BY <1>1, SitesFinite
<1> HIDE DEF k, f
<1>5. DifferAt(f, k, Sites, i)
  BY <1>2, <1>3, <1>4, SitesFinite DEF DifferAt
<1>6. SumOver(f, Sites) \in Int /\ SumOver(k, Sites) = SumOver(f, Sites) + k[i] - f[i]
  BY <1>5, SumDiffers
<1>7. SumOver(k, Sites) = SumOver(f, Sites) + l[i] - x
  BY <1>1, <1>4, <1>6
<1> QED
  BY <1>6, <1>7 DEF k, f

LEMMA MinedInt ==
    ASSUME NEW l \in [Sites -> Nat]
    PROVE  SumOver(Mined(l), Sites) \in Int
<1>1. IntOn(Mined(l), Sites) /\ IsFiniteSet(Sites)
  BY SitesFinite DEF IntOn, Mined
<1> QED
  BY <1>1, SumSplit

LEMMA PurseInt ==
    ASSUME NEW m \in [Everyone -> Nat]
    PROVE  SumOver(m, Everyone) \in Int
<1>1. IntOn(m, Everyone) /\ IsFiniteSet(Everyone)
  BY TablesFinite DEF IntOn
<1> QED
  BY <1>1, SumSplit


(* The commands keep the books. *)
Tables(U, M, w, n, L, S, F) == [units |-> U, minerals |-> M, purse |-> w, next |-> n, left |-> L, spent |-> S, free |-> F]

LEMMA BalancedTables ==
    ASSUME NEW U \in Armies, NEW M \in [Everyone -> Nat], NEW w \in SUBSET Everyone, NEW n \in Nat, NEW L \in [Sites -> Nat],
           NEW S \in [Everyone -> Nat], NEW F \in Nat,
           Numbered(U, n), Books(M, S, L, F)
    PROVE  Tables(U, M, w, n, L, S, F) \in Balanced
BY DEF Tables, Balanced, GameRecs

LEMMA BalancedFields ==
    ASSUME NEW g \in Balanced
    PROVE  /\ g.units \in Armies /\ g.minerals \in [Everyone -> Nat] /\ g.purse \subseteq Everyone /\ g.next \in Nat
           /\ g.left \in [Sites -> Nat] /\ g.spent \in [Everyone -> Nat] /\ g.free \in Nat
           /\ Numbered(g.units, g.next) /\ Books(g.minerals, g.spent, g.left, g.free)
           /\ g = Tables(g.units, g.minerals, g.purse, g.next, g.left, g.spent, g.free)
BY DEF Tables, Balanced, GameRecs

Enlisted(g, p, kind) == [u \in DOMAIN g.units \cup {g.next} |->
                            IF u = g.next THEN Unit(p, kind) ELSE g.units[u]]

LEMMA SpawnTables ==
    ASSUME NEW g \in Balanced, NEW p \in Everyone, NEW kind, Afford(g, p, kind)
    PROVE  spawn_unit(g, p, kind)
             = Tables(Enlisted(g, p, kind), [g.minerals EXCEPT ![p] = @ - Charge(g, p, kind)], g.purse, g.next + 1,
                      g.left, [g.spent EXCEPT ![p] = @ + Charge(g, p, kind)], g.free)
<1>1. g = Tables(g.units, g.minerals, g.purse, g.next, g.left, g.spent, g.free)
  BY BalancedFields, Zenon
<1> QED
  BY <1>1 DEF spawn_unit, Tables, Enlisted

LEMMA EnlistedArmy ==
    ASSUME NEW g \in Balanced, NEW p \in Everyone, NEW kind \in UnitTypes
    PROVE  Enlisted(g, p, kind) \in Armies /\ Numbered(Enlisted(g, p, kind), g.next + 1)
<1> DEFINE us == g.units
           k == Enlisted(g, p, kind)
<1>1. g.next \in Nat /\ us \in Armies /\ Numbered(us, g.next)
  BY BalancedFields, Zenon
<1>2. DOMAIN us \subseteq Nat /\ \A u \in DOMAIN us : us[u] \in UnitRec
  BY <1>1, ArmyFacts, Zenon
<1>3. Unit(p, kind) \in UnitRec /\ Unit(p, kind).hp = Hp(kind) /\ Unit(p, kind).kind = kind
      /\ Hp(kind) \in Nat
  BY KindFacts DEF Unit, UnitRec
<1>4. DOMAIN k = DOMAIN us \cup {g.next} /\ k = [u \in DOMAIN k |-> k[u]]
  BY DEF Enlisted
<1>5. \A u \in DOMAIN k : (u = g.next /\ k[u] = Unit(p, kind)) \/ (u \in DOMAIN us /\ k[u] = us[u])
  BY DEF Enlisted
<1> HIDE DEF k
<1>6. DOMAIN k \subseteq Nat /\ \A u \in DOMAIN k : k[u] \in UnitRec
  BY <1>1, <1>2, <1>3, <1>4, <1>5, Zenon
<1>7. k \in Armies
  BY <1>4, <1>6, ArmyFacts, Zenon
<1>8. Numbered(k, g.next + 1)
  <2> SUFFICES ASSUME NEW u \in DOMAIN k
               PROVE  u < g.next + 1 /\ k[u].hp <= Hp(k[u].kind)
    BY DEF Numbered
  <2>1. CASE u = g.next /\ k[u] = Unit(p, kind)
    BY <1>1, <1>3, <2>1
  <2>2. CASE u \in DOMAIN us /\ k[u] = us[u]
    BY <1>1, <1>2, <2>2 DEF Numbered
  <2> QED
    BY <1>5, <2>1, <2>2
<1> QED
  BY <1>7, <1>8 DEF k

LEMMA SpawnBalanced ==
    ASSUME NEW g \in Balanced, NEW p \in Everyone, NEW kind \in UnitTypes
    PROVE  spawn_unit(g, p, kind) \in Balanced
<1>1. CASE ~Afford(g, p, kind)
  BY <1>1 DEF spawn_unit
<1>2. CASE Afford(g, p, kind)
  <2> DEFINE c == Charge(g, p, kind)
             m == g.minerals
             s == g.spent
             M == [m EXCEPT ![p] = m[p] - c]
             S == [s EXCEPT ![p] = s[p] + c]
  <2>1. /\ m \in [Everyone -> Nat] /\ g.purse \subseteq Everyone /\ s \in [Everyone -> Nat] /\ g.next \in Nat
        /\ g.left \in [Sites -> Nat] /\ g.free \in Nat /\ Books(m, s, g.left, g.free)
    BY BalancedFields, Zenon
  <2>2. c \in Nat /\ m[p] \in Nat /\ s[p] \in Nat /\ m[p] >= c
    BY <1>2, <2>1, KindFacts DEF Afford, Charge
  <2> HIDE DEF c
  <2>3. m[p] - c \in Nat /\ s[p] + c \in Nat /\ g.next + 1 \in Nat
    BY <2>1, <2>2
  <2> HIDE DEF m, s
  <2>4. /\ M \in [Everyone -> Nat] /\ SumOver(m, Everyone) \in Int
        /\ SumOver(M, Everyone) = SumOver(m, Everyone) + (m[p] - c) - m[p]
    BY <2>1, <2>3, PurseUpdate
  <2>5. /\ S \in [Everyone -> Nat] /\ SumOver(s, Everyone) \in Int
        /\ SumOver(S, Everyone) = SumOver(s, Everyone) + (s[p] + c) - s[p]
    BY <2>1, <2>3, PurseUpdate
  <2> HIDE DEF M, S
  <2>6. SumOver(M, Everyone) + SumOver(S, Everyone) = SumOver(m, Everyone) + SumOver(s, Everyone)
    BY <2>2, <2>4, <2>5
  <2>7. Books(M, S, g.left, g.free)
    BY <2>1, <2>6 DEF Books
  <2>8. Tables(Enlisted(g, p, kind), M, g.purse, g.next + 1, g.left, S, g.free) \in Balanced
    BY <2>1, <2>3, <2>4, <2>5, <2>7, EnlistedArmy, BalancedTables
  <2> QED
    BY <1>2, <2>8, SpawnTables DEF M, S, m, s, c
<1> QED
  BY <1>1, <1>2

LEMMA ProduceBalanced ==
    ASSUME NEW g \in Balanced, NEW p \in Everyone, NEW u, NEW kind \in UnitTypes
    PROVE  Produce(g, p, u, kind) \in Balanced
BY SpawnBalanced DEF Produce


LEMMA AttackBalanced ==
    ASSUME NEW g \in Balanced, NEW p \in Everyone, NEW u, NEW v
    PROVE  Attack(g, p, u, v) \in Balanced
<1>1. CASE ~Owns(g, p, u) \/ v \notin DOMAIN g.units
  BY <1>1 DEF Attack
<1>2. CASE Owns(g, p, u) /\ v \in DOMAIN g.units
  <2> DEFINE us == g.units
             d == UnitDamage(us[u].kind)
             x == Max({0, us[v].hp - d})
             hit == [us[v] EXCEPT !.hp = x]
             k == [us EXCEPT ![v] = hit]
  <2>1. /\ us \in Armies /\ g.minerals \in [Everyone -> Nat] /\ g.purse \subseteq Everyone /\ g.next \in Nat
        /\ g.left \in [Sites -> Nat] /\ g.spent \in [Everyone -> Nat] /\ g.free \in Nat
        /\ Numbered(us, g.next) /\ Books(g.minerals, g.spent, g.left, g.free)
        /\ g = Tables(us, g.minerals, g.purse, g.next, g.left, g.spent, g.free)
    BY BalancedFields, Zenon
  <2>2. /\ DOMAIN us \subseteq Nat /\ us = [y \in DOMAIN us |-> us[y]]
        /\ \A y \in DOMAIN us : us[y] \in UnitRec
    BY <2>1, ArmyFacts, Zenon
  <2>3. u \in DOMAIN us /\ v \in DOMAIN us
    BY <1>2 DEF Owns
  <2>4. us[u] \in UnitRec /\ us[v] \in UnitRec
    BY <2>2, <2>3, Zenon
  <2>5. Attack(g, p, u, v) = Tables(k, g.minerals, g.purse, g.next, g.left, g.spent, g.free)
    <3>1. Attack(g, p, u, v) = [g EXCEPT !.units = k]
      BY <1>2, <2>1, <2>3 DEF Attack, Tables
    <3> HIDE DEF k
    <3> QED
      BY <2>1, <3>1 DEF Tables
  <2>6. d \in Nat
    BY <2>4, KindFacts DEF UnitRec
  <2>7. us[v].hp \in Nat /\ Hp(us[v].kind) \in Nat /\ us[v].hp <= Hp(us[v].kind)
    BY <2>1, <2>3, <2>4, KindFacts DEF UnitRec, Numbered
  <2> HIDE DEF d
  <2>8. us[v].hp - d \in Int
    BY <2>6, <2>7
  <2>9. x = IF 0 >= us[v].hp - d THEN 0 ELSE us[v].hp - d
    <3> DEFINE h == us[v].hp - d
    <3>1. h \in Int
      BY <2>8
    <3> HIDE DEF h
    <3>2. Max({0, h}) = IF 0 >= h THEN 0 ELSE h
      BY <3>1, MaxOfTwo
    <3> QED
      BY <3>2 DEF h
  <2>10. x \in Nat /\ x <= Hp(us[v].kind)
    BY <2>6, <2>7, <2>9
  <2> HIDE DEF x
  <2>11. hit \in UnitRec /\ hit.hp = x /\ hit.kind = us[v].kind
    BY <2>4, <2>10 DEF UnitRec
  <2> HIDE DEF hit
  <2>12. DOMAIN k = DOMAIN us /\ k = [y \in DOMAIN k |-> k[y]]
    BY <2>2
  <2>13. k[v] = hit /\ \A y \in DOMAIN us : y # v => k[y] = us[y]
    BY <2>3
  <2> HIDE DEF k
  <2>14. \A y \in DOMAIN k : k[y] \in UnitRec
    BY <2>2, <2>11, <2>12, <2>13, Zenon
  <2>15. k \in Armies
    BY <2>2, <2>12, <2>14, ArmyFacts, Zenon
  <2>16. Numbered(k, g.next)
    <3> SUFFICES ASSUME NEW y \in DOMAIN k
                 PROVE  y < g.next /\ k[y].hp <= Hp(k[y].kind)
      BY DEF Numbered
    <3>1. y \in DOMAIN us
      BY <2>12, Zenon
    <3>2. y < g.next /\ us[y].hp <= Hp(us[y].kind)
      BY <2>1, <3>1 DEF Numbered
    <3>3. CASE y = v
      BY <2>10, <2>11, <2>13, <3>2, <3>3
    <3>4. CASE y # v
      BY <2>13, <3>1, <3>2, <3>4
    <3> QED
      BY <3>3, <3>4
  <2>17. Tables(k, g.minerals, g.purse, g.next, g.left, g.spent, g.free) \in Balanced
    BY <2>1, <2>15, <2>16, BalancedTables
  <2> QED
    BY <2>5, <2>17
<1> QED
  BY <1>1, <1>2

\* There is a nearest node whenever one is in range.
LEMMA AwayNat ==
    ASSUME NEW i \in Sites, NEW spot \in Int
    PROVE  Away(i, spot) \in Nat
<1>1. ResourceNodes[i].at - spot \in Int /\ spot - ResourceNodes[i].at \in Int
      /\ ResourceNodes[i].at \in Int
  BY SitesFinite
<1>2. Away(i, spot) = IF ResourceNodes[i].at - spot >= spot - ResourceNodes[i].at
                      THEN ResourceNodes[i].at - spot ELSE spot - ResourceNodes[i].at
  BY <1>1, MaxOfTwo DEF Away
<1> QED
  BY <1>1, <1>2

LEMMA NearestInRange ==
    ASSUME NEW g, NEW spot \in Int, Range5(g, spot) # {}
    PROVE  Nearest(g, spot) \in Sites /\ g.left[Nearest(g, spot)] > 0
<1> DEFINE R == Range5(g, spot)
           D == {Away(i, spot) : i \in R}
<1>1. R \subseteq Sites /\ \A i \in R : g.left[i] > 0
  BY DEF Range5, Sites
<1>2. \A i \in R : Away(i, spot) \in Nat
  BY <1>1, AwayNat
<1>3. R # {}
  OBVIOUS
<1> HIDE DEF R
<1>4. D \in SUBSET Nat /\ D # {}
  BY <1>2, <1>3
<1>5. PICK d \in D : \A y \in D : d <= y
  BY <1>4, LeastNat
<1> DEFINE N == {i \in R : Away(i, spot) = d}
<1>6. N \in SUBSET Nat /\ N # {}
  BY <1>1, <1>5, SitesFinite
<1>7. PICK n \in N : \A y \in N : n <= y
  BY <1>6, LeastNat
<1>8. n \in R /\ Away(n, spot) = d
  BY <1>7
<1>9. \A j \in R : Away(n, spot) < Away(j, spot) \/ (Away(n, spot) = Away(j, spot) /\ n <= j)
  <2> SUFFICES ASSUME NEW j \in R
               PROVE  Away(n, spot) < Away(j, spot) \/ (Away(n, spot) = Away(j, spot) /\ n <= j)
    OBVIOUS
  <2>1. Away(j, spot) \in D /\ Away(j, spot) \in Nat /\ d \in Nat
    BY <1>2, <1>4, <1>5
  <2>2. d <= Away(j, spot)
    BY <1>5, <2>1
  <2>3. Away(j, spot) = d => n <= j
    BY <1>7
  <2> HIDE DEF D, N
  <2> QED
    BY <1>8, <2>1, <2>2, <2>3
<1>10. Nearest(g, spot) \in R
  BY <1>8, <1>9, Zenon DEF Nearest, R
<1> QED
  BY <1>1, <1>10

LEMMA GatherBalanced ==
    ASSUME NEW g \in Balanced, NEW p \in Everyone, NEW u, NEW spot \in Int
    PROVE  Gather(g, p, u, spot) \in Balanced
<1> DEFINE m == g.minerals
           l == g.left
<1>1. /\ g.units \in Armies /\ m \in [Everyone -> Nat] /\ g.purse \subseteq Everyone /\ g.next \in Nat
      /\ l \in [Sites -> Nat] /\ g.spent \in [Everyone -> Nat] /\ g.free \in Nat
      /\ Numbered(g.units, g.next) /\ Books(m, g.spent, l, g.free)
      /\ g = Tables(g.units, m, g.purse, g.next, l, g.spent, g.free)
  BY BalancedFields, Zenon
<1>2. SumOver(g.spent, Everyone) \in Int /\ SumOver(Purses, Everyone) \in Int /\ SumOver(Mined(l), Sites) \in Int
  <2>1. Purses \in [Everyone -> Nat]
    BY PursesNat
  <2> QED
    BY <1>1, <2>1, PurseInt, MinedInt
<1>3. CASE ~(Owns(g, p, u) /\ g.units[u].kind = "worker")
  BY <1>3 DEF Gather
<1>4. CASE Owns(g, p, u) /\ g.units[u].kind = "worker" /\ Range5(g, spot) = {}
  <2> DEFINE M == [m EXCEPT ![p] = m[p] + 10]
  <2>1. Gather(g, p, u, spot) = Tables(g.units, M, g.purse \cup {p}, g.next, l, g.spent, g.free + 10)
    BY <1>1, <1>4 DEF Gather, Tables
  <2>2. m[p] \in Nat /\ m[p] + 10 \in Nat /\ g.free + 10 \in Nat
    BY <1>1
  <2> HIDE DEF m
  <2>3. /\ M \in [Everyone -> Nat] /\ SumOver(m, Everyone) \in Int
        /\ SumOver(M, Everyone) = SumOver(m, Everyone) + (m[p] + 10) - m[p]
    BY <1>1, <2>2, PurseUpdate
  <2> HIDE DEF M
  <2>4. Books(M, g.spent, l, g.free + 10)
    BY <1>1, <1>2, <2>2, <2>3 DEF Books
  <2>5. Tables(g.units, M, g.purse \cup {p}, g.next, l, g.spent, g.free + 10) \in Balanced
    BY <1>1, <2>2, <2>3, <2>4, BalancedTables
  <2> QED
    BY <2>1, <2>5
<1>5. CASE Owns(g, p, u) /\ g.units[u].kind = "worker" /\ Range5(g, spot) # {}
  <2> DEFINE i == Nearest(g, spot)
             d == Drain(g, i)
             M == [m EXCEPT ![p] = m[p] + d]
             r == l[i] - d
             L == [l EXCEPT ![i] = r]
  <2>1. Gather(g, p, u, spot) = Tables(g.units, M, g.purse \cup {p}, g.next, L, g.spent, g.free)
    <3>1. Gather(g, p, u, spot) = [g EXCEPT !.left[i] = @ - d, !.minerals[p] = @ + d, !.purse = @ \cup {p}]
      BY <1>5 DEF Gather
    <3> HIDE DEF d, i
    <3> QED
      BY <1>1, <3>1 DEF Tables
  <2>2. i \in Sites /\ l[i] > 0
    BY <1>5, NearestInRange
  <2> HIDE DEF i
  <2>3. l[i] \in Nat /\ m[p] \in Nat
    BY <1>1, <2>2
  <2>4. d = IF 10 <= l[i] THEN 10 ELSE l[i]
    BY <2>3, MinOfTwo DEF Drain
  <2> HIDE DEF d
  <2>5. d \in Nat /\ m[p] + d \in Nat /\ l[i] - d \in Nat
    BY <2>3, <2>4
  <2> HIDE DEF m, l
  <2>6. /\ M \in [Everyone -> Nat] /\ SumOver(m, Everyone) \in Int
        /\ SumOver(M, Everyone) = SumOver(m, Everyone) + (m[p] + d) - m[p]
    BY <1>1, <2>5, PurseUpdate
  <2>7. L \in [Sites -> Nat] /\ SumOver(Mined(L), Sites) = SumOver(Mined(l), Sites) + l[i] - r
    <3>1. l \in [Sites -> Nat] /\ r \in Nat
      BY <1>1, <2>5
    <3> HIDE DEF r
    <3> QED
      BY <2>2, <3>1, MinedUpdate
  <2> HIDE DEF M, L
  <2>8. Books(M, g.spent, L, g.free)
    BY <1>1, <1>2, <2>3, <2>5, <2>6, <2>7 DEF Books
  <2>9. Tables(g.units, M, g.purse \cup {p}, g.next, L, g.spent, g.free) \in Balanced
    BY <1>1, <2>6, <2>7, <2>8, BalancedTables
  <2> QED
    BY <2>1, <2>9
<1> QED
  BY <1>3, <1>4, <1>5


LEMMA CommandBalanced ==
    ASSUME NEW g \in Balanced, NEW p \in Everyone, NEW o \in Orders
    PROVE  execute_command(g, p, o) \in Balanced
<1>1. UnitKinds \subseteq UnitTypes /\ Spots \subseteq Int
  BY GameAssumption, Zenon
<1>2. CASE o \in {[do |-> "stop"]}
  BY <1>2 DEF execute_command
<1>3. CASE o \in {[do |-> "build", kind |-> k] : k \in UnitKinds}
  <2>1. PICK k \in UnitKinds : o = [do |-> "build", kind |-> k]
    BY <1>3
  <2>2. execute_command(g, p, o) = spawn_unit(g, p, k)
    BY <2>1 DEF execute_command
  <2> QED
    BY <1>1, <2>2, SpawnBalanced
<1>4. CASE o \in {[do |-> "produce", unit |-> u, kind |-> k] : u \in DOMAIN units, k \in UnitKinds}
  <2>1. PICK u \in DOMAIN units, k \in UnitKinds : o = [do |-> "produce", unit |-> u, kind |-> k]
    BY <1>4
  <2>2. execute_command(g, p, o) = Produce(g, p, u, k)
    BY <2>1 DEF execute_command
  <2> QED
    BY <1>1, <2>2, ProduceBalanced
<1>5. CASE o \in {[do |-> "attack", unit |-> u, target |-> v] : u \in DOMAIN units, v \in 1..next}
  <2>1. PICK u \in DOMAIN units, v \in 1..next : o = [do |-> "attack", unit |-> u, target |-> v]
    BY <1>5
  <2>2. execute_command(g, p, o) = Attack(g, p, u, v)
    BY <2>1 DEF execute_command
  <2> QED
    BY <2>2, AttackBalanced
<1>6. CASE o \in {[do |-> "gather", unit |-> u, spot |-> s] : u \in DOMAIN units, s \in Spots}
  <2>1. PICK u \in DOMAIN units, s \in Spots : o = [do |-> "gather", unit |-> u, spot |-> s]
    BY <1>6
  <2>2. execute_command(g, p, o) = Gather(g, p, u, s)
    BY <2>1 DEF execute_command
  <2> QED
    BY <1>1, <2>2, GatherBalanced
<1> QED
  BY <1>2, <1>3, <1>4, <1>5, <1>6 DEF Orders

\* A turn's commands: each is an order of one of its commanders.
LEMMA CommandsOfSome ==
    ASSUME NEW ps \in SUBSET Everyone, NEW f \in [ps -> Orders]
    PROVE  /\ Len(Commands(f)) \in Nat
           /\ \A i \in 1 .. Len(Commands(f)) : Commands(f)[i][1] \in Everyone /\ Commands(f)[i][2] \in Orders
<1> DEFINE n == Cardinality(ps)
           q == SetToSeq(ps)
<1>1. n \in Nat /\ ExistsBijection(1 .. n, ps)
  BY TablesFinite, FS_Subset, FS_CardinalityType
<1>2. \E h \in [1 .. n -> ps] : IsInjective(h)
  BY <1>1, Zenon DEF ExistsBijection, Bijection, Injection
<1>3. q \in [1 .. n -> ps]
  BY <1>2, Zenon DEF SetToSeq
<1>4. Commands(f) = [i \in 1 .. n |-> <<q[i], f[q[i]]>>]
  BY <1>3 DEF Commands
<1> HIDE DEF q, n
<1>5. Len(Commands(f)) = n
  BY <1>1, <1>4
<1> QED
  BY <1>1, <1>3, <1>4, <1>5

LEMMA TurnBalanced ==
    ASSUME NEW q, Len(q) \in Nat, Game \in Balanced,
           \A i \in 1 .. Len(q) : q[i][1] \in Everyone /\ q[i][2] \in Orders
    PROVE  Executed(q) \in Balanced
<1> DEFINE n == Len(q)
           Run(a, i) == execute_command(a, q[i][1], q[i][2])
           rule == [i \in Nat \ {0} |-> [a \in Balanced |-> IF i \in 1 .. n THEN Run(a, i) ELSE a]]
           Is(f) == f = [i \in 0 .. Len(q) |->
                           IF i = 0 THEN Game
                           ELSE execute_command(f[i - 1], q[i][1], q[i][2])]
           D == Balanced
           w == Game
<1>1. n \in Nat /\ w \in D
  OBVIOUS
<1>2. ASSUME NEW a \in D, NEW i \in 1 .. n PROVE Run(a, i) \in D
  BY CommandBalanced
<1> HIDE DEF Run, D, w
<1>3. rule \in [Nat \ {0} -> [D -> D]]
  BY <1>2 DEF D
<1>4. ASSUME NEW i \in 1 .. n, NEW a \in D PROVE rule[i][a] = Run(a, i)
  BY <1>1 DEF D
<1> HIDE DEF rule
<1>5. PICK f \in [0 .. n -> D] : Follows(f, rule, w, n)
  BY <1>1, <1>3, PrefixRecursion
<1>6. ASSUME NEW i \in 1 .. n PROVE f[i] = Run(f[i - 1], i)
  <2>1. f[i - 1] \in D
    BY <1>1
  <2> QED
    BY <1>4, <1>5, <2>1 DEF Follows
<1>7. Is(f)
  <2>1. \A i \in 0 .. n : i = 0 \/ i \in 1 .. n
    BY <1>1
  <2> QED
    BY <1>5, <1>6, <2>1 DEF Follows, Run, w
<1> DEFINE g == CHOOSE h : Is(h)
<1>8. Is(g)
  <2> HIDE DEF Is
  <2> QED BY <1>7, Zenon DEF g
<1>9. Executed(q) = g[n]
  BY DEF Executed
<1> HIDE DEF g
<1>10. g[0] = w /\ \A i \in 1 .. n : g[i] = Run(g[i - 1], i)
  BY <1>1, <1>8 DEF Run, w
<1> HIDE DEF Is
<1>11. g[n] = f[n]
  <2> DEFINE T == {i \in Nat : i <= n => g[i] = f[i]}
  <2>1. 0 \in T
    BY <1>5, <1>10 DEF Follows
  <2>2. ASSUME NEW i \in T PROVE i + 1 \in T
    <3> SUFFICES ASSUME i + 1 <= n PROVE g[i + 1] = f[i + 1]
      OBVIOUS
    <3>1. g[i] = f[i] /\ i + 1 \in 1 .. n /\ (i + 1) - 1 = i
      BY <1>1
    <3> QED
      BY <1>6, <1>10, <3>1
  <2>3. T = Nat
    <3> HIDE DEF T
    <3>1. T \in SUBSET Nat
      BY DEF T
    <3> QED
      BY <2>1, <2>2, <3>1, SetInduction
  <2> QED
    BY <1>1, <2>3
<1>12. f[n] \in D
  BY <1>1
<1> QED
  BY <1>9, <1>11, <1>12 DEF D


(* The inductive invariant of the game: its tables are a balanced game, the dead have
   left, and the outcome agrees with who stood when it was decided. *)
Owners == {units[u].owner : u \in DOMAIN units} \cap Players

GameInv ==
    /\ Game \in Balanced
    /\ turn \in Nat
    /\ \A u \in DOMAIN units : units[u].hp > 0
    /\ result \in Players => standing = {result}
    /\ result = Draw => standing = {}
    /\ result = InProgress /\ turn > 0 => Cardinality(Owners) > 1

LEMMA GameFields ==
    ASSUME Game \in Balanced
    PROVE  /\ units \in Armies /\ minerals \in [Everyone -> Nat] /\ purse \subseteq Everyone /\ next \in Nat
           /\ left \in [Sites -> Nat] /\ spent \in [Everyone -> Nat] /\ free \in Nat
           /\ Numbered(units, next) /\ Books(minerals, spent, left, free)
<1> DEFINE g == Game
<1>1. /\ g.units = units /\ g.minerals = minerals /\ g.purse = purse /\ g.next = next
      /\ g.left = left /\ g.spent = spent /\ g.free = free
  BY DEF Game
<1>2. g \in Balanced
  OBVIOUS
<1> HIDE DEF g
<1>3. /\ g.units \in Armies /\ g.minerals \in [Everyone -> Nat] /\ g.purse \subseteq Everyone /\ g.next \in Nat
      /\ g.left \in [Sites -> Nat] /\ g.spent \in [Everyone -> Nat] /\ g.free \in Nat
      /\ Numbered(g.units, g.next) /\ Books(g.minerals, g.spent, g.left, g.free)
  BY <1>2, BalancedFields, Zenon
<1> QED
  BY <1>1, <1>3

LEMMA SumZero ==
    ASSUME NEW S, IsFiniteSet(S)
    PROVE  SumOver([x \in S |-> 0], S) = 0
<1> DEFINE f == [x \in S |-> 0]
           T == {n \in Nat : \A R \in SUBSET S : Cardinality(R) = n => SumOver(f, R) = 0}
<1>1. 0 \in T
  <2> SUFFICES ASSUME NEW R \in SUBSET S, Cardinality(R) = 0 PROVE SumOver(f, R) = 0
    OBVIOUS
  <2>1. IsFiniteSet(R)
    BY FS_Subset
  <2>2. R = {}
    BY <2>1, FS_EmptySet
  <2> QED
    BY <2>2, SumEmpty
<1>2. ASSUME NEW n \in T PROVE n + 1 \in T
  <2> SUFFICES ASSUME NEW R \in SUBSET S, Cardinality(R) = n + 1 PROVE SumOver(f, R) = 0
    OBVIOUS
  <2>1. IsFiniteSet(R) /\ n \in Nat
    BY FS_Subset
  <2>2. R # {}
    BY <2>1, FS_EmptySet
  <2>3. PICK x : x \in R
    BY <2>2
  <2>4. IsFiniteSet(R \ {x}) /\ Cardinality(R \ {x}) = n
    <3> HIDE DEF T
    <3>1. IsFiniteSet(R \ {x}) /\ Cardinality(R \ {x}) = Cardinality(R) - 1
      BY <2>1, <2>3, FS_RemoveElement
    <3> QED
      BY <2>1, <3>1
  <2>5. SumOver(f, R \ {x}) = 0
    BY <2>4
  <2>6. f[x] = 0 /\ IntOn(f, R)
    BY <2>3 DEF IntOn
  <2> HIDE DEF f, T
  <2>7. SumOver(f, R) = f[x] + SumOver(f, R \ {x})
    BY <2>1, <2>3, <2>6, SumSplit
  <2> QED
    BY <2>5, <2>6, <2>7
<1>3. T = Nat
  <2> HIDE DEF T
  <2>1. T \in SUBSET Nat
    BY DEF T
  <2> QED
    BY <1>1, <1>2, <2>1, SetInduction
<1>4. Cardinality(S) \in Nat
  BY FS_CardinalityType
<1> QED
  BY <1>3, <1>4

LEMMA Outcomes == InProgress \notin Players /\ Draw \notin Players /\ InProgress # Draw
<1>1. {"in progress", "draw"} \cap Players = {}
  BY GameAssumption, Zenon
<1>2. InProgress \notin Players /\ Draw \notin Players
  BY <1>1, Zenon DEF InProgress, Draw
<1>3. InProgress # Draw
  BY Zenon DEF InProgress, Draw
<1> QED
  BY <1>2, <1>3

LEMMA GameInitInv == GameInit => GameInv
<1> SUFFICES ASSUME GameInit PROVE GameInv
  OBVIOUS
<1> USE DEF GameInit
<1>1. units \in Armies /\ Numbered(units, next) /\ DOMAIN units = {}
  <2>1. DOMAIN units = {} /\ units = [u \in DOMAIN units |-> units[u]]
    OBVIOUS
  <2>2. units \in Armies
    BY <2>1, ArmyFacts
  <2> QED
    BY <2>1, <2>2 DEF Numbered
<1>2. minerals \in [Everyone -> Nat] /\ spent \in [Everyone -> Nat] /\ left \in [Sites -> Nat]
  BY PursesNat, TablesFinite, SitesFinite DEF Sites
<1>3. SumOver(spent, Everyone) = 0
  BY TablesFinite, SumZero
<1>4. SumOver(Mined(left), Sites) = 0
  <2>1. Mined(left) = [i \in Sites |-> 0]
    BY SitesFinite DEF Mined, Sites
  <2> QED
    BY <2>1, SitesFinite, SumZero
<1>5. Books(minerals, spent, left, free)
  <2>1. SumOver(Purses, Everyone) \in Int /\ minerals = Purses
    BY <1>2, PurseInt
  <2> QED
    BY <1>3, <1>4, <2>1 DEF Books
<1>6. Game \in Balanced
  <2>1. next \in Nat /\ free \in Nat /\ purse \subseteq Everyone
    BY DEF Everyone
  <2>2. Tables(units, minerals, purse, next, left, spent, free) \in Balanced
    BY <1>1, <1>2, <1>5, <2>1, BalancedTables
  <2> QED
    BY <2>2 DEF Tables, Game
<1>7. result = InProgress /\ turn = 0
  OBVIOUS
<1> HIDE DEF GameInit
<1> QED
  BY <1>1, <1>6, <1>7, Outcomes DEF GameInv

LEMMA GameInvSound == GameInv => GameSound
<1> SUFFICES ASSUME GameInv PROVE GameSound
  OBVIOUS
<1>1. /\ units \in Armies /\ minerals \in [Everyone -> Nat] /\ purse \subseteq Everyone /\ next \in Nat
      /\ left \in [Sites -> Nat] /\ spent \in [Everyone -> Nat] /\ free \in Nat
      /\ Numbered(units, next) /\ Books(minerals, spent, left, free)
  BY GameFields, Zenon DEF GameInv
<1>2. ASSUME NEW f PROVE SumOf(f) = SumOver(f, DOMAIN f)
  BY DEF SumOf, SumOver, MapThenSumSet, MapThenFoldSet
<1>3. /\ DOMAIN minerals = Everyone /\ DOMAIN spent = Everyone /\ DOMAIN Purses = Everyone
      /\ DOMAIN Mined(left) = Sites
  BY <1>1 DEF Purses, Mined
<1>4. SumOf(minerals) + SumOf(spent) = SumOf(Purses) + SumOf(Mined(left)) + free
  <2>1. /\ SumOf(minerals) = SumOver(minerals, Everyone) /\ SumOf(spent) = SumOver(spent, Everyone)
        /\ SumOf(Purses) = SumOver(Purses, Everyone) /\ SumOf(Mined(left)) = SumOver(Mined(left), Sites)
    BY <1>2, <1>3, Zenon
  <2> QED
    BY <1>1, <2>1 DEF Books
<1>5. (\A p \in Everyone : minerals[p] >= 0) /\ \A i \in DOMAIN ResourceNodes : left[i] >= 0
  BY <1>1 DEF Sites
<1>6. ASSUME NEW u \in DOMAIN units
      PROVE  u < next /\ units[u].hp \in 1..Hp(units[u].kind)
  <2>1. units[u] \in UnitRec
    BY <1>1, ArmyFacts, Zenon
  <2>2. units[u].hp \in Nat /\ Hp(units[u].kind) \in Nat /\ units[u].hp > 0
    BY <2>1, KindFacts DEF UnitRec, GameInv
  <2>3. u < next /\ units[u].hp <= Hp(units[u].kind)
    BY <1>1 DEF Numbered
  <2> QED
    BY <2>2, <2>3
<1> QED
  BY <1>4, <1>5, <1>6 DEF GameSound, GameInv, Mined, Sites, Owners


LEMMA GameNext ==
    ASSUME NEW g \in Balanced, NEW us \in Armies, Becomes(g), units' = us, Numbered(us, g.next)
    PROVE  Game' \in Balanced
<1>1. /\ g.minerals \in [Everyone -> Nat] /\ g.purse \subseteq Everyone /\ g.next \in Nat
      /\ g.left \in [Sites -> Nat] /\ g.spent \in [Everyone -> Nat] /\ g.free \in Nat
      /\ Books(g.minerals, g.spent, g.left, g.free)
  BY BalancedFields, Zenon
<1>2. Tables(us, g.minerals, g.purse, g.next, g.left, g.spent, g.free) \in Balanced
  BY <1>1, BalancedTables
<1> QED
  BY <1>2 DEF Game, Becomes, Tables

LEMMA SetupStep ==
    ASSUME GameInv, NEW p \in Everyone, NEW kind \in UnitKinds, Setup(p, kind)
    PROVE  GameInv'
<1> DEFINE g == spawn_unit(Game, p, kind)
<1>1. kind \in UnitTypes
  <2>1. UnitKinds \subseteq UnitTypes
    BY GameAssumption, Zenon
  <2> QED
    BY <2>1
<1>2. Game \in Balanced /\ g \in Balanced
  BY <1>1, SpawnBalanced DEF GameInv
<1>3. units' = g.units /\ Becomes(g) /\ turn = 0 /\ turn' = turn /\ result' = result /\ standing' = standing
  BY Zenon DEF Setup
<1>4. \A u \in DOMAIN g.units : g.units[u].hp > 0
  <2>1. \A u \in DOMAIN units : units[u].hp > 0
    BY DEF GameInv
  <2>2. CASE ~Afford(Game, p, kind)
    BY <2>1, <2>2 DEF spawn_unit, Game
  <2>3. CASE Afford(Game, p, kind)
    <3>1. g.units = Enlisted(Game, p, kind)
      BY <1>2, <2>3, SpawnTables DEF Tables
    <3>2. Unit(p, kind).hp > 0
      BY <1>1, KindFacts DEF Unit
    <3>3. Game.units = units
      BY DEF Game
    <3> QED
      BY <2>1, <3>1, <3>2, <3>3 DEF Enlisted
  <2> QED
    BY <2>2, <2>3
<1> HIDE DEF g
<1>5. g.units \in Armies /\ Numbered(g.units, g.next)
  BY <1>2, BalancedFields, Zenon
<1>6. Game' \in Balanced
  BY <1>2, <1>3, <1>5, GameNext
<1> QED
  BY <1>3, <1>4, <1>6 DEF GameInv

\* What process_turn decides.
LEMMA VictoryFacts ==
    ASSUME NEW g \in Balanced, result = InProgress, check_victory(g)
    PROVE  /\ result' \in Players => standing' = {result'}
           /\ result' = Draw => standing' = {}
           /\ result' = InProgress => Cardinality(Alive(g)) > 1
<1> DEFINE A == Alive(g)
           w == CHOOSE p \in Players : p \in A
<1>1. /\ standing' = A
      /\ result' = IF A = {} THEN Draw ELSE IF Cardinality(A) = 1 THEN w ELSE InProgress
  BY DEF check_victory
<1>2. A \subseteq Players
  BY DEF Alive
<1>3. IsFiniteSet(A) /\ Cardinality(A) \in Nat
  BY <1>2, TablesFinite, FS_Subset, FS_CardinalityType
<1>4. A # {} => w \in Players /\ w \in A
  BY <1>2
<1>5. A # {} => Cardinality(A) # 0
  BY <1>3, FS_EmptySet
<1> HIDE DEF A, w
<1>6. CASE A = {}
  BY <1>1, <1>6, Outcomes
<1>7. CASE A # {} /\ Cardinality(A) = 1
  <2>1. \E x : A = {x}
    BY <1>3, <1>7, FS_Singleton
  <2>2. A = {w}
    BY <1>4, <1>7, <2>1
  <2> QED
    BY <1>1, <1>4, <1>7, <2>2, Outcomes
<1>8. CASE A # {} /\ Cardinality(A) # 1
  <2>1. Cardinality(A) > 1
    BY <1>3, <1>5, <1>8
  <2> QED
    BY <1>1, <1>8, <2>1, Outcomes DEF A
<1> QED
  BY <1>6, <1>7, <1>8

LEMMA TurnStep ==
    ASSUME GameInv, NEW ps \in SUBSET Everyone, NEW f \in [ps -> Orders], process_turn(Commands(f))
    PROVE  GameInv'
<1> DEFINE g == Executed(Commands(f))
           us == [u \in Survivors(g) |-> g.units[u]]
<1>1. g \in Balanced
  BY CommandsOfSome, TurnBalanced DEF GameInv
<1>2. /\ Becomes(g) /\ units' = us /\ turn' = turn + 1 /\ check_victory(g)
  BY Zenon DEF process_turn
<1> HIDE DEF g
<1>3. g.units \in Armies /\ Numbered(g.units, g.next)
  BY <1>1, BalancedFields, Zenon
<1>4. DOMAIN g.units \subseteq Nat /\ \A u \in DOMAIN g.units : g.units[u] \in UnitRec
  BY <1>3, ArmyFacts, Zenon
<1>5. /\ DOMAIN us = Survivors(g) /\ us = [u \in DOMAIN us |-> us[u]]
      /\ \A u \in DOMAIN us : us[u] = g.units[u]
  BY Zenon
<1>6. Survivors(g) \subseteq DOMAIN g.units /\ \A u \in Survivors(g) : g.units[u].hp > 0
  BY DEF Survivors
<1>7. us \in Armies
  <2>1. DOMAIN us \subseteq Nat /\ \A u \in DOMAIN us : us[u] \in UnitRec
    BY <1>4, <1>5, <1>6, Zenon
  <2> HIDE DEF us
  <2> QED
    BY <1>5, <2>1, ArmyFacts, Zenon
<1>8. Numbered(us, g.next)
  BY <1>3, <1>5, <1>6 DEF Numbered
<1>9. Game' \in Balanced
  BY <1>1, <1>2, <1>7, <1>8, GameNext
<1>10. \A u \in DOMAIN units' : units'[u].hp > 0
  BY <1>2, <1>5, <1>6
<1>11. Owners' = Alive(g)
  BY <1>2, <1>5 DEF Owners, Alive
<1>12. turn' \in Nat
  BY <1>2 DEF GameInv
<1>13. /\ result' \in Players => standing' = {result'}
       /\ result' = Draw => standing' = {}
       /\ result' = InProgress => Cardinality(Owners') > 1
  <2>1. CASE result = InProgress
    BY <1>1, <1>2, <1>11, <2>1, VictoryFacts
  <2>2. CASE result # InProgress
    BY <1>2, <2>2 DEF check_victory, GameInv
  <2> QED
    BY <2>1, <2>2
<1> QED
  BY <1>9, <1>10, <1>12, <1>13 DEF GameInv

LEMMA GameNextInv ==
    ASSUME GameInv, GameStep \/ UNCHANGED gameVars
    PROVE  GameInv'
<1>1. CASE UNCHANGED gameVars
  BY <1>1 DEF gameVars, GameInv, Game, Owners
<1>2. CASE GameStep
  <2>1. CASE \E p \in Everyone, kind \in UnitKinds : Setup(p, kind)
    BY <2>1, SetupStep
  <2>2. CASE \E ps \in SUBSET Everyone : \E f \in [ps -> Orders] : process_turn(Commands(f))
    BY <2>2, TurnStep
  <2> QED
    BY <1>2, <2>1, <2>2 DEF GameStep
<1> QED
  BY <1>1, <1>2


(***************************************************************************)
(* The epochs and their clocks                                             *)
(***************************************************************************)
Stamps == Nat \X Nat
EpochRec == [by : Bridges, frame : Nat, stamp : Stamps, read : SUBSET Bridges,
             after : SUBSET (Bridges \X Nat)]
Of(E, b) == {e \in E : e.by = b}
Count(E, b) == Cardinality(Of(E, b))
Knows(b, e) == e.by = b \/ b \in e.read

\* The epochs of a node are numbered from zero without a gap, and an epoch follows
\* only epochs that exist.
Numbering(E) ==
    /\ IsFiniteSet(E) /\ E \subseteq EpochRec
    /\ \A e, f \in E : e.by = f.by /\ e.frame = f.frame => e = f
    /\ \A e \in E : e.frame < Count(E, e.by)
    /\ \A e \in E : \A x \in e.after : x[2] < Count(E, x[1])

Causal(E) == \A e, f \in E : <<f.by, f.frame>> \in e.after => Earlier(f.stamp, e.stamp)

\* No clock is behind an epoch its node knows.
Ahead(E, h) == /\ h \in [Bridges -> Stamps]
               /\ \A b \in Bridges : \A e \in E : Knows(b, e) => ~Earlier(h[b], e.stamp)

\* A counter has moved once for an epoch or a delivery at most, so none is near the
\* value at which it saturates.
Counted(E, h, o) ==
    /\ o \in Nat /\ o <= MaxEpochs /\ Cardinality(E) <= MaxEpochs
    /\ \A b \in Bridges : h[b][2] <= Cardinality(E) + o
    /\ \A e \in E : e.stamp[2] <= Cardinality(E) + o

LastOf(n, c) == [i \in 1 .. (IF n <= c THEN n ELSE c) |-> n - (IF n <= c THEN n ELSE c) + i - 1]
KeepsLast(E, k) == k = [b \in Bridges |-> LastOf(Count(E, b), Capacity)]

EpochInv == Numbering(epochs) /\ Causal(epochs) /\ Ahead(epochs, hlc) /\ Counted(epochs, hlc, ops)
            /\ KeepsLast(epochs, kept)

LEMMA ClockBounds == /\ MaxWall \in Nat /\ MaxEpochs \in Nat /\ CounterMax \in Nat
                     /\ 2 * MaxEpochs <= CounterMax /\ Capacity \in Nat \ {0}
BY GameAssumption, Zenon

\* Stamps are totally ordered.
LEMMA StampsOrdered ==
    ASSUME NEW a \in Stamps, NEW b \in Stamps, NEW c \in Stamps
    PROVE  /\ ~Earlier(a, a)
           /\ ~Earlier(b, a) /\ Earlier(b, c) => Earlier(a, c)
           /\ ~Earlier(b, a) /\ ~Earlier(c, b) => ~Earlier(c, a)
           /\ Earlier(a, b) => ~Earlier(b, a)
<1>1. a[1] \in Nat /\ a[2] \in Nat /\ b[1] \in Nat /\ b[2] \in Nat /\ c[1] \in Nat /\ c[2] \in Nat
  BY DEF Stamps
<1> QED
  BY <1>1 DEF Earlier

\* tick and recv move a clock forward while the counters have room.
LEMMA TickedLater ==
    ASSUME NEW h \in Stamps, NEW now \in Nat, h[2] + 1 <= CounterMax
    PROVE  /\ Ticked(h, now) \in Stamps /\ Earlier(h, Ticked(h, now))
           /\ Ticked(h, now)[2] <= h[2] + 1
<1>1. h[1] \in Nat /\ h[2] \in Nat /\ CounterMax \in Nat
  BY ClockBounds DEF Stamps
<1>2. Ticked(h, now) = IF now > h[1] THEN <<now, 0>> ELSE <<h[1], h[2] + 1>>
  BY <1>1 DEF Ticked, Saturated
<1> QED
  BY <1>1, <1>2 DEF Stamps, Earlier

LEMMA MaxOfThree ==
    ASSUME NEW a \in Nat, NEW b \in Nat, NEW c \in Nat
    PROVE  LET x == Max({a, b, c}) IN x \in {a, b, c} /\ x >= a /\ x >= b /\ x >= c
<1>1. \E x \in {a, b, c} : \A y \in {a, b, c} : x >= y
  OBVIOUS
<1>2. Max({a, b, c}) \in {a, b, c} /\ \A y \in {a, b, c} : Max({a, b, c}) >= y
  BY <1>1 DEF Max
<1> QED
  BY <1>2

LEMMA ReceivedLater ==
    ASSUME NEW h \in Stamps, NEW r \in Stamps, NEW now \in Nat, NEW c \in Nat,
           h[2] <= c, r[2] <= c, c + 1 <= CounterMax
    PROVE  LET s == Received(h, r, now)
           IN s \in Stamps /\ Earlier(h, s) /\ Earlier(r, s) /\ s[2] <= c + 1
<1> DEFINE w == Max({now, h[1], r[1]})
           d == Max({h[2], r[2]})
           n == IF h[1] = r[1] THEN d ELSE IF h[1] > r[1] THEN h[2] ELSE r[2]
           s == Received(h, r, now)
<1>1. h[1] \in Nat /\ h[2] \in Nat /\ r[1] \in Nat /\ r[2] \in Nat /\ CounterMax \in Nat
  BY ClockBounds DEF Stamps
<1>2. w \in Nat /\ (w = now \/ w = h[1] \/ w = r[1]) /\ w >= h[1] /\ w >= r[1]
  <2>1. w \in {now, h[1], r[1]} /\ w >= h[1] /\ w >= r[1]
    BY <1>1, MaxOfThree
  <2> QED
    BY <1>1, <2>1
<1>3. d = IF h[2] >= r[2] THEN h[2] ELSE r[2]
  BY <1>1, MaxOfTwo
<1>4. s = IF w > h[1] /\ w > r[1] THEN <<w, 0>> ELSE <<w, Saturated(1 + n)>>
  BY DEF Received
<1> HIDE DEF w, d, s
<1>5. n \in Nat /\ n <= c /\ (h[1] >= r[1] => n >= h[2]) /\ (r[1] >= h[1] => n >= r[2])
  BY <1>1, <1>3
<1> HIDE DEF n
<1>6. Saturated(1 + n) = 1 + n
  BY <1>1, <1>5 DEF Saturated
<1>7. CASE w > h[1] /\ w > r[1]
  BY <1>1, <1>2, <1>4, <1>7 DEF Stamps, Earlier, s
<1>8. CASE ~(w > h[1] /\ w > r[1])
  <2>1. s = <<w, 1 + n>>
    BY <1>4, <1>6, <1>8
  <2> HIDE DEF s
  <2>2. s \in Stamps /\ s[1] = w /\ s[2] = 1 + n /\ s[2] <= c + 1
    BY <1>2, <1>5, <2>1 DEF Stamps
  <2>3. Earlier(h, s) /\ Earlier(r, s)
    BY <1>1, <1>2, <1>5, <1>8, <2>2 DEF Earlier
  <2> QED
    BY <2>2, <2>3 DEF s
<1> QED
  BY <1>7, <1>8


LEMMA CountFacts ==
    ASSUME NEW E, IsFiniteSet(E), NEW b
    PROVE  IsFiniteSet(Of(E, b)) /\ Count(E, b) \in Nat /\ Cardinality(E) \in Nat
<1>1. Of(E, b) \subseteq E
  BY DEF Of
<1> QED
  BY <1>1, FS_Subset, FS_CardinalityType DEF Count

\* A new epoch of b takes the next number.
LEMMA CountAdded ==
    ASSUME NEW E, IsFiniteSet(E), NEW e, e \notin E
    PROVE  LET D == E \cup {e}
           IN /\ IsFiniteSet(D) /\ Cardinality(D) = Cardinality(E) + 1
              /\ Count(D, e.by) = Count(E, e.by) + 1
              /\ \A b : b # e.by => Count(D, b) = Count(E, b)
<1> DEFINE D == E \cup {e}
<1>1. IsFiniteSet(D) /\ Cardinality(D) = Cardinality(E) + 1
  BY FS_AddElement
<1>2. Of(D, e.by) = Of(E, e.by) \cup {e} /\ e \notin Of(E, e.by) /\ IsFiniteSet(Of(E, e.by))
  BY CountFacts DEF Of
<1>3. Count(D, e.by) = Count(E, e.by) + 1
  BY <1>2, FS_AddElement DEF Count
<1>4. \A b : b # e.by => Of(D, b) = Of(E, b)
  BY DEF Of
<1> QED
  BY <1>1, <1>3, <1>4 DEF Count

\* Replacing an element by another that was not there keeps the number.
LEMMA CardReplaced ==
    ASSUME NEW S, IsFiniteSet(S), NEW e \in S, NEW d, d \notin S \ {e}
    PROVE  LET T == (S \ {e}) \cup {d} IN IsFiniteSet(T) /\ Cardinality(T) = Cardinality(S)
<1> DEFINE R == S \ {e}
<1>1. IsFiniteSet(R) /\ Cardinality(R) = Cardinality(S) - 1 /\ Cardinality(S) \in Nat
  BY FS_RemoveElement, FS_CardinalityType
<1>2. d \notin R
  OBVIOUS
<1> HIDE DEF R
<1>3. IsFiniteSet(R \cup {d}) /\ Cardinality(R \cup {d}) = Cardinality(R) + 1
  BY <1>1, <1>2, FS_AddElement
<1> QED
  BY <1>1, <1>3 DEF R

\* An epoch that has been read by one more.
ReadBy(e, b) == [e EXCEPT !.read = @ \cup {b}]

LEMMA ReadByFields ==
    ASSUME NEW e \in EpochRec, NEW b \in Bridges
    PROVE  /\ ReadBy(e, b) \in EpochRec
           /\ ReadBy(e, b).by = e.by /\ ReadBy(e, b).frame = e.frame /\ ReadBy(e, b).stamp = e.stamp
           /\ ReadBy(e, b).after = e.after /\ ReadBy(e, b).read = e.read \cup {b}
BY DEF ReadBy, EpochRec

Reread(E, e, b) == (E \ {e}) \cup {ReadBy(e, b)}

\* Each epoch afterwards is one from before, but for its readers.
LEMMA RereadFacts ==
    ASSUME NEW E, Numbering(E), NEW e \in E, NEW b \in Bridges
    PROVE  LET D == Reread(E, e, b)
           IN /\ IsFiniteSet(D) /\ Cardinality(D) = Cardinality(E)
              /\ \A c : Count(D, c) = Count(E, c)
              /\ \A d \in D : \E f \in E :
                    /\ d.by = f.by /\ d.frame = f.frame /\ d.stamp = f.stamp /\ d.after = f.after
                    /\ d \in EpochRec /\ (d = f \/ (f = e /\ d = ReadBy(e, b)))
                    /\ \A c \in Bridges : Knows(c, d) => Knows(c, f) \/ (c = b /\ f = e)
<1> DEFINE d == ReadBy(e, b)
           D == Reread(E, e, b)
<1>1. /\ e \in EpochRec /\ d \in EpochRec /\ d.by = e.by /\ d.frame = e.frame /\ d.stamp = e.stamp
      /\ d.after = e.after /\ d.read = e.read \cup {b}
  BY ReadByFields DEF Numbering
<1>2. IsFiniteSet(E) /\ E \subseteq EpochRec /\ \A x, y \in E : x.by = y.by /\ x.frame = y.frame => x = y
  BY DEF Numbering
<1> HIDE DEF d
<1>3. d \notin E \ {e}
  BY <1>1, <1>2
<1>4. D = (E \ {e}) \cup {d}
  BY DEF Reread, d
<1> HIDE DEF D
<1>5. IsFiniteSet(D) /\ Cardinality(D) = Cardinality(E)
  BY <1>2, <1>3, <1>4, CardReplaced
<1>6. ASSUME NEW c PROVE Count(D, c) = Count(E, c)
  <2>1. CASE c = e.by
    <3>1. Of(D, c) = (Of(E, c) \ {e}) \cup {d} /\ e \in Of(E, c) /\ d \notin Of(E, c) \ {e}
      BY <1>1, <1>3, <1>4, <2>1 DEF Of
    <3>2. IsFiniteSet(Of(E, c))
      BY <1>2, CountFacts
    <3> QED
      BY <3>1, <3>2, CardReplaced DEF Count
  <2>2. CASE c # e.by
    <3>1. Of(D, c) = Of(E, c)
      BY <1>1, <1>4, <2>2 DEF Of
    <3> QED
      BY <3>1 DEF Count
  <2> QED
    BY <2>1, <2>2
<1>7. ASSUME NEW x \in D
      PROVE  \E f \in E : /\ x.by = f.by /\ x.frame = f.frame /\ x.stamp = f.stamp /\ x.after = f.after
                          /\ x \in EpochRec /\ (x = f \/ (f = e /\ x = d))
                          /\ \A c \in Bridges : Knows(c, x) => Knows(c, f) \/ (c = b /\ f = e)
  <2>1. CASE x \in E \ {e}
    BY <1>2, <2>1
  <2>2. CASE x = d
    <3>1. \A c \in Bridges : Knows(c, x) => Knows(c, e) \/ (c = b /\ e = e)
      BY <1>1, <2>2 DEF Knows
    <3> QED
      BY <1>1, <2>2, <3>1
  <2> QED
    BY <1>4, <2>1, <2>2
<1> QED
  BY <1>5, <1>6, <1>7 DEF D, d

LEMMA RereadNumbering ==
    ASSUME NEW E, Numbering(E), Causal(E), NEW e \in E, NEW b \in Bridges
    PROVE  Numbering(Reread(E, e, b)) /\ Causal(Reread(E, e, b))
<1> DEFINE D == Reread(E, e, b)
<1>1. /\ IsFiniteSet(D) /\ \A c : Count(D, c) = Count(E, c)
  BY RereadFacts
<1>2. \A d \in D : \E f \in E :
         /\ d.by = f.by /\ d.frame = f.frame /\ d.stamp = f.stamp /\ d.after = f.after
         /\ d \in EpochRec /\ (d = f \/ (f = e /\ d = ReadBy(e, b)))
  BY RereadFacts
<1>3. ReadBy(e, b) \in D /\ D = (E \ {e}) \cup {ReadBy(e, b)}
  BY DEF Reread
<1> HIDE DEF D
<1>4. \A d, x \in D : d.by = x.by /\ d.frame = x.frame => d = x
  <2> SUFFICES ASSUME NEW d \in D, NEW x \in D, d.by = x.by, d.frame = x.frame PROVE d = x
    OBVIOUS
  <2>1. PICK f \in E : d.by = f.by /\ d.frame = f.frame /\ (d = f \/ (f = e /\ d = ReadBy(e, b)))
    BY <1>2
  <2>2. PICK y \in E : x.by = y.by /\ x.frame = y.frame /\ (x = y \/ (y = e /\ x = ReadBy(e, b)))
    BY <1>2
  <2>3. f = y
    BY <2>1, <2>2 DEF Numbering
  <2>4. d = e \/ x = e => e = ReadBy(e, b)
    BY <1>3
  <2> QED
    BY <2>1, <2>2, <2>3, <2>4
<1>5. ASSUME NEW d \in D PROVE d \in EpochRec /\ d.frame < Count(D, d.by)
  <2>1. PICK f \in E : d.by = f.by /\ d.frame = f.frame /\ d \in EpochRec
    BY <1>2
  <2> QED
    BY <1>1, <2>1 DEF Numbering
<1>6. ASSUME NEW d \in D, NEW x \in d.after PROVE x[2] < Count(D, x[1])
  <2>1. PICK f \in E : d.after = f.after
    BY <1>2
  <2> QED
    BY <1>1, <2>1 DEF Numbering
<1>7. Numbering(D)
  BY <1>1, <1>4, <1>5, <1>6 DEF Numbering
<1>8. ASSUME NEW d \in D, NEW x \in D, <<x.by, x.frame>> \in d.after PROVE Earlier(x.stamp, d.stamp)
  <2>1. PICK f \in E : d.stamp = f.stamp /\ d.after = f.after
    BY <1>2
  <2>2. PICK y \in E : x.by = y.by /\ x.frame = y.frame /\ x.stamp = y.stamp
    BY <1>2
  <2> QED
    BY <1>8, <2>1, <2>2 DEF Causal
<1> QED
  BY <1>7, <1>8 DEF Causal, D

LEMMA RecvStep ==
    ASSUME EpochInv, NEW b \in Bridges, NEW now \in 0 .. MaxWall, NEW e \in epochs,
           recv_remote_epoch(b, e, now)
    PROVE  EpochInv'
<1>1. PICK E : E = epochs
  OBVIOUS
<1>2. PICK h : h = hlc
  OBVIOUS
<1>3. PICK o : o = ops
  OBVIOUS
<1> DEFINE D == Reread(E, e, b)
           s == Received(h[b], e.stamp, now)
           k == [h EXCEPT ![b] = s]
<1>4. epochs' = D /\ hlc' = k /\ ops' = o + 1 /\ kept' = kept /\ o < MaxEpochs
  BY <1>1, <1>2, <1>3 DEF recv_remote_epoch, Reread, ReadBy
<1>5. Numbering(E) /\ Causal(E) /\ Ahead(E, h) /\ Counted(E, h, o) /\ KeepsLast(E, kept) /\ e \in E
  BY <1>1, <1>2, <1>3 DEF EpochInv
<1>6. Numbering(D) /\ Causal(D)
  BY <1>5, RereadNumbering
<1>7. /\ Cardinality(D) = Cardinality(E) /\ \A c : Count(D, c) = Count(E, c)
      /\ \A d \in D : \E f \in E :
            /\ d.stamp = f.stamp
            /\ \A c \in Bridges : Knows(c, d) => Knows(c, f) \/ (c = b /\ f = e)
  BY <1>5, RereadFacts
<1> DEFINE N == Cardinality(E) + o
<1>8. /\ N \in Nat /\ N + 1 <= CounterMax /\ o \in Nat /\ Cardinality(E) \in Nat /\ now \in Nat
      /\ Cardinality(E) <= MaxEpochs /\ MaxEpochs \in Nat
  <2>1. Cardinality(E) \in Nat
    BY <1>5, FS_CardinalityType DEF Numbering
  <2>2. o \in Nat /\ Cardinality(E) <= MaxEpochs
    BY <1>5 DEF Counted
  <2> QED
    BY <1>4, <2>1, <2>2, ClockBounds
<1>9. h \in [Bridges -> Stamps] /\ e.stamp \in Stamps /\ h[b] \in Stamps
  BY <1>5 DEF Ahead, Numbering, EpochRec
<1>10. h[b][2] <= N /\ e.stamp[2] <= N
  BY <1>5 DEF Counted
<1> HIDE DEF N
<1>11. s \in Stamps /\ Earlier(h[b], s) /\ Earlier(e.stamp, s) /\ s[2] <= N + 1
  BY <1>8, <1>9, <1>10, ReceivedLater
<1> HIDE DEF s, D
<1>12. k \in [Bridges -> Stamps] /\ k[b] = s /\ \A c \in Bridges : c # b => k[c] = h[c]
  BY <1>9, <1>11
<1> HIDE DEF k
<1>13. Ahead(D, k)
  <2> SUFFICES ASSUME NEW c \in Bridges, NEW d \in D, Knows(c, d) PROVE ~Earlier(k[c], d.stamp)
    BY <1>12 DEF Ahead
  <2>1. PICK f \in E : d.stamp = f.stamp /\ (Knows(c, f) \/ (c = b /\ f = e))
    BY <1>7
  <2>2. f.stamp \in Stamps /\ h[c] \in Stamps
    BY <1>5, <1>9 DEF Numbering, EpochRec
  <2>3. CASE c = b /\ f = e
    BY <1>9, <1>11, <1>12, <2>1, <2>3, StampsOrdered
  <2>4. CASE Knows(c, f) /\ c # b
    BY <1>5, <1>12, <2>1, <2>4 DEF Ahead
  <2>5. CASE Knows(c, f) /\ c = b
    <3>1. ~Earlier(h[b], f.stamp)
      BY <1>5, <2>5 DEF Ahead
    <3>2. ~Earlier(s, h[b])
      BY <1>9, <1>11, StampsOrdered
    <3>3. ~Earlier(s, f.stamp)
      BY <1>9, <1>11, <2>2, <3>1, <3>2, StampsOrdered
    <3> QED
      BY <1>12, <2>1, <2>5, <3>3
  <2> QED
    BY <2>1, <2>3, <2>4, <2>5
<1>14. Counted(D, k, o + 1)
  <2>1. o + 1 \in Nat /\ o + 1 <= MaxEpochs /\ Cardinality(D) <= MaxEpochs /\ Cardinality(D) + (o + 1) = N + 1
    BY <1>4, <1>7, <1>8 DEF N
  <2>2. ASSUME NEW c \in Bridges PROVE k[c][2] <= N + 1
    <3>1. h[c][2] <= N /\ h[c][2] \in Nat
      BY <1>5, <1>9 DEF Counted, N, Stamps
    <3> QED
      BY <1>8, <1>11, <1>12, <3>1
  <2>3. ASSUME NEW d \in D PROVE d.stamp[2] <= N + 1
    <3>1. PICK f \in E : d.stamp = f.stamp
      BY <1>7
    <3>2. f.stamp[2] <= N /\ f.stamp[2] \in Nat
      BY <1>5 DEF Counted, N, Numbering, EpochRec, Stamps
    <3> QED
      BY <1>8, <3>1, <3>2
  <2> QED
    BY <2>1, <2>2, <2>3 DEF Counted
<1>15. KeepsLast(D, kept)
  BY <1>5, <1>7, Zenon DEF KeepsLast
<1> QED
  BY <1>4, <1>6, <1>13, <1>14, <1>15 DEF EpochInv


\* push_epoch keeps the last ones.
LEMMA LastPushed ==
    ASSUME NEW n \in Nat
    PROVE  Pushed(LastOf(n, Capacity), n) = LastOf(n + 1, Capacity)
<1> DEFINE c == Capacity
           q == LastOf(n, c)
           r == LastOf(n + 1, c)
<1>1. c \in Nat \ {0}
  BY ClockBounds
<1>2. CASE n < c
  <2>1. q = [i \in 1 .. n |-> i - 1] /\ r = [i \in 1 .. n + 1 |-> i - 1]
    BY <1>1, <1>2 DEF LastOf
  <2>2. /\ q \in Seq(Nat) /\ Len(q) = n /\ r \in Seq(Nat) /\ Len(r) = n + 1
        /\ (\A i \in 1 .. n : q[i] = i - 1) /\ \A i \in 1 .. n + 1 : r[i] = i - 1
    BY <2>1
  <2> HIDE DEF q, r
  <2> DEFINE a == Append(q, n)
  <2>3. Pushed(q, n) = a
    BY <1>1, <1>2, <2>2 DEF Pushed
  <2>4. /\ a \in Seq(Nat) /\ Len(a) = n + 1 /\ a[n + 1] = n
        /\ \A i \in 1 .. n : a[i] = q[i]
    BY <2>2, AppendProperties
  <2> HIDE DEF a
  <2>5. ASSUME NEW i \in 1 .. n + 1 PROVE a[i] = r[i]
    <3>1. i = n + 1 \/ i \in 1 .. n
      OBVIOUS
    <3> QED
      BY <2>2, <2>4, <3>1
  <2>6. a = r
    BY <2>2, <2>4, <2>5, SeqEqual
  <2> QED
    BY <2>3, <2>6 DEF q, r
<1>3. CASE n >= c
  <2>1. /\ q = [i \in 1 .. c |-> n - c + i - 1]
        /\ r = [i \in 1 .. c |-> (n + 1) - c + i - 1]
    BY <1>1, <1>3 DEF LastOf
  <2>2. /\ q \in Seq(Nat) /\ Len(q) = c /\ q # << >> /\ r \in Seq(Nat) /\ Len(r) = c
        /\ (\A i \in 1 .. c : q[i] = n - c + i - 1) /\ \A i \in 1 .. c : r[i] = n - c + i
    <3>1. \A i \in 1 .. c : n - c + i - 1 \in Nat /\ (n + 1) - c + i - 1 = n - c + i /\ n - c + i \in Nat
      BY <1>1, <1>3
    <3>2. q \in [1 .. c -> Nat] /\ r \in [1 .. c -> Nat]
      BY <2>1, <3>1
    <3>3. (\A i \in 1 .. c : q[i] = n - c + i - 1) /\ \A i \in 1 .. c : r[i] = n - c + i
      BY <2>1, <3>1
    <3> HIDE DEF q, r
    <3>4. q \in Seq(Nat) /\ Len(q) = c /\ r \in Seq(Nat) /\ Len(r) = c
      BY <1>1, <3>2
    <3> QED
      BY <1>1, <3>3, <3>4
  <2> HIDE DEF q, r
  <2> DEFINE t == Tail(q)
             a == Append(t, n)
  <2>3. Pushed(q, n) = a
    BY <1>1, <1>3, <2>2 DEF Pushed
  <2>4. t \in Seq(Nat) /\ Len(t) = c - 1 /\ \A i \in 1 .. Len(t) : t[i] = q[i + 1]
    BY <2>2, HeadTailProperties
  <2> HIDE DEF t
  <2>5. /\ a \in Seq(Nat) /\ Len(a) = Len(t) + 1 /\ a[Len(t) + 1] = n
        /\ \A i \in 1 .. Len(t) : a[i] = t[i]
    BY <2>4, AppendProperties
  <2> HIDE DEF a
  <2>6. ASSUME NEW i \in 1 .. c PROVE a[i] = r[i]
    <3>1. CASE i = c
      BY <1>1, <2>2, <2>4, <2>5, <3>1
    <3>2. CASE i # c
      <4>1. i \in 1 .. Len(t) /\ i + 1 \in 1 .. c
        BY <1>1, <2>4, <3>2
      <4>2. a[i] = q[i + 1]
        BY <2>4, <2>5, <4>1
      <4> QED
        BY <1>1, <2>2, <4>1, <4>2
    <3> QED
      BY <3>1, <3>2
  <2>7. Len(a) = c
    BY <1>1, <2>4, <2>5
  <2>8. a = r
    BY <2>2, <2>5, <2>6, <2>7, SeqEqual
  <2> QED
    BY <2>3, <2>8 DEF q, r
<1> QED
  BY <1>1, <1>2, <1>3

\* An epoch that b stamps after its clock, and after all it knows.
LEMMA AddedNumbering ==
    ASSUME NEW E, NEW h, NEW b \in Bridges, NEW e,
           Numbering(E), Causal(E), Ahead(E, h), e \in EpochRec,
           e.by = b, e.frame = Count(E, b), e.read = {}, Earlier(h[b], e.stamp),
           e.after = {<<x.by, x.frame>> : x \in {y \in E : Knows(b, y)}}
    PROVE  /\ e \notin E
           /\ Numbering(E \cup {e}) /\ Causal(E \cup {e})
<1> DEFINE D == E \cup {e}
           n == Count(E, b)
<1>1. /\ IsFiniteSet(E) /\ E \subseteq EpochRec
      /\ \A x, y \in E : x.by = y.by /\ x.frame = y.frame => x = y
      /\ \A x \in E : x.frame < Count(E, x.by)
      /\ \A x \in E : \A z \in x.after : z[2] < Count(E, z[1])
  BY DEF Numbering
<1>2. \A c : Count(E, c) \in Nat
  BY <1>1, CountFacts
<1>3. \A x \in E : x.by = b => x.frame # n
  BY <1>1, <1>2 DEF EpochRec
<1>4. e \notin E
  BY <1>3
<1>5. /\ IsFiniteSet(D) /\ Count(D, b) = n + 1
      /\ \A c : c # b => Count(D, c) = Count(E, c)
  <2>1. /\ IsFiniteSet(D) /\ Count(D, e.by) = Count(E, e.by) + 1
        /\ \A c : c # e.by => Count(D, c) = Count(E, c)
    <3>1. IsFiniteSet(E)
      BY <1>1
    <3> QED
      BY <1>4, <3>1, CountAdded
  <2> HIDE DEF D
  <2> QED
    BY <2>1
<1> HIDE DEF n
<1>6. ASSUME NEW c PROVE Count(E, c) <= Count(D, c) /\ Count(D, c) \in Nat
  <2> HIDE DEF D
  <2>1. CASE c = b
    BY <1>2, <1>5, <2>1 DEF n
  <2>2. CASE c # b
    BY <1>2, <1>5, <2>2
  <2> QED
    BY <2>1, <2>2
<1>7. ASSUME NEW z \in e.after PROVE z[2] < Count(E, z[1])
  <2>1. PICK x \in E : z = <<x.by, x.frame>>
    OBVIOUS
  <2> QED
    BY <1>1, <2>1
<1>8. \A x \in D : \A z \in x.after : z[2] < Count(E, z[1])
  BY <1>1, <1>7
<1>9. \A x \in D : x.after \subseteq Bridges \X Nat
  BY <1>1 DEF EpochRec
<1>10. ASSUME NEW x \in D, NEW z \in x.after PROVE z[2] < Count(D, z[1])
  <2>1. z[2] \in Nat /\ z[2] < Count(E, z[1])
    BY <1>8, <1>9
  <2> DEFINE c == z[1]
  <2>2. Count(E, c) <= Count(D, c) /\ Count(D, c) \in Nat /\ Count(E, c) \in Nat
    BY <1>2, <1>6
  <2> QED
    BY <2>1, <2>2
<1>11. ASSUME NEW x \in D PROVE x.frame < Count(D, x.by)
  <2>1. CASE x \in E
    <3>1. x.frame \in Nat /\ x.frame < Count(E, x.by)
      BY <1>1, <2>1 DEF EpochRec
    <3> DEFINE c == x.by
    <3>2. Count(E, c) <= Count(D, c) /\ Count(D, c) \in Nat /\ Count(E, c) \in Nat
      BY <1>2, <1>6
    <3> QED
      BY <3>1, <3>2
  <2>2. CASE x = e
    BY <1>2, <1>5, <2>2 DEF n
  <2> QED
    BY <2>1, <2>2
<1>12. \A x, y \in D : x.by = y.by /\ x.frame = y.frame => x = y
  BY <1>1, <1>3 DEF n
<1>13. Numbering(D)
  BY <1>1, <1>5, <1>10, <1>11, <1>12 DEF Numbering
<1>14. ASSUME NEW x \in D, NEW y \in D, <<y.by, y.frame>> \in x.after
       PROVE  Earlier(y.stamp, x.stamp)
  <2>1. y \in E
    <3>1. y.frame < Count(E, y.by)
      BY <1>8, <1>14
    <3> QED
      BY <1>2, <3>1
  <2>2. CASE x \in E
    BY <1>14, <2>1, <2>2 DEF Causal
  <2>3. CASE x = e
    <3>1. PICK z \in E : Knows(b, z) /\ <<y.by, y.frame>> = <<z.by, z.frame>>
      BY <1>14, <2>3
    <3>2. y = z
      BY <1>1, <2>1, <3>1
    <3>3. ~Earlier(h[b], y.stamp)
      BY <2>1, <3>1, <3>2 DEF Ahead
    <3>4. y.stamp \in Stamps /\ h[b] \in Stamps /\ e.stamp \in Stamps
      BY <1>1, <2>1 DEF EpochRec, Ahead
    <3> QED
      BY <2>3, <3>3, <3>4, StampsOrdered
  <2> QED
    BY <2>2, <2>3
<1> QED
  BY <1>4, <1>13, <1>14 DEF Causal


LEMMA CaptureStep ==
    ASSUME EpochInv, NEW b \in Bridges, NEW now \in 0 .. MaxWall, capture(b, now)
    PROVE  EpochInv'
<1>1. PICK E : E = epochs
  OBVIOUS
<1>2. PICK h : h = hlc
  OBVIOUS
<1>3. PICK o : o = ops
  OBVIOUS
<1>4. PICK q : q = kept
  OBVIOUS
<1> DEFINE s == Ticked(h[b], now)
           n == Count(E, b)
           e == FrameEpoch(b, n, s)
           D == E \cup {e}
           k == [h EXCEPT ![b] = s]
           r == [q EXCEPT ![b] = Pushed(q[b], n)]
<1>5. /\ Cardinality(E) < MaxEpochs /\ epochs' = D /\ hlc' = k /\ kept' = r /\ ops' = o
  BY <1>1, <1>2, <1>3, <1>4 DEF capture, Count, Of
<1>6. Numbering(E) /\ Causal(E) /\ Ahead(E, h) /\ Counted(E, h, o) /\ KeepsLast(E, q)
  BY <1>1, <1>2, <1>3, <1>4 DEF EpochInv
<1>7. knownTo(b) = {y \in E : Knows(b, y)}
  BY <1>1 DEF knownTo, Knows
<1> DEFINE N == Cardinality(E) + o
<1>8. /\ N \in Nat /\ N + 1 <= CounterMax /\ o \in Nat /\ Cardinality(E) \in Nat /\ now \in Nat
      /\ o <= MaxEpochs /\ MaxEpochs \in Nat
  <2>1. Cardinality(E) \in Nat
    BY <1>6, FS_CardinalityType DEF Numbering
  <2>2. o \in Nat /\ o <= MaxEpochs
    BY <1>6 DEF Counted
  <2> QED
    BY <1>5, <2>1, <2>2, ClockBounds
<1>9. h \in [Bridges -> Stamps] /\ h[b] \in Stamps /\ h[b][2] \in Nat
  BY <1>6 DEF Ahead, Stamps
<1>10. \A c \in Bridges : h[c][2] <= N
  BY <1>6 DEF Counted
<1>11. \A x \in E : x.stamp[2] <= N
  BY <1>6 DEF Counted
<1> HIDE DEF N
<1>12. h[b][2] <= N /\ h[b][2] + 1 <= CounterMax
  BY <1>8, <1>9, <1>10, ClockBounds
<1>13. s \in Stamps /\ Earlier(h[b], s) /\ s[2] <= h[b][2] + 1
  BY <1>8, <1>9, <1>12, TickedLater
<1>14. n \in Nat
  BY <1>6, CountFacts DEF Numbering
<1> HIDE DEF s, n
<1>15. /\ e.by = b /\ e.frame = n /\ e.stamp = s /\ e.read = {}
       /\ e.after = {<<x.by, x.frame>> : x \in {y \in E : Knows(b, y)}}
  BY <1>7 DEF FrameEpoch
<1>16. e \in EpochRec
  <2>1. {<<x.by, x.frame>> : x \in {y \in E : Knows(b, y)}} \in SUBSET (Bridges \X Nat)
    BY <1>6 DEF Numbering, EpochRec
  <2>2. e = [by |-> b, frame |-> n, stamp |-> s, read |-> {},
             after |-> {<<x.by, x.frame>> : x \in {y \in E : Knows(b, y)}}]
    BY <1>7 DEF FrameEpoch
  <2> DEFINE A == {<<x.by, x.frame>> : x \in {y \in E : Knows(b, y)}}
  <2> HIDE DEF e, A
  <2> QED
    BY <1>13, <1>14, <2>1, <2>2 DEF EpochRec, A
<1> HIDE DEF e
<1>17. e \notin E /\ Numbering(D) /\ Causal(D)
  <2>1. Earlier(h[b], e.stamp) /\ e.frame = Count(E, b)
    BY <1>13, <1>15 DEF n
  <2> QED
    BY <1>6, <1>15, <1>16, <2>1, AddedNumbering
<1>18. Cardinality(D) = Cardinality(E) + 1 /\ Count(D, b) = n + 1
       /\ \A c : c # b => Count(D, c) = Count(E, c)
  <2>1. IsFiniteSet(E)
    BY <1>6 DEF Numbering
  <2>2. /\ Cardinality(D) = Cardinality(E) + 1 /\ Count(D, e.by) = Count(E, e.by) + 1
        /\ \A c : c # e.by => Count(D, c) = Count(E, c)
    BY <1>17, <2>1, CountAdded
  <2> HIDE DEF D
  <2> QED
    BY <1>15, <2>2 DEF n
<1>19. k \in [Bridges -> Stamps] /\ k[b] = s /\ \A c \in Bridges : c # b => k[c] = h[c]
  BY <1>9, <1>13
<1> HIDE DEF k
<1>20. Ahead(D, k)
  <2> SUFFICES ASSUME NEW c \in Bridges, NEW d \in D, Knows(c, d) PROVE ~Earlier(k[c], d.stamp)
    BY <1>19 DEF Ahead
  <2>1. CASE d = e
    <3>1. c = b
      BY <1>15, <2>1 DEF Knows
    <3> QED
      BY <1>13, <1>15, <1>19, <2>1, <3>1, StampsOrdered
  <2>2. CASE d \in E
    <3>1. d.stamp \in Stamps /\ h[c] \in Stamps /\ ~Earlier(h[c], d.stamp)
      BY <1>6, <1>9, <2>2 DEF Numbering, EpochRec, Ahead
    <3>2. CASE c # b
      BY <1>19, <3>1, <3>2
    <3>3. CASE c = b
      <4>1. ~Earlier(s, h[b])
        BY <1>9, <1>13, StampsOrdered
      <4>2. ~Earlier(s, d.stamp)
        BY <1>9, <1>13, <3>1, <3>3, <4>1, StampsOrdered
      <4> QED
        BY <1>19, <3>3, <4>2
    <3> QED
      BY <3>2, <3>3
  <2> QED
    BY <2>1, <2>2
<1>21. Counted(D, k, o)
  <2>1. o \in Nat /\ o <= MaxEpochs /\ Cardinality(D) <= MaxEpochs /\ Cardinality(D) + o = N + 1
    BY <1>5, <1>8, <1>18 DEF N
  <2>2. ASSUME NEW c \in Bridges PROVE k[c][2] <= N + 1
    <3>1. h[c][2] <= N /\ h[c][2] \in Nat
      BY <1>9, <1>10 DEF Stamps
    <3>2. s[2] \in Nat
      BY <1>13 DEF Stamps
    <3> QED
      BY <1>8, <1>12, <1>13, <1>19, <1>9, <3>1, <3>2
  <2>3. ASSUME NEW d \in D PROVE d.stamp[2] <= N + 1
    <3>1. CASE d = e
      <4>1. s[2] \in Nat
        BY <1>13 DEF Stamps
      <4> QED
        BY <1>8, <1>9, <1>12, <1>13, <1>15, <3>1, <4>1
    <3>2. CASE d \in E
      <4>1. d.stamp[2] \in Nat /\ d.stamp[2] <= N
        BY <1>6, <1>11, <3>2 DEF Numbering, EpochRec, Stamps
      <4> QED
        BY <1>8, <4>1
    <3> QED
      BY <3>1, <3>2
  <2> HIDE DEF D
  <2> QED
    BY <2>1, <2>2, <2>3 DEF Counted
<1> HIDE DEF D
<1>22. KeepsLast(D, r)
  <2>1. q = [c \in Bridges |-> LastOf(Count(E, c), Capacity)]
    BY <1>6 DEF KeepsLast
  <2>2. r = [c \in Bridges |-> IF c = b THEN Pushed(q[b], n) ELSE q[c]]
    BY <2>1
  <2>3. Pushed(q[b], n) = LastOf(n + 1, Capacity)
    BY <1>14, <2>1, LastPushed DEF n
  <2>4. ASSUME NEW c \in Bridges
        PROVE  (IF c = b THEN Pushed(q[b], n) ELSE q[c]) = LastOf(Count(D, c), Capacity)
    BY <1>18, <2>1, <2>3
  <2> HIDE DEF r
  <2> QED
    BY <2>2, <2>4 DEF KeepsLast
<1> QED
  BY <1>5, <1>17, <1>20, <1>21, <1>22 DEF EpochInv

LEMMA EpochInitInv == HlcInit /\ BridgeInit => EpochInv
<1> SUFFICES ASSUME HlcInit, BridgeInit PROVE EpochInv
  OBVIOUS
<1>1. epochs = {} /\ ops = 0 /\ hlc = [b \in Bridges |-> <<0, 0>>] /\ kept = [b \in Bridges |-> <<>>]
  BY DEF HlcInit, BridgeInit
<1>2. IsFiniteSet(epochs) /\ Cardinality(epochs) = 0
  BY <1>1, FS_EmptySet
<1>3. Numbering(epochs) /\ Causal(epochs)
  BY <1>1, <1>2 DEF Numbering, Causal
<1>4. Ahead(epochs, hlc)
  BY <1>1 DEF Ahead, Stamps
<1>5. Counted(epochs, hlc, ops)
  BY <1>1, <1>2, ClockBounds DEF Counted
<1>6. \A b \in Bridges : Count(epochs, b) = 0
  <2>1. \A b \in Bridges : Of(epochs, b) = {}
    BY <1>1 DEF Of
  <2> QED
    BY <2>1, FS_EmptySet DEF Count
<1>7. LastOf(0, Capacity) = <<>>
  BY ClockBounds DEF LastOf
<1>8. KeepsLast(epochs, kept)
  BY <1>1, <1>6, <1>7 DEF KeepsLast
<1> QED
  BY <1>3, <1>4, <1>5, <1>8 DEF EpochInv

LEMMA EpochNextInv ==
    ASSUME EpochInv, EpochStep \/ UNCHANGED epochVars
    PROVE  EpochInv'
<1>1. CASE UNCHANGED epochVars
  BY <1>1 DEF epochVars, EpochInv
<1>2. CASE EpochStep
  <2>1. PICK b \in Bridges, now \in 0 .. MaxWall :
           capture(b, now) \/ \E e \in epochs : recv_remote_epoch(b, e, now)
    BY <1>2 DEF EpochStep
  <2> QED
    BY <2>1, CaptureStep, RecvStep
<1> QED
  BY <1>1, <1>2

LEMMA EpochInvSound == EpochInv => EpochsSound
<1> SUFFICES ASSUME EpochInv PROVE EpochsSound
  OBVIOUS
<1>1. \A e, f \in epochs : <<f.by, f.frame>> \in e.after => Earlier(f.stamp, e.stamp)
  BY DEF EpochInv, Causal
<1>2. ASSUME NEW b \in Bridges
      PROVE  LET n == Cardinality({e \in epochs : e.by = b})
                 m == Min({n, Capacity})
             IN kept[b] = [i \in 1..m |-> n - m + i - 1]
  <2> DEFINE n == Count(epochs, b)
             m == Min({n, Capacity})
  <2>1. n = Cardinality({e \in epochs : e.by = b})
    BY DEF Count, Of
  <2>2. n \in Nat
    BY CountFacts DEF EpochInv, Numbering
  <2>3. kept[b] = LastOf(n, Capacity)
    BY DEF EpochInv, KeepsLast
  <2> HIDE DEF n
  <2>4. m = IF n <= Capacity THEN n ELSE Capacity
    BY <2>2, ClockBounds, MinOfTwo
  <2> HIDE DEF m
  <2>5. kept[b] = [i \in 1..m |-> n - m + i - 1]
    BY <2>3, <2>4, Zenon DEF LastOf
  <2> QED
    BY <2>1, <2>5 DEF m
<1> QED
  BY <1>1, <1>2 DEF EpochsSound

\* Whatever the players order, in whatever order the epochs come and whatever the
\* system clocks show: the game's money is accounted for, the dead have left and the
\* outcome is that of the players still standing; an epoch is stamped later than every
\* epoch its node knew, and a bridge keeps its last ones (RtsGame::process_turn,
\* FrameEpochBridge::capture and recv_remote_epoch, Hlc::tick and recv).
THEOREM TurnsStayAccounted == RgSpec => []TurnsAccounted
<1> DEFINE Inv == GameInv /\ EpochInv
<1>1. RgInit => Inv
  BY GameInitInv, EpochInitInv DEF RgInit
<1>2. Inv /\ [RgNext]_rgVars => Inv'
  <2> SUFFICES ASSUME Inv, [RgNext]_rgVars PROVE Inv'
    OBVIOUS
  <2>1. (GameStep \/ UNCHANGED gameVars) /\ (EpochStep \/ UNCHANGED epochVars)
    BY DEF RgNext, rgVars, GameStep, EpochStep
  <2> QED
    BY <2>1, GameNextInv, EpochNextInv
<1>3. Inv => TurnsAccounted
  BY GameInvSound, EpochInvSound DEF TurnsAccounted
<1> QED
  BY <1>1, <1>2, <1>3, PTL DEF RgSpec


(***************************************************************************)
(* Sums of finite tables                                                   *)
(***************************************************************************)
\* Induction over the subsets of a finite set.
LEMMA SubsetInduction ==
    ASSUME NEW S, IsFiniteSet(S), NEW F, {} \in F,
           \A R \in SUBSET S : \A x \in S \ R : R \in F => R \cup {x} \in F
    PROVE  S \in F
<1> DEFINE T == {n \in Nat : \A R \in SUBSET S : Cardinality(R) = n => R \in F}
<1>1. 0 \in T
  <2> SUFFICES ASSUME NEW R \in SUBSET S, Cardinality(R) = 0 PROVE R \in F
    OBVIOUS
  <2>1. IsFiniteSet(R)
    BY FS_Subset
  <2>2. R = {}
    BY <2>1, FS_EmptySet
  <2> QED
    BY <2>2
<1>2. ASSUME NEW n \in T PROVE n + 1 \in T
  <2> SUFFICES ASSUME NEW R \in SUBSET S, Cardinality(R) = n + 1 PROVE R \in F
    OBVIOUS
  <2>1. IsFiniteSet(R) /\ n \in Nat
    BY FS_Subset
  <2>2. R # {}
    BY <2>1, FS_EmptySet
  <2>3. PICK x : x \in R
    BY <2>2
  <2>4. IsFiniteSet(R \ {x}) /\ Cardinality(R \ {x}) = n
    <3> HIDE DEF T
    <3>1. IsFiniteSet(R \ {x}) /\ Cardinality(R \ {x}) = Cardinality(R) - 1
      BY <2>1, <2>3, FS_RemoveElement
    <3> QED
      BY <2>1, <3>1
  <2>5. R \ {x} \in F
    BY <2>4
  <2>6. R \ {x} \in SUBSET S /\ x \in S \ (R \ {x}) /\ (R \ {x}) \cup {x} = R
    BY <2>3
  <2> QED
    BY <2>5, <2>6
<1>3. T = Nat
  <2> HIDE DEF T
  <2>1. T \in SUBSET Nat
    BY DEF T
  <2> QED
    BY <1>1, <1>2, <2>1, SetInduction
<1>4. Cardinality(S) \in Nat
  BY FS_CardinalityType
<1> QED
  BY <1>3, <1>4

Grows(S, f, R, x) == IsFiniteSet(S) /\ IntOn(f, S) /\ R \in SUBSET S /\ x \in S \ R

LEMMA SumGrows ==
    ASSUME NEW S, NEW f, NEW R, NEW x, Grows(S, f, R, x)
    PROVE  SumOver(f, R) \in Int /\ SumOver(f, R \cup {x}) = f[x] + SumOver(f, R)
<1> DEFINE U == R \cup {x}
<1>1. IsFiniteSet(R) /\ IsFiniteSet(U)
  BY FS_Subset, FS_AddElement DEF Grows
<1>2. IntOn(f, R) /\ IntOn(f, U) /\ x \in U /\ U \ {x} = R
  BY DEF IntOn, Grows
<1> HIDE DEF U
<1>3. SumOver(f, U) = f[x] + SumOver(f, R)
  BY <1>1, <1>2, SumSplit
<1>4. SumOver(f, R) \in Int
  BY <1>1, <1>2, SumSplit
<1> QED
  BY <1>3, <1>4 DEF U

LEMMA SumAddOne ==
    ASSUME NEW S, IsFiniteSet(S), NEW f, IntOn(f, S), NEW R \in SUBSET S, NEW x \in S \ R
    PROVE  SumOver(f, R) \in Int /\ SumOver(f, R \cup {x}) = f[x] + SumOver(f, R)
<1>1. Grows(S, f, R, x)
  BY DEF Grows
<1> QED
  BY <1>1, SumGrows

LEMMA DivFacts ==
    ASSUME NEW x \in Nat, NEW d \in Nat \ {0}
    PROVE  x \div d \in Nat /\ d * (x \div d) <= x
OBVIOUS

\* The floored shares of an amount are never more than the amount.
LEMMA SharesBounded ==
    ASSUME NEW P, IsFiniteSet(P), NEW w \in [P -> Nat \ {0}], NEW A \in Nat, NEW W, W = SumOver(w, P),
           NEW s, s = [a \in P |-> (w[a] * A) \div W]
    PROVE  s \in [P -> Nat] /\ SumOver(s, P) \in Nat /\ SumOver(s, P) <= A
<1> DEFINE F == {R \in SUBSET P : /\ SumOver(w, R) \in Nat /\ (R # {} => SumOver(w, R) > 0)}
<1>1. IntOn(w, P)
  BY DEF IntOn
<1>2. {} \in F
  BY SumEmpty
<1>3. ASSUME NEW R \in SUBSET P, NEW x \in P \ R, R \in F PROVE R \cup {x} \in F
  <2>1. SumOver(w, R \cup {x}) = w[x] + SumOver(w, R)
    BY <1>1, SumAddOne
  <2>2. w[x] \in Nat \ {0} /\ SumOver(w, R) \in Nat
    BY <1>3
  <2>3. SumOver(w, R \cup {x}) \in Nat /\ SumOver(w, R \cup {x}) > 0
    BY <2>1, <2>2
  <2> QED
    BY <2>3
<1> HIDE DEF F
<1>4. P \in F
  BY <1>2, <1>3, SubsetInduction
<1>5. W \in Nat /\ (P # {} => W \in Nat \ {0})
  BY <1>4 DEF F
<1>6. ASSUME NEW a \in P PROVE s[a] \in Nat /\ W * s[a] <= w[a] * A /\ w[a] \in Nat /\ w[a] * A \in Nat
  <2>1. W \in Nat \ {0} /\ w[a] \in Nat
    BY <1>5
  <2>2. w[a] * A \in Nat
    BY <2>1
  <2>3. s[a] = (w[a] * A) \div W
    OBVIOUS
  <2> QED
    BY <2>1, <2>2, <2>3, DivFacts
<1>7. s \in [P -> Nat] /\ IntOn(s, P)
  BY <1>6 DEF IntOn
<1> DEFINE G == {R \in SUBSET P : SumOver(s, R) \in Nat /\ SumOver(w, R) \in Nat
                                  /\ W * SumOver(s, R) <= SumOver(w, R) * A}
<1>8. {} \in G
  BY <1>5, SumEmpty
<1>9. ASSUME NEW R \in SUBSET P, NEW x \in P \ R, R \in G PROVE R \cup {x} \in G
  <2> DEFINE u == SumOver(s, R)
             v == SumOver(w, R)
  <2>1. u \in Nat /\ v \in Nat /\ W * u <= v * A
    BY <1>9
  <2>2. SumOver(s, R \cup {x}) = s[x] + u /\ SumOver(w, R \cup {x}) = w[x] + v
    BY <1>1, <1>7, SumAddOne
  <2> HIDE DEF u, v
  <2>3. s[x] \in Nat /\ W * s[x] <= w[x] * A /\ w[x] \in Nat
    BY <1>6
  <2> DEFINE p == s[x]
             q == w[x]
  <2>4. p \in Nat /\ q \in Nat /\ W * p <= q * A
    BY <2>3
  <2> HIDE DEF p, q
  <2>5. W * (p + u) = W * p + W * u /\ (q + v) * A = q * A + v * A
    BY <1>5, <2>1, <2>4
  <2>6. W * (p + u) <= (q + v) * A /\ p + u \in Nat /\ q + v \in Nat
    BY <1>5, <2>1, <2>4, <2>5
  <2> QED
    BY <2>2, <2>6 DEF p, q
<1> HIDE DEF G
<1>10. P \in G
  BY <1>8, <1>9, SubsetInduction
<1>11. SumOver(s, P) \in Nat /\ W * SumOver(s, P) <= W * A
  BY <1>10 DEF G
<1>12. CASE P = {}
  <2>1. SumOver(s, P) = 0
    BY <1>12, SumEmpty
  <2> QED
    BY <1>7, <2>1
<1>13. CASE P # {}
  <2> DEFINE t == SumOver(s, P)
  <2>1. t \in Nat /\ W \in Nat \ {0} /\ W * t <= W * A
    BY <1>5, <1>11, <1>13
  <2> HIDE DEF t
  <2>2. t <= A
    <3> SUFFICES ASSUME t >= A + 1 PROVE FALSE
      BY <2>1
    <3>1. W * t >= W * (A + 1) /\ W * (A + 1) = W * A + W
      BY <2>1
    <3> QED
      BY <2>1, <3>1
  <2> QED
    BY <1>7, <1>11, <2>2 DEF t
<1> QED
  BY <1>12, <1>13

LEMMA ModFacts ==
    ASSUME NEW x \in Int, NEW w \in Nat
    PROVE  /\ x % (w + 1) \in Nat
           /\ x \in Nat => x % (w + 1) <= x
           /\ x \in 0 .. w => x % (w + 1) = x
OBVIOUS

LEMMA DivMonotone ==
    ASSUME NEW y \in Nat, NEW x \in Nat, y <= x, NEW d \in Nat \ {0}
    PROVE  y \div d \in Nat /\ y \div d <= x \div d
<1> DEFINE p == y \div d
           q == x \div d
<1>1. /\ p \in Nat /\ d * p <= y /\ q \in Nat /\ x < d * q + d
  <2>1. x < d * (x \div d) + d
    OBVIOUS
  <2> QED
    BY <2>1, DivFacts
<1> HIDE DEF p, q
<1>2. p <= q
  <2> SUFFICES ASSUME p >= q + 1 PROVE FALSE
    BY <1>1
  <2>1. d * p >= d * (q + 1) /\ d * (q + 1) = d * q + d
    BY <1>1
  <2> QED
    BY <1>1, <2>1
<1> QED
  BY <1>1, <1>2 DEF p, q

\* A fraction of an amount is part of it.
LEMMA CutBounded ==
    ASSUME NEW x \in Nat, NEW c \in Nat, NEW d \in Nat \ {0}, c <= d
    PROVE  (x * c) \div d \in Nat /\ (x * c) \div d <= x
<1> DEFINE q == (x * c) \div d
<1>1. x * c \in Nat /\ x * c <= x * d
  OBVIOUS
<1>2. q \in Nat /\ d * q <= x * c
  BY <1>1, DivFacts
<1> HIDE DEF q
<1>3. q <= x
  <2> SUFFICES ASSUME q >= x + 1 PROVE FALSE
    BY <1>2
  <2>1. d * q >= d * (x + 1) /\ d * (x + 1) = d * x + d /\ d * x = x * d
    BY <1>2
  <2> QED
    BY <1>1, <1>2, <2>1
<1> QED
  BY <1>2, <1>3 DEF q


(***************************************************************************)
(* The token pool                                                          *)
(***************************************************************************)
Stakes == [amount : Nat, unlock : Int]
Pools == UNION {[S -> Stakes] : S \in SUBSET Accts}
Worth(s) == [a \in DOMAIN s |-> s[a].amount]
Staked(s) == SumOver(Worth(s), DOMAIN s)
Metrics == [good : Nat, bad : Nat]
Owed == UNION {[S -> Nat] : S \in SUBSET Accts}
Calls == {NoCall} \cup [kind : {"stake"}, acct : Accts, amount : Nat, unlock : Int]
         \cup [kind : {"unbond"}, acct : Accts, amount : Nat]
         \cup [kind : {"pay"}, left : Owed, residue : Nat]
InHands(k) == [c \in Callers |-> InHand(k[c])]
Holding(k) == SumOver(InHands(k), Callers)

\* SupplyTraced, over the sums of FoldProofs, with the types it needs: a slash takes
\* no more than the stake because amounts are not negative, and a distribution no more
\* than its emission because the scores are not.
Traced(b, t, s, x, k, i, o) ==
    /\ SumOver(b, Accts) + Staked(s) + x + Holding(k) <= i
    /\ ~o => SumOver(b, Accts) + Staked(s) + x + Holding(k) = i /\ t = SumOver(b, Accts)

TkInv ==
    /\ balances \in [Accts -> Nat] /\ total \in Int
    /\ stakes \in Pools /\ slashed \in Nat /\ slashed <= MaxAmount /\ epoch \in Nat
    /\ calls \in [Callers -> Calls] /\ metrics \in [Accts -> Metrics]
    /\ issued \in Int /\ overflowed \in BOOLEAN
    /\ total <= MaxAmount
    /\ Traced(balances, total, stakes, slashed, calls, issued, overflowed)

LEMMA PoolFinite == /\ IsFiniteSet(Accts) /\ IsFiniteSet(Callers)
                    /\ Amounts \subseteq Nat /\ MaxAmount \in Nat /\ Unlocks \subseteq Nat
                    /\ InitialReward \in Nat /\ HalvingInterval \in Nat \ {0}
                    /\ MaxScore \in Nat /\ MaxEpoch \in Nat
                    /\ Fractions \subseteq {x \in Nat \X (Nat \ {0}) : x[1] <= x[2]}
BY PoolAssumption

LEMMA PoolFacts ==
    ASSUME NEW s
    PROVE  s \in Pools <=> /\ DOMAIN s \subseteq Accts /\ s = [a \in DOMAIN s |-> s[a]]
                           /\ \A a \in DOMAIN s : s[a] \in Stakes
<1>1. ASSUME s \in Pools
      PROVE  /\ DOMAIN s \subseteq Accts /\ s = [a \in DOMAIN s |-> s[a]]
             /\ \A a \in DOMAIN s : s[a] \in Stakes
  <2>1. PICK S \in SUBSET Accts : s \in [S -> Stakes]
    BY <1>1, Zenon DEF Pools
  <2> QED
    BY <2>1, Zenon
<1>2. ASSUME DOMAIN s \subseteq Accts, s = [a \in DOMAIN s |-> s[a]],
             \A a \in DOMAIN s : s[a] \in Stakes
      PROVE  s \in Pools
  <2>1. s \in [DOMAIN s -> Stakes]
    BY <1>2, Zenon
  <2> QED
    BY <1>2, <2>1, Zenon DEF Pools
<1> QED
  BY <1>1, <1>2

LEMMA PoolWorth ==
    ASSUME NEW s \in Pools
    PROVE  IsFiniteSet(DOMAIN s) /\ IntOn(Worth(s), DOMAIN s) /\ Staked(s) \in Int
<1>1. DOMAIN s \subseteq Accts /\ \A a \in DOMAIN s : s[a] \in Stakes
  BY PoolFacts, Zenon
<1>2. IsFiniteSet(DOMAIN s)
  BY <1>1, PoolFinite, FS_Subset
<1>3. IntOn(Worth(s), DOMAIN s)
  BY <1>1 DEF IntOn, Worth, Stakes
<1> QED
  BY <1>2, <1>3, SumSplit DEF Staked

LEMMA BalanceUpdate ==
    ASSUME NEW b \in [Accts -> Nat], NEW a \in Accts, NEW x \in Nat
    PROVE  /\ [b EXCEPT ![a] = x] \in [Accts -> Nat]
           /\ SumOver(b, Accts) \in Int
           /\ SumOver([b EXCEPT ![a] = x], Accts) = SumOver(b, Accts) + x - b[a]
<1> DEFINE k == [b EXCEPT ![a] = x]
<1>1. k \in [Accts -> Nat] /\ k[a] = x /\ \A y \in Accts \ {a} : k[y] = b[y]
  OBVIOUS
<1> HIDE DEF k
<1>2. DifferAt(b, k, Accts, a)
  BY <1>1, PoolFinite DEF DifferAt, IntOn
<1>3. SumOver(b, Accts) \in Int /\ SumOver(k, Accts) = SumOver(b, Accts) + k[a] - b[a]
  BY <1>2, SumDiffers
<1> QED
  BY <1>1, <1>3 DEF k

LEMMA BalancesNat ==
    ASSUME NEW b \in [Accts -> Nat]
    PROVE  SumOver(b, Accts) \in Nat
<1> DEFINE F == {R \in SUBSET Accts : SumOver(b, R) \in Nat}
<1>1. {} \in F
  BY SumEmpty
<1>2. ASSUME NEW R \in SUBSET Accts, NEW x \in Accts \ R, R \in F PROVE R \cup {x} \in F
  <2>1. Grows(Accts, b, R, x)
    BY PoolFinite DEF Grows, IntOn
  <2>2. SumOver(b, R \cup {x}) = b[x] + SumOver(b, R)
    BY <2>1, SumGrows
  <2>3. b[x] \in Nat /\ SumOver(b, R) \in Nat
    BY <1>2
  <2> QED
    BY <2>2, <2>3
<1> HIDE DEF F
<1>3. Accts \in F
  BY <1>1, <1>2, PoolFinite, SubsetInduction
<1> QED
  BY <1>3 DEF F

\* The stake of a becomes v.
Staking(s, a, v) == [y \in DOMAIN s \cup {a} |-> IF y = a THEN v ELSE s[y]]

LEMMA StakeUpdate ==
    ASSUME NEW s \in Pools, NEW a \in Accts, NEW v \in Stakes
    PROVE  /\ Staking(s, a, v) \in Pools
           /\ a \in DOMAIN s => Staked(Staking(s, a, v)) = Staked(s) + v.amount - s[a].amount
           /\ a \notin DOMAIN s => Staked(Staking(s, a, v)) = Staked(s) + v.amount
<1> DEFINE r == Staking(s, a, v)
           D == DOMAIN s
           f == Worth(s)
           g == Worth(r)
<1>1. /\ D \subseteq Accts /\ \A y \in D : s[y] \in Stakes
  BY PoolFacts, Zenon
<1>2. /\ DOMAIN r = D \cup {a} /\ r = [y \in DOMAIN r |-> r[y]] /\ r[a] = v
      /\ \A y \in D \ {a} : r[y] = s[y]
  BY DEF Staking
<1> HIDE DEF r
<1>3. r \in Pools
  <2>1. DOMAIN r \subseteq Accts /\ \A y \in DOMAIN r : r[y] \in Stakes
    BY <1>1, <1>2
  <2> QED
    BY <1>2, <2>1, PoolFacts, Zenon
<1>4. g[a] = v.amount /\ \A y \in D \ {a} : g[y] = f[y]
  BY <1>2 DEF Worth
<1>5. a \in D => f[a] = s[a].amount /\ f[a] \in Int
  BY <1>1 DEF Worth, Stakes
<1>6. IsFiniteSet(D) /\ IntOn(f, D)
  BY PoolWorth
<1>7. g[a] \in Int
  BY <1>4 DEF Stakes
<1> HIDE DEF D, f, g
<1>8. /\ SumOver(f, D) \in Int
      /\ a \in D => SumOver(g, D \cup {a}) = SumOver(f, D) + g[a] - f[a]
      /\ a \notin D => SumOver(g, D \cup {a}) = SumOver(f, D) + g[a]
  <2>1. SumOver(f, D) \in Int
    BY <1>6, SumSplit
  <2>2. ASSUME a \in D PROVE SumOver(g, D \cup {a}) = SumOver(f, D) + g[a] - f[a]
    <3>1. DifferAt(f, g, D, a) /\ D \cup {a} = D
      BY <1>4, <1>6, <1>7, <2>2 DEF DifferAt, IntOn
    <3>2. SumOver(g, D) = SumOver(f, D) + g[a] - f[a]
      BY <3>1, SumDiffers
    <3> QED
      BY <3>1, <3>2, Zenon
  <2>3. ASSUME a \notin D PROVE SumOver(g, D \cup {a}) = SumOver(f, D) + g[a]
    <3> DEFINE U == D \cup {a}
    <3>1. Grows(U, g, D, a)
      <4>1. IsFiniteSet(U) /\ D \in SUBSET U /\ a \in U \ D
        BY <1>6, <2>3, FS_AddElement
      <4>2. IntOn(g, U)
        BY <1>4, <1>6, <1>7 DEF IntOn
      <4> QED
        BY <4>1, <4>2 DEF Grows
    <3>2. SumOver(g, D) = SumOver(f, D)
      BY <1>4, <1>6, <2>3, SumSame
    <3>3. SumOver(g, D \cup {a}) = g[a] + SumOver(g, D)
      BY <3>1, SumGrows
    <3> QED
      BY <1>7, <2>1, <3>2, <3>3
  <2> QED
    BY <2>1, <2>2, <2>3
<1>9. Staked(r) = SumOver(g, D \cup {a}) /\ Staked(s) = SumOver(f, D)
  BY <1>2, Zenon DEF Staked, D, f, g
<1>10. a \in D => Staked(r) = Staked(s) + v.amount - s[a].amount
  BY <1>4, <1>5, <1>7, <1>8, <1>9
<1>11. a \notin D => Staked(r) = Staked(s) + v.amount
  BY <1>4, <1>7, <1>8, <1>9
<1> QED
  BY <1>3, <1>10, <1>11 DEF r, D

LEMMA StakeRemoved ==
    ASSUME NEW s \in Pools, NEW a \in DOMAIN s
    PROVE  LET r == Restrict(s, DOMAIN s \ {a})
           IN r \in Pools /\ Staked(r) = Staked(s) - s[a].amount
<1> DEFINE r == Restrict(s, DOMAIN s \ {a})
           D == DOMAIN s
           E == D \ {a}
           f == Worth(s)
           g == Worth(r)
<1>1. /\ D \subseteq Accts /\ \A y \in D : s[y] \in Stakes
  BY PoolFacts, Zenon
<1>2. DOMAIN r = E /\ r = [y \in DOMAIN r |-> r[y]] /\ \A y \in E : r[y] = s[y]
  BY DEF Restrict
<1> HIDE DEF r
<1>3. r \in Pools
  <2>1. DOMAIN r \subseteq Accts /\ \A y \in DOMAIN r : r[y] \in Stakes
    BY <1>1, <1>2
  <2> QED
    BY <1>2, <2>1, PoolFacts, Zenon
<1>4. \A y \in E : g[y] = f[y]
  BY <1>2 DEF Worth
<1>5. f[a] = s[a].amount /\ f[a] \in Int
  BY <1>1 DEF Worth, Stakes
<1>6. IsFiniteSet(D) /\ IntOn(f, D) /\ IsFiniteSet(E) /\ IntOn(f, E)
  BY PoolWorth, FS_RemoveElement DEF IntOn
<1>7. SumOver(f, D) \in Int /\ SumOver(f, D) = f[a] + SumOver(f, E)
  <2> HIDE DEF f
  <2> QED BY <1>6, SumSplit
<1>8. SumOver(f, E) \in Int
  <2> HIDE DEF f, E, D
  <2> QED BY <1>6, SumSplit
<1>9. SumOver(g, E) = SumOver(f, E)
  <2> HIDE DEF f, g, E, D
  <2> QED BY <1>4, <1>6, SumSame
<1>10. Staked(r) = SumOver(g, E) /\ Staked(s) = SumOver(f, D)
  BY <1>2, Zenon DEF Staked
<1> HIDE DEF f, g, E, D
<1>11. Staked(r) = Staked(s) - s[a].amount
  BY <1>5, <1>7, <1>8, <1>9, <1>10
<1> QED
  BY <1>3, <1>11 DEF r, D

\* initial_reward >> steps is a natural number.
LEMMA ShiftedNat ==
    ASSUME NEW n \in Nat
    PROVE  Shifted(n) \in Nat
<1> DEFINE rule == [i \in Nat \ {0} |-> [a \in Nat |-> a \div 2]]
           Is(f) == f = [i \in 0 .. n |-> IF i = 0 THEN InitialReward ELSE f[i - 1] \div 2]
<1>1. InitialReward \in Nat
  BY PoolFinite
<1>2. ASSUME NEW a \in Nat PROVE a \div 2 \in Nat
  OBVIOUS
<1>3. rule \in [Nat \ {0} -> [Nat -> Nat]]
  BY <1>2
<1>4. ASSUME NEW i \in 1 .. n, NEW a \in Nat PROVE rule[i][a] = a \div 2
  OBVIOUS
<1> HIDE DEF rule
<1>5. PICK f \in [0 .. n -> Nat] : Follows(f, rule, InitialReward, n)
  BY <1>1, <1>3, PrefixRecursion
<1>6. ASSUME NEW i \in 1 .. n PROVE f[i] = f[i - 1] \div 2
  <2>1. f[i - 1] \in Nat
    OBVIOUS
  <2> QED
    BY <1>4, <1>5, <2>1 DEF Follows
<1>7. Is(f)
  <2>1. \A i \in 0 .. n : i = 0 \/ i \in 1 .. n
    OBVIOUS
  <2> QED
    BY <1>5, <1>6, <2>1 DEF Follows
<1> DEFINE g == CHOOSE h : Is(h)
<1>8. Is(g)
  <2> HIDE DEF Is
  <2> QED BY <1>7, Zenon DEF g
<1>9. Shifted(n) = g[n]
  BY DEF Shifted
<1> HIDE DEF g
<1>10. g[0] = InitialReward /\ \A i \in 1 .. n : g[i] = g[i - 1] \div 2
  BY <1>8
<1> HIDE DEF Is
<1> DEFINE T == {i \in Nat : i <= n => g[i] \in Nat}
<1>11. 0 \in T
  BY <1>1, <1>10
<1>12. ASSUME NEW i \in T PROVE i + 1 \in T
  <2> SUFFICES ASSUME i + 1 <= n PROVE g[i + 1] \in Nat
    OBVIOUS
  <2>1. g[i] \in Nat /\ i + 1 \in 1 .. n /\ (i + 1) - 1 = i
    OBVIOUS
  <2>2. g[i + 1] = g[i] \div 2
    BY <1>10, <2>1
  <2> QED
    BY <1>2, <2>1, <2>2
<1>13. T = Nat
  <2> HIDE DEF T
  <2>1. T \in SUBSET Nat
    BY DEF T
  <2> QED
    BY <1>11, <1>12, <2>1, SetInduction
<1>14. g[n] \in Nat
  BY <1>13
<1> QED
  BY <1>9, <1>14

LEMMA RewardNat ==
    ASSUME NEW e \in Nat
    PROVE  reward_at(e) \in Nat
<1>1. e \div HalvingInterval \in Nat
  BY PoolFinite, DivFacts
<1> QED
  BY <1>1, ShiftedNat DEF reward_at

LEMMA ScoreNat ==
    ASSUME NEW m \in Metrics
    PROVE  score(m) \in Nat
<1>1. m.good \in Nat /\ m.bad \in Nat /\ MaxScore \in Nat
  BY PoolFinite DEF Metrics
<1> DEFINE x == m.good
           y == m.bad
<1>2. x \in Nat /\ y \in Nat
  BY <1>1
<1>3. score(m) = IF x + y = 0 THEN MaxScore \div 2 ELSE (x * MaxScore) \div (x + y)
  BY DEF score
<1> HIDE DEF x, y
<1>4. MaxScore \div 2 \in Nat
  BY <1>1
<1>5. ASSUME x + y # 0 PROVE (x * MaxScore) \div (x + y) \in Nat
  <2>1. x * MaxScore \in Nat /\ x + y \in Nat \ {0}
    BY <1>1, <1>2, <1>5
  <2> QED
    BY <2>1, DivFacts
<1> QED
  BY <1>3, <1>4, <1>5

LEMMA WeightNat ==
    ASSUME metrics \in [Accts -> Metrics], NEW a \in Accts
    PROVE  weight(a) \in Nat \ {0}
<1> DEFINE x == score(metrics[a])
<1>1. x \in Nat
  BY ScoreNat
<1>2. weight(a) = 1 + x * x
  BY DEF weight
<1> HIDE DEF x
<1> QED
  BY <1>1, <1>2

\* The calls and the sums, one operation of the ledger or the pool at a time.
LEMMA CallFacts ==
    ASSUME NEW m \in Calls
    PROVE  /\ InHand(m) \in Nat
           /\ m.kind = "none" => InHand(m) = 0
           /\ m.kind = "pay" => InHand(m) = 0 /\ m.left \in Owed /\ m.residue \in Nat
           /\ m.kind \in {"stake", "unbond"} =>
                m.acct \in Accts /\ m.amount \in Nat /\ InHand(m) = m.amount
           /\ m.kind = "stake" => m.unlock \in Int
BY DEF Calls, InHand, NoCall

LEMMA IdleCall == NoCall \in Calls /\ InHand(NoCall) = 0
BY DEF Calls, NoCall, InHand

LEMMA HoldingUpdate ==
    ASSUME NEW k \in [Callers -> Calls], NEW c \in Callers, NEW m \in Calls
    PROVE  /\ [k EXCEPT ![c] = m] \in [Callers -> Calls]
           /\ Holding(k) \in Int
           /\ Holding([k EXCEPT ![c] = m]) = Holding(k) + InHand(m) - InHand(k[c])
<1> DEFINE r == [k EXCEPT ![c] = m]
           f == InHands(k)
           g == InHands(r)
<1>1. r \in [Callers -> Calls] /\ r[c] = m /\ \A y \in Callers \ {c} : r[y] = k[y]
  OBVIOUS
<1> HIDE DEF r
<1>2. /\ f[c] = InHand(k[c]) /\ g[c] = InHand(m) /\ g[c] \in Int /\ IntOn(f, Callers)
      /\ \A y \in Callers \ {c} : g[y] = f[y]
  BY <1>1, CallFacts DEF InHands, IntOn
<1> HIDE DEF f, g
<1>3. DifferAt(f, g, Callers, c)
  BY <1>2, PoolFinite DEF DifferAt
<1>4. SumOver(f, Callers) \in Int /\ SumOver(g, Callers) = SumOver(f, Callers) + g[c] - f[c]
  BY <1>3, SumDiffers
<1> QED
  BY <1>1, <1>2, <1>4 DEF Holding, f, g, r

\* A caller enters or leaves a call.
LEMMA CallStep ==
    ASSUME TkInv, NEW c \in Callers, NEW m \in Calls, calls' = [calls EXCEPT ![c] = m]
    PROVE  /\ calls' \in [Callers -> Calls]
           /\ Holding(calls') = Holding(calls) + InHand(m) - InHand(calls[c])
<1>1. calls \in [Callers -> Calls]
  BY DEF TkInv
<1> QED
  BY <1>1, HoldingUpdate

LEMMA TracedFacts ==
    ASSUME TkInv
    PROVE  /\ SumOver(balances, Accts) \in Int /\ Staked(stakes) \in Int
           /\ Holding(calls) \in Int /\ \A c \in Callers : calls[c] \in Calls
<1>1. SumOver(balances, Accts) \in Int
  <2>1. IntOn(balances, Accts) /\ IsFiniteSet(Accts)
    BY PoolFinite DEF TkInv, IntOn
  <2> QED BY <2>1, SumSplit
<1>2. Staked(stakes) \in Int
  BY PoolWorth DEF TkInv
<1>3. calls \in [Callers -> Calls]
  BY DEF TkInv
<1>4. Holding(calls) \in Int
  <2>1. IntOn(InHands(calls), Callers) /\ IsFiniteSet(Callers)
    BY <1>3, CallFacts, PoolFinite DEF IntOn, InHands
  <2> QED BY <2>1, SumSplit DEF Holding
<1> QED
  BY <1>1, <1>2, <1>3, <1>4

\* What a mint changes, error or not.
LEMMA MintStep ==
    ASSUME TkInv, NEW a \in Accts, NEW n \in Nat, Minted(a, n)
    PROVE  /\ balances' \in [Accts -> Nat] /\ total' \in Int /\ total' <= MaxAmount
           /\ overflowed' \in BOOLEAN
           /\ SumOver(balances', Accts)
                = SumOver(balances, Accts) + (IF Credits(a, n) THEN n ELSE 0)
           /\ ~overflowed' => /\ ~overflowed /\ Credits(a, n) /\ total' = total + n
<1>1. /\ balances[a] \in Nat /\ balances \in [Accts -> Nat] /\ total \in Int
      /\ total <= MaxAmount /\ MaxAmount \in Nat
  BY PoolFinite DEF TkInv
<1>2. balances[a] + n \in Nat
  BY <1>1
<1>3. /\ balances' = IF Credits(a, n) THEN [balances EXCEPT ![a] = balances[a] + n] ELSE balances
      /\ total' = IF Mints(a, n) THEN total + n ELSE total
      /\ overflowed' = (overflowed \/ ~Mints(a, n))
  BY <1>1 DEF Minted
<1>4. total' \in Int /\ total' <= MaxAmount
  BY <1>1, <1>3 DEF Mints
<1>5. ~overflowed' => ~overflowed /\ Credits(a, n) /\ total' = total + n
  BY <1>3 DEF Mints
<1>6. /\ SumOver(balances, Accts) \in Int /\ [balances EXCEPT ![a] = balances[a] + n] \in [Accts -> Nat]
      /\ SumOver([balances EXCEPT ![a] = balances[a] + n], Accts)
           = SumOver(balances, Accts) + (balances[a] + n) - balances[a]
  BY <1>1, <1>2, BalanceUpdate
<1>7. CASE Credits(a, n)
  BY <1>1, <1>3, <1>4, <1>5, <1>6, <1>7
<1>8. CASE ~Credits(a, n)
  BY <1>1, <1>3, <1>4, <1>5, <1>6, <1>8
<1> QED
  BY <1>7, <1>8

LEMMA BurnStep ==
    ASSUME TkInv, NEW a \in Accts, NEW n \in Nat, Burnt(a, n)
    PROVE  /\ balances' \in [Accts -> Nat] /\ total' \in Int /\ total' <= MaxAmount
           /\ SumOver(balances', Accts) = SumOver(balances, Accts) - n
           /\ ~overflowed => total' = total - n
<1>1. /\ balances[a] \in Nat /\ balances \in [Accts -> Nat] /\ total \in Int
      /\ total <= MaxAmount /\ MaxAmount \in Nat
  BY PoolFinite DEF TkInv
<1>2. balances[a] - n \in Nat
  BY <1>1 DEF Burnt
<1>3. balances' = [balances EXCEPT ![a] = balances[a] - n] /\ total' = (total - n) % (MaxAmount + 1)
  BY <1>1 DEF Burnt, Wrapped
<1>4. /\ balances' \in [Accts -> Nat] /\ SumOver(balances, Accts) \in Int
      /\ SumOver(balances', Accts) = SumOver(balances, Accts) + (balances[a] - n) - balances[a]
  BY <1>1, <1>2, <1>3, BalanceUpdate
<1>5. total - n \in Int /\ total' \in Nat /\ total' <= MaxAmount
  BY <1>1, <1>3
<1>6. ASSUME ~overflowed PROVE total' = total - n
  <2>1. total = SumOver(balances, Accts)
    BY <1>6 DEF TkInv, Traced
  <2>2. SumOver(balances', Accts) >= 0
    BY <1>4, BalancesNat
  <2>3. total - n \in 0 .. MaxAmount
    BY <1>1, <1>4, <2>1, <2>2
  <2> QED
    BY <1>1, <1>3, <2>3, ModFacts
<1> QED
  BY <1>1, <1>4, <1>5, <1>6

LEMMA TransferStep ==
    ASSUME TkInv, NEW a \in Accts, NEW b \in Accts, NEW n \in Nat, transfer(a, b, n)
    PROVE  /\ balances' \in [Accts -> Nat] /\ overflowed' \in BOOLEAN
           /\ SumOver(balances', Accts) \in Int
           /\ SumOver(balances', Accts) <= SumOver(balances, Accts)
           /\ ~overflowed' => ~overflowed /\ SumOver(balances', Accts) = SumOver(balances, Accts)
<1> DEFINE mid == [balances EXCEPT ![a] = balances[a] - n]
           fits == mid[b] + n <= MaxAmount
<1>1. balances[a] \in Nat /\ balances \in [Accts -> Nat]
  BY DEF TkInv
<1>2. balances[a] - n \in Nat
  BY <1>1 DEF transfer
<1>3. /\ balances' = IF fits THEN [mid EXCEPT ![b] = mid[b] + n] ELSE mid
      /\ overflowed' = (overflowed \/ ~fits)
  BY <1>1, <1>2 DEF transfer
<1>4. /\ mid \in [Accts -> Nat] /\ SumOver(balances, Accts) \in Int
      /\ SumOver(mid, Accts) = SumOver(balances, Accts) + (balances[a] - n) - balances[a]
  BY <1>1, <1>2, BalanceUpdate
<1> HIDE DEF mid
<1> DEFINE x == mid[b] + n
<1>5. mid[b] \in Nat /\ x \in Nat
  BY <1>4
<1> HIDE DEF x
<1>6. /\ [mid EXCEPT ![b] = x] \in [Accts -> Nat] /\ SumOver(mid, Accts) \in Int
      /\ SumOver([mid EXCEPT ![b] = x], Accts) = SumOver(mid, Accts) + x - mid[b]
  BY <1>4, <1>5, BalanceUpdate
<1>7. balances' = IF fits THEN [mid EXCEPT ![b] = x] ELSE mid
  BY <1>3 DEF x
<1>8. x = mid[b] + n
  BY DEF x
<1> HIDE DEF fits
<1>9. overflowed' \in BOOLEAN /\ (~overflowed' => ~overflowed /\ fits)
  BY <1>3, Zenon
<1>10. CASE fits
  <2>1. balances' = [mid EXCEPT ![b] = x]
    BY <1>7, <1>10
  <2>2. SumOver(balances', Accts) = SumOver(balances, Accts)
    BY <1>1, <1>4, <1>5, <1>6, <1>8, <2>1
  <2> QED
    BY <1>4, <1>6, <1>9, <2>1, <2>2
<1>11. CASE ~fits
  <2>1. balances' = mid
    BY <1>7, <1>11
  <2>2. SumOver(balances', Accts) = SumOver(balances, Accts) - n
    BY <1>1, <1>4, <2>1
  <2> QED
    BY <1>4, <1>9, <1>11, <2>1, <2>2
<1> QED
  BY <1>10, <1>11

LEMMA LockStep ==
    ASSUME NEW s \in Pools, NEW m \in Calls, m.kind = "stake"
    PROVE  Locked(s, m) \in Pools /\ Staked(Locked(s, m)) = Staked(s) + InHand(m)
<1> DEFINE a == m.acct
           old == IF a \in DOMAIN s THEN s[a] ELSE [amount |-> 0, unlock |-> m.unlock]
           new == [amount |-> old.amount + m.amount,
                   unlock |-> IF m.unlock > old.unlock THEN m.unlock ELSE old.unlock]
<1>1. a \in Accts /\ m.amount \in Nat /\ m.unlock \in Int /\ InHand(m) = m.amount
  BY CallFacts
<1>2. \A y \in DOMAIN s : s[y] \in Stakes
  BY PoolFacts, Zenon
<1>3. old \in Stakes
  BY <1>1, <1>2 DEF Stakes
<1>4. Locked(s, m) = Staking(s, a, new)
  BY DEF Locked, Entry, Staking
<1>5. (a \in DOMAIN s => old = s[a]) /\ (a \notin DOMAIN s => old.amount = 0)
  OBVIOUS
<1> HIDE DEF old
<1>6. old.amount \in Nat /\ old.unlock \in Int
  BY <1>3 DEF Stakes
<1>8. new \in Stakes /\ new.amount = old.amount + m.amount
  BY <1>1, <1>6 DEF Stakes
<1> HIDE DEF new
<1>9. /\ Staking(s, a, new) \in Pools
      /\ a \in DOMAIN s => Staked(Staking(s, a, new)) = Staked(s) + new.amount - s[a].amount
      /\ a \notin DOMAIN s => Staked(Staking(s, a, new)) = Staked(s) + new.amount
  BY <1>1, <1>8, StakeUpdate
<1>10. Staked(s) \in Int
  BY PoolWorth
<1>11. Staked(Staking(s, a, new)) = Staked(s) + m.amount
  <2>1. CASE a \in DOMAIN s
    <3>1. Staked(Staking(s, a, new)) = Staked(s) + new.amount - old.amount
      BY <1>5, <1>9, <2>1, Zenon
    <3> QED BY <1>1, <1>6, <1>8, <1>10, <3>1
  <2>2. CASE a \notin DOMAIN s
    <3>1. Staked(Staking(s, a, new)) = Staked(s) + new.amount
      BY <1>9, <2>2, Zenon
    <3> QED BY <1>1, <1>5, <1>6, <1>8, <1>10, <2>2, <3>1
  <2> QED BY <2>1, <2>2
<1> QED
  BY <1>1, <1>4, <1>9, <1>11, Zenon

\* r is s after the slash of a by c / d.
CutFrom(s, a, c, d, cut, r) ==
    /\ s \in Pools /\ a \in DOMAIN s /\ c \in Nat /\ d \in Nat \ {0} /\ c <= d
    /\ cut = Wrapped(s[a].amount * c) \div d
    /\ r = IF s[a].amount - cut = 0 THEN Restrict(s, DOMAIN s \ {a})
           ELSE [s EXCEPT ![a].amount = s[a].amount - cut]

LEMMA SlashStep ==
    ASSUME NEW s, NEW a, NEW c, NEW d, NEW cut, NEW r, CutFrom(s, a, c, d, cut, r)
    PROVE  cut \in Nat /\ r \in Pools /\ Staked(r) = Staked(s) - cut
<1> USE DEF CutFrom
<1>1. a \in Accts /\ s[a] \in Stakes /\ s = [y \in DOMAIN s |-> s[y]]
  BY PoolFacts, Zenon
<1>2. s[a].amount \in Nat /\ s[a].unlock \in Int
  BY <1>1 DEF Stakes
<1>3. cut \in Nat /\ cut <= s[a].amount
  <2> DEFINE x == s[a].amount * c
             y == x % (MaxAmount + 1)
  <2>1. x \in Nat /\ MaxAmount \in Nat
    BY <1>2, PoolFinite
  <2>2. cut = y \div d
    BY DEF Wrapped
  <2>3. x \div d \in Nat /\ x \div d <= s[a].amount
    BY <1>2, CutBounded
  <2> HIDE DEF x
  <2>4. y \in Nat /\ y <= x
    BY <2>1, ModFacts
  <2> HIDE DEF y
  <2>5. y \div d \in Nat /\ y \div d <= x \div d
    BY <2>1, <2>4, DivMonotone
  <2> QED
    BY <1>2, <2>2, <2>3, <2>5
<1>4. Staked(s) \in Int
  BY PoolWorth
<1>5. CASE s[a].amount - cut = 0
  <2>1. r = Restrict(s, DOMAIN s \ {a})
    BY <1>5
  <2>2. r \in Pools /\ Staked(r) = Staked(s) - s[a].amount
    BY <2>1, StakeRemoved, Zenon
  <2> QED
    BY <1>2, <1>3, <1>5, <2>2
<1>6. CASE s[a].amount - cut # 0
  <2> DEFINE v == [amount |-> s[a].amount - cut, unlock |-> s[a].unlock]
  <2>1. v \in Stakes /\ v.amount = s[a].amount - cut
    BY <1>2, <1>3 DEF Stakes
  <2>2. r = Staking(s, a, v)
    <3>1. r = [s EXCEPT ![a].amount = s[a].amount - cut]
      BY <1>6
    <3>2. [s[a] EXCEPT !.amount = s[a].amount - cut] = v
      BY <1>1 DEF Stakes
    <3>3. r = [s EXCEPT ![a] = v]
      BY <3>1, <3>2
    <3>4. DOMAIN s \cup {a} = DOMAIN s
      OBVIOUS
    <3> HIDE DEF v
    <3> QED
      BY <1>1, <3>3, <3>4 DEF Staking
  <2> HIDE DEF v
  <2>3. /\ Staking(s, a, v) \in Pools
        /\ Staked(Staking(s, a, v)) = Staked(s) + v.amount - s[a].amount
    BY <1>1, <2>1, StakeUpdate
  <2>4. r \in Pools /\ Staked(r) = Staked(s) + v.amount - s[a].amount
    BY <2>2, <2>3, Zenon
  <2> QED
    BY <1>2, <1>3, <1>4, <2>1, <2>4
<1> QED
  BY <1>5, <1>6

LEMMA EmissionStep ==
    ASSUME TkInv, NEW e \in Nat, NEW c \in Callers, Distribute(c, e)
    PROVE  \E m \in Calls : m.kind = "pay" /\ calls' = [calls EXCEPT ![c] = m]
<1> DEFINE P == top_k(TopK)
           A == reward_at(e)
           w == [a \in P |-> weight(a)]
           W == SumOver(w, P)
           s == Shares(P, A)
<1>1. P \in SUBSET Accts /\ IsFiniteSet(P)
  BY PoolFinite, FS_Subset DEF top_k
<1>2. A \in Nat
  BY RewardNat
<1> HIDE DEF P, A
<1>3. w \in [P -> Nat \ {0}]
  BY <1>1, WeightNat DEF TkInv
<1>4. s = [a \in P |-> (w[a] * A) \div W]
  <2>1. Summed(w) = W
    BY DEF Summed, SumOver, MapThenSumSet, MapThenFoldSet
  <2> HIDE DEF W
  <2>2. s = [a \in P |-> (weight(a) * A) \div W]
    BY <2>1 DEF Shares
  <2> QED
    BY <2>2
<1>5. s \in [P -> Nat] /\ SumOver(s, P) \in Nat /\ SumOver(s, P) <= A
  <2> HIDE DEF w, W, s
  <2>1. W = SumOver(w, P)
    BY DEF W
  <2> QED
    BY <1>1, <1>2, <1>3, <1>4, <2>1, SharesBounded
<1>6. Summed(s) = SumOver(s, P)
  <2> HIDE DEF s
  <2>1. DOMAIN s = P
    BY <1>5
  <2> QED
    BY <2>1 DEF Summed, SumOver, MapThenSumSet, MapThenFoldSet
<1> DEFINE owed == {a \in DOMAIN s : s[a] > 0}
           l == Restrict(s, owed)
           m == [kind |-> "pay", left |-> l, residue |-> A - Summed(s)]
<1>7. calls' = [calls EXCEPT ![c] = m]
  BY DEF Distribute, Enters, P, A
<1> HIDE DEF s
<1>8. l \in Owed
  <2>1. owed \in SUBSET Accts /\ l \in [owed -> Nat]
    BY <1>1, <1>5 DEF Restrict
  <2> QED
    BY <2>1, Zenon DEF Owed
<1>9. A - Summed(s) \in Nat
  BY <1>2, <1>5, <1>6
<1> HIDE DEF l
<1>10. m \in Calls /\ m.kind = "pay"
  BY <1>8, <1>9 DEF Calls
<1> QED
  BY <1>7, <1>10

\* The call after one of its shares was minted.
LEMMA PayCall ==
    ASSUME NEW m \in Calls, m.kind = "pay", NEW R \in SUBSET DOMAIN m.left
    PROVE  /\ [m EXCEPT !.left = Restrict(m.left, R)] \in Calls
           /\ [m EXCEPT !.left = Restrict(m.left, R)].kind = "pay"
<1>1. m \in [kind : {"pay"}, left : Owed, residue : Nat]
  BY DEF Calls, NoCall
<1>2. PICK S \in SUBSET Accts : m.left \in [S -> Nat]
  BY <1>1, Zenon DEF Owed
<1>3. Restrict(m.left, R) \in [R -> Nat] /\ R \in SUBSET Accts
  BY <1>2 DEF Restrict
<1>4. Restrict(m.left, R) \in Owed
  BY <1>3, Zenon DEF Owed
<1>5. [m EXCEPT !.left = Restrict(m.left, R)] \in [kind : {"pay"}, left : Owed, residue : Nat]
  BY <1>1, <1>4
<1> QED
  BY <1>5, Zenon DEF Calls

LEMMA SharesOwed ==
    ASSUME NEW m \in Calls, m.kind = "pay", NEW a \in DOMAIN m.left
    PROVE  a \in Accts /\ m.left[a] \in Nat
<1>1. m \in [kind : {"pay"}, left : Owed, residue : Nat]
  BY DEF Calls, NoCall
<1>2. PICK S \in SUBSET Accts : m.left \in [S -> Nat]
  BY <1>1, Zenon DEF Owed
<1> QED
  BY <1>2

LEMMA TkInitInv == TkInit => TkInv
<1> SUFFICES ASSUME TkInit PROVE TkInv
  OBVIOUS
<1> USE DEF TkInit
<1>1. balances \in [Accts -> Nat] /\ \A a \in Accts : balances[a] = 0
  OBVIOUS
<1>2. metrics \in [Accts -> Metrics]
  BY DEF Metrics
<1>3. DOMAIN stakes = {}
  OBVIOUS
<1>4. stakes \in Pools
  <2>1. stakes = [a \in DOMAIN stakes |-> stakes[a]]
    OBVIOUS
  <2>2. DOMAIN stakes \subseteq Accts /\ \A a \in DOMAIN stakes : stakes[a] \in Stakes
    BY <1>3
  <2> QED
    BY <2>1, <2>2, PoolFacts, Zenon
<1>5. Staked(stakes) = 0
  BY <1>3, SumEmpty, Zenon DEF Staked
<1>6. SumOver(balances, Accts) = 0
  <2> DEFINE F == {R \in SUBSET Accts : SumOver(balances, R) = 0}
  <2>1. {} \in F
    BY SumEmpty
  <2>2. ASSUME NEW R \in SUBSET Accts, NEW x \in Accts \ R, R \in F PROVE R \cup {x} \in F
    <3>1. Grows(Accts, balances, R, x)
      BY <1>1, PoolFinite DEF Grows, IntOn
    <3>2. SumOver(balances, R \cup {x}) = balances[x] + SumOver(balances, R)
      BY <3>1, SumGrows
    <3>3. balances[x] = 0 /\ SumOver(balances, R) = 0
      BY <1>1, <2>2
    <3> QED
      BY <3>2, <3>3
  <2> HIDE DEF F
  <2>3. Accts \in F
    BY <2>1, <2>2, PoolFinite, SubsetInduction
  <2> QED
    BY <2>3 DEF F
<1>7. calls \in [Callers -> Calls] /\ \A c \in Callers : InHands(calls)[c] = 0
  BY IdleCall DEF InHands
<1>8. Holding(calls) = 0
  <2> DEFINE h == InHands(calls)
             F == {R \in SUBSET Callers : SumOver(h, R) = 0}
  <2>0. \A c \in Callers : h[c] = 0
    BY <1>7
  <2> HIDE DEF h
  <2>1. {} \in F
    BY SumEmpty
  <2>2. ASSUME NEW R \in SUBSET Callers, NEW x \in Callers \ R, R \in F PROVE R \cup {x} \in F
    <3>1. Grows(Callers, h, R, x)
      BY <2>0, PoolFinite DEF Grows, IntOn
    <3>2. SumOver(h, R \cup {x}) = h[x] + SumOver(h, R)
      BY <3>1, SumGrows
    <3>3. h[x] = 0 /\ SumOver(h, R) = 0
      BY <2>0, <2>2
    <3> QED
      BY <3>2, <3>3
  <2> HIDE DEF F
  <2>3. Callers \in F
    BY <2>1, <2>2, PoolFinite, SubsetInduction
  <2> QED
    BY <2>3 DEF F, h, Holding
<1>9. total = 0 /\ issued = 0 /\ slashed = 0 /\ epoch = 0 /\ overflowed = FALSE
  OBVIOUS
<1>10. Traced(balances, total, stakes, slashed, calls, issued, overflowed)
  BY <1>5, <1>6, <1>8, <1>9 DEF Traced
<1> QED
  <2>1. /\ total \in Int /\ total <= MaxAmount /\ slashed \in Nat /\ slashed <= MaxAmount
        /\ epoch \in Nat /\ issued \in Int
    BY <1>9, PoolFinite
  <2>2. overflowed \in BOOLEAN
    BY <1>9, Zenon
  <2> QED
    BY <1>1, <1>2, <1>4, <1>7, <1>10, <2>1, <2>2 DEF TkInv

LEMMA TkNextInv == TkInv /\ TkNext => TkInv'
<1> SUFFICES ASSUME TkInv, TkNext PROVE TkInv'
  OBVIOUS
<1> DEFINE B == SumOver(balances, Accts)
           S == Staked(stakes)
           H == Holding(calls)
           Typed == /\ balances \in [Accts -> Nat] /\ total \in Int /\ total <= MaxAmount
                    /\ stakes \in Pools /\ slashed \in Nat /\ slashed <= MaxAmount
                    /\ epoch \in Nat /\ calls \in [Callers -> Calls]
                    /\ metrics \in [Accts -> Metrics]
                    /\ issued \in Int /\ overflowed \in BOOLEAN
<1>t. Typed
  BY DEF TkInv
<1>f. B \in Int /\ S \in Int /\ H \in Int /\ \A c \in Callers : calls[c] \in Calls
  BY TracedFacts
<1>e. B + S + slashed + H <= issued /\ (~overflowed => B + S + slashed + H = issued /\ total = B)
  BY DEF TkInv, Traced
\* What is left to show once the sums after the step are known.
<1>s. ASSUME Typed', B' \in Int, S' \in Int, H' \in Int,
             B' + S' + slashed' + H' <= issued',
             ~overflowed' => B' + S' + slashed' + H' = issued' /\ total' = B'
      PROVE  TkInv'
  BY <1>s DEF TkInv, Traced
<1> HIDE DEF B, S, H
<1>1. ASSUME NEW a \in Accts, NEW n \in Amounts, mint(a, n) PROVE TkInv'
  <2>1. n \in Nat
    BY PoolFinite
  <2>2. /\ balances' \in [Accts -> Nat] /\ total' \in Int /\ total' <= MaxAmount
        /\ overflowed' \in BOOLEAN /\ B' = B + (IF Credits(a, n) THEN n ELSE 0)
        /\ ~overflowed' => ~overflowed /\ Credits(a, n) /\ total' = total + n
    BY <1>1, <2>1, MintStep DEF mint, B
  <2>3. /\ issued' = IF Credits(a, n) THEN issued + n ELSE issued
        /\ UNCHANGED <<stakes, epoch, slashed, calls, metrics>>
    BY <1>1 DEF mint, Issued, pool
  <2>4. S' = S /\ H' = H
    BY <2>3 DEF S, H
  <2> QED
    BY <1>t, <1>f, <1>e, <1>s, <2>1, <2>2, <2>3, <2>4
<1>2. ASSUME NEW a \in Accts, NEW n \in Amounts, burn(a, n) PROVE TkInv'
  <2>1. n \in Nat
    BY PoolFinite
  <2>2. /\ balances' \in [Accts -> Nat] /\ total' \in Int /\ total' <= MaxAmount
        /\ B' = B - n /\ (~overflowed => total' = total - n)
    BY <1>2, <2>1, BurnStep DEF burn, B
  <2>3. issued' = issued - n /\ UNCHANGED <<stakes, epoch, slashed, calls, metrics, overflowed>>
    BY <1>2 DEF burn, pool
  <2>4. S' = S /\ H' = H
    BY <2>3 DEF S, H
  <2> QED
    BY <1>t, <1>f, <1>e, <1>s, <2>1, <2>2, <2>3, <2>4
<1>3. ASSUME NEW a \in Accts, NEW n \in Amounts, NEW b \in Accts, transfer(a, b, n) PROVE TkInv'
  <2>1. n \in Nat
    BY PoolFinite
  <2>2. /\ balances' \in [Accts -> Nat] /\ overflowed' \in BOOLEAN /\ B' \in Int /\ B' <= B
        /\ ~overflowed' => ~overflowed /\ B' = B
    BY <1>3, <2>1, TransferStep DEF B
  <2>3. UNCHANGED <<total, stakes, epoch, slashed, calls, metrics, issued>>
    BY <1>3 DEF transfer, pool
  <2>4. S' = S /\ H' = H
    BY <2>3 DEF S, H
  <2>5. Typed'
    BY <1>t, <2>2, <2>3
  <2>6. B' + S' + slashed' + H' <= issued'
    <3>1. /\ B' \in Int /\ B' <= B /\ S' = S /\ H' = H /\ slashed' = slashed /\ issued' = issued
          /\ slashed \in Nat /\ issued \in Int
      BY <1>t, <2>2, <2>3, <2>4
    <3>2. B + S + slashed + H <= issued
      BY <1>e
    <3>3. B \in Int /\ S \in Int /\ H \in Int
      BY <1>f
    <3>4. B' + S + slashed + H <= issued
      <4>1. PICK x \in Int : x = B'
        BY ONLY <3>1
      <4>2. x <= B
        BY ONLY <3>1, <4>1
      <4>3. x + S + slashed + H <= issued
        BY ONLY <3>1, <3>2, <3>3, <4>2
      <4> QED
        BY ONLY <4>1, <4>3
    <3> QED
      BY ONLY <3>1, <3>4
  <2>7. ASSUME ~overflowed' PROVE B' + S' + slashed' + H' = issued' /\ total' = B'
    BY <1>t, <1>f, <1>e, <2>2, <2>3, <2>4, <2>7
  <2>8. B' \in Int /\ S' \in Int /\ H' \in Int
    BY <1>f, <2>2, <2>4
  <2> HIDE DEF Typed
  <2> QED
    BY <1>s, <2>5, <2>6, <2>7, <2>8
<1>4. ASSUME NEW a \in Accts, NEW n \in Amounts, NEW c \in Callers, NEW u \in Unlocks,
             StakeBurn(c, a, n, u)
      PROVE  TkInv'
  <2> DEFINE m == [kind |-> "stake", acct |-> a, amount |-> n, unlock |-> u]
  <2>1. n \in Nat /\ u \in Nat
    BY PoolFinite
  <2>2. /\ balances' \in [Accts -> Nat] /\ total' \in Int /\ total' <= MaxAmount
        /\ B' = B - n /\ (~overflowed => total' = total - n)
    BY <1>4, <2>1, BurnStep DEF StakeBurn, B
  <2>3. /\ calls[c] = NoCall /\ calls' = [calls EXCEPT ![c] = m]
        /\ UNCHANGED <<stakes, epoch, slashed, metrics, issued, overflowed>>
    BY <1>4 DEF StakeBurn, Enters, pool, history
  <2>4. m \in Calls /\ InHand(m) = n
    BY <2>1 DEF Calls, InHand
  <2> HIDE DEF m
  <2>5. calls' \in [Callers -> Calls] /\ H' = H + n - InHand(calls[c]) /\ InHand(calls[c]) = 0
    BY <2>3, <2>4, CallStep, IdleCall DEF H
  <2>6. S' = S
    BY <2>3 DEF S
  <2> QED
    BY <1>t, <1>f, <1>e, <1>s, <2>1, <2>2, <2>3, <2>5, <2>6
<1>5. ASSUME NEW c \in Callers, StakeLock(c) PROVE TkInv'
  <2> DEFINE m == calls[c]
             fits == Entry(stakes, calls[c]).amount + calls[c].amount <= MaxAmount
  <2>1. /\ m.kind = "stake" /\ stakes' = (IF fits THEN Locked(stakes, m) ELSE stakes)
        /\ overflowed' = (overflowed \/ ~fits)
        /\ calls' = [calls EXCEPT ![c] = NoCall]
        /\ UNCHANGED <<balances, total, epoch, slashed, metrics, issued>>
    BY <1>5 DEF StakeLock, Returns, ledger
  <2>2. m \in Calls /\ InHand(m) \in Nat
    BY <1>f, CallFacts
  <2>3. calls' \in [Callers -> Calls] /\ H' = H + InHand(NoCall) - InHand(m)
    BY <2>1, CallStep, IdleCall DEF H
  <2> HIDE DEF m, fits
  <2>4. Locked(stakes, m) \in Pools /\ Staked(Locked(stakes, m)) = S + InHand(m)
    BY <1>t, <2>1, <2>2, LockStep DEF S
  <2>5. B' = B /\ InHand(NoCall) = 0
    BY <2>1, IdleCall DEF B
  <2>6. CASE fits
    <3>1. stakes' \in Pools /\ S' = S + InHand(m) /\ overflowed' = overflowed
      BY <1>t, <2>1, <2>4, <2>6 DEF S
    <3> QED
      BY <1>t, <1>f, <1>e, <1>s, <2>1, <2>2, <2>3, <2>5, <3>1
  <2>7. CASE ~fits
    <3>1. stakes' = stakes /\ S' = S /\ overflowed' = TRUE
      BY <2>1, <2>7 DEF S
    <3> QED
      BY <1>t, <1>f, <1>e, <1>s, <2>1, <2>2, <2>3, <2>5, <3>1
  <2> QED
    BY <2>6, <2>7
<1>6. ASSUME NEW c \in Callers, UnbondMint(c) PROVE TkInv'
  <2> DEFINE m == calls[c]
             n == m.amount
             a == m.acct
  <2>1. /\ m.kind = "unbond" /\ Minted(a, n)
        /\ calls' = [calls EXCEPT ![c] = NoCall]
        /\ UNCHANGED <<stakes, epoch, slashed, metrics, issued>>
    BY <1>6 DEF UnbondMint, Returns, pool
  <2>2. a \in Accts /\ n \in Nat /\ InHand(m) = n
    BY <1>f, <2>1, CallFacts
  <2>3. calls' \in [Callers -> Calls] /\ H' = H + InHand(NoCall) - InHand(m)
    BY <2>1, CallStep, IdleCall DEF H
  <2> HIDE DEF m, n, a
  <2>4. /\ balances' \in [Accts -> Nat] /\ total' \in Int /\ total' <= MaxAmount
        /\ overflowed' \in BOOLEAN /\ B' = B + (IF Credits(a, n) THEN n ELSE 0)
        /\ ~overflowed' => ~overflowed /\ Credits(a, n) /\ total' = total + n
    BY <2>1, <2>2, MintStep DEF B
  <2>5. S' = S /\ InHand(NoCall) = 0
    BY <2>1, IdleCall DEF S
  <2> QED
    BY <1>t, <1>f, <1>e, <1>s, <2>1, <2>2, <2>3, <2>4, <2>5
<1>7. ASSUME NEW c \in Callers, NEW a \in Accts, UnbondRemove(c, a) PROVE TkInv'
  <2> DEFINE n == stakes[a].amount
             m == [kind |-> "unbond", acct |-> a, amount |-> n]
  <2>1. /\ a \in DOMAIN stakes
        /\ calls[c] = NoCall /\ calls' = [calls EXCEPT ![c] = m]
        /\ stakes' = Restrict(stakes, DOMAIN stakes \ {a})
        /\ UNCHANGED <<balances, total, epoch, slashed, metrics, issued, overflowed>>
    BY <1>7 DEF UnbondRemove, Enters, ledger, history
  <2>2. stakes' \in Pools /\ S' = S - n
    BY <1>t, <2>1, StakeRemoved DEF S
  <2>3. n \in Nat
    <3>1. stakes[a] \in Stakes
      BY <1>t, <2>1, PoolFacts
    <3> QED BY <3>1 DEF Stakes
  <2> HIDE DEF n
  <2>4. m \in Calls /\ InHand(m) = n
    BY <2>3 DEF Calls, InHand
  <2> HIDE DEF m
  <2>5. calls' \in [Callers -> Calls] /\ H' = H + n - InHand(calls[c]) /\ InHand(calls[c]) = 0
    BY <2>1, <2>4, CallStep, IdleCall DEF H
  <2>6. B' = B
    BY <2>1 DEF B
  <2> QED
    BY <1>t, <1>f, <1>e, <1>s, <2>1, <2>2, <2>3, <2>5, <2>6
<1>8. ASSUME NEW a \in Accts, NEW f \in Fractions, slash(a, f[1], f[2]) PROVE TkInv'
  <2> DEFINE cut == Wrapped(stakes[a].amount * f[1]) \div f[2]
  <2>1. f[1] \in Nat /\ f[2] \in Nat \ {0} /\ f[1] <= f[2] /\ MaxAmount \in Nat
    BY PoolFinite
  <2>2. /\ a \in DOMAIN stakes /\ slashed' = Wrapped(slashed + cut)
        /\ overflowed' = (overflowed \/ slashed + cut > MaxAmount)
        /\ stakes' = IF stakes[a].amount - cut = 0 THEN Restrict(stakes, DOMAIN stakes \ {a})
                     ELSE [stakes EXCEPT ![a].amount = stakes[a].amount - cut]
        /\ UNCHANGED <<balances, total, epoch, calls, metrics, issued>>
    BY <1>8 DEF slash, ledger
  <2>3. cut = Wrapped(stakes[a].amount * f[1]) \div f[2]
    OBVIOUS
  <2> HIDE DEF cut
  <2>4. cut \in Nat /\ stakes' \in Pools /\ S' = S - cut
    <3>1. CutFrom(stakes, a, f[1], f[2], cut, stakes')
      BY <1>t, <2>1, <2>2, <2>3 DEF CutFrom
    <3> QED
      BY <3>1, SlashStep DEF S
  <2> DEFINE x == slashed + cut
  <2>5. x \in Nat /\ slashed' = x % (MaxAmount + 1)
    BY <1>t, <2>2, <2>4 DEF Wrapped
  <2>6. /\ slashed' \in Nat /\ slashed' <= MaxAmount /\ slashed' <= slashed + cut
        /\ slashed + cut <= MaxAmount => slashed' = slashed + cut
    <3>1. x \in Int /\ (x <= MaxAmount => x \in 0 .. MaxAmount)
      BY <2>1, <2>5
    <3> HIDE DEF x
    <3>2. /\ x % (MaxAmount + 1) \in Nat /\ x % (MaxAmount + 1) <= x
          /\ x <= MaxAmount => x % (MaxAmount + 1) = x
      BY <2>1, <2>5, <3>1, ModFacts
    <3>3. x % (MaxAmount + 1) <= MaxAmount
      BY <2>1, <2>5
    <3> QED
      BY <2>5, <3>2, <3>3 DEF x
  <2>7. B' = B /\ H' = H
    BY <2>2 DEF B, H
  <2>8. overflowed' \in BOOLEAN /\ (~overflowed' => ~overflowed /\ ~(slashed + cut > MaxAmount))
    BY <2>2, Zenon
  <2>9. Typed'
    BY <1>t, <2>2, <2>4, <2>6, <2>8
  <2>10. B' \in Int /\ S' \in Int /\ H' \in Int
    BY <1>f, <2>4, <2>7
  <2>11. B' + S' + slashed' + H' <= issued'
    BY <1>t, <1>f, <1>e, <2>2, <2>4, <2>6, <2>7
  <2>12. ASSUME ~overflowed' PROVE B' + S' + slashed' + H' = issued' /\ total' = B'
    <3>1. slashed' = slashed + cut /\ ~overflowed
      BY <1>t, <2>1, <2>4, <2>6, <2>8, <2>12
    <3> QED
      BY <1>t, <1>f, <1>e, <2>2, <2>4, <2>7, <3>1
  <2> HIDE DEF Typed
  <2> QED
    BY <1>s, <2>9, <2>10, <2>11, <2>12
<1>9. ASSUME NEW e \in 0 .. MaxEpoch, set_epoch(e) PROVE TkInv'
  <2>1. e \in Nat /\ epoch' = e
        /\ UNCHANGED <<balances, total, stakes, slashed, calls, metrics, issued, overflowed>>
    BY <1>9, PoolFinite DEF set_epoch, ledger, history
  <2> QED
    BY <2>1 DEF TkInv, Traced
<1>10. ASSUME NEW a \in Accts, NEW f \in {"good", "bad"}, record(a, f) PROVE TkInv'
  <2>1. UNCHANGED <<balances, total, stakes, epoch, slashed, calls, issued, overflowed>>
    BY <1>10 DEF record, ledger, pool, history
  <2>2. metrics' \in [Accts -> Metrics]
    <3> DEFINE m == metrics[a]
               v == [m EXCEPT ![f] = m[f] + 1]
    <3>1. m \in Metrics
      BY <1>t
    <3>2. v \in Metrics
      <4> HIDE DEF m
      <4>1. m[f] + 1 \in Nat
        BY <3>1 DEF Metrics
      <4> QED
        BY <3>1, <4>1 DEF Metrics
    <3>3. metrics' = [metrics EXCEPT ![a] = v]
      BY <1>10, <1>t DEF record
    <3> HIDE DEF v
    <3> QED
      BY <1>t, <3>2, <3>3
  <2> QED
    BY <2>1, <2>2 DEF TkInv, Traced
<1>11. ASSUME NEW c \in Callers, Distribute(c, epoch) PROVE TkInv'
  <2>1. PICK m \in Calls : m.kind = "pay" /\ calls' = [calls EXCEPT ![c] = m]
    BY <1>t, <1>11, EmissionStep
  <2>2. /\ calls[c] = NoCall
        /\ UNCHANGED <<balances, total, stakes, epoch, slashed, metrics, issued, overflowed>>
    BY <1>11 DEF Distribute, Enters, ledger, pool, history
  <2>3. /\ calls' \in [Callers -> Calls] /\ H' = H + InHand(m) - InHand(calls[c])
        /\ InHand(m) = 0 /\ InHand(calls[c]) = 0
    BY <2>1, <2>2, CallStep, CallFacts, IdleCall DEF H
  <2>4. B' = B /\ S' = S
    BY <2>2 DEF B, S
  <2> QED
    BY <1>t, <1>f, <1>e, <1>s, <2>2, <2>3, <2>4
<1>12. ASSUME NEW c \in Callers, NEW a \in Accts, PayShare(c, a) PROVE TkInv'
  <2> DEFINE m == calls[c]
             n == m.left[a]
             rest == DOMAIN m.left \ {a}
             after == IF rest # {} /\ Mints(a, n) THEN [m EXCEPT !.left = Restrict(m.left, rest)]
                      ELSE NoCall
  <2>1. /\ m.kind = "pay" /\ a \in DOMAIN m.left /\ Minted(a, n)
        /\ issued' = IF Credits(a, n) THEN issued + n ELSE issued
        /\ UNCHANGED <<stakes, epoch, slashed, metrics>>
    BY <1>12 DEF PayShare, Issued, pool
  <2>2. m \in Calls /\ InHand(m) = 0
    BY <1>f, <2>1, CallFacts
  <2>3. n \in Nat
    BY <2>1, <2>2, SharesOwed
  <2>4. after \in Calls /\ InHand(after) = 0
    <3>1. rest \in SUBSET DOMAIN m.left
      OBVIOUS
    <3> HIDE DEF m, n, rest
    <3>2. /\ [m EXCEPT !.left = Restrict(m.left, rest)] \in Calls
          /\ [m EXCEPT !.left = Restrict(m.left, rest)].kind = "pay"
      BY <2>1, <2>2, <3>1, PayCall
    <3>3. InHand([m EXCEPT !.left = Restrict(m.left, rest)]) = 0
      BY <3>2, CallFacts
    <3> QED
      BY <3>2, <3>3, IdleCall
  <2>5. calls' = [calls EXCEPT ![c] = after]
    BY <1>t, <1>12 DEF PayShare, Returns
  <2> HIDE DEF after
  <2>6. calls' \in [Callers -> Calls] /\ H' = H + InHand(after) - InHand(m)
    BY <2>4, <2>5, CallStep DEF H
  <2> HIDE DEF m, n
  <2>7. /\ balances' \in [Accts -> Nat] /\ total' \in Int /\ total' <= MaxAmount
        /\ overflowed' \in BOOLEAN /\ B' = B + (IF Credits(a, n) THEN n ELSE 0)
        /\ ~overflowed' => ~overflowed /\ Credits(a, n) /\ total' = total + n
    BY <2>1, <2>3, MintStep DEF B
  <2>8. S' = S
    BY <2>1 DEF S
  <2> QED
    BY <1>t, <1>f, <1>e, <1>s, <2>1, <2>2, <2>3, <2>4, <2>6, <2>7, <2>8
<1> QED
  BY <1>1, <1>2, <1>3, <1>4, <1>5, <1>6, <1>7, <1>8, <1>9, <1>10, <1>11, <1>12 DEF TkNext

LEMMA TkInvSound == TkInv => SupplyTraced
<1> SUFFICES ASSUME TkInv PROVE SupplyTraced
  OBVIOUS
<1>1. DOMAIN balances = Accts
  BY DEF TkInv
<1>2. ASSUME NEW f PROVE Summed(f) = SumOver(f, DOMAIN f)
  BY DEF Summed, SumOver, MapThenSumSet, MapThenFoldSet
<1>3. Summed(balances) = SumOver(balances, Accts)
  BY <1>1, <1>2
<1>4. total_staked = Staked(stakes)
  <2>1. DOMAIN Worth(stakes) = DOMAIN stakes
    BY DEF Worth
  <2>2. Summed(Worth(stakes)) = SumOver(Worth(stakes), DOMAIN Worth(stakes))
    BY <1>2
  <2>3. total_staked = Summed(Worth(stakes))
    BY DEF total_staked, Worth
  <2> QED
    BY <2>1, <2>2, <2>3, Zenon DEF Staked
<1>5. in_hand = Holding(calls)
  <2>1. DOMAIN InHands(calls) = Callers
    BY DEF InHands
  <2>2. Summed(InHands(calls)) = SumOver(InHands(calls), DOMAIN InHands(calls))
    BY <1>2
  <2>3. in_hand = Summed(InHands(calls))
    BY DEF in_hand, InHands
  <2> QED
    BY <2>1, <2>2, <2>3, Zenon DEF Holding
<1>6. ASSUME NEW c \in Callers, calls[c].kind = "pay" PROVE calls[c].residue >= 0
  BY <1>6, TracedFacts, CallFacts
<1>7. /\ SumOver(balances, Accts) \in Int /\ Staked(stakes) \in Int /\ Holding(calls) \in Int
      /\ slashed \in Nat /\ issued \in Int
  BY TracedFacts DEF TkInv
<1>8. /\ SumOver(balances, Accts) + Staked(stakes) + slashed + Holding(calls) <= issued
      /\ ~overflowed => /\ SumOver(balances, Accts) + Staked(stakes) + slashed + Holding(calls) = issued
                        /\ total = SumOver(balances, Accts)
  BY DEF TkInv, Traced
<1> QED
  BY <1>3, <1>4, <1>5, <1>6, <1>7, <1>8 DEF SupplyTraced

(***************************************************************************)
(* The relay's accounts                                                    *)
(***************************************************************************)
EventKinds == {"object_registered", "account_funded", "spend_finalized", "equivocation_rejected",
               "relay_forwarded", "credit_debited", "relay_gated"}
BilledEvents == [kind : EventKinds, version : Nat, amount : Int]
OfKind(e, k) == IF e.kind = k THEN e.amount ELSE 0
Entries(t, k) == [i \in DOMAIN t |-> OfKind(t[i], k)]
Booked(t, k) == SumOver(Entries(t, k), DOMAIN t)

\* The events of kind k name different versions, all before v.
Versioned(t, k, v) ==
    /\ \A i \in DOMAIN t : t[i].kind = k => t[i].version < v
    /\ \A i, j \in DOMAIN t : t[i].kind = k /\ t[j].kind = k /\ t[i].version = t[j].version => i = j

\* The answered debits lie within the first n events.
Kept(t, n, fs) == \A i \in fs : i \in 1 .. n /\ t[i].kind = "credit_debited"

Balances(t, b) ==
    /\ Booked(t, "relay_forwarded") = Booked(t, "credit_debited")
    /\ b = Booked(t, "account_funded") - Booked(t, "credit_debited")

\* BilledOnce is not inductive: that no version is debited twice rests on every debited
\* version being below the object's, and that an answered debit outlives a power cut on
\* its lying in the synced prefix.
BlInv ==
    /\ trace \in Seq(BilledEvents) /\ version \in Nat /\ balance \in Int
    /\ synced \in Nat /\ synced <= Len(trace)
    /\ Versioned(trace, "spend_finalized", version) /\ Versioned(trace, "credit_debited", version)
    /\ Kept(trace, synced, forwarded)
    /\ up => Balances(trace, balance)

LEMMA AppendFacts ==
    ASSUME NEW t \in Seq(BilledEvents), NEW e \in BilledEvents
    PROVE  /\ Append(t, e) \in Seq(BilledEvents) /\ Len(t) \in Nat /\ DOMAIN t = 1 .. Len(t)
           /\ Len(Append(t, e)) = Len(t) + 1
           /\ DOMAIN Append(t, e) = 1 .. (Len(t) + 1)
           /\ Append(t, e)[Len(t) + 1] = e
           /\ \A i \in 1 .. Len(t) : Append(t, e)[i] = t[i]
OBVIOUS

LEMMA BookedInt ==
    ASSUME NEW t \in Seq(BilledEvents), NEW k
    PROVE  /\ IsFiniteSet(DOMAIN t) /\ IntOn(Entries(t, k), DOMAIN t)
           /\ Booked(t, k) \in Int
<1>1. DOMAIN t = 1 .. Len(t) /\ Len(t) \in Nat /\ \A i \in DOMAIN t : t[i] \in BilledEvents
  OBVIOUS
<1>2. IsFiniteSet(DOMAIN t)
  <2>1. IsFiniteSet(1 .. Len(t))
    BY <1>1, FS_Interval
  <2> QED
    BY <1>1, <2>1, Zenon
<1>3. IntOn(Entries(t, k), DOMAIN t)
  BY <1>1 DEF IntOn, Entries, OfKind, BilledEvents
<1> QED
  BY <1>2, <1>3, SumSplit DEF Booked

LEMMA BookedAppend ==
    ASSUME NEW t \in Seq(BilledEvents), NEW e \in BilledEvents, NEW k
    PROVE  Booked(Append(t, e), k) = Booked(t, k) + OfKind(e, k)
<1> DEFINE u == Append(t, e)
           D == DOMAIN t
           U == DOMAIN u
           n == Len(t) + 1
           f == Entries(t, k)
           g == Entries(u, k)
<1>1. /\ u \in Seq(BilledEvents) /\ D = 1 .. Len(t) /\ U = 1 .. n /\ Len(t) \in Nat
      /\ u[n] = e /\ \A i \in D : u[i] = t[i]
  BY AppendFacts
<1>2. U = D \cup {n} /\ n \in U \ D /\ D \in SUBSET U
  BY <1>1
<1>3. IsFiniteSet(U) /\ IntOn(g, U)
  BY <1>1, BookedInt
<1>4. IsFiniteSet(D) /\ IntOn(f, D) /\ Booked(t, k) \in Int
  BY BookedInt
<1>5. g[n] = OfKind(e, k) /\ \A i \in D : g[i] = f[i]
  BY <1>1, <1>2 DEF Entries
<1>6. OfKind(e, k) \in Int
  BY DEF OfKind, BilledEvents
<1> HIDE DEF u, D, U, n, f, g
<1>7. SumOver(g, D \cup {n}) = g[n] + SumOver(g, D)
  <2>1. Grows(U, g, D, n)
    BY <1>2, <1>3 DEF Grows
  <2> QED
    BY <2>1, SumGrows
<1>8. SumOver(g, D) = SumOver(f, D)
  BY <1>4, <1>5, SumSame
<1>9. Booked(u, k) = SumOver(g, D \cup {n}) /\ Booked(t, k) = SumOver(f, D)
  BY <1>2, Zenon DEF Booked, U, D, f, g
<1>10. Booked(u, k) = Booked(t, k) + OfKind(e, k)
  BY <1>4, <1>5, <1>6, <1>7, <1>8, <1>9
<1> QED
  BY <1>10 DEF u

LEMMA VersionedAppend ==
    ASSUME NEW t \in Seq(BilledEvents), NEW e \in BilledEvents, NEW k, NEW v \in Nat,
           Versioned(t, k, v)
    PROVE  /\ e.kind # k => Versioned(Append(t, e), k, v)
           /\ e.version = v => Versioned(Append(t, e), k, v + 1)
           /\ Versioned(t, k, v + 1)
<1> DEFINE u == Append(t, e)
           n == Len(t) + 1
<1>1. /\ DOMAIN t = 1 .. Len(t) /\ DOMAIN u = 1 .. n /\ Len(t) \in Nat
      /\ u[n] = e /\ \A i \in 1 .. Len(t) : u[i] = t[i]
  BY AppendFacts
<1>2. \A i \in DOMAIN u : i = n \/ (i \in DOMAIN t /\ u[i] = t[i] /\ i # n)
  BY <1>1
<1>3. \A i \in DOMAIN t : t[i].version \in Nat
  <2>1. \A i \in DOMAIN t : t[i] \in BilledEvents
    OBVIOUS
  <2> QED
    BY <2>1 DEF BilledEvents
<1>4. e.version \in Nat
  BY DEF BilledEvents
<1> HIDE DEF u, n
<1>5. e.kind # k => Versioned(u, k, v)
  BY <1>1, <1>2 DEF Versioned
<1>6. e.version = v => Versioned(u, k, v + 1)
  <2> SUFFICES ASSUME e.version = v PROVE Versioned(u, k, v + 1)
    OBVIOUS
  <2>1. ASSUME NEW i \in DOMAIN u, u[i].kind = k
        PROVE  u[i].version \in Nat /\ u[i].version < v + 1 /\ (u[i].version = v <=> i = n)
    <3>1. CASE i = n
      BY <1>1, <1>4, <3>1
    <3>2. CASE i # n
      <4>1. i \in DOMAIN t /\ u[i] = t[i] /\ t[i].kind = k
        BY <1>2, <2>1, <3>2
      <4>2. t[i].version \in Nat /\ t[i].version < v
        BY <1>3, <4>1 DEF Versioned
      <4> QED
        BY <3>2, <4>1, <4>2
    <3> QED BY <3>1, <3>2
  <2>2. ASSUME NEW i \in DOMAIN u, NEW j \in DOMAIN u, u[i].kind = k, u[j].kind = k,
               u[i].version = u[j].version
        PROVE  i = j
    <3>1. CASE i = n
      BY <2>1, <2>2, <3>1
    <3>2. CASE i # n
      <4>1. j # n
        BY <2>1, <2>2, <3>2
      <4>2. /\ i \in DOMAIN t /\ u[i] = t[i] /\ j \in DOMAIN t /\ u[j] = t[j]
        BY <1>2, <3>2, <4>1
      <4> QED
        BY <2>2, <4>2 DEF Versioned
    <3> QED BY <3>1, <3>2
  <2> QED
    BY <2>1, <2>2 DEF Versioned
<1>7. Versioned(t, k, v + 1)
  BY <1>3 DEF Versioned
<1> QED
  BY <1>5, <1>6, <1>7 DEF u

LEMMA KeptAppend ==
    ASSUME NEW t \in Seq(BilledEvents), NEW e \in BilledEvents, NEW n \in Nat, n <= Len(t), NEW fs,
           Kept(t, n, fs)
    PROVE  /\ Kept(Append(t, e), n, fs) /\ Kept(Append(t, e), Len(t) + 1, fs)
           /\ e.kind = "credit_debited" => Kept(Append(t, e), Len(t) + 1, fs \cup {Len(t) + 1})
<1> DEFINE u == Append(t, e)
           m == Len(t)
<1>1. /\ m \in Nat /\ n <= m /\ u[m + 1] = e /\ \A i \in 1 .. m : u[i] = t[i]
  BY AppendFacts
<1> HIDE DEF u, m
<1>2. \A i \in fs : i \in 1 .. n /\ i \in 1 .. m /\ i \in 1 .. (m + 1) /\ u[i].kind = "credit_debited"
  BY <1>1 DEF Kept
<1>3. Kept(u, n, fs) /\ Kept(u, m + 1, fs)
  BY <1>2 DEF Kept
<1>4. e.kind = "credit_debited" => Kept(u, m + 1, fs \cup {m + 1})
  BY <1>1, <1>2 DEF Kept
<1> QED
  BY <1>3, <1>4 DEF u, m

\* What a decision about a packet leaves, before its sync.
Decided(gated) ==
    /\ trace' \in Seq(BilledEvents) /\ version' \in Nat /\ balance' \in Int
    /\ Len(trace') \in Nat /\ synced <= Len(trace')
    /\ Versioned(trace', "spend_finalized", version') /\ Versioned(trace', "credit_debited", version')
    /\ Kept(trace', synced, forwarded) /\ Kept(trace', Len(trace'), forwarded)
    /\ ~gated => Kept(trace', Len(trace'), forwarded \cup {Len(trace')})
    /\ Balances(trace', balance')

LEMMA BillingFacts == Opening \in Nat /\ Rate \in Nat /\ Chunks \subseteq Nat
BY BillingAssumption, Zenon

LEMMA EventFacts ==
    ASSUME NEW k \in EventKinds, NEW v \in Nat, NEW n \in Int
    PROVE  /\ Event(k, v, n) \in BilledEvents /\ Event(k, v, n).kind = k
           /\ Event(k, v, n).version = v
           /\ \A j : OfKind(Event(k, v, n), j) = IF k = j THEN n ELSE 0
BY DEF Event, BilledEvents, OfKind

LEMMA GatedStep ==
    ASSUME BlInv, up, NEW kib \in Nat, Decide(kib), Gated(kib)
    PROVE  Decided(TRUE)
<1> DEFINE e == Event("relay_gated", 0, kib)
           u == Append(trace, e)
<1>1. /\ e \in BilledEvents /\ e.kind = "relay_gated"
      /\ \A j : OfKind(e, j) = IF "relay_gated" = j THEN kib ELSE 0
  BY EventFacts DEF EventKinds
<1>2. trace' = trace \o <<e>> /\ version' = version /\ balance' = balance
  BY DEF Decide, Ships
<1> HIDE DEF e
<1>3. trace' = u
  BY <1>1, <1>2 DEF BlInv
<1>4. /\ u \in Seq(BilledEvents) /\ Len(trace) \in Nat /\ Len(u) = Len(trace) + 1
  BY <1>1, AppendFacts DEF BlInv
<1>5. Versioned(u, "spend_finalized", version) /\ Versioned(u, "credit_debited", version)
  BY <1>1, VersionedAppend DEF BlInv
<1>6. Kept(u, synced, forwarded) /\ Kept(u, Len(trace) + 1, forwarded)
  BY <1>1, KeptAppend DEF BlInv
<1>7. ASSUME NEW k \in {"relay_forwarded", "credit_debited", "account_funded"}
      PROVE  Booked(u, k) = Booked(trace, k)
  <2>1. OfKind(e, k) = 0
    BY <1>1
  <2>2. Booked(u, k) = Booked(trace, k) + OfKind(e, k) /\ Booked(trace, k) \in Int
    BY <1>1, BookedAppend, BookedInt DEF BlInv
  <2> QED BY <2>1, <2>2
<1>8. Balances(u, balance)
  BY <1>7 DEF BlInv, Balances
<1> HIDE DEF u
<1>9. version \in Nat /\ balance \in Int /\ synced \in Nat /\ synced <= Len(trace)
  BY DEF BlInv
<1>10. Len(trace') = Len(trace) + 1 /\ Len(trace') \in Nat /\ synced <= Len(trace')
  BY <1>3, <1>4, <1>9
<1>11. Kept(trace', synced, forwarded) /\ Kept(trace', Len(trace'), forwarded)
  BY <1>3, <1>6, <1>10, Zenon
<1>12. /\ Versioned(trace', "spend_finalized", version')
       /\ Versioned(trace', "credit_debited", version') /\ Balances(trace', balance')
  BY <1>2, <1>3, <1>5, <1>8, Zenon
<1> QED
  BY <1>2, <1>3, <1>4, <1>9, <1>10, <1>11, <1>12 DEF Decided

LEMMA AppendThree ==
    ASSUME NEW t \in Seq(BilledEvents), NEW a \in BilledEvents, NEW b \in BilledEvents,
           NEW c \in BilledEvents
    PROVE  t \o <<a, b, c>> = Append(Append(Append(t, a), b), c)
<1> DEFINE u == t \o <<a, b, c>>
           w == Append(Append(Append(t, a), b), c)
           n == Len(t)
<1>1. u \in Seq(BilledEvents) /\ w \in Seq(BilledEvents) /\ Len(u) = n + 3 /\ Len(w) = n + 3 /\ n \in Nat
  OBVIOUS
<1>2. ASSUME NEW i \in 1 .. n PROVE u[i] = w[i]
  OBVIOUS
<1>3. u[n + 1] = w[n + 1] /\ u[n + 2] = w[n + 2] /\ u[n + 3] = w[n + 3]
  OBVIOUS
<1> HIDE DEF u, w, n
<1>4. \A i \in 1 .. (n + 3) : i \in 1 .. n \/ i = n + 1 \/ i = n + 2 \/ i = n + 3
  BY <1>1
<1>5. \A i \in 1 .. Len(u) : u[i] = w[i]
  BY <1>1, <1>2, <1>3, <1>4
<1>6. u = w
  BY <1>1, <1>5, SeqEqual
<1> QED
  BY <1>6 DEF u, w

LEMMA BilledStep ==
    ASSUME BlInv, up, NEW kib \in Nat, Decide(kib), ~Gated(kib)
    PROVE  Decided(FALSE)
<1> DEFINE x == cost(kib)
           v == version
           a == Event("spend_finalized", v, 0)
           b == Event("relay_forwarded", 0, x)
           c == Event("credit_debited", v, x)
           p == Append(trace, a)
           q == Append(p, b)
           r == Append(q, c)
           n == Len(trace)
<1>0. x \in Nat /\ v \in Nat
  BY BillingFacts DEF cost, BlInv
<1>1. /\ trace' = trace \o <<a, b, c>> /\ balance' = balance - x /\ version' = v + 1
  BY DEF Decide, Ships, Billed, SpendEvent, Finalizes, NextVersion
<1> HIDE DEF x, v
<1>a. /\ a \in BilledEvents /\ a.kind = "spend_finalized" /\ a.version = v
      /\ \A j : OfKind(a, j) = IF "spend_finalized" = j THEN 0 ELSE 0
  BY <1>0, EventFacts DEF EventKinds
<1>b. /\ b \in BilledEvents /\ b.kind = "relay_forwarded"
      /\ \A j : OfKind(b, j) = IF "relay_forwarded" = j THEN x ELSE 0
  BY <1>0, EventFacts DEF EventKinds
<1>c. /\ c \in BilledEvents /\ c.kind = "credit_debited" /\ c.version = v
      /\ \A j : OfKind(c, j) = IF "credit_debited" = j THEN x ELSE 0
  BY <1>0, EventFacts DEF EventKinds
<1> HIDE DEF a, b, c
<1>t. /\ trace \in Seq(BilledEvents) /\ synced \in Nat /\ n \in Nat /\ synced <= n
      /\ Versioned(trace, "spend_finalized", v) /\ Versioned(trace, "credit_debited", v)
      /\ Kept(trace, synced, forwarded) /\ Balances(trace, balance) /\ balance \in Int
  BY DEF BlInv, v
<1>2. trace' = r
  BY <1>1, <1>a, <1>b, <1>c, <1>t, AppendThree
<1>p. p \in Seq(BilledEvents) /\ Len(p) = n + 1
  BY <1>a, <1>t, AppendFacts
<1>q. q \in Seq(BilledEvents) /\ Len(q) = n + 2
  <2> HIDE DEF p, n
  <2>1. q \in Seq(BilledEvents) /\ Len(q) = Len(p) + 1
    BY <1>b, <1>p, AppendFacts
  <2> QED
    BY <1>p, <1>t, <2>1
<1>r. r \in Seq(BilledEvents) /\ Len(r) = n + 3
  <2> HIDE DEF q, n
  <2>1. r \in Seq(BilledEvents) /\ Len(r) = Len(q) + 1
    BY <1>c, <1>q, AppendFacts
  <2> QED
    BY <1>q, <1>t, <2>1
<1>3. Versioned(r, "spend_finalized", v + 1) /\ Versioned(r, "credit_debited", v + 1)
  <2>0. v + 1 \in Nat
    BY <1>0
  <2>1. Versioned(p, "spend_finalized", v + 1) /\ Versioned(p, "credit_debited", v)
    BY <1>0, <1>a, <1>t, VersionedAppend
  <2> HIDE DEF p
  <2>2. Versioned(q, "spend_finalized", v + 1)
    BY <1>b, <1>p, <2>0, <2>1, VersionedAppend
  <2>3. Versioned(q, "credit_debited", v)
    BY <1>0, <1>b, <1>p, <2>1, VersionedAppend
  <2> HIDE DEF q
  <2>4. Versioned(r, "spend_finalized", v + 1)
    BY <1>c, <1>q, <2>0, <2>2, VersionedAppend
  <2>5. Versioned(r, "credit_debited", v + 1)
    BY <1>0, <1>c, <1>q, <2>3, VersionedAppend
  <2> QED
    BY <2>4, <2>5
<1>4. /\ Kept(r, synced, forwarded) /\ Kept(r, n + 3, forwarded)
      /\ Kept(r, n + 3, forwarded \cup {n + 3})
  <2>1. Kept(p, synced, forwarded)
    BY <1>a, <1>t, KeptAppend
  <2>2. synced <= Len(p) /\ synced <= Len(q) /\ Len(q) + 1 = n + 3
    BY <1>t, <1>p, <1>q
  <2> HIDE DEF p, n
  <2>3. Kept(q, synced, forwarded)
    BY <1>b, <1>t, <1>p, <2>1, <2>2, KeptAppend
  <2> HIDE DEF q
  <2>4. /\ Kept(r, synced, forwarded) /\ Kept(r, Len(q) + 1, forwarded)
        /\ Kept(r, Len(q) + 1, forwarded \cup {Len(q) + 1})
    BY <1>c, <1>t, <1>q, <2>2, <2>3, KeptAppend
  <2> QED
    BY <2>2, <2>4
<1>5. ASSUME NEW k
      PROVE  /\ Booked(trace, k) \in Int
             /\ Booked(r, k) = Booked(trace, k) + OfKind(a, k) + OfKind(b, k) + OfKind(c, k)
  <2>1. Booked(p, k) = Booked(trace, k) + OfKind(a, k)
    BY <1>a, <1>t, BookedAppend
  <2> HIDE DEF p
  <2>2. Booked(q, k) = Booked(p, k) + OfKind(b, k)
    BY <1>b, <1>p, BookedAppend
  <2> HIDE DEF q
  <2>3. Booked(r, k) = Booked(q, k) + OfKind(c, k)
    BY <1>c, <1>q, BookedAppend
  <2>4. Booked(trace, k) \in Int
    BY <1>t, BookedInt
  <2> QED
    BY <2>1, <2>2, <2>3, <2>4
<1> HIDE DEF p, q, r
<1>6. /\ Booked(r, "relay_forwarded") = Booked(trace, "relay_forwarded") + x
      /\ Booked(r, "credit_debited") = Booked(trace, "credit_debited") + x
      /\ Booked(r, "account_funded") = Booked(trace, "account_funded")
  <2>1. /\ OfKind(a, "relay_forwarded") = 0 /\ OfKind(b, "relay_forwarded") = x
        /\ OfKind(c, "relay_forwarded") = 0
    BY <1>a, <1>b, <1>c
  <2>2. /\ OfKind(a, "credit_debited") = 0 /\ OfKind(b, "credit_debited") = 0
        /\ OfKind(c, "credit_debited") = x
    BY <1>a, <1>b, <1>c
  <2>3. /\ OfKind(a, "account_funded") = 0 /\ OfKind(b, "account_funded") = 0
        /\ OfKind(c, "account_funded") = 0
    BY <1>a, <1>b, <1>c
  <2> QED
    BY <1>0, <1>5, <2>1, <2>2, <2>3
<1>7. Balances(r, balance - x)
  <2>1. /\ Booked(trace, "relay_forwarded") \in Int /\ Booked(trace, "credit_debited") \in Int
        /\ Booked(trace, "account_funded") \in Int
    BY <1>5
  <2> DEFINE f == Booked(trace, "relay_forwarded")
             d == Booked(trace, "credit_debited")
             o == Booked(trace, "account_funded")
  <2>2. f \in Int /\ d \in Int /\ o \in Int /\ f = d /\ balance = o - d
    BY <1>t, <2>1 DEF Balances
  <2>3. /\ Booked(r, "relay_forwarded") = f + x /\ Booked(r, "credit_debited") = d + x
        /\ Booked(r, "account_funded") = o
    BY <1>6
  <2> HIDE DEF f, d, o
  <2>4. f + x = d + x /\ balance - x = o - (d + x)
    BY <1>0, <2>2
  <2> QED
    BY <2>3, <2>4, Zenon DEF Balances
<1> HIDE DEF n
<1>8. v + 1 \in Nat /\ balance - x \in Int /\ n + 3 \in Nat /\ synced <= n + 3
  BY <1>0, <1>t
<1> QED
  BY <1>1, <1>2, <1>r, <1>3, <1>4, <1>7, <1>8 DEF Decided

LEMMA BookedPair ==
    ASSUME NEW a \in BilledEvents, NEW b \in BilledEvents, NEW k
    PROVE  Booked(<<a, b>>, k) = OfKind(a, k) + OfKind(b, k)
<1> DEFINE o == << >>
           p == Append(o, a)
           q == Append(p, b)
<1>1. o \in Seq(BilledEvents) /\ p \in Seq(BilledEvents) /\ q = <<a, b>>
  <2>1. o \in Seq(BilledEvents) /\ p \in Seq(BilledEvents) /\ Len(p) = 1 /\ p[1] = a
    OBVIOUS
  <2> HIDE DEF p
  <2>2. q \in Seq(BilledEvents) /\ Len(q) = 2 /\ q[1] = a /\ q[2] = b
    <3>1. /\ q \in Seq(BilledEvents) /\ Len(q) = Len(p) + 1 /\ q[Len(p) + 1] = b
          /\ \A i \in 1 .. Len(p) : q[i] = p[i]
      BY <2>1, AppendFacts
    <3> HIDE DEF q
    <3>2. 1 \in 1 .. Len(p) /\ Len(p) + 1 = 2
      BY <2>1
    <3> QED
      BY <2>1, <3>1, <3>2
  <2> HIDE DEF q
  <2>3. q = <<q[1], q[2]>>
    BY <2>2
  <2> QED
    BY <2>1, <2>2, <2>3
<1>2. Booked(o, k) = 0
  <2>1. DOMAIN o = {}
    OBVIOUS
  <2> QED
    BY <2>1, SumEmpty, Zenon DEF Booked
<1> HIDE DEF o
<1>3. Booked(p, k) = Booked(o, k) + OfKind(a, k)
  BY <1>1, BookedAppend
<1> HIDE DEF p
<1>4. Booked(q, k) = Booked(p, k) + OfKind(b, k)
  BY <1>1, BookedAppend
<1>5. OfKind(a, k) \in Int
  BY DEF OfKind, BilledEvents
<1> HIDE DEF q
<1>6. Booked(q, k) = OfKind(a, k) + OfKind(b, k)
  BY <1>2, <1>3, <1>4, <1>5
<1> QED
  BY <1>1, <1>6, Zenon

LEMMA BlInitInv == BlInit => BlInv
<1> SUFFICES ASSUME BlInit PROVE BlInv
  OBVIOUS
<1> DEFINE a == Event("object_registered", 0, 0)
           b == Event("account_funded", 0, Opening)
<1>0. Opening \in Nat
  BY BillingFacts
<1>1. /\ a \in BilledEvents /\ a.kind = "object_registered"
      /\ \A j : OfKind(a, j) = IF "object_registered" = j THEN 0 ELSE 0
  BY EventFacts DEF EventKinds
<1>2. /\ b \in BilledEvents /\ b.kind = "account_funded"
      /\ \A j : OfKind(b, j) = IF "account_funded" = j THEN Opening ELSE 0
  BY <1>0, EventFacts DEF EventKinds
<1>3. /\ trace = <<a, b>> /\ balance = Opening /\ version = 0 /\ synced = 0 /\ forwarded = {}
  BY DEF BlInit
<1> HIDE DEF a, b
<1>4. trace \in Seq(BilledEvents) /\ Len(trace) = 2 /\ DOMAIN trace = 1 .. 2
  BY <1>1, <1>2, <1>3
<1>5. \A i \in DOMAIN trace : trace[i] = a \/ trace[i] = b
  BY <1>3
<1>6. Versioned(trace, "spend_finalized", version) /\ Versioned(trace, "credit_debited", version)
  BY <1>1, <1>2, <1>5 DEF Versioned
<1>7. Kept(trace, synced, forwarded)
  BY <1>3 DEF Kept
<1>8. ASSUME NEW k PROVE Booked(trace, k) = OfKind(a, k) + OfKind(b, k)
  BY <1>1, <1>2, <1>3, BookedPair
<1>9. /\ Booked(trace, "relay_forwarded") = 0 /\ Booked(trace, "credit_debited") = 0
      /\ Booked(trace, "account_funded") = Opening
  BY <1>0, <1>1, <1>2, <1>8
<1>10. Balances(trace, balance)
  BY <1>0, <1>3, <1>9 DEF Balances
<1> QED
  BY <1>0, <1>3, <1>4, <1>6, <1>7, <1>10 DEF BlInv

LEMMA BlNextInv == BlInv /\ BlNext => BlInv'
<1> SUFFICES ASSUME BlInv, BlNext PROVE BlInv'
  OBVIOUS
<1>1. ASSUME NEW kib \in Chunks, up, Decide(kib) PROVE Decided(Gated(kib))
  <2>1. kib \in Nat
    BY BillingFacts
  <2>2. ASSUME Gated(kib) PROVE Decided(Gated(kib))
    <3>1. Decided(TRUE)
      BY <1>1, <2>1, <2>2, GatedStep
    <3> QED
      BY <2>2, <3>1 DEF Decided
  <2>3. ASSUME ~Gated(kib) PROVE Decided(Gated(kib))
    <3>1. Decided(FALSE)
      BY <1>1, <2>1, <2>3, BilledStep
    <3> QED
      BY <2>3, <3>1 DEF Decided
  <2> QED
    BY <2>2, <2>3
<1>2. ASSUME NEW kib \in Chunks, meter_and_bill_durable(kib) PROVE BlInv'
  <2>1. /\ Decided(Gated(kib)) /\ synced' = Len(trace')
        /\ forwarded' = IF Gated(kib) THEN forwarded ELSE forwarded \cup {Len(trace')}
    BY <1>1, <1>2 DEF meter_and_bill_durable
  <2>2. Kept(trace', Len(trace'), forwarded')
    BY <2>1 DEF Decided
  <2> QED
    BY <2>1, <2>2 DEF Decided, BlInv
<1>3. ASSUME NEW kib \in Chunks, BillUnsynced(kib) PROVE BlInv'
  <2>1. Decided(Gated(kib)) /\ synced' = synced /\ forwarded' = forwarded /\ synced \in Nat
    BY <1>1, <1>3 DEF BillUnsynced, BlInv
  <2> QED
    BY <2>1 DEF Decided, BlInv
<1>4. ASSUME NEW v \in 0 .. version, replay_debit_at(v) PROVE BlInv'
  <2> DEFINE e == SpendEvent(v)
             u == Append(trace, e)
  <2>0. v \in Nat /\ version \in Nat /\ trace \in Seq(BilledEvents) /\ up
    BY <1>4 DEF BlInv, replay_debit_at
  <2>1. /\ e \in BilledEvents
        /\ e.version = v
        /\ e.kind = IF v = version THEN "spend_finalized" ELSE "equivocation_rejected"
        /\ \A j : OfKind(e, j) = 0
    <3> DEFINE k == IF v = version THEN "spend_finalized" ELSE "equivocation_rejected"
    <3>1. k \in EventKinds /\ e = Event(k, v, 0)
      BY DEF EventKinds, SpendEvent, Finalizes
    <3> HIDE DEF k, e
    <3>2. /\ Event(k, v, 0) \in BilledEvents /\ Event(k, v, 0).kind = k
          /\ Event(k, v, 0).version = v
          /\ \A j : OfKind(Event(k, v, 0), j) = IF k = j THEN 0 ELSE 0
      BY <2>0, <3>1, EventFacts
    <3> QED
      BY <3>1, <3>2 DEF k
  <2>2. /\ trace' = trace \o <<e>> /\ version' = IF v = version THEN version + 1 ELSE version
        /\ UNCHANGED <<balance, synced, forwarded, up>>
    BY <1>4 DEF replay_debit_at, Ships, NextVersion, Finalizes
  <2> HIDE DEF e
  <2>3. trace' = u
    BY <2>0, <2>1, <2>2
  <2>4. u \in Seq(BilledEvents) /\ Len(trace) \in Nat /\ Len(u) = Len(trace) + 1
    BY <2>0, <2>1, AppendFacts
  <2>5. Versioned(u, "spend_finalized", version') /\ Versioned(u, "credit_debited", version')
    <3>n. Versioned(trace, "spend_finalized", version) /\ Versioned(trace, "credit_debited", version)
      BY DEF BlInv
    <3>1. CASE v = version
      <4>1. e.version = version /\ e.kind = "spend_finalized" /\ version' = version + 1
        BY <2>1, <2>2, <3>1
      <4>2. Versioned(u, "spend_finalized", version + 1)
        BY <2>0, <2>1, <3>n, <4>1, VersionedAppend
      <4>3. Versioned(u, "credit_debited", version)
        BY <2>0, <2>1, <3>n, <4>1, VersionedAppend
      <4> HIDE DEF u
      <4>4. Versioned(u, "credit_debited", version + 1)
        BY <2>0, <2>1, <2>4, <4>3, VersionedAppend
      <4> QED
        BY <4>1, <4>2, <4>4
    <3>2. CASE v # version
      <4>1. e.kind = "equivocation_rejected" /\ version' = version
        BY <2>1, <2>2, <3>2
      <4>2. Versioned(u, "spend_finalized", version)
        BY <2>0, <2>1, <3>n, <4>1, VersionedAppend
      <4>3. Versioned(u, "credit_debited", version)
        BY <2>0, <2>1, <3>n, <4>1, VersionedAppend
      <4> QED
        BY <4>1, <4>2, <4>3
    <3> QED
      BY <3>1, <3>2
  <2>6. Kept(u, synced, forwarded)
    BY <2>1, KeptAppend DEF BlInv
  <2>7. ASSUME NEW k PROVE Booked(u, k) = Booked(trace, k)
    <3>1. Booked(u, k) = Booked(trace, k) + OfKind(e, k) /\ Booked(trace, k) \in Int
      BY <2>0, <2>1, BookedAppend, BookedInt
    <3> QED BY <2>1, <3>1
  <2>8. Balances(u, balance)
    <3> HIDE DEF u
    <3>1. Balances(trace, balance)
      BY <2>0 DEF BlInv
    <3> QED
      BY <2>7, <3>1 DEF Balances
  <2> HIDE DEF u
  <2>9. synced \in Nat /\ synced <= Len(u) /\ balance \in Int /\ version' \in Nat
    BY <2>0, <2>2, <2>4 DEF BlInv
  <2> QED
    BY <2>2, <2>3, <2>4, <2>5, <2>6, <2>8, <2>9 DEF BlInv
<1>5. ASSUME PowerCut PROVE BlInv'
  <2>1. PICK n \in synced .. Len(trace) : trace' = SubSeq(trace, 1, n)
    BY <1>5 DEF PowerCut
  <2>2. /\ ~up' /\ UNCHANGED <<balance, version, synced, forwarded>>
    BY <1>5 DEF PowerCut
  <2>3. /\ trace \in Seq(BilledEvents) /\ synced \in Nat /\ n \in Nat /\ synced <= n /\ n <= Len(trace)
    BY <2>1 DEF BlInv
  <2> DEFINE u == SubSeq(trace, 1, n)
  <2>4. /\ u \in Seq(BilledEvents) /\ Len(u) = n /\ DOMAIN u = 1 .. n
        /\ DOMAIN u \subseteq DOMAIN trace /\ \A i \in DOMAIN u : u[i] = trace[i]
    BY <2>3
  <2> HIDE DEF u
  <2>5. ASSUME NEW k, Versioned(trace, k, version) PROVE Versioned(u, k, version)
    BY <2>4, <2>5 DEF Versioned
  <2>6. Kept(u, synced, forwarded)
    BY <2>3, <2>4 DEF Kept, BlInv
  <2>7. trace' = u
    BY <2>1 DEF u
  <2> QED
    BY <2>2, <2>3, <2>4, <2>5, <2>6, <2>7 DEF BlInv
<1> QED
  BY <1>2, <1>3, <1>4, <1>5 DEF BlNext

LEMMA OneShipped ==
    ASSUME trace \in Seq(BilledEvents), NEW k, NEW n, Versioned(trace, k, n), NEW v
    PROVE  Cardinality(Shipped(k, v)) <= 1
<1> DEFINE E == Shipped(k, v)
<1>1. \A i, j \in E : i = j
  BY DEF Shipped, Versioned
<1> HIDE DEF E
<1>2. ASSUME E = {} PROVE Cardinality(E) <= 1
  <2>1. Cardinality({}) = 0
    BY FS_EmptySet
  <2> QED
    BY <1>2, <2>1
<1>3. ASSUME E # {} PROVE Cardinality(E) <= 1
  <2>1. PICK i \in E : TRUE
    BY <1>3
  <2>2. E = {i}
    BY <1>1, <2>1
  <2>3. Cardinality({i}) = 1
    BY FS_Singleton
  <2> QED
    BY <2>2, <2>3
<1>4. Cardinality(E) <= 1
  BY <1>2, <1>3
<1> QED
  BY <1>4 DEF E

LEMMA BlInvSound == BlInv => BilledOnce
<1> SUFFICES ASSUME BlInv PROVE BilledOnce
  OBVIOUS
<1>1. trace \in Seq(BilledEvents) /\ DOMAIN trace = 1 .. Len(trace) /\ Len(trace) \in Nat
  BY DEF BlInv
<1>2. ASSUME NEW k PROVE Sum(k) = Booked(trace, k)
  <2> DEFINE f == Entries(trace, k)
  <2>1. DOMAIN f = DOMAIN trace
    BY DEF Entries
  <2>2. Summed(f) = SumOver(f, DOMAIN f)
    BY DEF Summed, SumOver, MapThenSumSet, MapThenFoldSet
  <2>3. Sum(k) = Summed(f)
    BY DEF Sum, Entries, OfKind
  <2> HIDE DEF f
  <2>4. Sum(k) = SumOver(f, DOMAIN trace)
    BY <2>1, <2>2, <2>3, Zenon
  <2> QED
    BY <2>4, Zenon DEF Booked, f
<1>3. ASSUME NEW v PROVE /\ Cardinality(Shipped("spend_finalized", v)) <= 1
                         /\ Cardinality(Shipped("credit_debited", v)) <= 1
  BY <1>1, OneShipped DEF BlInv
<1>4. ASSUME NEW i \in forwarded PROVE i \in DOMAIN trace /\ trace[i].kind = "credit_debited"
  BY <1>1 DEF BlInv, Kept
<1>5. up => /\ Sum("relay_forwarded") = Sum("credit_debited")
            /\ balance = Sum("account_funded") - Sum("credit_debited")
  BY <1>2 DEF BlInv, Balances
<1> QED
  BY <1>3, <1>4, <1>5 DEF BilledOnce

\* Whatever the sets of accounts, amounts and packets and however the ledger's calls, the
\* pool's, the relay's and a power cut interleave: until an amount overflows, what was
\* issued is in a balance, in a stake, in the hands of a call or slashed, and after an
\* overflow no more than it; a distribution's shares are within its emission,
\* no version is finalized or debited twice, and every answered forward stays debited
\* (InMemoryLedger, StakePool, distribute; meter_and_bill_durable).
THEOREM AccountsStaySound == AcSpec => []AccountsSound
<1> DEFINE Inv == TkInv /\ BlInv
<1>1. TkInit /\ BlInit => Inv
  BY TkInitInv, BlInitInv
<1>2. Inv /\ [AcNext]_<<tkVars, blVars>> => Inv'
  <2> SUFFICES ASSUME Inv, [AcNext]_<<tkVars, blVars>> PROVE Inv'
    OBVIOUS
  <2>1. ASSUME UNCHANGED tkVars PROVE TkInv'
    BY <2>1 DEF TkInv, Traced, tkVars
  <2>2. ASSUME UNCHANGED blVars PROVE BlInv'
    BY <2>2 DEF BlInv, blVars
  <2>3. CASE TkNext /\ UNCHANGED blVars
    BY <2>2, <2>3, TkNextInv
  <2>4. CASE BlNext /\ UNCHANGED tkVars
    BY <2>1, <2>4, BlNextInv
  <2>5. CASE UNCHANGED <<tkVars, blVars>>
    BY <2>1, <2>2, <2>5
  <2> QED
    BY <2>3, <2>4, <2>5 DEF AcNext
<1>3. Inv => AccountsSound
  BY TkInvSound, BlInvSound DEF AccountsSound
<1> QED
  BY <1>1, <1>2, <1>3, PTL DEF AcSpec

=============================================================================
