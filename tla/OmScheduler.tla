---- MODULE OmScheduler ----
(* The volunteer-compute service of the platform: OmOrchestrator (compute/om.rs)
   over TaskScheduler (compute/scheduler.rs) and Task (compute/task.rs), as the
   browser session wasm/om.rs drives it. Every call takes &mut self, so a call is
   one action. Payloads are outputs of Outputs (output and output_hash in one);
   times, sizes and descriptions are left out. The service asks nothing of an answer
   but that its task exists: anybody may answer, registered or not, given the task
   or not, before it is given to anyone and again afterwards. *)
EXTENDS Integers, Sequences, FiniteSets, FiniteSetsExt, SequencesExt, Functions

CONSTANTS Own,        \* the session's own node, registered by its constructor
          Others,     \* the other nodes that may register
          JobKinds,   \* the job kinds submitted: "cpu", "gpu", "map0", "map2"
          Outputs,    \* what a task may be answered with
          MaxJobs,    \* bound on submitted jobs
          MaxResults, \* bound on answers, one less for each job after the first
          MaxReports  \* bound on resource reports

Volunteers == {Own} \cup Others

VARIABLES nodes,      \* node -> "unknown", "accepts" or "full" (can_accept_work)
          workers,    \* registered worker -> its WorkerInfo
          tasks,      \* Seq: task id -> the Task
          pending,    \* the scheduler's FIFO of task ids
          jobs,       \* Seq: job number -> the OmJob
          distributed \* total_tokens_distributed

omVars == <<nodes, workers, tasks, pending, jobs, distributed>>

Ok == {"no_verification", "quorum_agreed"}

WorkerInfo == [available |-> TRUE, completed |-> 0, failed |-> 0, earned |-> 0]

\* What can_accept_work says of a node's reported resources.
Loads == {"accepts", "full"}

SchedulerInit == workers = [n \in {Own} |-> WorkerInfo] /\ tasks = <<>> /\ pending = <<>>

OmInit == /\ nodes = [n \in Volunteers |-> IF n = Own THEN "accepts" ELSE "unknown"]
          /\ SchedulerInit
          /\ jobs = <<>>
          /\ distributed = 0

----
(* register_node keeps the counters of a worker it already knows;
   update_resources records a node without making it a worker. *)
register_node(n, load) ==
  /\ nodes' = [nodes EXCEPT ![n] = load]
  /\ workers' = [m \in DOMAIN workers \cup {n} |->
                   IF m \in DOMAIN workers THEN workers[m] ELSE WorkerInfo]
  /\ UNCHANGED <<tasks, pending, jobs, distributed>>

update_resources(n, load) ==
  /\ nodes' = [nodes EXCEPT ![n] = load]
  /\ UNCHANGED <<workers, tasks, pending, jobs, distributed>>

\* The replicas of each of a job's tasks: a map job has one three-way quorum task
\* per chunk, a GPU job one two-way quorum task, the others one task taken as is.
Replicas(kind) == CASE kind = "map0" -> <<>>
                    [] kind = "map2" -> <<3, 3>>
                    [] kind = "gpu"  -> <<2>>
                    [] OTHER         -> <<0>>

\* given is a history variable: how many answers the task had when it was given.
Task(j, r) == [job |-> j, replicas |-> r, status |-> "pending",
               worker |-> {}, given |-> 0, results |-> <<>>]

OmJob(size) == [size |-> size, status |-> "submitted", results |-> 0]

\* submit_task: the task joins the table and the queue.
submit_tasks(new) == /\ tasks' = tasks \o new
                     /\ pending' = pending \o [i \in 1..Len(new) |-> Len(tasks) + i]

submit_job(kind) ==
  LET new == Replicas(kind)
      j == Len(jobs) + 1
  IN /\ Len(jobs) < MaxJobs
     /\ submit_tasks([i \in 1..Len(new) |-> Task(j, new[i])])
     /\ jobs' = Append(jobs, OmJob(Len(new)))
     /\ UNCHANGED <<nodes, workers, distributed>>

----
failure_rate_milli(w) ==
  LET total == workers[w].completed + workers[w].failed
  IN IF total = 0 THEN 0 ELSE (workers[w].failed * 1000) \div total

Available == {w \in DOMAIN workers : workers[w].available}

\* The workers assign_next may pick in n calls: each time an available one of the
\* least failure rate, ties broken by the hash map's order.
Picks(n) == {ws \in [1..n -> Available] :
               /\ \A i, k \in 1..n : i < k => /\ ws[i] # ws[k]
                                              /\ failure_rate_milli(ws[i]) <= failure_rate_milli(ws[k])
               /\ \A w \in Available \ {ws[i] : i \in 1..n}, i \in 1..n :
                    failure_rate_milli(ws[i]) <= failure_rate_milli(w)}

\* assign_next until it returns None. It pops before it looks for a worker, so the
\* call that finds no worker has taken one more task off the queue. A task answered
\* while it was queued is given all the same, and is "assigned" again.
distribute ==
  LET n == Min({Len(pending), Cardinality(Available)})
  IN /\ pending # <<>>
     /\ \E ws \in Picks(n) :
          /\ tasks' = [t \in 1..Len(tasks) |->
                         IF \E i \in 1..n : pending[i] = t
                         THEN [tasks[t] EXCEPT !.status = "assigned",
                                 !.worker = {ws[CHOOSE i \in 1..n : pending[i] = t]},
                                 !.given = Len(tasks[t].results)]
                         ELSE tasks[t]]
          /\ workers' = [w \in DOMAIN workers |->
                           IF w \in {ws[i] : i \in 1..n}
                           THEN [workers[w] EXCEPT !.available = FALSE] ELSE workers[w]]
     /\ pending' = SubSeq(pending, n + 2, Len(pending))
     /\ jobs' = [j \in 1..Len(jobs) |->
                   IF jobs[j].status = "submitted" /\ n > 0
                   THEN [jobs[j] EXCEPT !.status = "distributing"] ELSE jobs[j]]
     /\ UNCHANGED <<nodes, distributed>>

----
Agreement(results) == Max({Cardinality({i \in 1..Len(results) : results[i].output = o}) : o \in Outputs})

\* Task::verify on the answers so far. The majority of two replicas is one.
verify(replicas, results) ==
  IF replicas = 0 THEN "no_verification"
  ELSE IF Len(results) < replicas THEN "insufficient"
  ELSE IF Agreement(results) >= (replicas + 1) \div 2 THEN "quorum_agreed"
  ELSE "quorum_disagreed"

Status(task, verdict) == IF verdict \in Ok THEN "verified"
                         ELSE IF verdict = "quorum_disagreed" THEN "failed"
                         ELSE task.status

\* Mutant: only a worker whose answer was judged is free again.
FreedIfJudged(info, verdict) ==
  [available |-> info.available \/ verdict # "insufficient",
   completed |-> info.completed + (IF verdict \in Ok THEN 1 ELSE 0),
   failed    |-> info.failed + (IF verdict = "quorum_disagreed" THEN 1 ELSE 0),
   earned    |-> info.earned + (IF verdict \in Ok THEN 1 ELSE 0)]

\* The answering worker, if it is registered, is free again whatever it answered; it
\* is paid for an answer that left the task verified.
Freed(info, verdict) ==
  [available |-> TRUE,
   completed |-> info.completed + (IF verdict \in Ok THEN 1 ELSE 0),
   failed    |-> info.failed + (IF verdict = "quorum_disagreed" THEN 1 ELSE 0),
   earned    |-> info.earned + (IF verdict \in Ok THEN 1 ELSE 0)]

\* An answer carries whether its worker was registered then (a history variable).
\* The job counts every answer, judged or not, and each answer from its size on
\* completes it and distributes its reward once more.
submit_result(w, t, o) ==
  LET known == w \in DOMAIN workers
      results == Append(tasks[t].results, [worker |-> w, output |-> o, known |-> known])
      verdict == verify(tasks[t].replicas, results)
      j == tasks[t].job
      count == jobs[j].results + 1
      complete == count >= jobs[j].size
  IN /\ tasks' = [tasks EXCEPT ![t].results = results, ![t].status = Status(tasks[t], verdict)]
     /\ workers' = [v \in DOMAIN workers |->
                       IF v = w THEN Freed(workers[v], verdict) ELSE workers[v]]
     /\ jobs' = [jobs EXCEPT ![j].results = count,
                             ![j].status = IF complete THEN "completed" ELSE "computing"]
     /\ distributed' = distributed + (IF complete THEN jobs[j].size ELSE 0)
     /\ UNCHANGED <<nodes, pending>>

AnswersGiven == FoldFunction(LAMBDA task, n : n + Len(task.results), 0, tasks)

\* Anybody answers a task there is.
AnswerTask == \E t \in 1..Len(tasks), o \in Outputs, w \in Volunteers :
            /\ AnswersGiven + Len(jobs) <= MaxResults
            /\ submit_result(w, t, o)

Report == \E n \in Volunteers, load \in Loads :
            /\ nodes[n] # load
            /\ Cardinality({m \in Volunteers : nodes[m] = "full"}) < MaxReports
            /\ register_node(n, load) \/ update_resources(n, load)

OmNext == \/ Report
          \/ \E kind \in JobKinds : submit_job(kind)
          \/ distribute
          \/ AnswerTask

OmSpec == OmInit /\ [][OmNext]_omVars

----
\* The answers w gave as a registered worker that left their task verified,
\* recomputed from the history.
PaidAnswers(w) ==
  {p \in UNION {{t} \X (1..Len(tasks[t].results)) : t \in 1..Len(tasks)} :
     /\ tasks[p[1]].results[p[2]].worker = w /\ tasks[p[1]].results[p[2]].known
     /\ verify(tasks[p[1]].replicas, SubSeq(tasks[p[1]].results, 1, p[2])) \in Ok}

\* Whether a task was given and has had no answer since.
Awaited(task) == task.worker # {} /\ task.given = Len(task.results)

(* Nobody is held and nothing is paid without a reason, whoever answers what and when:
   a worker the scheduler holds back was given a task and has not answered it since;
   what a worker earned is the number of its answers, given as a registered worker,
   that left a task verified, whatever was answered before or later; a task is
   verified exactly when its answers pass verify, unless it was given once more after
   the last of them; and a queued task was given to nobody and is queued once
   (assign_next, submit_result). *)
WorkAccounted ==
  /\ \A w \in DOMAIN workers :
       /\ ~workers[w].available =>
            \E t \in 1..Len(tasks) :
              /\ w \in tasks[t].worker
              /\ \A i \in 1..Len(tasks[t].results) :
                   tasks[t].results[i].worker = w => i <= tasks[t].given
       /\ workers[w].earned = Cardinality(PaidAnswers(w))
  /\ \A t \in 1..Len(tasks) :
       /\ (tasks[t].status = "verified") <=>
            /\ tasks[t].results # <<>> /\ verify(tasks[t].replicas, tasks[t].results) \in Ok
            /\ ~Awaited(tasks[t])
       /\ t \in ToSet(pending) => tasks[t].worker = {}
  /\ IsInjective(pending)
====
