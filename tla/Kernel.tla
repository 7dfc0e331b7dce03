------------------------------- MODULE Kernel -------------------------------
(***************************************************************************)
(* The microkernel of the platform: ServiceRegistry with its lifecycle     *)
(* machine and capability sets, and the tick-driven WorkerQueue of         *)
(* PlatformCore (kernel/service.rs, lifecycle.rs, capability.rs,           *)
(* worker.rs, platform.rs).                 Priorities are numbers, the    *)
(* highest first.                                                          *)
(***************************************************************************)
EXTENDS Integers, Sequences, SequencesExt, FiniteSets, FiniteSetsExt

CONSTANTS
    Builtin,      \* services booted with the platform, with their capabilities
    Extra,        \* services an application registers, with their capabilities
    Priorities,   \* 0..3 in the code
    MaxJobs, MaxDone, BatchSizes

VARIABLES
    services,     \* name -> [state, caps]
    queues,       \* priority -> sequence of job ids
    next_id,
    done,         \* ring of [id, state]
    counts,       \* [submitted, completed, failed]
    ran           \* history: job ids in the order they were run

krVars == <<services, queues, next_id, done, counts, ran>>

\* LifecycleMachine::transition.
can_transition(from, to) ==
    CASE from = "Created"  -> to \in {"Starting", "Failed"}
      [] from = "Starting" -> to \in {"Running", "Failed"}
      [] from = "Running"  -> to \in {"Stopping", "Failed"}
      [] from = "Stopping" -> to \in {"Stopped", "Failed"}
      [] OTHER -> FALSE

\* A run of transitions, each allowed from where the last one led.
Legal(path) == \A i \in 1..(Len(path) - 1) : can_transition(path[i], path[i + 1])

\* boot_kernel: the built-in services are registered and started.
KrInit ==
    /\ services = [n \in DOMAIN Builtin |-> [state |-> "Running", caps |-> Builtin[n]]]
    /\ queues = [p \in Priorities |-> <<>>]
    /\ next_id = 1 /\ done = <<>>
    /\ counts = [submitted |-> 0, completed |-> 0, failed |-> 0]
    /\ ran = <<>>

queueVars == <<queues, next_id, done, counts, ran>>

Register(n) ==
    /\ n \notin DOMAIN services
    /\ services' = [m \in DOMAIN services \cup {n} |->
                      IF m = n THEN [state |-> "Created", caps |-> Extra[n]] ELSE services[m]]
    /\ UNCHANGED queueVars

\* A service ends in the last state of a legal path; refused otherwise.
Move(n, path) ==
    /\ Legal(<<services[n].state>> \o path)
    /\ services' = [services EXCEPT ![n].state = Last(path)]
    /\ UNCHANGED queueVars

Start(n) ==
    \/ Move(n, <<"Starting", "Running">>)
    \/ Move(n, <<"Starting", "Failed">>)              \* init fails
    \/ Move(n, <<"Starting", "Running", "Failed">>)   \* run fails

Stop(n) ==
    \/ Move(n, <<"Stopping", "Stopped">>)
    \/ Move(n, <<"Stopping", "Failed">>)

\* stop_all: only running services are asked; each may fail to stop.
StopAll ==
    LET running == {n \in DOMAIN services : services[n].state = "Running"} IN
    /\ running # {}
    /\ \E fails \in SUBSET running :
          services' = [n \in DOMAIN services |->
                         [services[n] EXCEPT !.state =
                            IF n \notin running THEN @
                            ELSE IF n \in fails THEN "Failed" ELSE "Stopped"]]
    /\ UNCHANGED queueVars

has_capability(n, cap) == n \in DOMAIN services /\ cap \in services[n].caps

Enqueued(p) ==
    /\ next_id <= MaxJobs
    /\ queues' = [queues EXCEPT ![p] = Append(@, next_id)]
    /\ next_id' = next_id + 1
    /\ counts' = [counts EXCEPT !.submitted = @ + 1]
    /\ UNCHANGED <<services, done, ran>>

EnqueueWork(p) == Enqueued(p)

EnqueueWithCap(p, n, cap) ==
    /\ has_capability(n, cap)
    /\ Enqueued(p)

\* Jobs in the order tick takes them.
Descending == SetToSortSeq(Priorities, LAMBDA a, b : a > b)

\* Mutant: the lowest priority is taken first.
ScheduleAscending == FlattenSeq([i \in DOMAIN Descending |->
                        queues[Descending[Len(Descending) + 1 - i]]])

Schedule == FlattenSeq([i \in DOMAIN Descending |-> queues[Descending[i]]])

\* tick: up to n jobs run to their end, a panic being caught as a failure.
\* cancel does not trim the ring, so a tick may find it longer than MaxDone and
\* takes off only one entry for each it adds.
RingAfter(seq, added) ==
    FoldLeft(LAMBDA s, e : LET t == Append(s, e) IN IF Len(t) > MaxDone THEN Tail(t) ELSE t,
             seq, added)

Tick(n) ==
    LET k == IF n < Len(Schedule) THEN n ELSE Len(Schedule)
        taken == SubSeq(Schedule, 1, k)
    IN /\ k > 0
       /\ \E ok \in SUBSET Range(taken) :
             /\ done' = RingAfter(done, [i \in 1..k |->
                          [id |-> taken[i],
                           state |-> IF taken[i] \in ok THEN "Completed" ELSE "Failed"]])
             /\ counts' = [counts EXCEPT !.completed = @ + Cardinality(ok),
                                         !.failed = @ + k - Cardinality(ok)]
       /\ queues' = [p \in Priorities |-> SelectSeq(queues[p], LAMBDA j : j \notin Range(taken))]
       /\ ran' = ran \o taken
       /\ UNCHANGED <<services, next_id>>

\* Mutant: a cancelled job stays in its queue.
CancelKeeps(id) ==
    /\ \E p \in Priorities : id \in Range(queues[p])
    /\ done' = Append(done, [id |-> id, state |-> "Cancelled"])
    /\ UNCHANGED <<services, queues, next_id, counts, ran>>

Cancel(id) ==
    /\ \E p \in Priorities : id \in Range(queues[p])
    /\ queues' = [p \in Priorities |-> SelectSeq(queues[p], LAMBDA j : j # id)]
    /\ done' = Append(done, [id |-> id, state |-> "Cancelled"])
    /\ UNCHANGED <<services, next_id, counts, ran>>

AllCaps == UNION ({Builtin[n] : n \in DOMAIN Builtin} \cup {Extra[n] : n \in DOMAIN Extra})

KrNext ==
    \/ \E n \in DOMAIN Extra : Register(n)
    \/ \E n \in DOMAIN services : Start(n) \/ Stop(n)
    \/ StopAll
    \/ \E p \in Priorities : EnqueueWork(p)
    \/ \E p \in Priorities : \E n \in DOMAIN Extra : \E cap \in AllCaps : EnqueueWithCap(p, n, cap)
    \/ \E n \in BatchSizes : Tick(n)
    \/ \E id \in 1..MaxJobs : Cancel(id)

KrSpec == KrInit /\ [][KrNext]_krVars

-----------------------------------------------------------------------------
Pending == UNION {Range(queues[p]) : p \in Priorities}
Waiting(id) == CHOOSE p \in Priorities : id \in Range(queues[p])

\* No job is lost or run twice, however ticks, cancellations and failures mix
\* (WorkerQueue): the ids handed out are the pending, the run and the cancelled
\* ones, and the counters agree with them.
JobsAccounted ==
    /\ \A i, j \in DOMAIN ran : i # j => ran[i] # ran[j]
    /\ Range(ran) \cap Pending = {}
    /\ counts.submitted = next_id - 1
    /\ counts.completed + counts.failed = Len(ran)
    /\ \A i \in DOMAIN done : done[i].state = "Cancelled" => done[i].id \notin Range(ran) \cup Pending

\* A tick never leaves a job waiting behind one of a lower priority that it ran,
\* nor behind a later one of its own (WorkerQueue::tick).
PriorityStep ==
    \A id \in Pending' :
      \A i \in (Len(ran) + 1)..Len(ran') :
         LET other == ran'[i] IN
         \/ Waiting(other) > Waiting(id)
         \/ Waiting(other) = Waiting(id) /\ other < id
         \/ id \notin Pending

PriorityFirst == [][PriorityStep]_krVars

(*****************************************************************************)
(* HypervisorService (kernel/builtin.rs): the table of VM instances, their   *)
(* heartbeats and the watchdog sweep.  A caller is the set of capabilities   *)
(* of its context.                                                           *)
(*****************************************************************************)
CONSTANTS Vms, Callers, Timeout, MaxNow, MaxSpawn

VARIABLES
    instances,   \* id -> [state, heartbeat]
    total_spawned, total_stopped,
    now,
    swept        \* history: instances a sweep gave up on, still in the table

vmVars == <<instances, total_spawned, total_stopped, now, swept>>

VmInit ==
    /\ instances = [i \in {} |-> 0]
    /\ total_spawned = 0 /\ total_stopped = 0 /\ now = 0 /\ swept = {}

Clock ==
    /\ now < MaxNow /\ now' = now + 1
    /\ UNCHANGED <<instances, total_spawned, total_stopped, swept>>

\* vm_start: Starting becomes Running within the call.
vm_start(id, caps) ==
    /\ "ServiceSpawn" \in caps
    /\ id \notin DOMAIN instances
    /\ total_spawned < MaxSpawn
    /\ instances' = [i \in DOMAIN instances \cup {id} |->
                       IF i = id THEN [state |-> "Running", heartbeat |-> now] ELSE instances[i]]
    /\ total_spawned' = total_spawned + 1
    /\ UNCHANGED <<total_stopped, now, swept>>

\* vm_stop and vm_stop_internal.
Removed(ids) ==
    /\ instances' = [i \in DOMAIN instances \ ids |-> instances[i]]
    /\ total_stopped' = total_stopped + Cardinality(ids)
    /\ swept' = swept \ ids
    /\ UNCHANGED <<total_spawned, now>>

vm_stop(id, caps) ==
    /\ "ServiceKill" \in caps
    /\ id \in DOMAIN instances
    /\ Removed({id})

\* Service::stop: every instance goes, without a capability check.
StopService == instances # [i \in {} |-> 0] /\ Removed(DOMAIN instances)

vm_heartbeat(id) ==
    /\ id \in DOMAIN instances
    /\ instances' = [instances EXCEPT ![id].heartbeat = now]
    /\ UNCHANGED <<total_spawned, total_stopped, now, swept>>

Stale == {i \in DOMAIN instances :
            instances[i].state = "Running" /\ now - instances[i].heartbeat > Timeout}

sweep_stale ==
    /\ Stale # {}
    /\ instances' = [i \in DOMAIN instances |->
                       IF i \in Stale THEN [instances[i] EXCEPT !.state = "Error"] ELSE instances[i]]
    /\ swept' = swept \cup Stale
    /\ UNCHANGED <<total_spawned, total_stopped, now>>

VmNext ==
    \/ Clock \/ StopService \/ sweep_stale
    \/ \E id \in Vms :
          \/ vm_heartbeat(id)
          \/ \E caps \in Callers : vm_start(id, caps) \/ vm_stop(id, caps)

VmSpec == VmInit /\ [][VmNext]_vmVars

-----------------------------------------------------------------------------
\* Every instance ever spawned is in the table or counted as stopped, and one
\* the watchdog gave up on does not come back though its late heartbeats are
\* still accepted (vm_start, vm_stop, sweep_stale).
VmsAccounted ==
    /\ total_spawned = total_stopped + Cardinality(DOMAIN instances)
    /\ \A i \in DOMAIN instances : (instances[i].state = "Error") = (i \in swept)
=============================================================================
