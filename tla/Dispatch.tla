------------------------------ MODULE Dispatch ------------------------------
(***************************************************************************)
(* The platform's message dispatcher: on_message, called from a data       *)
(* channel's callback, decodes a frame and queues a task; process_batch    *)
(* and drain_all, called from the game loop, pop a task under the lock,    *)
(* run it without the lock and only then lower the depth counter.  A frame *)
(* is what decode and the payload's parser find in it.                     *)
(***************************************************************************)
EXTENDS Integers, Sequences, SequencesExt

CONSTANTS
    reliable_cap, unreliable_cap,
    BatchSizes,
    MaxFrames     \* bound on the frames received

VARIABLES
    queue,        \* queue["rel"] and queue["unrel"]: tasks waiting
    depth,        \* queue_depths
    proc,         \* the processor: where it is, its budget and the task in hand
    next,         \* number of the next frame
    accepted,     \* history: reliable tasks answered Ok, in order
    lost,         \* history: unreliable tasks dropped
    ran           \* history: tasks processed, in order

dpVars == <<queue, depth, proc, next, accepted, lost, ran>>

Reliable == {"StateUpdate", "StateFull", "Consensus", "RoomControl", "AppMessage"}
Unreliable == {"Presence", "Heartbeat"}
Parsed == {"StateUpdate", "StateFull", "Presence", "Consensus", "RoomControl"}
NoTask == [id |-> 0]
Idle ==
    [at |-> "idle", batch |-> 0, left |-> 0, drain |-> FALSE, drained |-> FALSE,
     task |-> NoTask]

DpInit ==
    /\ queue = [q \in {"rel", "unrel"} |-> << >>]
    /\ depth = [q \in {"rel", "unrel"} |-> 0]
    /\ proc = Idle
    /\ next = 1
    /\ accepted = << >> /\ lost = {} /\ ran = << >>

\* wire::decode, then from_slice for the types with a parsed payload
decode(frame) ==
    CASE frame.len < 4 -> "error"
      [] frame.version # 1 -> "skip"
      [] frame.type \notin Reliable \cup Unreliable -> "skip"
      [] frame.len < 4 + frame.declared -> "error"
      [] OTHER -> "ok"
Enqueued(frame) == decode(frame) = "ok" /\ (frame.type \in Parsed => frame.json)

cap(q) == IF q = "rel" THEN reliable_cap ELSE unreliable_cap

Push(q, task) ==
    /\ queue' = [queue EXCEPT ![q] = Append(@, task)]
    /\ depth' = [depth EXCEPT ![q] = @ + 1]

\* Mutant: a full reliable queue answers Ok and drops, like the other one.
enqueue_reliableSilent(task) ==
    /\ IF Len(queue["rel"]) >= reliable_cap THEN UNCHANGED <<queue, depth>>
       ELSE Push("rel", task)
    /\ accepted' = Append(accepted, task.id)
    /\ UNCHANGED lost
enqueue_reliable(task) ==
    IF Len(queue["rel"]) >= reliable_cap
    THEN UNCHANGED <<queue, depth, accepted, lost>>   \* QueueFull
    ELSE Push("rel", task) /\ accepted' = Append(accepted, task.id) /\ UNCHANGED lost

enqueue_unreliable(task) ==
    IF Len(queue["unrel"]) >= unreliable_cap
    THEN lost' = lost \cup {task.id} /\ UNCHANGED <<queue, depth, accepted>>
    ELSE Push("unrel", task) /\ UNCHANGED <<accepted, lost>>

on_message(frame) ==
    /\ next <= MaxFrames
    /\ next' = next + 1
    /\ LET task == [id |-> next, type |-> frame.type]
       IN  IF ~Enqueued(frame) THEN UNCHANGED <<queue, depth, accepted, lost>>
           ELSE IF frame.type \in Reliable THEN enqueue_reliable(task)
           ELSE enqueue_unreliable(task)
    /\ UNCHANGED <<proc, ran>>

\* process_batch(batch_size) and drain_all
StartBatch(n) ==
    /\ proc = Idle
    /\ proc' = [Idle EXCEPT !.at = "rel", !.batch = n, !.left = n]
    /\ UNCHANGED <<queue, depth, next, accepted, lost, ran>>
StartDrain ==
    /\ proc = Idle
    /\ proc' = [Idle EXCEPT !.at = "rel", !.drain = TRUE]
    /\ UNCHANGED <<queue, depth, next, accepted, lost, ran>>

\* holding the lock: pop, then release it
Pop(q) ==
    /\ proc.at = q /\ proc.task = NoTask
    /\ proc.drain \/ proc.left > 0
    /\ queue[q] # << >>
    /\ queue' = [queue EXCEPT ![q] = Tail(@)]
    /\ proc' = [proc EXCEPT !.task = Head(queue[q]),
                            !.left = IF proc.drain THEN 0 ELSE @ - 1,
                            !.drained = TRUE]
    /\ UNCHANGED <<depth, next, accepted, lost, ran>>

\* process_task and fetch_sub, with the lock released
process_task(q) ==
    /\ proc.at = q /\ proc.task # NoTask
    /\ ran' = Append(ran, proc.task.id)
    /\ depth' = [depth EXCEPT ![q] = @ - 1]
    /\ proc' = [proc EXCEPT !.task = NoTask]
    /\ UNCHANGED <<queue, next, accepted, lost>>

\* The queue is empty or the batch used up: the unreliable queue with a quarter
\* of the batch, and then the end, or for drain_all another round.
Advance ==
    /\ proc.at \in {"rel", "unrel"} /\ proc.task = NoTask
    /\ queue[proc.at] = << >> \/ (~proc.drain /\ proc.left = 0)
    /\ proc' = IF proc.at = "rel"
               THEN [proc EXCEPT !.at = "unrel", !.left = IF proc.drain THEN 0 ELSE proc.batch \div 4]
               ELSE IF proc.drain /\ proc.drained
               THEN [proc EXCEPT !.at = "rel", !.drained = FALSE]
               ELSE Idle
    /\ UNCHANGED <<queue, depth, next, accepted, lost, ran>>

Frames ==
    {[len |-> 8, version |-> 1, type |-> t, declared |-> 4, json |-> TRUE] :
        t \in {"StateUpdate", "AppMessage", "Heartbeat"}}
    \cup {[len |-> 8, version |-> 1, type |-> "Consensus", declared |-> 4, json |-> FALSE],
          [len |-> 3, version |-> 1, type |-> "Presence", declared |-> 0, json |-> TRUE],
          [len |-> 8, version |-> 2, type |-> "RoomControl", declared |-> 4, json |-> TRUE],
          [len |-> 8, version |-> 1, type |-> "Future", declared |-> 4, json |-> TRUE],
          [len |-> 8, version |-> 1, type |-> "StateFull", declared |-> 9, json |-> TRUE]}

DpNext ==
    \/ \E f \in Frames : on_message(f)
    \/ \E n \in BatchSizes : StartBatch(n)
    \/ StartDrain
    \/ \E q \in {"rel", "unrel"} : Pop(q) \/ process_task(q)
    \/ Advance

DpSpec == DpInit /\ [][DpNext]_dpVars

\* However callbacks fall between pop, processing and the counter: a reliable
\* message answered Ok is run exactly once, in the order of the answers, or is
\* still held; the counters behind backpressure_level are the tasks held; and
\* no queue outgrows its capacity.
DispatchedInOrder ==
    LET held(q) == [i \in 1 .. Len(queue[q]) |-> queue[q][i].id]
        inHand(q) == IF proc.at = q /\ proc.task # NoTask THEN <<proc.task.id>> ELSE << >>
    IN  /\ SelectSeq(ran, LAMBDA i : Contains(accepted, i)) \o inHand("rel") \o held("rel")
               = accepted
        /\ \A q \in {"rel", "unrel"} :
              /\ depth[q] = Len(held(q)) + Len(inHand(q))
              /\ Len(queue[q]) <= cap(q)
=============================================================================
