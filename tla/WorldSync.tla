----------------------------- MODULE WorldSync -----------------------------
(***************************************************************************)
(* The shared world of the platform: an LwwMap per node with its Lamport   *)
(* clock, and the SyncManager that batches deltas, polls them out, sends   *)
(* full snapshots to new peers and merges what arrives.  Data channels     *)
(* deliver in any order.  A batch whose encoding exceeds MAX_PAYLOAD is    *)
(* gone: poll_outgoing has drained it before it encodes.                   *)
(***************************************************************************)
EXTENDS Integers, Sequences, SequencesExt, FiniteSets, FiniteSetsExt

CONSTANTS
    Nodes,        \* node ids, ordered integers
    Keys, Values,
    MaxPayload,   \* entries that fit in one message
    MaxWrites, MaxFull   \* bounds of the model

\* A stamp orders by counter and then by node id, a u64.
ASSUME WorldAssumption == Nodes \subseteq Int /\ IsFiniteSet(Keys)

VARIABLES
    world,        \* world[n]: key -> entry [value, counter, node]
    clock,        \* clock[n]: the Lamport counter
    batch,        \* batch[n]: batch_queue
    sv,           \* sv[n]: state_vector
    net,          \* messages in flight: [to, changes, sv, id]
    writes, fulls,
    oversized     \* history: entries of batches that could not be encoded

wsVars == <<world, clock, batch, sv, net, writes, fulls, oversized>>

Deleted == 0
Before(a, b) == a.counter < b.counter \/ (a.counter = b.counter /\ a.node < b.node)

WsInit ==
    /\ world = [n \in Nodes |-> << >>]
    /\ clock = [n \in Nodes |-> 0]
    /\ batch = [n \in Nodes |-> << >>]
    /\ sv = [n \in Nodes |-> [m \in Nodes |-> 0]]
    /\ net = {} /\ writes = 0 /\ fulls = 0 /\ oversized = {}

\* entries.insert
Put(w, k, e) == [x \in DOMAIN w \cup {k} |-> IF x = k THEN e ELSE w[x]]

\* set and delete (value Deleted), with on_local_delta
Write(n, k, v) ==
    LET e == [value |-> v, counter |-> clock[n] + 1, node |-> n]
    IN  /\ writes < MaxWrites
        /\ clock' = [clock EXCEPT ![n] = @ + 1]
        /\ world' = [world EXCEPT ![n] = Put(@, k, e)]
        /\ batch' = [batch EXCEPT ![n] = Append(@, <<k, e>>)]
        /\ sv' = [sv EXCEPT ![n][n] = Max({@, e.counter})]
        /\ writes' = writes + 1
        /\ UNCHANGED <<net, fulls, oversized>>

\* the channel sends to every other node
Message(m, changes, vector) ==
    [to |-> m, changes |-> changes, sv |-> vector]

poll_outgoing(n) ==
    LET changes == batch[n]
    IN  /\ changes # << >>
        /\ batch' = [batch EXCEPT ![n] = << >>]
        /\ IF Len(changes) > MaxPayload
           THEN oversized' = oversized \cup Range(changes) /\ UNCHANGED net
           ELSE /\ net' = net \cup {Message(m, changes, sv[n]) : m \in Nodes \ {n}}
                /\ UNCHANGED oversized
        /\ UNCHANGED <<world, clock, sv, writes, fulls>>

\* Snapshots are HashMaps: any order of the entries
create_full_snapshot(n, m) ==
    LET entries == {<<k, world[n][k]>> : k \in DOMAIN world[n]}
        seen(p) == {e[2].counter : e \in {x \in entries : x[2].node = p}}
        global == [p \in Nodes |-> Max({sv[n][p]} \cup seen(p))]
    IN  /\ fulls < MaxFull /\ entries # {}
        /\ Cardinality(entries) <= MaxPayload
        /\ \E order \in SetToSeqs(entries) : net' = net \cup {Message(m, order, global)}
        /\ fulls' = fulls + 1
        /\ UNCHANGED <<world, clock, batch, sv, writes, oversized>>

\* Mutant: the later of two entries of one counter wins.
WinsOnCounter(w, k, e) == k \in DOMAIN w => w[k].counter <= e.counter

\* The comparison of merge_delta: an entry that is not newer is skipped.
Wins(w, k, e) == k \in DOMAIN w => Before(w[k], e)

recv(c, e) == Max({c, e.counter}) + 1

\* merge_delta over the changes of a message, in their order
Merged(w, changes) ==
    LET after[i \in 0 .. Len(changes)] ==
            IF i = 0 THEN w
            ELSE IF Wins(after[i - 1], changes[i][1], changes[i][2])
                 THEN Put(after[i - 1], changes[i][1], changes[i][2]) ELSE after[i - 1]
    IN  after[Len(changes)]
Clocked(c, changes) ==
    LET after[i \in 0 .. Len(changes)] ==
            IF i = 0 THEN c ELSE recv(after[i - 1], changes[i][2])
    IN  after[Len(changes)]

process_incoming(m) ==
    LET n == m.to
    IN  /\ net' = net \ {m}
        /\ sv' = [sv EXCEPT ![n] = [p \in Nodes |-> Max({@[p], m.sv[p]})]]
        /\ world' = [world EXCEPT ![n] = Merged(@, m.changes)]
        /\ clock' = [clock EXCEPT ![n] = Clocked(@, m.changes)]
        /\ UNCHANGED <<batch, writes, fulls, oversized>>

Settled == net = {} /\ \A n \in Nodes : batch[n] = << >>

\* compact, under its condition: all peers have synced
compact(n) ==
    /\ Settled /\ oversized = {}
    /\ world' = [world EXCEPT ![n] =
          [k \in {x \in DOMAIN @ : @[x].value # Deleted} |-> @[k]]]
    /\ UNCHANGED <<clock, batch, sv, net, writes, fulls, oversized>>

WsNext ==
    \/ \E n \in Nodes :
          \/ \E k \in Keys, v \in Values \cup {Deleted} : Write(n, k, v)
          \/ poll_outgoing(n)
          \/ compact(n)
          \/ \E m \in Nodes \ {n} : create_full_snapshot(n, m)
    \/ \E m \in net : process_incoming(m)

WsSpec == WsInit /\ [][WsNext]_wsVars

get(n, k) == IF k \in DOMAIN world[n] THEN world[n][k].value ELSE Deleted

\* Concurrent writes, deltas in any order and snapshots overlapping them: when
\* everything has arrived and no batch was too large, all nodes read the same
\* world; and a node's clock is never behind an entry it holds, so that its
\* next write supersedes what it has read.
WorldsConverge ==
    /\ Settled /\ oversized = {} =>
          \A n, m \in Nodes, k \in Keys : get(n, k) = get(m, k)
    /\ \A n \in Nodes : \A k \in DOMAIN world[n] : world[n][k].counter <= clock[n]
=============================================================================
