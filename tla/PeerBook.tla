---- MODULE PeerBook ----
(* What a node keeps about its peers. Four books, no state shared between them, so a
   behaviour is of one of them, chosen at the start:
   - "mesh": the signaling mesh's subscriptions, scores and inbox
     (333-signaling/src/lib.rs), published to by several threads;
   - "routing": signed peer records over k-buckets that evict the least recent
     (333-signed-routing, 333-kademlia) beside the platform's k-buckets that keep
     the oldest (333-platform/src/storage/kademlia.rs);
   - "relay": a super peer's connections and relay pairs
     (333-platform/src/p2p/super_peer.rs);
   - "eject": the idle-peer votes of a game (333-platform/src/netcode/peer_eject.rs).
   Scores are whole numbers: a decay leaves any smaller whole number. *)
EXTENDS Integers, Sequences, SequencesExt, FiniteSets, FiniteSetsExt, Bitwise

CONSTANTS Threads, Senders, Topics, Seqs,
          MaxPublish,      \* calls of publish
          Tolerance,       \* a sender whose score is below -Tolerance is banned
          InvalidWeight,   \* what an invalid message costs
          Bits, Local, K,  \* identifiers are 0..2^Bits - 1; a bucket holds K
          Known,           \* identifiers of the peers that show up
          MaxStamp, MaxShown,
          RelayPeers, MaxConnections, MaxPairs,
          Players, AfkTimeout, MaxClock

VARIABLES book,
          topics, stats, seen, dropped, inbox, drained, call, published,  \* mesh
          buckets, records, shown, oldest, met,                  \* routing
          conns, pairs, figures,                                 \* relay
          clock, lastInput, vote, ejected, decided               \* eject

meshVars == <<topics, stats, seen, dropped, inbox, drained, call, published>>
routingVars == <<buckets, records, shown, oldest, met>>
relayVars == <<conns, pairs, figures>>
ejectVars == <<clock, lastInput, vote, ejected, decided>>
pbVars == <<book, meshVars, routingVars, relayVars, ejectVars>>

Idle == [pc |-> "idle"]
Nobody == "nobody"

ScorerInit == stats = [s \in Senders |-> [first |-> 0, invalid |-> 0]]
MeshInit == /\ topics = {} /\ seen = {} /\ dropped = {} /\ inbox = [t \in Topics |-> <<>>]
            /\ drained = <<>> /\ call = [t \in Threads |-> Idle] /\ published = 0
            /\ ScorerInit

EmptyTable == [i \in 0..(Bits - 1) |-> <<>>]
SignedTableInit == buckets = EmptyTable /\ records = [n \in {} |-> 0] /\ shown = <<>>
RoutingInit == SignedTableInit /\ oldest = EmptyTable /\ met = <<>>

RelayInit == /\ conns = [p \in {} |-> 0] /\ pairs = <<>>
             /\ figures = [active |-> 0, pairs |-> 0, bytes |-> 0]

EjectInit == clock = 0 /\ lastInput = [p \in {} |-> 0] /\ vote = Nobody /\ ejected = {} /\ decided = {}

PbInit ==
  /\ book \in {"mesh", "routing", "relay", "eject"}
  /\ MeshInit /\ RoutingInit /\ RelayInit /\ EjectInit

----
(* InMemorySignalingMesh. A publish holds one lock at a time. *)
ScoreParams == [first_delivery_weight |-> 1, invalid_msg_weight |-> -InvalidWeight, ban_threshold |-> -Tolerance]

score(s) == stats[s].first * ScoreParams.first_delivery_weight
            + stats[s].invalid * ScoreParams.invalid_msg_weight
is_banned(s) == score(s) < ScoreParams.ban_threshold

At(t, pc) == call[t].pc = pc
Goes(t, c) == call' = [call EXCEPT ![t] = c]

subscribe(topic) == topics' = topics \cup {topic} /\ UNCHANGED <<stats, seen, dropped, inbox, drained, call, published>>
unsubscribe(topic) == topics' = topics \ {topic} /\ UNCHANGED <<stats, seen, dropped, inbox, drained, call, published>>

\* The signature is checked first; a bad one is charged to the sender it names.
publish(t, topic, from, seq, genuine, mine) ==
  /\ At(t, "idle") /\ published < MaxPublish
  /\ published' = published + 1
  /\ IF genuine THEN Goes(t, [pc |-> "gate", topic |-> topic, from |-> from, seq |-> seq, mine |-> mine]) /\ UNCHANGED stats
     ELSE stats' = [stats EXCEPT ![from].invalid = @ + 1] /\ UNCHANGED call
  /\ UNCHANGED <<topics, seen, dropped, inbox, drained>>

Gate(t) ==
  /\ At(t, "gate")
  /\ Goes(t, IF is_banned(call[t].from) THEN Idle ELSE [call[t] EXCEPT !.pc = "topic"])
  /\ UNCHANGED <<topics, stats, seen, dropped, inbox, drained, published>>

Route(t) ==
  /\ At(t, "topic")
  /\ Goes(t, IF call[t].topic \in topics /\ call[t].mine THEN [call[t] EXCEPT !.pc = "seen"] ELSE Idle)
  /\ UNCHANGED <<topics, stats, seen, dropped, inbox, drained, published>>

Key(env) == <<env.topic, env.from, env.seq>>

First(env) == Key(env) \notin seen

\* Looked up and inserted under one lock.
Remember(t) ==
  /\ At(t, "seen")
  /\ IF First(call[t])
     THEN seen' = seen \cup {Key(call[t])} /\ Goes(t, [call[t] EXCEPT !.pc = "credit"])
          /\ UNCHANGED dropped
     ELSE dropped' = dropped \cup {Key(call[t])} /\ Goes(t, Idle) /\ UNCHANGED seen
  /\ UNCHANGED <<topics, stats, inbox, drained, published>>

Credit(t) ==
  /\ At(t, "credit")
  /\ stats' = [stats EXCEPT ![call[t].from].first = @ + 1]
  /\ Goes(t, [call[t] EXCEPT !.pc = "push"])
  /\ UNCHANGED <<topics, seen, dropped, inbox, drained, published>>

Deliver(t) ==
  /\ At(t, "push")
  /\ inbox' = [inbox EXCEPT ![call[t].topic] = Append(@, Key(call[t]))]
  /\ Goes(t, Idle)
  /\ UNCHANGED <<topics, stats, seen, dropped, drained, published>>

drain(topic) ==
  /\ inbox[topic] # <<>>
  /\ drained' = drained \o inbox[topic]
  /\ inbox' = [inbox EXCEPT ![topic] = <<>>]
  /\ UNCHANGED <<topics, stats, seen, dropped, call, published>>

decay ==
  /\ \E s \in Senders : \E f \in 0..stats[s].first, i \in 0..stats[s].invalid :
       stats' = [stats EXCEPT ![s] = [first |-> f, invalid |-> i]]
  /\ UNCHANGED <<topics, seen, dropped, inbox, drained, call, published>>

MeshStep ==
  /\ \/ \E t \in Threads : \E topic \in Topics, from \in Senders, seq \in Seqs, genuine, mine \in BOOLEAN :
          publish(t, topic, from, seq, genuine, mine)
     \/ \E t \in Threads : Gate(t) \/ Route(t) \/ Remember(t) \/ Credit(t) \/ Deliver(t)
     \/ \E topic \in Topics : subscribe(topic) \/ unsubscribe(topic) \/ drain(topic)
     \/ decay
  /\ UNCHANGED <<routingVars, relayVars, ejectVars>>

\* Everything that was seen as new is in exactly one place: with its publisher, in
\* the inbox or drained; nothing is delivered twice, to whichever thread it came,
\* and only what was seen before is dropped as a duplicate.
MeshSound ==
  LET delivered == FoldLeft(LAMBDA acc, t : acc \o inbox[t], drained, SetToSeq(Topics))
      carried == {t \in Threads : At(t, "credit") \/ At(t, "push")}
  IN /\ IsInjective(delivered)
     /\ \A t, u \in carried : t # u => Key(call[t]) # Key(call[u])
     /\ seen = ToSet(delivered) \cup {Key(call[t]) : t \in carried}
     /\ \A t \in carried : Key(call[t]) \notin ToSet(delivered)
     /\ dropped \subseteq seen

----
(* SignedRoutingTable over RoutingTable, and KademliaNode. *)
Distance(a, b) == a ^^ b
leading_zeros(d) == CHOOSE z \in 0..Bits : d \in (IF z = Bits THEN {0} ELSE 2^(Bits - 1 - z)..(2^(Bits - z) - 1))
bucket_index(peer) == leading_zeros(Distance(Local, peer))

is_full(bucket) == Len(bucket) >= K

\* KBucket::observe of 333-kademlia: a full bucket forgets its least recent entry.
observe(bucket, n) ==
  LET rest == IF Contains(bucket, n) THEN Remove(bucket, n)
              ELSE IF is_full(bucket) THEN Tail(bucket) ELSE bucket
  IN Append(rest, n)

\* KBucket::update of the platform: a full bucket refuses the newcomer.
update(bucket, n) ==
  IF Contains(bucket, n) THEN Append(Remove(bucket, n), n)
  ELSE IF Len(bucket) < K THEN Append(bucket, n) ELSE bucket

SignedPeerRecord(n, stamp, fresh) == [node |-> n, stamp |-> stamp, fresh |-> fresh]

\* A record whose signature does not verify, or no newer than the one held, changes nothing.
ShowRecord(n, stamp, genuine) ==
  LET i == bucket_index(n)
      fresh == genuine /\ (n \in DOMAIN records => stamp > records[n])
  IN /\ Len(shown) + Len(met) < MaxShown
     /\ shown' = IF genuine THEN Append(shown, SignedPeerRecord(n, stamp, fresh)) ELSE shown
     /\ records' = IF fresh THEN [m \in DOMAIN records \cup {n} |-> IF m = n THEN stamp ELSE records[m]] ELSE records
     /\ buckets' = IF fresh /\ i < Bits THEN [buckets EXCEPT ![i] = observe(@, n)] ELSE buckets
     /\ UNCHANGED <<oldest, met>>

\* The platform's own index of a distance, the last bucket for none.
contact_bucket(n) == LET d == Distance(Local, n) IN IF d = 0 THEN Bits - 1 ELSE leading_zeros(d)

update_contact(n) ==
  /\ Len(shown) + Len(met) < MaxShown /\ n # Local
  /\ met' = Append(met, n)
  /\ oldest' = [oldest EXCEPT ![contact_bucket(n)] = update(@, n)]
  /\ UNCHANGED <<buckets, records, shown>>

RoutingStep ==
  /\ \/ \E n \in Known \cup {Local}, stamp \in 1..MaxStamp, genuine \in BOOLEAN : ShowRecord(n, stamp, genuine)
     \/ \E n \in Known : update_contact(n)
  /\ UNCHANGED <<meshVars, relayVars, ejectVars>>

\* find_closest: all buckets' entries by distance from the target, the first few.
find_closest(table, target, count) ==
  LET all == SetToSortSeq(UNION {ToSet(table[i]) : i \in DOMAIN table},
                          LAMBDA a, b : Distance(a, target) < Distance(b, target))
  IN SubSeq(all, 1, IF Len(all) < count THEN Len(all) ELSE count)

\* The last K different members of a history, the oldest first.
LastOf(history) ==
  LET n == Len(history)
      final == {j \in 1..n : \A k \in (j + 1)..n : history[k] # history[j]}
      kept == {j \in final : Cardinality({k \in final : k >= j}) <= K}
  IN [x \in 1..Cardinality(kept) |-> history[SetToSortSeq(kept, <)[x]]]

\* A node's record is the newest genuine one shown, in whatever order the records
\* came; a bucket is the last K nodes of its distance whose newer record was taken,
\* and the platform's bucket the first K met; a lookup returns records only, nearest
\* first, and no node of a bucket is nearer than those returned.
RoutingSound ==
  LET genuine(n) == {shown[j].stamp : j \in {k \in DOMAIN shown : shown[k].node = n}}
      taken(i) == LET s == SelectSeq(shown, LAMBDA r : r.fresh /\ bucket_index(r.node) = i)
                  IN [j \in DOMAIN s |-> s[j].node]
      metAt(i) == SelectSeq(met, LAMBDA n : bucket_index(n) = i)
  IN /\ \A n \in Known \cup {Local} :
          IF genuine(n) = {} THEN n \notin DOMAIN records ELSE records[n] = Max(genuine(n))
     /\ \A i \in DOMAIN buckets : buckets[i] = LastOf(taken(i))
     /\ \A i \in DOMAIN oldest :
          LET all == metAt(i)
              early == {n \in ToSet(all) : Cardinality(ToSet(SubSeq(all, 1, SelectInSeq(all, LAMBDA x : x = n)))) <= K}
          IN ToSet(oldest[i]) = early /\ Len(oldest[i]) = Cardinality(early)
     /\ \A target \in Known, count \in 1..K :
          LET found == find_closest(buckets, target, count) IN
          /\ ToSet(found) \subseteq DOMAIN records
          /\ \A n \in UNION {ToSet(buckets[i]) : i \in DOMAIN buckets} \ ToSet(found) :
               Len(found) = count /\ Distance(n, target) > Distance(Last(found), target)

----
(* SuperPeer. *)
Figured(c, ps) == [figures EXCEPT !.active = Cardinality(DOMAIN c), !.pairs = Len(ps)]

\* At its limit it turns away even a peer it already holds.
accept_connection(p) ==
  /\ Cardinality(DOMAIN conns) < MaxConnections
  /\ conns' = [q \in DOMAIN conns \cup {p} |-> IF q = p THEN 0 ELSE conns[q]]
  /\ figures' = [figures EXCEPT !.active = Cardinality(DOMAIN conns')]
  /\ UNCHANGED pairs

disconnect(p) ==
  /\ conns' = [q \in DOMAIN conns \ {p} |-> conns[q]]
  /\ pairs' = SelectSeq(pairs, LAMBDA pair : p \notin {pair[1], pair[2]})
  /\ figures' = Figured(conns', pairs')

create_relay(a, b) ==
  /\ {a, b} \subseteq DOMAIN conns /\ Len(pairs) < MaxPairs
  /\ pairs' = Append(pairs, <<a, b>>)
  /\ figures' = [figures EXCEPT !.pairs = Len(pairs')]
  /\ UNCHANGED conns

\* One copy per end of a pair that names the sender.
Targets(from) ==
  FoldLeft(LAMBDA acc, pair : acc \o (IF pair[1] = from THEN <<pair[2]>> ELSE <<>>)
                                  \o (IF pair[2] = from THEN <<pair[1]>> ELSE <<>>), <<>>, pairs)

relay_data(from) ==
  /\ Targets(from) # <<>> /\ figures.bytes < MaxPairs
  /\ figures' = [figures EXCEPT !.bytes = @ + Len(Targets(from))]
  /\ conns' = IF from \in DOMAIN conns THEN [conns EXCEPT ![from] = @ + 1] ELSE conns
  /\ UNCHANGED pairs

RelayStep ==
  /\ \E p \in RelayPeers : accept_connection(p) \/ disconnect(p) \/ relay_data(p)
                           \/ \E q \in RelayPeers : create_relay(p, q)
  /\ UNCHANGED <<meshVars, routingVars, ejectVars>>

\* Data is relayed between connected peers only, and the published figures are those
\* of the tables, whatever the order of connections, relays and disconnections.
RelaySound ==
  /\ \A j \in DOMAIN pairs : ToSet(pairs[j]) \subseteq DOMAIN conns
  /\ Cardinality(DOMAIN conns) <= MaxConnections
  /\ figures.active = Cardinality(DOMAIN conns) /\ figures.pairs = Len(pairs)
  /\ MapThenSumSet(LAMBDA p : conns[p], DOMAIN conns) <= figures.bytes

----
(* PeerEjectController. The vote itself is taken elsewhere and its result comes back
   through apply_vote_result, whenever it likes. *)
Passes == clock < MaxClock /\ clock' = clock + 1 /\ UNCHANGED <<lastInput, vote, ejected, decided>>

record_input(p) ==
  /\ lastInput' = [q \in DOMAIN lastInput \cup {p} |-> IF q = p THEN clock ELSE lastInput[q]]
  /\ vote' = IF vote = p THEN Nobody ELSE vote
  /\ UNCHANGED <<clock, ejected, decided>>

Afk == {p \in DOMAIN lastInput \ ejected : clock - lastInput[p] > AfkTimeout}
tick == decided' = Afk /\ UNCHANGED <<clock, lastInput, vote, ejected>>

start_eject_vote(p) ==
  /\ vote = Nobody /\ p \notin ejected
  /\ vote' = p
  /\ UNCHANGED <<clock, lastInput, ejected, decided>>

apply_vote_result(p, approved) ==
  /\ vote' = IF vote = p THEN Nobody ELSE vote
  /\ ejected' = IF approved THEN ejected \cup {p} ELSE ejected
  /\ UNCHANGED <<clock, lastInput, decided>>

EjectStep ==
  /\ \/ Passes \/ tick
     \/ \E p \in Players : record_input(p) \/ (p \in decided /\ start_eject_vote(p))
                           \/ \E approved \in BOOLEAN : apply_vote_result(p, approved)
  /\ UNCHANGED <<meshVars, routingVars, relayVars>>

\* No vote is open on a peer that is out already.
EjectSound == vote \notin ejected

----
PbNext == /\ UNCHANGED book
          /\ \/ book = "mesh" /\ MeshStep
             \/ book = "routing" /\ RoutingStep
             \/ book = "relay" /\ RelayStep
             \/ book = "eject" /\ EjectStep

PbSpec == PbInit /\ [][PbNext]_pbVars

(* The books agree with what the node was told, in whatever order it was told it
   (InMemorySignalingMesh::publish, SignedRoutingTable::observe, KademliaNode,
   SuperPeer, PeerEjectController). *)
PeersKept == MeshSound /\ RoutingSound /\ RelaySound /\ EjectSound

====
