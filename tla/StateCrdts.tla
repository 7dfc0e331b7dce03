----------------------------- MODULE StateCrdts -----------------------------
(***************************************************************************)
(* The replicated data types: PNCounter (and the substrate's GCounter),    *)
(* Map, LwwMap and DvvSet of crdt333, and the platform's ORSet, carried by *)
(* DeltaWrap over a network that loses, repeats and reorders. A behaviour  *)
(* is about one type.                                                      *)
(*   Deletable<Bool> is Absent, 0, 1 or Deleted, in merge order.           *)
(***************************************************************************)
EXTENDS Integers, FiniteSets, FiniteSetsExt

CONSTANTS
    Replicas, Keys, Kinds,
    Cap,            \* u64::MAX of the counters
    MaxTime,        \* timestamps callers give to LwwMap::put
    MaxUpdates,     \* bound: updates in all
    MaxStaged       \* bound: whole states staged in all, before the last update

VARIABLES
    kind,       \* the type in use
    state,      \* state[r]
    seq,        \* seq[r]: ORSet::seq
    timed,      \* timed[r]: ORSet::tombstone_times, the tags r removed itself
    buffer,     \* buffer[r]: DeltaWrap's staged deltas
    sent,       \* drained deltas, each deliverable any number of times
    seen,       \* history: seen[r]: updates that have reached r
    updates,    \* history: number of updates
    staged,     \* number of stage calls
    expired     \* history: tags whose tombstone some replica dropped

scVars == <<kind, state, seq, timed, buffer, sent, seen, updates, staged, expired>>

Absent == -1
Deleted == 2

Zero == [r \in Replicas |-> 0]

New(k) ==
    CASE k = "counter" -> [p |-> Zero, n |-> Zero]
      [] k = "map"     -> [e \in Keys |-> Absent]
      [] k = "lww"     -> [e \in Keys |-> [ts |-> 0, v |-> Absent]]
      [] k = "dvv"     -> [entries |-> {}, context |-> Zero]
      [] k = "orset"   -> [entries |-> {}, tombstones |-> {}]

ScInit ==
    /\ kind \in Kinds
    /\ state = [r \in Replicas |-> New(kind)]
    /\ seq = Zero
    /\ timed = [r \in Replicas |-> {}]
    /\ buffer = [r \in Replicas |-> {}]
    /\ sent = {} /\ updates = 0 /\ staged = 0 /\ expired = {}
    /\ seen = [r \in Replicas |-> {}]

Larger(a, b) == IF a > b THEN a ELSE b

Slots(f, g) == [r \in Replicas |-> Larger(f[r], g[r])]

\* Of each replica's dots only the last
LastDots(es) == {d \in es : \A e \in es : e[1] = d[1] => e[2] <= d[2]}

MergeLww(a, b) ==
    IF a.ts # b.ts THEN (IF a.ts > b.ts THEN a ELSE b)
    ELSE [a EXCEPT !.v = Larger(a.v, b.v)]

MergeOrSet(a, b) ==
    LET tombs == a.tombstones \cup b.tombstones
    IN  [entries |-> {x \in a.entries \cup b.entries : x.tag \notin tombs}, tombstones |-> tombs]

merge(a, b) ==
    CASE kind = "counter" -> [p |-> Slots(a.p, b.p), n |-> Slots(a.n, b.n)]
      [] kind = "map"     -> [e \in Keys |-> Larger(a[e], b[e])]
      [] kind = "lww"     -> [e \in Keys |-> MergeLww(a[e], b[e])]
      [] kind = "dvv"     -> [entries |-> LastDots(a.entries \cup b.entries),
                              context |-> Slots(a.context, b.context)]
      [] kind = "orset"   -> MergeOrSet(a, b)

Saturated(n) == IF n > Cap THEN Cap ELSE n

\* What one local operation of r may do: the new state, and the delta that an
\* ORSet operation returns (the other types stage their whole state)
Changed(r) ==
    LET s == state[r]
        c == s.context[r] + 1
        tag == <<r, seq[r] + 1>>
        tags(e) == {x \in s.entries : x.val = e}
    IN  CASE kind = "counter" ->
                {[s EXCEPT !.p[r] = Saturated(@ + 1)], [s EXCEPT !.n[r] = Saturated(@ + 1)]}
          [] kind = "map" ->
                {[s EXCEPT ![e] = Larger(@, v)] : e \in Keys, v \in {0, 1, Deleted}}
          [] kind = "lww" ->
                {[s EXCEPT ![e] = MergeLww(@, [ts |-> t, v |-> v])] :
                    e \in Keys, t \in 1..MaxTime, v \in {1, Deleted}}
          [] kind = "dvv" ->
                {[entries |-> {d \in s.entries : ~(d[1] = r /\ d[2] < c)} \cup {<<r, c>>},
                  context |-> [s.context EXCEPT ![r] = c]]}
          [] kind = "orset" ->
                {[s EXCEPT !.entries = @ \cup {[val |-> e, tag |-> tag]}] : e \in Keys}
                \cup {[entries |-> s.entries \ tags(e),
                       tombstones |-> s.tombstones \cup {x.tag : x \in tags(e)}] :
                         e \in {k \in Keys : tags(k) # {}}}

DeltaOf(old, new) ==
    [entries |-> new.entries \ old.entries, tombstones |-> new.tombstones \ old.tombstones]

Update(r) ==
    /\ updates < MaxUpdates
    /\ \E new \in Changed(r) :
          LET now == seen[r] \cup {updates + 1} IN
          /\ state' = [state EXCEPT ![r] = new]
          /\ seen' = [seen EXCEPT ![r] = now]
          /\ seq' = IF kind = "orset" /\ ~(new.entries \subseteq state[r].entries)
                    THEN [seq EXCEPT ![r] = @ + 1] ELSE seq
          /\ timed' = IF kind = "orset"
                      THEN [timed EXCEPT ![r] = @ \cup (new.tombstones \ state[r].tombstones)]
                      ELSE timed
          /\ buffer' = IF kind = "orset"
                       THEN [buffer EXCEPT ![r] = @ \cup {[body |-> DeltaOf(state[r], new),
                                                           has |-> {updates + 1}]}]
                       ELSE buffer
    /\ updates' = updates + 1
    /\ UNCHANGED <<kind, sent, staged, expired>>

stage(r) ==
    /\ staged < MaxStaged /\ updates < MaxUpdates
    /\ staged' = staged + 1
    /\ buffer' = [buffer EXCEPT ![r] = @ \cup {[body |-> state[r], has |-> seen[r]]}]
    /\ UNCHANGED <<kind, state, seq, timed, sent, seen, updates, expired>>

drain(r) ==
    /\ buffer[r] # {}
    /\ sent' = sent \cup buffer[r]
    /\ buffer' = [buffer EXCEPT ![r] = {}]
    /\ UNCHANGED <<kind, state, seq, timed, seen, updates, staged, expired>>

\* merges and emits the delta again; an ORSet is merged outside DeltaWrap
absorb(r, m) ==
    /\ state' = [state EXCEPT ![r] = merge(@, m.body)]
    /\ seen' = [seen EXCEPT ![r] = @ \cup m.has]
    /\ buffer' = IF kind = "orset" THEN buffer ELSE [buffer EXCEPT ![r] = @ \cup {m}]
    /\ UNCHANGED <<kind, seq, timed, sent, updates, staged, expired>>

\* The substrate's gossip: every replica merges every other's snapshot.
gossip ==
    /\ kind = "counter"
    /\ state' = [r \in Replicas |-> FoldSet(LAMBDA q, s : merge(s, state[q]), state[r], Replicas)]
    /\ seen' = [r \in Replicas |-> UNION {seen[q] : q \in Replicas}]
    /\ UNCHANGED <<kind, seq, timed, buffer, sent, updates, staged, expired>>

Drop(r, tags) ==
    /\ state' = [state EXCEPT ![r].tombstones = @ \ tags]
    /\ expired' = expired \cup tags
    /\ UNCHANGED <<kind, seq, buffer, sent, seen, updates, staged>>

\* compact, or gc_epoch once enough peers acknowledged: whatever is still on its way
compact(r) ==
    /\ kind = "orset" /\ state[r].tombstones # {}
    /\ Drop(r, state[r].tombstones)
    /\ UNCHANGED timed

\* gc_time drops a tombstone of old age, whoever has seen it; one merged from another
\* replica has no time and stays
gc_time(r, tag) ==
    /\ tag \in timed[r]
    /\ Drop(r, {tag})
    /\ timed' = [timed EXCEPT ![r] = @ \ {tag}]

ScNext ==
    \/ gossip
    \/ \E r \in Replicas :
          \/ Update(r) \/ stage(r) \/ drain(r) \/ compact(r)
          \/ \E m \in sent : absorb(r, m)
          \/ \E tag \in timed[r] : gc_time(r, tag)

ScSpec == ScInit /\ [][ScNext]_scVars

-----------------------------------------------------------------------------
\* What a reader of the type sees
Value(r) ==
    IF kind = "orset" THEN {x \in state[r].entries : x.tag \notin expired} ELSE state[r]

\* Replicas that the same updates have reached, in whatever order, number of
\* copies or grouping, hold the same value: merge is a join, write and remove
\* only ever grow it. Nothing is said of an element whose tombstone compact,
\* gc_epoch or gc_time dropped: a late or repeated add brings it back.
SameSeenSameValue ==
    \A r, q \in Replicas : seen[r] = seen[q] => Value(r) = Value(q)
=============================================================================
