------------------------------ MODULE Plumtree ------------------------------
(***************************************************************************)
(* Epidemic dissemination: gossip333's InMemoryPlumtree and the endpoint   *)
(* that carries authority messages over it (333-transfer/src/epidemic.rs). *)
(* A message is its content hash.                                          *)
(***************************************************************************)
EXTENDS Integers, FiniteSets, Sequences, SequencesExt

CONSTANTS
    Peers,      \* endpoints joined
    Msgs,       \* message ids
    Dropped     \* peers whose eager edges may be missing at the start

VARIABLES
    eager, lazy,     \* the two views of each peer
    seen,            \* seen[p]: messages stored
    pending,         \* pending[p]: IHAVEs queued for the next tick
    mail,            \* mail[p]: payloads delivered to p, with the previous hop
    control,         \* control[p]: IHAVE, GRAFT and PRUNE for p
    delivered        \* delivered[p]: deliver_counts of each message

ptVars == <<eager, lazy, seen, pending, mail, control, delivered>>

\* mesh_all_eager, and mesh_with_dropped_eager_edge: everyone knows `to' as a
\* lazy peer only.
mesh_all_eager ==
    [eager |-> [p \in Peers |-> Peers \ {p}], lazy |-> [p \in Peers |-> {}]]
mesh_with_dropped_eager_edge(to) ==
    [eager |-> [p \in Peers |-> IF p = to THEN Peers \ {p} ELSE Peers \ {p, to}],
     lazy |-> [p \in Peers |-> IF p = to THEN {} ELSE {to}]]

PtInit ==
    /\ \E o \in {mesh_all_eager} \cup {mesh_with_dropped_eager_edge(p) : p \in Dropped} :
          eager = o.eager /\ lazy = o.lazy
    /\ seen = [p \in Peers |-> {}]
    /\ pending = [p \in Peers |-> {}]
    /\ mail = [p \in Peers |-> <<>>]
    /\ control = [p \in Peers |-> <<>>]
    /\ delivered = [p \in Peers |-> [m \in Msgs |-> 0]]

\* Event::Eager, Event::IHave: what a peer that has just stored m sends.  The
\* order in which a view is walked is not defined, and mailboxes are separate.
Eager(p, to, m, boxes) ==
    [q \in Peers |-> IF q \in to THEN Append(boxes[q], [from |-> p, msg |-> m]) ELSE boxes[q]]
Control(type, p, to, m, boxes) ==
    [q \in Peers |-> IF q \in to
                     THEN Append(boxes[q], [type |-> type, from |-> p, msg |-> m])
                     ELSE boxes[q]]

Deliver(p, m) == delivered' = [delivered EXCEPT ![p][m] = @ + 1]

\* broadcast_msg: nothing at all for a message seen before.
Broadcast(p, m) ==
    /\ m \notin seen[p]
    /\ \A q \in Peers : m \notin seen[q]
    /\ seen' = [seen EXCEPT ![p] = @ \cup {m}]
    /\ Deliver(p, m)
    /\ mail' = Eager(p, eager[p], m, mail)
    /\ control' = Control("IHave", p, lazy[p], m, control)
    /\ UNCHANGED <<eager, lazy, pending>>

\* on_eager_payload of a new message: stored, handed to the application and
\* forwarded to everyone but the hop it came from.
OnReceive(p) ==
    LET e == Head(mail[p]) IN
    /\ mail[p] # <<>>
    /\ e.msg \notin seen[p]
    /\ seen' = [seen EXCEPT ![p] = @ \cup {e.msg}]
    /\ Deliver(p, e.msg)
    /\ mail' = Eager(p, eager[p] \ {e.from}, e.msg, [mail EXCEPT ![p] = Tail(@)])
    /\ control' = Control("IHave", p, lazy[p] \ {e.from}, e.msg, control)
    /\ UNCHANGED <<eager, lazy, pending>>

\* on_eager_payload of a duplicate: an eager sender is demoted and told so.
OnDuplicate(p) ==
    LET e == Head(mail[p])
        prune == e.from \in eager[p]
    IN /\ mail[p] # <<>>
       /\ e.msg \in seen[p]
       /\ mail' = [mail EXCEPT ![p] = Tail(@)]
       /\ eager' = [eager EXCEPT ![p] = @ \ {e.from}]
       /\ lazy' = [lazy EXCEPT ![p] = IF prune THEN @ \cup {e.from} ELSE @]
       /\ control' = Control("Prune", p, IF prune THEN {e.from} ELSE {}, e.msg, control)
       /\ UNCHANGED <<seen, pending, delivered>>

\* on_ihave: a missing message is asked for at the next tick.
OnIHave(p) ==
    LET c == Head(control[p]) IN
    /\ control[p] # <<>> /\ c.type = "IHave"
    /\ control' = [control EXCEPT ![p] = Tail(@)]
    /\ pending' = [pending EXCEPT ![p] =
                      IF c.msg \in seen[p] THEN @
                      ELSE @ \cup {[from |-> c.from, msg |-> c.msg]}]
    /\ UNCHANGED <<eager, lazy, seen, mail, delivered>>

\* Mutant: a GRAFT repairs the edge and retransmits nothing.
OnGraftSilent(p) ==
    LET c == Head(control[p]) IN
    /\ control[p] # <<>> /\ c.type = "Graft"
    /\ control' = [control EXCEPT ![p] = Tail(@)]
    /\ lazy' = [lazy EXCEPT ![p] = @ \ {c.from}]
    /\ eager' = [eager EXCEPT ![p] = @ \cup {c.from}]
    /\ UNCHANGED <<seen, pending, mail, delivered>>

\* on_graft: the edge is eager again and the body is sent.
OnGraft(p) ==
    LET c == Head(control[p]) IN
    /\ control[p] # <<>> /\ c.type = "Graft"
    /\ control' = [control EXCEPT ![p] = Tail(@)]
    /\ lazy' = [lazy EXCEPT ![p] = @ \ {c.from}]
    /\ eager' = [eager EXCEPT ![p] = @ \cup {c.from}]
    /\ mail' = Eager(p, IF c.msg \in seen[p] THEN {c.from} ELSE {}, c.msg, mail)
    /\ UNCHANGED <<seen, pending, delivered>>

\* on_prune.
OnPrune(p) ==
    LET c == Head(control[p]) IN
    /\ control[p] # <<>> /\ c.type = "Prune"
    /\ control' = [control EXCEPT ![p] = Tail(@)]
    /\ eager' = [eager EXCEPT ![p] = @ \ {c.from}]
    /\ lazy' = [lazy EXCEPT ![p] = IF c.from \in eager[p] THEN @ \cup {c.from} ELSE @]
    /\ UNCHANGED <<seen, pending, mail, delivered>>

\* tick: every announcement still missing becomes a GRAFT, one per announcer.
Tick(p) ==
    LET wanted == {i \in pending[p] : i.msg \notin seen[p]} IN
    /\ pending[p] # {}
    /\ pending' = [pending EXCEPT ![p] = {}]
    /\ control' = [q \in Peers |->
                      control[q] \o SetToSeq({[type |-> "Graft", from |-> p, msg |-> i.msg] :
                                                i \in {w \in wanted : w.from = q}})]
    /\ UNCHANGED <<eager, lazy, seen, mail, delivered>>

PtNext ==
    \/ \E p \in Peers, m \in Msgs : Broadcast(p, m)
    \/ \E p \in Peers : OnReceive(p)
    \/ \E p \in Peers : OnDuplicate(p)
    \/ \E p \in Peers : OnIHave(p)
    \/ \E p \in Peers : OnGraft(p)
    \/ \E p \in Peers : OnPrune(p)
    \/ \E p \in Peers : Tick(p)

PtSpec == PtInit /\ [][PtNext]_ptVars

-----------------------------------------------------------------------------
Quiescent ==
    \A p \in Peers : mail[p] = <<>> /\ control[p] = <<>> /\ pending[p] = {}

\* However the tree was pruned and grafted, each message is handed to the
\* application of a peer at most once, and once nothing is under way every
\* peer has every message (gossip: on_receive, on_graft; epidemic.rs: tick).
Disseminated ==
    /\ \A p \in Peers, m \in Msgs : delivered[p][m] <= 1
    /\ \A p \in Peers : eager[p] \cap lazy[p] = {}
    /\ Quiescent =>
          \A p, q \in Peers : seen[p] = seen[q]

(*****************************************************************************)
(* membership333: HyParView's partial views and the messages its handlers    *)
(* return.  Delivery is per-pair FIFO.  Views are sequences, oldest first.   *)
(*****************************************************************************)
CONSTANTS
    Nodes,
    ActiveCap, PassiveCap,  \* ViewSizes
    Contacts,               \* pairs <<p, contact>> of the joins that may happen
    MaxTtl,                 \* ttl a contact gives a ForwardJoin
    MaxMessages             \* bound: messages sent in all

VARIABLES
    active, passive,    \* the two views of each node
    chan,               \* chan[p][q]: messages from p to q
    joined,             \* joins made so far
    messages,           \* number of messages sent
    evicted             \* history: <<p, q>>: p's join dropped q without telling it

hvVars == <<active, passive, chan, joined, messages, evicted>>

HvInit ==
    /\ active = [p \in Nodes |-> << >>] /\ passive = [p \in Nodes |-> << >>]
    /\ chan = [p \in Nodes |-> [q \in Nodes |-> << >>]]
    /\ joined = {} /\ messages = 0 /\ evicted = {}

Has(s, x) == x \in ToSet(s)
Take(s, k) == SubSeq(s, 1, IF k < Len(s) THEN k ELSE Len(s))
Without(s, x) == SelectSeq(s, LAMBDA y : y # x)

\* A view v is [me, active, passive, out]; out is the peer evicted, if any.
View(p) == [me |-> p, active |-> active[p], passive |-> passive[p], out |-> << >>]

add_passive(v, peer) ==
    IF peer = v.me \/ Has(v.active, peer) \/ Has(v.passive, peer) THEN v
    ELSE [v EXCEPT !.passive = Append(IF Len(@) >= PassiveCap THEN Tail(@) ELSE @, peer)]

add_active(v, peer) ==
    IF peer = v.me \/ Has(v.active, peer) THEN v
    ELSE LET w == [v EXCEPT !.passive = Without(@, peer)]
         IN  IF Len(w.active) >= ActiveCap
             THEN add_passive([w EXCEPT !.active = Append(Tail(@), peer), !.out = <<Head(w.active)>>],
                              Head(w.active))
             ELSE [w EXCEPT !.active = Append(@, peer)]

\* p's views become v's and it sends msgs, records with a destination
Becomes(p, v, row, msgs) ==
    /\ active' = [active EXCEPT ![p] = v.active]
    /\ passive' = [passive EXCEPT ![p] = v.passive]
    /\ messages + Len(msgs) <= MaxMessages
    /\ messages' = messages + Len(msgs)
    /\ chan' = [row EXCEPT ![p] =
                  [q \in Nodes |-> @[q] \o SelectSeq(msgs, LAMBDA m : m.to = q)]]

Neighbor(to) == [type |-> "neighbor", to |-> to]
Disconnect(to) == [type |-> "disconnect", to |-> to]

join(p, contact) ==
    LET v == add_active(View(p), contact) IN
    /\ <<p, contact>> \in Contacts \ joined
    /\ Becomes(p, v, chan, <<Neighbor(contact)>>)
    /\ joined' = joined \cup {<<p, contact>>}
    /\ evicted' = evicted \cup {<<p, q>> : q \in ToSet(v.out)}

\* The contact may also pass the newcomer on (the bootstrap's part, which the
\* crate leaves to its caller).
Forward(p, new) ==
    /\ Has(active[p], new) /\ Len(active[p]) > 1
    /\ LET to == Head(Without(active[p], new)) IN
       Becomes(p, View(p), chan, <<[type |-> "forward_join", to |-> to, node |-> new, ttl |-> MaxTtl]>>)
    /\ UNCHANGED <<joined, evicted>>

\* Views with no empty slot to fill and the evicted told
Evict(v, msgs) == msgs \o [i \in DOMAIN v.out |-> Disconnect(v.out[i])]

on_neighbor(p, q, row) ==
    LET v == add_active(View(p), q) IN Becomes(p, v, row, Evict(v, << >>))

on_forward_join(p, m, row) ==
    IF m.ttl = 0 \/ Len(active[p]) < ActiveCap
    THEN LET v == add_active(View(p), m.node)
         IN  Becomes(p, v, row, Evict(v, <<Neighbor(m.node)>>))
    ELSE Becomes(p, View(p), row, <<[m EXCEPT !.to = Head(active[p]), !.ttl = @ - 1]>>)

\* the peer that left becomes passive, and the oldest passive peer, perhaps
\* that very one, is promoted
on_disconnect(p, q, row) ==
    LET v == add_passive([View(p) EXCEPT !.active = Without(@, q)], q)
    IN  IF Len(v.active) < ActiveCap /\ v.passive # << >>
        THEN Becomes(p, [v EXCEPT !.active = Append(@, Head(v.passive)), !.passive = Tail(@)],
                     row, <<Neighbor(Head(v.passive))>>)
        ELSE Becomes(p, v, row, << >>)

Sampled(v, sample) == FoldLeft(LAMBDA w, x : add_passive(w, x), v, sample)

Shuffle(p, q) ==
    /\ Has(active[p], q)
    /\ Becomes(p, View(p), chan,
               <<[type |-> "shuffle", to |-> q,
                  sample |-> Take(active[p], 1) \o Take(passive[p], 1)]>>)
    /\ UNCHANGED <<joined, evicted>>

on_shuffle(p, q, m, row) ==
    Becomes(p, Sampled(View(p), m.sample), row,
            <<[type |-> "shuffle_reply", to |-> q, sample |-> Take(passive[p], Len(m.sample))]>>)

Receive(p, q) ==
    /\ chan[q][p] # << >>
    /\ LET m == Head(chan[q][p])
           row == [chan EXCEPT ![q][p] = Tail(@)]
       IN  CASE m.type = "neighbor" -> on_neighbor(p, q, row)
             [] m.type = "disconnect" -> on_disconnect(p, q, row)
             [] m.type = "forward_join" -> on_forward_join(p, m, row)
             [] m.type = "shuffle" -> on_shuffle(p, q, m, row)
             [] m.type = "shuffle_reply" ->
                    Becomes(p, Sampled(View(p), m.sample), row, << >>)
    /\ UNCHANGED <<joined, evicted>>

HvNext ==
    \E p \in Nodes, q \in Nodes :
        \/ join(p, q)
        \/ Forward(p, q)
        \/ Shuffle(p, q)
        \/ Receive(p, q)

HvSpec == HvInit /\ [][HvNext]_hvVars

-----------------------------------------------------------------------------
Quiet == \A p, q \in Nodes : chan[p][q] = << >>

\* No handler leaves a peer in both views, twice in one, or a node in its own
\* view, or a view beyond its size; and once no message is under way active
\* views are symmetric ("active (size = c1, small, symmetric)") but for peers
\* that a join dropped without a Disconnect.
ViewsSound ==
    /\ \A p \in Nodes :
          /\ Len(active[p]) <= ActiveCap /\ Len(passive[p]) <= PassiveCap
          /\ Cardinality(ToSet(active[p]) \cup ToSet(passive[p])) = Len(active[p]) + Len(passive[p])
          /\ p \notin ToSet(active[p]) \cup ToSet(passive[p])
    /\ Quiet => \A p, q \in Nodes : Has(active[p], q) => Has(active[q], p) \/ <<q, p>> \in evicted
=============================================================================
