---------------------------- MODULE CollabEditor ----------------------------
(***************************************************************************)
(* The platform's collaborative editor: RGA<char> behind CollabDocument    *)
(* and its browser facade. Peers edit; each polls the op log of every      *)
(* other in order (get_local_ops_json) and may be given an op again. An op *)
(* of one peer may overtake the op of another it refers to.                *)
(* A character is its position id: <<seq, node_id>>; None is the head.     *)
(***************************************************************************)
EXTENDS Integers, Sequences, SequencesExt, FiniteSets, FiniteSetsExt

CONSTANTS
    Peers,      \* node ids
    MaxSeq,     \* bound: sequence numbers
    MaxOps,     \* bound: operations of all peers
    MaxDeletes, \* bound: deletes
    MaxText     \* characters of one insert_text or delete_range

VARIABLES
    nodes,      \* nodes[p]: the RGA, tombstones included
    seq,        \* seq[p]: last sequence number used or seen
    ops,        \* ops[p]: local_ops
    polled,     \* polled[p][q]: ops of q applied by p so far
    early       \* history: <<p, op>>: ops p applied before the insert they refer to

edVars == <<nodes, seq, ops, polled, early>>

None == <<0, 0>>

EdInit ==
    /\ nodes = [p \in Peers |-> << >>]
    /\ seq = [p \in Peers |-> 0]
    /\ ops = [p \in Peers |-> << >>]
    /\ polled = [p \in Peers |-> [q \in Peers |-> 0]]
    /\ early = {}

Higher(a, b) == a[1] > b[1] \/ (a[1] = b[1] /\ a[2] > b[2])

Ids(s) == {s[i].id : i \in DOMAIN s}

\* Position in s of an id it holds
find_index(s, id) == CHOOSE i \in DOMAIN s : s[i].id = id

visible(s) == SelectSeq(s, LAMBDA n : ~n.deleted)

\* The id at a 1-based visible index; beyond the text there is none.
IdAt(s, i) == IF i \in DOMAIN visible(s) THEN visible(s)[i].id ELSE None

\* Just after the parent; at the front when it is the head or unknown
Start(s, parent) ==
    IF parent \in Ids(s) THEN find_index(s, parent) + 1 ELSE 1

\* The scan stops at once on a node that is no sibling; past a sibling of
\* higher priority it skips to the next sibling, or to the end.
find_insert_point(s, parent, id) ==
    LET start == Start(s, parent)
        sibling(i) == s[i].parent = parent
        lower(i) == sibling(i) /\ ~Higher(s[i].id, id)
        stops == {i \in start..Len(s) : lower(i)}
    IN  IF start > Len(s) \/ ~sibling(start) THEN start
        ELSE IF stops = {} THEN Len(s) + 1
             ELSE CHOOSE i \in stops : \A j \in stops : i <= j

Insert(s, op) ==
    IF op.id \in Ids(s) THEN s
    ELSE InsertAt(s, find_insert_point(s, op.parent, op.id),
                  [id |-> op.id, parent |-> op.parent, deleted |-> FALSE])

Delete(s, id) ==
    [i \in DOMAIN s |-> IF s[i].id = id THEN [s[i] EXCEPT !.deleted = TRUE] ELSE s[i]]

apply(s, op) ==
    IF op.kind = "insert" THEN Insert(s, op) ELSE Delete(s, op.id)

\* One character typed before the 0-based visible index pos; d carries the
\* document, its sequence number and the ops produced. saw is history: how
\* many ops of each peer the author had applied.
Typed(p, d, pos) ==
    LET op == [kind |-> "insert", id |-> <<d.seq + 1, p>>, parent |-> IdAt(d.nodes, pos),
               saw |-> polled[p]]
    IN  [nodes |-> Insert(d.nodes, op), seq |-> d.seq + 1, out |-> Append(d.out, op)]

Erased(d, pos) ==
    LET id == IdAt(d.nodes, pos + 1)
    IN  IF id = None THEN d
        ELSE [d EXCEPT !.nodes = Delete(@, id),
                       !.out = Append(@, [kind |-> "delete", id |-> id])]

Local(p) == [nodes |-> nodes[p], seq |-> seq[p], out |-> << >>]

Commit(p, d) ==
    /\ nodes' = [nodes EXCEPT ![p] = d.nodes]
    /\ seq' = [seq EXCEPT ![p] = d.seq]
    /\ ops' = [ops EXCEPT ![p] = @ \o d.out]
    /\ UNCHANGED <<polled, early>>

Made == MapThenSumSet(LAMBDA q : Len(ops[q]), Peers)

insert_text(p, pos, n) ==
    /\ Made + n <= MaxOps
    /\ \A q \in Peers : seq[q] + n <= MaxSeq
    /\ Commit(p, FoldLeft(LAMBDA d, i : Typed(p, d, pos + i - 1), Local(p), [i \in 1..n |-> i]))

Deletes == Cardinality({x \in Peers \X (1..(2 * MaxSeq + MaxDeletes)) :
                x[2] \in DOMAIN ops[x[1]] /\ ops[x[1]][x[2]].kind = "delete"})

delete_range(p, start, n) ==
    /\ Made + n <= MaxOps /\ Deletes + n <= MaxDeletes
    /\ Commit(p, FoldLeft(LAMBDA d, i : Erased(d, start), Local(p), [i \in 1..n |-> i]))

Seen(p, op) ==
    IF op.kind = "insert" /\ op.id \notin Ids(nodes[p]) /\ op.id[1] > seq[p]
    THEN op.id[1] ELSE seq[p]

RefersTo(op) == IF op.kind = "insert" THEN op.parent ELSE op.id

\* apply_remote_op_json: the next op of another peer, or one given again. A delete of
\* a character that is not there yet does nothing; an insert after one goes to the front.
apply_remote_op(p, q, i) ==
    LET op == ops[q][i]
    IN  /\ nodes' = [nodes EXCEPT ![p] = apply(@, op)]
        /\ seq' = [seq EXCEPT ![p] = Seen(p, op)]
        /\ polled' = [polled EXCEPT ![p][q] = IF i > @ THEN i ELSE @]
        /\ early' = IF RefersTo(op) \in Ids(nodes[p]) \cup {None} THEN early
                    ELSE early \cup {<<p, op>>}
        /\ UNCHANGED ops

EdNext ==
    \E p \in Peers :
        \/ \E pos \in 0..(Len(visible(nodes[p])) + 1), n \in 1..MaxText : insert_text(p, pos, n)
        \/ \E pos \in 0..Len(visible(nodes[p])), n \in 1..MaxText : delete_range(p, pos, n)
        \/ \E q \in Peers \ {p} :
              \E i \in 1..(polled[p][q] + 1) : i <= Len(ops[q]) /\ apply_remote_op(p, q, i)

EdSpec == EdInit /\ [][EdNext]_edVars

-----------------------------------------------------------------------------
Exchanged == \A p \in Peers : \A q \in Peers \ {p} : polled[p][q] = Len(ops[q])

\* Two peers typed after the same character, neither having seen the other's.
Blind ==
    \E p \in Peers : \E q \in Peers \ {p} :
        \E i \in DOMAIN ops[p], j \in DOMAIN ops[q] :
            /\ ops[p][i].kind = "insert" /\ ops[q][j].kind = "insert"
            /\ ops[p][i].parent = ops[q][j].parent /\ ops[p][i].parent # None
            /\ ops[p][i].saw[q] < j /\ ops[q][j].saw[p] < i

\* Editors that have exchanged all their operations hold the same characters. If every
\* op reached every peer after the insert it refers to they agree on what is deleted,
\* and show the characters in the same order, those two of them put at the front of the
\* text without having seen each other included: unless two typed after the same
\* character without having seen each other (find_insert_point, apply).
EditorsAgree ==
    Exchanged => \A p, q \in Peers :
                    /\ Ids(nodes[p]) = Ids(nodes[q])
                    /\ early = {} => ToSet(nodes[p]) = ToSet(nodes[q])
                    /\ early = {} /\ ~Blind => nodes[p] = nodes[q]

=============================================================================
